----------------------------- MODULE BlobTests -----------------------------
(***************************************************************************)
(* The conformance tests of blob/drivertest, each as what it asserts of a  *)
(* bucket b that is new: the calls the test makes, one after the other, and*)
(* the outcomes it accepts.  The subtest DoesNotAliasAttributes of testCopy*)
(* is left out: it is about memory that two blobs share, and values share  *)
(* none.                                                                   *)
(*                                                                         *)
(* Keys and strings are sequences of code points; the names in the tests   *)
(* are shortened, and so are the contents.                                 *)
(***************************************************************************)
EXTENDS BlobAPI

CONSTANT Passes(_)   \* whether a test, a tuple of its name and parameters, passes

nonUTF8 == <<102, -1, 98>>
foo == <<102, 111, 111>>
bar == <<98, 97, 114>>
baz == <<98, 97, 122>>
dots == <<46, 46>>
f == <<47>>
bs == <<92>>

\* makeASCIIString.
ASCII(from, to) ==
    SelectSeq([i \in 1..to - from |-> from + i - 1], LAMBDA c : ~IsASCIIAlphanumeric(c))

WeirdStrings ==
    {foo \o f \o bar \o f \o baz,
     foo \o f \o f \o bar \o f \o f \o f \o baz,
     dots \o f \o foo \o f \o dots \o f \o bar \o f \o dots \o f \o dots \o f \o baz \o dots \o f,
     foo \o bs \o bar \o bs \o baz,
     dots \o bs \o foo \o bs \o bs \o bar \o bs \o bs \o bs \o baz,
     dots \o bs \o foo \o bs \o dots \o bs \o bar \o bs \o dots \o bs \o dots \o bs \o baz \o dots \o bs,
     foo \o <<34>> \o bar \o <<34>> \o baz,
     foo \o <<32>> \o bar \o <<32>> \o baz,
     <<49, 50, 51, 52, 53>>,
     <<9786, 9786, 9786>>}
    \union {ASCII(16 * n, 16 * n + 16) : n \in 0..7}

hello == <<4, 5, 6, 7, 8, 9>>
other == <<5, 5>>
html == <<1, 4, 5>>
jpg == <<3, 3, 4, 5>>
key == <<107>>

text == [Options EXCEPT !.type = <<"text">>]

Reads(b, k, body) == LET r == ReadAll(b, k) IN r.code = "OK" /\ r.val = body
Written(b, k, body) == WriteAll(b, k, body, NoOptions).b
KeysOf(objs) == [i \in DOMAIN objs |-> objs[i].key]

-----------------------------------------------------------------------------
testNonexistentBucket(b) ==
    LET gone == [b EXCEPT !.absent = TRUE]
    IN /\ NoSuchBucket(b) # NoErr => IsAccessible(gone).code = "OK" /\ ~IsAccessible(gone).val
       /\ IsAccessible(b).code = "OK" /\ IsAccessible(b).val

nthKey(i) == <<107, 45, 48 + i>>

\* Pages have the keys they should, whatever their size.
PagesOf(b, prefix, size, want) ==
    LET got == ListPages(b, prefix, << >>, size)
    IN [i \in DOMAIN got |-> KeysOf(got[i])] = want

\* PaginationConsistencyAfterInsert and -AfterDelete: a change in the page
\* that was listed does not show in the next one.
PaginationConsistency(b) ==
    LET first == ListPage(b, key, << >>, NoToken, 2)
        rest(c) == KeysOf(ListPage(c, key, << >>, first.next, DefaultPageSize).val)
    IN /\ KeysOf(first.val) = <<nthKey(0), nthKey(1)>>
       /\ rest(Written(b, Append(nthKey(0), 97), hello)) = <<nthKey(2)>>
       /\ rest(DeleteWithOptions(b, nthKey(1), "none").b) = <<nthKey(2)>>

testList(b) ==
    LET k(i) == nthKey(i)
        b3 == Written(Written(Written(b, k(0), hello), k(1), hello), k(2), hello)
    IN /\ PagesOf(b3, <<110>>, DefaultPageSize, << << >> >>)
       /\ PagesOf(b3, k(1), DefaultPageSize, << <<k(1)>> >>)
       /\ PagesOf(b3, key, DefaultPageSize, << <<k(0), k(1), k(2)>> >>)
       /\ PagesOf(b3, key, 1, << <<k(0)>>, <<k(1)>>, <<k(2)>> >>)
       /\ PagesOf(b3, key, 2, << <<k(0), k(1)>>, <<k(2)>> >>)
       /\ PagesOf(b3, key, 3, << <<k(0), k(1), k(2)>> >>)
       /\ PaginationConsistency(b3)

\* The test writes all the keys; here they are taken two at a time.
testListWeirdKeys(b) ==
    \A s, t \in WeirdStrings :
        LET full == Written(Written(b, key \o s, hello), key \o t, hello)
        IN ToSet(KeysOf(List(full, key, << >>))) = {key \o s, key \o t}

\* doList, with the blobs of directories in their place: three levels.
doList(b, prefix, delim) ==
    LET expand(objs) == FlattenSeq([i \in DOMAIN objs |->
            IF objs[i].dir THEN <<objs[i]>> \o List(b, objs[i].key, delim) ELSE <<objs[i]>>])
        top == List(b, prefix, delim)
        below == [i \in DOMAIN top |-> IF top[i].dir THEN <<top[i]>> \o expand(List(b, top[i].key, delim))
                                       ELSE <<top[i]>>]
    IN FlattenSeq(below)

\* What listings of the bucket have to be: flat, recursive, paged, and once
\* the only blob of a directory is gone.
DelimitedLists(b, prefix, d, want, gone) ==
    /\ KeysOf(List(b, prefix, << >>)) = want.flat
    /\ doList(b, prefix, d) = want.recursive
    /\ ListPages(b, prefix, d, 1) = want.paged
    /\ List(DeleteWithOptions(b, gone, "none").b, prefix, d) = want.afterDel

testListDelimiters(b) ==
    \A d \in {<<Slash>>, <<92>>, <<97, 98, 99>>} :
        LET prefix == key \o d
            dir1 == prefix \o <<49>> \o d   dir2 == prefix \o <<50>> \o d   sub == dir1 \o <<115>> \o d
            fa == dir1 \o <<65>>   fb == dir1 \o <<66>>   fc == sub \o <<67>>   fd == sub \o <<68>>
            fe == dir2 \o <<69>>   ff == prefix \o <<70>>
            full == FoldSet(LAMBDA k, c : Written(c, k, hello), b, {fa, fb, fc, fd, fe, ff})
            file(k) == [key |-> k, dir |-> FALSE]
            dir(k) == [key |-> k, dir |-> TRUE]
        IN DelimitedLists(full, prefix, d,
             [flat |-> <<fa, fb, fc, fd, fe, ff>>,
              recursive |-> <<dir(dir1), file(fa), file(fb), dir(sub), file(fc), file(fd), dir(dir2), file(fe),
                              file(ff)>>,
              paged |-> << <<dir(dir1)>>, <<dir(dir2)>>, <<file(ff)>> >>,
              afterDel |-> <<dir(dir1), file(ff)>>], fe)

testDirsWithCharactersBeforeDelimiter(b) ==
    LET prefix == key \o f
        names == {<<116, 102>>, <<116, 47, 116, 47, 116>>, <<116, 45, 47, 116, 46>>, <<100, 49, 47, 102>>,
                  <<100, 50, 47, 102>>, <<100>>}
        full == FoldSet(LAMBDA k, c : Written(c, prefix \o k, hello), b, names)
        want == <<prefix \o <<100>>, prefix \o <<100, 49, 47>>, prefix \o <<100, 50, 47>>,
                  prefix \o <<116, 45, 47>>, prefix \o <<116, 47>>, prefix \o <<116, 102>> >>
    IN \A size \in 1..10 : KeysOf(FlattenSeq(ListPages(full, prefix, f, size))) = want

-----------------------------------------------------------------------------
\* Read to the end, n bytes at a time.
ReadRest(b, r, n) ==
    LET step[i \in 0..Len(hello) + 1] ==
            IF i = 0 THEN [code |-> "OK", all |-> << >>, r |-> r]
            ELSE LET s == step[i - 1]
                     got == Read(b, s.r, n)
                 IN IF s.code # "OK" \/ got.code # "OK" THEN [s EXCEPT !.code = "failed"]
                    ELSE [code |-> "OK", all |-> s.all \o got.val, r |-> got.r]
    IN step[Len(hello) + 1]

\* iotest.TestReader (external): read it all, then seek and read again.
TestReader(b, r, want) ==
    LET n == Len(want)
        middle == n - n \div 3
        a == ReadRest(b, r, 1)
        s1 == Seek(a.r, 0, "current")
        s2 == Seek(s1.r, -1, "current")
        s3 == Seek(s2.r, -(n \div 3), "current")
        s4 == Seek(s3.r, 1, "current")
        c == ReadRest(b, IF middle > 0 THEN s4.r ELSE s1.r, 2)
        s5 == Seek(c.r, middle \div 2, "start")
        s6 == Seek(s5.r, -(n \div 3), "end")
        d == ReadRest(b, s6.r, 2)
        e == ReadRest(b, Seek(d.r, middle \div 2, "start").r, 2)
    IN /\ a.code = "OK" /\ a.all = want /\ s1.val = n
       /\ middle > 0 => s2.val = n - 1 /\ s4.val = middle
       /\ c.code = "OK" /\ c.all = SubSeq(want, middle + 1, n)
       /\ s6.val = middle /\ d.code = "OK" /\ d.all = SubSeq(want, middle + 1, n)
       /\ e.code = "OK" /\ e.all = SubSeq(want, middle \div 2 + 1, n)

testRead(b) ==
    LET b1 == Written(b, key, hello)
        wanted(offset, length, want) ==
            LET r == NewRangeReader(b1, key, offset, length, "none")
                got == Read(b1, r.val, Len(want) + 10)
            IN /\ r.code = "OK" /\ got.code = "OK" /\ got.val = want /\ r.val.size = Len(hello)
               /\ TestReader(b1, r.val, want)
    IN /\ NewRangeReader(b1, foo, 0, -1, "none").code # "OK"
       /\ NewRangeReader(b, key, -1, 0, "none").code # "OK"
       /\ wanted(0, 0, << >>)
       /\ wanted(2, -1, SubSeq(hello, 3, 6)) /\ wanted(2, 3, SubSeq(hello, 3, 5))
       /\ wanted(0, -1, hello) /\ wanted(0, -42, hello)

testAttributes(b) ==
    LET k == foo \o f \o bar
        o == [text EXCEPT !.hdr = <<"no-cache", "inline", "identity", "en">>]
        b1 == WriteAll(b, k, hello, o).b
        a == Attributes(b1, k)
        r == NewRangeReader(b1, k, 0, -1, "none")
    IN /\ \A bad \in {bar, foo, foo \o f} : Attributes(b1, bad).code = "NotFound"
       /\ a.code = "OK" /\ a.val.hdr = o.hdr /\ a.val.type = o.type /\ a.val.size = Len(hello)
       /\ r.code = "OK" /\ r.val.type = o.type /\ r.val.size = Len(hello)
       /\ Attributes(WriteAll(b1, k, hello, NoOptions).b, k).code = "OK"

-----------------------------------------------------------------------------
\* A write that is to fail has no effect.
WriteFails(b, exists, k, body, o) ==
    LET w == WriteChunks(IF exists THEN Written(b, key, other) ELSE b, k, body, Len(body), o)
        r == ReadAll(w.b, k)
    IN /\ w.err # "OK"
       /\ IF exists THEN r.code = "OK" /\ r.val = other
          ELSE r.code # "OK" /\ (k # << >> => r.code = "NotFound")

\* A write in chunks is read back, with a content type.
WriteWorks(b, body, chunk, o, types) ==
    LET w == WriteChunks(b, key, body, chunk, o)
    IN w.err = "OK" /\ Reads(w.b, key, body) /\ (types # {} => Attributes(w.b, key).val.type \in types)

testWrite(b) ==
    LET typed(type) == [Options EXCEPT !.type = type]
        hashed == [Options EXCEPT !.md5 = {hello}]
    IN /\ WriteFails(b, FALSE, << >>, << >>, Options)
       /\ WriteWorks(b, << >>, 0, Options, {})
       /\ WriteFails(b, FALSE, key, hello, typed(<<"malformed">>))
       /\ WriteWorks(b, html, 3, Options, {<<"html">>})
       /\ WriteWorks(b, html, 3, [Options EXCEPT !.noDetect = TRUE], {})
       /\ WriteWorks(b, html, 3, typed(<<"json">>), {<<"json">>})
       /\ WriteWorks(b, hello, 6, hashed, {})
       /\ WriteFails(b, FALSE, key, other, hashed) /\ WriteFails(b, TRUE, key, other \o other, hashed)
       /\ WriteWorks(b, other, 2, Options, {<<"text">>})
       /\ WriteWorks(b, jpg, 4, Options, {<<"jpeg">>}) /\ WriteWorks(b, jpg, 1, Options, {<<"jpeg">>})

testCanceledWrite(b) ==
    \A exists \in BOOLEAN, o \in {Options, text} :
        LET b1 == IF exists THEN WriteAll(b, key, hello, o).b ELSE b
            w == NewWriter(b1, key, o)
            wr == Write(w.b, w.val, other)
            closed == CloseWriter(wr.b, CancelWriter(wr.w))
            untouched(c) == IF exists THEN Reads(c, key, hello) ELSE ReadAll(c, key).code # "OK"
        IN w.code = "OK" /\ wr.code = "OK" /\ untouched(wr.b) /\ closed.err # "OK" /\ untouched(closed.b)

\* WriteAll of two blobs at the same time: the Writers are made, written to and
\* closed in any order.
Orders == {s \in [1..6 -> {1, 2}] : Cardinality({i \in 1..6 : s[i] = 1}) = 3}

WriterTurn(s, i) ==
    LET nw == NewWriter(s.b, nthKey(i), [Options EXCEPT !.md5 = {hello \o <<i>>}, !.given = TRUE])
        wr == Write(s.b, s.w[i], hello \o <<i>>)
        closed == CloseWriter(s.b, s.w[i])
        next == [s EXCEPT !.at[i] = @ + 1]
    IN CASE s.at[i] = 0 -> [next EXCEPT !.b = nw.b, !.w[i] = nw.val, !.ok = @ /\ nw.code = "OK"]
         [] s.at[i] = 1 -> [next EXCEPT !.b = wr.b, !.w[i] = wr.w, !.ok = @ /\ wr.code = "OK"]
         [] s.at[i] = 2 -> [next EXCEPT !.b = closed.b, !.ok = @ /\ closed.err = "OK"]

testConcurrentWriteAndRead(b) ==
    \A order \in Orders :
        LET s == FoldLeft(WriterTurn, [b |-> b, w |-> <<0, 0>>, at |-> <<0, 0>>, ok |-> TRUE], order)
        IN s.ok /\ \A i \in {1, 2} : Reads(s.b, nthKey(i), hello \o <<i>>)

testMetadata(b) ==
    LET write(md, type) == WriteAll(b, key, hello, [Options EXCEPT !.md = md, !.type = type])
        works(md, type, want) ==
            LET w == write(md, type)
            IN w.err = "OK" /\ Attributes(w.b, key).code = "OK" /\ Attributes(w.b, key).val.md = want
        fails(md) == write(md, << >>).err # "OK"
        ka == <<107, 95, 97>>   kB == <<75, 95, 66>>   kb == <<107, 95, 98>>
    IN /\ works(<< >>, << >>, << >>)
       /\ fails(<< >> :> foo)
       /\ fails((<<97, 98>> :> foo) @@ (<<97, 66>> :> bar))
       /\ works((ka :> foo) @@ (kB :> bar) @@ (foo :> kB), << >>, (ka :> foo) @@ (kb :> bar) @@ (foo :> kB))
       /\ works(foo :> bar, << >>, foo :> bar) /\ works(foo :> bar, <<"text">>, foo :> bar)
       /\ works([s \in WeirdStrings |-> s], << >>, [s \in WeirdStrings |-> s])
       /\ fails(nonUTF8 :> bar) /\ fails(foo :> nonUTF8)

testMD5(b) ==
    LET ka == Append(key, 97)   kb == Append(key, 98)
        b2 == Upload(Written(b, ka, hello), kb, other, text).b
        hashed(k, body) == Attributes(b2, k).code = "OK" /\ Attributes(b2, k).val.md5 \in {{}, {body}}
    IN hashed(ka, hello) /\ hashed(kb, other) /\ KeysOf(List(b2, key, << >>)) = <<ka, kb>>

-----------------------------------------------------------------------------
\* The destination has the content and the attributes of the source.
Copied(b, to) ==
    LET c == Copy(b, to, key, "none")
    IN c.err = "OK" /\ Reads(c.b, to, hello) /\ Attributes(c.b, to) = Attributes(b, key)

testCopy(b) ==
    LET dst == <<100>>   dstExists == <<101>>
        o == [text EXCEPT !.hdr = <<"no-cache", "inline", "identity", "en">>, !.md = foo :> bar]
        b1 == Written(WriteAll(b, key, hello, o).b, dstExists, other)
    IN /\ Copy(b, dst, bar, "none").err = "NotFound"
       /\ Copied(b1, dst) /\ Copied(b1, dstExists)

testDelete(b) ==
    LET b1 == Written(b, key, hello)
        d == DeleteWithOptions(b1, key, "none")
        failed == DeleteWithOptions(b1, key, "fails")
    IN /\ DeleteWithOptions(b, bar, "none").err = "NotFound"
       /\ d.err = "OK" /\ ReadAll(d.b, key).code = "NotFound"
       /\ DeleteWithOptions(d.b, key, "none").err = "NotFound"
       /\ DeleteWithOptions(b1, key, "ok").err = "OK"
       /\ failed.err # "OK" /\ Exists(failed.b, key).code = "OK" /\ Exists(failed.b, key).val

testUploadDownload(b) ==
    LET u == Upload(b, key, hello, text)
        whole(parallel) == LET d == Download(u.b, key, parallel, "none") IN d.code = "OK" /\ d.val = hello
    IN /\ u.err = "OK" /\ whole(FALSE) /\ whole(TRUE)
       /\ Upload(u.b, key, hello, [text EXCEPT !.md5 = {hello}]).err = "OK"

\* What the service answers to a request with a URL (external), signed or
\* without its parameters; the handler of fileblob's tests wants the very
\* content type of the URL.
Request(b, url, signed, method, type, body) ==
    LET k == IF b.driver = "file" THEN FilePath(url.obj) ELSE url.obj
        typeOK == IF b.driver = "file" THEN type = url.type
                  ELSE (url.type # << >> => type = url.type) /\ (url.absent => type = << >>)
        allowed == signed /\ url.method = method /\ (method = "PUT" => typeOK)
    IN CASE ~allowed -> [code |-> 403, b |-> b, body |-> << >>]
         [] allowed /\ method = "PUT" ->
                [code |-> 200, b |-> With(b, k, Object(body, [type |-> type, hdr |-> << >>, md |-> << >>])),
                 body |-> << >>]
         [] allowed /\ method # "PUT" /\ ~Has(b, k) -> [code |-> 404, b |-> b, body |-> << >>]
         [] allowed /\ method = "GET" /\ Has(b, k) -> [code |-> 200, b |-> b, body |-> b.obj[k].body]
         [] OTHER -> [code |-> 200, b |-> Without(b, {k}), body |-> << >>]

SignOptions(method, type, absent) == [expiry |-> 0, method |-> method, type |-> type, absent |-> absent]

testKeys(b) ==
    /\ WriteAll(b, key \o nonUTF8, hello, NoOptions).err # "OK"
    /\ \A s \in WeirdStrings :
          LET k == key \o s
              w == WriteAll(b, k, hello, NoOptions)
              url == SignedURL(w.b, k, SignOptions("", << >>, FALSE))
              got == Request(w.b, url.val, TRUE, "GET", << >>, << >>)
              c == Copy(w.b, k \o foo, k, "none")
          IN /\ w.err = "OK" /\ Reads(w.b, k, hello) /\ Attributes(w.b, k).code = "OK"
             /\ url.code # "Unimplemented" => url.code = "OK" /\ got.code = 200 /\ got.body = hello
             /\ c.err = "OK" /\ Reads(c.b, k \o foo, hello)

\* The answer to a request with a URL, or that it must be refused when the
\* driver gives such a URL at all.
UseURL(b, u, method, type) == Request(b, u.val, TRUE, method, type, hello)
URLRefused(b, u, method, type) == u.code = "OK" => UseURL(b, u, method, type).code = 403

\* Only a URL for PUT puts, and with the content type it was made for.
SignedPut(b, url) ==
    LET puts(u, type) == u.code = "OK" => UseURL(b, u, "PUT", type).code = 200
    IN /\ URLRefused(b, url.get, "PUT", << >>) /\ URLRefused(b, url.del, "PUT", << >>)
       /\ puts(url.putTyped, <<"text">>) /\ URLRefused(b, url.putTyped, "PUT", <<"octets">>)
       /\ URLRefused(b, url.putTyped, "PUT", << >>)
       /\ puts(url.putNone, << >>) /\ URLRefused(b, url.putNone, "PUT", <<"octets">>)
       /\ puts(url.put, << >>)

\* Only a URL for GET gets, with its signature.
SignedGet(b, url) ==
    LET got == UseURL(b, url.get, "GET", << >>)
    IN /\ URLRefused(b, url.del, "GET", << >>) /\ URLRefused(b, url.put, "GET", << >>)
       /\ Request(b, url.get.val, FALSE, "GET", << >>, << >>).code = 403
       /\ got.code = 200 /\ got.body = hello

\* Only a URL for DELETE deletes, and then the blob is gone.
SignedDelete(b, url) ==
    LET deleted == UseURL(b, url.del, "DELETE", << >>)
    IN /\ URLRefused(b, url.get, "DELETE", << >>) /\ URLRefused(b, url.put, "DELETE", << >>)
       /\ url.del.code = "OK" => deleted.code = 200 /\ UseURL(deleted.b, url.get, "GET", << >>).code = 404

testSignedURL(b) ==
    LET sign(method, type, absent) == SignedURL(b, key, SignOptions(method, type, absent))
        url == [get |-> sign("", << >>, FALSE), put |-> sign("PUT", << >>, FALSE),
                putTyped |-> sign("PUT", <<"text">>, FALSE), putNone |-> sign("PUT", << >>, TRUE),
                del |-> sign("DELETE", << >>, FALSE)]
        stored == UseURL(b, url.put, "PUT", << >>).b
    IN /\ SignedURL(b, key, [SignOptions("", << >>, FALSE) EXCEPT !.expiry = -1]).code # "OK"
       /\ url.get.code \in {"OK", "Unimplemented"}
       /\ url.get.code = "OK" =>
            /\ \A u \in {url.putTyped, url.putNone, url.del} : u.code \in {"OK", "Unimplemented"}
            /\ url.put.code = "OK"
            /\ SignedPut(b, url) /\ SignedGet(stored, url) /\ SignedDelete(stored, url)

\* The callbacks are called and their errors are returned.
testAs(b) ==
    LET k == foo \o f \o key
        w == WriteAll(b, k, hello, [Options EXCEPT !.cb = "ok"])
        c == Copy(w.b, k \o bar, k, "ok")
    IN /\ w.err = "OK" /\ Attributes(w.b, k).code = "OK"
       /\ NewRangeReader(w.b, k, 0, -1, "ok").code = "OK"
       /\ Len(List(w.b, foo, f)) = 1 /\ Len(List(w.b, k, << >>)) = 1
       /\ NewRangeReader(w.b, bar, 0, -1, "none").code # "OK"
       /\ c.err = "OK" /\ DeleteWithOptions(c.b, k \o bar, "ok").err = "OK"
       /\ \A m \in {"GET", "PUT", "DELETE"} :
             SignedURL(w.b, k, SignOptions(m, << >>, FALSE)).code \in {"OK", "Unimplemented"}

testIfNotExist(b) ==
    LET o == [text EXCEPT !.ifNotExist = TRUE]
        w1 == WriteChunks(b, key, hello, 6, o)
    IN w1.err = "OK" /\ WriteChunks(w1.b, key, hello, 6, o).err = "FailedPrecondition"

-----------------------------------------------------------------------------
BlobTestNames == {"NonexistentBucket", "List", "ListWeirdKeys", "ListDelimiters",
    "DirsWithCharactersBeforeDelimiter", "Read", "Attributes", "Write", "CanceledWrite",
    "ConcurrentWriteAndRead", "UploadDownload", "Metadata", "MD5", "Copy", "Delete", "Keys",
    "SignedURL", "As", "IfNotExist"}

RunBlobTest(test, b) ==
    CASE test = "NonexistentBucket" -> testNonexistentBucket(b)
      [] test = "List" -> testList(b)
      [] test = "ListWeirdKeys" -> testListWeirdKeys(b)
      [] test = "ListDelimiters" -> testListDelimiters(b)
      [] test = "DirsWithCharactersBeforeDelimiter" -> testDirsWithCharactersBeforeDelimiter(b)
      [] test = "Read" -> testRead(b)
      [] test = "Attributes" -> testAttributes(b)
      [] test = "Write" -> testWrite(b)
      [] test = "CanceledWrite" -> testCanceledWrite(b)
      [] test = "ConcurrentWriteAndRead" -> testConcurrentWriteAndRead(b)
      [] test = "UploadDownload" -> testUploadDownload(b)
      [] test = "Metadata" -> testMetadata(b)
      [] test = "MD5" -> testMD5(b)
      [] test = "Copy" -> testCopy(b)
      [] test = "Delete" -> testDelete(b)
      [] test = "Keys" -> testKeys(b)
      [] test = "SignedURL" -> testSignedURL(b)
      [] test = "As" -> testAs(b)
      [] test = "IfNotExist" -> testIfNotExist(b)


\* Any test of the suite is run, on its own; a tuple of one element is no test.
Conforms(test) == Len(test) > 1 => Passes(test)
=============================================================================
