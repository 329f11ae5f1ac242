------------------------------ MODULE BlobAPI ------------------------------
(***************************************************************************)
(* What the methods of blob.Bucket, Reader and Writer do when they are     *)
(* called one at a time, over any of the drivers and with the wrappers for *)
(* prefixes and single keys.                                               *)
(*                                                                         *)
(* A bucket b has, next to what the driver keeps, the wrapper (wrap, its   *)
(* prefix or key wkey, and the prefixes wpre it puts before the target of  *)
(* a copy), whether it is closed, and the default options of writers.  A   *)
(* method returns the code of its error ("OK" if there is none), its       *)
(* value, and the bucket or the Reader or Writer as it leaves them.        *)
(***************************************************************************)
EXTENDS ListPaged

SniffLen == 2

\* A string with a byte that is not UTF-8 has a -1 in it.
ValidString(s) == \A i \in DOMAIN s : s[i] >= 0

NewBucket(driver, signers) ==
    [driver |-> driver, obj |-> << >>, dirs |-> {}, signer |-> signers > 0, signers |-> signers,
     wrap |-> "none", wkey |-> << >>, wpre |-> << >>, closed |-> FALSE, wdef |-> {}, absent |-> FALSE]

PrefixedBucket(b, prefix) ==
    [b EXCEPT !.wrap = IF @ = "none" THEN "prefix" ELSE @,
              !.wkey = IF b.wrap = "single" THEN @ ELSE @ \o prefix,
              !.wpre = @ \o prefix]

SingleKeyBucket(b, key) ==
    [b EXCEPT !.wrap = "single", !.wkey = IF b.wrap = "single" THEN @ ELSE @ \o key]

\* The query parameters "prefix" and "key" of the URL of a bucket.
ApplyPrefixParam(b, prefix, key) ==
    LET p == IF prefix = << >> THEN b ELSE PrefixedBucket(b, prefix)
    IN IF key = << >> THEN p ELSE SingleKeyBucket(p, key)

-----------------------------------------------------------------------------
(* driver.Bucket: the driver itself, or prefixedBucket or singleKeyBucket *)

PrefixedKey(b, key) == b.wkey \o key

\* Slip: as behind a prefix.
SingleKeyAsPrefix(b, key) == b.wkey \o key

SingleKey(b, key) == b.wkey

BaseKey(b, key) ==
    CASE b.wrap = "prefix" -> PrefixedKey(b, key)
      [] b.wrap = "single" -> SingleKey(b, key)
      [] OTHER -> key

DAttributes(b, key) ==
    LET k == BaseKey(b, key)
    IN CASE b.driver = "mem" -> MemAttributes(b, k)
         [] b.driver = "file" -> FileAttributes(b, k)
         [] b.driver = "s3" -> S3Attributes(b, k)
         [] b.driver = "azure" -> AzureAttributes(b, k)
         [] b.driver = "gcs" -> GCSAttributes(b, k)

DNewRangeReader(b, key, offset, length, cb) ==
    LET k == BaseKey(b, key)
    IN CASE b.driver = "mem" -> MemNewRangeReader(b, k, offset, length, cb)
         [] b.driver = "file" -> FileNewRangeReader(b, k, offset, length, cb)
         [] b.driver = "s3" -> S3NewRangeReader(b, k, offset, length, cb)
         [] b.driver = "azure" -> AzureNewRangeReader(b, k, offset, length, cb)
         [] b.driver = "gcs" -> GCSNewRangeReader(b, k, offset, length, cb)

DNewTypedWriter(b, key, type, o) ==
    LET k == BaseKey(b, key)
    IN CASE b.wrap = "prefix" /\ key = << >> -> WriterOf(Raw("invalid key"), << >>, type, o, o.md)
         [] b.driver = "mem" -> MemNewTypedWriter(b, k, type, o)
         [] b.driver = "file" -> FileNewTypedWriter(b, k, type, o)
         [] b.driver = "s3" -> S3NewTypedWriter(b, k, type, o)
         [] b.driver = "azure" -> AzureNewTypedWriter(b, k, type, o)
         [] b.driver = "gcs" -> GCSNewTypedWriter(b, k, type, o)

DWriterClose(b, w, body, done) ==
    CASE b.driver = "mem" -> MemWriterClose(b, w, body, done)
      [] b.driver = "file" -> FileWriterClose(b, w, body, done)
      [] b.driver = "s3" -> S3WriterClose(b, w, body, done)
      [] b.driver = "azure" -> AzureWriterClose(b, w, body, done)
      [] b.driver = "gcs" -> GCSWriterClose(b, w, body, done)

\* singleKeyBucket copies from its key to any other; prefixes go before both.
DCopy(b, dst, src, cb) ==
    LET s == BaseKey(b, src)
        d == b.wpre \o dst
    IN CASE b.driver = "mem" -> MemCopy(b, d, s, cb)
         [] b.driver = "file" -> FileCopy(b, d, s, cb)
         [] b.driver = "s3" -> S3Copy(b, d, s, cb)
         [] b.driver = "azure" -> AzureCopy(b, d, s, cb)
         [] b.driver = "gcs" -> GCSCopy(b, d, s, cb)

DDelete(b, key, cb) ==
    LET k == BaseKey(b, key)
    IN CASE b.driver = "mem" -> MemDelete(b, k, cb)
         [] b.driver = "file" -> FileDelete(b, k, cb)
         [] b.driver = "s3" -> S3Delete(b, k, cb)
         [] b.driver = "azure" -> AzureDelete(b, k, cb)
         [] b.driver = "gcs" -> GCSDelete(b, k, cb)

DSignedURL(b, key, o) ==
    LET k == BaseKey(b, key)
    IN CASE b.driver = "mem" -> MemSignedURL(b, k, o)
         [] b.driver = "file" -> FileSignedURL(b, k, o)
         [] b.driver = "s3" -> S3SignedURL(b, k, o)
         [] b.driver = "azure" -> AzureSignedURL(b, k, o)
         [] b.driver = "gcs" -> GCSSignedURL(b, k, o)

\* A service that has no such bucket says so; memblob and fileblob always
\* have one.
NoSuchBucket(b) ==
    CASE b.driver = "s3" -> Raw("NoSuchBucket") [] b.driver = "azure" -> Raw("404")
      [] b.driver = "gcs" -> Raw("404") [] OTHER -> NoErr

DListPaged(b, opts, size) ==
    LET o == [opts EXCEPT !.prefix = IF b.wrap = "prefix" THEN b.wkey \o @ ELSE @]
        page == DriverListPaged(b.driver, DOMAIN b.obj, o, size)
        trimmed(e) == IF b.wrap = "prefix" THEN [e EXCEPT !.key = SubSeq(@, Len(b.wkey) + 1, Len(@))] ELSE e
        nothing(err) == [err |-> err, objs |-> << >>, next |-> NoToken]
    IN CASE b.wrap = "single" -> nothing(Raw("List not supported"))
         [] b.wrap # "single" /\ b.absent /\ NoSuchBucket(b) # NoErr -> nothing(NoSuchBucket(b))
         [] OTHER -> [page EXCEPT !.objs = [i \in DOMAIN @ |-> trimmed(@[i])]]

\* The drivers that are a DownloaderAt; the wrappers are not.
DownloadsAt(b) == b.wrap = "none" /\ b.driver \in {"s3", "azure", "gcs"}

DDownloadAt(b, key, cb) ==
    CASE b.driver = "s3" -> S3DownloadAt(b, key, cb)
      [] b.driver = "azure" -> AzureDownloadAt(b, key, cb)
      [] b.driver = "gcs" -> GCSDownloadAt(b, key, cb)

DErrorCode(b, raw) ==
    CASE b.driver = "mem" -> MemErrorCode(raw)
      [] b.driver = "file" -> FileErrorCode(raw)
      [] b.driver = "s3" -> S3ErrorCode(raw)
      [] b.driver = "azure" -> AzureErrorCode(raw)
      [] b.driver = "gcs" -> GCSErrorCode(raw)

WrapError(b, err) == IF err.code = "Unknown" THEN DErrorCode(b, err.raw) ELSE err.code

-----------------------------------------------------------------------------
(* Reading *)

ErrClosed == "FailedPrecondition"

\* The first code of a list of checks that is not "OK".
FirstCode(codes) ==
    LET bad == {i \in DOMAIN codes : codes[i] # "OK"}
    IN IF bad = {} THEN "OK" ELSE codes[Min(bad)]
Check(ok, code) == IF ok THEN "OK" ELSE code

Attributes(b, key) ==
    LET a == DAttributes(b, key)
        code == FirstCode(<<Check(ValidString(key), "InvalidArgument"), Check(~b.closed, ErrClosed)>>)
        failed == IF code # "OK" THEN code ELSE WrapError(b, a.err)
    IN IF failed # "OK" THEN [code |-> failed]
       ELSE [code |-> "OK", val |-> [a.val EXCEPT !.md = Converted(@, ToLower, Same)]]

Exists(b, key) ==
    LET a == Attributes(b, key)
    IN [code |-> IF a.code = "NotFound" THEN "OK" ELSE a.code, val |-> a.code = "OK"]

\* A Reader: src is what the driver's reader has left.
NewRangeReader(b, key, offset, length, cb) ==
    LET code == FirstCode(<<Check(~b.closed, ErrClosed), Check(offset >= 0, "InvalidArgument"),
                            Check(ValidString(key), "InvalidArgument")>>)
        dr == DNewRangeReader(b, key, offset, length, cb)
        failed == IF code # "OK" THEN code ELSE WrapError(b, dr.err)
    IN IF failed # "OK" THEN [code |-> failed]
       ELSE [code |-> "OK",
             val |-> [key |-> key, baseOffset |-> offset, baseLength |-> length, relativeOffset |-> 0,
                      savedOffset |-> -1, src |-> dr.body, size |-> dr.size, type |-> dr.type]]

\* After a Seek to another place the driver's reader is made anew.
Reopened(b, r) ==
    LET length == IF r.baseLength >= 0 THEN r.baseLength - r.relativeOffset ELSE r.baseLength
        dr == DNewRangeReader(b, r.key, r.baseOffset + r.relativeOffset, length, "none")
    IN IF r.savedOffset \in {-1, r.relativeOffset} THEN [code |-> "OK", val |-> [r EXCEPT !.savedOffset = -1]]
       ELSE IF r.baseLength >= 0 /\ length < 0 THEN [code |-> "Internal"]
       ELSE IF dr.err # NoErr THEN [code |-> WrapError(b, dr.err)]
       ELSE [code |-> "OK", val |-> [r EXCEPT !.savedOffset = -1, !.src = dr.body, !.size = dr.size]]

\* Read of up to n bytes; no bytes are the end of the file.
Read(b, r, n) ==
    LET o == Reopened(b, r)
        got == Slice(o.val.src, 0, n)
    IN IF o.code # "OK" THEN [code |-> o.code]
       ELSE [code |-> "OK", val |-> got,
             r |-> [o.val EXCEPT !.relativeOffset = @ + Len(got), !.src = Slice(@, Len(got), -1)]]

MaxRelativeOffset(r) ==
    LET rest == r.size - r.baseOffset
    IN IF r.baseLength >= 0 /\ r.baseLength < rest THEN r.baseLength ELSE rest

Seek(r, offset, whence) ==
    LET max == MaxRelativeOffset(r)
        target == CASE whence = "start" -> offset
                    [] whence = "current" -> r.relativeOffset + offset
                    [] whence = "end" -> max + offset
        saved == [r EXCEPT !.savedOffset = IF @ = -1 THEN r.relativeOffset ELSE @]
    IN IF target < 0 THEN [code |-> "Unknown", val |-> 0, r |-> [saved EXCEPT !.relativeOffset = 0]]
       ELSE [code |-> "OK", val |-> Min({target, max}),
             r |-> [saved EXCEPT !.relativeOffset = Min({target, max})]]

ReadAll(b, key) ==
    LET r == NewRangeReader(b, key, 0, -1, "none")
    IN IF r.code # "OK" THEN r ELSE [code |-> "OK", val |-> r.val.src]

Download(b, key, parallel, cb) ==
    LET d == DDownloadAt(b, key, cb)
        r == NewRangeReader(b, key, 0, -1, cb)
    IN CASE b.closed -> [code |-> ErrClosed]
         [] ~b.closed /\ parallel /\ DownloadsAt(b) /\ ~ValidString(key) -> [code |-> "InvalidArgument"]
         [] ~b.closed /\ parallel /\ DownloadsAt(b) /\ ValidString(key) ->
                IF d.err # NoErr THEN [code |-> WrapError(b, d.err)] ELSE [code |-> "OK", val |-> d.val]
         [] OTHER -> IF r.code # "OK" THEN r ELSE [code |-> "OK", val |-> r.val.src]

-----------------------------------------------------------------------------
(* Listing *)

EndOfPages == <<-1>>

\* ListPage, with NoToken for the first page.  The drivers return full pages
\* here; how it fills a page from short ones is in module Listing.  The token
\* it returns is EndOfPages if there are no more.
ListPage(b, prefix, delim, token, size) ==
    LET d == DListPaged(b, [prefix |-> prefix, delim |-> delim, token |-> token], size)
        code == FirstCode(<<Check(size > 0, "InvalidArgument"), Check(~b.closed, ErrClosed)>>)
    IN IF code # "OK" THEN [code |-> code]
       ELSE IF d.err # NoErr THEN [code |-> WrapError(b, d.err)]
       ELSE [code |-> "OK", val |-> d.objs, next |-> IF d.next = NoToken THEN EndOfPages ELSE d.next]

\* The pages of a listing, as a list of pages.
ListPages(b, prefix, delim, size) ==
    LET page(t) == ListPage(b, prefix, delim, t, size)
        bound == Cardinality(DOMAIN b.obj) + 1
        pages[n \in 1..bound] ==
            IF n = 1 THEN <<page(NoToken)>>
            ELSE LET got == pages[n - 1]
                 IN IF Last(got).next = EndOfPages THEN got ELSE Append(got, page(Last(got).next))
        all == pages[bound]
    IN IF page(NoToken).code # "OK" THEN << >> ELSE [i \in DOMAIN all |-> all[i].val]

\* All that List returns.
DefaultPageSize == 1000
List(b, prefix, delim) == FlattenSeq(ListPages(b, prefix, delim, DefaultPageSize))

IsAccessible(b) ==
    LET r == ListPage(b, << >>, << >>, NoToken, 1)
    IN [code |-> IF r.code = "NotFound" THEN "OK" ELSE r.code, val |-> r.code = "OK"]

-----------------------------------------------------------------------------
(* Writing *)

\* WriterOptions.  given is FALSE for nil.
NoOptions == [given |-> FALSE, type |-> << >>, hdr |-> << >>, md |-> << >>, md5 |-> {},
              ifNotExist |-> FALSE, noDetect |-> FALSE, cb |-> "none"]
Options == [NoOptions EXCEPT !.given = TRUE]

SetDefaultWriterOptions(b, o) ==
    IF o.md5 # {} \/ o.cb # "none" THEN Result("InvalidArgument", b)
    ELSE Result("OK", [b EXCEPT !.wdef = {o}])

WriterOptionsOrDefault(b, o) ==
    IF o.given \/ b.wdef = {} THEN o ELSE CHOOSE d \in b.wdef : TRUE

\* http.DetectContentType: bytes that begin with 1 are a page, with 3 3 an
\* image, with 3 and something else unknown, and all others text.
Detect(p) ==
    CASE p = << >> -> <<"text">>
      [] p # << >> /\ p[1] = 1 -> <<"html">>
      [] Len(p) > 1 /\ p[1] = 3 /\ p[2] = 3 -> <<"jpeg">>
      [] p # << >> /\ p[1] = 3 /\ (Len(p) > 1 => p[2] # 3) -> <<"octets">>
      [] OTHER -> <<"text">>

\* mime.ParseMediaType fails.
Malformed(type) == type = <<"malformed">>

MetadataOK(md) ==
    /\ \A k \in DOMAIN md : k # << >> /\ ValidString(k) /\ ValidString(md[k])
    /\ \A j, k \in DOMAIN md : ToLower(j) = ToLower(k) => j = k

\* A Writer: dw is the driver's writer once it is open, buf what it has not
\* seen, body what it has; hashed is what the Writer was given.
NewWriter(b, key, opts) ==
    LET o == WriterOptionsOrDefault(b, opts)
        dopts == [o EXCEPT !.md = Converted(@, ToLower, Same)]
        typed == o.type # << >> \/ o.noDetect
        dw == DNewTypedWriter(b, key, o.type, dopts)
        code == FirstCode(<<Check(ValidString(key), "InvalidArgument"),
                            Check(MetadataOK(o.md), "InvalidArgument"),
                            Check(~b.closed, ErrClosed),
                            Check(~typed \/ ~Malformed(o.type), "Unknown")>>)
        failed == IF code # "OK" \/ ~typed THEN code ELSE WrapError(b, dw.err)
        made == IF code = "OK" /\ typed /\ b.driver = "file" THEN FileMkdirAll(b, BaseKey(b, key)) ELSE b
    IN IF failed # "OK" THEN [code |-> failed, b |-> made]
       ELSE [code |-> "OK", b |-> made,
             val |-> [key |-> key, o |-> dopts, open |-> typed, dw |-> dw, buf |-> << >>,
                      body |-> << >>, hashed |-> << >>, done |-> FALSE]]

\* Open the driver's writer for bytes of which the type is to be found out.
OpenWriter(b, w, p) ==
    LET dw == DNewTypedWriter(b, w.key, Detect(p), w.o)
        made == IF b.driver = "file" THEN FileMkdirAll(b, BaseKey(b, w.key)) ELSE b
    IN IF dw.err # NoErr THEN [code |-> WrapError(b, dw.err), b |-> made, w |-> w]
       ELSE [code |-> "OK", b |-> made,
             w |-> [w EXCEPT !.open = TRUE, !.dw = dw, !.buf = << >>, !.body = p]]

\* Slip: the type is that of the first bytes written.
WriteOpens(b, w, p) ==
    LET h == [w EXCEPT !.hashed = @ \o p]
    IN IF w.open THEN [code |-> "OK", b |-> b, w |-> [h EXCEPT !.body = @ \o p]]
       ELSE OpenWriter(b, h, p)

Write(b, w, p) ==
    LET h == [w EXCEPT !.hashed = @ \o p]
        buf == w.buf \o p
    IN IF w.open THEN [code |-> "OK", b |-> b, w |-> [h EXCEPT !.body = @ \o p]]
       ELSE IF Len(buf) >= SniffLen THEN OpenWriter(b, [h EXCEPT !.buf = buf], buf)
       ELSE [code |-> "OK", b |-> b, w |-> [h EXCEPT !.buf = buf]]

\* Cancelling the context of NewWriter.
CancelWriter(w) == [w EXCEPT !.done = TRUE]

CloseWriter(b, w) ==
    LET opened == IF w.open THEN [code |-> "OK", b |-> b, w |-> w] ELSE OpenWriter(b, w, w.buf)
        closed == DWriterClose(opened.b, opened.w.dw, opened.w.body, w.done)
        mismatch == w.o.md5 # {} /\ w.o.md5 # {w.hashed}
    IN IF mismatch THEN Result("FailedPrecondition",
                               IF w.open THEN DWriterClose(b, w.dw, w.body, TRUE).b ELSE b)
       ELSE IF opened.code # "OK" THEN Result(opened.code, opened.b)
       ELSE Result(WrapError(b, closed.err), closed.b)

WriteAll(b, key, p, opts) ==
    LET o == WriterOptionsOrDefault(b, opts)
        nw == NewWriter(b, key, [o EXCEPT !.md5 = IF @ = {} THEN {p} ELSE @, !.given = TRUE])
        wr == Write(nw.b, nw.val, p)
        closed == CloseWriter(wr.b, wr.w)
    IN IF nw.code # "OK" THEN Result(nw.code, nw.b)
       ELSE IF wr.code # "OK" THEN Result(wr.code, closed.b)
       ELSE Result(closed.err, closed.b)

\* Write in two pieces, the first of n bytes.
WriteChunks(b, key, p, n, o) ==
    LET nw == NewWriter(b, key, o)
        w1 == Write(nw.b, nw.val, Slice(p, 0, n))
        w2 == Write(w1.b, w1.w, Slice(p, n, -1))
    IN IF nw.code # "OK" THEN Result(nw.code, nw.b) ELSE CloseWriter(w2.b, w2.w)

Upload(b, key, p, o) ==
    LET nw == NewWriter(b, key, o)
        wr == Write(nw.b, nw.val, p)
    IN IF ~o.given \/ o.type = << >> THEN Result("InvalidArgument", b)
       ELSE IF nw.code # "OK" THEN Result(nw.code, nw.b)
       ELSE CloseWriter(wr.b, wr.w)

-----------------------------------------------------------------------------
(* The other methods *)

Copy(b, dst, src, cb) ==
    LET code == FirstCode(<<Check(ValidString(src), "InvalidArgument"),
                            Check(ValidString(dst), "InvalidArgument"), Check(~b.closed, ErrClosed)>>)
        c == DCopy(b, dst, src, cb)
    IN IF code # "OK" THEN Result(code, b) ELSE Result(WrapError(b, c.err), c.b)

DeleteWithOptions(b, key, cb) ==
    LET code == FirstCode(<<Check(ValidString(key), "InvalidArgument"), Check(~b.closed, ErrClosed)>>)
        d == DDelete(b, key, cb)
    IN IF code # "OK" THEN Result(code, b) ELSE Result(WrapError(b, d.err), d.b)

DefaultExpiry == 60

SignedURL(b, key, o) ==
    LET d == [expiry |-> IF o.expiry = 0 THEN DefaultExpiry ELSE o.expiry,
              method |-> IF o.method = "" THEN "GET" ELSE o.method,
              type |-> o.type, absent |-> o.absent, cb |-> "none"]
        code == FirstCode(<<Check(ValidString(key), "InvalidArgument"),
                            Check(o.expiry >= 0, "InvalidArgument"),
                            Check(o.method \in {"", "GET", "PUT", "DELETE"}, "Unknown"),
                            Check(o.type # << >> => o.method = "PUT", "Unknown"),
                            Check(o.absent => o.method = "PUT", "Unknown"),
                            Check(~b.closed, ErrClosed)>>)
        u == DSignedURL(b, key, d)
    IN IF code # "OK" THEN [code |-> code]
       ELSE IF u.err # NoErr THEN [code |-> WrapError(b, u.err)]
       ELSE [code |-> "OK", val |-> u.val]

CloseBucket(b) == Result(Check(~b.closed, ErrClosed), [b EXCEPT !.closed = TRUE])

=============================================================================
