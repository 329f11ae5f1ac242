----------------------------- MODULE ListPaged -----------------------------
(***************************************************************************)
(* What one call of ListPaged returns, of memblob, fileblob, s3blob,       *)
(* azureblob and gcsblob: a page of entries and the token of the next.     *)
(*                                                                         *)
(* names are the names of the objects as the driver stores them, o has the *)
(* prefix, the delimiter (empty for none) and the token of the call.       *)
(***************************************************************************)
EXTENDS BlobDrivers

NoToken == << >>

\* Comparison of strings, as of Go's <.
Less(s, t) ==
    \E n \in 0..Len(s) :
        /\ n < Len(t) /\ SubSeq(s, 1, n) = SubSeq(t, 1, n)
        /\ n = Len(s) \/ s[n + 1] < t[n + 1]

\* The entry a key is listed as: itself, or the "directory" it is in.
Entry(key, prefix, delim) ==
    LET rest == SubSeq(key, Len(prefix) + 1, Len(key))
        ends == {i \in DOMAIN rest : IsSuffix(delim, SubSeq(rest, 1, i))}
    IN IF delim = << >> \/ ends = {} THEN [key |-> key, dir |-> FALSE]
       ELSE [key |-> prefix \o SubSeq(rest, 1, Min(ends)), dir |-> TRUE]

Matching(S, prefix) == {k \in S : IsPrefix(prefix, k)}

-----------------------------------------------------------------------------
(* memblob *)

\* The state of the loop: the page, the last directory added, the last key
\* added, the token of the next page, and whether the loop has been left.
Loop == [objs |-> << >>, lastPrefix |-> << >>, lastKey |-> << >>, next |-> NoToken, stop |-> FALSE]

\* One key of the loop over all keys.
MemVisit(s, key, o, size) ==
    LET e == Entry(key, o.prefix, o.delim)
        t == IF e.dir THEN [s EXCEPT !.lastPrefix = e.key] ELSE s
    IN CASE s.stop \/ (e.dir /\ e.key = s.lastPrefix)             -> s
         [] ~s.stop /\ o.token # NoToken /\ ~Less(o.token, e.key)  -> t
         [] OTHER -> IF Len(s.objs) = size
                     THEN [t EXCEPT !.next = s.objs[size].key, !.stop = TRUE]
                     ELSE [t EXCEPT !.objs = Append(@, e)]

MemListPaged(names, o, size) ==
    LET s == FoldLeft(LAMBDA st, key : MemVisit(st, key, o, size), Loop,
                      Ordered(Matching(names, o.prefix), Less))
    IN [err |-> NoErr, objs |-> s.objs, next |-> s.next]

-----------------------------------------------------------------------------
(* fileblob *)

\* filepath.WalkDir reads every directory in the order of its names: paths
\* are compared component by component, so that "a/x" is visited before
\* "a-b".
WalksBefore(p, q) ==
    \E n \in 1..Min({Len(p), Len(q)}) : SubSeq(p, 1, n - 1) = SubSeq(q, 1, n - 1) /\ Less(p[n], q[n])

KeyOfPath(path) ==
    HexUnescape(FoldLeft(LAMBDA s, c : s \o <<Slash>> \o c, Head(path), Tail(path)))

\* The directory the walk starts from: what the prefix has before its last
\* slash, joined with the directory of the bucket and cleaned, but not
\* escaped as the keys are.
WalkRoot(prefix) ==
    LET cut == Max({0} \union {i \in DOMAIN prefix : prefix[i] = Slash})
        parts == SelectSeq(Components(SubSeq(prefix, 1, cut)), LAMBDA p : p \notin {<< >>, <<Dot>>})
        enter(r, p) == IF p # <<Dot, Dot>> THEN [r EXCEPT !.path = Append(@, p)]
                       ELSE IF r.path = << >> THEN [r EXCEPT !.escapes = TRUE]
                       ELSE [r EXCEPT !.path = Front(@)]
    IN FoldLeft(enter, [path |-> << >>, escapes |-> FALSE], parts)

\* After an object is added: swap it with the one before if it sorts before
\* the last key added.
SwapLast(s, e) ==
    LET objs == Append(s.objs, e)
        i == Len(objs)
    IN IF i > 1 /\ Less(e.key, s.lastKey)
       THEN [s EXCEPT !.objs = [objs EXCEPT ![i - 1] = objs[i], ![i] = objs[i - 1]],
                      !.lastKey = objs[i - 1].key]
       ELSE [s EXCEPT !.objs = objs, !.lastKey = e.key]

\* The callback of the walk, for a file.
FileVisit(s, key, o, size) ==
    LET e == Entry(key, o.prefix, o.delim)
        t == IF e.dir THEN [s EXCEPT !.lastPrefix = e.key] ELSE s
    IN CASE s.stop \/ (e.dir /\ e.key = s.lastPrefix)             -> s
         [] ~s.stop /\ o.token # NoToken /\ ~Less(o.token, e.key)  -> t
         [] OTHER -> IF Len(s.objs) = size /\ ~e.dir /\ Less(s.objs[size].key, e.key)
                     THEN [t EXCEPT !.next = s.objs[size].key, !.stop = TRUE]
                     ELSE SwapLast(t, e)

\* What is beyond the page is cut off after the walk.  (The directories the
\* callback skips hold no key that could be added.)
FileListPaged(names, o, size) ==
    LET root == WalkRoot(o.prefix)
        walked == {p \in names : IsPrefix(root.path, p) /\ IsPrefix(o.prefix, KeyOfPath(p))}
        s == FoldLeft(LAMBDA st, path : FileVisit(st, KeyOfPath(path), o, size), Loop,
                      Ordered(walked, WalksBefore))
    IN CASE root.escapes -> [err |-> Raw("escapes bucket root"), objs |-> << >>, next |-> NoToken]
         [] ~root.escapes /\ Len(s.objs) > size ->
                [err |-> NoErr, objs |-> SubSeq(s.objs, 1, size), next |-> s.objs[size].key]
         [] OTHER -> [err |-> NoErr, objs |-> s.objs, next |-> s.next]

-----------------------------------------------------------------------------
(***************************************************************************)
(* s3blob, azureblob and gcsblob: the service (external) lists entries     *)
(* after the token, n of them at most, blobs apart from directories.       *)
(***************************************************************************)
EntryLess(e, f) == Less(e.key, f.key)

ServicePage(names, o, n) ==
    LET all == {Entry(k, o.prefix, o.delim) : k \in Matching(names, o.prefix)}
        rest == Ordered({e \in all : o.token = NoToken \/ Less(o.token, e.key)}, EntryLess)
        some == SubSeq(rest, 1, Min({n, Len(rest)}))
    IN [contents |-> SelectSeq(some, LAMBDA e : ~e.dir),
        prefixes |-> SelectSeq(some, LAMBDA e : e.dir),
        next |-> IF n < Len(rest) THEN IF n = 0 THEN o.token ELSE rest[n].key ELSE NoToken]

Unescaped(objs) == [i \in DOMAIN objs |-> [objs[i] EXCEPT !.key = HexUnescape(@)]]
Sorted(objs) == SortSeq(Unescaped(objs), EntryLess)

\* s3blob: blobs, then directories; sorted if there are both.
S3ListPaged(names, o, n) ==
    LET r == ServicePage(names, [o EXCEPT !.prefix = S3EscapeKey(@), !.delim = S3EscapeKey(@)], n)
        objs == r.contents \o r.prefixes
    IN [err |-> NoErr, next |-> r.next,
        objs |-> IF r.contents # << >> /\ r.prefixes # << >> THEN Sorted(objs) ELSE Unescaped(objs)]

\* azureblob: the other way round.
AzureListPaged(names, o, n) ==
    LET r == ServicePage(names, [o EXCEPT !.prefix = AzureEscapeKey(@, TRUE),
                                          !.delim = AzureEscapeKey(@, TRUE)], n)
        objs == r.prefixes \o r.contents
    IN [err |-> NoErr, next |-> r.next,
        objs |-> IF r.contents # << >> /\ r.prefixes # << >> THEN Sorted(objs) ELSE Unescaped(objs)]

\* gcsblob: the pager fills its page, directories come last; always sorted.
GCSListPaged(names, o, size) ==
    LET r == ServicePage(names, [o EXCEPT !.prefix = GCSEscapeKey(@), !.delim = GCSEscapeKey(@)], size)
    IN [err |-> NoErr, next |-> r.next, objs |-> Sorted(r.contents \o r.prefixes)]

-----------------------------------------------------------------------------
(* The drivers *)

\* The name a driver gives to the object of a key.
NameOf(driver, key) ==
    CASE driver = "mem"   -> key
      [] driver = "file"  -> FilePath(key)
      [] driver = "s3"    -> S3EscapeKey(key)
      [] driver = "azure" -> AzureEscapeKey(key, FALSE)
      [] driver = "gcs"   -> GCSEscapeKey(key)

Names(driver, keys) == {NameOf(driver, k) : k \in keys}

DriverListPaged(driver, names, o, size) ==
    CASE driver = "mem"   -> MemListPaged(names, o, size)
      [] driver = "file"  -> FileListPaged(names, o, size)
      [] driver = "s3"    -> S3ListPaged(names, o, size)
      [] driver = "azure" -> AzureListPaged(names, o, size)
      [] driver = "gcs"   -> GCSListPaged(names, o, size)

=============================================================================
