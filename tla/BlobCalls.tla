----------------------------- MODULE BlobCalls -----------------------------
(***************************************************************************)
(* Any sequence of calls on a bucket, over each of the drivers and         *)
(* wrappers, next to a map from keys to blobs that is what a caller of the *)
(* portable API has in mind.  At most one Writer is open, while other      *)
(* calls go on.                                                            *)
(***************************************************************************)
EXTENDS BlobAPI

CONSTANTS
    Call(_, _),   \* Call(b, c): what the bucket does when the call c is made on it
    Drivers,      \* the drivers to check
    Keys, Bodies, \* keys and contents of blobs
    Prefix, One   \* prefix of the prefixed bucket, key of the single-key bucket

VARIABLES
    bucket,   \* the bucket
    ref,      \* the map: key to body and content type
    writer,   \* the Writers that are open: at most one
    agrees    \* the last call returned what the map makes a caller expect

vars == <<bucket, ref, writer, agrees>>

\* A bound: a Writer is given at most as many bytes as it sniffs.
MaxWritten == SniffLen

\* Default options of writers, which apply where a caller gives none.
Defaults == [Options EXCEPT !.type = <<"json">>]

\* Calls of the methods of Bucket and Writer: a record with the arguments.
On(op, k) == [op |-> op, key |-> k]

Put(r, k, body, type) == (k :> [body |-> body, type |-> type]) @@ r

\* Behind a SingleKey bucket all keys are one.
RefKey(k) == IF bucket.wrap = "single" THEN One ELSE k

\* A bucket as it is, behind a prefix, or behind a single key and with defaults.
Init ==
    /\ \E d \in Drivers, param \in {<< << >>, << >> >>, <<Prefix, << >> >>, <<Prefix, One>>} :
          LET b == ApplyPrefixParam(NewBucket(d, 0), param[1], param[2])
          IN bucket = IF param[2] = << >> THEN b ELSE SetDefaultWriterOptions(b, Defaults).b
    /\ ref = << >> /\ writer = {} /\ agrees = TRUE

\* The code of a call: a bucket that is closed refuses all calls.
Expect(code) == IF bucket.closed THEN ErrClosed ELSE code

\* Bucket.WriteAll, and so NewWriter, Write and Close in one step.
CallWriteAll(k, body) ==
    LET r == Call(bucket, On("WriteAll", k) @@ [body |-> body])
    IN /\ bucket' = r.b
       /\ ref' = IF bucket.closed THEN ref
                 ELSE Put(ref, RefKey(k), body,
                          IF bucket.wdef = {} THEN Detect(body) ELSE Defaults.type)
       /\ agrees' = (r.err = Expect("OK"))
       /\ UNCHANGED writer

\* NewWriter: a plain one, or one with IfNotExist and a content type.
CallNewWriter(k, exclusive) ==
    LET o == [Options EXCEPT !.ifNotExist = exclusive, !.type = IF exclusive THEN <<"json">> ELSE << >>]
        r == Call(bucket, On("NewWriter", k) @@ [o |-> o])
    IN /\ writer = {}
       /\ bucket' = r.b /\ agrees' = (r.code = Expect("OK"))
       /\ writer' = IF r.code = "OK" THEN {r.val} ELSE {}
       /\ UNCHANGED ref

CallWrite(p) ==
    \E w \in writer :
        LET r == Call(bucket, [op |-> "Write", w |-> w, body |-> p])
        IN /\ Len(w.hashed \o p) <= MaxWritten
           /\ bucket' = r.b /\ writer' = {r.w} /\ agrees' = (r.code = "OK")
           /\ UNCHANGED ref

\* Close; cancelled says whether the context of the Writer has been cancelled.
CallClose(cancelled) ==
    \E w \in writer :
        LET r == Call(bucket, [op |-> "CloseWriter", w |-> IF cancelled THEN CancelWriter(w) ELSE w])
            k == RefKey(w.key)
            refused == w.o.ifNotExist /\ k \in DOMAIN ref
            type == IF w.o.type = << >> THEN Detect(w.hashed) ELSE w.o.type
        IN /\ bucket' = r.b /\ writer' = {}
           /\ ref' = IF cancelled \/ refused THEN ref ELSE Put(ref, k, w.hashed, type)
           /\ agrees' = IF cancelled THEN r.err # "OK"
                        ELSE r.err = (IF refused THEN "FailedPrecondition" ELSE "OK")

\* A copy through a SingleKey bucket goes to a key nobody can read there.
CallCopy(dst, src) ==
    LET r == Call(bucket, On("Copy", dst) @@ [src |-> src])
        found == RefKey(src) \in DOMAIN ref
    IN /\ bucket' = r.b
       /\ ref' = IF found /\ ~bucket.closed /\ bucket.wrap # "single"
                 THEN Put(ref, dst, ref[src].body, ref[src].type) ELSE ref
       /\ agrees' = (r.err = Expect(IF found THEN "OK" ELSE "NotFound"))
       /\ UNCHANGED writer

CallDelete(k) ==
    LET r == Call(bucket, On("Delete", k))
        found == RefKey(k) \in DOMAIN ref
    IN /\ bucket' = r.b
       /\ ref' = IF bucket.closed THEN ref ELSE [j \in DOMAIN ref \ {RefKey(k)} |-> ref[j]]
       /\ agrees' = (r.err = Expect(IF found THEN "OK" ELSE "NotFound"))
       /\ UNCHANGED writer

\* Bucket.Close, also while a Writer is open: that one goes on.
CallCloseBucket ==
    LET r == Call(bucket, [op |-> "Close"])
    IN bucket' = r.b /\ agrees' = (r.err = Expect("OK")) /\ UNCHANGED <<ref, writer>>

Next ==
    \/ \E k \in Keys : \/ \E body \in Bodies : CallWriteAll(k, body)
                       \/ \E exclusive \in BOOLEAN : CallNewWriter(k, exclusive)
                       \/ \E src \in Keys : CallCopy(k, src)
                       \/ CallDelete(k)
    \/ \E body \in Bodies : body # << >> /\ CallWrite(body)
    \/ \E cancelled \in BOOLEAN : CallClose(cancelled)
    \/ CallCloseBucket

-----------------------------------------------------------------------------
\* What a read of the blob returns, in full and of its second byte.
ReadsAgree(k) ==
    LET all == Call(bucket, On("ReadAll", k))
        r == Call(bucket, On("NewRangeReader", k))
        body == ref[RefKey(k)].body
    IN IF RefKey(k) \notin DOMAIN ref THEN all.code = "NotFound"
       ELSE /\ all.code = "OK" /\ all.val = body
            /\ Len(body) > 1 => r.code = "OK" /\ r.val.src = <<body[2]>> /\ r.val.size = Len(body)

\* What Download writes, with AllowParallelDownload and an io.WriterAt or not.
DownloadAgrees(k, parallel) ==
    LET d == Call(bucket, On("Download", k) @@ [parallel |-> parallel])
    IN IF RefKey(k) \notin DOMAIN ref THEN d.code = "NotFound"
       ELSE d.code = "OK" /\ d.val = ref[RefKey(k)].body

\* gcsblob.DownloadAt does not escape the key.
AsksUnescaped(k) == bucket.driver = "gcs" /\ GCSEscapeKey(k) # k

AttributesAgree(k) ==
    LET a == Call(bucket, On("Attributes", k))
        e == Call(bucket, On("Exists", k))
        o == ref[RefKey(k)]
    IN /\ e.code = "OK" /\ e.val = (RefKey(k) \in DOMAIN ref)
       /\ IF RefKey(k) \notin DOMAIN ref THEN a.code = "NotFound"
          ELSE a.code = "OK" /\ a.val.type = o.type /\ a.val.size = Len(o.body) /\ a.val.md5 = {o.body}

ListAgrees ==
    LET listed == Call(bucket, [op |-> "List"])
    IN IF bucket.wrap = "single" THEN Call(bucket, [op |-> "ListPage"]).code # "OK"
       ELSE [i \in DOMAIN listed |-> listed[i].key] = Ordered(DOMAIN ref, Less)

Refuses(k) ==
    \A op \in {"ReadAll", "Download", "Attributes", "Exists", "ListPage"} :
        Call(bucket, On(op, k) @@ [parallel |-> FALSE]).code = ErrClosed

\* After any sequence of calls every driver, behind every wrapper, answers as
\* the map: what was written last is read, its attributes and its place in
\* the list are right; what was cancelled, refused or deleted has left no
\* trace; each call reported success or the code the caller should see; and
\* a bucket that was closed refuses everything.  Excepted is the parallel
\* download from gcsblob of a blob whose key is escaped.
Portable ==
    /\ agrees
    /\ IF bucket.closed THEN \A k \in Keys : Refuses(k)
       ELSE /\ ListAgrees
            /\ \A k \in Keys :
                  /\ ReadsAgree(k) /\ AttributesAgree(k)
                  /\ \A parallel \in {FALSE, DownloadsAt(bucket) /\ ~AsksUnescaped(k)} :
                        DownloadAgrees(k, parallel)

=============================================================================
