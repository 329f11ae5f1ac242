---------------------------- MODULE BlobDrivers ----------------------------
(***************************************************************************)
(* What a call of each method of the blob drivers does: memblob, fileblob, *)
(* s3blob, azureblob and gcsblob.  Calls are taken one at a time here; how *)
(* they interleave is the subject of module Blob, and listing of module    *)
(* Listing.                                                                *)
(*                                                                         *)
(* A bucket is a record: obj holds the objects of the service by the names *)
(* it knows them by, dirs the directories of fileblob.  An object has the  *)
(* bytes of the blob, its content type, the other headers, its metadata,   *)
(* and its MD5 hash (the bytes themselves in a set, which is empty for a   *)
(* hash that is not known).  A method returns an error and a value, and    *)
(* the bucket if it changes it.  cb says what the callback of the options  *)
(* does: "none", "ok", or "fails".                                         *)
(***************************************************************************)
EXTENDS Escape, FiniteSets, TLC

Slash == 47
Dot == 46

NoErr == [raw |-> "nil", code |-> "OK"]
Raw(e) == [raw |-> e, code |-> "Unknown"]
Coded(c) == [raw |-> "gcerr", code |-> c]
Canceled == [raw |-> "context", code |-> "Canceled"]

Unless(ok, err) == IF ok THEN NoErr ELSE err
Callback(cb) == Unless(cb # "fails", Raw("callback"))
First(errs) ==
    LET bad == {i \in DOMAIN errs : errs[i] # NoErr}
    IN IF bad = {} THEN NoErr ELSE errs[Min(bad)]

Has(b, name) == name \in DOMAIN b.obj
With(b, name, o) == [b EXCEPT !.obj = (name :> o) @@ @]
Without(b, names) == [b EXCEPT !.obj = [n \in DOMAIN b.obj \ names |-> b.obj[n]]]

Object(body, w) ==
    [body |-> body, type |-> w.type, hdr |-> w.hdr, md |-> w.md, md5 |-> {body}]

\* The attributes of an object; md may have to be unescaped first.
AttributesOf(o, md) ==
    [type |-> o.type, hdr |-> o.hdr, md |-> md, size |-> Len(o.body), md5 |-> o.md5]

\* length < 0 is "to the end".
Slice(body, offset, length) ==
    LET end == IF length < 0 THEN Len(body) ELSE Min({offset + length, Len(body)})
    IN SubSeq(body, offset + 1, end)

Failed(err) == [err |-> err, val |-> << >>]
Result(err, b) == [err |-> err, b |-> b]

\* A reader: what it will read, the content type, and the size of the blob.
ReaderOf(o, body, size) == [err |-> NoErr, body |-> body, type |-> o.type, size |-> size]
NoReader(err) == [err |-> err, body |-> << >>, type |-> << >>, size |-> 0]

\* A writer of a driver.
WriterOf(err, name, type, o, md) ==
    [err |-> err, name |-> name, type |-> type, hdr |-> o.hdr, md |-> md, ifNotExist |-> o.ifNotExist]

\* Metadata with keys and values converted.
Converted(md, K(_), V(_)) ==
    [k \in {K(j) : j \in DOMAIN md} |-> V(md[CHOOSE j \in DOMAIN md : K(j) = k])]

ToLower(s) == [i \in DOMAIN s |-> IF s[i] \in 65..90 THEN s[i] + 32 ELSE s[i]]
Same(s) == s

AfterDotDot(key, i) == i > 2 /\ key[i] = Slash /\ key[i - 1] = Dot /\ key[i - 2] = Dot

-----------------------------------------------------------------------------
(* memblob *)

MemErrorCode(raw) ==
    CASE raw = "errNotFound" -> "NotFound"
      [] raw = "errNotImplemented" -> "Unimplemented"
      [] OTHER -> "Unknown"

MemFound(b, key) == Unless(Has(b, key), Raw("errNotFound"))

MemAttributes(b, key) ==
    IF MemFound(b, key) # NoErr THEN Failed(MemFound(b, key))
    ELSE [err |-> NoErr, val |-> AttributesOf(b.obj[key], b.obj[key].md)]

MemNewRangeReader(b, key, offset, length, cb) ==
    LET err == First(<<MemFound(b, key), Callback(cb)>>)
    IN IF err # NoErr THEN NoReader(err)
       ELSE ReaderOf(b.obj[key], Slice(b.obj[key].body, offset, length), Len(b.obj[key].body))

MemNewTypedWriter(b, key, type, o) ==
    WriterOf(First(<<Unless(key # << >>, Raw("invalid key")), Callback(o.cb)>>), key, type, o, o.md)

MemWriterClose(b, w, body, done) ==
    LET err == First(<<Unless(~done, Canceled),
                       Unless(w.ifNotExist => ~Has(b, w.name), Coded("FailedPrecondition"))>>)
    IN Result(err, IF err = NoErr THEN With(b, w.name, Object(body, w)) ELSE b)

MemCopy(b, dst, src, cb) ==
    LET err == First(<<Callback(cb), MemFound(b, src)>>)
    IN Result(err, IF err = NoErr THEN With(b, dst, b.obj[src]) ELSE b)

MemDelete(b, key, cb) ==
    LET err == First(<<Callback(cb), MemFound(b, key)>>)
    IN Result(err, IF err = NoErr THEN Without(b, {key}) ELSE b)

MemSignedURL(b, key, o) == Failed(Raw("errNotImplemented"))

-----------------------------------------------------------------------------
(* fileblob, on a system whose path separator is the slash.  The name of a  *)
(* blob is its path below the directory of the bucket, as a sequence of     *)
(* components.                                                              *)

FileErrorCode(raw) == IF raw = "ErrNotExist" THEN "NotFound" ELSE "Unknown"

FileEscapeKey(key) ==
    HexEscape(key, {i \in DOMAIN key :
        \/ key[i] < 32
        \/ AfterDotDot(key, i)
        \/ i > 1 /\ key[i] = Slash /\ key[i - 1] = Slash
        \/ key[i] = Slash /\ i = Len(key)})

Ordered(S, Before(_, _)) ==
    [i \in 1..Cardinality(S) |-> CHOOSE e \in S : Cardinality({f \in S : Before(f, e)}) = i - 1]

Components(s) ==
    LET ends == {i \in DOMAIN s : s[i] = Slash} \union {Len(s) + 1}
        start(e) == 1 + Max({0} \union {i \in ends : i < e})
        sorted == Ordered(ends, <)
    IN [n \in 1..Len(sorted) |-> SubSeq(s, start(sorted[n]), sorted[n] - 1)]

\* filepath.Join cleans the path.  ".." can only be the last component, since
\* a slash after it is escaped.
FilePath(key) ==
    LET parts == SelectSeq(Components(FileEscapeKey(key)), LAMBDA p : p \notin {<< >>, <<Dot>>})
    IN IF parts # << >> /\ Last(parts) = <<Dot, Dot>> THEN SubSeq(parts, 1, Len(parts) - 2)
       ELSE parts

attrsExt == <<46, 97, 116, 116, 114, 115>>

FilePathError(key) ==
    LET path == FilePath(key)
    IN First(<<Unless(path # << >>, Raw("escapes bucket root")),
               Unless(path = << >> \/ ~IsSuffix(attrsExt, Last(path)), Raw("errAttrsExt"))>>)

Above(path) == {SubSeq(path, 1, n) : n \in 1..Len(path) - 1}
IsDir(b, path) == path \in b.dirs

\* os.Stat and os.Remove on a path below a file fail with ENOTDIR.
Reachable(b, path) == Unless(Above(path) \cap DOMAIN b.obj = {}, Raw("ENOTDIR"))

FileForKey(b, key) ==
    LET path == FilePath(key)
    IN First(<<FilePathError(key), Reachable(b, path),
               Unless(Has(b, path) \/ IsDir(b, path), Raw("ErrNotExist")),
               Unless(~IsDir(b, path), Raw("ErrNotExist"))>>)

FileAttributes(b, key) ==
    LET err == FileForKey(b, key)
        o == b.obj[FilePath(key)]
    IN IF err # NoErr THEN Failed(err) ELSE [err |-> NoErr, val |-> AttributesOf(o, o.md)]

FileNewRangeReader(b, key, offset, length, cb) ==
    LET err == First(<<FileForKey(b, key), Callback(cb)>>)
        o == b.obj[FilePath(key)]
    IN IF err # NoErr THEN NoReader(err)
       ELSE ReaderOf(o, Slice(o.body, offset, length), Len(o.body))

\* MkdirAll makes the directories, which stay whatever becomes of the writer.
FileMkdirAll(b, key) ==
    IF First(<<FilePathError(key), Reachable(b, FilePath(key))>>) # NoErr THEN b
    ELSE [b EXCEPT !.dirs = @ \union Above(FilePath(key))]

FileNewTypedWriter(b, key, type, o) ==
    WriterOf(First(<<FilePathError(key), Reachable(b, FilePath(key)), Callback(o.cb)>>),
             FilePath(key), type, o, o.md)

\* A rename to the path of a directory fails.
FileWriterClose(b, w, body, done) ==
    LET exists == Has(b, w.name) \/ IsDir(b, w.name)
        err == First(<<Unless(~done, Canceled),
                       Unless(w.ifNotExist => ~exists, Coded("FailedPrecondition")),
                       Unless(~IsDir(b, w.name), Raw("EEXIST"))>>)
    IN Result(err, IF err = NoErr THEN With(b, w.name, Object(body, w)) ELSE b)

FileCopy(b, dst, src, cb) ==
    LET found == FileForKey(b, src)
        o == b.obj[FilePath(src)]
        w == FileNewTypedWriter(b, dst, o.type, [hdr |-> o.hdr, md |-> o.md, ifNotExist |-> FALSE, cb |-> cb])
    IN IF found # NoErr THEN Result(found, b)
       ELSE IF w.err # NoErr THEN Result(w.err, FileMkdirAll(b, dst))
       ELSE FileWriterClose(FileMkdirAll(b, dst), w, o.body, FALSE)

FileDelete(b, key, cb) ==
    LET path == FilePath(key)
        full == \E p \in b.dirs \union DOMAIN b.obj : path \in Above(p)
        err == First(<<Callback(cb), FilePathError(key), Reachable(b, path),
                       Unless(Has(b, path) \/ IsDir(b, path), Raw("ErrNotExist")),
                       Unless(~full, Raw("ENOTEMPTY"))>>)
    IN Result(err, IF err = NoErr THEN [Without(b, {path}) EXCEPT !.dirs = @ \ {path}] ELSE b)

\* URLSignerHMAC: the values the signature covers.
URLFromKey(key, o) == [obj |-> key, expiry |-> o.expiry, method |-> o.method, type |-> o.type]

FileSignedURL(b, key, o) ==
    LET err == First(<<Unless(b.signer, Coded("Unimplemented")), Callback(o.cb)>>)
    IN IF err # NoErr THEN Failed(err) ELSE [err |-> NoErr, val |-> URLFromKey(key, o)]

-----------------------------------------------------------------------------
(* The services behind the other drivers *)

Missing(b, name, raw) == Unless(Has(b, name), Raw(raw))

\* A range that starts behind the end is refused.
ServiceGet(b, name, ranged, from, to, raw) ==
    LET o == b.obj[name]
        err == First(<<Missing(b, name, raw),
                       Unless(Has(b, name) /\ ranged => from < Len(o.body), Raw("InvalidRange"))>>)
        length == IF to < 0 THEN -1 ELSE to - from + 1
    IN IF err # NoErr THEN [err |-> err]
       ELSE [err |-> NoErr, o |-> o,
             body |-> IF ranged THEN Slice(o.body, from, length) ELSE o.body,
             contentRange |-> IF ranged THEN {Len(o.body)} ELSE {}]

\* An upload replaces the object at once, or fails.
ServicePut(b, w, body, done, exists) ==
    LET err == First(<<Unless(~done, Canceled), Unless(w.name # << >>, Raw("BadRequest")),
                       Unless(w.ifNotExist => ~Has(b, w.name), Raw(exists))>>)
    IN Result(err, IF err = NoErr THEN With(b, w.name, Object(body, w)) ELSE b)

ServiceCopy(b, dst, src, cb, raw) ==
    LET err == First(<<Callback(cb), Missing(b, src, raw)>>)
    IN Result(err, IF err = NoErr THEN With(b, dst, b.obj[src]) ELSE b)

\* The size of the blob, from the length of the reply or its Content-Range.
GetSize(contentLength, contentRange) ==
    IF contentRange # {} THEN CHOOSE n \in contentRange : TRUE ELSE contentLength

-----------------------------------------------------------------------------
(* s3blob *)

S3ErrorCode(raw) ==
    CASE raw \in {"NoSuchBucket", "NoSuchKey", "NotFound", "ObjectNotInActiveTierError"} -> "NotFound"
      [] raw = "PreconditionFailed" -> "FailedPrecondition"
      [] raw \in {"AccessDenied", "Forbidden"} -> "PermissionDenied"
      [] OTHER -> "Unknown"

S3EscapeKey(key) == HexEscape(key, {i \in DOMAIN key : key[i] < 32 \/ AfterDotDot(key, i)})

S3UnescapeMetadata(md) == Converted(md, LAMBDA k : HexUnescape(URLUnescape(k)), URLUnescape)

S3Attributes(b, key) ==
    LET name == S3EscapeKey(key)
    IN IF ~Has(b, name) THEN Failed(Raw("NotFound"))
       ELSE [err |-> NoErr,
             val |-> AttributesOf(b.obj[name], S3UnescapeMetadata(b.obj[name].md))]

\* There is no range of no bytes: one byte is asked for and not read.
S3NewRangeReader(b, key, offset, length, cb) ==
    LET ranged == offset > 0 \/ length >= 0
        to == IF length < 0 THEN -1 ELSE IF length = 0 THEN offset ELSE offset + length - 1
        r == ServiceGet(b, S3EscapeKey(key), ranged, offset, to, "NoSuchKey")
        err == First(<<Callback(cb), r.err>>)
    IN IF err # NoErr THEN NoReader(err)
       ELSE ReaderOf(r.o, IF length = 0 THEN << >> ELSE r.body, GetSize(Len(r.body), r.contentRange))

S3DownloadAt(b, key, cb) ==
    LET r == ServiceGet(b, S3EscapeKey(key), FALSE, 0, -1, "NoSuchKey")
        err == First(<<Callback(cb), r.err>>)
    IN IF err # NoErr THEN Failed(err) ELSE [err |-> NoErr, val |-> r.body]

\* S3 keeps the keys of metadata in lower case.
S3EscapeMetadata(md) ==
    Converted(md, LAMBDA k : LET u == URLEscape(k)
                             IN ToLower(HexEscape(u, {i \in DOMAIN u : u[i] \in {64, 58, 61}})),
              URLEscape)

S3NewTypedWriter(b, key, type, o) ==
    WriterOf(Callback(o.cb), S3EscapeKey(key), type, o, S3EscapeMetadata(o.md))

S3WriterClose(b, w, body, done) == ServicePut(b, w, body, done, "PreconditionFailed")

S3Copy(b, dst, src, cb) == ServiceCopy(b, S3EscapeKey(dst), S3EscapeKey(src), cb, "NoSuchKey")

\* DeleteObject does not say whether there was an object: ask first.
S3Delete(b, key, cb) ==
    LET err == First(<<S3Attributes(b, key).err, Callback(cb)>>)
    IN Result(err, IF err = NoErr THEN Without(b, {S3EscapeKey(key)}) ELSE b)

\* A signed URL: what a request that uses it may do.
Signed(name, o) ==
    [obj |-> name, expiry |-> o.expiry, method |-> o.method, type |-> o.type, absent |-> o.absent]

S3SignedURL(b, key, o) ==
    LET enforces == o.absent \/ o.type # << >>
        err == CASE o.method = "GET" -> Callback(o.cb)
                 [] o.method = "PUT" -> First(<<Unless(~enforces, Coded("Unimplemented")), Callback(o.cb)>>)
                 [] OTHER -> Coded("Unimplemented")
    IN IF err # NoErr THEN Failed(err) ELSE [err |-> NoErr, val |-> Signed(S3EscapeKey(key), o)]

-----------------------------------------------------------------------------
(* azureblob *)

AzureErrorCode(raw) ==
    CASE raw = "AuthenticationFailed" -> "PermissionDenied"
      [] raw \in {"BlobAlreadyExists", "ConditionNotMet", "TargetConditionNotMet",
                  "SourceConditionNotMet"} -> "FailedPrecondition"
      [] raw \in {"BlobNotFound", "404", "no such host"} -> "NotFound"
      [] OTHER -> "Unknown"

\* The number of bytes of a string in UTF-8, which is what len(key) is.
ByteLen(s) ==
    FoldLeft(LAMBDA n, c : n + (IF c < 128 THEN 1 ELSE IF c < 2048 THEN 2 ELSE IF c < 65536 THEN 3 ELSE 4),
             0, s)

AzureEscapeKey(key, isPrefix) ==
    HexEscape(key, {i \in DOMAIN key :
        \/ key[i] = 92
        \/ key[i] < 32 \/ key[i] \in {34, 35, 37, 63, 127}
        \/ ~isPrefix /\ i = ByteLen(key) /\ key[i] = Slash
        \/ AfterDotDot(key, i)})

\* GetProperties returns the metadata as headers, whose names begin with a
\* capital letter.
Capitalized(s) == [i \in DOMAIN s |-> IF i = 1 /\ s[i] \in 97..122 THEN s[i] - 32 ELSE s[i]]

AzureAttributes(b, key) ==
    LET name == AzureEscapeKey(key, FALSE)
    IN IF ~Has(b, name) THEN Failed(Raw("BlobNotFound"))
       ELSE [err |-> NoErr,
             val |-> AttributesOf(b.obj[name],
                         Converted(b.obj[name].md, LAMBDA k : HexUnescape(Capitalized(k)), URLUnescape))]

\* A count of 0 means "to the end"; what comes is then not read.
AzureNewRangeReader(b, key, offset, length, cb) ==
    LET count == IF length >= 0 THEN length ELSE 0
        r == ServiceGet(b, AzureEscapeKey(key, FALSE), offset # 0 \/ count # 0, offset,
                        IF count = 0 THEN -1 ELSE offset + count - 1, "BlobNotFound")
        err == First(<<Callback(cb), r.err>>)
    IN IF err # NoErr THEN NoReader(err)
       ELSE ReaderOf(r.o, IF length = 0 THEN << >> ELSE r.body, GetSize(Len(r.body), r.contentRange))

AzureDownloadAt(b, key, cb) ==
    LET r == ServiceGet(b, AzureEscapeKey(key, FALSE), FALSE, 0, -1, "BlobNotFound")
        err == First(<<Callback(cb), r.err>>)
    IN IF err # NoErr THEN Failed(err) ELSE [err |-> NoErr, val |-> r.body]

AzureEscapeMetadataKey(k) ==
    HexEscape(k, {i \in DOMAIN k :
        (i = 1 /\ k[i] \in 48..57) \/ (~IsASCIIAlphanumeric(k[i]) /\ k[i] # Underscore)})

AzureNewTypedWriter(b, key, type, o) ==
    LET distinct == \A j, k \in DOMAIN o.md :
                        AzureEscapeMetadataKey(j) = AzureEscapeMetadataKey(k) => j = k
    IN WriterOf(First(<<Unless(distinct, Raw("duplicate keys")), Callback(o.cb)>>),
                AzureEscapeKey(key, FALSE), type, o,
                Converted(o.md, AzureEscapeMetadataKey, URLEscape))

AzureWriterClose(b, w, body, done) == ServicePut(b, w, body, done, "BlobAlreadyExists")

\* The copy is made by the service; polling for its end is left out.
AzureCopy(b, dst, src, cb) ==
    ServiceCopy(b, AzureEscapeKey(dst, FALSE), AzureEscapeKey(src, FALSE), cb, "BlobNotFound")

AzureDelete(b, key, cb) ==
    LET name == AzureEscapeKey(key, FALSE)
        err == First(<<Callback(cb), Missing(b, name, "BlobNotFound")>>)
    IN Result(err, IF err = NoErr THEN Without(b, {name}) ELSE b)

AzureSignedURL(b, key, o) ==
    LET err == First(<<Unless(o.type = << >> /\ ~o.absent, Coded("Unimplemented")),
                       Unless(o.method \in {"GET", "PUT", "DELETE"}, Raw("unsupported Method")),
                       Callback(o.cb)>>)
    IN IF err # NoErr THEN Failed(err) ELSE [err |-> NoErr, val |-> Signed(AzureEscapeKey(key, FALSE), o)]

-----------------------------------------------------------------------------
(* gcsblob *)

GCSErrorCode(raw) ==
    CASE raw \in {"ErrObjectNotExist", "ErrBucketNotExist", "403", "404"} -> "NotFound"
      [] raw = "412" -> "FailedPrecondition"
      [] raw = "429" -> "ResourceExhausted"
      [] OTHER -> "Unknown"

GCSEscapeKey(key) == HexEscape(key, {i \in DOMAIN key : key[i] \in {10, 13} \/ AfterDotDot(key, i)})

GCSAttributes(b, key) ==
    LET name == GCSEscapeKey(key)
    IN IF ~Has(b, name) THEN Failed(Raw("ErrObjectNotExist"))
       ELSE [err |-> NoErr, val |-> AttributesOf(b.obj[name], b.obj[name].md)]

\* storage.ObjectHandle.NewRangeReader asks for the attributes only if the
\* length is 0.
GCSNewRangeReader(b, key, offset, length, cb) ==
    LET r == ServiceGet(b, GCSEscapeKey(key), length # 0 /\ (offset > 0 \/ length > 0), offset,
                        IF length < 0 THEN -1 ELSE offset + length - 1, "ErrObjectNotExist")
        err == First(<<Callback(cb), r.err>>)
    IN IF err # NoErr THEN NoReader(err)
       ELSE ReaderOf(r.o, IF length = 0 THEN << >> ELSE r.body, Len(r.o.body))

\* Unlike all the other methods, this one passes the key on as it is.
GCSDownloadAt(b, key, cb) ==
    LET r == ServiceGet(b, key, FALSE, 0, -1, "ErrObjectNotExist")
        err == First(<<Callback(cb), r.err>>)
    IN IF err # NoErr THEN Failed(err) ELSE [err |-> NoErr, val |-> r.body]

GCSNewTypedWriter(b, key, type, o) == WriterOf(Callback(o.cb), GCSEscapeKey(key), type, o, o.md)

GCSWriterClose(b, w, body, done) == ServicePut(b, w, body, done, "412")

GCSCopy(b, dst, src, cb) == ServiceCopy(b, GCSEscapeKey(dst), GCSEscapeKey(src), cb, "404")

GCSDelete(b, key, cb) ==
    LET name == GCSEscapeKey(key)
        err == First(<<Callback(cb), Missing(b, name, "ErrObjectNotExist")>>)
    IN Result(err, IF err = NoErr THEN Without(b, {name}) ELSE b)

\* b.signers is the number of PrivateKey, SignBytes and MakeSignBytes given.
GCSSignedURL(b, key, o) ==
    LET err == First(<<Unless(b.signer /\ b.signers = 1, Coded("Unimplemented")), Callback(o.cb)>>)
    IN IF err # NoErr THEN Failed(err) ELSE [err |-> NoErr, val |-> Signed(GCSEscapeKey(key), o)]

=============================================================================
