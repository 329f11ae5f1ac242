-------------------------------- MODULE Blob --------------------------------
(***************************************************************************)
(* blob.Bucket and its drivers: writers, copies, deletes and reads of      *)
(* several callers on the same keys.                                       *)
(*                                                                         *)
(* The portable blob.Writer (content sniffing, ContentMD5, cancellation)   *)
(* is modelled call by call.  Below it is one of four drivers:             *)
(*   "file"  fileblob, content and attributes in two files,                *)
(*   "bare"  fileblob with MetadataDontWrite,                              *)
(*   "mem"   memblob,                                                      *)
(*   "pipe"  s3blob (azureblob's writer has the same shape): a goroutine   *)
(*           uploads what comes through an io.Pipe; the service applies    *)
(*           one request at a time and is external.                        *)
(* Each step of a driver is one system call, or one request to the service *)
(* or one hold of the bucket's mutex.                                      *)
(***************************************************************************)
EXTENDS Naturals, Sequences, FiniteSets

CONSTANTS
    Ops,         \* the calls of the program; a blob.Writer is one of them
    Seed,        \* who wrote the blobs that are there at the start
    Keys,
    Drivers,     \* the drivers to check
    RequestsOf,  \* for every call, the requests it may make
    SniffLen,    \* blob.sniffLen
    MaxFaults,   \* bound on failing system calls, crashes and cancellations
    None, NoBlob, NoAttrs, Torn

\* What a program may ask for: no chunk is empty, and only a writer can be
\* given IfNotExist.  NoBlob is no content.
ASSUME BlobAssumption ==
    /\ SniffLen \in Nat \ {0} /\ MaxFaults \in Nat
    /\ Seed \notin Ops /\ None \notin Ops \union {Seed}
    /\ Drivers \subseteq {"file", "bare", "mem", "pipe"}
    /\ NoBlob \notin [by : Ops \union {Seed}, bytes : Seq((Ops \union {Seed}) \X Nat)]
    /\ \A o \in Ops : \A r \in RequestsOf[o] :
          /\ r.kind \in {"write", "copy", "delete", "read"} /\ r.key \in Keys /\ r.src \in Keys
          /\ r.sizes \in Seq(Nat \ {0}) /\ r.typed \in BOOLEAN /\ r.md5 \in {"none", "right", "wrong"}
          /\ r.cond \in BOOLEAN /\ (r.cond => r.kind = "write")

VARIABLES
    driver,   \* the driver in use
    req,      \* what each call asks for
    blob,     \* content of the file, or of the object, at every key
    attrs,    \* attributes at every key: the MD5 they hold stands for all
    lock,     \* holder of fileblob.ifNotExistLock
    op,       \* state of every call
    faults,   \* faults so far
    marred,   \* history: file operations that overlapped another on their key,
              \*   or could not close the attributes file they had written
    blind,    \* history: conditional writers whose Stat failed: they could not see
              \*   whether their key holds a blob
    crashed   \* history: the process has crashed

vars == <<driver, req, blind, blob, attrs, lock, op, faults, marred, crashed>>

(***************************************************************************)
(* A request: kind, key, and for a write the sizes of the chunks the       *)
(* caller writes, typed (a ContentType was given), cond (IfNotExist) and   *)
(* md5: no ContentMD5 ("none"), that of all chunks or another one.         *)
(***************************************************************************)
Chunk(o, i) == <<o, i>>
ContentMD5(o) == IF req[o].md5 = "right" THEN [i \in 1..Len(req[o].sizes) |-> Chunk(o, i)]
                                         ELSE <<Chunk(o, 0)>>

NewCall == [pc |-> "idle", next |-> 1, buf |-> <<>>, bufLen |-> 0, opened |-> FALSE,
            data |-> <<>>, hashed |-> <<>>, refused |-> FALSE,
            ctxDone |-> FALSE, up |-> "none", eof |-> FALSE,
            failing |-> FALSE, size |-> NoBlob, xa |-> NoAttrs, read |-> NoBlob,
            applied |-> FALSE, res |-> "none"]

SeedBlob == [by |-> Seed, bytes |-> <<Chunk(Seed, 1)>>]

Init ==
    /\ driver \in Drivers
    /\ req \in [Ops -> UNION {RequestsOf[o] : o \in Ops}]
    /\ \A o \in Ops : req[o] \in RequestsOf[o]
    /\ blob \in [Keys -> {NoBlob, SeedBlob}] /\ \E k \in Keys : blob[k] = SeedBlob
    /\ attrs = [k \in Keys |-> IF blob[k] = NoBlob \/ driver = "bare" THEN NoAttrs
                                                                     ELSE blob[k].bytes]
    /\ lock = None
    /\ op = [o \in Ops |-> NewCall]
    /\ faults = 0 /\ marred = {} /\ blind = {} /\ crashed = FALSE

OnFiles == driver \in {"file", "bare"}

\* A fault of the environment: a system call or a request fails.
Fault == /\ faults < MaxFaults
         /\ faults' = faults + 1

Step(o, changed) == op' = [op EXCEPT ![o] = changed]

\* Slip: an error leaves the lock locked.
DoneLocked(o, c, result) ==
    /\ Step(o, [c EXCEPT !.pc = "done",
                         !.res = IF c.failing THEN "err" ELSE result])
    /\ lock' = IF lock = o /\ result = "ok" THEN None ELSE lock

\* The call returns, with its deferred unlock.
Done(o, c, result) ==
    /\ Step(o, [c EXCEPT !.pc = "done",
                         !.res = IF c.failing THEN "err" ELSE result])
    /\ lock' = IF lock = o THEN None ELSE lock

(***************************************************************************)
(* History only: file operations that change a key, from their first       *)
(* change to their return, and the operations they overlap.                *)
(***************************************************************************)
Changing(o) == op[o].pc \in {"encode", "rename", "rmattrs"}
Using(o) == Changing(o) \/ op[o].pc \in {"getattrs", "open"}
Touched(o) == IF op[o].pc \in {"getattrs", "open"} /\ req[o].kind = "copy"
              THEN req[o].src ELSE req[o].key
Meet(o, k, changes) ==
    LET others == {p \in Ops \ {o} : Using(p) /\ Touched(p) = k /\ (changes \/ Changing(p))}
    IN marred' = marred \union others \union (IF others = {} THEN {} ELSE {o})

-----------------------------------------------------------------------------
(***************************************************************************)
(* blob.Writer                                                             *)
(***************************************************************************)

\* The driver's Write.  On a pipe the first byte starts the upload, and a
\* failed upload closes the pipe, which fails the writes that follow.
DriverWrite(o, c, bytes) ==
    \/ /\ ~(driver = "pipe" /\ c.up = "failed")
       /\ Step(o, [c EXCEPT !.data = @ \o bytes, !.up = IF driver = "pipe" /\ bytes # <<>> /\ @ = "none"
                                   THEN "running" ELSE @])
       /\ UNCHANGED faults
    \/ /\ driver = "pipe" /\ c.up = "failed"
       /\ Step(o, [c EXCEPT !.refused = TRUE])
       /\ UNCHANGED faults
    \/ /\ OnFiles /\ bytes # <<>> /\ Fault
       /\ Step(o, [c EXCEPT !.refused = TRUE])

\* Slip: the chunks that waited in the buffer are dropped.
WriterOpenLast(o, c, bytes) ==
    DriverWrite(o, [c EXCEPT !.opened = TRUE, !.buf = <<>>, !.bufLen = 0],
                SubSeq(bytes, Len(bytes), Len(bytes)))

\* Writer.open: create the driver's writer, hand it what was buffered.  When
\* the driver fails, w.w stays nil and the buffer stays as it is.
WriterOpen(o, c, bytes) ==
    \/ DriverWrite(o, [c EXCEPT !.opened = TRUE, !.buf = <<>>, !.bufLen = 0], bytes)
    \/ /\ Fault
       /\ Step(o, [c EXCEPT !.refused = TRUE])

\* Bucket.NewWriter.  With a content type the driver's writer is made at once.
NewWriter(o) ==
    /\ op[o].pc = "idle" /\ req[o].kind = "write"
    /\ \/ /\ UNCHANGED <<lock, faults>>
          /\ Step(o, [op[o] EXCEPT !.pc = "open-writer", !.opened = req[o].typed])
       \/ /\ req[o].typed /\ Fault
          /\ Done(o, op[o], "err")
    /\ UNCHANGED <<driver, req, blind, blob, attrs, marred, crashed>>

\* Writer.Write of the next chunk.
Write(o) ==
    /\ op[o].pc = "open-writer" /\ op[o].next <= Len(req[o].sizes)
    /\ LET p == <<Chunk(o, op[o].next)>>
           n == req[o].sizes[op[o].next]
           c == [op[o] EXCEPT !.next = @ + 1, !.hashed = IF req[o].md5 = "none" THEN @ ELSE @ \o p]
           b == [c EXCEPT !.buf = @ \o p, !.bufLen = @ + n]
       IN CASE c.opened                           -> DriverWrite(o, c, p)
            [] ~c.opened /\ c.bufLen = 0 /\ n >= SniffLen  -> WriterOpen(o, c, p)
            [] ~c.opened /\ ~(c.bufLen = 0 /\ n >= SniffLen) /\ b.bufLen >= SniffLen
                                                  -> WriterOpen(o, b, b.buf)
            [] OTHER                              -> Step(o, b) /\ UNCHANGED faults
    /\ UNCHANGED <<driver, req, blind, blob, attrs, lock, marred, crashed>>

\* Writer.Close, up to the driver's Close.  The caller closes when all is
\* written, or after a Write that failed.
Close(o) ==
    /\ op[o].pc = "open-writer" /\ (op[o].refused \/ op[o].next > Len(req[o].sizes))
    /\ IF req[o].md5 # "none" /\ op[o].hashed # ContentMD5(o)
       THEN /\ UNCHANGED faults
            /\ IF op[o].opened
               THEN Step(o, [op[o] EXCEPT !.pc = "closing", !.ctxDone = TRUE, !.failing = TRUE]) /\ UNCHANGED lock
               ELSE Done(o, [op[o] EXCEPT !.ctxDone = TRUE], "err")
       ELSE \/ /\ op[o].opened
               /\ Step(o, [op[o] EXCEPT !.pc = "closing"])
               /\ UNCHANGED <<lock, faults>>
            \/ /\ ~op[o].opened
               /\ Step(o, [op[o] EXCEPT !.pc = "closing", !.opened = TRUE, !.data = op[o].buf,
                                        !.up = IF driver = "pipe" /\ op[o].buf # <<>> THEN "running" ELSE @])
               /\ UNCHANGED <<lock, faults>>
            \/ /\ ~op[o].opened /\ Fault
               /\ Done(o, op[o], "err")
    /\ UNCHANGED <<driver, req, blind, blob, attrs, marred, crashed>>

\* The caller cancels the context of a call.
Cancel(o) ==
    /\ req[o].kind \in {"write", "copy"}
    /\ op[o].pc \notin {"idle", "done", "dead"} /\ ~op[o].ctxDone
    /\ Fault
    /\ Step(o, [op[o] EXCEPT !.ctxDone = TRUE])
    /\ UNCHANGED <<driver, req, blind, blob, attrs, lock, marred, crashed>>

-----------------------------------------------------------------------------
(***************************************************************************)
(* fileblob                                                                *)
(***************************************************************************)

\* writerWithSidecar.Close and writer.Close: close the temp file, look at the
\* context, go on to the precondition or to the attributes.
FileClose(o) ==
    /\ OnFiles /\ op[o].pc = "closing"
    /\ \/ /\ op[o].ctxDone
          /\ Done(o, op[o], "err")
          /\ UNCHANGED faults
       \/ /\ Fault                       \* w.f.Close fails
          /\ Done(o, op[o], "err")
       \/ /\ ~op[o].ctxDone
          /\ Step(o, [op[o] EXCEPT !.pc = IF req[o].cond THEN "lock"
                                         ELSE IF driver = "bare" THEN "rename" ELSE "create"])
          /\ UNCHANGED <<lock, faults>>
    /\ UNCHANGED <<driver, req, blind, blob, attrs, marred, crashed>>

\* Slip: the lock is given up after the Stat.
CheckNotExistUnlocked(o) ==
    /\ op[o].pc = "lock" /\ lock = None
    /\ IF blob[req[o].key] # NoBlob
       THEN Done(o, op[o], "err")
       ELSE /\ UNCHANGED lock
            /\ Step(o, [op[o] EXCEPT !.pc = IF driver = "bare" THEN "rename" ELSE "create"])
    /\ UNCHANGED <<driver, req, blind, blob, attrs, faults, marred, crashed>>

\* IfNotExist: take the lock, and Stat the path under it.  A Stat that fails
\* for another reason than a missing file is taken for a missing file.
CheckNotExist(o) ==
    /\ op[o].pc = "lock" /\ lock = None
    /\ \/ /\ blob[req[o].key] # NoBlob
          /\ Done(o, op[o], "err")
          /\ UNCHANGED <<blind, faults>>
       \/ /\ \/ blob[req[o].key] = NoBlob /\ UNCHANGED <<blind, faults>>
             \/ Fault /\ blind' = blind \union {o}
          /\ lock' = o
          /\ Step(o, [op[o] EXCEPT !.pc = IF driver = "bare" THEN "rename" ELSE "create"])
    /\ UNCHANGED <<driver, req, blob, attrs, marred, crashed>>

\* setAttrs: os.Create truncates the attributes file.
CreateAttrs(o) ==
    /\ op[o].pc = "create"
    /\ \/ /\ Step(o, [op[o] EXCEPT !.pc = "encode"])
          /\ attrs' = [attrs EXCEPT ![req[o].key] = Torn]
          /\ Meet(o, req[o].key, TRUE)
          /\ UNCHANGED <<lock, faults>>
       \/ /\ Fault
          /\ Done(o, op[o], "err")
          /\ UNCHANGED <<attrs, marred>>
    /\ UNCHANGED <<driver, req, blind, blob, crashed>>

\* setAttrs: the attributes are written to the file, or it is removed.  When
\* only its Close fails it stays, beside the content that was there before.
EncodeAttrs(o) ==
    /\ op[o].pc = "encode"
    /\ \/ /\ Step(o, [op[o] EXCEPT !.pc = "rename"])
          /\ attrs' = [attrs EXCEPT ![req[o].key] = op[o].data]
          /\ UNCHANGED <<lock, faults, marred>>
       \/ /\ Fault
          /\ attrs' = [attrs EXCEPT ![req[o].key] = NoAttrs]
          /\ Done(o, op[o], "err")
          /\ UNCHANGED marred
       \/ /\ Fault
          /\ attrs' = [attrs EXCEPT ![req[o].key] = op[o].data]
          /\ Done(o, op[o], "err")
          /\ marred' = marred \union {o}
    /\ UNCHANGED <<driver, req, blind, blob, crashed>>

\* The content a finished writer or copy stands for.
NewContent(o) == [by |-> o, bytes |-> op[o].data]

\* Slip: the attributes of the new content stay.
RenameFailsHalf(o) ==
    /\ Fault
    /\ Done(o, op[o], "err")
    /\ UNCHANGED <<blob, attrs>>

\* os.Rename of the temp file to the path; when it fails the attributes file
\* goes too.
RenameFails(o) ==
    /\ Fault
    /\ attrs' = [attrs EXCEPT ![req[o].key] = NoAttrs]
    /\ Done(o, op[o], "err")
    /\ UNCHANGED blob

Rename(o) ==
    /\ op[o].pc = "rename"
    /\ \/ /\ blob' = [blob EXCEPT ![req[o].key] = NewContent(o)]
          /\ Done(o, [op[o] EXCEPT !.applied = TRUE], "ok")
          /\ Meet(o, req[o].key, TRUE)
          /\ UNCHANGED <<attrs, faults>>
       \/ RenameFails(o) /\ UNCHANGED marred
    /\ UNCHANGED <<driver, req, blind, crashed>>

\* bucket.Delete: remove the content, then the attributes, which may be missing.
FileDelete(o) ==
    /\ OnFiles /\ op[o].pc = "idle" /\ req[o].kind = "delete"
    /\ IF blob[req[o].key] = NoBlob
       THEN Done(o, op[o], "err") /\ UNCHANGED <<blob, marred>>
       ELSE /\ blob' = [blob EXCEPT ![req[o].key] = NoBlob]
            /\ Step(o, [op[o] EXCEPT !.pc = "rmattrs", !.applied = TRUE])
            /\ Meet(o, req[o].key, TRUE)
            /\ UNCHANGED lock
    /\ UNCHANGED <<driver, req, blind, attrs, faults, crashed>>

DeleteAttrs(o) ==
    /\ op[o].pc = "rmattrs"
    /\ \/ /\ attrs' = [attrs EXCEPT ![req[o].key] = NoAttrs]
          /\ Done(o, op[o], "ok")
          /\ UNCHANGED faults
       \/ /\ Fault
          /\ Done(o, op[o], "err")
          /\ UNCHANGED attrs
    /\ UNCHANGED <<driver, req, blind, blob, marred, crashed>>

\* forKey, first half: Stat, for a read or for the source of a copy.
FileStat(o) ==
    /\ OnFiles /\ op[o].pc = "idle" /\ req[o].kind \in {"read", "copy"}
    /\ LET k == req[o].src
       IN IF blob[k] = NoBlob
          THEN Done(o, op[o], "err") /\ UNCHANGED marred
          ELSE /\ Step(o, [op[o] EXCEPT !.pc = "getattrs", !.size = blob[k]])
               /\ Meet(o, k, FALSE)
               /\ UNCHANGED lock
    /\ UNCHANGED <<driver, req, blind, blob, attrs, faults, crashed>>

\* getAttrs: without a file the defaults; a file cut short does not decode.
GetAttrs(o) ==
    /\ op[o].pc = "getattrs"
    /\ IF attrs[req[o].src] = Torn
       THEN Done(o, op[o], "err")
       ELSE /\ Step(o, [op[o] EXCEPT !.pc = "open", !.xa = attrs[req[o].src]])
            /\ UNCHANGED lock
    /\ UNCHANGED <<driver, req, blind, blob, attrs, faults, marred, crashed>>

\* os.Open: from here on the file is read as it is, whatever is renamed over
\* its path.  A copy then writes what it reads through a writer of its own.
OpenContent(o) ==
    /\ op[o].pc = "open"
    /\ LET found == blob[req[o].src]
           c == [op[o] EXCEPT !.read = found]
       IN CASE found = NoBlob -> Done(o, op[o], "err") /\ UNCHANGED faults
            [] found # NoBlob /\ req[o].kind = "read" -> Done(o, c, "ok") /\ UNCHANGED faults
            [] found # NoBlob /\ req[o].kind = "copy" ->
                  \/ /\ Step(o, [c EXCEPT !.pc = "closing", !.data = found.bytes])
                     /\ UNCHANGED <<lock, faults>>
                  \/ /\ Fault           \* NewTypedWriter or io.Copy fails
                     /\ Done(o, op[o], "err")
    /\ UNCHANGED <<driver, req, blind, blob, attrs, marred, crashed>>

-----------------------------------------------------------------------------
(***************************************************************************)
(* memblob                                                                 *)
(***************************************************************************)

\* writer.Close looks at the context before it takes the bucket's mutex.
MemClose(o) ==
    /\ driver = "mem" /\ op[o].pc = "closing"
    /\ IF op[o].ctxDone
       THEN Done(o, op[o], "err")
       ELSE Step(o, [op[o] EXCEPT !.pc = "commit"]) /\ UNCHANGED lock
    /\ UNCHANGED <<driver, req, blind, blob, attrs, faults, marred, crashed>>

\* Put content and attributes in place, in one step.
Store(o, c) ==
    /\ blob' = [blob EXCEPT ![req[o].key] = c]
    /\ attrs' = [attrs EXCEPT ![req[o].key] = c.bytes]

MemCommit(o) ==
    /\ op[o].pc = "commit"
    /\ IF blob[req[o].key] # NoBlob /\ req[o].cond
       THEN Done(o, op[o], "err") /\ UNCHANGED <<blob, attrs>>
       ELSE Store(o, NewContent(o)) /\ Done(o, [op[o] EXCEPT !.applied = TRUE], "ok")
    /\ UNCHANGED <<driver, req, blind, faults, marred, crashed>>

\* Copy and NewRangeReader under one hold of the mutex; for s3blob one request.
AtomicCopy(o) ==
    /\ ~OnFiles /\ op[o].pc = "idle" /\ req[o].kind = "copy"
    /\ LET found == blob[req[o].src]
       IN IF found = NoBlob
          THEN Done(o, op[o], "err") /\ UNCHANGED <<blob, attrs>>
          ELSE Store(o, [by |-> o, bytes |-> found.bytes]) /\ Done(o, [op[o] EXCEPT !.applied = TRUE, !.read = found], "ok")
    /\ UNCHANGED <<driver, req, blind, faults, marred, crashed>>

AtomicRead(o) ==
    /\ ~OnFiles /\ op[o].pc = "idle" /\ req[o].kind = "read"
    /\ LET found == blob[req[o].src]
       IN IF found = NoBlob
          THEN Done(o, op[o], "err")
          ELSE Done(o, [op[o] EXCEPT !.read = found, !.size = found, !.xa = attrs[req[o].src]], "ok")
    /\ UNCHANGED <<driver, req, blind, blob, attrs, faults, marred, crashed>>

MemDelete(o) ==
    /\ driver = "mem" /\ op[o].pc = "idle" /\ req[o].kind = "delete"
    /\ IF blob[req[o].key] = NoBlob
       THEN Done(o, op[o], "err") /\ UNCHANGED <<blob, attrs>>
       ELSE /\ blob' = [blob EXCEPT ![req[o].key] = NoBlob]
            /\ attrs' = [attrs EXCEPT ![req[o].key] = NoAttrs]
            /\ Done(o, [op[o] EXCEPT !.applied = TRUE], "ok")
    /\ UNCHANGED <<driver, req, blind, faults, marred, crashed>>

-----------------------------------------------------------------------------
(***************************************************************************)
(* s3blob                                                                  *)
(***************************************************************************)

\* writer.Close: end of the pipe, or an upload with no body.
PipeClose(o) ==
    /\ driver = "pipe" /\ op[o].pc = "closing"
    /\ Step(o, [op[o] EXCEPT !.pc = "wait", !.eof = TRUE,
                             !.up = IF @ = "none" THEN "running" ELSE @])
    /\ UNCHANGED <<driver, req, blind, blob, attrs, lock, faults, marred, crashed>>

\* The uploading goroutine fails: the context is done, or the service refuses.
UploadFails(o) ==
    /\ op[o].up = "running"
    /\ \/ op[o].ctxDone /\ UNCHANGED faults
       \/ Fault
       \/ op[o].eof /\ req[o].cond /\ blob[req[o].key] # NoBlob /\ UNCHANGED faults
    /\ Step(o, [op[o] EXCEPT !.up = "failed"])
    /\ UNCHANGED <<driver, req, blind, blob, attrs, lock, marred, crashed>>

\* The service stores the object once it has all of it; the answer may be lost.
UploadEnds(o) ==
    /\ op[o].up = "running" /\ op[o].eof /\ ~op[o].ctxDone
    /\ ~(req[o].cond /\ blob[req[o].key] # NoBlob)
    /\ Store(o, NewContent(o))
    /\ \/ Step(o, [op[o] EXCEPT !.up = "ended", !.applied = TRUE]) /\ UNCHANGED faults
       \/ Fault /\ Step(o, [op[o] EXCEPT !.up = "failed", !.applied = TRUE])
    /\ UNCHANGED <<driver, req, blind, lock, marred, crashed>>

\* writer.Close: <-w.donec, then the result of the upload.
PipeReturn(o) ==
    /\ op[o].pc = "wait" /\ op[o].up \in {"ended", "failed"}
    /\ Done(o, op[o], IF op[o].up = "ended" THEN "ok" ELSE "err")
    /\ UNCHANGED <<driver, req, blind, blob, attrs, faults, marred, crashed>>

\* Delete: HeadObject to find out whether the key is there, then DeleteObject,
\* which succeeds in any case.
S3Head(o) ==
    /\ driver = "pipe" /\ op[o].pc = "idle" /\ req[o].kind = "delete"
    /\ IF blob[req[o].key] = NoBlob
       THEN Done(o, op[o], "err")
       ELSE Step(o, [op[o] EXCEPT !.pc = "remove"]) /\ UNCHANGED lock
    /\ UNCHANGED <<driver, req, blind, blob, attrs, faults, marred, crashed>>

S3Delete(o) ==
    /\ op[o].pc = "remove"
    /\ blob' = [blob EXCEPT ![req[o].key] = NoBlob]
    /\ attrs' = [attrs EXCEPT ![req[o].key] = NoAttrs]
    /\ Done(o, [op[o] EXCEPT !.applied = TRUE], "ok")
    /\ UNCHANGED <<driver, req, blind, faults, marred, crashed>>

-----------------------------------------------------------------------------
\* The process dies: its calls never return, its locks are gone, its files stay.
Crash ==
    /\ OnFiles /\ \E o \in Ops : op[o].pc \notin {"idle", "done"}
    /\ Fault
    /\ op' = [o \in Ops |-> IF op[o].pc \in {"idle", "done"} THEN op[o]
                                                            ELSE [op[o] EXCEPT !.pc = "dead"]]
    /\ lock' = None /\ crashed' = TRUE
    /\ UNCHANGED <<driver, req, blind, blob, attrs, marred>>

Portable(o) == NewWriter(o) \/ Write(o) \/ Close(o)
File(o) == \/ FileClose(o) \/ CheckNotExist(o) \/ CreateAttrs(o) \/ EncodeAttrs(o) \/ Rename(o)
           \/ FileDelete(o) \/ DeleteAttrs(o) \/ FileStat(o) \/ GetAttrs(o) \/ OpenContent(o)
Mem(o) == MemClose(o) \/ MemCommit(o) \/ MemDelete(o) \/ AtomicCopy(o) \/ AtomicRead(o)
Pipe(o) == PipeClose(o) \/ UploadFails(o) \/ UploadEnds(o) \/ PipeReturn(o) \/ S3Head(o) \/ S3Delete(o)

Work(o) == Portable(o) \/ File(o) \/ Mem(o) \/ Pipe(o)

Next == (\E o \in Ops : Work(o) \/ Cancel(o)) \/ Crash

\* Callers go on with what they began, and the service answers.
Fairness == \A o \in Ops : WF_vars(Work(o))

Spec == Init /\ [][Next]_vars /\ Fairness

-----------------------------------------------------------------------------
(***************************************************************************)
(* Properties                                                              *)
(***************************************************************************)

Status(o) == IF op[o].res # "none" THEN op[o].res
             ELSE IF op[o].applied THEN "applied" ELSE "pending"

Unsure(o) == req[o].kind = "delete" \/ driver = "pipe"

Ask(o) == IF o = Seed THEN [kind |-> "write", cond |-> TRUE]
          ELSE [kind |-> req[o].kind, key |-> req[o].key, src |-> req[o].src,
                cond |-> req[o].kind = "write" /\ req[o].cond, unsure |-> Unsure(o)]

Service == INSTANCE BlobService WITH
    Contents <- [by : Ops \union {Seed}, bytes : Seq((Ops \union {Seed}) \X Nat)],
    blobs <- blob,
    ask <- [o \in Ops \union {Seed} |-> Ask(o)],
    status <- [o \in Ops |-> Status(o)],
    got <- [o \in Ops |-> IF req[o].kind = "copy" THEN op[o].read ELSE NoBlob],
    strict <- ~OnFiles,
    unseen <- blind

\* Every driver keeps the promises of BlobService: the content of a key is
\* changed at one moment (os.Rename, os.Remove, the store under the mutex, the
\* request) or not at all, never after an error was reported, and IfNotExist
\* writers never replace each other's blobs whatever else runs, fails or is
\* cancelled in between.  Two exceptions, both fileblob's: such a writer may
\* replace the blob of a writer without the condition that came between its
\* Stat and its Rename, and any blob when its Stat failed.
Atomicity == Service!Spec

\* A write that takes effect, and none of whose calls to Write reported an
\* error, has stored all chunks in order, also those that waited in the
\* sniffing buffer of blob.Writer, and the ContentMD5 that was given is theirs.
WrittenIsStored ==
    \A o \in Ops : req[o].kind = "write" /\ op[o].applied /\ ~op[o].refused =>
        /\ op[o].data = [i \in 1..Len(req[o].sizes) |-> Chunk(o, i)]
        /\ req[o].md5 # "wrong"

\* Once nothing runs on a key that only one operation at a time has changed,
\* its attributes are those of its content: a failing Create, Encode, Rename or
\* write leaves the right attributes or none (fileblob's clean-up), and a
\* deleted key leaves none behind.  Excepted are keys where operations have
\* overlapped, where the Close of setAttrs failed (both in marred) or where
\* the second half of a Delete failed, and what a crash leaves.
AttributesFit ==
    \A k \in Keys :
        /\ ~crashed
        /\ \A o \in Ops : (req[o].key = k => o \notin marred) /\ ~(Changing(o) /\ req[o].key = k)
        /\ \A o \in Ops : ~(req[o].kind = "delete" /\ op[o].applied /\ op[o].res = "err")
        => \/ attrs[k] = NoAttrs /\ (blob[k] = NoBlob \/ driver = "bare" \/ faults > 0)
           \/ blob[k] # NoBlob /\ attrs[k] = blob[k].bytes

\* Every call returns, unless the process dies or the caller never closes its
\* writer: the lock of the IfNotExist writers is always given back, and an
\* upload that fails frees the writer at the other end of its pipe.
CallsReturn == \A o \in Ops : <>[](op[o].pc \in {"done", "dead"})

=============================================================================
