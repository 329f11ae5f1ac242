----------------------------- MODULE BucketLock -----------------------------
(***************************************************************************)
(* The read-write lock of blob.Bucket.  Every operation holds b.mu for     *)
(* reading while it is in the driver; Close, PrefixedBucket,               *)
(* SingleKeyBucket, SetDefaultReaderOptions and SetDefaultWriterOptions    *)
(* take it for writing.  ReadAll, Download and the Next of a ListIterator  *)
(* take it for reading again while they hold it.                           *)
(*                                                                         *)
(* b.mu is a sync.RWMutex (external): while a writer waits for the readers *)
(* that hold the lock, new readers wait for the writer.                    *)
(***************************************************************************)
EXTENDS Naturals

CONSTANTS
    Calls,      \* goroutines, each with one call on the Bucket
    None

\* Kinds of calls.  "one" stands for the operations with one critical section:
\* ListPage, Attributes, NewRangeReader, NewWriter, Copy, Delete, SignedURL.
Readers == {"ReadAll", "Download", "Next", "one"}
Setters == {"SetDefaultReaderOptions", "SetDefaultWriterOptions"}
Closers == {"Close", "PrefixedBucket", "SingleKeyBucket"}
Writers == Setters \union Closers

\* Bound: pages without objects that Next meets in a row.
MaxEmptyPages == 1

VARIABLES
    kind,       \* what each goroutine calls
    pc,         \* where it is
    holds,      \* how often it holds b.mu for reading
    pending,    \* who waits for b.mu for writing, or holds it
    closed,     \* b.closed
    dclosed     \* the driver's bucket is closed

vars == <<kind, pc, holds, pending, closed, dclosed>>

Goto(c, l) == pc' = [pc EXCEPT ![c] = l]

-----------------------------------------------------------------------------
(* sync.RWMutex *)

\* RLock: get the lock, or wait behind a writer.
RLock(c) ==
    /\ pc[c] = "rlock"
    /\ IF pending = None
       THEN holds' = [holds EXCEPT ![c] = @ + 1] /\ Goto(c, "locked")
       ELSE Goto(c, "waiting") /\ UNCHANGED holds
    /\ UNCHANGED <<kind, pending, closed, dclosed>>

RUnlock(c) ==
    /\ pc[c] = "runlock"
    /\ holds' = [holds EXCEPT ![c] = @ - 1]
    /\ Goto(c, IF holds[c] = 1 THEN "returned" ELSE "runlock")
    /\ UNCHANGED <<kind, pending, closed, dclosed>>

\* Lock: one writer at a time shuts out new readers, and then waits for the
\* readers that are there.
Lock(c) ==
    /\ pc[c] = "lock" /\ pending = None
    /\ pending' = c /\ Goto(c, "draining")
    /\ UNCHANGED <<kind, holds, closed, dclosed>>

\* Unlock lets in the readers that wait; c goes on at l.
Unlock(c, l) ==
    /\ pending' = None
    /\ pc' = [d \in Calls |-> IF d = c THEN l ELSE IF pc[d] = "waiting" THEN "locked" ELSE pc[d]]
    /\ holds' = [d \in Calls |-> IF pc[d] = "waiting" THEN holds[d] + 1 ELSE holds[d]]

Drained == \A d \in Calls : holds[d] = 0

-----------------------------------------------------------------------------
(* The operations *)

Call(c) ==
    /\ pc[c] = "idle"
    /\ Goto(c, IF kind[c] \in Writers THEN "lock" ELSE "rlock")
    /\ UNCHANGED <<kind, holds, pending, closed, dclosed>>

\* The Bucket is closed: unlock and return errClosed.
Refused(c) ==
    /\ pc[c] = "locked" /\ closed
    /\ Goto(c, "runlock")
    /\ UNCHANGED <<kind, holds, pending, closed, dclosed>>

\* The driver is called, with the lock held, and returns: an operation with
\* one critical section, the newRangeReader of ReadAll and Download, the
\* DownloadAt of Download, or the ListPaged of Next.
Operation(c) ==
    /\ pc[c] = "locked" /\ ~closed
    /\ kind[c] = "ReadAll" => holds[c] = 2
    /\ Goto(c, "runlock")
    /\ UNCHANGED <<kind, holds, pending, closed, dclosed>>

\* NewReader, called with the lock held.
NewReader(c) ==
    /\ pc[c] = "locked" /\ ~closed /\ holds[c] = 1
    /\ Goto(c, "rlock")
    /\ UNCHANGED <<kind, holds, pending, closed, dclosed>>

ReadAll(c) == kind[c] = "ReadAll" /\ NewReader(c)

\* Download, if DownloadAt does not do the work.
Download(c) == kind[c] = "Download" /\ NewReader(c)

\* Next has loaded a page with no objects that is not the last one, and calls
\* itself for the page after it.
NextAgain(c) ==
    /\ pc[c] = "locked" /\ ~closed
    /\ kind[c] = "Next" /\ holds[c] <= MaxEmptyPages
    /\ Goto(c, "rlock")
    /\ UNCHANGED <<kind, holds, pending, closed, dclosed>>

\* Store the options and unlock.
Set(c) ==
    /\ pc[c] = "draining" /\ Drained
    /\ Unlock(c, "returned")
    /\ UNCHANGED <<kind, closed, dclosed>>

SetDefaultReaderOptions(c) == kind[c] = "SetDefaultReaderOptions" /\ Set(c)
SetDefaultWriterOptions(c) == kind[c] = "SetDefaultWriterOptions" /\ Set(c)

\* Close sets b.closed, and closes the driver's bucket, after it has unlocked,
\* if it is the first.
CloseLocked(c) ==
    /\ pc[c] = "draining" /\ Drained /\ kind[c] = "Close"
    /\ closed' = TRUE
    /\ Unlock(c, IF closed THEN "returned" ELSE "closing")
    /\ UNCHANGED <<kind, dclosed>>

\* The Bucket is closed, and its driver lives on in another one.
Rewrap(c) ==
    /\ pc[c] = "draining" /\ Drained /\ kind[c] \in Closers \ {"Close"}
    /\ closed' = TRUE
    /\ Unlock(c, "returned")
    /\ UNCHANGED <<kind, dclosed>>

CloseDriver(c) ==
    /\ pc[c] = "closing"
    /\ dclosed' = TRUE /\ Goto(c, "returned")
    /\ UNCHANGED <<kind, holds, pending, closed>>

Init ==
    /\ kind \in [Calls -> Readers \union Writers]
    /\ pc = [c \in Calls |-> "idle"]
    /\ holds = [c \in Calls |-> 0]
    /\ pending = None
    /\ closed = FALSE /\ dclosed = FALSE

Step(c) ==
    \/ RLock(c) \/ RUnlock(c) \/ Lock(c)
    \/ Refused(c) \/ Operation(c) \/ ReadAll(c) \/ Download(c) \/ NextAgain(c)
    \/ SetDefaultReaderOptions(c) \/ SetDefaultWriterOptions(c)
    \/ CloseLocked(c) \/ CloseDriver(c) \/ Rewrap(c)

Next == \E c \in Calls : Call(c) \/ Step(c)

\* The Go scheduler runs every goroutine that can run, and the drivers return.
Fairness == \A c \in Calls : WF_vars(Step(c))

Spec == Init /\ [][Next]_vars /\ Fairness

-----------------------------------------------------------------------------
(* Properties *)

\* SetDefaultReaderOptions: "It is intended to be called once after opening a
\* Bucket, before concurrent use, but it is safe to call concurrently."  So a
\* call made at the same time as other calls returns, and so do the others.
SafeToCallConcurrently ==
    (\A c \in Calls : kind[c] \notin Closers)
        => \A c \in Calls : (pc[c] # "idle") ~> (pc[c] = "returned")

=============================================================================
