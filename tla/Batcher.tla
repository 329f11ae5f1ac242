------------------------------ MODULE Batcher ------------------------------
(***************************************************************************)
(* pubsub/batcher: items added by concurrent callers are grouped into       *)
(* batches, and each batch is passed to a handler running in a goroutine    *)
(* of its own, at most MaxHandlers at a time.  pubsub.Topic sends messages  *)
(* through one Batcher and pubsub.Subscription sends acks through another.  *)
(*                                                                         *)
(* Every critical section of b.mu is one step.  Outside of it the code does *)
(* four things, each a step of its own: a caller of Add waits in its        *)
(* select, a goroutine runs the handler and reports its result, a goroutine *)
(* calls wg.Done, and Shutdown waits in wg.Wait.                            *)
(***************************************************************************)
EXTENDS Integers, Sequences, FiniteSets

CONSTANTS
    Items,            \* the items callers add, each at most once
    Goroutines,       \* names for the live handler goroutines
    HandlerErrors,    \* what the handler may return
    ByteSize,         \* ByteSize[i]: what sizableItem.ByteSize returns for i
    MaxHandlers,      \* the fields of Options; 0 asks for the default
    MinBatchSize,
    MaxBatchSize,
    MaxBatchByteSize

\* Names for what the batcher itself sends on an item's channel, and for an
\* empty channel.
NoResult   == "noResult"
ErrShut    == "errShutDown"
ErrTooLarge == "ErrMessageTooLarge"

ASSUME BatcherAssumption ==
    /\ IsFiniteSet(Goroutines)
    /\ ByteSize \in [Items -> Nat]
    /\ MaxHandlers \in Nat
    /\ MinBatchSize \in Nat
    /\ MaxBatchSize \in Nat
    /\ MaxBatchByteSize \in Nat
    /\ HandlerErrors \cap {NoResult, ErrShut, ErrTooLarge} = {}

\* newOptionsWithDefaults: zero means 1 for these two, no limit for the others.
Handlers == IF MaxHandlers = 0 THEN 1 ELSE MaxHandlers
MinBatch == IF MinBatchSize = 0 THEN 1 ELSE MinBatchSize

VARIABLES
    pending,    \* b.pending: the waiters not yet in a batch
    nHandlers,  \* b.nHandlers
    shutdown,   \* b.shutdown
    wg,         \* the count of b.wg
    gpc,        \* where each handler goroutine is
    batch,      \* the batch each handler goroutine works on
    errc,       \* what was sent on each item's channel
    caller,     \* where each caller of Add is
    closer,     \* where the caller of Shutdown is
    accepted,   \* history: the items appended to b.pending, in order
    taken       \* history: the items nextBatch returned, in order

vars == <<pending, nHandlers, shutdown, wg, gpc, batch, errc, caller, closer,
          accepted, taken>>

InSeq(i, s) == \E j \in 1..Len(s) : s[j] = i

Results == HandlerErrors \cup {NoResult, ErrShut, ErrTooLarge}

-----------------------------------------------------------------------------
(* nextBatch *)

\* The first k waiters of p fit into a batch: s is the running batchByteSize
\* of the loop, which breaks before it would pass the limit.
FitsBytes(p, k) ==
    \E s \in [0..k -> 0..MaxBatchByteSize] :
        /\ s[0] = 0
        /\ \A j \in 1..k : s[j] = s[j-1] + ByteSize[p[j]]

Fits(p, k) ==
    /\ MaxBatchSize > 0 => k <= MaxBatchSize
    /\ MaxBatchByteSize > 0 => FitsBytes(p, k)

\* Slip: shutdown does not override the minimum.
BelowMinimumAlways(p, sd) == Len(p) < MinBatch

\* Slip: a batch of exactly the minimum size counts as too small.
BelowMinimumOrAtIt(p, sd) == ~sd /\ Len(p) <= MinBatch

\* nextBatch answers "no batch yet" only while the batcher is open.
BelowMinimum(p, sd) == ~sd /\ Len(p) < MinBatch

\* "Send it all!"
TakeAll(p) ==
    /\ MaxBatchByteSize = 0
    /\ MaxBatchSize = 0 \/ Len(p) <= MaxBatchSize

\* nextBatch, called with pending p and shutdown flag sd, returns k waiters.
NextBatchLen(p, sd, k) ==
    IF BelowMinimum(p, sd) THEN k = 0
    ELSE IF TakeAll(p) THEN k = Len(p)
    ELSE /\ k \in 0..Len(p)
         /\ Fits(p, k)
         /\ k < Len(p) => ~Fits(p, k + 1)

\* nextBatch returns the nil slice, which is not the same as an empty one:
\* the loop over pending starts from a slice it makes, so it never returns
\* nil.  "Send it all" returns b.pending itself, which is nil when it is
\* empty, as the loop then leaves at least one waiter behind.
NextBatchNil(p, sd) == BelowMinimum(p, sd) \/ (TakeAll(p) /\ p = <<>>)

\* Slip: one waiter too many is cut off b.pending.
RestButOne(p, k) == SubSeq(p, IF k = 0 THEN 1 ELSE k + 2, Len(p))

\* Slip: the last waiter of the batch stays in b.pending.
RestAndLast(p, k) == SubSeq(p, IF k = 0 THEN 1 ELSE k, Len(p))

\* What nextBatch leaves in b.pending when it returns k waiters.
Rest(p, k) == SubSeq(p, k + 1, Len(p))

-----------------------------------------------------------------------------
(* The critical sections *)

\* Slip: the goroutine starts without b.wg.Add(1).
HandleBatchNoAdd(p, sd) ==
    \E k \in 0..Len(p) :
        /\ NextBatchLen(p, sd, k)
        /\ pending' = Rest(p, k)
        /\ taken' = taken \o SubSeq(p, 1, k)
        /\ UNCHANGED wg
        /\ IF k = 0
           THEN UNCHANGED <<nHandlers, gpc, batch>>
           ELSE \E g \in Goroutines :
                    /\ gpc[g] = "none"
                    /\ gpc' = [gpc EXCEPT ![g] = "calling"]
                    /\ batch' = [batch EXCEPT ![g] = SubSeq(p, 1, k)]
                    /\ nHandlers' = nHandlers + 1

\* handleBatch(nextBatch()) with pending p and shutdown flag sd: start a
\* goroutine for the batch, unless the batch has length 0.
HandleBatch(p, sd) ==
    \E k \in 0..Len(p) :
        /\ NextBatchLen(p, sd, k)
        /\ pending' = Rest(p, k)
        /\ taken' = taken \o SubSeq(p, 1, k)
        /\ IF k = 0
           THEN UNCHANGED <<nHandlers, wg, gpc, batch>>
           ELSE \E g \in Goroutines :
                    /\ gpc[g] = "none"
                    /\ gpc' = [gpc EXCEPT ![g] = "calling"]
                    /\ batch' = [batch EXCEPT ![g] = SubSeq(p, 1, k)]
                    /\ wg' = wg + 1
                    /\ nHandlers' = nHandlers + 1

TooLarge(i) == MaxBatchByteSize > 0 /\ ByteSize[i] > MaxBatchByteSize

\* AddNoWait(i) refuses the item: its channel gets the error at once.
AddRefused(i) ==
    /\ caller[i] = "idle"
    /\ shutdown \/ TooLarge(i)
    /\ errc' = [errc EXCEPT ![i] = IF shutdown THEN ErrShut ELSE ErrTooLarge]
    /\ caller' = [caller EXCEPT ![i] = "select"]
    /\ UNCHANGED <<pending, nHandlers, shutdown, wg, gpc, batch, closer,
                   accepted, taken>>

\* "If we can start a handler"
MayStart == nHandlers < Handlers

\* AddNoWait(i) queues the item and starts a handler if one may be started.
AddAccepted(i) ==
    /\ caller[i] = "idle"
    /\ ~shutdown
    /\ ~TooLarge(i)
    /\ accepted' = Append(accepted, i)
    /\ IF MayStart
       THEN HandleBatch(Append(pending, i), shutdown)
       ELSE /\ pending' = Append(pending, i)
            /\ UNCHANGED <<nHandlers, wg, gpc, batch, taken>>
    /\ caller' = [caller EXCEPT ![i] = "select"]
    /\ UNCHANGED <<shutdown, errc, closer>>

\* Add's select: the result is there, or the caller's context is done.  The
\* item stays where it is in the second case.
AddReturns(i) ==
    /\ caller[i] = "select"
    /\ \/ /\ errc[i] # NoResult
          /\ caller' = [caller EXCEPT ![i] = "result"]
       \/ caller' = [caller EXCEPT ![i] = "ctx-done"]
    /\ UNCHANGED <<pending, nHandlers, shutdown, wg, gpc, batch, errc, closer,
                   accepted, taken>>

\* callHandler: the handler returns e, which is reported to every waiter of
\* the batch.  Each channel has room for one result, so the sends do not block.
HandlerReturns(g, e) ==
    /\ gpc[g] = "calling"
    /\ errc' = [i \in Items |->
                  IF InSeq(i, batch[g]) THEN e ELSE errc[i]]
    /\ gpc' = [gpc EXCEPT ![g] = "reported"]
    /\ UNCHANGED <<pending, nHandlers, shutdown, wg, batch, caller, closer,
                   accepted, taken>>

\* Slip: a goroutine that ends keeps its handler slot.
KeepSlot == UNCHANGED nHandlers

\* b.nHandlers--, in the critical section that finds no next batch.
GiveUpSlot == nHandlers' = nHandlers - 1

\* callHandler: take the next batch, or give up the handler slot.
TakeNext(g) ==
    /\ gpc[g] = "reported"
    /\ \E k \in 0..Len(pending) :
         /\ NextBatchLen(pending, shutdown, k)
         /\ pending' = Rest(pending, k)
         /\ taken' = taken \o SubSeq(pending, 1, k)
         /\ batch' = [batch EXCEPT ![g] = SubSeq(pending, 1, k)]
    /\ IF NextBatchNil(pending, shutdown)
       THEN /\ gpc' = [gpc EXCEPT ![g] = "exiting"]
            /\ GiveUpSlot
       ELSE /\ gpc' = [gpc EXCEPT ![g] = "calling"]
            /\ UNCHANGED nHandlers
    /\ UNCHANGED <<shutdown, wg, errc, caller, closer, accepted>>

\* b.wg.Done(), after which the goroutine is gone.
WgDone(g) ==
    /\ gpc[g] = "exiting"
    /\ gpc' = [gpc EXCEPT ![g] = "none"]
    /\ wg' = wg - 1
    /\ UNCHANGED <<pending, nHandlers, shutdown, batch, errc, caller, closer,
                   accepted, taken>>

\* Slip: Shutdown does not flush the partial batch.
ShutdownBeginNoFlush ==
    /\ closer = "idle"
    /\ closer' = "waiting"
    /\ shutdown' = TRUE
    /\ UNCHANGED <<pending, nHandlers, wg, gpc, batch, errc, caller, accepted,
                   taken>>

\* Shutdown up to the unlock: flush a partial batch nobody would take.
ShutdownBegin ==
    /\ closer = "idle"
    /\ closer' = "waiting"
    /\ shutdown' = TRUE
    /\ IF nHandlers = 0
       THEN HandleBatch(pending, TRUE)
       ELSE UNCHANGED <<pending, nHandlers, wg, gpc, batch, taken>>
    /\ UNCHANGED <<errc, caller, accepted>>

\* b.wg.Wait() returns, and Shutdown with it.
ShutdownReturns ==
    /\ closer = "waiting"
    /\ wg = 0
    /\ closer' = "returned"
    /\ UNCHANGED <<pending, nHandlers, shutdown, wg, gpc, batch, errc, caller,
                   accepted, taken>>

-----------------------------------------------------------------------------
Init ==
    /\ pending = <<>>
    /\ nHandlers = 0
    /\ shutdown = FALSE
    /\ wg = 0
    /\ gpc = [g \in Goroutines |-> "none"]
    /\ batch = [g \in Goroutines |-> <<>>]
    /\ errc = [i \in Items |-> NoResult]
    /\ caller = [i \in Items |-> "idle"]
    /\ closer = "idle"
    /\ accepted = <<>>
    /\ taken = <<>>

Next ==
    \/ \E i \in Items : AddRefused(i) \/ AddAccepted(i) \/ AddReturns(i)
    \/ \E g \in Goroutines :
         \/ \E e \in HandlerErrors : HandlerReturns(g, e)
         \/ TakeNext(g)
         \/ WgDone(g)
    \/ ShutdownBegin
    \/ ShutdownReturns

Spec == Init /\ [][Next]_vars

\* The Go scheduler runs every goroutine that can run, and a handler returns.
\* Nothing makes a caller add an item, a context end, or Shutdown be called.
Fairness ==
    /\ \A g \in Goroutines :
         /\ WF_vars(\E e \in HandlerErrors : HandlerReturns(g, e))
         /\ WF_vars(TakeNext(g))
         /\ WF_vars(WgDone(g))
    /\ \A i \in Items : WF_vars(errc[i] # NoResult /\ AddReturns(i))
    /\ WF_vars(ShutdownReturns)

FairSpec == Spec /\ Fairness
-----------------------------------------------------------------------------
(* Properties *)

\* Every variable has its type; in particular b.nHandlers and the count of
\* b.wg, which panics below zero, stay natural numbers.
TypeOK ==
    /\ pending \in Seq(Items)
    /\ nHandlers \in Nat
    /\ shutdown \in BOOLEAN
    /\ wg \in Nat
    /\ gpc \in [Goroutines -> {"none", "calling", "reported", "exiting"}]
    /\ batch \in [Goroutines -> Seq(Items)]
    /\ errc \in [Items -> Results]
    /\ caller \in [Items -> {"idle", "select", "result", "ctx-done"}]
    /\ closer \in {"idle", "waiting", "returned"}
    /\ accepted \in Seq(Items)
    /\ taken \in Seq(Items)

Working == {g \in Goroutines : gpc[g] \in {"calling", "reported"}}
Live    == {g \in Goroutines : gpc[g] # "none"}

Calling(i) == {g \in Goroutines : gpc[g] = "calling" /\ InSeq(i, batch[g])}

\* The items AddNoWait accepted reach the handlers in the order in which they
\* were accepted, and none of them is dropped or taken twice on the way,
\* whichever goroutine happens to call nextBatch.
TakenInOrder == accepted = taken \o pending

\* An accepted item that has no result yet is in b.pending or in the batch of
\* exactly one running handler, and an item whose channel holds a result is
\* in neither, so that callHandler's send on the channel, which has room for
\* one result, never blocks.
OneOwner ==
    \A i \in Items :
        IF errc[i] = NoResult
        THEN InSeq(i, accepted) =>
                \/ InSeq(i, pending) /\ Calling(i) = {}
                \/ ~InSeq(i, pending) /\ \E g \in Goroutines : Calling(i) = {g}
        ELSE ~InSeq(i, pending) /\ Calling(i) = {}

\* b.nHandlers is the number of goroutines that may still call the handler,
\* and it stays within MaxHandlers although AddNoWait, callHandler and
\* Shutdown all change it.
HandlerLimit ==
    /\ nHandlers = Cardinality(Working)
    /\ nHandlers <= Handlers

\* No lost wakeup.  "Take the new batch and decrement the handler count
\* atomically, so that newly added items will always get to run": when no
\* handler is left, no full batch is waiting for one, and after Shutdown
\* nothing at all is.
NoStrandedWork ==
    nHandlers = 0 =>
        IF shutdown THEN pending = <<>> ELSE Len(pending) < MinBatch

\* When Shutdown has returned, every item AddNoWait ever accepted has been
\* handled and its result is in its channel.
ShutdownFlushes ==
    closer = "returned" =>
        \A i \in Items : InSeq(i, accepted) => errc[i] # NoResult

\* The batches that handlers are working on.
Running == {batch[g] : g \in {h \in Goroutines : gpc[h] = "calling"}} \ {<< >>}

\* A batch within both limits of Options.
Allowed(b) == Fits(b, Len(b))

Service == INSTANCE BatchService WITH
    queue <- pending, running <- Running, result <- errc, phase <- closer,
    Large <- {i \in Items : TooLarge(i)}

\* The Batcher implements BatchService: whatever AddNoWait, the handler
\* goroutines and Shutdown do in whatever order, each of their critical
\* sections does one thing that a queue with a few handlers might do, or
\* nothing that callers can see; and Shutdown returns only when nothing is
\* queued or being handled.
ActsAsService == Service!Spec

\* "Shutdown waits for all active calls to Add to finish, then returns."
ShutdownCompletes == (closer = "waiting") ~> (closer = "returned")

=============================================================================
