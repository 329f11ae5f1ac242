---------------------------- MODULE BatchService ----------------------------
(***************************************************************************)
(* What a Batcher promises its callers, without goroutines, counters and   *)
(* locks: items are handled in batches, cut off the front of a queue, a    *)
(* few batches at a time; all items of a batch get the one result of their *)
(* handler, and get it once; an item is refused at once or else handled,   *)
(* though its caller has given up; and Shutdown returns when there is      *)
(* nothing left to handle.  Batcher.tla implements it.                     *)
(***************************************************************************)
EXTENDS Naturals, Sequences, FiniteSets

CONSTANTS
    Items, HandlerErrors,
    NoResult, ErrShut, ErrTooLarge,  \* no result yet, and the two refusals
    Large,       \* the items that are refused for their size
    Allowed(_),  \* whether a batch is within the limits
    Handlers,    \* how many batches may be handled at a time
    MinBatch     \* how many items have to wait for a batch, before Shutdown

VARIABLES
    queue,     \* the items that wait, in the order in which they came
    running,   \* the batches that are being handled
    result,    \* the result of every item
    phase      \* "idle", "waiting" or "returned", of the caller of Shutdown

vars == <<queue, running, result, phase>>

In(i, s) == \E j \in 1..Len(s) : s[j] = i

\* Nobody has added the item.
New(i) == result[i] = NoResult /\ ~In(i, queue) /\ \A b \in running : ~In(i, b)

\* Start to handle the first items of q, or none of them, and leave the rest.
Start(q) ==
    \E k \in 0..Len(q) :
        /\ queue' = SubSeq(q, k + 1, Len(q))
        /\ IF k = 0 THEN UNCHANGED running
           ELSE /\ phase' = "idle" => Len(q) >= MinBatch
                /\ Allowed(SubSeq(q, 1, k))
                /\ Cardinality(running) < Handlers
                /\ running' = running \cup {SubSeq(q, 1, k)}

Accept(i) ==
    /\ phase = "idle" /\ New(i) /\ i \notin Large
    /\ UNCHANGED <<result, phase>>
    /\ Start(Append(queue, i))

Refuse(i) ==
    /\ New(i)
    /\ \/ phase # "idle" /\ result' = [result EXCEPT ![i] = ErrShut]
       \/ phase = "idle" /\ i \in Large /\ result' = [result EXCEPT ![i] = ErrTooLarge]
    /\ UNCHANGED <<queue, running, phase>>

StartMore == UNCHANGED <<result, phase>> /\ Start(queue)

\* The handler of a batch returns e.
Finish(b, e) ==
    /\ running' = running \ {b}
    /\ result' = [i \in Items |-> IF In(i, b) THEN e ELSE result[i]]
    /\ UNCHANGED <<queue, phase>>

Shutdown ==
    /\ phase = "idle" /\ phase' = "waiting"
    /\ UNCHANGED result
    /\ Start(queue)

ShutdownDone ==
    /\ phase = "waiting" /\ phase' = "returned"
    /\ queue = << >> /\ running = {}
    /\ UNCHANGED <<queue, running, result>>

Init ==
    /\ queue = << >> /\ running = {}
    /\ result = [i \in Items |-> NoResult]
    /\ phase = "idle"

Next ==
    \/ \E i \in Items : Accept(i) \/ Refuse(i)
    \/ StartMore
    \/ \E b \in running, e \in HandlerErrors : Finish(b, e)
    \/ Shutdown
    \/ ShutdownDone

Spec == Init /\ [][Next]_vars
=============================================================================
