------------------------------ MODULE MCPubsub ------------------------------
(***************************************************************************)
(* The safety of the two concurrent parts of pubsub, in one run: in each   *)
(* behaviour a Batcher or a Subscription is at work, and the other stays   *)
(* as it was made.  Of a Subscription either the receivers or the acks are *)
(* many.                                                                   *)
(***************************************************************************)
EXTENDS Batcher, Subscription, TLC

CONSTANTS i1, i2, i3, i4, g1, g2, g3, m1, h2

\* Items of two sizes, and one that is larger than the largest batch.
MCByteSize ==
    [i \in Items |-> IF i = i1 THEN 2 ELSE IF i = i4 THEN 4 ELSE 1]

VARIABLE part   \* what is at work, and within which bounds

\* Receivers and calls of ReceiveBatch compete; one message is acked or nacked.
ManyReceivers == (\A m \in Msgs \ {m1} : verdict[m] = "none") /\ hset[h2] = {}

\* Two messages are acked or nacked, in a batch together or in two batches at a
\* time; one receiver gets them one by one.
ManyAcks == m1 \in server /\ want <= 1 /\ \E r \in Receivers : rpc[r] = "idle"

BothInit == part \in {"Batcher", "Receivers", "Acks"} /\ Init /\ SubscriptionInit

BothNext ==
    \/ part = "Batcher" /\ Next /\ UNCHANGED <<part, svars>>
    \/ part = "Receivers" /\ SubscriptionNext /\ ManyReceivers' /\ UNCHANGED <<part, vars>>
    \/ part = "Acks" /\ SubscriptionNext /\ ManyAcks' /\ UNCHANGED <<part, vars>>

BothSpec == BothInit /\ [][BothNext]_<<part, vars, svars>>

\* Receivers are interchangeable, and so are messages that are treated alike.
Symmetry == Permutations(Receivers) \cup Permutations(Msgs \ {m1})

=============================================================================
