------------------------------- MODULE Kafka -------------------------------
(***************************************************************************)
(* The subscription of kafkapubsub.  Kafka keeps one offset per partition  *)
(* and consumer group; the driver acks single messages, so it remembers    *)
(* what it has handed out, in order, and moves the offset over a prefix of *)
(* acked messages only.  The consumer group (sarama), the broker and the   *)
(* other member of the group are external.                                 *)
(***************************************************************************)
EXTENDS Naturals, Sequences, FiniteSets

CONSTANTS
    Partitions,
    Length(_),      \* messages in a partition p, at offsets 0..Length(p) - 1
    MaxRebalances   \* bound on sessions that end and on crashes

VARIABLES
    committed,  \* of a partition: the offset the broker keeps for the group, at least
    sess,       \* s.sess # nil
    owned,      \* the partitions of the session of this member
    claims,     \* s.claims
    pos,        \* of a partition: the next offset on its claim's channel
    marked,     \* of a partition: the offset marked by the member that owns it,
                \* committed from time to time
    taken,      \* what ReceiveBatch has selected and not yet appended: a sequence of
                \* at most one [p, off]
    unacked,    \* s.unacked: a sequence of [p, off, acked]
    heldAt,     \* indices into unacked: the application has yet to ack
    acksAt,     \* indices into unacked: acked, to be sent by the ackBatcher
    ackedOffs,  \* messages the application has acked
    closeCh,    \* s.closeCh is closed
    rebalances

kvars == <<committed, sess, owned, claims, pos, marked, taken, unacked, heldAt, acksAt, ackedOffs,
           closeCh, rebalances>>
group == <<committed, sess, owned, claims, pos, marked, rebalances>>

NoMsg == << >>

-----------------------------------------------------------------------------
(***************************************************************************)
(* The callbacks of the consumer group                                     *)
(***************************************************************************)

\* A session begins: the member is given some partitions, each from the
\* committed offset.
Setup ==
    /\ ~sess /\ ~closeCh
    /\ sess' = TRUE /\ claims' = {}
    /\ \E S \in SUBSET Partitions : owned' = S
    /\ committed' = marked /\ pos' = marked
    /\ UNCHANGED <<marked, taken, unacked, heldAt, acksAt, ackedOffs, closeCh, rebalances>>

ConsumeClaim(p) ==
    /\ sess /\ p \in owned \ claims
    /\ claims' = claims \union {p}
    /\ UNCHANGED <<committed, sess, owned, pos, marked, taken, unacked, heldAt, acksAt, ackedOffs, closeCh, rebalances>>

\* The session ends: what was marked is committed.
SessionEnds ==
    /\ sess' = FALSE /\ owned' = {} /\ claims' = {}
    /\ committed' = marked /\ pos' = marked /\ UNCHANGED marked

Cleanup ==
    /\ sess /\ rebalances < MaxRebalances /\ rebalances' = rebalances + 1
    /\ SessionEnds
    /\ UNCHANGED <<taken, unacked, heldAt, acksAt, ackedOffs, closeCh>>

-----------------------------------------------------------------------------
(***************************************************************************)
(* ReceiveBatch                                                            *)
(***************************************************************************)

\* reflect.Select over the claims; with none, or no message in time, the
\* batch is empty.  One call runs at a time (MaxHandlers is 1).
Select(p) ==
    /\ ~closeCh /\ taken = NoMsg /\ p \in claims /\ pos[p] < Length(p)
    /\ taken' = <<[p |-> p, off |-> pos[p]]>>
    /\ pos' = [pos EXCEPT ![p] = @ + 1]
    /\ UNCHANGED <<committed, sess, owned, claims, marked, unacked, heldAt, acksAt, ackedOffs, closeCh, rebalances>>

Append1 ==
    /\ taken # NoMsg
    /\ unacked' = Append(unacked, [p |-> taken[1].p, off |-> taken[1].off, acked |-> FALSE])
    /\ heldAt' = heldAt \union {Len(unacked) + 1}
    /\ taken' = NoMsg
    /\ UNCHANGED <<group, acksAt, ackedOffs, closeCh>>

AckAt(i) ==
    /\ i \in heldAt /\ heldAt' = heldAt \ {i}
    /\ acksAt' = acksAt \union {i}
    /\ ackedOffs' = ackedOffs \union {<<unacked[i].p, unacked[i].off>>}
    /\ UNCHANGED <<group, taken, unacked, closeCh>>

-----------------------------------------------------------------------------
(***************************************************************************)
(* SendAcks                                                                *)
(***************************************************************************)

\* The sequence with the messages of S marked as acked.
WithAcks(S) == [i \in DOMAIN unacked |-> [unacked[i] EXCEPT !.acked = @ \/ i \in S]]

\* The length of the longest prefix that is acked throughout.
AckedHead(seq) == CHOOSE n \in 0..Len(seq) :
    /\ \A i \in 1..n : seq[i].acked
    /\ n < Len(seq) => ~seq[n + 1].acked

\* MarkMessage for the messages of seq (external): the mark of a partition
\* only moves forward, and one that is not owned is ignored.
MarkMessages(seq) ==
    [p \in Partitions |->
        LET offs == {seq[i].off + 1 : i \in {j \in DOMAIN seq : seq[j].p = p}} \union {marked[p]}
        IN IF p \in owned THEN CHOOSE o \in offs : \A q \in offs : q <= o ELSE marked[p]]

\* Slip: every acked message is marked.
MarkAll(S) ==
    LET seq == WithAcks(S) IN
    /\ marked' = MarkMessages(SelectSeq(seq, LAMBDA m : m.acked))
    /\ unacked' = SelectSeq(seq, LAMBDA m : ~m.acked)

\* Slip: at most one message leaves the head.
MarkOne(S) ==
    LET seq == WithAcks(S)
        n == IF AckedHead(seq) = 0 THEN 0 ELSE 1
    IN marked' = MarkMessages(SubSeq(seq, 1, n)) /\ unacked' = SubSeq(seq, n + 1, Len(seq))

\* The acked messages at the head are marked and forgotten.
MarkHead(S) ==
    LET seq == WithAcks(S)
        n == AckedHead(seq)
    IN marked' = MarkMessages(SubSeq(seq, 1, n)) /\ unacked' = SubSeq(seq, n + 1, Len(seq))

\* Without a session the acks are only remembered.  Indices move with the
\* head of the sequence.
KafkaSendAcks ==
    \E S \in SUBSET acksAt \ {{}} :
       /\ IF sess THEN MarkHead(S) ELSE unacked' = WithAcks(S) /\ UNCHANGED marked
       /\ LET Moved(T) == {i - (Len(unacked) - Len(unacked')) : i \in T}
          IN heldAt' = Moved(heldAt) /\ acksAt' = Moved(acksAt \ S)
       /\ UNCHANGED <<committed, sess, owned, claims, pos, taken, ackedOffs, closeCh, rebalances>>

-----------------------------------------------------------------------------
(***************************************************************************)
(* The rest of the world                                                   *)
(***************************************************************************)

\* Another member of the group handles the next message of a partition that
\* this one does not own.
OtherMember(p) ==
    /\ p \notin owned /\ marked[p] < Length(p)
    /\ ackedOffs' = ackedOffs \union {<<p, marked[p]>>}
    /\ marked' = [marked EXCEPT ![p] = @ + 1] /\ committed' = [committed EXCEPT ![p] = marked[p] + 1]
    /\ UNCHANGED <<sess, owned, claims, pos, taken, unacked, heldAt, acksAt, closeCh, rebalances>>

\* The process ends, before or after its last commit, and another takes its
\* place.
Crash ==
    /\ rebalances < MaxRebalances /\ rebalances' = rebalances + 1
    /\ \E f \in {committed, marked} : committed' = f /\ marked' = f /\ pos' = f
    /\ sess' = FALSE /\ owned' = {} /\ claims' = {}
    /\ taken' = NoMsg /\ unacked' = << >> /\ heldAt' = {} /\ acksAt' = {} /\ closeCh' = FALSE
    /\ UNCHANGED ackedOffs

\* Close, or a fatal error of Consume: the session ends and no other begins.
ConsumerEnds ==
    /\ ~closeCh /\ rebalances < MaxRebalances /\ rebalances' = rebalances + 1
    /\ closeCh' = TRUE
    /\ SessionEnds
    /\ UNCHANGED <<taken, unacked, heldAt, acksAt, ackedOffs>>

KafkaInit ==
    /\ committed = [p \in Partitions |-> 0]
    /\ sess = FALSE /\ owned = {} /\ claims = {}
    /\ pos = [p \in Partitions |-> 0] /\ marked = [p \in Partitions |-> 0]
    /\ taken = NoMsg /\ unacked = << >> /\ heldAt = {} /\ acksAt = {} /\ ackedOffs = {}
    /\ closeCh = FALSE /\ rebalances = 0

ConsumeSome == \E p \in Partitions : ConsumeClaim(p)
SelectSome == \E p \in Partitions : Select(p)
SomeAckAt == \E i \in heldAt : AckAt(i)
OthersWork == \E p \in Partitions : OtherMember(p)

KafkaNext ==
    \/ Setup \/ ConsumeSome \/ Cleanup \/ SelectSome \/ Append1 \/ SomeAckAt \/ KafkaSendAcks
    \/ OthersWork \/ Crash \/ ConsumerEnds

\* The group gives every partition to a member, this one or the other, and
\* both go on receiving and acking.
KafkaFairness ==
    /\ WF_kvars(Setup) /\ WF_kvars(ConsumeSome) /\ WF_kvars(SelectSome) /\ WF_kvars(Append1)
    /\ WF_kvars(SomeAckAt) /\ WF_kvars(KafkaSendAcks) /\ WF_kvars(OthersWork)

KafkaSpec == KafkaInit /\ [][KafkaNext]_kvars /\ KafkaFairness

-----------------------------------------------------------------------------
\* The offset of the group never passes a message that nobody has acked:
\* through rebalances, second deliveries, acks sent while there is no session
\* and acks of messages from former sessions.
CommittedMeansAcked ==
    \A p \in Partitions : \A o \in 0..marked[p] - 1 : <<p, o>> \in ackedOffs

\* An application that acks what it gets has the whole topic behind it at
\* last, though acks sent without a session are not sent again.
AllCommitted == <>[](\A p \in Partitions : marked[p] = Length(p))

=============================================================================
