--------------------------- MODULE ReceiveProofs ---------------------------
(***************************************************************************)
(* Proofs about what the drivers of pubsub receive and ack.                *)
(*                                                                         *)
(* First Delivery: at-least-once delivery by every driver, for any number  *)
(* of messages, deliveries, nacks, expired leases and failed or closed     *)
(* channels.                                                               *)
(*                                                                         *)
(* Then Kafka, for any partitions of any length and any number of          *)
(* rebalances, crashes and second deliveries.                              *)
(***************************************************************************)
EXTENDS Delivery, Kafka, FiniteSetTheorems, SequenceTheorems, WellFoundedInduction, TLAPS

-----------------------------------------------------------------------------
(* Delivery: the inductive invariant *)

\* All deliveries of which somebody knows.
Known == leases \union held \union acks \union nacks \union delc

TypeOK ==
    /\ driver \in Drivers
    /\ ch \in Nat
    /\ tag \in Nat
    /\ misdirected \in BOOLEAN

\* What the ackBatcher is to ack, the application has acked.
AcksAreAcked == \A d \in acks : d.msg \in acked

\* rabbitpubsub: tags are given out in order on each channel, and a tag names
\* one message of its channel.
TagsName ==
    driver = "rabbitpubsub" =>
        /\ \A d \in Known : /\ d.ch \in Nat /\ d.ch <= ch
                            /\ d.id \in Nat /\ (d.ch = ch => d.id <= tag)
        /\ \A d, e \in Known : d.ch = ch /\ e.ch = ch /\ d.id = e.id => d.msg = e.msg

IInv == TypeOK /\ AcksAreAcked /\ TagsName /\ GoneMeansAcked

\* The drivers that are modelled.
DriversKnown ==
    Drivers \subseteq {"mempubsub", "gcppubsub", "gcppubsubv2", "awssnssqs", "azuresb", "rabbitpubsub"}

-----------------------------------------------------------------------------
(* What a request makes the service forget *)

\* The service gets to know no delivery by settling some, and forgets just the
\* messages it is to drop.
LEMMA SettleForgets ==
    ASSUME NEW G, NEW L, Settle(G, L) PROVE leases' \subseteq leases /\ gone' = gone \union G
  BY DEF Settle

\* Drop names no delivery that was not known.
LEMMA DropForgets ==
    ASSUME NEW G, Drop(G) PROVE leases' \subseteq leases /\ gone' = gone \union G
  BY SettleForgets DEF Drop

\* A lease that is taken back is no reason to forget its message.
LEMMA TakeBackForgets ==
    ASSUME NEW L, TakeBack(L) PROVE leases' \subseteq leases /\ gone' = gone
<1>1. leases' \subseteq leases /\ gone' = gone \union {}
  BY SettleForgets DEF TakeBack
<1> QED
  BY <1>1

\* Whatever a driver names in a request to ack the batch S, the service forgets
\* only messages of S.
LEMMA AckingForgets ==
    ASSUME DriversKnown, driver \in Drivers, driver # "rabbitpubsub", NEW S, Acking(S)
    PROVE  leases' \subseteq leases /\ gone' \subseteq gone \union {d.msg : d \in S}
<1>1. CASE driver = "mempubsub"
  BY <1>1, DropForgets DEF Acking, MemAcks
<1>2. CASE driver = "gcppubsub"
  <2>1. PICK T \in SUBSET (S \ leases) : Drop({d.msg : d \in T \union OfDelivery(S)})
    BY <1>2 DEF Acking, GcpAcks
  <2> QED
    BY <2>1, DropForgets DEF OfDelivery
<1>3. CASE driver = "gcppubsubv2"
  BY <1>3, DropForgets DEF Acking, GcpV2Acks, OfMessage
<1>4. CASE driver = "awssnssqs"
  <2>1. PICK T \in SUBSET (S \ leases) : Drop({d.msg : d \in T \union OfDelivery(S)})
    BY <1>4 DEF Acking, SqsAcks
  <2> QED
    BY <2>1, DropForgets DEF OfDelivery
<1>5. CASE driver = "azuresb"
  BY <1>5, DropForgets DEF Acking, AzureAcks, OfDelivery
<1> QED
  BY <1>1, <1>2, <1>3, <1>4, <1>5 DEF DriversKnown

\* A request to nack makes the service forget nothing.
LEMMA NackingForgets ==
    ASSUME DriversKnown, driver \in Drivers, driver # "rabbitpubsub", NEW S, Nacking(S)
    PROVE  leases' \subseteq leases /\ gone' = gone
<1>1. CASE driver = "mempubsub"
  BY <1>1, TakeBackForgets DEF Nacking, MemNacks
<1>2. CASE driver = "gcppubsub"
  BY <1>2, TakeBackForgets DEF Nacking, GcpNacks
<1>3. CASE driver = "gcppubsubv2"
  BY <1>3, TakeBackForgets DEF Nacking, GcpV2Nacks
<1>4. CASE driver = "awssnssqs"
  BY <1>4, TakeBackForgets DEF Nacking, SqsNacks
<1>5. CASE driver = "azuresb"
  BY <1>5, TakeBackForgets DEF Nacking, AzureNacks
<1> QED
  BY <1>1, <1>2, <1>3, <1>4, <1>5 DEF DriversKnown

-----------------------------------------------------------------------------
(* The steps *)

\* Steps of a driver other than rabbitpubsub.
LEMMA Elsewhere ==
    ASSUME IInv, driver # "rabbitpubsub", UNCHANGED <<driver, amqp>>, AcksAreAcked',
           acked \subseteq acked', gone' \subseteq gone \union acked
    PROVE  IInv'
  BY DEF IInv, TypeOK, TagsName, GoneMeansAcked, amqp

\* Steps that make nothing known that was not.
LEMMA Fewer ==
    ASSUME IInv, UNCHANGED <<driver, ch, tag, misdirected>>, Known' \subseteq Known, AcksAreAcked',
           acked \subseteq acked', gone' \subseteq gone
    PROVE  IInv'
<1>1. TagsName'
  BY DEF IInv, TagsName
<1> QED
  BY <1>1 DEF IInv, TypeOK, GoneMeansAcked

\* A message is delivered.
LEMMA StepDeliver ==
    ASSUME IInv, driver # "rabbitpubsub", NEW m \in Msgs, Deliver(m) PROVE IInv'
<1>1. UNCHANGED <<driver, acks, acked, gone, amqp>>
  BY DEF Deliver
<1> QED
  BY <1>1, Elsewhere DEF IInv, AcksAreAcked

\* A new channel of rabbitpubsub starts its tags from the beginning; what is
\* known is of former channels.
LEMMA StepEstablish ==
    ASSUME IInv, EstablishChannel PROVE IInv'
<1> USE DEF IInv
<1>1. UNCHANGED <<driver, leases, held, acks, nacks, acked, gone, misdirected>>
      /\ ch' = ch + 1 /\ tag' = 0 /\ delc' = {}
  BY DEF EstablishChannel
<1>2. Known' \subseteq Known
  BY <1>1 DEF Known
<1>3. TypeOK' /\ AcksAreAcked' /\ GoneMeansAcked'
  BY <1>1 DEF TypeOK, AcksAreAcked, GoneMeansAcked
<1>4. TagsName'
  <2> SUFFICES ASSUME driver = "rabbitpubsub" PROVE TagsName'
    BY <1>1 DEF TagsName
  <2>1. \A d \in Known' : d.ch \in Nat /\ d.ch <= ch /\ d.id \in Nat
    BY <1>2 DEF TagsName
  <2>2. \A d \in Known' : d.ch <= ch' /\ d.ch # ch'
    BY <1>1, <2>1 DEF TypeOK
  <2> QED
    BY <2>1, <2>2 DEF TagsName
<1> QED
  BY <1>3, <1>4

\* A ReceiveBatch fails, and leaves what it was given with the service.
LEMMA StepReceiveFails ==
    ASSUME IInv, ReceiveFails PROVE IInv'
<1>1. driver # "rabbitpubsub" /\ UNCHANGED <<driver, acks, acked, gone, amqp>>
  BY DEF ReceiveFails
<1> QED
  BY <1>1, Elsewhere DEF IInv, AcksAreAcked

\* A message is taken from the channel, or none is and the channel forgotten.
LEMMA StepRabbitReceive ==
    ASSUME IInv, RabbitReceive \/ RabbitReceiveClosed \/ RabbitReceiveFails PROVE IInv'
<1>1. UNCHANGED <<driver, ch, tag, misdirected, acks, acked, gone>>
  BY DEF RabbitReceive, RabbitReceiveClosed, RabbitReceiveFails
<1>2. Known' \subseteq Known
  BY DEF RabbitReceive, RabbitReceiveClosed, RabbitReceiveFails, Known
<1> QED
  BY <1>1, <1>2, Fewer DEF IInv, AcksAreAcked

\* The application says Ack or Nack, or opens another Subscription.
LEMMA StepApplication ==
    ASSUME IInv, Reopen \/ AckSome \/ NackSome PROVE IInv'
<1>1. CASE Reopen
  <2>1. UNCHANGED <<driver, ch, tag, misdirected, acks, nacks, acked>> /\ held' = {} /\ delc' \subseteq delc
    BY <1>1 DEF Reopen
  <2>2. leases' \subseteq leases /\ gone' = gone
    BY <1>1, TakeBackForgets DEF Reopen
  <2>3. Known' \subseteq Known
    BY <2>1, <2>2 DEF Known
  <2> QED
    BY <2>1, <2>2, <2>3, Fewer DEF IInv, AcksAreAcked
<1>2. CASE AckSome
  <2>1. PICK d \in held : Ack(d)
    BY <1>2 DEF AckSome
  <2>2. UNCHANGED <<driver, ch, tag, misdirected, gone>> /\ Known' \subseteq Known
    BY <2>1 DEF Ack, Known, amqp
  <2>3. AcksAreAcked' /\ acked \subseteq acked'
    BY <2>1 DEF Ack, IInv, AcksAreAcked
  <2> QED
    BY <2>2, <2>3, Fewer
<1>3. CASE NackSome
  <2>1. PICK d \in held : Nack(d)
    BY <1>3 DEF NackSome
  <2>2. UNCHANGED <<driver, ch, tag, misdirected, acks, acked, gone>> /\ Known' \subseteq Known
    BY <2>1 DEF Nack, Known, amqp
  <2> QED
    BY <2>2, Fewer DEF IInv, AcksAreAcked
<1> QED
  BY <1>1, <1>2, <1>3

\* SendAcks: whatever part of the batch the service acts on was acked.
LEMMA StepSendAcks ==
    ASSUME DriversKnown, IInv, SendAcks PROVE IInv'
<1>1. driver # "rabbitpubsub" /\ UNCHANGED <<driver, acked, amqp>>
  BY DEF SendAcks
<1>2. PICK S \in SUBSET acks : acks' \subseteq acks /\ \E T \in SUBSET S : Acking(T)
  BY DEF SendAcks
<1>3. PICK T \in SUBSET S : Acking(T)
  BY <1>2
<1>4. gone' \subseteq gone \union {d.msg : d \in T}
  BY <1>1, <1>3, AckingForgets DEF IInv, TypeOK
<1>5. {d.msg : d \in T} \subseteq acked
  BY <1>2, <1>3 DEF IInv, AcksAreAcked
<1>6. AcksAreAcked'
  BY <1>1, <1>2 DEF IInv, AcksAreAcked
<1> QED
  BY <1>1, <1>4, <1>5, <1>6, Elsewhere

\* SendNacks.
LEMMA StepSendNacks ==
    ASSUME DriversKnown, IInv, SendNacks PROVE IInv'
<1>1. driver # "rabbitpubsub" /\ UNCHANGED <<driver, acks, acked, amqp>>
  BY DEF SendNacks
<1>2. PICK S \in SUBSET nacks : \E T \in SUBSET S : Nacking(T)
  BY DEF SendNacks
<1>3. PICK T \in SUBSET S : Nacking(T)
  BY <1>2
<1>4. gone' = gone
  BY <1>1, <1>3, NackingForgets DEF IInv, TypeOK
<1> QED
  BY <1>1, <1>4, Elsewhere DEF IInv, AcksAreAcked

\* What rabbitpubsub makes the broker forget: messages named by tags of acks.
LEMMA RabbitForgets ==
    ASSUME NEW T, NEW isAck \in BOOLEAN, NEW L, RabbitSettle(T, isAck, L)
    PROVE  /\ leases' \subseteq leases
           /\ gone' \subseteq gone \union {l.msg : l \in Named(T)}
           /\ ~isAck => gone' = gone
<1>1. CASE isAck
  BY <1>1, SettleForgets DEF RabbitSettle
<1>2. CASE ~isAck
  BY <1>2, TakeBackForgets DEF RabbitSettle
<1> QED
  BY <1>1, <1>2

\* The tags of T are sent, for acks or nacks.  A tag of the current channel names
\* the message that came with it; with any other the step is misdirected.
LEMMA TagsAreSent ==
    ASSUME IInv, driver = "rabbitpubsub", NEW isAck \in BOOLEAN,
           NEW S \in SUBSET (acks \union nacks), isAck => S \subseteq acks,
           NEW T \in SUBSET S, NEW M \in SUBSET S, T \subseteq M, NEW L, RabbitSettle(T, isAck, L), Misdirects(M),
           UNCHANGED <<driver, held, acked, ch, tag>>, delc' \subseteq delc,
           acks' \subseteq acks, nacks' \subseteq nacks
    PROVE  IInv'
<1> USE DEF IInv
<1>1. misdirected' = (misdirected \/ \E d \in M : d.ch # ch)
  BY DEF Misdirects
<1>2. /\ leases' \subseteq leases
      /\ gone' \subseteq gone \union {l.msg : l \in Named(T)}
      /\ ~isAck => gone' = gone
  BY RabbitForgets
<1>3. Known' \subseteq Known
  BY <1>2 DEF Known
<1>4. TagsName'
  BY <1>3 DEF TagsName
<1>5. AcksAreAcked'
  BY DEF AcksAreAcked
<1>6. TypeOK'
  BY <1>1 DEF TypeOK
<1>7. GoneMeansAcked'
  <2>1. CASE misdirected \/ \E d \in M : d.ch # ch
    BY <1>1, <2>1 DEF GoneMeansAcked
  <2>2. CASE ~misdirected /\ (\A d \in M : d.ch = ch) /\ isAck
    <3>1. ASSUME NEW l \in Named(T) PROVE l.msg \in acked
      <4>1. PICK d \in T : l \in leases /\ l.ch = ch /\ d.id = l.id
        BY DEF Named, OfChannel
      <4>2. d \in acks /\ d.ch = ch
        BY <2>2
      <4>3. d.msg = l.msg
        BY <4>1, <4>2 DEF TagsName, Known
      <4> QED
        BY <4>2, <4>3 DEF AcksAreAcked
    <3> QED
      BY <1>2, <2>2, <3>1 DEF GoneMeansAcked
  <2>3. CASE ~isAck
    BY <1>1, <1>2, <2>3 DEF GoneMeansAcked, TypeOK
  <2> QED
    BY <2>1, <2>2, <2>3
<1> QED
  BY <1>4, <1>5, <1>6, <1>7

\* sendAcksOrNacks of rabbitpubsub, however far it gets.
LEMMA StepRabbitSend ==
    ASSUME IInv, NEW isAck \in BOOLEAN, NEW S \in SUBSET (acks \union nacks), isAck => S \subseteq acks,
           RabbitSend(S, isAck), acks' \subseteq acks, nacks' \subseteq nacks
    PROVE  IInv'
<1>1. UNCHANGED <<driver, held, acked, ch, tag>> /\ driver = "rabbitpubsub"
  BY DEF RabbitSend
<1>2. CASE RabbitSendAll(S, isAck)
  <2>1. RabbitSettle(S, isAck, {}) /\ Misdirects(S) /\ delc' \subseteq delc
    BY <1>2 DEF RabbitSendAll
  <2> QED
    BY <1>1, <2>1, TagsAreSent
<1>3. CASE RabbitSendRefused(S, isAck)
  <2>1. PICK T \in SUBSET S, d \in S : RabbitSettle(T, isAck, OfChannel) /\ Misdirects(T \union {d})
    BY <1>3 DEF RabbitSendRefused
  <2>2. delc' \subseteq delc /\ T \union {d} \in SUBSET S /\ T \subseteq T \union {d}
    BY <1>3 DEF RabbitSendRefused
  <2> QED
    BY <1>1, <2>1, <2>2, TagsAreSent
<1>4. CASE RabbitSendFails(S, isAck)
  <2>1. PICK T \in SUBSET S :
           /\ Misdirects(T) /\ delc' \subseteq delc
           /\ RabbitSettle(T, isAck, {}) \/ RabbitSettle(T, isAck, OfChannel)
    BY <1>4 DEF RabbitSendFails
  <2> QED
    BY <1>1, <2>1, TagsAreSent
<1>5. CASE RabbitSendUnopened
  <2>1. UNCHANGED <<leases, gone, delc, misdirected>>
    BY <1>5 DEF RabbitSendUnopened
  <2>2. Known' \subseteq Known /\ AcksAreAcked'
    BY <1>1, <2>1 DEF Known, IInv, AcksAreAcked
  <2> QED
    BY <1>1, <2>1, <2>2, Fewer
<1> QED
  BY <1>2, <1>3, <1>4, <1>5 DEF RabbitSend

\* The broker pushes a message: its tag is new on the channel.
LEMMA StepPush ==
    ASSUME IInv, NEW m \in Msgs, Push(m) PROVE IInv'
<1> USE DEF IInv
<1> DEFINE d == Delivery(tag + 1, ch, m)
<1>1. UNCHANGED <<driver, held, acks, nacks, acked, gone, ch, misdirected>> /\ driver = "rabbitpubsub"
      /\ tag' = tag + 1 /\ leases' = leases \union {d} /\ delc' = delc \union {d}
  BY DEF Push
<1>2. Known' = Known \union {d}
  BY <1>1 DEF Known
<1>3. d.ch = ch /\ d.id = tag + 1 /\ d.msg = m
  BY DEF Delivery
<1> HIDE DEF d
<1>4. TypeOK' /\ AcksAreAcked' /\ GoneMeansAcked'
  BY <1>1 DEF TypeOK, AcksAreAcked, GoneMeansAcked
<1>5. \A e \in Known : e.ch \in Nat /\ e.ch <= ch /\ e.id \in Nat /\ (e.ch = ch => e.id <= tag)
  BY <1>1 DEF TagsName
<1>6. \A e \in Known' : e.ch \in Nat /\ e.ch <= ch' /\ e.id \in Nat /\ (e.ch = ch' => e.id <= tag')
  BY <1>1, <1>2, <1>3, <1>5 DEF TypeOK
<1>7. \A e \in Known : e.ch = ch => e.id # d.id
  BY <1>3, <1>5 DEF TypeOK
<1>8. \A e, f \in Known' : e.ch = ch' /\ f.ch = ch' /\ e.id = f.id => e.msg = f.msg
  <2>1. \A e, f \in Known : e.ch = ch /\ f.ch = ch /\ e.id = f.id => e.msg = f.msg
    BY <1>1 DEF TagsName
  <2> QED
    BY <1>1, <1>2, <1>7, <2>1
<1> QED
  BY <1>1, <1>4, <1>6, <1>8 DEF TagsName

\* A lease expires, or the channel is closed.
LEMMA StepService ==
    ASSUME IInv, Expire \/ ChannelCloses PROVE IInv'
<1>1. UNCHANGED <<driver, held, acks, nacks, acked, ch, tag, misdirected>> /\ delc' \subseteq delc
  BY DEF Expire, ChannelCloses, amqp
<1>2. leases' \subseteq leases /\ gone' = gone
  BY TakeBackForgets DEF Expire, ChannelCloses
<1>3. Known' \subseteq Known
  BY <1>1, <1>2 DEF Known
<1> QED
  BY <1>1, <1>2, <1>3, Fewer DEF IInv, AcksAreAcked

\* The invariant holds at the start.
LEMMA InitIInv == Init => IInv
<1> SUFFICES ASSUME Init PROVE IInv
  OBVIOUS
<1>1. Known = {} /\ TypeOK
  BY DEF Init, Known, TypeOK
<1>2. AcksAreAcked /\ GoneMeansAcked
  BY DEF Init, AcksAreAcked, GoneMeansAcked
<1> QED
  BY <1>1, <1>2 DEF IInv, TagsName

\* Every step keeps the invariant.
LEMMA NextIInv == DriversKnown /\ IInv /\ [Next]_vars => IInv'
<1> SUFFICES ASSUME DriversKnown, IInv, [Next]_vars PROVE IInv'
  OBVIOUS
<1>1. CASE Receive
  <2>1. ASSUME NEW m \in Msgs, MemReceive(m) \/ GcpReceive(m) \/ GcpV2Receive(m)
                               \/ SqsReceive(m) \/ AzureReceive(m)
        PROVE  IInv'
    BY <2>1, StepDeliver DEF MemReceive, GcpReceive, GcpV2Receive, SqsReceive, AzureReceive
  <2> QED
    BY <1>1, <2>1, StepEstablish, StepRabbitReceive DEF Receive
<1>2. CASE RabbitAck
  <2>1. PICK S \in SUBSET acks : acks' \subseteq acks /\ RabbitSend(S, TRUE) /\ UNCHANGED nacks
    BY <1>2 DEF RabbitAck
  <2> QED
    BY <2>1, StepRabbitSend
<1>3. CASE RabbitNack
  <2>1. PICK S \in SUBSET nacks : nacks' \subseteq nacks /\ RabbitSend(S, FALSE) /\ UNCHANGED acks
    BY <1>3 DEF RabbitNack
  <2> QED
    BY <2>1, StepRabbitSend
<1>4. CASE PushSome
  BY <1>4, StepPush DEF PushSome
<1>5. CASE UNCHANGED vars
  <2>1. Known' = Known /\ AcksAreAcked'
    BY <1>5 DEF vars, amqp, Known, IInv, AcksAreAcked
  <2> QED
    BY <1>5, <2>1, Fewer DEF vars, amqp
<1> QED
  BY <1>1, <1>2, <1>3, <1>4, <1>5, StepReceiveFails, StepRabbitReceive, StepApplication,
     StepSendAcks, StepSendNacks, StepService DEF Next, ReceiveError

-----------------------------------------------------------------------------
(* The theorems *)

\* The invariant holds in every reachable state of every driver.
THEOREM Invariance == DriversKnown => (Spec => []IInv)
<1> SUFFICES ASSUME DriversKnown PROVE Spec => []IInv
  OBVIOUS
<1>1. IInv /\ [Next]_vars => IInv'
  BY NextIInv
<1> QED
  BY <1>1, InitIInv, PTL DEF Spec

\* At-least-once delivery: no driver makes its service forget a message that the
\* application has not acked, whichever requests fail in part and whichever
\* Subscriptions fail and are opened again, as long as no tag of a former AMQP channel is used
\* on a later one (SendAcks and SendNacks of the drivers, mempubsub's delete and
\* sendAcksOrNacks of rabbitpubsub).
THEOREM AtLeastOnce == DriversKnown => (Spec => []GoneMeansAcked)
<1>1. IInv => GoneMeansAcked
  BY DEF IInv
<1> QED
  BY <1>1, Invariance, PTL

-----------------------------------------------------------------------------
(* Kafka: the inductive invariant *)

Entry == [p : Partitions, off : Nat, acked : BOOLEAN]

KafkaTypeOK ==
    /\ committed \in [Partitions -> Nat]
    /\ pos \in [Partitions -> Nat]
    /\ marked \in [Partitions -> Nat]
    /\ unacked \in Seq(Entry)
    /\ heldAt \subseteq 1..Len(unacked)
    /\ acksAt \subseteq 1..Len(unacked)
    /\ \/ taken = NoMsg
       \/ \E p \in Partitions, o \in Nat : taken = <<[p |-> p, off |-> o]>>

\* The application has acked what s.unacked says is acked, and what is on its
\* way to SendAcks.
AcksAreReal ==
    \A i \in 1..Len(unacked) :
        unacked[i].acked \/ i \in acksAt => <<unacked[i].p, unacked[i].off>> \in ackedOffs

\* A message that the application has yet to ack, or whose ack is on its way,
\* is not acked in s.unacked: SendAcks does not take it away.
Waiting ==
    /\ heldAt \cap acksAt = {}
    /\ \A i \in heldAt \cup acksAt : ~unacked[i].acked

\* The message at offset o of p has been acked or stands among the first n of
\* s.unacked.
Covered(p, o, n) ==
    \/ <<p, o>> \in ackedOffs
    \/ \E j \in 1..n : unacked[j].p = p /\ unacked[j].off = o

\* s.unacked has no gaps: what comes before a message in its partition has been
\* acked or comes before it in the sequence, through rebalances that deliver
\* messages again and acks that take the head away.
NoGaps ==
    \A i \in 1..Len(unacked) : \A o \in Nat :
        o < unacked[i].off => Covered(unacked[i].p, o, i - 1)

\* The same for the message that ReceiveBatch is about to append ...
TakenFollows ==
    taken # NoMsg =>
        \A o \in Nat : o < taken[1].off => Covered(taken[1].p, o, Len(unacked))

\* ... and for the position on a claim's channel.
PosFollows ==
    \A p \in Partitions : \A o \in Nat :
        o < pos[p] => \/ Covered(p, o, Len(unacked))
                      \/ taken = <<[p |-> p, off |-> o]>>

\* All messages below the offsets in f have been acked.
AllBelowAcked(f) == \A p \in Partitions : \A o \in Nat : o < f[p] => <<p, o>> \in ackedOffs

KafkaIInv ==
    /\ KafkaTypeOK
    /\ AcksAreReal
    /\ Waiting
    /\ NoGaps
    /\ TakenFollows
    /\ PosFollows
    /\ AllBelowAcked(committed)
    /\ AllBelowAcked(marked)

-----------------------------------------------------------------------------
(* Lemmas about the operators *)

\* A nonempty set of naturals has a least element.
LEMMA LeastNat ==
    ASSUME NEW T \in SUBSET Nat, T # {}
    PROVE  \E x \in T : \A y \in T : x <= y
<1>1. PICK x \in T : \A y \in T : ~(<<y, x>> \in OpToRel(<, Nat))
  BY NatLessThanWellFounded, WFMin
<1>2. \A y \in T : ~(y < x)
  BY <1>1 DEF OpToRel
<1> QED
  BY <1>2

\* A nonempty finite set of naturals has a greatest element: the one with the
\* fewest elements above it.
LEMMA GreatestNat ==
    ASSUME NEW T \in SUBSET Nat, T # {}, IsFiniteSet(T)
    PROVE  \E x \in T : \A y \in T : y <= x
<1> DEFINE Above(x) == {y \in T : y > x}
           Counts == {Cardinality(Above(x)) : x \in T}
<1>1. \A x \in T : IsFiniteSet(Above(x)) /\ Cardinality(Above(x)) \in Nat
  <2> TAKE x \in T
  <2>1. Above(x) \in SUBSET T
    OBVIOUS
  <2> HIDE DEF Above
  <2> QED
    BY <2>1, FS_Subset, FS_CardinalityType
<1>2. Counts \in SUBSET Nat /\ Counts # {}
  BY <1>1
<1>3. PICK c \in Counts : \A d \in Counts : c <= d
  <2> HIDE DEF Counts
  <2> QED
    BY <1>2, LeastNat
<1>4. PICK x \in T : c = Cardinality(Above(x))
  BY <1>3
<1>5. ASSUME NEW y \in T, y > x PROVE FALSE
  <2>1. Above(y) \in SUBSET Above(x) /\ Above(y) # Above(x)
    <3>1. \A z \in Nat : z > y => z > x
      BY <1>5
    <3>2. y \in Above(x) /\ y \notin Above(y)
      BY <1>5
    <3> QED
      BY <3>1, <3>2
  <2>2. Cardinality(Above(x)) <= Cardinality(Above(y))
    BY <1>3, <1>4
  <2> HIDE DEF Above
  <2>3. Cardinality(Above(y)) <= Cardinality(Above(x)) /\ (Cardinality(Above(x)) = Cardinality(Above(y)) => Above(x) = Above(y))
    BY <1>1, <2>1, FS_Subset
  <2>4. \A a, b \in Nat : a <= b /\ b <= a => a = b
    OBVIOUS
  <2>5. Cardinality(Above(x)) = Cardinality(Above(y))
    BY <1>1, <2>2, <2>3, <2>4
  <2> QED
    BY <2>1, <2>3, <2>5
<1> QED
  BY <1>5

\* The head that SendAcks takes is acked throughout.
LEMMA AckedHeadIsAcked ==
    ASSUME NEW seq \in Seq(Entry)
    PROVE  /\ AckedHead(seq) \in 0..Len(seq)
           /\ \A i \in 1..AckedHead(seq) : seq[i].acked
<1> DEFINE Longer == {n \in 0..Len(seq) : n = Len(seq) \/ ~seq[n + 1].acked}
<1>1. Len(seq) \in Nat /\ Len(seq) \in Longer /\ Longer \in SUBSET Nat
  OBVIOUS
<1>2. PICK n \in Longer : \A m \in Longer : n <= m
  <2> HIDE DEF Longer
  <2> QED
    BY <1>1, LeastNat
<1>3. ASSUME NEW i \in 1..n PROVE seq[i].acked
  <2>1. i - 1 \in 0..Len(seq) /\ ~(n <= i - 1) /\ i - 1 # Len(seq) /\ (i - 1) + 1 = i
    BY <1>1, <1>2
  <2> QED
    BY <1>2, <2>1
<1>4. \E k \in 0..Len(seq) :
         /\ \A i \in 1..k : seq[i].acked
         /\ k < Len(seq) => ~seq[k + 1].acked
  BY <1>2, <1>3
<1> QED
  BY <1>4 DEF AckedHead

\* The new mark of a partition is the old one or follows a message of seq.
LEMMA MarksAreKnown ==
    ASSUME KafkaTypeOK, NEW seq \in Seq(Entry), NEW p \in Partitions
    PROVE  /\ MarkMessages(seq)[p] \in Nat
           /\ MarkMessages(seq)[p] >= marked[p]
           /\ \/ MarkMessages(seq)[p] = marked[p]
              \/ \E i \in 1..Len(seq) : seq[i].p = p /\ MarkMessages(seq)[p] = seq[i].off + 1
<1> DEFINE D == {j \in DOMAIN seq : seq[j].p = p}
           I == {seq[i].off + 1 : i \in D}
           f == [i \in D |-> seq[i].off + 1]
           offs == I \union {marked[p]}
<1>1. \A i \in D : i \in 1..Len(seq) /\ seq[i].off \in Nat
  <2> TAKE i \in D
  <2>1. i \in 1..Len(seq)
    OBVIOUS
  <2>2. seq[i] \in Entry
    BY <2>1
  <2> QED
    BY <2>1, <2>2 DEF Entry
<1>2. IsFiniteSet(D)
  <2>1. D \in SUBSET (1..Len(seq)) /\ Len(seq) \in Int
    OBVIOUS
  <2> QED
    BY <2>1, FS_Interval, FS_Subset
<1>3. IsFiniteSet(I)
  <2>1. f \in Surjection(D, I)
    BY DEF Surjection
  <2> QED
    BY <1>2, <2>1, FS_Surjection
<1>4. IsFiniteSet(offs) /\ offs \in SUBSET Nat /\ offs # {}
  <2>1. marked[p] \in Nat
    BY DEF KafkaTypeOK
  <2>2. offs \in SUBSET Nat /\ offs # {}
    BY <1>1, <2>1
  <2>3. IsFiniteSet(offs)
    <3> HIDE DEF I
    <3> QED
      BY <1>3, FS_AddElement
  <2> QED
    BY <2>2, <2>3
<1>5. \E o \in offs : \A q \in offs : q <= o
  <2> HIDE DEF offs
  <2> QED
    BY <1>4, GreatestNat
<1>6. MarkMessages(seq)[p] = IF p \in owned THEN CHOOSE o \in offs : \A q \in offs : q <= o ELSE marked[p]
  BY DEF MarkMessages
<1>7. MarkMessages(seq)[p] \in offs
  BY <1>5, <1>6
<1>8. MarkMessages(seq)[p] >= marked[p]
  <2>1. marked[p] \in offs
    OBVIOUS
  <2> HIDE DEF offs
  <2>2. MarkMessages(seq)[p] = marked[p] \/ \A q \in offs : q <= MarkMessages(seq)[p]
    BY <1>5, <1>6
  <2>3. MarkMessages(seq)[p] \in Nat /\ marked[p] \in Nat
    BY <1>4, <1>7, <2>1
  <2> QED
    BY <2>1, <2>2, <2>3
<1> QED
  BY <1>1, <1>4, <1>7, <1>8

-----------------------------------------------------------------------------
(* The steps *)

\* The invariant holds at the start.
LEMMA KafkaInitIInv == KafkaInit => KafkaIInv
<1> SUFFICES ASSUME KafkaInit PROVE KafkaIInv
  OBVIOUS
<1> USE DEF KafkaInit
<1>1. KafkaTypeOK
  BY DEF KafkaTypeOK
<1>2. AcksAreReal /\ Waiting /\ NoGaps
  BY DEF AcksAreReal, Waiting, NoGaps
<1>3. TakenFollows
  BY DEF TakenFollows
<1>4. PosFollows /\ AllBelowAcked(committed) /\ AllBelowAcked(marked)
  BY DEF PosFollows, AllBelowAcked
<1> QED
  BY <1>1, <1>2, <1>3, <1>4 DEF KafkaIInv

\* Setup, ConsumeClaim, Cleanup and the end of the consumer leave s.unacked
\* alone; the positions go back to the marks, below which all is acked.
LEMMA StepGroup ==
    ASSUME KafkaIInv, Setup \/ ConsumeSome \/ Cleanup \/ ConsumerEnds PROVE KafkaIInv'
<1> USE DEF KafkaIInv
<1>1. /\ UNCHANGED <<marked, taken, unacked, heldAt, acksAt, ackedOffs>>
      /\ committed' \in {committed, marked}
      /\ pos' \in {pos, marked}
  BY DEF Setup, ConsumeSome, ConsumeClaim, Cleanup, ConsumerEnds, SessionEnds
<1>2. KafkaTypeOK'
  BY <1>1 DEF KafkaTypeOK
<1>3. AcksAreReal' /\ Waiting'
  BY <1>1 DEF AcksAreReal, Waiting
<1>4. NoGaps'
  BY <1>1 DEF NoGaps, Covered
<1>5. TakenFollows'
  BY <1>1 DEF TakenFollows, Covered
<1>6. PosFollows'
  BY <1>1 DEF PosFollows, Covered, AllBelowAcked
<1>7. AllBelowAcked(committed)' /\ AllBelowAcked(marked)'
  BY <1>1 DEF AllBelowAcked
<1> QED
  BY <1>2, <1>3, <1>4, <1>5, <1>6, <1>7

\* The selected message follows what is in s.unacked.
LEMMA StepSelect ==
    ASSUME KafkaIInv, NEW p \in Partitions, Select(p) PROVE KafkaIInv'
<1> USE DEF KafkaIInv, Select
<1>0. pos[p] \in Nat /\ taken = NoMsg
  BY DEF KafkaTypeOK
<1>1. KafkaTypeOK'
  BY <1>0 DEF KafkaTypeOK
<1>2. AcksAreReal' /\ Waiting'
  BY DEF AcksAreReal, Waiting
<1>3. NoGaps'
  BY DEF NoGaps, Covered
<1>4. \A q \in Partitions, o \in Nat : o < pos[q] => Covered(q, o, Len(unacked))
  BY <1>0 DEF PosFollows, NoMsg
<1>5. TakenFollows'
  BY <1>0, <1>4 DEF TakenFollows, Covered
<1>6. PosFollows'
  <2> SUFFICES ASSUME NEW q \in Partitions, NEW o \in Nat, o < pos'[q]
               PROVE  Covered(q, o, Len(unacked))' \/ taken' = <<[p |-> q, off |-> o]>>
    BY DEF PosFollows
  <2>1. CASE o < pos[q]
    BY <1>4, <2>1 DEF Covered
  <2>2. CASE ~(o < pos[q])
    <3>1. q = p /\ o = pos[p]
      BY <1>0, <2>2 DEF KafkaTypeOK
    <3> QED
      BY <3>1
  <2> QED
    BY <2>1, <2>2
<1>7. AllBelowAcked(committed)' /\ AllBelowAcked(marked)'
  BY DEF AllBelowAcked
<1> QED
  BY <1>1, <1>2, <1>3, <1>5, <1>6, <1>7

\* The selected message is appended to s.unacked.
LEMMA StepAppend == ASSUME KafkaIInv, Append1 PROVE KafkaIInv'
<1> USE DEF KafkaIInv, Append1, group
<1>1. PICK p \in Partitions, o \in Nat : taken = <<[p |-> p, off |-> o]>>
  BY DEF KafkaTypeOK
<1>n. PICK n \in Nat : n = Len(unacked)
  BY DEF KafkaTypeOK
<1> DEFINE e == [p |-> p, off |-> o, acked |-> FALSE]
<1>2. e \in Entry /\ unacked' = Append(unacked, e) /\ unacked \in Seq(Entry)
  <2>1. taken[1].p = p /\ taken[1].off = o
    BY <1>1
  <2> QED
    BY <2>1 DEF KafkaTypeOK, Entry
<1>3. /\ unacked' \in Seq(Entry) /\ Len(unacked') = n + 1
      /\ \A i \in 1..n : unacked'[i] = unacked[i]
      /\ unacked'[n + 1] = e
  <2> HIDE DEF e
  <2> QED
    BY <1>n, <1>2, AppendProperties
<1>4. KafkaTypeOK'
  <2>1. \A i \in 1..n : i \in 1..Len(unacked')
    BY <1>3
  <2>2. n + 1 \in 1..Len(unacked')
    BY <1>3
  <2>3. heldAt' \subseteq 1..Len(unacked') /\ acksAt' \subseteq 1..Len(unacked')
    BY <1>n, <2>1, <2>2 DEF KafkaTypeOK
  <2> QED
    BY <1>3, <2>3 DEF KafkaTypeOK
<1>5. AcksAreReal'
  <2> SUFFICES ASSUME NEW i \in 1..(n + 1), unacked'[i].acked \/ i \in acksAt
               PROVE  <<unacked'[i].p, unacked'[i].off>> \in ackedOffs
    BY <1>3 DEF AcksAreReal
  <2>1. i \in 1..n
    BY <1>n, <1>3 DEF KafkaTypeOK
  <2> QED
    BY <1>n, <1>3, <2>1 DEF AcksAreReal
<1>11. Waiting'
  <2>1. \A i \in heldAt \cup acksAt : i \in 1..n /\ unacked'[i] = unacked[i]
    BY <1>n, <1>3 DEF KafkaTypeOK
  <2>2. n + 1 \notin heldAt \cup acksAt
    BY <2>1
  <2> QED
    BY <1>n, <1>3, <2>1, <2>2 DEF Waiting
<1>6. \A q, u : \A m \in 0..n : Covered(q, u, m) => Covered(q, u, m)'
  <2> TAKE q, u
  <2> TAKE m \in 0..n
  <2>1. \A j \in 1..m : unacked'[j] = unacked[j]
    BY <1>3
  <2> QED
    BY <2>1 DEF Covered
<1>7. NoGaps'
  <2> SUFFICES ASSUME NEW i \in 1..(n + 1), NEW u \in Nat, u < unacked'[i].off
               PROVE  Covered(unacked[i].p, u, i - 1)'
    BY <1>3 DEF NoGaps
  <2>1. CASE i \in 1..n
    <3>1. unacked'[i] = unacked[i] /\ i - 1 \in 0..n
      BY <1>3, <2>1
    <3>2. Covered(unacked[i].p, u, i - 1)
      BY <1>n, <2>1, <3>1 DEF NoGaps
    <3>3. ASSUME NEW q, q = unacked[i].p PROVE Covered(q, u, i - 1)'
      BY <1>6, <3>1, <3>2, <3>3
    <3> QED
      BY <3>1, <3>3 DEF Covered
  <2>2. CASE i = n + 1
    <3>1. unacked'[i].p = p /\ unacked'[i].off = o /\ i - 1 = n /\ n \in 0..n
      BY <1>3, <2>2
    <3>2. Covered(p, u, n)'
      BY <1>n, <1>1, <1>6, <3>1 DEF TakenFollows, NoMsg
    <3> QED
      BY <3>1, <3>2 DEF Covered
  <2>3. i \in 1..n \/ i = n + 1
    OBVIOUS
  <2> QED
    BY <2>1, <2>2, <2>3
<1>8. TakenFollows'
  BY DEF TakenFollows
<1>9. PosFollows'
  <2> SUFFICES ASSUME NEW q \in Partitions, NEW u \in Nat, u < pos[q]
               PROVE  Covered(q, u, n + 1)'
    BY <1>3 DEF PosFollows, Covered
  <2>1. CASE Covered(q, u, n)
    BY <1>3, <2>1 DEF Covered
  <2>2. CASE taken = <<[p |-> q, off |-> u]>>
    <3>1. q = p /\ u = o
      BY <1>1, <2>2
    <3> QED
      BY <1>3, <3>1 DEF Covered
  <2> QED
    BY <1>n, <2>1, <2>2 DEF PosFollows
<1>10. AllBelowAcked(committed)' /\ AllBelowAcked(marked)'
  BY DEF AllBelowAcked
<1> QED
  BY <1>4, <1>5, <1>11, <1>7, <1>8, <1>9, <1>10

\* More is acked than before.
LEMMA StepAck == ASSUME KafkaIInv, NEW i \in heldAt, AckAt(i) PROVE KafkaIInv'
<1> USE DEF KafkaIInv, AckAt, group
<1>1. KafkaTypeOK'
  BY DEF KafkaTypeOK
<1>2. AcksAreReal' /\ Waiting'
  BY DEF AcksAreReal, Waiting, KafkaTypeOK
<1>3. \A q, u, m : Covered(q, u, m) => Covered(q, u, m)'
  BY DEF Covered
<1>4. NoGaps'
  BY <1>3 DEF NoGaps
<1>5. TakenFollows'
  BY <1>3 DEF TakenFollows
<1>6. PosFollows'
  BY <1>3 DEF PosFollows
<1>7. AllBelowAcked(committed)' /\ AllBelowAcked(marked)'
  BY DEF AllBelowAcked
<1> QED
  BY <1>1, <1>2, <1>4, <1>5, <1>6, <1>7

\* Another member acks the message at the mark and moves the mark over it.
LEMMA StepOther == ASSUME KafkaIInv, NEW p \in Partitions, OtherMember(p) PROVE KafkaIInv'
<1> USE DEF KafkaIInv, OtherMember
<1>0. marked[p] \in Nat
  BY DEF KafkaTypeOK
<1>1. KafkaTypeOK'
  BY <1>0 DEF KafkaTypeOK
<1>2. AcksAreReal' /\ Waiting'
  BY DEF AcksAreReal, Waiting
<1>3. \A q, u, m : Covered(q, u, m) => Covered(q, u, m)'
  BY DEF Covered
<1>4. NoGaps'
  BY <1>3 DEF NoGaps
<1>5. TakenFollows'
  BY <1>3 DEF TakenFollows
<1>6. PosFollows'
  BY <1>3 DEF PosFollows
<1>7. AllBelowAcked(marked)'
  BY <1>0 DEF AllBelowAcked, KafkaTypeOK
<1>8. AllBelowAcked(committed)'
  BY <1>0, <1>7 DEF AllBelowAcked, KafkaTypeOK
<1> QED
  BY <1>1, <1>2, <1>4, <1>5, <1>6, <1>7, <1>8

\* The next process begins at an offset below which all is acked.
LEMMA StepCrash == ASSUME KafkaIInv, Crash PROVE KafkaIInv'
<1> USE DEF KafkaIInv, Crash
<1>1. PICK f \in {committed, marked} : committed' = f /\ marked' = f /\ pos' = f
  OBVIOUS
<1>2. KafkaTypeOK'
  BY <1>1 DEF KafkaTypeOK
<1>3. AcksAreReal' /\ Waiting' /\ NoGaps'
  BY DEF AcksAreReal, Waiting, NoGaps
<1>4. TakenFollows'
  BY DEF TakenFollows
<1>5. AllBelowAcked(committed)' /\ AllBelowAcked(marked)'
  BY <1>1 DEF AllBelowAcked
<1>6. PosFollows'
  BY <1>1 DEF PosFollows, Covered, AllBelowAcked
<1> QED
  BY <1>2, <1>3, <1>4, <1>5, <1>6

\* WithAcks sets the acked field of entries that the application has acked.
LEMMA WithAcksIsReal ==
    ASSUME KafkaIInv, NEW S \in SUBSET acksAt
    PROVE  /\ WithAcks(S) \in Seq(Entry)
           /\ Len(WithAcks(S)) = Len(unacked)
           /\ \A i \in 1..Len(unacked) :
                /\ WithAcks(S)[i].p = unacked[i].p
                /\ WithAcks(S)[i].off = unacked[i].off
                /\ WithAcks(S)[i].acked <=> unacked[i].acked \/ i \in S
                /\ WithAcks(S)[i].acked => <<unacked[i].p, unacked[i].off>> \in ackedOffs
<1> DEFINE seq == WithAcks(S)
<1>n. PICK n \in Nat : n = Len(unacked) /\ DOMAIN unacked = 1..n
  BY DEF KafkaIInv, KafkaTypeOK
<1>1. \A i \in 1..n : unacked[i] \in Entry
  BY <1>n DEF KafkaIInv, KafkaTypeOK
<1>2. seq = [i \in 1..n |-> [unacked[i] EXCEPT !.acked = @ \/ i \in S]]
  BY <1>n DEF WithAcks
<1>3. \A i \in 1..n : /\ seq[i] \in Entry
                      /\ seq[i].p = unacked[i].p /\ seq[i].off = unacked[i].off
                      /\ seq[i].acked <=> unacked[i].acked \/ i \in S
  BY <1>1, <1>2 DEF Entry
<1>4. seq \in Seq(Entry) /\ Len(seq) = n
  <2>1. seq \in [1..n -> Entry]
    BY <1>2, <1>3
  <2> HIDE DEF seq
  <2>2. seq \in Seq(Entry)
    BY <2>1, SeqDef
  <2> QED
    BY <2>1, <2>2
<1>5. \A i \in 1..n : seq[i].acked => <<unacked[i].p, unacked[i].off>> \in ackedOffs
  BY <1>n, <1>3 DEF KafkaIInv, AcksAreReal
<1> QED
  BY <1>n, <1>3, <1>4, <1>5

\* SendAcks takes k acked messages away from the head, and the marks stay below
\* what is acked.
LEMMA SendAcksShifts ==
    ASSUME KafkaIInv, NEW S \in SUBSET acksAt,
           IF sess THEN MarkHead(S) ELSE unacked' = WithAcks(S) /\ UNCHANGED marked
    PROVE  \E k \in 0..Len(unacked) :
             /\ unacked' \in Seq(Entry)
             /\ Len(unacked') = Len(unacked) - k
             /\ \A i \in 1..k : WithAcks(S)[i].acked
             /\ \A i \in 1..Len(unacked) - k : unacked'[i] = WithAcks(S)[i + k]
             /\ marked' \in [Partitions -> Nat]
             /\ \A p \in Partitions : \A o \in Nat : o < marked'[p] => <<p, o>> \in ackedOffs
<1> DEFINE seq == WithAcks(S)
<1>n. PICK n \in Nat : n = Len(unacked)
  BY DEF KafkaIInv, KafkaTypeOK
<1>1. /\ seq \in Seq(Entry) /\ Len(seq) = n
      /\ \A i \in 1..n : /\ seq[i].p = unacked[i].p /\ seq[i].off = unacked[i].off
                         /\ seq[i].acked => <<unacked[i].p, unacked[i].off>> \in ackedOffs
  BY <1>n, WithAcksIsReal
<1> HIDE DEF seq
<1>2. CASE ~sess
  <2>1. unacked' = seq /\ marked' = marked
    BY <1>2 DEF seq
  <2>2. \A i \in 1..n : i + 0 = i
    OBVIOUS
  <2>3. /\ 0 \in 0..n /\ n - 0 = n /\ 1..0 = {}
        /\ marked' \in [Partitions -> Nat]
        /\ \A p \in Partitions : \A o \in Nat : o < marked'[p] => <<p, o>> \in ackedOffs
    BY <2>1 DEF KafkaIInv, KafkaTypeOK, AllBelowAcked
  <2> QED
    BY <1>n, <1>1, <2>1, <2>2, <2>3 DEF seq
<1>3. CASE sess
  <2>1. PICK k \in 0..n : k = AckedHead(seq) /\ \A i \in 1..k : seq[i].acked
    BY <1>1, AckedHeadIsAcked
  <2> DEFINE head == SubSeq(seq, 1, k)
  <2>2. marked' = MarkMessages(head) /\ unacked' = SubSeq(seq, k + 1, n)
    BY <1>1, <1>3, <2>1 DEF MarkHead, seq
  <2>3. /\ unacked' \in Seq(Entry)
        /\ Len(unacked') = n - k
        /\ \A i \in 1..n - k : unacked'[i] = seq[i + k]
    <3>1. \A i \in (k + 1)..n : seq[i] \in Entry
      BY <1>1
    <3>2. /\ unacked' \in Seq(Entry)
          /\ Len(unacked') = IF k + 1 <= n THEN n - (k + 1) + 1 ELSE 0
          /\ \A i \in 1..n - (k + 1) + 1 : unacked'[i] = seq[(k + 1) + i - 1]
      BY <2>2, <3>1, SubSeqProperties
    <3> QED
      BY <3>2
  <2>4. /\ head \in Seq(Entry)
        /\ Len(head) = k
        /\ \A i \in 1..k : head[i] = seq[i]
    <3>1. \A i \in 1..k : seq[i] \in Entry
      BY <1>1
    <3>2. /\ head \in Seq(Entry)
          /\ Len(head) = IF 1 <= k THEN k - 1 + 1 ELSE 0
          /\ \A i \in 1..k - 1 + 1 : head[i] = seq[1 + i - 1]
      BY <3>1, SubSeqProperties
    <3> QED
      BY <3>2
  <2> HIDE DEF head
  <2>5. ASSUME NEW p \in Partitions
        PROVE  /\ marked'[p] \in Nat
               /\ \A o \in Nat : o < marked'[p] => <<p, o>> \in ackedOffs
    <3>1. /\ marked'[p] \in Nat
          /\ \/ marked'[p] = marked[p]
             \/ \E i \in 1..k : head[i].p = p /\ marked'[p] = head[i].off + 1
      BY <2>2, <2>4, MarksAreKnown DEF KafkaIInv
    <3>2. CASE marked'[p] = marked[p]
      BY <3>1, <3>2 DEF KafkaIInv, AllBelowAcked
    <3>3. ASSUME NEW i \in 1..k, head[i].p = p, marked'[p] = head[i].off + 1
          PROVE  \A o \in Nat : o < marked'[p] => <<p, o>> \in ackedOffs
      <4>1. /\ i \in 1..n /\ unacked[i].p = p /\ unacked[i].off + 1 = marked'[p]
            /\ <<unacked[i].p, unacked[i].off>> \in ackedOffs
        BY <1>1, <2>1, <2>4, <3>3
      <4>2. unacked[i].off \in Nat
        <5>1. unacked[i] \in Entry
          BY <1>n, <4>1 DEF KafkaIInv, KafkaTypeOK
        <5> QED
          BY <5>1 DEF Entry
      <4>3. ASSUME NEW o \in Nat, o < unacked[i].off PROVE <<p, o>> \in ackedOffs
        <5>1. Covered(p, o, i - 1)
          BY <1>n, <4>1, <4>3 DEF KafkaIInv, NoGaps
        <5>2. \A j \in 1..i - 1 : j \in 1..k /\ j \in 1..n
          OBVIOUS
        <5> QED
          BY <1>1, <2>1, <5>1, <5>2 DEF Covered
      <4> QED
        BY <4>1, <4>2, <4>3
    <3> QED
      BY <3>1, <3>2, <3>3
  <2>6. marked' \in [Partitions -> Nat]
    <3>1. marked' = [p \in Partitions |-> marked'[p]]
      BY <2>2 DEF MarkMessages
    <3> QED
      BY <2>5, <3>1
  <2> QED
    BY <1>n, <2>1, <2>3, <2>5, <2>6 DEF seq
<1> QED
  BY <1>2, <1>3

\* SendAcks: what leaves the head has been acked, and what waits for its ack
\* moves with the head.
LEMMA StepKafkaSendAcks == ASSUME KafkaIInv, KafkaSendAcks PROVE KafkaIInv'
<1>1. PICK S \in SUBSET acksAt :
        /\ IF sess THEN MarkHead(S) ELSE unacked' = WithAcks(S) /\ UNCHANGED marked
        /\ heldAt' = {i - (Len(unacked) - Len(unacked')) : i \in heldAt}
        /\ acksAt' = {i - (Len(unacked) - Len(unacked')) : i \in acksAt \ S}
        /\ UNCHANGED <<committed, sess, owned, claims, pos, taken, ackedOffs, closeCh, rebalances>>
  BY DEF KafkaSendAcks
<1>n. PICK n \in Nat : n = Len(unacked)
  BY DEF KafkaIInv, KafkaTypeOK
<1> DEFINE seq == WithAcks(S)
<1>2. \A i \in 1..n :
         /\ seq[i].p = unacked[i].p /\ seq[i].off = unacked[i].off
         /\ seq[i].acked <=> unacked[i].acked \/ i \in S
         /\ seq[i].acked => <<unacked[i].p, unacked[i].off>> \in ackedOffs
  BY <1>n, WithAcksIsReal
<1>3. PICK k \in 0..n :
         /\ unacked' \in Seq(Entry)
         /\ Len(unacked') = n - k
         /\ \A i \in 1..k : seq[i].acked
         /\ \A i \in 1..n - k : unacked'[i] = seq[i + k]
         /\ marked' \in [Partitions -> Nat]
         /\ \A p \in Partitions : \A o \in Nat : o < marked'[p] => <<p, o>> \in ackedOffs
  BY <1>n, <1>1, SendAcksShifts
<1> HIDE DEF seq
<1>4. heldAt' = {i - k : i \in heldAt} /\ acksAt' = {i - k : i \in acksAt \ S}
  <2>1. Len(unacked) - Len(unacked') = k
    BY <1>n, <1>3
  <2> QED
    BY <1>1, <2>1
<1>5. \A i \in heldAt \cup (acksAt \ S) : i \in 1..n /\ ~seq[i].acked /\ i > k
  <2> TAKE i \in heldAt \cup (acksAt \ S)
  <2>1. i \in 1..n
    BY <1>n DEF KafkaIInv, KafkaTypeOK
  <2>2. ~seq[i].acked
    BY <1>2, <2>1 DEF KafkaIInv, Waiting
  <2> QED
    BY <1>3, <2>1, <2>2
<1>6. KafkaTypeOK'
  <2>1. \A i \in heldAt \cup (acksAt \ S) : i - k \in 1..n - k
    BY <1>5
  <2> QED
    BY <1>1, <1>3, <1>4, <2>1 DEF KafkaIInv, KafkaTypeOK
<1>7. AcksAreReal'
  <2> SUFFICES ASSUME NEW i \in 1..n - k, unacked'[i].acked \/ i \in acksAt'
               PROVE  <<unacked'[i].p, unacked'[i].off>> \in ackedOffs
    BY <1>1, <1>3 DEF AcksAreReal
  <2>0. i + k \in 1..n
    OBVIOUS
  <2>1. i + k \in 1..n /\ unacked'[i] = seq[i + k]
    BY <1>3, <2>0
  <2>2. i \in acksAt' => i + k \in acksAt
    BY <1>4, <1>5
  <2> QED
    BY <1>n, <1>2, <2>1, <2>2 DEF KafkaIInv, AcksAreReal
<1>8. Waiting'
  <2>1. heldAt' \cap acksAt' = {}
    BY <1>4, <1>5 DEF KafkaIInv, Waiting
  <2>2. ASSUME NEW i \in heldAt \cup (acksAt \ S) PROVE ~unacked'[i - k].acked
    <3>1. i - k \in 1..n - k /\ (i - k) + k = i
      BY <1>5
    <3> QED
      BY <1>3, <1>5, <3>1
  <2> QED
    BY <1>4, <2>1, <2>2 DEF Waiting
<1>9. \A q, u : \A m \in 0..n - k : Covered(q, u, m + k) => Covered(q, u, m)'
  <2> TAKE q, u
  <2> TAKE m \in 0..n - k
  <2> SUFFICES ASSUME NEW j \in 1..m + k, unacked[j].p = q, unacked[j].off = u
               PROVE  Covered(q, u, m)'
    BY <1>1 DEF Covered
  <2>1. CASE j <= k
    <3>1. j \in 1..k /\ j \in 1..n
      BY <2>1
    <3> QED
      BY <1>1, <1>2, <1>3, <3>1 DEF Covered
  <2>2. CASE j > k
    <3>1. j - k \in 1..m /\ j - k \in 1..n - k /\ (j - k) + k = j /\ j \in 1..n
      BY <2>2
    <3>2. unacked'[j - k] = seq[j]
      BY <1>3, <3>1
    <3> QED
      BY <1>2, <3>1, <3>2 DEF Covered
  <2> QED
    BY <2>1, <2>2
<1>10. n - k \in 0..n - k /\ (n - k) + k = n
  OBVIOUS
<1>11. NoGaps'
  <2> SUFFICES ASSUME NEW i \in 1..n - k, NEW u \in Nat, u < unacked'[i].off
               PROVE  Covered(unacked[i].p, u, i - 1)'
    BY <1>3 DEF NoGaps
  <2>0. i + k \in 1..n /\ i - 1 \in 0..n - k /\ (i + k) - 1 = (i - 1) + k
    OBVIOUS
  <2>1. unacked'[i].p = unacked[i + k].p /\ unacked'[i].off = unacked[i + k].off
    BY <1>2, <1>3, <2>0
  <2>2. Covered(unacked[i + k].p, u, (i - 1) + k)
    BY <1>n, <2>0, <2>1 DEF KafkaIInv, NoGaps
  <2>3. ASSUME NEW q, q = unacked[i + k].p PROVE Covered(q, u, i - 1)'
    BY <1>9, <2>0, <2>2, <2>3
  <2> QED
    BY <2>1, <2>3 DEF Covered
<1>12. TakenFollows'
  <2> SUFFICES ASSUME taken # NoMsg, NEW u \in Nat, u < taken[1].off
               PROVE  Covered(taken[1].p, u, n - k)'
    BY <1>1, <1>3 DEF TakenFollows, Covered, NoMsg
  <2>1. Covered(taken[1].p, u, n)
    BY <1>n DEF KafkaIInv, TakenFollows
  <2>2. ASSUME NEW q, q = taken[1].p PROVE Covered(q, u, n - k)'
    BY <1>9, <1>10, <2>1, <2>2
  <2> QED
    BY <1>1, <2>2 DEF Covered
<1>13. PosFollows'
  <2> SUFFICES ASSUME NEW q \in Partitions, NEW u \in Nat, u < pos[q]
               PROVE  Covered(q, u, n - k)' \/ taken = <<[p |-> q, off |-> u]>>
    BY <1>1, <1>3 DEF PosFollows, Covered
  <2> QED
    BY <1>n, <1>9, <1>10 DEF KafkaIInv, PosFollows
<1>14. AllBelowAcked(committed)' /\ AllBelowAcked(marked)'
  BY <1>1, <1>3 DEF KafkaIInv, AllBelowAcked
<1> QED
  BY <1>6, <1>7, <1>8, <1>11, <1>12, <1>13, <1>14 DEF KafkaIInv

\* Every step keeps the invariant.
LEMMA KafkaNextIInv == KafkaIInv /\ [KafkaNext]_kvars => KafkaIInv'
<1> SUFFICES ASSUME KafkaIInv, [KafkaNext]_kvars PROVE KafkaIInv'
  OBVIOUS
<1>1. CASE Setup \/ ConsumeSome \/ Cleanup \/ ConsumerEnds
  BY <1>1, StepGroup
<1>2. CASE SelectSome
  BY <1>2, StepSelect DEF SelectSome
<1>3. CASE Append1
  BY <1>3, StepAppend
<1>4. CASE SomeAckAt
  BY <1>4, StepAck DEF SomeAckAt
<1>5. CASE KafkaSendAcks
  BY <1>5, StepKafkaSendAcks
<1>6. CASE OthersWork
  BY <1>6, StepOther DEF OthersWork
<1>7. CASE Crash
  BY <1>7, StepCrash
<1>8. CASE UNCHANGED kvars
  BY <1>8 DEF kvars, KafkaIInv, KafkaTypeOK, AcksAreReal, Waiting, NoGaps, TakenFollows, PosFollows,
              Covered, AllBelowAcked
<1> QED
  BY <1>1, <1>2, <1>3, <1>4, <1>5, <1>6, <1>7, <1>8 DEF KafkaNext

-----------------------------------------------------------------------------
(* The theorems *)

\* The inductive invariant holds, for any partitions and any rebalances.
THEOREM KafkaInvariance == KafkaSpec => []KafkaIInv
  BY KafkaInitIInv, KafkaNextIInv, PTL DEF KafkaSpec

\* The group's offset passes no message that nobody has acked: s.unacked has no
\* gaps, so the acked prefix that SendAcks marks hides no unacked message of a
\* former session or of another member.
THEOREM CommitsAcked == KafkaSpec => []CommittedMeansAcked
<1>1. KafkaIInv => CommittedMeansAcked
  <2> SUFFICES ASSUME KafkaIInv, NEW p \in Partitions, NEW o \in 0..marked[p] - 1
               PROVE  <<p, o>> \in ackedOffs
    BY DEF CommittedMeansAcked
  <2>1. o \in Nat /\ o < marked[p]
    BY DEF KafkaIInv, KafkaTypeOK
  <2> QED
    BY <2>1 DEF KafkaIInv, AllBelowAcked
<1> QED
  BY KafkaInvariance, <1>1, PTL

=============================================================================
