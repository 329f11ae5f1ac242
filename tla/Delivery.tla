------------------------------ MODULE Delivery ------------------------------
(***************************************************************************)
(* How the drivers of pubsub receive, ack and nack messages: mempubsub,    *)
(* gcppubsub, gcppubsubv2, awssnssqs, azuresb (in Peek-Lock mode) and the  *)
(* subscription of rabbitpubsub.                                           *)
(*                                                                         *)
(* A delivery gives the application a message and an AckID.  The service   *)
(* (external, except for mempubsub) leases a message to its delivery until *)
(* the delivery is acked, nacked or expires.  What names a delivery is up  *)
(* to the driver: mempubsub and gcppubsubv2 use the number of the message, *)
(* rabbitpubsub the tag of the delivery on its AMQP channel, the others an *)
(* id of the delivery.                                                     *)
(***************************************************************************)
EXTENDS Naturals, FiniteSets

CONSTANTS
    Drivers,
    Msgs,          \* the messages published
    MaxIds,        \* deliveries the application has in hand at a time
    MaxNacks,      \* bound on nacks
    MaxLate,       \* bound on leases that expire while the application works
    MaxFaults,     \* bound on failed requests and closed AMQP channels
    MaxChannels    \* bound on AMQP channels opened one after another

VARIABLES
    driver,
    lazy,       \* SubscriptionOptions.NackLazy
    queue,      \* messages ready to be delivered
    leases,     \* the deliveries the service knows of
    held,       \* deliveries of which the application has yet to say Ack or Nack
    acks, nacks,\* what the application said, not yet sent by the ackBatcher
    acked,      \* messages with an ack from the application
    gone,       \* messages the service has dropped for good
    failed,     \* Subscription.err: from then on Receive returns it
    ch,         \* rabbitpubsub: the number of the last AMQP channel, and
    chState,    \* "open", "nil" (s.ch = nil), or closed by the broker: "refused"
                \* (PreconditionFailed) or "closed" (any other reason)
    tag,        \* rabbitpubsub: the last delivery tag of the channel
    delc,       \* rabbitpubsub: deliveries pushed and not yet received
    misdirected,\* history: a tag of a former channel was used on the current
    nacked, late, faults

vars == <<driver, lazy, queue, leases, held, acks, nacks, acked, gone, failed, ch, chState,
          tag, delc, misdirected, nacked, late, faults>>

amqp == <<ch, chState, tag, delc, misdirected>>
bounds == <<nacked, late, faults>>

Outstanding == held \union acks \union nacks

Delivery(n, c, m) == [id |-> n, ch |-> c, msg |-> m]

\* The service drops the messages of G, with their leases and queue entries,
\* and takes back the leases of L.
Settle(G, L) ==
    /\ gone' = gone \union G
    /\ leases' = {l \in leases \ L : l.msg \notin G}
    /\ queue' = (queue \union {l.msg : l \in L}) \ G

Drop(G) == Settle(G, {})
TakeBack(L) == Settle({}, L)

-----------------------------------------------------------------------------
(***************************************************************************)
(* ReceiveBatch                                                            *)
(***************************************************************************)

\* A delivery is numbered with a number that is not in use.
Used == {d.id : d \in Outstanding \union leases}
Fresh(m) == Delivery(CHOOSE n \in 1..MaxIds \ Used : \A k \in 1..n - 1 : k \in Used, 0, m)

\* One message at a time: a batch is several of these steps.
Deliver(m) ==
    /\ ~failed /\ m \in queue /\ Used # 1..MaxIds
    /\ leases' = leases \union {Fresh(m)} /\ held' = held \union {Fresh(m)}
    /\ queue' = queue \ {m}
    /\ UNCHANGED <<driver, lazy, acks, nacks, acked, gone, failed, amqp, bounds>>

MemReceive(m) == driver = "mempubsub" /\ Deliver(m)
GcpReceive(m) == driver = "gcppubsub" /\ Deliver(m)
GcpV2Receive(m) == driver = "gcppubsubv2" /\ Deliver(m)
SqsReceive(m) == driver = "awssnssqs" /\ Deliver(m)
AzureReceive(m) == driver = "azuresb" /\ Deliver(m)

\* A ReceiveBatch that fails is repeated, or fails the Subscription for good.
\* What it had been given, azuresb's messages beside an error included, is
\* dropped and stays leased.
ReceiveFails ==
    /\ driver \notin {"mempubsub", "rabbitpubsub"} /\ ~failed /\ faults < MaxFaults
    /\ faults' = faults + 1 /\ failed' \in BOOLEAN
    /\ \/ UNCHANGED <<queue, leases>>
       \/ \E m \in queue : /\ Used # 1..MaxIds /\ leases' = leases \union {Fresh(m)}
                           /\ queue' = queue \ {m}
    /\ UNCHANGED <<driver, lazy, held, acks, nacks, acked, gone, amqp, nacked, late>>

\* Slip: a channel that the broker has closed is used for ever.
EstablishChannelOnce ==
    /\ driver = "rabbitpubsub" /\ ch = 0
    /\ ch' = 1 /\ chState' = "open" /\ tag' = 0 /\ delc' = {}
    /\ UNCHANGED <<driver, lazy, queue, leases, held, acks, nacks, acked, gone, failed, misdirected, bounds>>

\* ReceiveBatch, and SendAcks and SendNacks, open a new channel when there is
\* none or the last has been closed.
EstablishChannel ==
    /\ driver = "rabbitpubsub" /\ chState # "open" /\ (failed => acks \union nacks # {})
    /\ ch < MaxChannels /\ ch' = ch + 1
    /\ chState' = "open" /\ tag' = 0 /\ delc' = {}
    /\ UNCHANGED <<driver, lazy, queue, leases, held, acks, nacks, acked, gone, failed, misdirected, bounds>>

\* Messages are taken from the channel as long as it is open.
RabbitReceive ==
    /\ driver = "rabbitpubsub" /\ chState = "open" /\ ~failed
    /\ \E d \in delc : delc' = delc \ {d} /\ held' = held \union {d}
    /\ UNCHANGED <<driver, lazy, queue, leases, acks, nacks, acked, gone, failed, ch, chState, tag,
                   misdirected, bounds>>

\* ReceiveBatch finds its delc closed: the closing error is returned unless it
\* is PreconditionFailed, and fails the Subscription unless it is retryable.
RabbitReceiveClosed ==
    /\ driver = "rabbitpubsub" /\ chState \in {"refused", "closed"} /\ ~failed
    /\ failed' \in {FALSE, chState = "closed"} /\ chState' = "nil"
    /\ UNCHANGED <<driver, lazy, queue, leases, held, acks, nacks, acked, gone, ch, tag, delc,
                   misdirected, bounds>>

\* The ctx of ReceiveBatch is done, the broker ends the consumer but not the
\* channel, or establishChannel fails: what was taken from delc is dropped,
\* and the broker keeps its leases with the channel.
RabbitReceiveFails ==
    /\ driver = "rabbitpubsub" /\ ~failed /\ faults < MaxFaults
    /\ faults' = faults + 1 /\ failed' = TRUE
    /\ chState' = (IF chState = "open" THEN "nil" ELSE chState) /\ delc' = {}
    /\ UNCHANGED <<driver, lazy, queue, leases, held, acks, nacks, acked, gone, ch, tag, misdirected,
                   nacked, late>>

-----------------------------------------------------------------------------
(***************************************************************************)
(* The application                                                         *)
(***************************************************************************)
Ack(d) ==
    /\ d \in held /\ held' = held \ {d}
    /\ acks' = acks \union {d} /\ acked' = acked \union {d.msg}
    /\ UNCHANGED <<driver, lazy, queue, leases, nacks, gone, failed, amqp, bounds>>

Nack(d) ==
    /\ d \in held /\ held' = held \ {d}
    /\ nacked < MaxNacks /\ nacked' = nacked + 1
    /\ nacks' = nacks \union {d}
    /\ UNCHANGED <<driver, lazy, queue, leases, acks, acked, gone, failed, amqp, late, faults>>

\* Once Receive has returned s.err, the application shuts the Subscription
\* down, which flushes its ackBatcher, and opens another.  Messages in s.q and
\* in the application's hands are forgotten; for rabbitpubsub, the connection
\* is closed too, and a new one opened.
Reopen ==
    /\ failed /\ acks = {} /\ nacks = {}
    /\ failed' = FALSE /\ held' = {}
    /\ IF driver = "rabbitpubsub"
       THEN TakeBack(leases) /\ chState' = "nil" /\ delc' = {}
       ELSE UNCHANGED <<queue, leases, gone, chState, delc>>
    /\ UNCHANGED <<driver, lazy, acks, nacks, acked, ch, tag, misdirected, bounds>>

-----------------------------------------------------------------------------
(***************************************************************************)
(* SendAcks and SendNacks: S is the batch, L the leases it names.          *)
(***************************************************************************)

\* The leases a batch names: those of the message, or the very delivery.
OfMessage(S) == {l \in leases : \E d \in S : d.msg = l.msg}
OfDelivery(S) == S \intersect leases

\* delete(s.msgs, id): whichever delivery of it is acked.
MemAcks(S) == Drop({d.msg : d \in S} \ gone)
MemNacks(S) == TakeBack(OfMessage(S))

\* Acknowledge: an ack of an expired delivery may or may not count.
GcpAcks(S) == \E T \in SUBSET (S \ leases) : Drop({d.msg : d \in T \union OfDelivery(S)})
GcpNacks(S) == IF lazy THEN UNCHANGED <<gone, leases, queue>> ELSE TakeBack(OfDelivery(S))

\* The callback of the last delivery of the message acks or nacks it.
GcpV2Acks(S) == Drop({l.msg : l \in OfMessage(S)})
GcpV2Nacks(S) == TakeBack(OfMessage(S))

\* DeleteMessageBatch, as for Acknowledge; the visibility of a nacked
\* message is set to a second.
SqsAcks(S) == \E T \in SUBSET (S \ leases) : Drop({d.msg : d \in T \union OfDelivery(S)})
SqsNacks(S) == IF lazy THEN UNCHANGED <<gone, leases, queue>> ELSE TakeBack(OfDelivery(S))

\* CompleteMessage and AbandonMessage, one by one: the others are done when
\* one fails, as does one whose lock is lost.
AzureAcks(S) == Drop({l.msg : l \in OfDelivery(S)})
AzureNacks(S) == TakeBack(OfDelivery(S))

Acking(S) ==
    CASE driver = "mempubsub"   -> MemAcks(S)
      [] driver = "gcppubsub"   -> GcpAcks(S)
      [] driver = "gcppubsubv2" -> GcpV2Acks(S)
      [] driver = "awssnssqs"   -> SqsAcks(S)
      [] driver = "azuresb"     -> AzureAcks(S)

Nacking(S) ==
    CASE driver = "mempubsub"   -> MemNacks(S)
      [] driver = "gcppubsub"   -> GcpNacks(S)
      [] driver = "gcppubsubv2" -> GcpV2Nacks(S)
      [] driver = "awssnssqs"   -> SqsNacks(S)
      [] driver = "azuresb"     -> AzureNacks(S)

\* mempubsub and gcppubsubv2 make no request, which could fail.
RequestFails ==
    /\ driver \notin {"mempubsub", "gcppubsubv2"}
    /\ faults < MaxFaults /\ faults' = faults + 1

\* IsRetryable: the error of the batch may be worth a retry.
Retries == driver \in {"gcppubsub", "azuresb"}

\* azuresb returns the error of a lost lock, which retries do not cure.
LockLost(S) == driver = "azuresb" /\ ~(S \subseteq leases)

\* The handler of the ackBatcher: part of a batch that fails may have had its
\* effect; an error that is not retried fails the Subscription, and the verdicts
\* of the batch are lost.
SendAcks ==
    /\ driver # "rabbitpubsub"
    /\ \E S \in SUBSET acks \ {{}} :
          \/ /\ Acking(S) /\ acks' = acks \ S
             /\ UNCHANGED faults /\ failed' \in {failed, failed \/ LockLost(S)}
          \/ /\ RequestFails /\ \E T \in SUBSET S \ {S} : Acking(T)
             /\ \/ acks' = acks \ S /\ failed' = TRUE
                \/ Retries /\ UNCHANGED <<acks, failed>>
    /\ UNCHANGED <<driver, lazy, held, nacks, acked, amqp, nacked, late>>

SendNacks ==
    /\ driver # "rabbitpubsub"
    /\ \E S \in SUBSET nacks \ {{}} :
          \/ /\ Nacking(S) /\ nacks' = nacks \ S
             /\ UNCHANGED faults /\ failed' \in {failed, failed \/ LockLost(S)}
          \/ /\ RequestFails /\ \E T \in SUBSET S \ {S} : Nacking(T)
             /\ \/ nacks' = nacks \ S /\ failed' = TRUE
                \/ Retries /\ UNCHANGED <<nacks, failed>>
    /\ UNCHANGED <<driver, lazy, held, acks, acked, amqp, nacked, late>>

-----------------------------------------------------------------------------
(***************************************************************************)
(* sendAcksOrNacks of rabbitpubsub: the tags of the batch are used on the  *)
(* current channel, whichever channel they came from.                      *)
(***************************************************************************)
OfChannel == {l \in leases : l.ch = ch}
Named(T) == {l \in OfChannel : \E d \in T : d.id = l.id}

\* The broker has a delivery for each tag of T, and T names none twice.
Accepts(T) == \A d \in T : Named({d}) # {} /\ \A e \in T : e.id = d.id => e = d

\* Slip: a nack does not ask the broker to requeue.
RabbitSettleDiscards(T, isAck, L) == Settle({l.msg : l \in Named(T)}, L)

\* Ack or Nack of the tags of T; the broker takes back L as well.
RabbitSettle(T, isAck, L) ==
    IF isAck THEN Settle({l.msg : l \in Named(T)}, L) ELSE TakeBack(Named(T) \union L)

Misdirects(T) == misdirected' = (misdirected \/ \E d \in T : d.ch # ch)

\* Every tag is sent, and the broker accepts them all.
RabbitSendAll(S, isAck) ==
    /\ chState = "open" /\ Accepts(S)
    /\ RabbitSettle(S, isAck, {}) /\ Misdirects(S)
    /\ UNCHANGED <<chState, delc, failed, faults>>

\* The broker refuses the tag of d, after those of T: it closes the channel
\* and requeues what was not acked.  The rest of the batch is lost, silently
\* or with the error of Ack on a closed channel (s.ch = nil).
RabbitSendRefused(S, isAck) ==
    /\ chState = "open"
    /\ \E T \in SUBSET S : \E d \in S \ T :
          /\ Accepts(T) /\ ~Accepts(T \union {d})
          /\ RabbitSettle(T, isAck, OfChannel) /\ Misdirects(T \union {d})
          /\ \/ chState' = "refused" /\ UNCHANGED failed
             \/ T \union {d} # S /\ chState' = "nil" /\ failed' = TRUE
    /\ delc' = {} /\ UNCHANGED faults

\* After the tags of T, ctx is done or Ack fails with the channel (s.ch = nil):
\* the rest of the batch is lost.
RabbitSendFails(S, isAck) ==
    /\ chState = "open" /\ faults < MaxFaults /\ faults' = faults + 1 /\ failed' = TRUE
    /\ \E T \in SUBSET S :
          /\ T # S /\ Accepts(T) /\ Misdirects(T)
          /\ \/ RabbitSettle(T, isAck, {}) /\ UNCHANGED <<chState, delc>>
             \/ RabbitSettle(T, isAck, OfChannel) /\ chState' = "nil" /\ delc' = {}

\* establishChannel fails: the batch is lost.
RabbitSendUnopened ==
    /\ chState # "open" /\ faults < MaxFaults /\ faults' = faults + 1 /\ failed' = TRUE
    /\ UNCHANGED <<queue, leases, gone, chState, delc, misdirected>>

RabbitSend(S, isAck) ==
    /\ driver = "rabbitpubsub"
    /\ \/ RabbitSendAll(S, isAck) \/ RabbitSendRefused(S, isAck)
       \/ RabbitSendFails(S, isAck) \/ RabbitSendUnopened
    /\ UNCHANGED <<driver, lazy, held, acked, ch, tag, nacked, late>>

RabbitAck == \E S \in SUBSET acks \ {{}} : acks' = acks \ S /\ RabbitSend(S, TRUE) /\ UNCHANGED nacks
RabbitNack == \E S \in SUBSET nacks \ {{}} : nacks' = nacks \ S /\ RabbitSend(S, FALSE) /\ UNCHANGED acks

-----------------------------------------------------------------------------
(***************************************************************************)
(* The services (external); for mempubsub, receiveNoWait passes the        *)
(* deadline of the lease.                                                  *)
(***************************************************************************)
Expire ==
    /\ driver # "rabbitpubsub"
    /\ \E l \in leases :
          /\ TakeBack({l})
          /\ IF l \in Outstanding THEN late < MaxLate /\ late' = late + 1 ELSE UNCHANGED late
    /\ UNCHANGED <<driver, lazy, held, acks, nacks, acked, failed, amqp, nacked, faults>>

\* The broker pushes a message to the channel that consumes the queue.
Push(m) ==
    /\ driver = "rabbitpubsub" /\ chState = "open" /\ m \in queue /\ tag < MaxIds
    /\ tag' = tag + 1
    /\ LET d == Delivery(tag + 1, ch, m) IN leases' = leases \union {d} /\ delc' = delc \union {d}
    /\ queue' = queue \ {m}
    /\ UNCHANGED <<driver, lazy, held, acks, nacks, acked, gone, failed, ch, chState, misdirected, bounds>>

\* The broker, or the network, closes the channel.
ChannelCloses ==
    /\ driver = "rabbitpubsub" /\ chState = "open" /\ faults < MaxFaults
    /\ faults' = faults + 1
    /\ chState' = "closed" /\ delc' = {} /\ TakeBack(OfChannel)
    /\ UNCHANGED <<driver, lazy, held, acks, nacks, acked, failed, ch, tag, misdirected, nacked, late>>

Init ==
    /\ driver \in Drivers
    /\ lazy \in (IF driver \in {"gcppubsub", "awssnssqs"} THEN BOOLEAN ELSE {FALSE})
    /\ queue = Msgs /\ leases = {} /\ held = {} /\ acks = {} /\ nacks = {}
    /\ acked = {} /\ gone = {} /\ failed = FALSE
    /\ ch = 0 /\ chState = "nil" /\ tag = 0 /\ delc = {} /\ misdirected = FALSE
    /\ nacked = 0 /\ late = 0 /\ faults = 0

Receive == (\E m \in Msgs : MemReceive(m) \/ GcpReceive(m) \/ GcpV2Receive(m)
                            \/ SqsReceive(m) \/ AzureReceive(m)) \/ EstablishChannel \/ RabbitReceive
           \/ RabbitReceiveClosed
ReceiveError == ReceiveFails \/ RabbitReceiveFails
AckSome == \E d \in held : Ack(d)
NackSome == \E d \in held : Nack(d)
PushSome == \E m \in Msgs : Push(m)

Next ==
    \/ Receive \/ ReceiveError \/ AckSome \/ NackSome \/ Reopen
    \/ SendAcks \/ SendNacks \/ RabbitAck \/ RabbitNack
    \/ Expire \/ PushSome \/ ChannelCloses

\* The portable Subscription keeps receiving and sends acks and nacks; the
\* application decides on every message, and opens another Subscription when
\* one has failed, as Receive's comment tells it to; leases that nobody works
\* on expire and the broker pushes what is queued.
Fairness ==
    /\ WF_vars(Receive) /\ WF_vars(AckSome) /\ WF_vars(Reopen)
    /\ WF_vars(SendAcks \/ RabbitAck) /\ WF_vars(SendNacks \/ RabbitNack)
    /\ WF_vars(Expire \/ PushSome)

Spec == Init /\ [][Next]_vars /\ Fairness

-----------------------------------------------------------------------------
\* At-least-once delivery: no driver makes its service forget a message that
\* the application has not acked, however acks, nacks, expired leases and
\* second deliveries are ordered.  rabbitpubsub keeps this only as long as no
\* tag of a former AMQP channel is used on a later one.
GoneMeansAcked == misdirected \/ gone \subseteq acked

\* An application that acks what it gets, and opens another Subscription when
\* Receive returns an error, is done with every message at last: neither a
\* failed ReceiveBatch or SendAcks, nor the verdicts lost with it, nor closed
\* channels, nacks and expired leases leave a message with nobody.  The
\* exception is a tag of a former AMQP channel used on a later one.
AllDone == <>[](misdirected \/ gone = Msgs)

=============================================================================
