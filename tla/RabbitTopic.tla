---------------------------- MODULE RabbitTopic ----------------------------
(***************************************************************************)
(* The topic of rabbitpubsub: SendBatch publishes its messages on an AMQP  *)
(* channel, shared by all calls, while a goroutine of the call, the        *)
(* reader, collects the confirmations and the returned messages.  t.mu     *)
(* lets one call at a time go on; the channels of the broker are external. *)
(***************************************************************************)
EXTENDS Naturals, Sequences, FiniteSets

CONSTANTS
    Calls,            \* calls of SendBatch
    Size,             \* messages in a batch
    MaxSendChannels,  \* bound on AMQP channels opened one after another
    MaxSendFaults     \* bound on cancelled contexts, failing callbacks and requests,
                      \* and closed channels

VARIABLES
    mu,         \* the call that holds t.mu, or None
    tch,        \* t.ch: the number of its channel, or 0 for nil
    notify,     \* the channel that t.pubc, t.retc and t.closec belong to
    opened,     \* the channels opened so far are 1..opened
    closedChs,  \* the channels that are closed
    events,     \* of a channel: returns and confirmations not yet read
    pc,         \* of a call: "idle", "lock", "start", "publish", "wait",
                \* "returned" or "panicked"
    chOf,       \* of a call: its copy of t.ch
    next,       \* of a call: the message it is about to publish
    reader,     \* of a call: "none", "running", "done" (in errc) or "gone"
    nAcks,      \* of a reader: the confirmations it has counted
    errs,       \* of a reader: whether merr is not nil
    perr,       \* of a call: whether Publish has failed
    cancelled,  \* calls whose context, or cctx, is done
    accepted,   \* messages that the broker has routed
    result,     \* of a call: "ok", "error" or None
    abandoned,  \* history: calls that returned while their reader was running
    sendFaults

rvars == <<mu, tch, notify, opened, closedChs, events, pc, chOf, next, reader, nAcks, errs, perr,
           cancelled, accepted, result, abandoned, sendFaults>>
broker == <<opened, closedChs, events, accepted>>
readers == <<reader, nAcks, errs>>

None == "none"
Channels == 1..MaxSendChannels
Fault == sendFaults < MaxSendFaults /\ sendFaults' = sendFaults + 1

-----------------------------------------------------------------------------
(***************************************************************************)
(* SendBatch                                                               *)
(***************************************************************************)
Lock(c) ==
    /\ pc[c] = "idle" /\ mu = None
    /\ mu' = c /\ pc' = [pc EXCEPT ![c] = "lock"]
    /\ UNCHANGED <<tch, notify, broker, chOf, next, readers, perr, cancelled, result, abandoned, sendFaults>>

\* A return of the call: cctx is cancelled and the lock released.
Return(c, r) ==
    /\ mu' = None /\ pc' = [pc EXCEPT ![c] = "returned"]
    /\ result' = [result EXCEPT ![c] = r]
    /\ cancelled' = cancelled \union {c}
    /\ abandoned' = IF reader[c] = "running" THEN abandoned \union {c} ELSE abandoned

\* establishChannel, when there is no channel or the last was closed; the
\* request fails, or the context is done, in EstablishFails.
Establish(c) ==
    /\ pc[c] = "lock" /\ (tch = 0 \/ notify \in closedChs)
    /\ opened < MaxSendChannels /\ opened' = opened + 1
    /\ tch' = opened + 1 /\ notify' = opened + 1
    /\ pc' = [pc EXCEPT ![c] = "start"]
    /\ UNCHANGED <<mu, closedChs, events, accepted, chOf, next, readers, perr, cancelled, result,
                   abandoned, sendFaults>>

EstablishFails(c) ==
    /\ pc[c] = "lock" /\ (tch = 0 \/ notify \in closedChs)
    /\ IF c \in cancelled THEN UNCHANGED sendFaults ELSE Fault
    /\ Return(c, "error")
    /\ UNCHANGED <<tch, notify, broker, chOf, next, readers, perr>>

\* establishChannel finds an open channel.
Established(c) ==
    /\ pc[c] = "lock" /\ tch # 0 /\ notify \notin closedChs
    /\ pc' = [pc EXCEPT ![c] = "start"]
    /\ UNCHANGED <<mu, tch, notify, broker, chOf, next, readers, perr, cancelled, result, abandoned, sendFaults>>

\* The call keeps a copy of t.ch and starts the reader.
Start(c) ==
    /\ pc[c] = "start"
    /\ pc' = [pc EXCEPT ![c] = "publish"] /\ chOf' = [chOf EXCEPT ![c] = tch]
    /\ reader' = [reader EXCEPT ![c] = "running"]
    /\ UNCHANGED <<mu, tch, notify, broker, next, nAcks, errs, perr, cancelled, result, abandoned, sendFaults>>

\* BeforeSend or AfterSend, that of the last message included, returns an
\* error: so does the call, at once.
RabbitCallbackFails(c) ==
    /\ pc[c] = "publish" \/ (pc[c] = "wait" /\ ~perr[c])
    /\ Fault
    /\ Return(c, "error")
    /\ UNCHANGED <<tch, notify, broker, chOf, next, readers, perr>>

\* The broker routes the message, returns it as unroutable, or refuses it.
\* Every outcome ends with a confirmation.
Publish(c) ==
    /\ pc[c] = "publish" /\ chOf[c] # 0 /\ chOf[c] \notin closedChs
    /\ \E outcome \in {<<"ack">>, <<"return", "ack">>, <<"nack">>} :
          /\ IF outcome = <<"ack">> THEN UNCHANGED sendFaults ELSE Fault
          /\ events' = [events EXCEPT ![chOf[c]] = @ \o outcome]
          /\ accepted' = IF outcome = <<"ack">> THEN accepted \union {<<c, next[c]>>} ELSE accepted
    /\ next' = [next EXCEPT ![c] = @ + 1]
    /\ pc' = [pc EXCEPT ![c] = IF next[c] = Size THEN "wait" ELSE "publish"]
    /\ UNCHANGED <<mu, tch, notify, opened, closedChs, chOf, readers, perr, cancelled, result, abandoned>>

\* Slip: the reader is not told.
PublishFailsUntold(c) ==
    /\ pc[c] = "publish" /\ chOf[c] # 0
    /\ IF chOf[c] \in closedChs THEN UNCHANGED sendFaults ELSE Fault
    /\ perr' = [perr EXCEPT ![c] = TRUE] /\ pc' = [pc EXCEPT ![c] = "wait"]
    /\ UNCHANGED <<mu, tch, notify, broker, chOf, next, readers, cancelled, result, abandoned>>

\* Publish fails: always on a closed channel, and on an open one for a
\* message that cannot be encoded.
PublishFails(c) ==
    /\ pc[c] = "publish" /\ chOf[c] # 0
    /\ IF chOf[c] \in closedChs THEN UNCHANGED sendFaults ELSE Fault
    /\ perr' = [perr EXCEPT ![c] = TRUE] /\ pc' = [pc EXCEPT ![c] = "wait"]
    /\ cancelled' = cancelled \union {c}
    /\ UNCHANGED <<mu, tch, notify, broker, chOf, next, readers, result, abandoned>>

\* Publish on a nil channel: the reader of an earlier call has forgotten it.
PublishPanics(c) ==
    /\ pc[c] = "publish" /\ chOf[c] = 0
    /\ pc' = [pc EXCEPT ![c] = "panicked"]
    /\ UNCHANGED <<mu, tch, notify, broker, chOf, next, readers, perr, cancelled, result, abandoned, sendFaults>>

\* The call takes the reader's error; after a failed Publish it forgets the
\* channel.
Finish(c) ==
    /\ pc[c] = "wait" /\ reader[c] = "done"
    /\ tch' = IF perr[c] THEN 0 ELSE tch
    /\ Return(c, IF perr[c] \/ errs[c] THEN "error" ELSE "ok")
    /\ reader' = [reader EXCEPT ![c] = "gone"]
    /\ UNCHANGED <<notify, broker, chOf, next, nAcks, errs, perr, sendFaults>>

Cancel(c) ==
    /\ pc[c] # "returned" /\ c \notin cancelled /\ Fault
    /\ cancelled' = cancelled \union {c}
    /\ UNCHANGED <<mu, tch, notify, broker, pc, chOf, next, readers, perr, result, abandoned>>

-----------------------------------------------------------------------------
(***************************************************************************)
(* receiveFromPublishChannels                                              *)
(***************************************************************************)
Waits(c) == reader[c] = "running" /\ nAcks[c] < Size

\* ctx.Done: the channel is closed and forgotten.
ReaderCancelled(c) ==
    /\ Waits(c) /\ c \in cancelled
    /\ closedChs' = IF tch = 0 THEN closedChs ELSE closedChs \union {tch}
    /\ events' = IF tch = 0 THEN events ELSE [events EXCEPT ![tch] = << >>]
    /\ tch' = 0
    /\ reader' = [reader EXCEPT ![c] = "done"] /\ errs' = [errs EXCEPT ![c] = TRUE]
    /\ UNCHANGED <<mu, notify, opened, accepted, pc, chOf, next, nAcks, perr, cancelled, result,
                   abandoned, sendFaults>>

\* Slip: a confirmation is taken for an ack.
ReaderReadsAnyConfirmation(c) ==
    /\ Waits(c) /\ notify \notin closedChs /\ events[notify] # << >>
    /\ nAcks' = [nAcks EXCEPT ![c] = IF Head(events[notify]) = "return" THEN @ ELSE @ + 1]
    /\ errs' = [errs EXCEPT ![c] = @ \/ Head(events[notify]) = "return"]
    /\ events' = [events EXCEPT ![notify] = Tail(@)]
    /\ UNCHANGED <<mu, tch, notify, opened, closedChs, accepted, pc, chOf, next, reader, perr, cancelled,
                   result, abandoned, sendFaults>>

\* A returned message and a nack are recorded as errors; only confirmations
\* are counted.
ReaderReads(c) ==
    /\ Waits(c) /\ notify \notin closedChs /\ events[notify] # << >>
    /\ nAcks' = [nAcks EXCEPT ![c] = IF Head(events[notify]) = "return" THEN @ ELSE @ + 1]
    /\ errs' = [errs EXCEPT ![c] = @ \/ Head(events[notify]) # "ack"]
    /\ events' = [events EXCEPT ![notify] = Tail(@)]
    /\ UNCHANGED <<mu, tch, notify, opened, closedChs, accepted, pc, chOf, next, reader, perr, cancelled,
                   result, abandoned, sendFaults>>

\* The notification channels were closed, with the AMQP channel.
ReaderSeesClosed(c) ==
    /\ Waits(c) /\ notify \in closedChs
    /\ tch' = 0
    /\ reader' = [reader EXCEPT ![c] = "done"] /\ errs' = [errs EXCEPT ![c] = TRUE]
    /\ UNCHANGED <<mu, notify, broker, pc, chOf, next, nAcks, perr, cancelled, result, abandoned, sendFaults>>

\* All confirmations are in.
ReaderDone(c) ==
    /\ reader[c] = "running" /\ nAcks[c] = Size
    /\ reader' = [reader EXCEPT ![c] = "done"]
    /\ UNCHANGED <<mu, tch, notify, broker, pc, chOf, next, nAcks, errs, perr, cancelled, result,
                   abandoned, sendFaults>>

-----------------------------------------------------------------------------
\* The broker, or the network, closes a channel: what was not read is lost.
SendChannelCloses ==
    /\ Fault
    /\ \E k \in 1..opened \ closedChs : closedChs' = closedChs \union {k} /\ events' = [events EXCEPT ![k] = << >>]
    /\ UNCHANGED <<mu, tch, notify, opened, accepted, pc, chOf, next, readers, perr, cancelled, result,
                   abandoned>>

RabbitInit ==
    /\ mu = None /\ tch = 0 /\ notify = 0
    /\ opened = 0 /\ closedChs = {} /\ events = [k \in Channels |-> << >>]
    /\ pc = [c \in Calls |-> "idle"] /\ chOf = [c \in Calls |-> 0] /\ next = [c \in Calls |-> 1]
    /\ reader = [c \in Calls |-> "none"] /\ nAcks = [c \in Calls |-> 0] /\ errs = [c \in Calls |-> FALSE]
    /\ perr = [c \in Calls |-> FALSE] /\ cancelled = {} /\ accepted = {}
    /\ result = [c \in Calls |-> None] /\ abandoned = {} /\ sendFaults = 0

Sender(c) ==
    \/ Lock(c) \/ Establish(c) \/ EstablishFails(c) \/ Established(c) \/ Start(c)
    \/ RabbitCallbackFails(c) \/ Publish(c) \/ PublishFails(c) \/ PublishPanics(c) \/ Finish(c)
Reader(c) == ReaderCancelled(c) \/ ReaderReads(c) \/ ReaderSeesClosed(c) \/ ReaderDone(c)

RabbitNext == SendChannelCloses \/ \E c \in Calls : Sender(c) \/ Reader(c) \/ Cancel(c)

\* Goroutines run; t.mu is handed to a waiting call at last.
RabbitFairness == \A c \in Calls : WF_rvars(Sender(c)) /\ SF_rvars(Lock(c)) /\ WF_rvars(Reader(c))

RabbitSpec == RabbitInit /\ [][RabbitNext]_rvars /\ RabbitFairness

-----------------------------------------------------------------------------
\* A call that returns no error has had each of its messages routed by the
\* broker, whatever was nacked, returned, cancelled or closed in between; as
\* long as no call has left its reader behind.
OkMeansSent ==
    abandoned = {} => \A c \in Calls : result[c] = "ok" => \A i \in 1..Size : <<c, i>> \in accepted

\* And every call returns, under the same condition.
SendsReturn == <>[](abandoned # {} \/ \A c \in Calls : pc[c] = "returned")

=============================================================================
