------------------------------- MODULE Sends -------------------------------
(***************************************************************************)
(* SendBatch of the pubsub drivers (rabbitpubsub has a module of its own): *)
(* the order in which the callbacks of the messages, BeforeSend and        *)
(* AfterSend, and the requests to the service happen, and what is left     *)
(* done when one of them fails.  Messages are converted without loss.      *)
(***************************************************************************)
EXTENDS Naturals

CONSTANTS
    Senders,
    BatchSize      \* messages in a batch (azuresb: always one)

VARIABLES
    sender,
    phase,      \* "before", "request", "publish", "get", "after" or "returned"
    cur,        \* the message at hand
    before,     \* messages whose BeforeSend has succeeded
    sent,       \* messages the service has taken
    flying,     \* messages given to the client of gcppubsubv2 or natspubsub, which
                \* sends them on its own
    after,      \* messages whose AfterSend has succeeded
    sendResult  \* "none", "ok" or "error"

sendsVars == <<sender, phase, cur, before, sent, flying, after, sendResult>>

Batch == IF sender = "azuresb" THEN {1} ELSE 1..BatchSize
Last == cur + 1 \notin Batch

Fail == phase' = "returned" /\ sendResult' = "error" /\ UNCHANGED cur

\* Go on with the next message of the batch in phase here, or from the first
\* in phase there.
Step(here, there) ==
    /\ phase' = IF Last THEN there ELSE here
    /\ cur' = IF Last THEN 1 ELSE cur + 1
    /\ sendResult' = IF Last /\ there = "returned" THEN "ok" ELSE sendResult

-----------------------------------------------------------------------------
(***************************************************************************)
(* One request for the batch: all messages are prepared, sent, and then    *)
(* reported.  A request may fail for some messages only.                   *)
(***************************************************************************)
Prepare == phase = "before" /\ before' = before \union {cur} /\ Step("before", "request") /\ UNCHANGED <<sent, after>>
Report == phase = "after" /\ after' = after \union {cur} /\ Step("after", "returned") /\ UNCHANGED <<before, sent>>

\* AfterSend is given its entry of the reply: these drivers call it for no
\* message when the reply has not as many entries as the batch.
CountsReplies == sender \in {"gcppubsub", "awssns", "awssqs"}
ReplyOfOtherLength ==
    /\ phase = "after" /\ cur = 1 /\ CountsReplies
    /\ phase' = "returned" /\ sendResult' = "ok" /\ UNCHANGED <<cur, before, sent, after>>

CallbackFails == phase \in {"before", "after"} /\ Fail /\ UNCHANGED <<before, sent, after>>

AllSent == sent' = Batch /\ phase' = "after" /\ cur' = 1 /\ UNCHANGED sendResult

\* The request as a whole succeeds or fails; some messages may be sent when
\* it fails.
SendMessages == AllSent \/ \E S \in SUBSET Batch : sent' = S /\ Fail

\* Slip: the entries that failed are not looked at.
ReplyUnread ==
    \/ (\E S \in SUBSET Batch : sent' = S) /\ phase' = "after" /\ cur' = 1 /\ UNCHANGED sendResult
    \/ Fail /\ UNCHANGED sent

\* The request fails, or its reply names the entries that failed: one is
\* enough for an error.  An entry the reply does not call failed was taken.
SendEntries ==
    \/ \E S \in SUBSET Batch : IF S = Batch THEN AllSent ELSE sent' = S /\ Fail
    \/ Fail /\ UNCHANGED sent

SendBatch(request) ==
    /\ \/ Prepare \/ (phase = "request" /\ request /\ UNCHANGED <<before, after>>)
       \/ Report \/ ReplyOfOtherLength \/ CallbackFails
    /\ UNCHANGED <<sender, flying>>

KafkaSendBatch == sender = "kafkapubsub" /\ SendBatch(SendMessages)
GcpSendBatch == sender = "gcppubsub" /\ SendBatch(SendMessages)
SnsSendBatch == sender = "awssns" /\ SendBatch(SendEntries)
SqsSendBatch == sender = "awssqs" /\ SendBatch(SendEntries)
AzureSendBatch == sender = "azuresb" /\ SendBatch(SendMessages)

-----------------------------------------------------------------------------
(***************************************************************************)
(* One request for each message                                            *)
(***************************************************************************)

\* The context is looked at before each message; sendMessage and
\* sendMessageV2 differ in the encoding.  Publish puts the message into the
\* client's buffer, and nothing waits until it is flushed.
NatsSendBatch ==
    /\ sender = "natspubsub"
    /\ \/ phase = "before" /\ before' = before \union {cur} /\ phase' = "publish" /\ UNCHANGED <<cur, sendResult, flying, after>>
       \/ phase = "publish" /\ flying' = flying \union {cur} /\ phase' = "after" /\ UNCHANGED <<cur, sendResult, before, after>>
       \/ phase = "after" /\ after' = after \union {cur} /\ Step("before", "returned") /\ UNCHANGED <<before, flying>>
       \/ phase # "returned" /\ Fail /\ UNCHANGED <<before, flying, after>>
    /\ UNCHANGED <<sender, sent>>

\* Publish returns at once: the results are collected once all are given to
\* the publisher.
GcpV2SendBatch ==
    /\ sender = "gcppubsubv2"
    /\ \/ /\ phase = "before" /\ before' = before \union {cur} /\ flying' = flying \union {cur}
          /\ Step("before", "get") /\ UNCHANGED <<sent, after>>
       \/ phase = "get" /\ cur \in sent /\ phase' = "after" /\ UNCHANGED <<cur, sendResult, before, sent, flying, after>>
       \/ phase = "after" /\ after' = after \union {cur} /\ Step("get", "returned") /\ UNCHANGED <<before, sent, flying>>
       \/ phase # "returned" /\ Fail /\ UNCHANGED <<before, sent, flying, after>>
    /\ UNCHANGED sender

\* The publisher of gcppubsubv2 and the client of natspubsub at work, also
\* after the call has returned; or they never get to send it (external).
Publisher ==
    /\ \E m \in flying \ sent : sent' = sent \union {m}
    /\ UNCHANGED <<sender, phase, cur, before, flying, after, sendResult>>

\* Both callbacks are called before the messages are added to the
\* subscriptions.
MemSendBatch ==
    /\ sender = "mempubsub"
    /\ \/ phase = "before" /\ before' = before \union {cur} /\ phase' = "after" /\ UNCHANGED <<cur, sendResult, sent, after>>
       \/ phase = "after" /\ after' = after \union {cur} /\ Step("before", "publish") /\ UNCHANGED <<before, sent>>
       \/ phase = "publish" /\ sent' = Batch /\ phase' = "returned" /\ sendResult' = "ok" /\ UNCHANGED <<cur, before, after>>
       \/ CallbackFails
    /\ UNCHANGED <<sender, flying>>

SendsInit ==
    /\ sender \in Senders
    /\ phase = "before" /\ cur = 1 /\ before = {} /\ sent = {} /\ flying = {} /\ after = {}
    /\ sendResult = "none"

SendsNext ==
    \/ KafkaSendBatch \/ GcpSendBatch \/ SnsSendBatch \/ SqsSendBatch \/ AzureSendBatch
    \/ NatsSendBatch \/ GcpV2SendBatch \/ Publisher \/ MemSendBatch

SendsSpec == SendsInit /\ [][SendsNext]_sendsVars

-----------------------------------------------------------------------------
\* What the driver may take as sent: for natspubsub, what is in the buffer of
\* its client, from which a closed connection loses it.
Taken == IF sender = "natspubsub" THEN flying ELSE sent

\* A batch is reported as sent only when the service (for natspubsub, the
\* client's buffer) has taken each message of it, after the message's
\* BeforeSend and before its AfterSend.  AfterSend is left out for the batch as
\* a whole when gcppubsub or awssnssqs gets a reply of another length; and but
\* for mempubsub it is called for no message that was not taken, though others
\* of the batch fail.
SendsReported ==
    /\ sendResult = "ok" => /\ before = Batch /\ Taken = Batch
                            /\ after = Batch \/ (CountsReplies /\ after = {})
    /\ sender # "mempubsub" => after \subseteq Taken
    /\ sent \subseteq before /\ after \subseteq before

=============================================================================
