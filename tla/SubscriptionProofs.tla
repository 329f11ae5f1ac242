------------------------- MODULE SubscriptionProofs -------------------------
(***************************************************************************)
(* Proofs about Subscription, for any number of receivers, messages, ack    *)
(* handlers and callers of Shutdown, and any options of the batchers.       *)
(***************************************************************************)
EXTENDS Subscription, FiniteSetTheorems, SequenceTheorems, TLAPS

-----------------------------------------------------------------------------
(* The inductive invariant of the acks *)

CallStates == {"none", "entry", "calling", "driver", "backoff", "done"}

AckTypeOK ==
    /\ held \subseteq Msgs
    /\ verdict \in [Msgs -> Kinds \cup {"none", "dropped"}]
    /\ ackPending \subseteq Msgs
    /\ hset \in [AckHandlers -> SUBSET Msgs]
    /\ hcall \in [AckHandlers -> [Kinds -> CallStates]]
    /\ herr \in [AckHandlers -> {Nil, AckErr, CtxErr}]
    /\ flusher \in [Closers -> {"none", "start", "waiting", "done"}]
    /\ settled \subseteq Msgs \X Kinds
    /\ failed \subseteq Msgs

\* What the batcher, the handlers and the driver have got was given a verdict
\* by somebody who received it.
OnlyVerdicts ==
    /\ \A m \in Msgs : verdict[m] # "none" => m \in held
    /\ \A m \in ackPending : verdict[m] \in Kinds
    /\ \A h \in AckHandlers : \A m \in hset[h] : verdict[m] \in Kinds
    /\ \A m \in failed : verdict[m] \in Kinds
    /\ \A m \in Msgs, k \in Kinds : <<m, k>> \in settled => verdict[m] = k

\* A message is in one batch, and in none once its ack has failed.
OneBatch ==
    /\ \A h \in AckHandlers : hset[h] \cap ackPending = {} /\ hset[h] \cap failed = {}
    /\ \A h, g \in AckHandlers : h # g => hset[h] \cap hset[g] = {}
    /\ ackPending \cap failed = {}

\* No verdict is lost: it waits, is in a batch, or has been sent or given up.
NoneLost ==
    \A m \in Msgs : verdict[m] \in Kinds =>
        \/ m \in ackPending
        \/ \E h \in AckHandlers : m \in hset[h]
        \/ <<m, verdict[m]>> \in settled
        \/ m \in failed

\* A handler without an error has sent what its finished calls were to send.
SentByDone ==
    \A h \in AckHandlers : \A m \in hset[h] :
        herr[h] = Nil /\ hcall[h][verdict[m]] = "done" => <<m, verdict[m]>> \in settled

\* ackBatcher.Shutdown has returned: nothing is in the batcher.
FlushedEmpty ==
    \A s \in Closers :
        /\ flusher[s] \in {"waiting", "done"} => ackShut
        /\ flusher[s] = "done" =>
             ackPending = {} /\ \A h \in AckHandlers : hset[h] = {}

AckIInv ==
    /\ AckTypeOK
    /\ OnlyVerdicts
    /\ OneBatch
    /\ NoneLost
    /\ SentByDone
    /\ FlushedEmpty

-----------------------------------------------------------------------------
(* The inductive invariant of the messages on their way to Receive *)

Errs == {Nil, FetchErr, CtxErr}
Batches == [msgs : Seq(Msgs), err : Errs]

FetchTypeOK ==
    /\ q \in Seq(Msgs)
    /\ server \subseteq Msgs
    /\ held \subseteq Msgs
    /\ result \in Seq(Batches)
    /\ gerr \in Errs
    /\ waitc \in BOOLEAN
    /\ resultClosed \in BOOLEAN
    /\ call \in [Calls -> CallStates]

\* Message m is in s.q, or in the channel.
InQ(m) == \E i \in 1..Len(q) : q[i] = m
InResult(m) == \E i \in 1..Len(result) : \E j \in 1..Len(result[i].msgs) : result[i].msgs[j] = m

\* s.q and the channel hold no message twice.
QDistinct == \A i, j \in 1..Len(q) : q[i] = q[j] => i = j
ResultDistinct ==
    \A i, k \in 1..Len(result) : \A j \in 1..Len(result[i].msgs), l \in 1..Len(result[k].msgs) :
        result[i].msgs[j] = result[k].msgs[l] => i = k /\ j = l

\* The places have no message in common, and no message is missing.
Apart ==
    \A m \in Msgs :
        /\ m \in server => ~InResult(m) /\ ~InQ(m) /\ m \notin held
        /\ InResult(m) => ~InQ(m) /\ m \notin held
        /\ InQ(m) => m \notin held
        /\ m \in server \/ InResult(m) \/ InQ(m) \/ m \in held

\* s.waitc is there exactly while a fetch goes on, each fetch starts with a new
\* channel and errgroup, and the channel is closed when no call can send on it.
FetchState ==
    /\ waitc <=> fpc # "none"
    /\ fpc \in {"none", "start"} =>
         result = <<>> /\ ~resultClosed /\ gerr = Nil /\ \A c \in Calls : call[c] = "none"
    /\ resultClosed => \A c \in Calls : call[c] = "done"

FetchIInv ==
    /\ FetchTypeOK
    /\ QDistinct
    /\ ResultDistinct
    /\ Apart
    /\ FetchState

IInv == AckIInv /\ FetchIInv

-----------------------------------------------------------------------------
(* The steps of the acks *)

\* Steps that leave the acks alone; more messages may have been received.
LEMMA AckQuiet ==
    ASSUME AckIInv,
           UNCHANGED <<verdict, ackPending, hset, hcall, herr, settled, failed, flusher, ackShut>>,
           held \subseteq held', held' \subseteq Msgs
    PROVE  AckIInv'
<1> USE DEF AckIInv
<1>1. AckTypeOK'
  BY DEF AckTypeOK
<1>2. OnlyVerdicts' /\ OneBatch' /\ NoneLost'
  BY DEF OnlyVerdicts, OneBatch, NoneLost
<1>3. SentByDone' /\ FlushedEmpty'
  BY DEF SentByDone, FlushedEmpty
<1> QED
  BY <1>1, <1>2, <1>3

\* Ack or Nack.
LEMMA StepAcknowledge ==
    ASSUME AckIInv, NEW m \in Msgs, NEW k \in Kinds, Acknowledge(m, k) PROVE AckIInv'
<1> USE DEF AckIInv
<1>1. /\ m \in held /\ verdict[m] = "none"
      /\ verdict' \in [Msgs -> Kinds \cup {"none", "dropped"}]
      /\ verdict'[m] = IF ackShut THEN "dropped" ELSE k
      /\ \A n \in Msgs \ {m} : verdict'[n] = verdict[n]
      /\ ackPending' = IF ackShut THEN ackPending ELSE ackPending \cup {m}
      /\ UNCHANGED <<held, ackShut, hset, hcall, herr, flusher, settled, failed>>
  BY DEF Acknowledge, AckTypeOK, shutVars, driverVars
<1>2. /\ m \notin ackPending /\ m \notin failed
      /\ \A h \in AckHandlers : m \notin hset[h]
      /\ \A j \in Kinds : <<m, j>> \notin settled
  BY <1>1 DEF OnlyVerdicts, Kinds
<1>3. AckTypeOK'
  BY <1>1 DEF AckTypeOK
<1>4. OnlyVerdicts'
  BY <1>1, <1>2 DEF OnlyVerdicts, AckTypeOK
<1>5. OneBatch'
  BY <1>1, <1>2 DEF OneBatch
<1>6. NoneLost'
  BY <1>1, <1>2 DEF NoneLost, Kinds
<1>7. SentByDone'
  BY <1>1, <1>2 DEF SentByDone, AckTypeOK
<1>8. FlushedEmpty'
  BY <1>1 DEF FlushedEmpty
<1> QED
  BY <1>3, <1>4, <1>5, <1>6, <1>7, <1>8

\* A handler gets a batch: a call is made for each kind that is in it.
LEMMA StepHandlerStart ==
    ASSUME AckIInv, NEW h \in AckHandlers, HandlerStart(h) PROVE AckIInv'
<1> USE DEF AckIInv
<1>1. PICK b \in SUBSET ackPending \ {{}} :
         /\ hset' = [hset EXCEPT ![h] = b]
         /\ ackPending' = ackPending \ b
         /\ hcall' = [hcall EXCEPT ![h] =
                        [k \in Kinds |-> IF \E m \in b : verdict[m] = k
                                         THEN "entry" ELSE "done"]]
  BY DEF HandlerStart
<1>2. hset[h] = {} /\ UNCHANGED <<held, verdict, ackShut, herr, flusher, settled, failed>>
  BY DEF HandlerStart, shutVars, driverVars
<1>3. /\ hset'[h] = b /\ \A g \in AckHandlers \ {h} : hset'[g] = hset[g] /\ hcall'[g] = hcall[g]
      /\ \A m \in b : m \in Msgs /\ verdict[m] \in Kinds /\ hcall'[h][verdict[m]] = "entry"
  BY <1>1 DEF AckTypeOK, OnlyVerdicts
<1>4. AckTypeOK'
  <2>1. [k \in Kinds |-> IF \E m \in b : verdict[m] = k THEN "entry" ELSE "done"]
           \in [Kinds -> CallStates]
    BY DEF CallStates
  <2>2. hcall' \in [AckHandlers -> [Kinds -> CallStates]]
    BY <1>1, <2>1 DEF AckTypeOK
  <2>3. hset' \in [AckHandlers -> SUBSET Msgs]
    BY <1>1 DEF AckTypeOK
  <2> QED
    BY <1>1, <1>2, <2>2, <2>3 DEF AckTypeOK
<1>5. OnlyVerdicts'
  BY <1>1, <1>2, <1>3 DEF OnlyVerdicts
<1>6. OneBatch'
  BY <1>1, <1>2, <1>3 DEF OneBatch
<1>7. NoneLost'
  BY <1>1, <1>2, <1>3 DEF NoneLost
<1>8. SentByDone'
  BY <1>2, <1>3 DEF SentByDone
<1>9. FlushedEmpty'
  BY <1>1, <1>2 DEF FlushedEmpty
<1> QED
  BY <1>4, <1>5, <1>6, <1>7, <1>8, <1>9

\* A step of retry.Call around SendAcks or SendNacks that changes no set: it
\* goes on, or ends with an error.
LEMMA SendGoesOn ==
    ASSUME AckIInv, NEW h \in AckHandlers, NEW k \in Kinds,
           NEW c \in {"calling", "driver", "backoff", "done"},
           hcall' = [hcall EXCEPT ![h][k] = c],
           herr' \in [AckHandlers -> {Nil, AckErr, CtxErr}],
           \A g \in AckHandlers : herr[g] # Nil => herr'[g] # Nil,
           c = "done" => herr'[h] # Nil,
           UNCHANGED <<held, verdict, ackPending, ackShut, hset, flusher, settled, failed>>
    PROVE  AckIInv'
<1> USE DEF AckIInv
<1>1. hcall' \in [AckHandlers -> [Kinds -> CallStates]]
  BY DEF AckTypeOK, CallStates
<1>2. AckTypeOK'
  BY <1>1 DEF AckTypeOK
<1>3. OnlyVerdicts' /\ OneBatch' /\ NoneLost'
  BY DEF OnlyVerdicts, OneBatch, NoneLost
<1>4. /\ \A g \in AckHandlers \ {h} : hcall'[g] = hcall[g]
      /\ \A j \in Kinds \ {k} : hcall'[h][j] = hcall[h][j]
      /\ hcall'[h][k] = c
  BY DEF AckTypeOK
<1>5. SentByDone'
  <2> SUFFICES ASSUME NEW g \in AckHandlers, NEW m \in hset[g],
                      herr'[g] = Nil, hcall'[g][verdict[m]] = "done"
               PROVE  <<m, verdict[m]>> \in settled
    BY DEF SentByDone
  <2>1. herr[g] = Nil /\ verdict[m] \in Kinds
    BY DEF OnlyVerdicts
  <2>2. hcall[g][verdict[m]] = "done"
    BY <1>4, <2>1
  <2> QED
    BY <2>1, <2>2 DEF SentByDone
<1>6. FlushedEmpty'
  BY DEF FlushedEmpty
<1> QED
  BY <1>2, <1>3, <1>5, <1>6

\* retry.Call ends with an error, which the errgroup keeps if it is the first.
LEMMA FailShape ==
    ASSUME AckTypeOK, NEW h \in AckHandlers, NEW k \in Kinds, NEW e \in {AckErr, CtxErr},
           SendFails(h, k, e)
    PROVE  /\ hcall' = [hcall EXCEPT ![h][k] = "done"]
           /\ herr' \in [AckHandlers -> {Nil, AckErr, CtxErr}]
           /\ \A g \in AckHandlers : herr[g] # Nil => herr'[g] # Nil
           /\ herr'[h] # Nil
  BY DEF SendFails, AckTypeOK, Nil, AckErr, CtxErr

\* The driver takes the acks, or the nacks, of a batch.
LEMMA SendSucceeds ==
    ASSUME AckIInv, NEW h \in AckHandlers, NEW k \in Kinds,
           hcall' = [hcall EXCEPT ![h][k] = "done"],
           settled' = settled \cup {<<m, k>> : m \in {n \in hset[h] : verdict[n] = k}},
           UNCHANGED <<held, verdict, ackPending, ackShut, hset, herr, flusher, failed>>
    PROVE  AckIInv'
<1> USE DEF AckIInv
<1>0. /\ \A m \in Msgs, j \in Kinds :
            <<m, j>> \in settled' <=> <<m, j>> \in settled \/ (j = k /\ m \in hset[h] /\ verdict[m] = k)
      /\ settled' \subseteq Msgs \X Kinds
  BY DEF AckTypeOK
<1>1. hcall' \in [AckHandlers -> [Kinds -> CallStates]]
  BY DEF AckTypeOK, CallStates
<1>2. AckTypeOK'
  BY <1>0, <1>1 DEF AckTypeOK
<1>3. OnlyVerdicts'
  BY <1>0 DEF OnlyVerdicts
<1>4. OneBatch'
  BY DEF OneBatch
<1>5. NoneLost'
  BY DEF NoneLost
<1>6. /\ \A g \in AckHandlers \ {h} : hcall'[g] = hcall[g]
      /\ \A j \in Kinds \ {k} : hcall'[h][j] = hcall[h][j]
  BY DEF AckTypeOK
<1>7. SentByDone'
  <2> SUFFICES ASSUME NEW g \in AckHandlers, NEW m \in hset[g],
                      herr[g] = Nil, hcall'[g][verdict[m]] = "done"
               PROVE  <<m, verdict[m]>> \in settled'
    BY DEF SentByDone
  <2>1. m \in Msgs /\ verdict[m] \in Kinds
    BY DEF OnlyVerdicts, AckTypeOK
  <2>2. CASE g = h /\ verdict[m] = k
    BY <1>0, <2>1, <2>2
  <2>3. CASE ~(g = h /\ verdict[m] = k)
    BY <1>6, <2>1, <2>3 DEF SentByDone
  <2> QED
    BY <2>2, <2>3
<1>8. FlushedEmpty'
  BY DEF FlushedEmpty
<1> QED
  BY <1>2, <1>3, <1>4, <1>5, <1>7, <1>8

\* A call of SendAcks or SendNacks is made, tried again or returns.
LEMMA StepSend ==
    ASSUME AckIInv, NEW h \in AckHandlers, NEW k \in Kinds,
           SendEnters(h, k) \/ SendInvokes(h, k) \/ SendReturns(h, k)
    PROVE  AckIInv'
<1>1. UNCHANGED <<held, verdict, ackPending, ackShut, hset, flusher, failed>>
  BY DEF SendEnters, SendInvokes, SendReturns, shutVars
<1>2. AckTypeOK /\ herr \in [AckHandlers -> {Nil, AckErr, CtxErr}]
  BY DEF AckIInv, AckTypeOK
<1>3. ASSUME NEW e \in {AckErr, CtxErr}, SendFails(h, k, e), UNCHANGED settled PROVE AckIInv'
  BY <1>1, <1>2, <1>3, FailShape, SendGoesOn
<1>4. ASSUME NEW c \in {"calling", "driver", "backoff"}, hcall' = [hcall EXCEPT ![h][k] = c],
             UNCHANGED <<herr, settled>>
      PROVE  AckIInv'
  BY <1>1, <1>2, <1>4, SendGoesOn
<1>5. CASE SendEnters(h, k)
  BY <1>3, <1>4, <1>5 DEF SendEnters, driverVars
<1>6. CASE SendInvokes(h, k)
  BY <1>4, <1>6 DEF SendInvokes, driverVars
<1>7. CASE SendReturns(h, k)
  <2>1. CASE /\ settled' = settled \cup {<<m, k>> : m \in {n \in hset[h] : verdict[n] = k}}
             /\ hcall' = [hcall EXCEPT ![h][k] = "done"]
             /\ UNCHANGED herr
    BY <1>1, <2>1, SendSucceeds
  <2> QED
    BY <1>3, <1>4, <1>7, <2>1 DEF SendReturns
<1> QED
  BY <1>5, <1>6, <1>7

\* A handler ends: without an error all of its batch was sent, with one what
\* was not sent has failed.
LEMMA StepHandlerEnd ==
    ASSUME AckIInv, NEW h \in AckHandlers, HandlerEnd(h) PROVE AckIInv'
<1> USE DEF AckIInv
<1>1. /\ \A k \in Kinds : hcall[h][k] = "done"
      /\ hset' = [hset EXCEPT ![h] = {}]
      /\ herr' = [herr EXCEPT ![h] = Nil]
      /\ hcall' = [hcall EXCEPT ![h] = [k \in Kinds |-> "none"]]
      /\ UNCHANGED <<held, verdict, ackPending, ackShut, flusher, settled>>
      /\ failed' = IF herr[h] = Nil THEN failed
                   ELSE failed \cup {m \in hset[h] : <<m, verdict[m]>> \notin settled}
  BY DEF HandlerEnd, shutVars, driverVars
<1>2. /\ hset'[h] = {}
      /\ \A g \in AckHandlers \ {h} : hset'[g] = hset[g] /\ hcall'[g] = hcall[g] /\ herr'[g] = herr[g]
  BY <1>1 DEF AckTypeOK
<1>3. AckTypeOK'
  <2>1. [k \in Kinds |-> "none"] \in [Kinds -> CallStates]
    BY DEF CallStates
  <2>2. hcall' \in [AckHandlers -> [Kinds -> CallStates]]
    BY <1>1, <2>1 DEF AckTypeOK
  <2>3. failed' \subseteq Msgs
    BY <1>1 DEF AckTypeOK
  <2> QED
    BY <1>1, <2>2, <2>3 DEF AckTypeOK
<1>4. OnlyVerdicts'
  BY <1>1, <1>2 DEF OnlyVerdicts
<1>5. OneBatch'
  BY <1>1, <1>2 DEF OneBatch
<1>6. \A m \in hset[h] : <<m, verdict[m]>> \in settled \/ m \in failed'
  BY <1>1 DEF SentByDone, OnlyVerdicts
<1>7. NoneLost'
  BY <1>1, <1>2, <1>6 DEF NoneLost
<1>8. SentByDone'
  BY <1>1, <1>2 DEF SentByDone
<1>9. FlushedEmpty'
  BY <1>1, <1>2 DEF FlushedEmpty
<1> QED
  BY <1>3, <1>4, <1>5, <1>7, <1>8, <1>9

\* The flush begins and ends.
LEMMA StepFlush ==
    ASSUME AckIInv, NEW s \in Closers, FlushBegin(s) \/ FlushEnd(s) \/ ShutdownCall(s)
    PROVE  AckIInv'
<1> USE DEF AckIInv
<1>1. UNCHANGED <<held, verdict, ackPending, hset, hcall, herr, settled, failed>>
  BY DEF FlushBegin, FlushEnd, ShutdownCall, ackVars, driverVars
<1>2. AckTypeOK'
  BY <1>1 DEF AckTypeOK, FlushBegin, FlushEnd, ShutdownCall
<1>3. OnlyVerdicts' /\ OneBatch' /\ NoneLost' /\ SentByDone'
  BY <1>1 DEF OnlyVerdicts, OneBatch, NoneLost, SentByDone
<1>4. FlushedEmpty'
  BY <1>1 DEF FlushedEmpty, AckTypeOK, FlushBegin, FlushEnd, ShutdownCall, ackVars
<1> QED
  BY <1>2, <1>3, <1>4

-----------------------------------------------------------------------------
(* The steps of the messages *)

\* Steps that move no message.
LEMMA PlacesSame ==
    ASSUME FetchIInv, UNCHANGED <<q, server, held, result>>
    PROVE  QDistinct' /\ ResultDistinct' /\ Apart'
<1> USE DEF FetchIInv
<1>1. QDistinct' /\ ResultDistinct'
  BY DEF QDistinct, ResultDistinct
<1>2. \A m : (InQ(m)' <=> InQ(m)) /\ (InResult(m)' <=> InResult(m))
  BY DEF InQ, InResult
<1>3. Apart'
  BY <1>2 DEF Apart
<1> QED
  BY <1>1, <1>3

\* Receive returns the head of s.q.
LEMMA GiveHead ==
    ASSUME FetchIInv, q # <<>>, q' = Tail(q), held' = held \cup {Head(q)},
           UNCHANGED <<server, result>>
    PROVE  /\ q' \in Seq(Msgs) /\ held' \subseteq Msgs
           /\ QDistinct' /\ ResultDistinct' /\ Apart'
<1> USE DEF FetchIInv
<1>1. PICK n \in Nat : n = Len(q)
  BY DEF FetchTypeOK
<1>2. /\ n > 0 /\ Head(q) = q[1] /\ q[1] \in Msgs
      /\ q' \in Seq(Msgs) /\ Len(q') = n - 1
      /\ \A i \in 1..n - 1 : q'[i] = q[i + 1]
  BY <1>1, HeadTailProperties, EmptySeq DEF FetchTypeOK
<1>3. QDistinct'
  <2> SUFFICES ASSUME NEW i \in 1..n - 1, NEW j \in 1..n - 1, q'[i] = q'[j] PROVE i = j
    BY <1>2 DEF QDistinct
  <2>1. i + 1 \in 1..n /\ j + 1 \in 1..n /\ q[i + 1] = q[j + 1]
    BY <1>2
  <2>2. i + 1 = j + 1
    BY <1>1, <2>1 DEF QDistinct
  <2> QED
    BY <2>2
<1>4. ResultDistinct'
  BY DEF ResultDistinct
<1>x. PICK x \in Msgs : x = q[1]
  BY <1>2
<1>5. ASSUME NEW m PROVE InQ(m) <=> InQ(m)' \/ m = x
  <2>1. ASSUME NEW i \in 1..n, q[i] = m PROVE InQ(m)' \/ m = x
    <3>1. CASE i = 1
      BY <1>x, <2>1, <3>1
    <3>2. CASE i # 1
      <4>1. i - 1 \in 1..n - 1 /\ (i - 1) + 1 = i
        BY <3>2
      <4> QED
        BY <1>2, <2>1, <4>1 DEF InQ
    <3> QED
      BY <3>1, <3>2
  <2>2. ASSUME NEW i \in 1..n - 1, q'[i] = m PROVE InQ(m)
    <3>1. i + 1 \in 1..n /\ q[i + 1] = m
      BY <1>2, <2>2
    <3> QED
      BY <1>1, <3>1 DEF InQ
  <2>3. InQ(x)
    BY <1>x, <1>1, <1>2 DEF InQ
  <2> QED
    BY <1>1, <1>2, <2>1, <2>2, <2>3 DEF InQ
<1>6. ~InQ(x)'
  <2> SUFFICES ASSUME NEW i \in 1..n - 1, q'[i] = x PROVE FALSE
    BY <1>2 DEF InQ
  <2>1. i + 1 \in 1..n /\ 1 \in 1..n /\ q[i + 1] = q[1]
    BY <1>x, <1>2
  <2>2. i + 1 = 1
    BY <1>1, <2>1 DEF QDistinct
  <2> QED
    BY <2>2
<1>7. \A m : InResult(m)' <=> InResult(m)
  BY DEF InResult
<1>8. Apart'
  BY <1>x, <1>2, <1>5, <1>6, <1>7 DEF Apart
<1>9. held' \subseteq Msgs
  BY <1>2 DEF FetchTypeOK
<1> QED
  BY <1>2, <1>3, <1>4, <1>8, <1>9

\* A call of ReceiveBatch sends messages that the server had on the channel.
LEMMA SendResult ==
    ASSUME FetchIInv, NEW s \in Seq(server), \A i, j \in 1..Len(s) : s[i] = s[j] => i = j,
           NEW e \in Errs,
           server' = server \ {s[i] : i \in 1..Len(s)},
           result' = Append(result, [msgs |-> s, err |-> e]),
           UNCHANGED <<q, held>>
    PROVE  /\ server' \subseteq Msgs /\ result' \in Seq(Batches)
           /\ QDistinct' /\ ResultDistinct' /\ Apart'
<1> USE DEF FetchIInv
<1> DEFINE b == [msgs |-> s, err |-> e]
<1>1. PICK n \in Nat : n = Len(result)
  BY DEF FetchTypeOK
<1>2. b \in Batches /\ server \subseteq Msgs
  <2>1. s \in Seq(Msgs)
    BY SeqMonotonic DEF FetchTypeOK
  <2> QED
    BY <2>1 DEF Batches, FetchTypeOK
<1>3. /\ result' \in Seq(Batches) /\ Len(result') = n + 1
      /\ \A i \in 1..n : result'[i] = result[i]
      /\ result'[n + 1] = b
  <2> HIDE DEF b
  <2>1. result' = Append(result, b) /\ result \in Seq(Batches)
    BY DEF b, FetchTypeOK
  <2> QED
    BY <1>1, <1>2, <2>1, AppendProperties
<1>4. result'[n + 1].msgs = s
  BY <1>3
<1>5. \A i \in 1..n : result'[i].msgs = result[i].msgs
  BY <1>3
<1>6. \A i \in 1..Len(s) : s[i] \in server /\ s[i] \in Msgs
  BY <1>2
<1>7. ASSUME NEW m PROVE InResult(m)' <=> InResult(m) \/ \E j \in 1..Len(s) : s[j] = m
  <2>1. ASSUME InResult(m) PROVE InResult(m)'
    BY <1>1, <1>3, <1>5, <2>1 DEF InResult
  <2>2. ASSUME NEW j \in 1..Len(s), s[j] = m PROVE InResult(m)'
    BY <1>3, <1>4, <2>2 DEF InResult
  <2>3. ASSUME NEW i \in 1..n + 1, NEW j \in 1..Len(result'[i].msgs), result'[i].msgs[j] = m
        PROVE  InResult(m) \/ \E l \in 1..Len(s) : s[l] = m
    <3>1. CASE i \in 1..n
      BY <1>1, <1>5, <2>3, <3>1 DEF InResult
    <3>2. CASE i = n + 1
      BY <1>4, <2>3, <3>2
    <3> QED
      BY <3>1, <3>2
  <2> QED
    BY <1>3, <2>1, <2>2, <2>3 DEF InResult
<1>8. \A i \in 1..n : \A j \in 1..Len(result[i].msgs) : result[i].msgs[j] \notin server
  <2> TAKE i \in 1..n
  <2> TAKE j \in 1..Len(result[i].msgs)
  <2>1. InResult(result[i].msgs[j])
    BY <1>1 DEF InResult
  <2> QED
    BY <1>2, <2>1 DEF Apart
<1>9. ResultDistinct'
  <2> SUFFICES ASSUME NEW i \in 1..n + 1, NEW k \in 1..n + 1,
                      NEW j \in 1..Len(result'[i].msgs), NEW l \in 1..Len(result'[k].msgs),
                      result'[i].msgs[j] = result'[k].msgs[l]
               PROVE  i = k /\ j = l
    BY <1>3 DEF ResultDistinct
  <2>1. CASE i \in 1..n /\ k \in 1..n
    BY <1>1, <1>5, <2>1 DEF ResultDistinct
  <2>2. CASE i = n + 1 /\ k = n + 1
    BY <1>4, <2>2
  <2>3. CASE i \in 1..n /\ k = n + 1
    BY <1>4, <1>5, <1>6, <1>8, <2>3
  <2>4. CASE i = n + 1 /\ k \in 1..n
    BY <1>4, <1>5, <1>6, <1>8, <2>4
  <2>5. (i \in 1..n \/ i = n + 1) /\ (k \in 1..n \/ k = n + 1)
    OBVIOUS
  <2> QED
    BY <2>1, <2>2, <2>3, <2>4, <2>5
<1>10. QDistinct' /\ \A m : InQ(m)' <=> InQ(m)
  BY DEF QDistinct, InQ
<1>11. Apart'
  BY <1>6, <1>7, <1>10 DEF Apart
<1> QED
  BY <1>2, <1>3, <1>9, <1>10, <1>11

\* The fetching goroutine moves a result from the channel to s.q.
LEMMA MoveResult ==
    ASSUME FetchIInv, result # <<>>, result' = Tail(result), q' = q \o Head(result).msgs,
           UNCHANGED <<server, held>>
    PROVE  /\ q' \in Seq(Msgs) /\ result' \in Seq(Batches)
           /\ QDistinct' /\ ResultDistinct' /\ Apart'
<1> USE DEF FetchIInv
<1>1. PICK n \in Nat : n = Len(result)
  BY DEF FetchTypeOK
<1>2. /\ n > 0 /\ Head(result) = result[1] /\ result[1] \in Batches
      /\ result' \in Seq(Batches) /\ Len(result') = n - 1
      /\ \A i \in 1..n - 1 : result'[i] = result[i + 1]
  BY <1>1, HeadTailProperties, EmptySeq DEF FetchTypeOK
<1>3. PICK s \in Seq(Msgs) : s = result[1].msgs
  BY <1>2 DEF Batches
<1>4. PICK k \in Nat, l \in Nat : k = Len(q) /\ l = Len(s)
  BY DEF FetchTypeOK
<1>5. /\ q' \in Seq(Msgs) /\ Len(q') = k + l
      /\ \A i \in 1..k : q'[i] = q[i]
      /\ \A i \in 1..l : q'[i + k] = s[i]
  <2>1. q' = q \o s /\ q \in Seq(Msgs)
    BY <1>2, <1>3 DEF FetchTypeOK
  <2>5. /\ q \o s \in Seq(Msgs)
        /\ Len(q \o s) = Len(q) + Len(s)
        /\ \A i \in 1..Len(q) + Len(s) : (q \o s)[i] = IF i <= Len(q) THEN q[i] ELSE s[i - Len(q)]
    BY <2>1, ConcatProperties
  <2>2. /\ q' \in Seq(Msgs) /\ Len(q') = k + l
        /\ \A i \in 1..k + l : q'[i] = IF i <= k THEN q[i] ELSE s[i - k]
    BY <1>4, <2>1, <2>5, Zenon
  <2>3. \A i \in 1..k : i \in 1..k + l /\ i <= k
    OBVIOUS
  <2>4. \A i \in 1..l : i + k \in 1..k + l /\ ~(i + k <= k) /\ (i + k) - k = i
    OBVIOUS
  <2> QED
    BY <2>2, <2>3, <2>4
<1>6. \A i \in 1..l : InResult(s[i]) /\ s[i] \in Msgs
  <2> TAKE i \in 1..l
  <2>1. s[i] \in Msgs
    BY <1>4
  <2>2. 1 \in 1..Len(result) /\ i \in 1..Len(result[1].msgs) /\ result[1].msgs[i] = s[i]
    BY <1>1, <1>2, <1>3, <1>4
  <2> QED
    BY <2>1, <2>2 DEF InResult
<1>7. \A i, j \in 1..l : s[i] = s[j] => i = j
  <2>1. 1 \in 1..Len(result) /\ result[1].msgs = s /\ Len(result[1].msgs) = l
    BY <1>1, <1>2, <1>3, <1>4
  <2>2. \A j \in 1..Len(result[1].msgs), o \in 1..Len(result[1].msgs) :
           result[1].msgs[j] = result[1].msgs[o] => j = o
    BY <1>1, <2>1 DEF ResultDistinct
  <2> QED
    BY <2>1, <2>2
<1>8. \A i \in 1..k, j \in 1..l : q[i] # s[j]
  BY <1>4, <1>6 DEF Apart, InQ
<1>9. QDistinct'
  <2> SUFFICES ASSUME NEW i \in 1..k + l, NEW j \in 1..k + l, q'[i] = q'[j] PROVE i = j
    BY <1>5 DEF QDistinct
  <2>1. /\ i \in 1..k \/ (i - k \in 1..l /\ (i - k) + k = i)
        /\ j \in 1..k \/ (j - k \in 1..l /\ (j - k) + k = j)
    OBVIOUS
  <2>2. CASE i \in 1..k /\ j \in 1..k
    BY <1>4, <1>5, <2>2 DEF QDistinct
  <2>3. CASE i \in 1..k /\ j - k \in 1..l /\ (j - k) + k = j
    <3>1. q'[i] = q[i] /\ q'[j] = s[j - k]
      BY <1>5, <2>3
    <3> QED
      BY <1>8, <2>3, <3>1
  <2>4. CASE j \in 1..k /\ i - k \in 1..l /\ (i - k) + k = i
    <3>1. q'[j] = q[j] /\ q'[i] = s[i - k]
      BY <1>5, <2>4
    <3> QED
      BY <1>8, <2>4, <3>1
  <2>5. CASE i - k \in 1..l /\ (i - k) + k = i /\ j - k \in 1..l /\ (j - k) + k = j
    <3>1. s[i - k] = s[j - k]
      BY <1>5, <2>5
    <3>2. i - k = j - k
      BY <1>7, <2>5, <3>1
    <3> QED
      BY <3>2
  <2> QED
    BY <2>1, <2>2, <2>3, <2>4, <2>5
<1>10. ASSUME NEW m PROVE InQ(m)' <=> InQ(m) \/ \E j \in 1..l : s[j] = m
  <2>1. ASSUME InQ(m) PROVE InQ(m)'
    BY <1>4, <1>5, <2>1 DEF InQ
  <2>2. ASSUME NEW j \in 1..l, s[j] = m PROVE InQ(m)'
    <3>1. j + k \in 1..k + l /\ q'[j + k] = m
      BY <1>5, <2>2
    <3> QED
      BY <1>5, <3>1 DEF InQ
  <2>3. ASSUME NEW i \in 1..k + l, q'[i] = m PROVE InQ(m) \/ \E j \in 1..l : s[j] = m
    <3>1. CASE i \in 1..k
      BY <1>4, <1>5, <2>3, <3>1 DEF InQ
    <3>2. CASE i - k \in 1..l /\ (i - k) + k = i
      BY <1>5, <2>3, <3>2
    <3>3. i \in 1..k \/ (i - k \in 1..l /\ (i - k) + k = i)
      OBVIOUS
    <3> QED
      BY <3>1, <3>2, <3>3
  <2> QED
    BY <1>5, <2>1, <2>2, <2>3 DEF InQ
<1>11. ASSUME NEW m PROVE InResult(m) <=> InResult(m)' \/ \E j \in 1..l : s[j] = m
  <2>1. ASSUME NEW i \in 1..n, NEW j \in 1..Len(result[i].msgs), result[i].msgs[j] = m
        PROVE  InResult(m)' \/ \E u \in 1..l : s[u] = m
    <3>1. CASE i = 1
      BY <1>3, <1>4, <2>1, <3>1
    <3>2. CASE i # 1
      <4>1. i - 1 \in 1..n - 1 /\ (i - 1) + 1 = i
        BY <3>2
      <4>2. result'[i - 1] = result[i]
        BY <1>2, <4>1
      <4> QED
        BY <1>2, <2>1, <4>1, <4>2 DEF InResult
    <3> QED
      BY <3>1, <3>2
  <2>2. ASSUME NEW i \in 1..n - 1, NEW j \in 1..Len(result'[i].msgs), result'[i].msgs[j] = m
        PROVE  InResult(m)
    <3>1. i + 1 \in 1..n /\ result'[i] = result[i + 1]
      BY <1>2
    <3> QED
      BY <1>1, <2>2, <3>1 DEF InResult
  <2>3. ASSUME NEW u \in 1..l, s[u] = m PROVE InResult(m)
    BY <1>6, <2>3
  <2> QED
    BY <1>1, <1>2, <2>1, <2>2, <2>3 DEF InResult
<1>12. \A j \in 1..l : \A i \in 1..n - 1 : \A u \in 1..Len(result'[i].msgs) : result'[i].msgs[u] # s[j]
  <2> TAKE j \in 1..l
  <2> TAKE i \in 1..n - 1
  <2> TAKE u \in 1..Len(result'[i].msgs)
  <2>1. i + 1 \in 1..n /\ i + 1 # 1 /\ 1 \in 1..n /\ result'[i] = result[i + 1]
    BY <1>2
  <2> QED
    BY <1>1, <1>3, <1>4, <2>1 DEF ResultDistinct
<1>13. ResultDistinct'
  <2> SUFFICES ASSUME NEW i \in 1..n - 1, NEW h \in 1..n - 1,
                      NEW j \in 1..Len(result'[i].msgs), NEW u \in 1..Len(result'[h].msgs),
                      result'[i].msgs[j] = result'[h].msgs[u]
               PROVE  i = h /\ j = u
    BY <1>2 DEF ResultDistinct
  <2>1. /\ i + 1 \in 1..n /\ result'[i] = result[i + 1]
        /\ h + 1 \in 1..n /\ result'[h] = result[h + 1]
    BY <1>2
  <2>2. i + 1 = h + 1 /\ j = u
    BY <1>1, <2>1 DEF ResultDistinct
  <2> QED
    BY <2>2
<1>14. ASSUME NEW j \in 1..l, NEW m, m = s[j] PROVE ~InResult(m)'
  BY <1>2, <1>12, <1>14 DEF InResult
<1>15. Apart'
  <2> SUFFICES ASSUME NEW m \in Msgs
               PROVE  /\ m \in server => ~InResult(m)' /\ ~InQ(m)' /\ m \notin held
                      /\ InResult(m)' => ~InQ(m)' /\ m \notin held
                      /\ InQ(m)' => m \notin held
                      /\ m \in server \/ InResult(m)' \/ InQ(m)' \/ m \in held
    BY DEF Apart
  <2>1. CASE \E j \in 1..l : s[j] = m
    BY <1>10, <1>11, <1>14, <2>1 DEF Apart
  <2>2. CASE ~\E j \in 1..l : s[j] = m
    BY <1>10, <1>11, <2>2 DEF Apart
  <2> QED
    BY <2>1, <2>2
<1> QED
  BY <1>2, <1>5, <1>9, <1>13, <1>15

\* Steps that leave the fetch alone.
LEMMA FetchQuiet ==
    ASSUME FetchIInv, UNCHANGED <<fetchVars, q, waitc, server, held>> PROVE FetchIInv'
<1>1. QDistinct' /\ ResultDistinct' /\ Apart'
  BY PlacesSame DEF fetchVars
<1>2. FetchTypeOK' /\ FetchState'
  BY DEF fetchVars, FetchIInv, FetchTypeOK, FetchState
<1> QED
  BY <1>1, <1>2 DEF FetchIInv

\* Receive, with the lock: a fetch starts only if none goes on.
LEMMA StepReceiveTop ==
    ASSUME IInv, NEW r \in Receivers, ReceiveTop(r) PROVE IInv'
<1> USE DEF IInv
<1>1. UNCHANGED <<server, result, gerr, call, resultClosed>>
  BY DEF ReceiveTop, StartFetch, fetchVars, driverVars
<1>2. \/ waitc = FALSE /\ waitc' = TRUE /\ fpc' = "start"
      \/ UNCHANGED <<waitc, fpc>>
  BY DEF ReceiveTop, StartFetch, fetchVars, MustPrefetch, MayPrefetch
<1>3. FetchState'
  BY <1>1, <1>2 DEF FetchIInv, FetchState
<1>4. /\ q' \in Seq(Msgs) /\ held' \subseteq Msgs /\ held \subseteq held'
      /\ QDistinct' /\ ResultDistinct' /\ Apart'
  <2>1. CASE q # <<>>
    <3>1. q' = Tail(q) /\ held' = held \cup {Head(q)}
      BY <2>1 DEF ReceiveTop
    <3> QED
      BY <1>1, <2>1, <3>1, GiveHead
  <2>2. CASE q = <<>>
    <3>1. UNCHANGED <<q, held>>
      BY <2>2 DEF ReceiveTop
    <3> QED
      BY <1>1, <3>1, PlacesSame DEF FetchIInv, FetchTypeOK
  <2> QED
    BY <2>1, <2>2
<1>5. FetchTypeOK'
  BY <1>1, <1>2, <1>4 DEF FetchIInv, FetchTypeOK
<1>6. AckIInv'
  BY <1>4, AckQuiet DEF ReceiveTop, ackVars, shutVars, driverVars
<1> QED
  BY <1>3, <1>4, <1>5, <1>6 DEF FetchIInv

\* The messages that ReceiveBatch returns are different ones of the server.
LEMMA PicksAreSeqs ==
    ASSUME NEW S, NEW n, NEW s \in Picks(S, n)
    PROVE  s \in Seq(S) /\ \A i, j \in 1..Len(s) : s[i] = s[j] => i = j
<1>1. PICK k \in 0..n : s \in [1..k -> S] /\ \A i, j \in 1..k : s[i] = s[j] => i = j
  BY DEF Picks
<1>2. k \in Nat
  BY <1>1
<1>3. s \in Seq(S)
  BY <1>1, <1>2, SeqDef
<1>4. Len(s) = k
  BY <1>1, <1>2, <1>3
<1> QED
  BY <1>1, <1>3, <1>4

\* The goroutines of getNextBatch.
LEMMA StepCall ==
    ASSUME FetchIInv, NEW c \in Calls, CallEnters(c) \/ CallInvokes(c) \/ CallReturns(c)
    PROVE  FetchIInv'
<1> USE DEF FetchIInv
<1>1. /\ call[c] \notin {"none", "done"} /\ UNCHANGED <<q, held, waitc, fpc, resultClosed>>
      /\ \E x \in {"calling", "driver", "backoff", "done"} : call' = [call EXCEPT ![c] = x]
      /\ gerr' \in Errs
  BY DEF CallEnters, CallInvokes, CallReturns, CallFails, fields, FetchTypeOK, Errs
<1>2. FetchState' /\ call' \in [Calls -> CallStates]
  BY <1>1 DEF FetchState, FetchTypeOK, CallStates
<1>3. CASE UNCHANGED <<server, result>>
  <2>1. QDistinct' /\ ResultDistinct' /\ Apart'
    BY <1>1, <1>3, PlacesSame
  <2> QED
    BY <1>1, <1>2, <1>3, <2>1 DEF FetchTypeOK
<1>4. ASSUME NEW s \in Picks(server, size[c]),
             server' = server \ {s[i] : i \in 1..Len(s)},
             result' = Append(result, [msgs |-> s, err |-> Nil])
      PROVE  FetchIInv'
  <2>1. s \in Seq(server) /\ \A i, j \in 1..Len(s) : s[i] = s[j] => i = j
    BY PicksAreSeqs
  <2>2. /\ server' \subseteq Msgs /\ result' \in Seq(Batches)
        /\ QDistinct' /\ ResultDistinct' /\ Apart'
    BY <1>1, <1>4, <2>1, SendResult DEF Errs
  <2> QED
    BY <1>1, <1>2, <2>2 DEF FetchTypeOK
<1> QED
  BY <1>3, <1>4 DEF CallEnters, CallInvokes, CallReturns, CallFails, driverVars

\* getNextBatch starts its calls, and closes the channel when all have ended.
LEMMA StepGroup == ASSUME FetchIInv, FetchStart \/ GroupWait PROVE FetchIInv'
<1> USE DEF FetchIInv
<1>1. CASE FetchStart
  <2>1. UNCHANGED <<q, held, server, result, gerr, resultClosed, waitc>>
    BY <1>1 DEF FetchStart, fields, driverVars
  <2>2. FetchTypeOK' /\ FetchState'
    BY <1>1, <2>1 DEF FetchStart, FetchTypeOK, FetchState, CallStates
  <2> QED
    BY <2>1, <2>2, PlacesSame
<1>2. CASE GroupWait
  <2>1. /\ UNCHANGED <<q, held, server, gerr, call, waitc, fpc>> /\ resultClosed' = TRUE
        /\ fpc # "start" /\ waitc /\ \A c \in Calls : call[c] = "done"
    BY <1>2 DEF GroupWait, fields, driverVars
  <2>2. FetchState'
    BY <2>1 DEF FetchState
  <2>3. /\ server' \subseteq Msgs /\ result' \in Seq(Batches)
        /\ QDistinct' /\ ResultDistinct' /\ Apart'
    <3>1. CASE gerr = Nil
      <4>1. result' = result
        BY <1>2, <3>1 DEF GroupWait
      <4> QED
        BY <2>1, <4>1, PlacesSame DEF FetchTypeOK
    <3>2. CASE gerr # Nil
      <4>1. result' = Append(result, [msgs |-> <<>>, err |-> gerr])
        BY <1>2, <3>2 DEF GroupWait
      <4>2. <<>> \in Seq(server) /\ Len(<<>>) = 0 /\ gerr \in Errs
        BY EmptySeq DEF FetchTypeOK
      <4>3. server' = server \ {<<>>[i] : i \in 1..Len(<<>>)}
        BY <2>1, <4>2
      <4>4. \A i, j \in 1..Len(<<>>) : <<>>[i] = <<>>[j] => i = j
        BY <4>2
      <4> QED
        BY <2>1, <4>1, <4>2, <4>3, <4>4, SendResult
    <3> QED
      BY <3>1, <3>2
  <2> QED
    BY <2>1, <2>2, <2>3 DEF FetchTypeOK
<1> QED
  BY <1>1, <1>2

\* The fetching goroutine collects, announces and ends.
LEMMA StepFetch ==
    ASSUME FetchIInv, Collect \/ FetchEnd \/ \E r \in Receivers : Notify(r) PROVE FetchIInv'
<1> USE DEF FetchIInv
<1>1. CASE Collect
  <2>1. /\ result # <<>> /\ result' = Tail(result) /\ q' = q \o Head(result).msgs
        /\ fpc = "collect" /\ fpc' \in {"notify", "collect"}
        /\ UNCHANGED <<waitc, held, call, gerr, resultClosed, server>>
    BY <1>1 DEF Collect, driverVars
  <2>2. /\ q' \in Seq(Msgs) /\ result' \in Seq(Batches)
        /\ QDistinct' /\ ResultDistinct' /\ Apart'
    BY <2>1, MoveResult
  <2>3. FetchTypeOK' /\ FetchState'
    BY <2>1, <2>2 DEF FetchTypeOK, FetchState
  <2> QED
    BY <2>2, <2>3
<1>2. CASE FetchEnd
  <2>1. UNCHANGED <<q, held, server, result>>
    BY <1>2 DEF FetchEnd, driverVars
  <2>2. FetchTypeOK' /\ FetchState'
    BY <1>2 DEF FetchEnd, driverVars, FetchTypeOK, FetchState, Errs, CallStates
  <2> QED
    BY <2>1, <2>2, PlacesSame
<1>3. ASSUME NEW r \in Receivers, Notify(r) PROVE FetchIInv'
  <2>1. UNCHANGED <<q, held, server, result>>
    BY <1>3 DEF Notify, fields, driverVars
  <2>2. FetchTypeOK' /\ FetchState'
    BY <1>3 DEF Notify, fields, driverVars, FetchTypeOK, FetchState
  <2> QED
    BY <2>1, <2>2, PlacesSame
<1> QED
  BY <1>1, <1>2, <1>3

-----------------------------------------------------------------------------
(* All steps *)

\* The invariant holds at the start.
LEMMA InitIInv == SubscriptionInit => IInv
<1> SUFFICES ASSUME SubscriptionInit PROVE IInv
  OBVIOUS
<1> USE DEF SubscriptionInit
<1>1. AckTypeOK
  BY DEF AckTypeOK, CallStates
<1>2. OnlyVerdicts /\ OneBatch /\ NoneLost /\ SentByDone /\ FlushedEmpty
  BY DEF OnlyVerdicts, OneBatch, NoneLost, SentByDone, FlushedEmpty, Kinds
<1>3. FetchTypeOK
  BY EmptySeq DEF FetchTypeOK, Errs, CallStates
<1>4. QDistinct /\ ResultDistinct
  BY DEF QDistinct, ResultDistinct
<1>5. Apart
  BY DEF Apart, InQ, InResult
<1>6. FetchState
  BY DEF FetchState
<1> QED
  BY <1>1, <1>2, <1>3, <1>4, <1>5, <1>6 DEF IInv, AckIInv, FetchIInv

\* Each step is one of the acks and leaves the fetch alone, or the other way
\* round; only Receive touches both.
LEMMA NextIInv == IInv /\ [SubscriptionNext]_svars => IInv'
<1> SUFFICES ASSUME IInv, [SubscriptionNext]_svars PROVE IInv'
  OBVIOUS
<1>a. AckIInv /\ FetchIInv /\ held \subseteq Msgs
  BY DEF IInv, AckIInv, AckTypeOK
<1>1. ASSUME UNCHANGED <<ackVars, flusher, settled, failed, held>>, FetchIInv' PROVE IInv'
  BY <1>a, <1>1, AckQuiet DEF ackVars, IInv
<1>2. ASSUME UNCHANGED <<fetchVars, q, waitc, server, held>>, AckIInv' PROVE IInv'
  BY <1>a, <1>2, FetchQuiet DEF IInv
<1>3. ASSUME UNCHANGED <<fetchVars, q, waitc, server, held, ackVars, flusher, settled, failed>>
      PROVE  IInv'
  BY <1>a, <1>1, <1>3, FetchQuiet
<1>4. ASSUME NEW r \in Receivers, ReceiveCall(r) \/ ReceiveError(r) \/ ReceiveCtxDone(r)
      PROVE  IInv'
  BY <1>3, <1>4 DEF ReceiveCall, ReceiveError, ReceiveCtxDone, fields, shutVars, driverVars
<1>5. ASSUME NEW r \in Receivers, ReceiveTop(r) PROVE IInv'
  BY <1>5, StepReceiveTop
<1>6. ASSUME NEW r \in Receivers, Notify(r) PROVE IInv'
  <2>1. FetchIInv'
    BY <1>a, <1>6, StepFetch
  <2>2. UNCHANGED <<ackVars, flusher, settled, failed, held>>
    BY <1>6 DEF Notify, shutVars, driverVars
  <2> QED
    BY <1>1, <2>1, <2>2
<1>7. CASE FetchStart \/ GroupWait \/ Collect \/ FetchEnd
  <2>1. FetchIInv'
    BY <1>a, <1>7, StepGroup, StepFetch
  <2>2. UNCHANGED <<ackVars, flusher, settled, failed, held>>
    BY <1>7 DEF FetchStart, GroupWait, Collect, FetchEnd, shutVars, driverVars
  <2> QED
    BY <1>1, <2>1, <2>2
<1>8. ASSUME NEW c \in Calls, CallEnters(c) \/ CallInvokes(c) \/ CallReturns(c) PROVE IInv'
  <2>1. FetchIInv'
    BY <1>a, <1>8, StepCall
  <2>2. UNCHANGED <<ackVars, flusher, settled, failed, held>>
    BY <1>8 DEF CallEnters, CallInvokes, CallReturns, shutVars, driverVars
  <2> QED
    BY <1>1, <2>1, <2>2
<1>9. ASSUME NEW m \in Msgs, NEW k \in Kinds, Acknowledge(m, k) PROVE IInv'
  <2>1. AckIInv'
    BY <1>a, <1>9, StepAcknowledge
  <2>2. UNCHANGED <<fetchVars, q, waitc, server, held>>
    BY <1>9 DEF Acknowledge, fields, driverVars
  <2> QED
    BY <1>2, <2>1, <2>2
<1>10. ASSUME NEW h \in AckHandlers,
              \/ HandlerStart(h) \/ HandlerEnd(h)
              \/ \E k \in Kinds : SendEnters(h, k) \/ SendInvokes(h, k) \/ SendReturns(h, k)
       PROVE  IInv'
  <2>1. AckIInv'
    BY <1>a, <1>10, StepHandlerStart, StepHandlerEnd, StepSend
  <2>2. UNCHANGED <<fetchVars, q, waitc, server, held>>
    BY <1>10 DEF HandlerStart, HandlerEnd, SendEnters, SendInvokes, SendReturns, fields,
                 driverVars
  <2> QED
    BY <1>2, <2>1, <2>2
<1>11. ASSUME NEW s \in Closers, ShutdownCall(s) \/ FlushBegin(s) \/ FlushEnd(s) PROVE IInv'
  <2>1. AckIInv'
    BY <1>a, <1>11, StepFlush
  <2>2. UNCHANGED <<fetchVars, q, waitc, server, held>>
    BY <1>11 DEF ShutdownCall, FlushBegin, FlushEnd, fields, driverVars
  <2> QED
    BY <1>2, <2>1, <2>2
<1>12. ASSUME NEW s \in Closers, ShutdownCancel(s) \/ ShutdownClose(s) \/ ShutdownReport(s)
       PROVE  IInv'
  BY <1>3, <1>12 DEF ShutdownCancel, ShutdownClose, ShutdownReport, fields, driverVars
<1>13. CASE UNCHANGED svars
  BY <1>3, <1>13 DEF svars, fields, shutVars, driverVars
<1> QED
  BY <1>4, <1>5, <1>6, <1>7, <1>8, <1>9, <1>10, <1>11, <1>12, <1>13
     DEF SubscriptionNext, ReceiveStep, ShutdownStep

-----------------------------------------------------------------------------
(* The theorems *)

\* The inductive invariant holds in every reachable state.
THEOREM Invariance == SubscriptionSpec => []IInv
  BY InitIInv, NextIInv, PTL DEF SubscriptionSpec

\* The driver is told one verdict on a message, the one the application gave.
THEOREM VerdictsAreOne == SubscriptionSpec => []OneVerdict
<1>1. IInv => OneVerdict
  <2> SUFFICES ASSUME IInv PROVE OneVerdict
    OBVIOUS
  <2> USE DEF IInv, AckIInv
  <2>1. ASSUME NEW v \in settled PROVE v[1] \in held /\ v[2] = verdict[v[1]]
    <3>1. v \in Msgs \X Kinds /\ v = <<v[1], v[2]>> /\ v[1] \in Msgs /\ v[2] \in Kinds
      BY DEF AckTypeOK
    <3>2. verdict[v[1]] = v[2]
      BY <3>1 DEF OnlyVerdicts
    <3> QED
      BY <3>1, <3>2 DEF OnlyVerdicts, Kinds
  <2> QED
    BY <2>1 DEF OneVerdict, OneBatch
<1> QED
  BY <1>1, Invariance, PTL

\* When ackBatcher.Shutdown has returned, every ack and nack that got into the
\* batcher has been sent or has failed for good.
THEOREM AcksAreFlushed == SubscriptionSpec => []AcksFlushed
<1>1. IInv => AcksFlushed
  BY DEF IInv, AckIInv, FlushedEmpty, NoneLost, AcksFlushed
<1> QED
  BY <1>1, Invariance, PTL

\* A message is in exactly one place, from the server to the caller of Receive.
THEOREM PlacesAreOne == SubscriptionSpec => []OnePlace
<1>1. ASSUME IInv PROVE OnePlace
  <2> SUFFICES ASSUME NEW m \in Msgs PROVE \E x : Places(m) = {x}
    BY FS_Singleton DEF OnePlace
  <2> DEFINE R(i) == {<<"result", i, j>> : j \in {n \in DOMAIN result[i].msgs : result[i].msgs[n] = m}}
             Q == {<<"q", i>> : i \in {n \in DOMAIN q : q[n] = m}}
             A == {<<"server">> : x \in server \cap {m}}
             B == UNION {R(i) : i \in DOMAIN result}
             C == {<<"held">> : x \in held \cap {m}}
  <2>1. Apart /\ QDistinct /\ ResultDistinct /\ FetchTypeOK
    BY <1>1 DEF IInv, FetchIInv
  <2>2. DOMAIN q = 1..Len(q) /\ DOMAIN result = 1..Len(result)
    BY <2>1 DEF FetchTypeOK
  <2>3. \A i \in 1..Len(result) : DOMAIN result[i].msgs = 1..Len(result[i].msgs)
    <3> TAKE i \in 1..Len(result)
    <3>1. result[i] \in Batches
      BY <2>1 DEF FetchTypeOK
    <3> QED
      BY <3>1 DEF Batches
  <2>4. Places(m) = A \cup B \cup Q \cup C
    BY DEF Places
  <2>5. ~InQ(m) => Q = {}
    BY <2>2 DEF InQ
  <2>6. ~InResult(m) => B = {}
    BY <2>2, <2>3 DEF InResult
  <2>7. m \notin server => A = {}
    OBVIOUS
  <2>8. m \notin held => C = {}
    OBVIOUS
  <2>9. m \in server => A = {<<"server">>}
    OBVIOUS
  <2>10. m \in held => C = {<<"held">>}
    OBVIOUS
  <2>11. InQ(m) => \E x : Q = {x}
    <3> SUFFICES ASSUME NEW i \in 1..Len(q), q[i] = m PROVE Q = {<<"q", i>>}
      BY DEF InQ
    <3>1. \A n \in 1..Len(q) : q[n] = m <=> n = i
      BY <2>1 DEF QDistinct
    <3> QED
      BY <2>2, <3>1
  <2>12. InResult(m) => \E x : B = {x}
    <3> SUFFICES ASSUME NEW i \in 1..Len(result), NEW j \in 1..Len(result[i].msgs),
                        result[i].msgs[j] = m
                 PROVE  B = {<<"result", i, j>>}
      BY DEF InResult
    <3>1. \A k \in 1..Len(result) : \A l \in 1..Len(result[k].msgs) :
             result[k].msgs[l] = m <=> k = i /\ l = j
      BY <2>1 DEF ResultDistinct
    <3>2. R(i) = {<<"result", i, j>>}
      BY <2>3, <3>1
    <3>3. \A k \in 1..Len(result) : k # i => R(k) = {}
      BY <2>3, <3>1
    <3> HIDE DEF R
    <3> QED
      BY <2>2, <3>2, <3>3
  <2> HIDE DEF R, Q, A, B, C
  <2>13. CASE m \in server
    <3>1. A = {<<"server">>} /\ B = {} /\ Q = {} /\ C = {}
      BY <2>1, <2>5, <2>6, <2>8, <2>9, <2>13 DEF Apart
    <3> QED
      BY <2>4, <3>1
  <2>14. CASE InResult(m)
    <3>1. PICK x : B = {x}
      BY <2>12, <2>14
    <3>2. A = {} /\ Q = {} /\ C = {}
      BY <2>1, <2>5, <2>7, <2>8, <2>14 DEF Apart
    <3> QED
      BY <2>4, <3>1, <3>2
  <2>15. CASE InQ(m)
    <3>1. PICK x : Q = {x}
      BY <2>11, <2>15
    <3>2. A = {} /\ B = {} /\ C = {}
      BY <2>1, <2>6, <2>7, <2>8, <2>15 DEF Apart
    <3> QED
      BY <2>4, <3>1, <3>2
  <2>16. CASE m \in held
    <3>1. A = {} /\ B = {} /\ Q = {} /\ C = {<<"held">>}
      BY <2>1, <2>5, <2>6, <2>7, <2>10, <2>16 DEF Apart
    <3> QED
      BY <2>4, <3>1
  <2> QED
    BY <2>1, <2>13, <2>14, <2>15, <2>16 DEF Apart
<1> QED
  BY <1>1, Invariance, PTL

\* No call of getNextBatch is left to send when its channel is closed (a send
\* on a closed channel panics), and there is one fetch at a time: s.waitc is
\* not replaced while somebody may wait for it.
ClosedChannelIsQuiet ==
    /\ resultClosed => \A c \in Calls : call[c] = "done"
    /\ fpc # "none" <=> waitc

\* The channel a fetch sends on is closed only when no call of the driver can
\* send on it any more (pubsub.go, the goroutine that waits for the errgroup).
THEOREM NoSendOnClosed == SubscriptionSpec => []ClosedChannelIsQuiet
<1>1. IInv => ClosedChannelIsQuiet
  BY DEF IInv, FetchIInv, FetchState, ClosedChannelIsQuiet
<1> QED
  BY <1>1, Invariance, PTL

=============================================================================
