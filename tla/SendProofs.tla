----------------------------- MODULE SendProofs -----------------------------
(***************************************************************************)
(* Proofs about SendBatch of the drivers of pubsub.                         *)
(*                                                                         *)
(* First RabbitTopic, for any number of calls of SendBatch, any size of     *)
(* their batches and any number of channels and faults: as long as no call  *)
(* has left its reader behind, a call that returns no error has had all its *)
(* messages routed, and none publishes on a nil channel.                    *)
(*                                                                         *)
(* Then Sends, for the other drivers and any size of the batch.             *)
(***************************************************************************)
EXTENDS RabbitTopic, Sends, FiniteSetTheorems, TLAPS

-----------------------------------------------------------------------------
(* The inductive invariant of RabbitTopic *)

Event == {"ack", "nack", "return"}

TypeOK ==
    /\ mu \in Calls \cup {None}
    /\ opened \in 0..MaxSendChannels /\ tch \in 0..opened /\ notify \in 0..opened
    /\ closedChs \subseteq 1..opened
    /\ events \in [Channels -> Seq(Event)]
    /\ pc \in [Calls -> {"idle", "lock", "start", "publish", "wait", "returned", "panicked"}]
    /\ chOf \in [Calls -> 0..MaxSendChannels]
    /\ next \in [Calls -> 1..Size + 1]
    /\ reader \in [Calls -> {"none", "running", "done", "gone"}]
    /\ nAcks \in [Calls -> 0..Size]
    /\ errs \in [Calls -> BOOLEAN] /\ perr \in [Calls -> BOOLEAN]
    /\ result \in [Calls -> {"ok", "error", None}]
    /\ \A c \in Calls : pc[c] \in {"idle", "lock", "start", "publish"} => next[c] <= Size

\* The places of the confirmations in e.
Confirmations(e) == {k \in DOMAIN e : e[k] # "return"}

\* A call between Lock and Unlock holds t.mu; until it starts its reader it has
\* done nothing.
Owner == \A c \in Calls :
    /\ pc[c] \in {"lock", "start", "publish", "wait"} => mu = c
    /\ pc[c] \in {"idle", "lock", "start"}
         => reader[c] = "none" /\ nAcks[c] = 0 /\ next[c] = 1 /\ ~errs[c]

\* The channel that a call publishes on is the one that its reader listens to;
\* a reader that has ended early has closed it.
SameChannel == \A c \in Calls :
    /\ pc[c] = "start" => tch # 0 /\ tch = notify
    /\ pc[c] \in {"publish", "wait"} => notify # 0 /\ chOf[c] = notify /\ reader[c] \in {"running", "done"}
    /\ pc[c] = "publish" /\ reader[c] = "done" => notify \in closedChs
    /\ reader[c] = "running" => pc[c] \in {"publish", "wait"} /\ tch = notify
    /\ pc[c] # "panicked"

\* No event of an earlier call is left on a channel that is still used.
Clean ==
    /\ (\A c \in Calls : reader[c] # "running") => tch = 0 \/ notify \in closedChs \/ (tch = notify /\ events[notify] = << >>)
    /\ \A k \in Channels : k > opened => events[k] = << >>

\* One confirmation is to come for each message published, after what else is
\* said of the message; those that come before any error are of messages routed.
Counted == \A c \in Calls : reader[c] = "running" /\ notify \notin closedChs =>
    /\ nAcks[c] + Cardinality(Confirmations(events[notify])) = next[c] - 1
    /\ events[notify] # << >> => events[notify][Len(events[notify])] # "return"
    /\ ~errs[c] => \A k \in 1..Len(events[notify]) :
                     (\A j \in 1..k : events[notify][j] = "ack") => <<c, nAcks[c] + k>> \in accepted

\* What a reader has counted without an error is routed, and it ends without an
\* error only when it has counted all.
AckedSent == \A c \in Calls :
    /\ ~errs[c] => \A i \in 1..nAcks[c] : <<c, i>> \in accepted
    /\ reader[c] = "done" /\ ~errs[c] => nAcks[c] = Size
    /\ result[c] = "ok" => \A i \in 1..Size : <<c, i>> \in accepted

InStep == Owner /\ SameChannel /\ Clean /\ Counted /\ AckedSent
IInv == TypeOK /\ (abandoned = {} => InStep)

\* Batches are not empty, and a call is not the absence of one.
Instances == Size \in Nat \ {0} /\ BatchSize \in Nat \ {0} /\ MaxSendChannels \in Nat /\ None \notin Calls

-----------------------------------------------------------------------------
(* Counting confirmations *)

\* The places of the confirmations in a sequence of events are finitely many,
\* and there are none in the empty one.
LEMMA ConfirmationsFinite ==
    ASSUME NEW e \in Seq(Event)
    PROVE  /\ IsFiniteSet(Confirmations(e)) /\ Cardinality(Confirmations(e)) \in Nat
           /\ e = << >> => Cardinality(Confirmations(e)) = 0
           /\ Cardinality(Confirmations(e)) = 0 => Confirmations(e) = {}
<1>1. IsFiniteSet(1..Len(e)) /\ DOMAIN e = 1..Len(e)
  BY FS_Interval
<1>2. IsFiniteSet(Confirmations(e))
  BY <1>1, FS_Subset DEF Confirmations
<1>3. e = << >> => Confirmations(e) = {}
  BY DEF Confirmations
<1> QED
  BY <1>2, <1>3, FS_CardinalityType, FS_EmptySet

\* Events that end with a confirmation, the one confirmation among them.
LEMMA LastConfirms ==
    ASSUME NEW e \in Seq(Event), NEW o \in Seq(Event), NEW m \in {1, 2}, Len(o) = m,
           o[m] # "return", m = 2 => o[1] = "return"
    PROVE  /\ e \o o \in Seq(Event) /\ e \o o # << >>
           /\ Len(e \o o) = Len(e) + Len(o)
           /\ (e \o o)[Len(e \o o)] # "return"
           /\ Cardinality(Confirmations(e \o o)) = Cardinality(Confirmations(e)) + 1
<1>1. PICK n \in Nat : n = Len(e)
  OBVIOUS
<1>2. PICK g \in Seq(Event) : g = e \o o
  <2>1. e \o o \in Seq(Event)
    OBVIOUS
  <2> QED
    BY <2>1
<1>3. Len(g) = n + m /\ DOMAIN g = 1..(n + m) /\ DOMAIN e = 1..n
  BY <1>1, <1>2
<1>4. \A k \in 1..n : g[k] = e[k]
  BY <1>1, <1>2
<1>5. g[n + m] # "return"
  BY <1>1, <1>2
<1>6. m = 2 => g[n + 1] = "return"
  <2>1. \A k \in 1..Len(o) : (e \o o)[Len(e) + k] = o[k]
    OBVIOUS
  <2>2. m = 2 => 1 \in 1..Len(o)
    OBVIOUS
  <2> QED
    BY <1>1, <1>2, <2>1, <2>2
<1>7. Confirmations(g) = Confirmations(e) \cup {n + m}
  <2>1. \A k \in 1..(n + m) : k \in 1..n \/ k = n + m \/ (m = 2 /\ k = n + 1)
    OBVIOUS
  <2>2. n + m \in 1..(n + m) /\ 1..n \subseteq 1..(n + m)
    OBVIOUS
  <2>3. ASSUME NEW k \in Confirmations(g) PROVE k \in Confirmations(e) \cup {n + m}
    BY <1>3, <1>4, <1>6, <2>1, <2>3 DEF Confirmations
  <2>4. ASSUME NEW k \in Confirmations(e) \cup {n + m} PROVE k \in Confirmations(g)
    BY <1>3, <1>4, <1>5, <2>2, <2>4 DEF Confirmations
  <2> QED
    BY <2>3, <2>4
<1>8. n + m \notin Confirmations(e)
  BY <1>3 DEF Confirmations
<1>9. Cardinality(Confirmations(g)) = Cardinality(Confirmations(e)) + 1
  BY <1>7, <1>8, ConfirmationsFinite, FS_AddElement
<1>10. g # << >>
  BY <1>3
<1> QED
  BY <1>1, <1>2, <1>3, <1>5, <1>9, <1>10

\* What the broker may say of a message ends with the one confirmation of it.
LEMMA OutcomeConfirms ==
    ASSUME NEW e \in Seq(Event), NEW o \in {<<"ack">>, <<"return", "ack">>, <<"nack">>}
    PROVE  /\ e \o o \in Seq(Event) /\ e \o o # << >>
           /\ Len(e \o o) = Len(e) + Len(o)
           /\ (e \o o)[Len(e \o o)] # "return"
           /\ Cardinality(Confirmations(e \o o)) = Cardinality(Confirmations(e)) + 1
<1>1. CASE o \in {<<"ack">>, <<"nack">>}
  <2>1. o \in Seq(Event) /\ Len(o) = 1 /\ o[1] # "return"
    BY <1>1 DEF Event
  <2> QED
    BY <2>1, LastConfirms
<1>2. CASE o = <<"return", "ack">>
  <2>1. o \in Seq(Event) /\ Len(o) = 2 /\ o[2] # "return" /\ o[1] = "return"
    BY <1>2 DEF Event
  <2> QED
    BY <2>1, LastConfirms
<1> QED
  BY <1>1, <1>2

\* To read an event is to have one confirmation less to read, if it was one.
LEMMA ReadConfirms ==
    ASSUME NEW e \in Seq(Event), e # << >>
    PROVE  Cardinality(Confirmations(e)) =
             Cardinality(Confirmations(Tail(e))) + (IF Head(e) = "return" THEN 0 ELSE 1)
<1>1. PICK n \in Nat : Len(e) = n + 1 /\ DOMAIN e = 1..(n + 1) /\ Head(e) = e[1]
  <2>1. Len(e) \in Nat \ {0} /\ DOMAIN e = 1..Len(e) /\ Head(e) = e[1]
    OBVIOUS
  <2>2. Len(e) - 1 \in Nat /\ Len(e) = (Len(e) - 1) + 1
    BY <2>1
  <2> QED
    BY <2>1, <2>2
<1>2. /\ Tail(e) \in Seq(Event) /\ DOMAIN Tail(e) = 1..n
      /\ \A k \in 1..n : Tail(e)[k] = e[k + 1]
  BY <1>1
<1> DEFINE S == Confirmations(Tail(e))
<1> DEFINE T == Confirmations(e) \ {1}
<1> DEFINE f == [k \in S |-> k + 1]
<1>3. f \in Bijection(S, T)
  <2>1. S \subseteq 1..n /\ T \subseteq 2..(n + 1)
    BY <1>1, <1>2 DEF Confirmations
  <2>2. \A k \in S : k + 1 \in T
    <3> TAKE k \in S
    <3>1. k \in 1..n /\ e[k + 1] # "return"
      BY <1>2 DEF Confirmations
    <3>2. k + 1 \in 1..(n + 1) /\ k + 1 # 1
      BY <3>1
    <3> QED
      BY <1>1, <3>1, <3>2 DEF Confirmations
  <2>3. \A t \in T : t - 1 \in S /\ (t - 1) + 1 = t
    <3> TAKE t \in T
    <3>1. t \in 2..(n + 1) /\ e[t] # "return"
      BY <2>1 DEF Confirmations
    <3>2. t - 1 \in 1..n /\ (t - 1) + 1 = t
      BY <3>1
    <3> QED
      BY <1>2, <3>1, <3>2 DEF Confirmations
  <2>4. \A j, k \in S : j + 1 = k + 1 => j = k
    BY <2>1
  <2>5. f \in [S -> T]
    BY <2>2
  <2>6. f \in Injection(S, T)
    BY <2>4, <2>5 DEF Injection, IsInjective
  <2>7. \A t \in T : \E s \in S : f[s] = t
    <3> TAKE t \in T
    <3>1. t - 1 \in S /\ f[t - 1] = t
      BY <2>3
    <3> QED
      BY <3>1
  <2>8. f \in Surjection(S, T)
    BY <2>5, <2>7 DEF Surjection
  <2> QED
    BY <2>6, <2>8 DEF Bijection
<1>4. IsFiniteSet(S) /\ Cardinality(T) = Cardinality(S)
  BY <1>2, <1>3, ConfirmationsFinite, FS_Bijection DEF ExistsBijection
<1>5. /\ IsFiniteSet(Confirmations(e)) /\ Cardinality(Confirmations(e)) \in Nat
      /\ 1 \in Confirmations(e) <=> Head(e) # "return"
  BY <1>1, ConfirmationsFinite DEF Confirmations
<1>6. Cardinality(T) = IF 1 \in Confirmations(e) THEN Cardinality(Confirmations(e)) - 1
                                                 ELSE Cardinality(Confirmations(e))
  BY <1>5, FS_RemoveElement
<1> QED
  BY <1>4, <1>5, <1>6

\* Where all events are acks, each is a confirmation.
LEMMA AcksConfirm ==
    ASSUME NEW e \in Seq(Event), \A k \in 1..Len(e) : e[k] = "ack"
    PROVE  Cardinality(Confirmations(e)) = Len(e)
<1>1. Confirmations(e) = 1..Len(e)
  BY DEF Confirmations
<1> QED
  BY <1>1, FS_Interval

-----------------------------------------------------------------------------
(* The steps *)

\* A call that takes t.mu finds no reader at work.
LEMMA StepLock ==
    ASSUME Instances, IInv, NEW c \in Calls, Lock(c) PROVE IInv'
<1> USE DEF Instances, Lock, broker, readers
<1>1. TypeOK /\ (abandoned' = {} => abandoned = {} /\ InStep)
  BY DEF IInv
<1>2. TypeOK'
  BY <1>1 DEF TypeOK
<1>3. SUFFICES ASSUME abandoned' = {} PROVE InStep'
  BY <1>2 DEF IInv
<1>4. /\ abandoned = {} /\ Owner /\ SameChannel /\ Clean /\ Counted /\ AckedSent
  BY <1>1, <1>3 DEF InStep
<1>5. Owner'
  BY <1>1, <1>3, <1>4 DEF TypeOK, Owner, SameChannel
<1>6. SameChannel'
  BY <1>1, <1>3, <1>4 DEF TypeOK, Owner, SameChannel, Clean
<1>7. Clean'
  BY <1>1, <1>3, <1>4 DEF TypeOK, Owner, SameChannel, Clean
<1>8. Counted'
  BY <1>1, <1>3, <1>4 DEF TypeOK, Owner, SameChannel, Clean, Counted
<1>9. AckedSent'
  BY <1>1, <1>3, <1>4 DEF TypeOK, AckedSent
<1> QED
  BY <1>5, <1>6, <1>7, <1>8, <1>9 DEF InStep

\* A new channel has nothing to say.
LEMMA StepEstablish ==
    ASSUME Instances, IInv, NEW c \in Calls, Establish(c) PROVE IInv'
<1> USE DEF Instances, Establish, Channels, broker, readers
<1>1. TypeOK /\ (abandoned' = {} => abandoned = {} /\ InStep)
  BY DEF IInv
<1>2. TypeOK'
  BY <1>1 DEF TypeOK
<1>3. SUFFICES ASSUME abandoned' = {} PROVE InStep'
  BY <1>2 DEF IInv
<1>4. /\ abandoned = {} /\ Owner /\ SameChannel /\ Clean /\ Counted /\ AckedSent
  BY <1>1, <1>3 DEF InStep
<1>5. Owner'
  BY <1>1, <1>3, <1>4 DEF TypeOK, Owner, SameChannel
<1>6. SameChannel'
  <2>1. \A d \in Calls : reader[d] # "running" /\ (d # c => pc[d] \notin {"lock", "start", "publish", "wait"})
    BY <1>4 DEF Owner, SameChannel
  <2>2. pc'[c] = "start" /\ \A d \in Calls \ {c} : pc'[d] = pc[d]
    BY <1>1 DEF TypeOK
  <2>3. tch' # 0 /\ tch' = notify'
    BY <1>1 DEF TypeOK
  <2> QED
    BY <1>4, <2>1, <2>2, <2>3 DEF SameChannel
<1>7. Clean'
  BY <1>1, <1>3, <1>4 DEF TypeOK, Owner, SameChannel, Clean
<1>8. Counted'
  BY <1>4 DEF Owner, SameChannel, Counted
<1>9. AckedSent'
  BY <1>1, <1>3, <1>4 DEF TypeOK, AckedSent
<1> QED
  BY <1>5, <1>6, <1>7, <1>8, <1>9 DEF InStep

\* A call without a channel returns.
LEMMA StepEstablishFails ==
    ASSUME Instances, IInv, NEW c \in Calls, EstablishFails(c) PROVE IInv'
<1> USE DEF Instances, EstablishFails, Return, Fault, broker, readers
<1>1. TypeOK /\ (abandoned' = {} => abandoned = {} /\ InStep)
  BY DEF IInv
<1>2. TypeOK'
  BY <1>1 DEF TypeOK
<1>3. SUFFICES ASSUME abandoned' = {} PROVE InStep'
  BY <1>2 DEF IInv
<1>4. /\ abandoned = {} /\ Owner /\ SameChannel /\ Clean /\ Counted /\ AckedSent
  BY <1>1, <1>3 DEF InStep
<1>5. Owner'
  BY <1>1, <1>3, <1>4 DEF TypeOK, Owner, SameChannel
<1>6. SameChannel'
  BY <1>1, <1>3, <1>4 DEF TypeOK, Owner, SameChannel, Clean
<1>7. Clean'
  BY <1>1, <1>3, <1>4 DEF TypeOK, Owner, SameChannel, Clean
<1>8. Counted'
  BY <1>1, <1>3, <1>4 DEF TypeOK, Owner, SameChannel, Clean, Counted
<1>9. AckedSent'
  BY <1>1, <1>3, <1>4 DEF TypeOK, AckedSent
<1> QED
  BY <1>5, <1>6, <1>7, <1>8, <1>9 DEF InStep

\* The channel that is open is the one listened to, and all of it is read.
LEMMA StepEstablished ==
    ASSUME Instances, IInv, NEW c \in Calls, Established(c) PROVE IInv'
<1> USE DEF Instances, Established, broker, readers
<1>1. TypeOK /\ (abandoned' = {} => abandoned = {} /\ InStep)
  BY DEF IInv
<1>2. TypeOK'
  BY <1>1 DEF TypeOK
<1>3. SUFFICES ASSUME abandoned' = {} PROVE InStep'
  BY <1>2 DEF IInv
<1>4. /\ abandoned = {} /\ Owner /\ SameChannel /\ Clean /\ Counted /\ AckedSent
  BY <1>1, <1>3 DEF InStep
<1>5. Owner'
  BY <1>1, <1>3, <1>4 DEF TypeOK, Owner, SameChannel
<1>6. SameChannel'
  BY <1>1, <1>3, <1>4 DEF TypeOK, Owner, SameChannel, Clean
<1>7. Clean'
  BY <1>1, <1>3, <1>4 DEF TypeOK, Owner, SameChannel, Clean
<1>8. Counted'
  BY <1>1, <1>3, <1>4 DEF TypeOK, Owner, SameChannel, Clean, Counted
<1>9. AckedSent'
  BY <1>1, <1>3, <1>4 DEF TypeOK, AckedSent
<1> QED
  BY <1>5, <1>6, <1>7, <1>8, <1>9 DEF InStep

\* The reader starts with nothing published and nothing to read.
LEMMA StepStart ==
    ASSUME Instances, IInv, NEW c \in Calls, Start(c) PROVE IInv'
<1> USE DEF Instances, Start, broker, readers
<1>1. TypeOK /\ (abandoned' = {} => abandoned = {} /\ InStep)
  BY DEF IInv
<1>2. TypeOK'
  <2>1. tch \in 0..MaxSendChannels
    BY <1>1 DEF TypeOK
  <2>2. chOf' \in [Calls -> 0..MaxSendChannels]
    BY <1>1, <2>1 DEF TypeOK
  <2>3. \A d \in Calls : pc'[d] \in {"idle", "lock", "start", "publish"} => next'[d] <= Size
    BY <1>1 DEF TypeOK
  <2>4. /\ reader' \in [Calls -> {"none", "running", "done", "gone"}]
        /\ pc' \in [Calls -> {"idle", "lock", "start", "publish", "wait", "returned", "panicked"}]
    BY <1>1 DEF TypeOK
  <2> QED
    BY <1>1, <2>2, <2>3, <2>4 DEF TypeOK
<1>3. SUFFICES ASSUME abandoned' = {} PROVE InStep'
  BY <1>2 DEF IInv
<1>4. /\ abandoned = {} /\ Owner /\ SameChannel /\ Clean /\ Counted /\ AckedSent
  BY <1>1, <1>3 DEF InStep
<1>5. Owner'
  BY <1>1, <1>3, <1>4 DEF TypeOK, Owner, SameChannel
<1>6. SameChannel'
  BY <1>1, <1>3, <1>4 DEF TypeOK, Owner, SameChannel, Clean
<1>7. Clean'
  BY <1>1, <1>3, <1>4 DEF TypeOK, Owner, SameChannel, Clean
<1>8. Counted'
  <2>1. \A d \in Calls : reader[d] # "running"
    BY <1>4 DEF Owner, SameChannel
  <2>2. notify \in closedChs \/ events[notify] = << >>
    BY <1>4, <2>1 DEF SameChannel, Clean
  <2>3. nAcks[c] = 0 /\ next[c] = 1 /\ \A d \in Calls \ {c} : reader'[d] = reader[d]
    BY <1>1, <1>4 DEF TypeOK, Owner
  <2>4. << >> \in Seq(Event) /\ Len(<< >>) = 0
    OBVIOUS
  <2>5. Cardinality(Confirmations(<< >>)) = 0
    BY <2>4, ConfirmationsFinite
  <2>6. \A d \in Calls : reader'[d] = "running" => d = c
    BY <2>1, <2>3
  <2>7. nAcks[c] + 0 = next[c] - 1
    BY <2>3
  <2> QED
    BY <2>2, <2>4, <2>5, <2>6, <2>7 DEF Counted
<1>9. AckedSent'
  BY <1>1, <1>3, <1>4 DEF TypeOK, AckedSent
<1> QED
  BY <1>5, <1>6, <1>7, <1>8, <1>9 DEF InStep

\* A call that returns early leaves its reader behind, or has none.
LEMMA StepCallbackFails ==
    ASSUME Instances, IInv, NEW c \in Calls, RabbitCallbackFails(c) PROVE IInv'
<1> USE DEF Instances, RabbitCallbackFails, Return, Fault, broker, readers
<1>1. TypeOK /\ (abandoned' = {} => abandoned = {} /\ InStep)
  BY DEF IInv
<1>2. TypeOK'
  BY <1>1 DEF TypeOK
<1>3. SUFFICES ASSUME abandoned' = {} PROVE InStep'
  BY <1>2 DEF IInv
<1>4. /\ abandoned = {} /\ Owner /\ SameChannel /\ Clean /\ Counted /\ AckedSent
  BY <1>1, <1>3 DEF InStep
<1>5. Owner'
  BY <1>1, <1>3, <1>4 DEF TypeOK, Owner, SameChannel
<1>6. SameChannel'
  BY <1>1, <1>3, <1>4 DEF TypeOK, Owner, SameChannel, Clean
<1>7. Clean'
  BY <1>1, <1>3, <1>4 DEF TypeOK, Owner, SameChannel, Clean
<1>8. Counted'
  BY <1>1, <1>3, <1>4 DEF TypeOK, Owner, SameChannel, Clean, Counted
<1>9. AckedSent'
  BY <1>1, <1>3, <1>4 DEF TypeOK, AckedSent
<1> QED
  BY <1>5, <1>6, <1>7, <1>8, <1>9 DEF InStep

\* A message published is one more confirmation to come.
LEMMA StepPublish ==
    ASSUME Instances, IInv, NEW c \in Calls, Publish(c) PROVE IInv'
<1> USE DEF Instances, Publish, Fault, broker, readers
<1>1. TypeOK /\ (abandoned' = {} => abandoned = {} /\ InStep)
  BY DEF IInv
<1>2. TypeOK'
  <2>1. PICK o \in {<<"ack">>, <<"return", "ack">>, <<"nack">>} : events' = [events EXCEPT ![chOf[c]] = @ \o o]
    OBVIOUS
  <2>2. chOf[c] \in Channels /\ events[chOf[c]] \in Seq(Event)
    BY <1>1 DEF TypeOK, Channels
  <2>3. events[chOf[c]] \o o \in Seq(Event)
    BY <2>2, OutcomeConfirms
  <2>4. events' \in [Channels -> Seq(Event)]
    BY <1>1, <2>1, <2>3 DEF TypeOK
  <2>5. next[c] \in 1..Size /\ next[c] + 1 \in 1..Size + 1 /\ (next[c] # Size => next[c] + 1 <= Size)
    BY <1>1 DEF TypeOK
  <2>6. next' \in [Calls -> 1..Size + 1] /\ \A d \in Calls : pc'[d] \in {"idle", "lock", "start", "publish"} => next'[d] <= Size
    BY <1>1, <2>5 DEF TypeOK
  <2> QED
    BY <1>1, <2>4, <2>6 DEF TypeOK
<1>3. SUFFICES ASSUME abandoned' = {} PROVE InStep'
  BY <1>2 DEF IInv
<1>4. /\ abandoned = {} /\ Owner /\ SameChannel /\ Clean /\ Counted /\ AckedSent
  BY <1>1, <1>3 DEF InStep
<1>5. Owner'
  BY <1>1, <1>3, <1>4 DEF TypeOK, Owner, SameChannel
<1>6. SameChannel'
  BY <1>1, <1>3, <1>4 DEF TypeOK, Owner, SameChannel, Clean
<1>7. Clean'
  BY <1>1, <1>3, <1>4 DEF TypeOK, Owner, SameChannel, Clean
<1>8. Counted'
  <2>1. PICK o \in {<<"ack">>, <<"return", "ack">>, <<"nack">>} :
            /\ events' = [events EXCEPT ![chOf[c]] = @ \o o]
            /\ accepted' = IF o = <<"ack">> THEN accepted \union {<<c, next[c]>>} ELSE accepted
    OBVIOUS
  <2>2. SUFFICES ASSUME reader[c] = "running"
                 PROVE  /\ nAcks[c] + Cardinality(Confirmations(events'[notify])) = next'[c] - 1
                        /\ events'[notify] # << >> /\ events'[notify][Len(events'[notify])] # "return"
                        /\ ~errs[c] => \A k \in 1..Len(events'[notify]) :
                             (\A j \in 1..k : events'[notify][j] = "ack") => <<c, nAcks[c] + k>> \in accepted'
    BY <1>4 DEF Owner, SameChannel, Counted
  <2>3. notify \in Channels /\ chOf[c] = notify /\ notify \notin closedChs
    BY <1>1, <1>4 DEF TypeOK, SameChannel, Channels
  <2>4. PICK e \in Seq(Event) : e = events[notify]
    BY <1>1, <2>3 DEF TypeOK
  <2>5. events'[notify] = e \o o
    BY <1>1, <2>1, <2>3, <2>4 DEF TypeOK
  <2>6. PICK m \in Nat : m = Cardinality(Confirmations(e))
    BY ConfirmationsFinite
  <2>7. nAcks[c] \in Nat /\ next[c] \in Nat /\ next'[c] = next[c] + 1 /\ nAcks[c] + m = next[c] - 1
    BY <1>1, <1>4, <2>2, <2>3, <2>4, <2>6 DEF TypeOK, Counted
  <2>8. nAcks[c] + (m + 1) = next'[c] - 1
    <3>1. \A a, b, k \in Nat : a + k = b - 1 => a + (k + 1) = (b + 1) - 1
      OBVIOUS
    <3> QED
      BY <2>7, <3>1
  <2>9. /\ Cardinality(Confirmations(e \o o)) = m + 1 /\ e \o o # << >>
        /\ (e \o o)[Len(e \o o)] # "return" /\ Len(e \o o) = Len(e) + Len(o)
    BY <2>6, OutcomeConfirms
  <2>10. ASSUME ~errs[c], NEW k \in 1..Len(e \o o), \A j \in 1..k : (e \o o)[j] = "ack"
         PROVE  <<c, nAcks[c] + k>> \in accepted'
    <3>1. \A j \in 1..Len(e) : (e \o o)[j] = e[j]
      <4>1. CASE o = <<"ack">>
        BY <4>1
      <4>2. CASE o = <<"nack">>
        BY <4>2
      <4>3. CASE o = <<"return", "ack">>
        BY <4>3
      <4> QED
        BY <4>1, <4>2, <4>3
    <3>2. CASE k \in 1..Len(e)
      <4>1. \A j \in 1..k : e[j] = "ack"
        BY <2>10, <3>1, <3>2
      <4>2. <<c, nAcks[c] + k>> \in accepted
        BY <1>4, <2>2, <2>3, <2>4, <2>10, <3>2, <4>1 DEF Counted
      <4> QED
        BY <2>1, <4>2
    <3>3. CASE k \notin 1..Len(e)
      <4>1. k > Len(e)
        BY <2>9, <3>3
      <4>2. o = <<"ack">>
        <5>1. (e \o o)[Len(e) + 1] = o[1]
          <6>1. CASE o = <<"ack">>
            BY <6>1
          <6>2. CASE o = <<"nack">>
            BY <6>2
          <6>3. CASE o = <<"return", "ack">>
            BY <6>3
          <6> QED
            BY <6>1, <6>2, <6>3
        <5>2. Len(e) + 1 \in 1..k
          BY <4>1
        <5>3. o[1] = "ack"
          BY <2>10, <5>1, <5>2
        <5> QED
          BY <5>3
      <4>3. k = Len(e) + 1
        <5>1. Len(o) = 1
          BY <4>2
        <5> QED
          BY <2>9, <4>1, <5>1
      <4>4. \A j \in 1..Len(e) : e[j] = "ack"
        BY <2>10, <3>1, <4>1
      <4>5. m = Len(e)
        BY <2>6, <4>4, AcksConfirm
      <4>6. nAcks[c] + k = next[c]
        <5>1. \A a, b, n \in Nat : a + n = b - 1 => a + (n + 1) = b
          OBVIOUS
        <5>2. nAcks[c] + (m + 1) = next[c]
          BY <2>7, <5>1
        <5> QED
          BY <4>3, <4>5, <5>2
      <4> QED
        BY <2>1, <4>2, <4>6
    <3> QED
      BY <3>2, <3>3
  <2> QED
    BY <2>5, <2>8, <2>9, <2>10
<1>9. AckedSent'
  BY <1>1, <1>3, <1>4 DEF TypeOK, AckedSent
<1> QED
  BY <1>5, <1>6, <1>7, <1>8, <1>9 DEF InStep

\* A failed Publish publishes nothing.
LEMMA StepPublishFails ==
    ASSUME Instances, IInv, NEW c \in Calls, PublishFails(c) PROVE IInv'
<1> USE DEF Instances, PublishFails, Fault, broker, readers
<1>1. TypeOK /\ (abandoned' = {} => abandoned = {} /\ InStep)
  BY DEF IInv
<1>2. TypeOK'
  BY <1>1 DEF TypeOK
<1>3. SUFFICES ASSUME abandoned' = {} PROVE InStep'
  BY <1>2 DEF IInv
<1>4. /\ abandoned = {} /\ Owner /\ SameChannel /\ Clean /\ Counted /\ AckedSent
  BY <1>1, <1>3 DEF InStep
<1>5. Owner'
  BY <1>1, <1>3, <1>4 DEF TypeOK, Owner, SameChannel
<1>6. SameChannel'
  BY <1>1, <1>3, <1>4 DEF TypeOK, Owner, SameChannel, Clean
<1>7. Clean'
  BY <1>1, <1>3, <1>4 DEF TypeOK, Owner, SameChannel, Clean
<1>8. Counted'
  BY <1>1, <1>3, <1>4 DEF TypeOK, Owner, SameChannel, Clean, Counted
<1>9. AckedSent'
  BY <1>1, <1>3, <1>4 DEF TypeOK, AckedSent
<1> QED
  BY <1>5, <1>6, <1>7, <1>8, <1>9 DEF InStep

\* The copy of t.ch is never nil.
LEMMA StepPublishPanics ==
    ASSUME Instances, IInv, NEW c \in Calls, PublishPanics(c) PROVE IInv'
<1> USE DEF Instances, PublishPanics, broker, readers
<1>1. TypeOK /\ (abandoned' = {} => abandoned = {} /\ InStep)
  BY DEF IInv
<1>2. TypeOK'
  BY <1>1 DEF TypeOK
<1>3. SUFFICES ASSUME abandoned' = {} PROVE InStep'
  BY <1>2 DEF IInv
<1>4. /\ abandoned = {} /\ Owner /\ SameChannel /\ Clean /\ Counted /\ AckedSent
  BY <1>1, <1>3 DEF InStep
<1>5. Owner'
  BY <1>1, <1>3, <1>4 DEF TypeOK, Owner, SameChannel
<1>6. SameChannel'
  BY <1>1, <1>3, <1>4 DEF TypeOK, Owner, SameChannel, Clean
<1>7. Clean'
  BY <1>1, <1>3, <1>4 DEF TypeOK, Owner, SameChannel, Clean
<1>8. Counted'
  BY <1>1, <1>3, <1>4 DEF TypeOK, Owner, SameChannel, Clean, Counted
<1>9. AckedSent'
  BY <1>1, <1>3, <1>4 DEF TypeOK, AckedSent
<1> QED
  BY <1>5, <1>6, <1>7, <1>8, <1>9 DEF InStep

\* A call that returns what its reader has found.
LEMMA StepFinish ==
    ASSUME Instances, IInv, NEW c \in Calls, Finish(c) PROVE IInv'
<1> USE DEF Instances, Finish, Return, broker, readers
<1>1. TypeOK /\ (abandoned' = {} => abandoned = {} /\ InStep)
  BY DEF IInv
<1>2. TypeOK'
  BY <1>1 DEF TypeOK
<1>3. SUFFICES ASSUME abandoned' = {} PROVE InStep'
  BY <1>2 DEF IInv
<1>4. /\ abandoned = {} /\ Owner /\ SameChannel /\ Clean /\ Counted /\ AckedSent
  BY <1>1, <1>3 DEF InStep
<1>5. Owner'
  BY <1>1, <1>3, <1>4 DEF TypeOK, Owner, SameChannel
<1>6. SameChannel'
  BY <1>1, <1>3, <1>4 DEF TypeOK, Owner, SameChannel, Clean
<1>7. Clean'
  BY <1>1, <1>3, <1>4 DEF TypeOK, Owner, SameChannel, Clean
<1>8. Counted'
  BY <1>1, <1>3, <1>4 DEF TypeOK, Owner, SameChannel, Clean, Counted
<1>9. AckedSent'
  BY <1>1, <1>3, <1>4 DEF TypeOK, AckedSent
<1> QED
  BY <1>5, <1>6, <1>7, <1>8, <1>9 DEF InStep

\* A context that is done changes nothing yet.
LEMMA StepCancel ==
    ASSUME Instances, IInv, NEW c \in Calls, Cancel(c) PROVE IInv'
<1> USE DEF Instances, Cancel, Fault, broker, readers
<1>1. TypeOK /\ (abandoned' = {} => abandoned = {} /\ InStep)
  BY DEF IInv
<1>2. TypeOK'
  BY <1>1 DEF TypeOK
<1>3. SUFFICES ASSUME abandoned' = {} PROVE InStep'
  BY <1>2 DEF IInv
<1>4. /\ abandoned = {} /\ Owner /\ SameChannel /\ Clean /\ Counted /\ AckedSent
  BY <1>1, <1>3 DEF InStep
<1>5. Owner'
  BY <1>1, <1>3, <1>4 DEF TypeOK, Owner, SameChannel
<1>6. SameChannel'
  BY <1>1, <1>3, <1>4 DEF TypeOK, Owner, SameChannel, Clean
<1>7. Clean'
  BY <1>1, <1>3, <1>4 DEF TypeOK, Owner, SameChannel, Clean
<1>8. Counted'
  BY <1>1, <1>3, <1>4 DEF TypeOK, Owner, SameChannel, Clean, Counted
<1>9. AckedSent'
  BY <1>1, <1>3, <1>4 DEF TypeOK, AckedSent
<1> QED
  BY <1>5, <1>6, <1>7, <1>8, <1>9 DEF InStep

\* A reader that gives up closes the channel of its call.
LEMMA StepReaderCancelled ==
    ASSUME Instances, IInv, NEW c \in Calls, ReaderCancelled(c) PROVE IInv'
<1> USE DEF Instances, ReaderCancelled, Waits, broker, readers
<1>1. TypeOK /\ (abandoned' = {} => abandoned = {} /\ InStep)
  BY DEF IInv
<1>2. TypeOK'
  <2>1. tch # 0 => tch \in Channels /\ tch \in 1..opened
    BY <1>1 DEF TypeOK, Channels
  <2>2. events' \in [Channels -> Seq(Event)]
    BY <1>1, <2>1 DEF TypeOK
  <2>3. closedChs' \subseteq 1..opened /\ tch' \in 0..opened
    BY <1>1, <2>1 DEF TypeOK
  <2> QED
    BY <1>1, <2>2, <2>3 DEF TypeOK
<1>3. SUFFICES ASSUME abandoned' = {} PROVE InStep'
  BY <1>2 DEF IInv
<1>4. /\ abandoned = {} /\ Owner /\ SameChannel /\ Clean /\ Counted /\ AckedSent
  BY <1>1, <1>3 DEF InStep
<1>5. Owner'
  BY <1>1, <1>3, <1>4 DEF TypeOK, Owner, SameChannel
<1>6. SameChannel'
  BY <1>1, <1>3, <1>4 DEF TypeOK, Owner, SameChannel, Clean
<1>7. Clean'
  BY <1>1, <1>3, <1>4 DEF TypeOK, Owner, SameChannel, Clean
<1>8. Counted'
  BY <1>1, <1>3, <1>4 DEF TypeOK, Owner, SameChannel, Clean, Counted
<1>9. AckedSent'
  BY <1>1, <1>3, <1>4 DEF TypeOK, AckedSent
<1> QED
  BY <1>5, <1>6, <1>7, <1>8, <1>9 DEF InStep

\* A reader that reads an event.
LEMMA StepReaderReads ==
    ASSUME Instances, IInv, NEW c \in Calls, ReaderReads(c) PROVE IInv'
<1> USE DEF Instances, ReaderReads, Waits, broker, readers
<1>1. TypeOK /\ (abandoned' = {} => abandoned = {} /\ InStep)
  BY DEF IInv
<1>2. TypeOK'
  <2>1. events' \in [Channels -> Seq(Event)]
    <3>1. \A e \in Seq(Event) : e # << >> => Tail(e) \in Seq(Event)
      OBVIOUS
    <3>2. events \in [Channels -> Seq(Event)]
      BY <1>1 DEF TypeOK
    <3> QED
      BY <3>1, <3>2
  <2>2. nAcks[c] + 1 \in 0..Size
    BY <1>1 DEF TypeOK
  <2>3. nAcks' \in [Calls -> 0..Size] /\ errs' \in [Calls -> BOOLEAN]
    BY <1>1, <2>2 DEF TypeOK
  <2> QED
    BY <1>1, <2>1, <2>3 DEF TypeOK
<1>3. SUFFICES ASSUME abandoned' = {} PROVE InStep'
  BY <1>2 DEF IInv
<1>4. /\ abandoned = {} /\ Owner /\ SameChannel /\ Clean /\ Counted /\ AckedSent
  BY <1>1, <1>3 DEF InStep
<1>5. Owner'
  BY <1>1, <1>3, <1>4 DEF TypeOK, Owner, SameChannel
<1>6. SameChannel'
  BY <1>1, <1>3, <1>4 DEF TypeOK, Owner, SameChannel, Clean
<1>7. Clean'
  BY <1>1, <1>3, <1>4 DEF TypeOK, Owner, SameChannel, Clean
<1>8. Counted'
  <2>1. \A d \in Calls \ {c} : reader[d] # "running"
    BY <1>4 DEF Owner, SameChannel
  <2>2. notify \in Channels /\ events[notify] \in Seq(Event) /\ events[notify] # << >>
    BY <1>1, <1>4 DEF TypeOK, SameChannel, Channels
  <2>3. PICK e \in Seq(Event) : e = events[notify]
    BY <2>2
  <2>4. /\ e # << >> /\ events'[notify] = Tail(e)
        /\ nAcks'[c] = (IF Head(e) = "return" THEN nAcks[c] ELSE nAcks[c] + 1)
        /\ errs'[c] = (errs[c] \/ Head(e) # "ack")
    BY <1>1, <2>2, <2>3 DEF TypeOK
  <2>5. UNCHANGED <<reader, notify, closedChs, next, accepted>>
    OBVIOUS
  <2>6. PICK m \in Nat : m = Cardinality(Confirmations(Tail(e)))
    <3>1. Tail(e) \in Seq(Event)
      BY <2>4
    <3> QED
      BY <3>1, ConfirmationsFinite
  <2>7. Cardinality(Confirmations(e)) = m + (IF Head(e) = "return" THEN 0 ELSE 1)
    BY <2>4, <2>6, ReadConfirms
  <2>8. /\ nAcks[c] + Cardinality(Confirmations(e)) = next[c] - 1
        /\ e[Len(e)] # "return"
        /\ ~errs[c] => \A k \in 1..Len(e) : (\A j \in 1..k : e[j] = "ack") => <<c, nAcks[c] + k>> \in accepted
    BY <1>4, <2>3, <2>4 DEF Counted
  <2>9. nAcks[c] \in Nat /\ next[c] \in Nat
    BY <1>1 DEF TypeOK
  <2>10. nAcks'[c] + m = next[c] - 1
    BY <2>4, <2>7, <2>8, <2>9
  <2>11. /\ Len(e) \in Nat \ {0} /\ Len(Tail(e)) = Len(e) - 1 /\ Head(e) = e[1]
         /\ \A k \in 1..Len(Tail(e)) : Tail(e)[k] = e[k + 1]
    BY <2>4
  <2>12. Tail(e) # << >> => Tail(e)[Len(Tail(e))] # "return"
    <3>1. Tail(e) # << >> => Len(Tail(e)) \in 1..Len(Tail(e)) /\ Len(Tail(e)) + 1 = Len(e)
      BY <2>4, <2>11
    <3> QED
      BY <2>8, <2>11, <3>1
  <2>13. ASSUME ~errs'[c], NEW k \in 1..Len(Tail(e)), \A j \in 1..k : Tail(e)[j] = "ack"
         PROVE  <<c, nAcks'[c] + k>> \in accepted
    <3>1. ~errs[c] /\ e[1] = "ack" /\ nAcks'[c] = nAcks[c] + 1
      BY <2>4, <2>11, <2>13
    <3>2. k + 1 \in 1..Len(e) /\ nAcks'[c] + k = nAcks[c] + (k + 1)
      <4>1. k \in Nat /\ k + 1 \in 1..Len(e)
        BY <2>11
      <4>2. \A a \in Nat : (a + 1) + k = a + (k + 1)
        BY <4>1
      <4> QED
        BY <2>9, <3>1, <4>1, <4>2
    <3>3. ASSUME NEW j \in 1..(k + 1) PROVE e[j] = "ack"
      <4>1. CASE j = 1
        BY <3>1, <4>1
      <4>2. CASE j # 1
        <5>1. j - 1 \in 1..k /\ j - 1 \in 1..Len(Tail(e)) /\ (j - 1) + 1 = j
          BY <2>11, <4>2
        <5> QED
          BY <2>11, <2>13, <5>1
      <4> QED
        BY <4>1, <4>2
    <3> QED
      BY <2>8, <3>1, <3>2, <3>3
  <2> QED
    BY <2>1, <2>4, <2>5, <2>6, <2>10, <2>12, <2>13 DEF Counted
<1>9. AckedSent'
  <2>1. \A d \in Calls \ {c} : reader[d] # "running"
    BY <1>4 DEF Owner, SameChannel
  <2>2. notify \in Channels /\ events[notify] \in Seq(Event) /\ events[notify] # << >>
    BY <1>1, <1>4 DEF TypeOK, SameChannel, Channels
  <2>3. PICK e \in Seq(Event) : e = events[notify]
    BY <2>2
  <2>4. /\ e # << >> /\ events'[notify] = Tail(e)
        /\ nAcks'[c] = (IF Head(e) = "return" THEN nAcks[c] ELSE nAcks[c] + 1)
        /\ errs'[c] = (errs[c] \/ Head(e) # "ack")
    BY <1>1, <2>2, <2>3 DEF TypeOK
  <2>5. 1 \in 1..Len(e) /\ Head(e) = e[1]
    BY <2>4
  <2>6. ~errs[c] /\ Head(e) = "ack" => <<c, nAcks[c] + 1>> \in accepted
    <3>1. ~errs[c] => \A k \in 1..Len(e) : (\A j \in 1..k : e[j] = "ack") => <<c, nAcks[c] + k>> \in accepted
      BY <1>4, <2>3 DEF Counted
    <3>2. \A j \in 1..1 : j = 1
      OBVIOUS
    <3> QED
      BY <2>5, <3>1, <3>2
  <2>7. nAcks[c] \in Nat /\ \A i \in 1..(nAcks[c] + 1) : i \in 1..nAcks[c] \/ i = nAcks[c] + 1
    BY <1>1 DEF TypeOK
  <2>8. ~errs'[c] => \A i \in 1..nAcks'[c] : <<c, i>> \in accepted
    BY <1>4, <2>4, <2>6, <2>7 DEF AckedSent
  <2>9. reader[c] = "running" /\ \A d \in Calls \ {c} : nAcks'[d] = nAcks[d] /\ errs'[d] = errs[d]
    BY <1>1 DEF TypeOK
  <2> QED
    BY <1>4, <2>8, <2>9 DEF AckedSent
<1> QED
  BY <1>5, <1>6, <1>7, <1>8, <1>9 DEF InStep

\* A reader that finds its channel closed.
LEMMA StepReaderSeesClosed ==
    ASSUME Instances, IInv, NEW c \in Calls, ReaderSeesClosed(c) PROVE IInv'
<1> USE DEF Instances, ReaderSeesClosed, Waits, broker, readers
<1>1. TypeOK /\ (abandoned' = {} => abandoned = {} /\ InStep)
  BY DEF IInv
<1>2. TypeOK'
  BY <1>1 DEF TypeOK
<1>3. SUFFICES ASSUME abandoned' = {} PROVE InStep'
  BY <1>2 DEF IInv
<1>4. /\ abandoned = {} /\ Owner /\ SameChannel /\ Clean /\ Counted /\ AckedSent
  BY <1>1, <1>3 DEF InStep
<1>5. Owner'
  BY <1>1, <1>3, <1>4 DEF TypeOK, Owner, SameChannel
<1>6. SameChannel'
  BY <1>1, <1>3, <1>4 DEF TypeOK, Owner, SameChannel, Clean
<1>7. Clean'
  BY <1>1, <1>3, <1>4 DEF TypeOK, Owner, SameChannel, Clean
<1>8. Counted'
  BY <1>1, <1>3, <1>4 DEF TypeOK, Owner, SameChannel, Clean, Counted
<1>9. AckedSent'
  BY <1>1, <1>3, <1>4 DEF TypeOK, AckedSent
<1> QED
  BY <1>5, <1>6, <1>7, <1>8, <1>9 DEF InStep

\* A reader that has counted all confirmations has left no event.
LEMMA StepReaderDone ==
    ASSUME Instances, IInv, NEW c \in Calls, ReaderDone(c) PROVE IInv'
<1> USE DEF Instances, ReaderDone, broker, readers
<1>1. TypeOK /\ (abandoned' = {} => abandoned = {} /\ InStep)
  BY DEF IInv
<1>2. TypeOK'
  BY <1>1 DEF TypeOK
<1>3. SUFFICES ASSUME abandoned' = {} PROVE InStep'
  BY <1>2 DEF IInv
<1>4. /\ abandoned = {} /\ Owner /\ SameChannel /\ Clean /\ Counted /\ AckedSent
  BY <1>1, <1>3 DEF InStep
<1>10. notify \notin closedChs => next[c] = Size + 1 /\ events[notify] = << >>
  <2>1. notify \in Channels /\ events[notify] \in Seq(Event) /\ tch = notify
    BY <1>1, <1>4 DEF TypeOK, SameChannel, Channels
  <2>2. PICK e \in Seq(Event) : e = events[notify]
    BY <2>1
  <2>3. ASSUME notify \notin closedChs PROVE next[c] = Size + 1 /\ e = << >>
    <3>1. /\ Size + Cardinality(Confirmations(e)) = next[c] - 1
          /\ e # << >> => e[Len(e)] # "return"
      BY <1>4, <2>2, <2>3 DEF Counted
    <3>2. Cardinality(Confirmations(e)) \in Nat /\ next[c] \in 1..Size + 1
      BY <1>1, ConfirmationsFinite DEF TypeOK
    <3>3. Cardinality(Confirmations(e)) = 0 /\ next[c] = Size + 1
      BY <3>1, <3>2
    <3>4. Confirmations(e) = {}
      BY <3>3, ConfirmationsFinite
    <3>5. e # << >> => Len(e) \in DOMAIN e
      OBVIOUS
    <3>6. e = << >>
      BY <3>1, <3>4, <3>5 DEF Confirmations
    <3> QED
      BY <3>3, <3>6
  <2> QED
    BY <2>2, <2>3
<1>5. Owner'
  BY <1>1, <1>3, <1>4 DEF TypeOK, Owner, SameChannel
<1>6. SameChannel'
  <2>1. pc[c] = "publish" => next[c] <= Size /\ next[c] # Size + 1
    BY <1>1 DEF TypeOK
  <2> QED
    BY <1>1, <1>4, <1>10, <2>1 DEF TypeOK, Owner, SameChannel, Clean
<1>7. Clean'
  BY <1>4, <1>10 DEF SameChannel, Clean
<1>8. Counted'
  BY <1>1, <1>3, <1>4 DEF TypeOK, Owner, SameChannel, Clean, Counted
<1>9. AckedSent'
  BY <1>1, <1>3, <1>4 DEF TypeOK, AckedSent
<1> QED
  BY <1>5, <1>6, <1>7, <1>8, <1>9 DEF InStep

\* A channel that is closed is not used again.
LEMMA StepChannelCloses ==
    ASSUME Instances, IInv, SendChannelCloses PROVE IInv'
<1> USE DEF Instances, SendChannelCloses, Fault, broker, readers
<1>1. TypeOK /\ (abandoned' = {} => abandoned = {} /\ InStep)
  BY DEF IInv
<1>2. TypeOK'
  <2>1. PICK k \in 1..opened : closedChs' = closedChs \union {k} /\ events' = [events EXCEPT ![k] = << >>]
    OBVIOUS
  <2>2. events' \in [Channels -> Seq(Event)] /\ closedChs' \subseteq 1..opened
    <3>1. << >> \in Seq(Event)
      OBVIOUS
    <3> QED
      BY <1>1, <2>1, <3>1 DEF TypeOK
  <2> QED
    BY <1>1, <2>2 DEF TypeOK
<1>3. SUFFICES ASSUME abandoned' = {} PROVE InStep'
  BY <1>2 DEF IInv
<1>4. /\ abandoned = {} /\ Owner /\ SameChannel /\ Clean /\ Counted /\ AckedSent
  BY <1>1, <1>3 DEF InStep
<1>5. Owner'
  BY <1>1, <1>3, <1>4 DEF TypeOK, Owner, SameChannel
<1>6. SameChannel'
  BY <1>1, <1>3, <1>4 DEF TypeOK, Owner, SameChannel, Clean
<1>7. Clean'
  BY <1>1, <1>3, <1>4 DEF TypeOK, Owner, SameChannel, Clean
<1>8. Counted'
  BY <1>1, <1>3, <1>4 DEF TypeOK, Owner, SameChannel, Clean, Counted
<1>9. AckedSent'
  BY <1>1, <1>3, <1>4 DEF TypeOK, AckedSent
<1> QED
  BY <1>5, <1>6, <1>7, <1>8, <1>9 DEF InStep

-----------------------------------------------------------------------------
(* The specification *)

\* The invariant holds at the start.
LEMMA InitIInv == Instances /\ RabbitInit => IInv
<1> SUFFICES ASSUME Instances, RabbitInit PROVE IInv
  OBVIOUS
<1> USE DEF Instances, RabbitInit
<1>1. << >> \in Seq(Event)
  OBVIOUS
<1>2. TypeOK
  BY <1>1 DEF TypeOK
<1>3. Owner /\ SameChannel /\ Clean /\ AckedSent
  BY DEF Owner, SameChannel, Clean, AckedSent, None
<1>4. Counted
  BY DEF Counted
<1> QED
  BY <1>2, <1>3, <1>4 DEF IInv, InStep

\* Every step of a call, of its reader, of a context and of the broker keeps it.
LEMMA NextIInv == ASSUME Instances, IInv, [RabbitNext]_rvars PROVE IInv'
<1>1. ASSUME NEW c \in Calls, Sender(c) PROVE IInv'
  BY <1>1, StepLock, StepEstablish, StepEstablishFails, StepEstablished, StepStart,
     StepCallbackFails, StepPublish, StepPublishFails, StepPublishPanics, StepFinish DEF Sender
<1>2. ASSUME NEW c \in Calls, Reader(c) PROVE IInv'
  BY <1>2, StepReaderCancelled, StepReaderReads, StepReaderSeesClosed, StepReaderDone DEF Reader
<1>3. CASE UNCHANGED rvars
  <2>1. TypeOK'
    BY <1>3 DEF IInv, TypeOK, rvars
  <2>2. abandoned' = {} => InStep'
    BY <1>3 DEF IInv, InStep, Owner, SameChannel, Clean, Counted, AckedSent, rvars
  <2> QED
    BY <2>1, <2>2 DEF IInv
<1> QED
  BY <1>1, <1>2, <1>3, StepCancel, StepChannelCloses DEF RabbitNext

\* The inductive invariant of RabbitTopic.
THEOREM Invariance == Instances => (RabbitSpec => []IInv)
<1> SUFFICES ASSUME Instances PROVE RabbitSpec => []IInv
  OBVIOUS
<1>1. IInv /\ [RabbitNext]_rvars => IInv'
  BY NextIInv
<1>2. RabbitInit => IInv
  BY InitIInv
<1> QED
  BY <1>1, <1>2, PTL DEF RabbitSpec

\* A SendBatch of rabbitpubsub that returns no error has had each message of its
\* batch routed by the broker, for any number of calls, any size of the batches
\* and any number of faults, as long as no call has left its reader behind.
THEOREM SendsAreRouted == Instances => (RabbitSpec => []OkMeansSent)
<1>1. IInv => OkMeansSent
  BY DEF IInv, InStep, AckedSent, OkMeansSent
<1> QED
  BY <1>1, Invariance, PTL

\* Publish is never called on a nil channel, under the same condition: the
\* channel that a call has copied is never forgotten before.
NoPanic == abandoned = {} => \A c \in Calls : pc[c] # "panicked"

\* No call of SendBatch panics, as long as none has left its reader behind.
THEOREM NoNilChannel == Instances => (RabbitSpec => []NoPanic)
<1>1. IInv => NoPanic
  BY DEF IInv, InStep, SameChannel, NoPanic
<1> QED
  BY <1>1, Invariance, PTL

-----------------------------------------------------------------------------
(* The other drivers: Sends *)

\* The messages of the batch.
Count == IF sender = "azuresb" THEN 1 ELSE BatchSize

\* The callbacks that were called, and the messages that were sent, when message
\* cur is at hand: by a driver that sends the batch in one request,
OneRequest == sender \notin {"natspubsub", "gcppubsubv2", "mempubsub"} =>
    /\ phase = "before" => before = 1..(cur - 1) /\ sent = {} /\ after = {}
    /\ phase = "request" => before = 1..Count /\ sent = {} /\ after = {}
    /\ phase = "after" => before = 1..Count /\ sent = 1..Count /\ after = 1..(cur - 1)

\* by natspubsub, one message after another into the buffer of its client,
OneByOne == sender = "natspubsub" =>
    /\ sent \subseteq flying /\ flying \subseteq before
    /\ after = 1..(cur - 1) \/ phase = "returned"
    /\ phase = "before" => before = 1..(cur - 1) /\ flying = 1..(cur - 1)
    /\ phase = "publish" => before = 1..cur /\ flying = 1..(cur - 1)
    /\ phase = "after" => before = 1..cur /\ flying = 1..cur

\* by gcppubsubv2, whose publisher may have any of them in hand,
ByPublisher == sender = "gcppubsubv2" =>
    /\ flying \subseteq before
    /\ phase = "before" => before = 1..(cur - 1) /\ after = {}
    /\ phase \in {"get", "after"} => before = 1..Count /\ after = 1..(cur - 1)
    /\ phase = "after" => cur \in sent

\* and by mempubsub, which calls all the callbacks first.
CallbacksFirst == sender = "mempubsub" =>
    /\ phase = "before" => before = 1..(cur - 1) /\ after = 1..(cur - 1) /\ sent = {}
    /\ phase = "after" => before = 1..cur /\ after = 1..(cur - 1) /\ sent = {}
    /\ phase = "publish" => before = 1..Count /\ after = 1..Count

SendsInv ==
    /\ cur \in 1..Count
    /\ phase \in {"before", "request", "publish", "get", "after", "returned"}
    /\ phase # "returned" => sendResult = "none"
    /\ sender \notin {"gcppubsubv2", "natspubsub"} => flying = {}
    /\ SendsReported
    /\ OneRequest /\ OneByOne /\ ByPublisher /\ CallbacksFirst

\* A batch is an interval of numbers.
LEMMA BatchOf ==
    ASSUME Instances
    PROVE  Count \in Nat \ {0} /\ Batch = 1..Count /\ (cur \in 1..Count => (Last <=> cur = Count))
<1>1. Count \in Nat \ {0}
  BY DEF Instances, Count
<1>2. Batch = 1..Count
  <2>1. {1} = 1..1
    OBVIOUS
  <2> QED
    BY <2>1 DEF Count, Batch
<1>3. Last <=> cur + 1 \notin 1..Count
  BY <1>2 DEF Last
<1> QED
  BY <1>1, <1>2, <1>3

\* One more of an interval.
LEMMA OneMore == \A n \in Nat \ {0} : (1..(n - 1)) \cup {n} = 1..n /\ 1..((n + 1) - 1) = 1..n /\ 1..(1 - 1) = {}
  OBVIOUS

\* A step of a driver that sends the batch in one request.
LEMMA StepOneRequest ==
    ASSUME Instances, SendsInv, sender \notin {"natspubsub", "gcppubsubv2", "mempubsub"},
           SendBatch(SendMessages) \/ SendBatch(SendEntries)
    PROVE  SendsInv'
<1>1. /\ Count \in Nat \ {0} /\ Batch = 1..Count /\ (Last <=> cur = Count)
      /\ cur \in 1..Count /\ OneRequest /\ SendsReported
  BY BatchOf DEF SendsInv
<1>2. UNCHANGED <<sender, flying>> /\ Count' = Count /\ Batch' = Batch
  BY DEF SendBatch, Count, Batch
<1>3. OneByOne' /\ ByPublisher' /\ CallbacksFirst'
  BY <1>2 DEF OneByOne, ByPublisher, CallbacksFirst
<1>4. CASE Prepare
  BY <1>1, <1>2, <1>3, <1>4, OneMore DEF SendsInv, Prepare, Step, OneRequest, SendsReported, Taken, CountsReplies
<1>5. CASE Report
  BY <1>1, <1>2, <1>3, <1>5, OneMore DEF SendsInv, Report, Step, OneRequest, SendsReported, Taken, CountsReplies
<1>6. CASE CallbackFails
  BY <1>1, <1>2, <1>3, <1>6 DEF SendsInv, CallbackFails, Fail, OneRequest, SendsReported, Taken, CountsReplies
<1>11. CASE ReplyOfOtherLength
  <2>1. after = {}
    BY <1>1, <1>11 DEF ReplyOfOtherLength, OneRequest
  <2> QED
    BY <1>1, <1>2, <1>3, <1>11, <2>1 DEF SendsInv, ReplyOfOtherLength, OneRequest, SendsReported, Taken, CountsReplies
<1>7. ASSUME phase = "request", AllSent, UNCHANGED <<before, after>> PROVE SendsInv'
  <2>1. sent' = 1..Count /\ phase' = "after" /\ cur' = 1 /\ UNCHANGED sendResult /\ 1..(1 - 1) = {}
    BY <1>1, <1>7, OneMore DEF AllSent
  <2> QED
    BY <1>1, <1>2, <1>3, <1>7, <2>1 DEF SendsInv, OneRequest, SendsReported, Taken, CountsReplies
<1>8. ASSUME phase = "request", Fail, UNCHANGED <<before, after>>, sent' \subseteq 1..Count PROVE SendsInv'
  BY <1>1, <1>2, <1>3, <1>8 DEF SendsInv, Fail, OneRequest, SendsReported, Taken, CountsReplies
<1>9. CASE phase = "request" /\ SendMessages /\ UNCHANGED <<before, after>>
  BY <1>1, <1>7, <1>8, <1>9 DEF SendMessages
<1>10. CASE phase = "request" /\ SendEntries /\ UNCHANGED <<before, after>>
  <2>1. sent \subseteq 1..Count
    BY <1>1, <1>10 DEF OneRequest
  <2> QED
    BY <1>1, <1>7, <1>8, <1>10, <2>1 DEF SendEntries
<1> QED
  BY <1>4, <1>5, <1>6, <1>9, <1>10, <1>11 DEF SendBatch

\* A step of natspubsub.
LEMMA StepNats == ASSUME Instances, SendsInv, NatsSendBatch PROVE SendsInv'
<1>1. /\ Count \in Nat \ {0} /\ Batch = 1..Count /\ (Last <=> cur = Count)
      /\ cur \in 1..Count /\ OneByOne /\ SendsReported /\ sender = "natspubsub"
  BY BatchOf DEF SendsInv, NatsSendBatch
<1>2. UNCHANGED <<sender, sent>> /\ Count' = Count /\ Batch' = Batch
  BY DEF NatsSendBatch, Count, Batch
<1>3. OneRequest' /\ ByPublisher' /\ CallbacksFirst'
  BY <1>1, <1>2 DEF OneRequest, ByPublisher, CallbacksFirst
<1>4. PICK n \in 1..Count : n = cur
  BY <1>1
<1>5. (1..(n - 1)) \cup {n} = 1..n /\ 1..((n + 1) - 1) = 1..n
  BY <1>1, <1>4
<1>6. CASE phase = "before" /\ before' = before \cup {n} /\ phase' = "publish" /\ UNCHANGED <<cur, sendResult, flying, after>>
  BY <1>1, <1>2, <1>3, <1>4, <1>5, <1>6 DEF SendsInv, OneByOne, SendsReported, Taken, CountsReplies
<1>7. CASE phase = "publish" /\ flying' = flying \cup {n} /\ phase' = "after" /\ UNCHANGED <<cur, sendResult, before, after>>
  BY <1>1, <1>2, <1>3, <1>4, <1>5, <1>7 DEF SendsInv, OneByOne, SendsReported, Taken, CountsReplies
<1>8. CASE phase = "after" /\ after' = after \cup {n} /\ Step("before", "returned") /\ UNCHANGED <<before, flying>>
  BY <1>1, <1>2, <1>3, <1>4, <1>5, <1>8 DEF SendsInv, Step, OneByOne, SendsReported, Taken, CountsReplies
<1>9. CASE phase # "returned" /\ Fail /\ UNCHANGED <<before, flying, after>>
  BY <1>1, <1>2, <1>3, <1>9 DEF SendsInv, Fail, OneByOne, SendsReported, Taken, CountsReplies
<1> QED
  BY <1>4, <1>6, <1>7, <1>8, <1>9 DEF NatsSendBatch

\* A step of gcppubsubv2.
LEMMA StepGcpV2 == ASSUME Instances, SendsInv, GcpV2SendBatch PROVE SendsInv'
<1>1. /\ Count \in Nat \ {0} /\ Batch = 1..Count /\ (Last <=> cur = Count)
      /\ cur \in 1..Count /\ ByPublisher /\ SendsReported /\ sender = "gcppubsubv2"
  BY BatchOf DEF SendsInv, GcpV2SendBatch
<1>2. UNCHANGED sender /\ Count' = Count /\ Batch' = Batch
  BY DEF GcpV2SendBatch, Count, Batch
<1>3. OneRequest' /\ OneByOne' /\ CallbacksFirst'
  BY <1>1, <1>2 DEF OneRequest, OneByOne, CallbacksFirst
<1>4. PICK n \in 1..Count : n = cur
  BY <1>1
<1>5. (1..(n - 1)) \cup {n} = 1..n /\ 1..((n + 1) - 1) = 1..n /\ 1..(1 - 1) = {}
  BY <1>1, <1>4
<1>6. CASE /\ phase = "before" /\ before' = before \cup {n} /\ flying' = flying \cup {n}
           /\ Step("before", "get") /\ UNCHANGED <<sent, after>>
  BY <1>1, <1>2, <1>3, <1>4, <1>5, <1>6 DEF SendsInv, Step, ByPublisher, SendsReported, Taken, CountsReplies
<1>7. CASE phase = "get" /\ n \in sent /\ phase' = "after" /\ UNCHANGED <<cur, sendResult, before, sent, flying, after>>
  BY <1>1, <1>2, <1>3, <1>4, <1>5, <1>7 DEF SendsInv, ByPublisher, SendsReported, Taken, CountsReplies
<1>8. CASE phase = "after" /\ after' = after \cup {n} /\ Step("get", "returned") /\ UNCHANGED <<before, sent, flying>>
  <2>1. after' = 1..n /\ 1..n \subseteq sent /\ sent \subseteq 1..Count /\ before = 1..Count
    BY <1>1, <1>4, <1>5, <1>8 DEF ByPublisher, SendsReported, Taken, CountsReplies
  <2>2. CASE n = Count
    <3>1. phase' = "returned" /\ cur' = 1 /\ sent = 1..Count
      BY <1>1, <1>4, <1>8, <2>1, <2>2 DEF Step
    <3> QED
      BY <1>1, <1>2, <1>3, <1>8, <2>1, <2>2, <3>1 DEF SendsInv, ByPublisher, SendsReported, Taken, CountsReplies
  <2>3. CASE n # Count
    <3>1. phase' = "get" /\ cur' = n + 1 /\ UNCHANGED sendResult /\ n + 1 \in 1..Count
      BY <1>1, <1>4, <1>8, <2>3 DEF Step
    <3> QED
      BY <1>1, <1>2, <1>3, <1>5, <1>8, <2>1, <3>1 DEF SendsInv, ByPublisher, SendsReported, Taken, CountsReplies
  <2> QED
    BY <2>2, <2>3
<1>9. CASE phase # "returned" /\ Fail /\ UNCHANGED <<before, sent, flying, after>>
  BY <1>1, <1>2, <1>3, <1>9 DEF SendsInv, Fail, ByPublisher, SendsReported, Taken, CountsReplies
<1> QED
  BY <1>4, <1>6, <1>7, <1>8, <1>9 DEF GcpV2SendBatch

\* The publisher of gcppubsubv2, or the client of natspubsub, sends a message.
LEMMA StepPublisher == ASSUME Instances, SendsInv, Publisher PROVE SendsInv'
<1>1. /\ UNCHANGED <<sender, phase, cur, before, flying, after, sendResult>>
      /\ Count' = Count /\ Batch' = Batch
  BY DEF Publisher, Count, Batch
<1>2. PICK m \in flying \ sent : sent' = sent \cup {m}
  BY DEF Publisher
<1>3. sender \in {"gcppubsubv2", "natspubsub"}
  BY <1>2 DEF SendsInv
<1>4. flying \subseteq before /\ sent \subseteq before
  BY <1>3 DEF SendsInv, ByPublisher, OneByOne, SendsReported, Taken, CountsReplies
<1>5. SendsReported'
  BY <1>1, <1>2, <1>3, <1>4 DEF SendsInv, SendsReported, Taken, CountsReplies
<1>6. OneRequest' /\ OneByOne' /\ ByPublisher' /\ CallbacksFirst'
  BY <1>1, <1>2, <1>3 DEF SendsInv, OneRequest, OneByOne, ByPublisher, CallbacksFirst
<1> QED
  BY <1>1, <1>5, <1>6 DEF SendsInv

\* A step of mempubsub.
LEMMA StepMem == ASSUME Instances, SendsInv, MemSendBatch PROVE SendsInv'
<1>1. /\ Count \in Nat \ {0} /\ Batch = 1..Count /\ (Last <=> cur = Count)
      /\ cur \in 1..Count /\ CallbacksFirst /\ SendsReported /\ sender = "mempubsub"
  BY BatchOf DEF SendsInv, MemSendBatch
<1>2. UNCHANGED <<sender, flying>> /\ Count' = Count /\ Batch' = Batch
  BY DEF MemSendBatch, Count, Batch
<1>3. OneRequest' /\ OneByOne' /\ ByPublisher'
  BY <1>1, <1>2 DEF OneRequest, OneByOne, ByPublisher
<1>4. PICK n \in 1..Count : n = cur
  BY <1>1
<1>5. (1..(n - 1)) \cup {n} = 1..n /\ 1..((n + 1) - 1) = 1..n
  BY <1>1, <1>4
<1>6. CASE phase = "before" /\ before' = before \cup {n} /\ phase' = "after" /\ UNCHANGED <<cur, sendResult, sent, after>>
  BY <1>1, <1>2, <1>3, <1>4, <1>5, <1>6 DEF SendsInv, CallbacksFirst, SendsReported, Taken, CountsReplies
<1>7. CASE phase = "after" /\ after' = after \cup {n} /\ Step("before", "publish") /\ UNCHANGED <<before, sent>>
  BY <1>1, <1>2, <1>3, <1>4, <1>5, <1>7 DEF SendsInv, Step, CallbacksFirst, SendsReported, Taken, CountsReplies
<1>8. CASE phase = "publish" /\ sent' = Batch /\ phase' = "returned" /\ sendResult' = "ok" /\ UNCHANGED <<cur, before, after>>
  BY <1>1, <1>2, <1>3, <1>8 DEF SendsInv, CallbacksFirst, SendsReported, Taken, CountsReplies
<1>9. CASE CallbackFails
  BY <1>1, <1>2, <1>3, <1>9 DEF SendsInv, CallbackFails, Fail, CallbacksFirst, SendsReported, Taken, CountsReplies
<1> QED
  BY <1>4, <1>6, <1>7, <1>8, <1>9 DEF MemSendBatch

\* For each driver but rabbitpubsub and any size of the batch: SendBatch reports a
\* batch as sent only when the service, or the buffer of natspubsub's client, has
\* taken each message of it, after its BeforeSend and, but for mempubsub, before
\* its AfterSend; AfterSend is called for all of the batch, or for none when a
\* reply of gcppubsub or awssnssqs has another length.
THEOREM BatchesAreSent == Instances => (SendsSpec => []SendsReported)
<1> SUFFICES ASSUME Instances PROVE SendsSpec => []SendsReported
  OBVIOUS
<1>1. SendsInit => SendsInv
  BY BatchOf, OneMore
  DEF SendsInit, SendsInv, SendsReported, Taken, CountsReplies, OneRequest, OneByOne, ByPublisher, CallbacksFirst
<1>2. SendsInv /\ [SendsNext]_sendsVars => SendsInv'
  <2>1. CASE UNCHANGED sendsVars
    BY <2>1 DEF sendsVars, SendsInv, SendsReported, Taken, CountsReplies, OneRequest, OneByOne, ByPublisher, CallbacksFirst, Count, Batch
  <2>2. CASE KafkaSendBatch \/ GcpSendBatch \/ SnsSendBatch \/ SqsSendBatch \/ AzureSendBatch
    BY <2>2, StepOneRequest
    DEF KafkaSendBatch, GcpSendBatch, SnsSendBatch, SqsSendBatch, AzureSendBatch
  <2> QED
    BY <2>1, <2>2, StepNats, StepGcpV2, StepPublisher, StepMem DEF SendsNext
<1>3. SendsInv => SendsReported
  BY DEF SendsInv
<1> QED
  BY <1>1, <1>2, <1>3, PTL DEF SendsSpec

=============================================================================
