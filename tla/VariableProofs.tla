--------------------------- MODULE VariableProofs ---------------------------
(***************************************************************************)
(* Proofs about Variable, for any states of the variable, any number of     *)
(* callers of Latest, CheckHealth and Close, and any number of changes.     *)
(***************************************************************************)
EXTENDS Variable, TLAPS

-----------------------------------------------------------------------------
(* The inductive invariant *)

States == Good \cup Bad

TypeOK ==
    /\ last \in Good \cup {None}
    /\ lastErr \in Bad \cup {Nil, NoValueYet, ErrClosed}
    /\ lastGood \in Good \cup {None}
    /\ haveGoodCh \in BOOLEAN
    /\ changedClosed \in BOOLEAN
    /\ watchReady \in BOOLEAN
    /\ cancelled \in BOOLEAN
    /\ bpc \in {"select", "watching", "update", "done", "panic"}
    /\ curState \in States \cup {None}
    /\ rpc \in [Readers -> {"idle", "select", "lock-good", "lock-ctx-done",
                            "health-good", "health-not-good"}]
    /\ cpc \in [Closers -> {"idle", "refused", "cancel", "wait", "returned"}]
    /\ actual \in States
    /\ answer \in [Readers -> [call : {"none", "Latest", "CheckHealth"},
                               value : Good \cup {None},
                               err : Bad \cup {Nil, NoValueYet, ErrClosed}]]

\* The background goroutine has a state in hand when it is about to store one.
InHand == bpc = "update" => curState \in States

\* c.haveGoodCh is closed by the first good value, or by Close, and a reader
\* that has seen it closed has not been misled.
GoodKept ==
    /\ haveGoodCh => Closed \/ lastGood \in Good
    /\ lastErr = Nil => lastGood \in Good
    /\ \A r \in Readers :
         rpc[r] \in {"lock-good", "health-good"} => haveGoodCh

\* A closed Variable has no last value, and c.changed is closed for good only
\* by Close.
ClosedState ==
    /\ Closed => last = None
    /\ changedClosed => Closed

\* close(c.changed) is never called twice, which would panic.
NoPanic == bpc # "panic"

IInv ==
    /\ TypeOK
    /\ InHand
    /\ GoodKept
    /\ ClosedState
    /\ NoPanic
    /\ HealthyMeansGood

-----------------------------------------------------------------------------
(* The steps *)

\* The invariant holds at the start.
LEMMA InitIInv == Init => IInv
<1> SUFFICES ASSUME Init PROVE IInv
  OBVIOUS
<1> USE DEF Init
<1>1. TypeOK
  BY DEF TypeOK, States, NoAnswer
<1>2. InHand /\ NoPanic /\ HealthyMeansGood
  BY DEF InHand, NoPanic, HealthyMeansGood, NoAnswer
<1>3. GoodKept /\ ClosedState
  BY DEF GoodKept, ClosedState, Closed, Nil, NoValueYet, ErrClosed
<1> QED
  BY <1>1, <1>2, <1>3 DEF IInv

\* BackgroundSelect and WatchVariable leave the fields of Variable alone.
LEMMA StepWatching == IInv /\ (BackgroundSelect \/ WatchVariable) => IInv'
  BY DEF BackgroundSelect, WatchVariable, fields, world, IInv, TypeOK, States,
         InHand, GoodKept, ClosedState, Closed, NoPanic, HealthyMeansGood

\* The update under the lock: nothing if the Variable is closed; otherwise
\* c.changed is open, and a good value is kept.
LEMMA StepUpdate == IInv /\ BackgroundUpdate => IInv'
<1> SUFFICES ASSUME IInv, BackgroundUpdate PROVE IInv'
  OBVIOUS
<1> USE VariableAssumption DEF IInv, BackgroundUpdate
<1>1. CASE Closed
  BY <1>1 DEF MustNotUpdate, fields, world, TypeOK, States, InHand, GoodKept,
              ClosedState, Closed, NoPanic, HealthyMeansGood
<1>2. CASE ~Closed
  <2>1. curState \in States /\ ~changedClosed /\ bpc' = "select"
    BY <1>2 DEF MustNotUpdate, Announces, InHand, States, ClosedState
  <2>2. TypeOK'
    BY <1>2, <2>1 DEF MustNotUpdate, TypeOK, States, Announces, NextGood, world
  <2>3. GoodKept'
    BY <1>2, <2>1 DEF MustNotUpdate, GoodKept, Closed, States, NextGood
  <2>4. ClosedState' /\ InHand' /\ NoPanic'
    BY <1>2, <2>1
       DEF MustNotUpdate, ClosedState, InHand, NoPanic, Closed, States, Nil,
           ErrClosed
  <2>5. HealthyMeansGood'
    BY DEF HealthyMeansGood
  <2> QED
    BY <2>2, <2>3, <2>4, <2>5
<1> QED
  BY <1>1, <1>2

\* Watch changes watchReady only.
LEMMA StepWatch == IInv /\ (WatchCall \/ WatchSelect \/ WatchReturns) => IInv'
  BY DEF WatchCall, WatchSelect, WatchReturns, fields, world, IInv, TypeOK,
         States, InHand, GoodKept, ClosedState, Closed, NoPanic,
         HealthyMeansGood

\* A call of Latest or CheckHealth begins or waits.
LEMMA StepReaderWaits ==
    ASSUME IInv, NEW r \in Readers,
           LatestCall(r) \/ LatestSelect(r) \/ CheckHealthCall(r)
    PROVE  IInv'
<1> USE DEF LatestCall, LatestSelect, CheckHealthCall, fields, world, IInv
<1>1. TypeOK'
  BY DEF TypeOK, NoAnswer
<1>2. GoodKept'
  BY DEF GoodKept, Closed, TypeOK
<1>3. InHand' /\ ClosedState' /\ NoPanic'
  BY DEF InHand, ClosedState, Closed, NoPanic
<1>4. HealthyMeansGood'
  BY DEF HealthyMeansGood, TypeOK, NoAnswer
<1> QED
  BY <1>1, <1>2, <1>3, <1>4

\* Latest returns.
LEMMA StepLatestReturns ==
    ASSUME IInv, NEW r \in Readers, LatestReturns(r) PROVE IInv'
<1> USE DEF LatestReturns, fields, world, IInv
<1>1. TypeOK'
  BY DEF TypeOK
<1>2. GoodKept' /\ InHand' /\ ClosedState' /\ NoPanic'
  BY DEF GoodKept, Closed, TypeOK, InHand, ClosedState, NoPanic
<1>3. HealthyMeansGood'
  BY DEF HealthyMeansGood, TypeOK
<1> QED
  BY <1>1, <1>2, <1>3

\* CheckHealth returns nil because it saw c.haveGoodCh closed and the Variable
\* is not, or because c.lastErr is nil: there is a good value in both cases.
LEMMA StepCheckHealthReturns ==
    ASSUME IInv, NEW r \in Readers, CheckHealthReturns(r) PROVE IInv'
<1> USE DEF CheckHealthReturns, fields, world, IInv
<1>1. TypeOK'
  BY DEF TypeOK
<1>2. GoodKept' /\ InHand' /\ ClosedState' /\ NoPanic'
  BY DEF GoodKept, Closed, TypeOK, InHand, ClosedState, NoPanic
<1>3. HealthyMeansGood'
  <2>1. answer'[r].err = Nil => lastGood \in Good
    BY DEF GoodKept, Closed, TypeOK
  <2>2. answer'[r].value = lastGood
    BY DEF TypeOK
  <2>3. \A q \in Readers \ {r} : answer'[q] = answer[q]
    BY DEF TypeOK
  <2> QED
    BY <2>1, <2>2, <2>3 DEF HealthyMeansGood
<1> QED
  BY <1>1, <1>2, <1>3

\* The critical section of Close, its cancellation and its return.
LEMMA StepClose ==
    ASSUME IInv, NEW c \in Closers,
           CloseCall(c) \/ CloseCancel(c) \/ CloseReturns(c)
    PROVE  IInv'
<1> USE VariableAssumption
        DEF CloseCall, CloseCancel, CloseReturns, fields, world, IInv
<1>1. TypeOK'
  BY DEF TypeOK
<1>2. GoodKept'
  BY DEF GoodKept, Closed, TypeOK, Nil, ErrClosed
<1>3. InHand' /\ ClosedState' /\ NoPanic' /\ HealthyMeansGood'
  BY DEF InHand, ClosedState, Closed, NoPanic, HealthyMeansGood
<1> QED
  BY <1>1, <1>2, <1>3

\* What the watched variable is changes outside the process.
LEMMA StepChange ==
    ASSUME IInv, NEW s \in States, Change(s) PROVE IInv'
  BY DEF Change, fields, IInv, TypeOK, States, InHand, GoodKept, ClosedState,
         Closed, NoPanic, HealthyMeansGood

\* Every step keeps the invariant.
LEMMA NextIInv == IInv /\ [Next]_vars => IInv'
<1> SUFFICES ASSUME IInv, [Next]_vars PROVE IInv'
  OBVIOUS
<1>1. CASE Background
  BY <1>1, StepWatching, StepUpdate DEF Background
<1>2. CASE WatchCall \/ Watch
  BY <1>2, StepWatch DEF Watch
<1>3. ASSUME NEW r \in Readers, Latest(r) \/ CheckHealth(r) PROVE IInv'
  BY <1>3, StepReaderWaits, StepLatestReturns, StepCheckHealthReturns
     DEF Latest, CheckHealth
<1>4. ASSUME NEW c \in Closers, CloseCall(c) \/ Close(c) PROVE IInv'
  BY <1>4, StepClose DEF Close
<1>5. ASSUME NEW s \in Good \cup Bad, Change(s) PROVE IInv'
  BY <1>5, StepChange DEF States
<1>6. CASE UNCHANGED vars
  BY <1>6 DEF vars, fields, world, IInv, TypeOK, States, InHand, GoodKept,
              ClosedState, Closed, NoPanic, HealthyMeansGood
<1> QED
  BY <1>1, <1>2, <1>3, <1>4, <1>5, <1>6 DEF Next

-----------------------------------------------------------------------------
(* The theorems *)

\* The inductive invariant holds in every state of Variable.
THEOREM Invariance == Spec => []IInv
  BY InitIInv, NextIInv, PTL DEF Spec

\* CheckHealth answers nil only if there is a good value, though it reads
\* c.haveGoodCh before it takes the lock and c.lastErr after.
THEOREM Healthy == Spec => []HealthyMeansGood
<1>1. IInv => HealthyMeansGood
  BY DEF IInv
<1> QED
  BY <1>1, Invariance, PTL

\* The background goroutine never closes c.changed after Close has done so,
\* which would panic.
THEOREM NeverPanics == Spec => []NoPanic
<1>1. IInv => NoPanic
  BY DEF IInv
<1> QED
  BY <1>1, Invariance, PTL

\* No step brings a closed Variable back to life, not even that of the
\* background goroutine which has got a new state before Close.
THEOREM StaysClosed == Spec => ClosedForGood
<1>1. ASSUME IInv, Next, Closed PROVE lastErr' = ErrClosed /\ last' = None
  <2>0. lastErr = ErrClosed /\ last = None
    BY <1>1 DEF IInv, ClosedState, Closed
  <2>1. UNCHANGED <<last, lastErr>>
    BY <1>1
       DEF Next, Background, BackgroundSelect, WatchVariable, BackgroundUpdate,
           MustNotUpdate, WatchCall, Watch, WatchSelect, WatchReturns, Latest,
           LatestCall, LatestSelect, LatestReturns, CheckHealth,
           CheckHealthCall, CheckHealthReturns, CloseCall, Close, CloseCancel,
           CloseReturns, Change, fields
  <2> QED
    BY <2>0, <2>1
<1>2. IInv /\ [Next]_vars =>
        [Closed => lastErr' = ErrClosed /\ last' = None]_vars
  BY <1>1
<1> QED
  BY <1>2, Invariance, PTL DEF Spec, ClosedForGood

=============================================================================
