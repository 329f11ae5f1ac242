------------------------------ MODULE Variable ------------------------------
(***************************************************************************)
(* runtimevar.Variable: a background goroutine asks the driver's watcher    *)
(* for new states of a configuration variable; one goroutine at a time      *)
(* waits for changes in Watch, any number ask for the last good value with  *)
(* Latest and CheckHealth, and Close stops everything.                      *)
(*                                                                         *)
(* A critical section of c.mu is one step, as is each select.  The channel  *)
(* c.changed is modelled by what its readers can tell: whether the channel  *)
(* in c.lastWatch is closed, and whether the one in c.changed is.           *)
(***************************************************************************)
EXTENDS Integers, FiniteSets

CONSTANTS
    Good,        \* states of the variable that decode to a value
    Bad,         \* states that are errors
    Readers,     \* goroutines that call Latest or CheckHealth
    Closers,     \* goroutines that call Close
    MaxChanges   \* bound: how often the variable changes

NoValueYet == "noValueYet"
ErrClosed  == "ErrClosed"
Nil        == "nil"
None       == "zeroSnapshot"

ASSUME VariableAssumption ==
    /\ Good \cap Bad = {}
    /\ (Good \cup Bad) \cap {NoValueYet, ErrClosed, Nil, None} = {}
    /\ MaxChanges \in Nat

VARIABLES
    \* fields of Variable
    last,          \* c.last
    lastErr,       \* c.lastErr
    lastGood,      \* c.lastGood
    haveGoodCh,    \* c.haveGoodCh is closed
    changedClosed, \* the channel in c.changed is closed
    watchReady,    \* the channel in c.lastWatch is closed
    cancelled,     \* backgroundCancel has been called
    \* goroutines
    bpc,           \* where the background goroutine is
    curState,      \* its curState, or None
    prevState,     \* its prevState, or None
    wpc,           \* where the caller of Watch is
    rpc,           \* where each caller of Latest and CheckHealth is
    cpc,           \* where each caller of Close is
    dclosed,       \* the driver has been closed
    \* the outside world, and history
    actual,        \* the state of the variable at the provider
    changes,       \* how often it has changed
    seen,          \* what the last Watch returned, value and error
    answer         \* what a reader's last call returned, until its next one

fields == <<last, lastErr, lastGood, haveGoodCh, changedClosed, watchReady,
            cancelled>>
world == <<actual, changes>>
vars == <<fields, bpc, curState, prevState, wpc, rpc, cpc, dclosed, world, seen,
          answer>>

Closed == lastErr = ErrClosed

NoAnswer == [call |-> "none", value |-> None, err |-> Nil]

-----------------------------------------------------------------------------
(* The background goroutine *)

\* The select: the context is done, or the wait is over.  If both are there
\* either may be chosen.
BackgroundSelect ==
    /\ bpc = "select"
    /\ \/ cancelled /\ bpc' = "done"
       \/ bpc' = "watching"
    /\ UNCHANGED <<fields, curState, prevState, wpc, rpc, cpc, dclosed, world,
                   seen, answer>>

\* dw.WatchVariable(ctx, prevState) returns: the state if it is not the one
\* passed in, or nil.
WatchVariable ==
    /\ bpc = "watching"
    /\ \/ /\ actual # prevState
          /\ curState' = actual
          /\ prevState' = actual
          /\ bpc' = "update"
       \/ /\ bpc' = "select"
          /\ UNCHANGED <<curState, prevState>>
    /\ UNCHANGED <<fields, wpc, rpc, cpc, dclosed, world, seen, answer>>

\* Slip: no check for a Close that came in between.
MustNotUpdateNever == FALSE

\* "Updates under the lock" are not made once the Variable is closed.
MustNotUpdate == Closed

\* Slip: an error state also takes the place of the last good value.
NextGoodAny == IF curState \in Good THEN curState ELSE None

\* What the update makes of c.lastGood.
NextGood == IF curState \in Good THEN curState ELSE lastGood

\* Slip: only a good value is announced to Watch.
AnnouncesGood == curState \in Good

\* close(c.changed) is done for good values and for errors.
Announces == curState \in Good \cup Bad

\* The update under the lock.  Closing a closed channel panics.
BackgroundUpdate ==
    /\ bpc = "update"
    /\ IF MustNotUpdate
       THEN bpc' = "done" /\ UNCHANGED fields
       ELSE /\ last' = IF curState \in Good THEN curState ELSE None
            /\ lastErr' = IF curState \in Good THEN Nil ELSE curState
            /\ lastGood' = NextGood
            /\ haveGoodCh' = (haveGoodCh \/ curState \in Good)
            /\ IF Announces
               THEN /\ bpc' = IF changedClosed THEN "panic" ELSE "select"
                    /\ watchReady' = TRUE
               ELSE bpc' = "select" /\ UNCHANGED watchReady
            /\ UNCHANGED <<changedClosed, cancelled>>
    /\ curState' = None
    /\ UNCHANGED <<prevState, wpc, rpc, cpc, dclosed, world, seen, answer>>

-----------------------------------------------------------------------------
(* Watch, called by one goroutine at a time *)

WatchCall ==
    /\ wpc = "idle"
    /\ wpc' = "select"
    /\ UNCHANGED <<fields, bpc, curState, prevState, rpc, cpc, dclosed, world,
                   seen, answer>>

\* The select: lastWatch is closed, or ctx is done.
WatchSelect ==
    /\ wpc = "select"
    /\ \/ watchReady /\ wpc' = "lock"
       \/ wpc' = "lock-ctx-done"
    /\ UNCHANGED <<fields, bpc, curState, prevState, rpc, cpc, dclosed, world,
                   seen, answer>>

\* The critical section, and the return.
WatchReturns ==
    /\ wpc \in {"lock", "lock-ctx-done"}
    /\ wpc' = "idle"
    /\ IF Closed
       THEN seen' = <<None, ErrClosed>> /\ UNCHANGED watchReady
       ELSE IF wpc = "lock"
       THEN seen' = <<last, lastErr>> /\ watchReady' = changedClosed
       ELSE UNCHANGED <<seen, watchReady>>
    /\ UNCHANGED <<last, lastErr, lastGood, haveGoodCh, changedClosed, cancelled,
                   bpc, curState, prevState, rpc, cpc, dclosed, world, answer>>

-----------------------------------------------------------------------------
(* Latest and CheckHealth *)

\* Both read haveGoodCh first; Latest then waits if there is no good value.
LatestCall(r) ==
    /\ rpc[r] = "idle"
    /\ rpc' = [rpc EXCEPT ![r] =
                 IF haveGoodCh THEN "lock-good" ELSE "select"]
    /\ answer' = [answer EXCEPT ![r] = NoAnswer]
    /\ UNCHANGED <<fields, bpc, curState, prevState, wpc, cpc, dclosed, world,
                   seen>>

\* Latest's select: haveGoodCh is closed, or ctx is done.
LatestSelect(r) ==
    /\ rpc[r] = "select"
    /\ \/ haveGoodCh /\ rpc' = [rpc EXCEPT ![r] = "lock-good"]
       \/ rpc' = [rpc EXCEPT ![r] = "lock-ctx-done"]
    /\ UNCHANGED <<fields, bpc, curState, prevState, wpc, cpc, dclosed, world,
                   seen, answer>>

\* Latest's critical section, and its return.
LatestReturns(r) ==
    /\ rpc[r] \in {"lock-good", "lock-ctx-done"}
    /\ answer' = [answer EXCEPT ![r] =
                    IF rpc[r] = "lock-good" /\ ~Closed
                    THEN [call |-> "Latest", value |-> lastGood, err |-> Nil]
                    ELSE [call |-> "Latest", value |-> None, err |-> lastErr]]
    /\ rpc' = [rpc EXCEPT ![r] = "idle"]
    /\ UNCHANGED <<fields, bpc, curState, prevState, wpc, cpc, dclosed, world,
                   seen>>

CheckHealthCall(r) ==
    /\ rpc[r] = "idle"
    /\ rpc' = [rpc EXCEPT ![r] =
                 IF haveGoodCh THEN "health-good" ELSE "health-not-good"]
    /\ answer' = [answer EXCEPT ![r] = NoAnswer]
    /\ UNCHANGED <<fields, bpc, curState, prevState, wpc, cpc, dclosed, world,
                   seen>>

\* CheckHealth's critical section, and its return; value is what Latest would
\* have returned at that moment.
CheckHealthReturns(r) ==
    /\ rpc[r] \in {"health-good", "health-not-good"}
    /\ answer' = [answer EXCEPT ![r] =
                    [call |-> "CheckHealth", value |-> lastGood,
                     err |-> IF rpc[r] = "health-good" /\ ~Closed
                             THEN Nil ELSE lastErr]]
    /\ rpc' = [rpc EXCEPT ![r] = "idle"]
    /\ UNCHANGED <<fields, bpc, curState, prevState, wpc, cpc, dclosed, world,
                   seen>>

-----------------------------------------------------------------------------
(* Close *)

\* Slip: Close does not wake those who wait for a good value.
CloseCallNoWake(c) ==
    /\ cpc[c] = "idle"
    /\ IF Closed
       THEN /\ cpc' = [cpc EXCEPT ![c] = "refused"]
            /\ UNCHANGED fields
       ELSE /\ cpc' = [cpc EXCEPT ![c] = "cancel"]
            /\ last' = None
            /\ lastErr' = ErrClosed
            /\ changedClosed' = TRUE
            /\ watchReady' = TRUE
            /\ UNCHANGED <<lastGood, haveGoodCh, cancelled>>
    /\ UNCHANGED <<bpc, curState, prevState, wpc, rpc, dclosed, world, seen,
                   answer>>

\* The critical section.
CloseCall(c) ==
    /\ cpc[c] = "idle"
    /\ IF Closed
       THEN /\ cpc' = [cpc EXCEPT ![c] = "refused"]
            /\ UNCHANGED fields
       ELSE /\ cpc' = [cpc EXCEPT ![c] = "cancel"]
            /\ last' = None
            /\ lastErr' = ErrClosed
            /\ changedClosed' = TRUE
            /\ watchReady' = TRUE
            /\ haveGoodCh' = TRUE
            /\ UNCHANGED <<lastGood, cancelled>>
    /\ UNCHANGED <<bpc, curState, prevState, wpc, rpc, dclosed, world, seen,
                   answer>>

\* backgroundCancel(), outside of the lock.
CloseCancel(c) ==
    /\ cpc[c] = "cancel"
    /\ cpc' = [cpc EXCEPT ![c] = "wait"]
    /\ cancelled' = TRUE
    /\ UNCHANGED <<last, lastErr, lastGood, haveGoodCh, changedClosed,
                   watchReady, bpc, curState, prevState, wpc, rpc, dclosed,
                   world, seen, answer>>

\* <-c.backgroundDone, and dw.Close().
CloseReturns(c) ==
    /\ cpc[c] = "wait"
    /\ bpc = "done"
    /\ cpc' = [cpc EXCEPT ![c] = "returned"]
    /\ dclosed' = TRUE
    /\ UNCHANGED <<fields, bpc, curState, prevState, wpc, rpc, world, seen,
                   answer>>

-----------------------------------------------------------------------------
\* The variable changes at the provider.
Change(s) ==
    /\ changes < MaxChanges
    /\ s # actual
    /\ actual' = s
    /\ changes' = changes + 1
    /\ UNCHANGED <<fields, bpc, curState, prevState, wpc, rpc, cpc, dclosed,
                   seen, answer>>

Init ==
    /\ last = None
    /\ lastErr = NoValueYet
    /\ lastGood = None
    /\ haveGoodCh = FALSE
    /\ changedClosed = FALSE
    /\ watchReady = FALSE
    /\ cancelled = FALSE
    /\ bpc = "select"
    /\ curState = None
    /\ prevState = None
    /\ wpc = "idle"
    /\ rpc = [r \in Readers |-> "idle"]
    /\ cpc = [c \in Closers |-> "idle"]
    /\ dclosed = FALSE
    /\ actual \in Good \cup Bad
    /\ changes = 0
    /\ seen = <<None, Nil>>
    /\ answer = [r \in Readers |-> NoAnswer]

Background == BackgroundSelect \/ WatchVariable \/ BackgroundUpdate
Watch == WatchSelect \/ WatchReturns
Latest(r) == LatestCall(r) \/ LatestSelect(r) \/ LatestReturns(r)
CheckHealth(r) == CheckHealthCall(r) \/ CheckHealthReturns(r)
Close(c) == CloseCancel(c) \/ CloseReturns(c)

Next ==
    \/ Background
    \/ WatchCall
    \/ Watch
    \/ \E r \in Readers : Latest(r) \/ CheckHealth(r)
    \/ \E c \in Closers : CloseCall(c) \/ Close(c)
    \/ \E s \in Good \cup Bad : Change(s)

Spec == Init /\ [][Next]_vars

\* The Go scheduler runs every goroutine that can run; WatchVariable returns
\* when ctx is done or the variable has changed, and the driver must
\* eventually return a change.  The strong fairness conditions say that a
\* select with two ready cases does not choose the same one for ever and that
\* a context passed to Watch is not always done.  Nothing makes anybody call
\* Latest or Close; the application calls Watch in a loop.
Fairness ==
    /\ WF_vars(Background)
    /\ SF_vars(BackgroundSelect /\ bpc' = "done")
    /\ SF_vars(WatchVariable /\ curState' # None)
    /\ WF_vars(WatchCall)
    /\ SF_vars(WatchSelect /\ wpc' = "lock")
    /\ WF_vars(WatchReturns)
    /\ \A r \in Readers :
         WF_vars(LatestReturns(r) \/ CheckHealthReturns(r)
                   \/ (haveGoodCh /\ LatestSelect(r)))
    /\ \A c \in Closers : WF_vars(Close(c))

FairSpec == Spec /\ Fairness

-----------------------------------------------------------------------------
(* Properties *)

\* "CheckHealth returns an error unless Latest will return a good value": it
\* reads haveGoodCh and c.lastErr at different times, and still answers nil
\* only when there is a good value.
HealthyMeansGood ==
    \A r \in Readers :
        answer[r].call = "CheckHealth" /\ answer[r].err = Nil
            => answer[r].value \in Good

\* "The Variable is unusable after Close returns": the background goroutine,
\* which may be about to store a state it has just got, never brings a closed
\* Variable back to life.
ClosedForGood == [][Closed => lastErr' = ErrClosed /\ last' = None]_vars

\* No change is lost: while the application goes on calling Watch, it gets to
\* see what the provider has, if that stays, or that the Variable is closed.
WatchSeesChanges ==
    \A s \in Good \cup Bad :
        <>[](actual = s) =>
            <>[](\/ seen = <<s, Nil>>
                 \/ seen = <<None, s>>
                 \/ seen[2] = ErrClosed)

\* Close returns although a WatchVariable may be in progress, and wakes those
\* who wait in Latest and Watch.
CloseCompletes ==
    /\ \A c \in Closers : <>[](cpc[c] \in {"idle", "refused", "returned"})
    /\ \A r \in Readers : []<>(Closed => rpc[r] = "idle")
    /\ []<>(Closed => wpc = "idle")

=============================================================================
