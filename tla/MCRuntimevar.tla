---------------------------- MODULE MCRuntimevar ----------------------------
(***************************************************************************)
(* runtimevar, checked in one run: in each behaviour a Variable over some  *)
(* driver is at work, or one of the drivers (Watchers).                    *)
(***************************************************************************)
EXTENDS Variable

CONSTANTS Drivers, Values, BadContents, Empty, NoState, MaxFaults   \* of Watchers

VARIABLES
    part,    \* what is at work
    driver, var, present, returned, fetched, cur, ch, pc, watching, events, closing, varChanges, faults

W == INSTANCE Watchers WITH Bad <- BadContents, Nil <- NoState, changes <- varChanges

watcherVars ==
    <<driver, var, present, returned, fetched, cur, ch, pc, watching, events, closing, varChanges, faults>>

\* What is not at work stays as it is made.
BothInit ==
    /\ Init /\ W!Init
    /\ \/ part = "Variable" /\ driver = "constantvar" /\ var.val = Empty /\ ~present
       \/ part = "Watchers" /\ actual \in Good

BothNext ==
    \/ part = "Variable" /\ Next /\ UNCHANGED <<part, watcherVars>>
    \/ part = "Watchers" /\ W!Next /\ UNCHANGED <<part, vars>>

\* Fairness is asked of the part at work, which stays the same; written with <>[]
\* for TLC, which then looks at each part by itself.
BothSpec ==
    /\ BothInit /\ [][BothNext]_<<part, vars, watcherVars>>
    /\ \/ <>[](part = "Variable") /\ Fairness
       \/ <>[](part = "Watchers") /\ W!Fairness

---------------------------------------------------------------------------
\* While the application goes on calling Watch, it gets to see what the provider
\* has: WatchSeesChanges of Variable.
VariableSeesChanges == <>[](part = "Watchers") \/ WatchSeesChanges

\* Every driver comes to return the state the variable stays in: ChangesReturned
\* of Watchers.
ChangesReturned == <>[](part = "Variable") \/ W!ChangesReturned

\* Close of filevar and etcdvar returns: CloseCompletes of Watchers.
WatcherCloses == W!CloseCompletes
=============================================================================
