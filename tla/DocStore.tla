------------------------------ MODULE DocStore ------------------------------
(***************************************************************************)
(* docstore.ActionList.Do over memdocstore: concurrent callers run lists of *)
(* actions on the documents of one collection.  Do validates the list,      *)
(* GroupActions orders its gets and writes, and RunActions starts one       *)
(* goroutine per action, group after group; the writes of an atomic list    *)
(* run together in one critical section.  Revisions are meant to let a      *)
(* caller detect that somebody else wrote the document in the meantime.     *)
(*                                                                         *)
(* Every critical section of c.mu is one step.  A document's content is     *)
(* represented by the number of the write that produced it.                 *)
(***************************************************************************)
EXTENDS Integers, Sequences, FiniteSets

CONSTANTS
    Clients,         \* goroutines that call Do
    Keys,            \* keys of documents the callers choose
    UniqueKeys,      \* what the successive calls of driver.UniqueString return,
                     \* as many as are ever made
    Lists,           \* Lists[c]: the action lists c may run
    Budget,          \* Budget[c]: how many lists c runs at most
    Impatient,       \* the callers whose contexts may end
    MaxOutstanding   \* Options.MaxOutstandingActions; 0: no limit

\* No key, no document, no revision.
NilKey == "nilKey"
Absent == [ver |-> 0, rev |-> 0, stamp |-> 0]
NoRev  == 0

Kinds == {"Create", "Replace", "Put", "Update", "Delete", "Get"}

\* What a caller puts into a list.  "doc" says which document it passes: one
\* it got or wrote before, with the revision it then had ("known"), one whose
\* revision field is nil ("blind"), or in an embedded struct that is nil
\* ("nested"), or a struct without such a field ("plain").  "bad" says that it
\* does not encode or decode, or that the modifications do not apply; "atomic"
\* that it follows AtomicWrites().  No two actions share a document.
Actions ==
    [kind : Kinds, key : Keys \cup {NilKey}, doc : {"known", "blind", "nested", "plain"},
     bad : BOOLEAN, atomic : BOOLEAN]

ASSUME DocStoreAssumption ==
    /\ \A i, j \in DOMAIN UniqueKeys :
         /\ i # j => UniqueKeys[i] # UniqueKeys[j]
         /\ UniqueKeys[i] \notin Keys \cup {NilKey}
    /\ NilKey \notin Keys
    /\ \A c \in Clients : \A l \in Lists[c] : l \in Seq(Actions)
    /\ Budget \in [Clients -> Nat]
    /\ Impatient \subseteq Clients
    /\ MaxOutstanding \in Nat

VARIABLES
    docs,         \* c.docs: the stored documents
    curRevision,  \* c.curRevision
    unique,       \* the number of unique strings generated
    pc,           \* where each caller of Do is
    list,         \* the driver actions of its list
    group,        \* the group GroupActions put each action into
    gpc,          \* where the goroutine of each action is
    errs,         \* errs[a.Index]
    ctxDone,      \* the caller's context is done
    known,        \* each caller's copy of a document, as it was got or written
    left,         \* how many lists each caller may still run
    clock,        \* history: the number of writes
    num           \* history: the number of the write an action was or saw

storeVars == <<docs, curRevision, unique, known, clock>>
runVars   == <<list, group, gpc, errs, num>>
vars == <<storeVars, runVars, pc, ctxDone, left>>

AllKeys == Keys \cup {UniqueKeys[i] : i \in DOMAIN UniqueKeys}

-----------------------------------------------------------------------------
(* toDriverActions and GroupActions *)

\* The revision in the document passed with action a.
RevOf(c, a) == IF a.doc = "known" /\ a.key \in Keys THEN known[c][a.key].rev ELSE NoRev

\* toDriverAction: a Put with a revision is a Replace.  "base" and "seen" are
\* history: the write whose revision the document carries, and the last write
\* that had changed the document when it was got or written.
ToDriverAction(c, a) ==
    [kind   |-> IF a.kind = "Put" /\ RevOf(c, a) # NoRev THEN "Replace" ELSE a.kind,
     key    |-> a.key,
     hasRev |-> a.doc # "plain",
     rev    |-> RevOf(c, a),
     base   |-> IF RevOf(c, a) = NoRev THEN 0 ELSE known[c][a.key].stamp,
     seen   |-> IF RevOf(c, a) = NoRev THEN 0 ELSE known[c][a.key].ver,
     nested |-> a.doc = "nested",
     bad    |-> a.bad]

IsGet(a) == a.kind = "Get"

\* toDriverActions refuses the list: a key is missing, a document to create
\* has a revision, or two gets or two writes have the same key.
Refused(c, l) ==
    \E i \in DOMAIN l :
        \/ l[i].key = NilKey /\ l[i].kind # "Create"
        \/ l[i].kind = "Create" /\ RevOf(c, l[i]) # NoRev
        \/ \E j \in 1..(i - 1) :
             l[j].key = l[i].key /\ l[i].key # NilKey /\ IsGet(l[j]) = IsGet(l[i])

\* The groups, in the order in which RunActions runs them.
BeforeGets == 1
Gets       == 2
Writes     == 3
WritesTx   == 4
AfterGets  == 5

\* Slip: a get is not checked for an earlier write with its key.
GroupOfGetFirst(l, i) ==
    IF IsGet(l[i]) THEN Gets
    ELSE IF l[i].atomic /\ l[i].key # NilKey THEN WritesTx ELSE Writes

\* GroupActions: where action i of l goes.  A write without a key is never in
\* the atomic group.
GroupOf(l, i) ==
    IF IsGet(l[i])
    THEN IF \E j \in 1..(i - 1) : ~IsGet(l[j]) /\ l[j].key = l[i].key
         THEN AfterGets
         ELSE IF \E j \in (i + 1)..Len(l) : ~IsGet(l[j]) /\ l[j].key = l[i].key
              THEN BeforeGets
              ELSE Gets
    ELSE IF l[i].atomic /\ l[i].key # NilKey THEN WritesTx ELSE Writes

\* Do, up to the first group: validation, then the BeforeDo callback, whose
\* error becomes that of every action, then GroupActions.
DoCall(c) ==
    /\ pc[c] = "idle"
    /\ left[c] > 0
    /\ left' = [left EXCEPT ![c] = @ - 1]
    /\ ctxDone' = [ctxDone EXCEPT ![c] = FALSE]
    /\ \E l \in Lists[c] :
         LET all(v) == [i \in DOMAIN l |-> v] IN
         IF Refused(c, l)
         THEN /\ list' = [list EXCEPT ![c] = <<>>]
              /\ gpc' = [gpc EXCEPT ![c] = <<>>]
              /\ UNCHANGED <<pc, group, errs, num>>
         ELSE /\ list' = [list EXCEPT ![c] =
                            [i \in DOMAIN l |-> ToDriverAction(c, l[i])]]
              /\ group' = [group EXCEPT ![c] =
                             [i \in DOMAIN l |-> GroupOf(l, i)]]
              /\ num' = [num EXCEPT ![c] = all(0)]
              /\ \/ /\ pc' = [pc EXCEPT ![c] = "running"]
                    /\ gpc' = [gpc EXCEPT ![c] = all("none")]
                    /\ errs' = [errs EXCEPT ![c] = all("none")]
                 \/ /\ gpc' = [gpc EXCEPT ![c] = all("done")]
                    /\ errs' = [errs EXCEPT ![c] = all("BeforeDoError")]
                    /\ UNCHANGED pc
    /\ UNCHANGED storeVars

-----------------------------------------------------------------------------
(* The functions that run with c.mu held *)

\* The document action a is about.
Current(a) == IF a.key = NilKey THEN Absent ELSE docs[a.key]

NotFound(a) == Current(a) = Absent /\ a.kind \in {"Replace", "Update", "Get"}

\* Slip: a revision that is older than the stored one passes.
MismatchedIfNewer(a) ==
    /\ Current(a) # Absent
    /\ a.rev # NoRev
    /\ a.rev > Current(a).rev

\* checkRevision finds the revisions of a's document and of the stored one
\* different.  If either of them has none there is nothing to check.
Mismatched(a) ==
    /\ Current(a) # Absent
    /\ Current(a).rev # NoRev
    /\ a.rev # NoRev
    /\ a.rev # Current(a).rev

\* executeAction calls changeRevision.
ChangesRevision(a) == a.hasRev /\ a.kind \notin {"Delete", "Get"}

\* SetField cannot set the new revision in the caller's document.
Unset(a) == ChangesRevision(a) /\ a.nested

\* What executeAction returns for a write.
ExecuteError(a) ==
    IF a.kind = "Create" /\ Current(a) # Absent THEN "AlreadyExists"
    ELSE IF a.kind # "Delete" /\ a.bad THEN "InvalidArgument"
    ELSE IF Unset(a) THEN "RevisionUnset"
    ELSE "ok"

\* executeAction fails only after it has used up a revision, and Update has
\* changed the stored document.
FailsLate(a) == ExecuteError(a) = "RevisionUnset"

\* The stored document after a, the t-th write, with r the revision that
\* changeRevision assigns.
Written(a, t, r) ==
    IF a.kind = "Delete" THEN Absent
    ELSE IF Unset(a) /\ a.kind # "Update" THEN Current(a)
    ELSE LET keep == a.kind = "Update" /\ ~ChangesRevision(a) IN
         [ver   |-> t,
          rev   |-> IF keep THEN Current(a).rev
                    ELSE IF ChangesRevision(a) THEN r ELSE NoRev,
          stamp |-> IF keep THEN Current(a).stamp
                    ELSE IF ChangesRevision(a) THEN t ELSE 0]

\* executeAction of the actions S of c, in their order, with l their list: the
\* documents change, and so do the revisions in the documents the caller
\* passed.
Execute(c, l, S) ==
    LET tick(i) == clock + Cardinality({j \in S : j <= i})
        bumps   == {j \in S : ChangesRevision(l[j])}
        rev(i)  == curRevision + Cardinality({j \in bumps : j <= i})
    IN /\ clock' = clock + Cardinality(S)
       /\ curRevision' = curRevision + Cardinality(bumps)
       /\ docs' = [k \in AllKeys |->
                     IF \E i \in S : l[i].key = k
                     THEN LET i == CHOOSE j \in S : l[j].key = k
                          IN Written(l[i], tick(i), rev(i))
                     ELSE docs[k]]
       /\ known' = [known EXCEPT ![c] =
                      [k \in Keys |->
                         IF \E i \in bumps : l[i].key = k /\ ~Unset(l[i])
                         THEN LET i == CHOOSE j \in bumps : l[j].key = k /\ ~Unset(l[j])
                              IN [ver |-> tick(i), rev |-> rev(i), stamp |-> tick(i)]
                         ELSE @[k]]]
       /\ num' = [num EXCEPT ![c] =
                    [i \in DOMAIN l |-> IF i \in S THEN tick(i) ELSE @[i]]]

-----------------------------------------------------------------------------
(* RunActions *)

NotDone(c) == {i \in DOMAIN list[c] : gpc[c][i] # "done"}

\* The group that is running: run waits for all of it before the next starts.
UnderWay(c) ==
    {i \in NotDone(c) : \A j \in NotDone(c) : group[c][i] <= group[c][j]}

Outstanding(c) ==
    {i \in DOMAIN list[c] : gpc[c][i] \in {"check", "lock", "release"}}

\* Throttle.Acquire does not block.
MayAcquire(c) ==
    MaxOutstanding > 0 => Cardinality(Outstanding(c)) < MaxOutstanding

\* The order of a group: by index, writes without a key last.
Before(c, i, j) ==
    IF (list[c][i].key = NilKey) = (list[c][j].key = NilKey)
    THEN i < j
    ELSE list[c][j].key = NilKey

\* t.Acquire() and go, for the next action of the group.
Spawn(c, i) ==
    /\ pc[c] = "running"
    /\ i \in UnderWay(c)
    /\ group[c][i] # WritesTx
    /\ gpc[c][i] = "none"
    /\ \A j \in UnderWay(c) : gpc[c][j] = "none" => ~Before(c, j, i)
    /\ MayAcquire(c)
    /\ gpc' = [gpc EXCEPT ![c][i] = "check"]
    /\ UNCHANGED <<storeVars, list, group, errs, num, pc, ctxDone, left>>

\* runAction stops if the context is done.
RunActionCheck(c, i) ==
    /\ gpc[c][i] = "check"
    /\ IF ctxDone[c]
       THEN /\ gpc' = [gpc EXCEPT ![c][i] = "release"]
            /\ errs' = [errs EXCEPT ![c][i] = "Canceled"]
       ELSE /\ gpc' = [gpc EXCEPT ![c][i] = "lock"]
            /\ UNCHANGED errs
    /\ UNCHANGED <<storeVars, list, group, num, pc, ctxDone, left>>

\* The error of decodeDoc: a field does not decode, or the struct has no field
\* for the stored revision.
DecodeError(a) ==
    IF a.bad \/ (~a.hasRev /\ Current(a).rev # NoRev) THEN "InvalidArgument" ELSE "ok"

\* The error of runAction.
RunActionError(a) ==
    IF NotFound(a) THEN "NotFound"
    ELSE IF a.kind \notin {"Get", "Create"} /\ Mismatched(a) THEN "FailedPrecondition"
    ELSE IF IsGet(a) THEN DecodeError(a)
    ELSE ExecuteError(a)

\* A get copies the stored document, and its revision, to the caller's.  One
\* that fails to decode may have copied the revision before it failed.
GetDoc(c, i) ==
    LET a == list[c][i] IN
    /\ num' = [num EXCEPT ![c][i] = docs[a.key].ver]
    /\ \/ a.hasRev /\ known' = [known EXCEPT ![c][a.key] = docs[a.key]]
       \/ (~a.hasRev \/ a.bad) /\ UNCHANGED known
    /\ UNCHANGED <<docs, curRevision, clock, unique, list>>

\* A write; one without a key makes up a unique one.
WriteDoc(c, i) ==
    IF list[c][i].key # NilKey
    THEN Execute(c, list[c], {i}) /\ UNCHANGED <<unique, list>>
    ELSE /\ unique + 1 \in DOMAIN UniqueKeys
         /\ unique' = unique + 1
         /\ list' = [list EXCEPT ![c][i].key = UniqueKeys[unique']]
         /\ Execute(c, list'[c], {i})

\* runAction's critical section.
RunAction(c, i) ==
    /\ gpc[c][i] = "lock"
    /\ LET e == RunActionError(list[c][i]) IN
         /\ errs' = [errs EXCEPT ![c][i] = e]
         /\ IF IsGet(list[c][i]) /\ e # "NotFound" THEN GetDoc(c, i)
            ELSE IF e \in {"ok", "RevisionUnset"} THEN WriteDoc(c, i)
            ELSE UNCHANGED <<storeVars, list, num>>
    /\ gpc' = [gpc EXCEPT ![c][i] = "release"]
    /\ UNCHANGED <<group, pc, ctxDone, left>>

\* Slip: an action that failed does not release its token.
ReleaseIfOk(c, i) ==
    /\ gpc[c][i] = "release"
    /\ errs[c][i] = "ok"
    /\ gpc' = [gpc EXCEPT ![c][i] = "done"]
    /\ UNCHANGED <<storeVars, list, group, errs, num, pc, ctxDone, left>>

\* defer t.Release()
Release(c, i) ==
    /\ gpc[c][i] = "release"
    /\ gpc' = [gpc EXCEPT ![c][i] = "done"]
    /\ UNCHANGED <<storeVars, list, group, errs, num, pc, ctxDone, left>>

\* The actions S of c end with error e.
AllEnd(c, S, e) ==
    /\ errs' = [errs EXCEPT ![c] = [i \in DOMAIN @ |-> IF i \in S THEN e ELSE @[i]]]
    /\ gpc' = [gpc EXCEPT ![c] = [i \in DOMAIN @ |-> IF i \in S THEN "done" ELSE @[i]]]

\* runAtomicWrites stops if the context is done.
AtomicCheck(c) ==
    /\ pc[c] = "running"
    /\ \E i \in UnderWay(c) : group[c][i] = WritesTx
    /\ IF ctxDone[c]
       THEN AllEnd(c, UnderWay(c), "Canceled") /\ UNCHANGED pc
       ELSE pc' = [pc EXCEPT ![c] = "atomic"] /\ UNCHANGED <<errs, gpc>>
    /\ UNCHANGED <<storeVars, list, group, num, ctxDone, left>>

First(S) == CHOOSE i \in S : \A j \in S : i <= j

\* The error of the loop of runAtomicWrites that validates.
ValidateError(a) ==
    IF NotFound(a) THEN "NotFound"
    ELSE IF Mismatched(a) THEN "FailedPrecondition"
    ELSE "ok"

\* The critical section of runAtomicWrites: all actions are validated, then
\* executed until one fails.  Its error becomes that of all of them.
AtomicRun(c) ==
    /\ pc[c] = "atomic"
    /\ LET T == UnderWay(c)
           l == list[c]
           invalid == {i \in T : ValidateError(l[i]) # "ok"}
           failing == {i \in T : ExecuteError(l[i]) # "ok"}
       IN IF invalid # {}
          THEN /\ AllEnd(c, T, ValidateError(l[First(invalid)]))
               /\ UNCHANGED <<storeVars, num>>
          ELSE /\ AllEnd(c, T, IF failing = {} THEN "ok"
                               ELSE ExecuteError(l[First(failing)]))
               /\ Execute(c, l, {i \in T : \A j \in failing :
                                          i < j \/ (i = j /\ FailsLate(l[i]))})
               /\ UNCHANGED unique
    /\ pc' = [pc EXCEPT ![c] = "running"]
    /\ UNCHANGED <<list, group, ctxDone, left>>

\* The last group is done, and Do returns the errors.
DoReturns(c) ==
    /\ pc[c] = "running"
    /\ NotDone(c) = {}
    /\ pc' = [pc EXCEPT ![c] = "idle"]
    /\ UNCHANGED <<storeVars, runVars, ctxDone, left>>

CtxDone(c) ==
    /\ c \in Impatient
    /\ pc[c] # "idle"
    /\ ~ctxDone[c]
    /\ ctxDone' = [ctxDone EXCEPT ![c] = TRUE]
    /\ UNCHANGED <<storeVars, runVars, pc, left>>

-----------------------------------------------------------------------------
Init ==
    /\ docs = [k \in AllKeys |-> Absent]
    /\ curRevision = 0
    /\ unique = 0
    /\ pc = [c \in Clients |-> "idle"]
    /\ list = [c \in Clients |-> <<>>]
    /\ group = [c \in Clients |-> <<>>]
    /\ gpc = [c \in Clients |-> <<>>]
    /\ errs = [c \in Clients |-> <<>>]
    /\ num = [c \in Clients |-> <<>>]
    /\ ctxDone = [c \in Clients |-> FALSE]
    /\ known = [c \in Clients |-> [k \in Keys |-> Absent]]
    /\ left = Budget
    /\ clock = 0

RunActionStep(c, i) == RunActionCheck(c, i) \/ RunAction(c, i) \/ Release(c, i)

RunStep(c) ==
    \/ \E i \in DOMAIN list[c] : Spawn(c, i)
    \/ AtomicCheck(c)
    \/ AtomicRun(c)
    \/ DoReturns(c)

Next ==
    \E c \in Clients :
        \/ DoCall(c)
        \/ RunStep(c)
        \/ \E i \in DOMAIN list[c] : RunActionStep(c, i)
        \/ CtxDone(c)

Spec == Init /\ [][Next]_vars

\* The Go scheduler runs every goroutine that can run.
Fairness ==
    \A c \in Clients :
        /\ WF_vars(RunStep(c))
        /\ WF_vars(\E i \in DOMAIN list[c] : RunActionStep(c, i))

FairSpec == Spec /\ Fairness

-----------------------------------------------------------------------------
(* Properties *)

\* "The Get and write will be executed in the order specified in the list: a
\* Get before a write will see the old value of the document; a Get after the
\* write will see the new value", or a newer one, whatever goroutines and
\* other callers do.
ListOrder ==
    \A c \in Clients : \A i, j \in DOMAIN list[c] :
        /\ IsGet(list[c][i]) /\ errs[c][i] = "ok"
        /\ ~IsGet(list[c][j]) /\ errs[c][j] = "ok"
        /\ list[c][i].key = list[c][j].key
        => IF i < j THEN num[c][i] < num[c][j] ELSE num[c][i] >= num[c][j]

\* Optimistic locking: a write whose document carries a revision succeeds on a
\* stored document that has one only if nobody has given that document another
\* revision since.  As revisions are only numbers, this rests on no number being
\* given twice, also when a document is deleted and created again.  It says
\* nothing of writes by documents without the revision field, which give no
\* revision: Put and Replace leave none, and Update leaves the old one in place
\* (StaleWritesFail).
NoLostUpdate ==
    [][\A c \in Clients : \A i \in DOMAIN list[c] :
         LET a == list[c][i] IN
         /\ pc[c] # "idle" /\ errs[c][i] = "none" /\ errs'[c][i] = "ok"
         /\ ~IsGet(a) /\ a.rev # NoRev
         /\ Current(a) # Absent /\ Current(a).rev # NoRev
         => Current(a).stamp = a.base]_vars

\* Do returns, though its goroutines compete for the tokens of the Throttle
\* and for the lock of the collection.
DoCompletes == \A c \in Clients : []<>(pc[c] = "idle")

-----------------------------------------------------------------------------
(* What the documentation and a comment say and the code does not do *)

\* "If you call Get to retrieve a document with a revision, then later perform a
\* write action with that same document, it will fail if the document was
\* changed since the Get": a write with a revision succeeds on a stored document
\* only if that is as it was when the caller got or wrote it.
StaleWritesFail ==
    [][\A c \in Clients : \A i \in DOMAIN list[c] :
         LET a == list[c][i] IN
         /\ pc[c] # "idle" /\ errs[c][i] = "none" /\ errs'[c][i] = "ok"
         /\ ~IsGet(a) /\ a.rev # NoRev /\ Current(a) # Absent
         => Current(a).ver = a.seen]_vars

\* "All writes either succeed or all fail together": if an action of the
\* atomic group fails, no document changes.
AllOrNothing ==
    [][\A c \in Clients :
         (\E i \in DOMAIN list[c] :
            /\ pc[c] # "idle" /\ group[c][i] = WritesTx
            /\ errs[c][i] = "none" /\ errs'[c][i] \notin {"none", "ok"})
         => docs' = docs]_vars
=============================================================================
