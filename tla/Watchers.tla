------------------------------ MODULE Watchers ------------------------------
(***************************************************************************)
(* The drivers of runtimevar: how each implementation of driver.Watcher    *)
(* finds out that its variable has changed.                                *)
(*                                                                         *)
(* Polling drivers fetch the variable on every call of WatchVariable and   *)
(* compare it with the state they returned last: blobvar, httpvar,         *)
(* gcpruntimeconfig, gcpsecretmanager and hashivault compare bytes,        *)
(* awsparamstore and awssecretsmanager compare versions.  filevar and      *)
(* etcdvar have a goroutine that is told of changes and leaves the newest  *)
(* state in a channel of one slot.  constantvar never changes.             *)
(*                                                                         *)
(* The caller is the goroutine of runtimevar.Variable: it passes the last  *)
(* state it was given, keeps calling, and calls Close when it is done.     *)
(***************************************************************************)
EXTENDS Naturals, Sequences

CONSTANTS
    Drivers,     \* the drivers to check
    Values,      \* contents of a variable that decode
    Bad,         \* contents that does not decode
    Empty,       \* contents of no bytes, which decodes; also a nil slice
    Nil,         \* no state
    MaxChanges,  \* bound on changes of the variable
    MaxFaults    \* bound on failed requests

Contents == Values \union {Bad, Empty}

NoErr == [msg |-> "none", code |-> "none"]

\* Errors of the service: the same code with two texts, a text without a
\* code, and a cancelled request.
ServiceErrors == {[msg |-> "m1", code |-> "c1"], [msg |-> "m2", code |-> "c1"],
                  [msg |-> "m3", code |-> "none"], [msg |-> "m4", code |-> "cancelled"]}
NotFound == [msg |-> "notfound", code |-> "notfound"]
Undecodable == [msg |-> "decode", code |-> "none"]
Invalid == [msg |-> "invalid", code |-> "none"]
AddFails == [msg |-> "add", code |-> "none"]
NotifierFails == [msg |-> "notifier", code |-> "none"]
CtxError == [msg |-> "ctx", code |-> "none"]

VARIABLES
    driver,
    var,        \* the variable: its contents, version, and a unique id
    present,    \* whether the variable exists
    returned,   \* the last state WatchVariable returned
    fetched,    \* between the two requests of a call: reply to the first
    cur, ch,    \* filevar, etcdvar: state of the goroutine, and its channel
    pc,         \* filevar, etcdvar: where the goroutine is
    watching,   \* filevar, etcdvar: changes are notified
    events,     \* notifications not yet taken
    closing,    \* Close has cancelled the context of the goroutine
    changes, faults

vars == <<driver, var, present, returned, fetched, cur, ch, pc, watching, events, closing,
          changes, faults>>

service == <<var, present, events, changes>>
goroutine == <<cur, pc, watching>>

-----------------------------------------------------------------------------
(***************************************************************************)
(* States                                                                  *)
(***************************************************************************)
ErrState(e) == [err |-> e, val |-> Nil, raw |-> Empty, ver |-> 0, id |-> 0]

GoodState(r) == [err |-> NoErr, val |-> r.val, raw |-> r.val, ver |-> r.ver, id |-> r.id]

\* A new state for what was fetched, or an error if it does not decode.
Decoded(r) == IF r.val = Bad THEN ErrState(Undecodable) ELSE GoodState(r)

\* errorState: no change if prev is the same error.
Unless(e, prev, Same(_, _)) ==
    IF prev # Nil /\ prev.err # NoErr /\ Same(e, prev.err) THEN Nil ELSE ErrState(e)

SameText(e, f) == e.msg = f.msg
SameCode(e, f) == SameText(e, f) \/ (e.code # "none" /\ e.code = f.code)

BlobvarErrorState(e, prev) == Unless(e, prev, SameText)

HttpvarErrorState(e, prev) == Unless(e, prev, SameCode)
RuntimeConfigErrorState(e, prev) == Unless(e, prev, SameCode)
SecretManagerErrorState(e, prev) == Unless(e, prev, SameCode)
HashivaultErrorState(e, prev) == Unless(e, prev, SameCode)

\* The AWS drivers turn a cancelled request into an error of its context.
Cancelled(e) == IF e.code = "cancelled" THEN CtxError ELSE e
ParamStoreErrorState(e, prev) == Unless(Cancelled(e), prev, SameCode)
SecretsManagerErrorState(e, prev) == Unless(Cancelled(e), prev, SameCode)

-----------------------------------------------------------------------------
(***************************************************************************)
(* WatchVariable of the polling drivers: r is the reply of the service, an *)
(* error or the contents; the result is a new state or Nil.                *)
(***************************************************************************)
Checked(r, prev, Unchanged, ErrorState(_, _)) ==
    CASE r.err # NoErr                      -> ErrorState(r.err, prev)
      [] r.err = NoErr /\ Unchanged         -> Nil
      [] r.err = NoErr /\ ~Unchanged        ->
            IF r.val = Bad THEN ErrorState(Undecodable, prev) ELSE GoodState(r)

SameBytes(r, prev) == prev # Nil /\ r.err = NoErr /\ prev.raw = r.val

BlobvarWatch(r, prev) == Checked(r, prev, SameBytes(r, prev), BlobvarErrorState)
HttpvarWatch(r, prev) == Checked(r, prev, SameBytes(r, prev), HttpvarErrorState)
RuntimeConfigWatch(r, prev) == Checked(r, prev, SameBytes(r, prev), RuntimeConfigErrorState)
HashivaultWatch(r, prev) == Checked(r, prev, SameBytes(r, prev), HashivaultErrorState)

\* getParameter and the comparison of versions; an error has version 0.
ParamStoreWatch(r, prev) ==
    Checked(r, prev, prev # Nil /\ prev.ver = r.ver, ParamStoreErrorState)

\* Before the second request: a payload without data is an error, and for
\* awssecretsmanager an unchanged version ends the call.
SecretManagerAccess(r, prev) ==
    IF r.err # NoErr \/ r.val = Empty
    THEN [done |-> TRUE, state |-> SecretManagerErrorState(IF r.err # NoErr THEN r.err ELSE Invalid, prev)]
    ELSE [done |-> FALSE, state |-> Nil]

SecretsManagerGet(r, prev) ==
    CASE r.err # NoErr -> [done |-> TRUE, state |-> SecretsManagerErrorState(r.err, prev)]
      [] r.err = NoErr /\ prev # Nil /\ prev.id = r.id -> [done |-> TRUE, state |-> Nil]
      [] OTHER -> IF r.val = Empty
                  THEN [done |-> TRUE, state |-> SecretsManagerErrorState(Invalid, prev)]
                  ELSE [done |-> FALSE, state |-> Nil]

\* After the second request, which only tells a time or an error e.
SecretManagerWatch(r, e, prev) ==
    Checked([r EXCEPT !.err = e], prev, SameBytes(r, prev), SecretManagerErrorState)
SecretsManagerWatch(r, e, prev) ==
    Checked([r EXCEPT !.err = e], prev, FALSE, SecretsManagerErrorState)

OneRequest == {"blobvar", "httpvar", "gcpruntimeconfig", "hashivault", "awsparamstore"}
TwoRequests == {"gcpsecretmanager", "awssecretsmanager"}
Pollers == OneRequest \union TwoRequests
Pushers == {"filevar", "etcdvar"}

Watch(d, r, prev) ==
    CASE d = "blobvar"          -> BlobvarWatch(r, prev)
      [] d = "httpvar"          -> HttpvarWatch(r, prev)
      [] d = "gcpruntimeconfig" -> RuntimeConfigWatch(r, prev)
      [] d = "hashivault"       -> HashivaultWatch(r, prev)
      [] d = "awsparamstore"    -> ParamStoreWatch(r, prev)

FirstRequest(d, r, prev) ==
    IF d = "gcpsecretmanager" THEN SecretManagerAccess(r, prev) ELSE SecretsManagerGet(r, prev)

SecondRequest(d, r, e, prev) ==
    IF d = "gcpsecretmanager" THEN SecretManagerWatch(r, e, prev) ELSE SecretsManagerWatch(r, e, prev)

-----------------------------------------------------------------------------
(***************************************************************************)
(* The service (external)                                                  *)
(***************************************************************************)
ErrReply(e) == [err |-> e, val |-> Nil, ver |-> 0, id |-> 0]
TrueReply == IF present THEN [err |-> NoErr, val |-> var.val, ver |-> var.ver, id |-> var.id]
             ELSE ErrReply(NotFound)

\* A reply, true or an error of the service.
Replies == {TrueReply} \union IF faults < MaxFaults THEN {ErrReply(e) : e \in ServiceErrors} ELSE {}

CountFault(e) == faults' = IF e \in ServiceErrors THEN faults + 1 ELSE faults

Notify == events' = IF watching THEN events + 1 ELSE events

\* The variable is created or overwritten.  A version counts the writes
\* since the variable was created.
Set(c) ==
    /\ changes < MaxChanges /\ changes' = changes + 1
    /\ present' = TRUE
    /\ var' = [val |-> c, ver |-> IF present THEN var.ver + 1 ELSE 1, id |-> var.id + 1]
    /\ Notify
    /\ UNCHANGED <<driver, returned, fetched, cur, ch, pc, watching, closing, faults>>

\* The variable is deleted; a watch of a file ends with the file.
Unset ==
    /\ changes < MaxChanges /\ changes' = changes + 1
    /\ present /\ present' = FALSE
    /\ Notify
    /\ watching' = (watching /\ driver # "filevar")
    /\ UNCHANGED <<driver, var, returned, fetched, cur, ch, pc, closing, faults>>

-----------------------------------------------------------------------------
(***************************************************************************)
(* Calls of WatchVariable                                                  *)
(***************************************************************************)
Return(s) == returned' = IF s = Nil THEN returned ELSE s

Poll ==
    /\ driver \in OneRequest
    /\ \E r \in Replies : CountFault(r.err) /\ Return(Watch(driver, r, returned))
    /\ UNCHANGED <<driver, service, goroutine, fetched, ch, closing>>

PollFirst ==
    /\ driver \in TwoRequests /\ fetched = Nil
    /\ \E r \in Replies :
          LET first == FirstRequest(driver, r, returned) IN
          /\ CountFault(r.err)
          /\ Return(first.state)
          /\ fetched' = IF first.done THEN Nil ELSE r
    /\ UNCHANGED <<driver, service, goroutine, ch, closing>>

PollSecond ==
    /\ fetched # Nil
    /\ \E e \in {r.err : r \in Replies} :
          /\ CountFault(e)
          /\ Return(SecondRequest(driver, fetched, e, returned))
    /\ fetched' = Nil
    /\ UNCHANGED <<driver, service, goroutine, ch, closing>>

\* constantvar: the first call returns the value, further calls block.
ConstantWatch ==
    /\ driver = "constantvar" /\ returned = Nil
    /\ returned' = cur
    /\ UNCHANGED <<driver, service, goroutine, fetched, ch, closing, faults>>

\* filevar and etcdvar: wait for the channel.
Take ==
    /\ driver \in Pushers /\ ~closing /\ ch # <<>>
    /\ Return(Head(ch)) /\ ch' = <<>>
    /\ UNCHANGED <<driver, service, goroutine, fetched, closing, faults>>

-----------------------------------------------------------------------------
(***************************************************************************)
(* The goroutine of filevar                                                *)
(***************************************************************************)

\* updateState: leave s in the channel, in place of what is there, unless
\* it is the error the goroutine has seen last.
UpdateState(s, Same(_, _)) ==
    /\ cur' = s
    /\ ch' = IF cur # Nil /\ s.err # NoErr /\ cur.err # NoErr /\ Same(s.err, cur.err)
             THEN ch ELSE <<s>>

FileUpdate(s) == UpdateState(s, SameText)

\* Slip: the file is added to the notifier only once.
FileAddOnce ==
    /\ driver = "filevar" /\ pc = "top"
    /\ IF present
       THEN pc' = "read" /\ watching' = (watching \/ cur = Nil) /\ UNCHANGED <<cur, ch>>
       ELSE pc' = "top" /\ FileUpdate(ErrState(AddFails)) /\ UNCHANGED watching
    /\ UNCHANGED <<driver, service, returned, fetched, closing, faults>>

\* Add the file to the notifier, after a pause if the state is an error.
FileAdd ==
    /\ driver = "filevar" /\ pc = "top"
    /\ IF present
       THEN pc' = "read" /\ watching' = TRUE /\ UNCHANGED <<cur, ch>>
       ELSE pc' = "top" /\ FileUpdate(ErrState(AddFails)) /\ UNCHANGED watching
    /\ UNCHANGED <<driver, service, returned, fetched, closing, faults>>

FileRead ==
    /\ driver = "filevar" /\ pc = "read"
    /\ \E r \in Replies :
          /\ CountFault(r.err)
          /\ IF r.err # NoErr
             THEN pc' = "top" /\ FileUpdate(ErrState(r.err))
             ELSE /\ pc' = "wait"
                  /\ IF cur = Nil \/ cur.err # NoErr \/ cur.raw # r.val
                     THEN FileUpdate(Decoded(r)) ELSE UNCHANGED <<cur, ch>>
    /\ UNCHANGED <<driver, service, returned, fetched, watching, closing>>

FileEvent ==
    /\ driver = "filevar" /\ pc = "wait" /\ events > 0
    /\ events' = events - 1 /\ pc' = "top"
    /\ UNCHANGED <<driver, var, present, changes, returned, fetched, cur, ch, watching, closing, faults>>

\* An error of the notifier is returned, and the wait goes on.
FileNotifierError ==
    /\ driver = "filevar" /\ pc = "wait"
    /\ faults < MaxFaults /\ faults' = faults + 1
    /\ FileUpdate(ErrState(NotifierFails))
    /\ UNCHANGED <<driver, service, returned, fetched, pc, watching, closing>>

\* Slip: the pause does not look at the context.
FileExitWait ==
    /\ driver = "filevar" /\ closing /\ pc = "wait"
    /\ pc' = "ended"
    /\ UNCHANGED <<driver, service, returned, fetched, cur, ch, watching, closing, faults>>

\* The pause and the wait end with the context.
FileExit ==
    /\ driver = "filevar" /\ closing
    /\ pc = "wait" \/ (pc = "top" /\ cur # Nil /\ cur.err # NoErr)
    /\ pc' = "ended"
    /\ UNCHANGED <<driver, service, returned, fetched, cur, ch, watching, closing, faults>>

-----------------------------------------------------------------------------
(***************************************************************************)
(* The goroutine of etcdvar                                                *)
(***************************************************************************)
EtcdUpdate(s) == UpdateState(s, SameCode)

\* Start a watch if there is none.
EtcdWatch ==
    /\ driver = "etcdvar" /\ pc = "top"
    /\ watching' = TRUE /\ pc' = "get"
    /\ UNCHANGED <<driver, service, returned, fetched, cur, ch, closing, faults>>

EtcdGet ==
    /\ driver = "etcdvar" /\ pc = "get"
    /\ \E r \in Replies \union IF closing THEN {ErrReply(CtxError)} ELSE {} :
          /\ CountFault(r.err)
          /\ IF r.err # NoErr THEN EtcdUpdate(ErrState(r.err))
             ELSE IF cur = Nil \/ cur.err # NoErr \/ cur.ver # r.ver
                  THEN EtcdUpdate(Decoded(r)) ELSE UNCHANGED <<cur, ch>>
    /\ pc' = "wait"
    /\ UNCHANGED <<driver, service, returned, fetched, watching, closing>>

EtcdEvent ==
    /\ driver = "etcdvar" /\ pc = "wait"
    /\ IF events > 0
       THEN events' = events - 1 /\ pc' = "get"
       ELSE ~watching /\ pc' = "top" /\ UNCHANGED events
    /\ UNCHANGED <<driver, var, present, changes, returned, fetched, cur, ch, watching, closing, faults>>

\* The channel of a watch closes: its context is cancelled right after the
\* call of Watch.
EtcdWatchEnds ==
    /\ driver = "etcdvar" /\ watching
    /\ watching' = FALSE
    /\ UNCHANGED <<driver, service, returned, fetched, cur, ch, pc, closing, faults>>

EtcdExit ==
    /\ driver = "etcdvar" /\ pc = "wait" /\ closing
    /\ pc' = "ended"
    /\ UNCHANGED <<driver, service, returned, fetched, cur, ch, watching, closing, faults>>

-----------------------------------------------------------------------------
\* Close cancels the context of the goroutine, waits for it, and, for
\* etcdvar, empties the channel meanwhile.  The caller has stopped calling
\* WatchVariable.
FileClose ==
    /\ driver = "filevar" /\ ~closing
    /\ closing' = TRUE
    /\ UNCHANGED <<driver, service, goroutine, returned, fetched, ch, faults>>

EtcdClose ==
    /\ driver = "etcdvar"
    /\ \/ ~closing /\ closing' = TRUE /\ UNCHANGED ch
       \/ closing /\ ch # <<>> /\ ch' = <<>> /\ UNCHANGED closing
    /\ UNCHANGED <<driver, service, goroutine, returned, fetched, faults>>

Init ==
    /\ driver \in Drivers
    /\ \E c \in Contents : var = [val |-> c, ver |-> 1, id |-> 1]
    /\ present \in BOOLEAN
    /\ returned = Nil /\ fetched = Nil /\ ch = <<>> /\ pc = "top"
    /\ cur = IF driver = "constantvar" THEN Decoded(var) ELSE Nil
    /\ watching = FALSE /\ events = 0 /\ closing = FALSE /\ changes = 0 /\ faults = 0

FileWatch == FileAdd \/ FileRead \/ FileEvent
EtcdLoop == EtcdWatch \/ EtcdGet \/ EtcdEvent

Next ==
    \/ \E c \in Contents : Set(c)
    \/ Unset
    \/ Poll \/ PollFirst \/ PollSecond \/ ConstantWatch \/ Take
    \/ FileWatch \/ FileNotifierError \/ FileExit \/ FileClose
    \/ EtcdLoop \/ EtcdWatchEnds \/ EtcdExit \/ EtcdClose

\* The goroutine of Variable keeps calling WatchVariable, and the goroutine
\* of the driver keeps running.  A select that finds its context done again
\* and again takes that case at last.
Fairness ==
    /\ WF_vars(Poll \/ PollFirst \/ PollSecond \/ ConstantWatch \/ Take)
    /\ WF_vars(FileWatch) /\ WF_vars(FileExit)
    /\ WF_vars(EtcdLoop) /\ WF_vars(EtcdWatchEnds) /\ SF_vars(EtcdExit)

Spec == Init /\ [][Next]_vars /\ Fairness

-----------------------------------------------------------------------------
(***************************************************************************)
(* Properties                                                              *)
(***************************************************************************)

\* What a first call of WatchVariable would return now.
Fresh ==
    CASE driver \in OneRequest -> Watch(driver, TrueReply, Nil)
      [] driver \in TwoRequests ->
            LET first == FirstRequest(driver, TrueReply, Nil)
            IN IF first.done THEN first.state ELSE SecondRequest(driver, TrueReply, NoErr, Nil)
      [] driver \in Pushers ->
            IF present THEN Decoded(var)
            ELSE ErrState(IF driver = "filevar" THEN AddFails ELSE NotFound)
      [] driver = "constantvar" -> cur

\* The same value, or errors that are the same to the driver.
Alike(s, t) ==
    /\ (s.err = NoErr) = (t.err = NoErr) /\ s.val = t.val
    /\ SameText(s.err, t.err) \/ (driver # "blobvar" /\ SameCode(s.err, t.err))

\* The changes the drivers cannot see: contents without bytes after an error
\* (an error has no bytes either), another variable with the same name and
\* the same version, and a good file after an error of the notifier.
Unseen ==
    /\ returned # Nil /\ present
    /\ \/ /\ driver \in {"blobvar", "httpvar", "gcpruntimeconfig", "hashivault"}
          /\ returned.err # NoErr /\ var.val = Empty
       \/ driver \in {"awsparamstore", "etcdvar"} /\ returned.err = NoErr /\ returned.ver = var.ver
       \/ driver = "filevar" /\ returned.err = NotifierFails

\* driver.Watcher: "If the variable has changed, then implementations *must*
\* eventually return it."  Once the variable stays as it is, every driver
\* comes to have returned it, in every order of changes, failed requests,
\* notifications and calls, but for the changes it cannot see.
ChangesReturned ==
    <>[](closing \/ Unseen \/ (returned # Nil /\ Alike(returned, Fresh)))

\* Close of filevar and etcdvar returns: the goroutine sees the end of its
\* context wherever it is, whatever notifications and errors still come.
CloseCompletes == <>[](closing => pc = "ended")

=============================================================================
