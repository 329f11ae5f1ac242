------------------------------- MODULE Topic -------------------------------
(***************************************************************************)
(* pubsub.Topic: Send hands a message to the Topic's Batcher and waits for  *)
(* the result; the Batcher's handler sends a batch with the driver,         *)
(* retrying; Shutdown flushes the Batcher, cancels the context of the       *)
(* handlers and closes the driver.                                          *)
(*                                                                         *)
(* The module composes the Batcher's own actions with the state of the      *)
(* Topic, of its callers and of the retry loop around driver.SendBatch.     *)
(***************************************************************************)
EXTENDS Batcher

CONSTANTS
    Closers,     \* goroutines that call Shutdown
    Invalid      \* messages Send refuses: LoggableID set, or metadata that is
                 \* not valid UTF-8

SendErr == "SendBatchError"
CtxErr  == "Canceled"

ASSUME TopicAssumption ==
    /\ Invalid \subseteq Items
    /\ HandlerErrors = {"nil", SendErr, CtxErr}

VARIABLES
    terr,        \* t.err is errTopicShutdown
    cancelled,   \* t.cancel has been called
    sender,      \* where each caller of Send is, before it is in Batcher.Add
    hcall,       \* where the retry.Call of each handler goroutine is
    hres,        \* what it will return
    spc,         \* where each caller of Shutdown is
    closed,      \* driver.Close() has been called
    sent         \* how often the driver took each message

topicVars == <<terr, cancelled, sender, hcall, hres, spc, closed, sent>>
tvars == <<vars, topicVars>>

-----------------------------------------------------------------------------
(* Send *)

\* Send reads t.err, in a critical section of its own, after it has seen that
\* ctx is not done, and then looks at the message.
SendChecks(i) ==
    /\ sender[i] = "idle"
    /\ sender' = [sender EXCEPT ![i] =
                    IF terr \/ i \in Invalid THEN "refused" ELSE "checked"]
    /\ UNCHANGED <<vars, terr, cancelled, hcall, hres, spc, closed, sent>>

\* The Batcher has just started handlers: their retry.Call begins.
Started ==
    hcall' = [g \in Goroutines |->
                IF gpc'[g] = "calling" /\ gpc[g] # "calling"
                THEN "entry" ELSE hcall[g]]

\* t.batcher.Add(ctx, dm) up to its select.
SendAdds(i) ==
    /\ sender[i] = "checked"
    /\ AddRefused(i) \/ AddAccepted(i)
    /\ sender' = [sender EXCEPT ![i] = "in-Add"]
    /\ Started
    /\ UNCHANGED <<terr, cancelled, hres, spc, closed, sent>>

SendReturns(i) ==
    /\ AddReturns(i)
    /\ UNCHANGED topicVars

-----------------------------------------------------------------------------
(* The handler: retry.Call around driver.SendBatch *)

\* Slip: the error of retry.Call is ignored.
HandlerIgnoresError(g, e) ==
    /\ hcall' = [hcall EXCEPT ![g] = "done"]
    /\ hres' = [hres EXCEPT ![g] = "nil"]

\* retry.Call, and the handler with it, is about to return e.
HandlerResult(g, e) ==
    /\ hcall' = [hcall EXCEPT ![g] = "done"]
    /\ hres' = [hres EXCEPT ![g] = e]

\* On entry retry.Call gives up if its context is done.  The sleep of a backoff
\* ends with the context's error or with the timer, whichever is chosen.
CallEnters(g) ==
    /\ hcall[g] \in {"entry", "backoff"}
    /\ \/ cancelled /\ HandlerResult(g, CtxErr)
       \/ /\ cancelled => hcall[g] = "backoff"
          /\ hcall' = [hcall EXCEPT ![g] = "calling"]
          /\ UNCHANGED hres
    /\ UNCHANGED <<vars, terr, cancelled, sender, spc, closed, sent>>

\* f invokes driver.SendBatch.
CallInvokes(g) ==
    /\ hcall[g] = "calling"
    /\ hcall' = [hcall EXCEPT ![g] = "driver"]
    /\ UNCHANGED <<vars, terr, cancelled, sender, hres, spc, closed, sent>>

\* driver.SendBatch returns: the batch was sent, or the error is retryable,
\* permanent, or the context's.
CallReturns(g) ==
    /\ hcall[g] = "driver"
    /\ \/ /\ HandlerResult(g, "nil")
          /\ sent' = [i \in Items |->
                        IF InSeq(i, batch[g]) THEN sent[i] + 1 ELSE sent[i]]
       \/ /\ hcall' = [hcall EXCEPT ![g] = "backoff"]
          /\ UNCHANGED <<hres, sent>>
       \/ HandlerResult(g, SendErr) /\ UNCHANGED sent
       \/ cancelled /\ HandlerResult(g, CtxErr) /\ UNCHANGED sent
    /\ UNCHANGED <<vars, terr, cancelled, sender, spc, closed>>

\* The handler returns to the Batcher.
CallDone(g) ==
    /\ hcall[g] = "done"
    /\ HandlerReturns(g, hres[g])
    /\ hcall' = [hcall EXCEPT ![g] = "none"]
    /\ UNCHANGED <<terr, cancelled, sender, hres, spc, closed, sent>>

HandlerNext(g) ==
    \/ /\ TakeNext(g)
       /\ Started
       /\ UNCHANGED <<terr, cancelled, sender, hres, spc, closed, sent>>
    \/ WgDone(g) /\ UNCHANGED topicVars

-----------------------------------------------------------------------------
(* Shutdown *)

\* Slip: the context is cancelled before the flush.
ShutdownCallCancels(s) ==
    /\ spc[s] = "idle"
    /\ spc' = [spc EXCEPT ![s] = IF terr THEN "refused" ELSE "select"]
    /\ terr' = TRUE
    /\ cancelled' = TRUE
    /\ UNCHANGED <<vars, sender, hcall, hres, closed, sent>>

\* The critical section, and the start of the goroutine that flushes.
ShutdownCall(s) ==
    /\ spc[s] = "idle"
    /\ spc' = [spc EXCEPT ![s] = IF terr THEN "refused" ELSE "select"]
    /\ terr' = TRUE
    /\ UNCHANGED <<vars, cancelled, sender, hcall, hres, closed, sent>>

\* That goroutine: t.batcher.Shutdown().
FlushBegin(s) ==
    /\ spc[s] \notin {"idle", "refused"}
    /\ ShutdownBegin
    /\ Started
    /\ UNCHANGED <<terr, cancelled, sender, hres, spc, closed, sent>>

FlushEnd ==
    /\ ShutdownReturns
    /\ UNCHANGED topicVars

\* The select is left when the Batcher is flushed or when ctx is done, and the
\* context of the handlers is cancelled.
ShutdownCancel(s) ==
    /\ spc[s] = "select"
    /\ spc' = [spc EXCEPT ![s] = IF closer = "returned" THEN "flushed"
                                 ELSE "ctx-done"]
    /\ cancelled' = TRUE
    /\ UNCHANGED <<vars, terr, sender, hcall, hres, closed, sent>>

\* driver.Close(), whose result is Shutdown's.
ShutdownClose(s) ==
    /\ spc[s] \in {"flushed", "ctx-done"}
    /\ spc' = [spc EXCEPT ![s] = IF @ = "flushed" THEN "returned-flushed"
                                 ELSE "returned"]
    /\ closed' = TRUE
    /\ UNCHANGED <<vars, terr, cancelled, sender, hcall, hres, sent>>

-----------------------------------------------------------------------------
TopicInit ==
    /\ Init
    /\ terr = FALSE
    /\ cancelled = FALSE
    /\ sender = [i \in Items |-> "idle"]
    /\ hcall = [g \in Goroutines |-> "none"]
    /\ hres = [g \in Goroutines |-> "nil"]
    /\ spc = [s \in Closers |-> "idle"]
    /\ closed = FALSE
    /\ sent = [i \in Items |-> 0]

TopicNext ==
    \/ \E i \in Items : SendChecks(i) \/ SendAdds(i) \/ SendReturns(i)
    \/ \E g \in Goroutines :
         \/ CallEnters(g)
         \/ CallInvokes(g)
         \/ CallReturns(g)
         \/ CallDone(g)
         \/ HandlerNext(g)
    \/ \E s \in Closers :
         \/ ShutdownCall(s)
         \/ FlushBegin(s)
         \/ ShutdownCancel(s)
         \/ ShutdownClose(s)
    \/ FlushEnd

TopicSpec == TopicInit /\ [][TopicNext]_tvars

\* The Go scheduler runs every goroutine that can run and SendBatch returns.
\* Nothing makes the application call Send or Shutdown, or makes a context
\* end.  The strong fairness conditions are that SendBatch does not fail with
\* retryable errors for ever, and that a select with two ready cases does not
\* choose the same one for ever.
TopicFairness ==
    /\ \A i \in Items :
         /\ WF_tvars(SendAdds(i))
         /\ WF_tvars(errc[i] # NoResult /\ SendReturns(i))
    /\ \A g \in Goroutines :
         /\ WF_tvars(CallEnters(g) \/ CallInvokes(g) \/ CallReturns(g)
                       \/ CallDone(g) \/ HandlerNext(g))
         /\ SF_tvars(CallReturns(g) /\ hcall'[g] = "done")
    /\ \A s \in Closers :
         WF_tvars(FlushBegin(s) \/ ShutdownClose(s)
                   \/ (closer = "returned" /\ ShutdownCancel(s)))
    /\ WF_tvars(FlushEnd)

TopicFairSpec == TopicSpec /\ TopicFairness

-----------------------------------------------------------------------------
(* Properties *)

\* "It only returns after the message has been sent, or failed to be sent": a
\* Send that returns nil had its message in exactly one successful SendBatch;
\* one that returns an error, of SendBatch, of retry.Call or of the batcher, or
\* its own for a Topic that is shut down or a message that is not valid, had it
\* in none.  Of a Send that returns because its ctx is done only this is said:
\* its message, which stays in the batcher, is sent at most once.
SentOnce ==
    \A i \in Items :
        /\ sent[i] <= 1
        /\ caller[i] = "result" => (errc[i] = "nil" <=> sent[i] = 1)
        /\ sender[i] = "refused" => sent[i] = 0

\* "It only returns after all pending messages have been sent": when Shutdown
\* returns and not because its ctx is done, every message that got into the
\* batcher has been sent or has failed for good, not just been cancelled.
FlushedMeansSent ==
    (\E s \in Closers : spc[s] = "returned-flushed") =>
        \A i \in Items : InSeq(i, accepted) => errc[i] \in {"nil", SendErr}

\* Every Send that reaches the batcher returns, and so does every Shutdown,
\* whoever comes first, whatever is retried and whoever gives up.
CallsComplete ==
    <>[](/\ \A s \in Closers : spc[s] \in {"idle", "refused", "returned-flushed", "returned"}
         /\ \A i \in Items : MinBatch = 1 /\ sender[i] = "in-Add" => caller[i] \in {"result", "ctx-done"})

=============================================================================
