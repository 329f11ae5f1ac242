---------------------------- MODULE Subscription ----------------------------
(***************************************************************************)
(* pubsub.Subscription: concurrent callers of Receive share a local queue   *)
(* that one background goroutine at a time fills from the driver; Ack and   *)
(* Nack go to the server through a Batcher whose handler runs in the        *)
(* background; Shutdown flushes the acks and closes the driver.             *)
(*                                                                         *)
(* Every critical section of s.mu is one step.  So are the driver calls'    *)
(* starts and returns, each decision of retry.Call, the sends and closes of *)
(* the channels, and the steps of Shutdown between its blocking points.     *)
(***************************************************************************)
EXTENDS Integers, Sequences, FiniteSets

CONSTANTS
    Receivers,       \* goroutines that call Receive
    Closers,         \* goroutines that call Shutdown
    Msgs,            \* driver messages; one that is redelivered is another
                     \* element, with an AckID of its own
    Ackable,         \* the messages the application acks or nacks
    CanNack,         \* driver.CanNack()
    CloseFails,      \* driver.Close() may return an error
    RecvMaxHandlers, \* recvBatchOpts, after defaults
    RecvMinBatch,
    RecvMaxBatch,    \* 0: no limit
    CapBatchSize,    \* maxBatchSize, 3000 in the code
    AckHandlers      \* the ackBatcher's handlers: one, unless the driver asks
                     \* for more with ackBatcherOpts.MaxHandlers

ASSUME SubscriptionAssumption ==
    /\ Ackable \subseteq Msgs
    /\ CanNack \in BOOLEAN
    /\ CloseFails \in BOOLEAN
    /\ RecvMaxHandlers \in Nat \ {0}
    /\ RecvMinBatch \in Nat \ {0}
    /\ RecvMaxBatch \in Nat
    /\ CapBatchSize \in Nat \ {0}

VARIABLES
    \* fields of Subscription
    q,            \* s.q
    err,          \* s.err
    unreported,   \* s.unreportedAckErr
    waitc,        \* s.waitc # nil
    bsize,        \* s.runningBatchSize, rounded up
    given,        \* s.throughputCount > 0
    cancelled,    \* s.cancel has been called: backgroundCtx is done
    \* the callers of Receive
    rpc,          \* where each caller is
    held,         \* messages Receive has returned
    \* the goroutine started by Receive, and those of getNextBatch
    fpc,          \* where the fetching goroutine is
    want,         \* the number of messages it asks for
    call,         \* where each ReceiveBatch call is
    size,         \* the maxMessages of each call
    gerr,         \* the first error of the errgroup, whose ctx it cancels
    result,       \* the channel getNextBatch returns
    resultClosed,
    \* acks: the batcher and its handler
    verdict,      \* what the application said of a message: Ack or Nack
    ackPending,   \* messages in the ackBatcher, not yet in a batch
    ackShut,      \* ackBatcher.Shutdown has been called
    hset,         \* the batch each handler is working on
    hcall,        \* where its SendAcks and its SendNacks call are
    herr,         \* first error of its errgroup
    \* Shutdown
    spc,          \* where each caller of Shutdown is
    flusher,      \* where its goroutine that calls ackBatcher.Shutdown is
    \* the driver
    server,       \* messages not handed out yet
    closed,       \* driver.Close() has been called
    settled,      \* the acks and nacks the driver took
    \* history
    failed        \* messages whose ack or nack the handler gave up on

fields == <<q, err, unreported, waitc, bsize, given, cancelled>>
fetchVars == <<fpc, want, call, size, gerr, result, resultClosed>>
ackVars == <<verdict, ackPending, ackShut, hset, hcall, herr>>
driverVars == <<server, closed, settled>>
shutVars == <<spc, flusher>>
svars == <<fields, rpc, held, fetchVars, ackVars, shutVars, driverVars,
          failed>>

Nil      == "nil"
Shut     == "errSubscriptionShutdown"
FetchErr == "ReceiveBatchError"
AckErr   == "SendAcksError"
CtxErr   == "Canceled"

Calls == 1..RecvMaxHandlers
Kinds == {"ack", "nack"}

\* A retry.Call is about to look at its context ("entry"), past that look
\* ("calling"), in the driver ("driver"), in the backoff, or back ("done").

-----------------------------------------------------------------------------
(* Receive *)

\* A goroutine calls Receive and asks for s.mu.
ReceiveCall(r) ==
    /\ rpc[r] = "idle"
    /\ rpc' = [rpc EXCEPT ![r] = "lock"]
    /\ UNCHANGED <<fields, held, fetchVars, ackVars, shutVars, driverVars,
                   failed>>

\* The top of the loop finds the permanent error and returns it.
ReceiveError(r) ==
    /\ rpc[r] = "lock"
    /\ err # Nil
    /\ unreported' = Nil
    /\ rpc' = [rpc EXCEPT ![r] = "idle"]
    /\ UNCHANGED <<q, err, waitc, bsize, given, cancelled, held, fetchVars,
                   ackVars, shutVars, driverVars, failed>>

\* The caller's context is done, at the top of the loop or while waiting.
ReceiveCtxDone(r) ==
    /\ rpc[r] = "lock" => err = Nil
    /\ rpc[r] # "idle"
    /\ rpc' = [rpc EXCEPT ![r] = "idle"]
    /\ UNCHANGED <<fields, held, fetchVars, ackVars, shutVars, driverVars,
                   failed>>

\* updateBatchSize: the next value of the running batch size.  It moves with
\* the measured throughput, up to twice and down to three quarters of what it
\* was, and exactly to three quarters when no message was given out.  It is
\* rounded up here, and capped; the cap does not apply to s.runningBatchSize
\* itself, which may then be larger.
NextBatchSizes ==
    (3 * (bsize - 1)) \div 4 + 1 ..
        IF bsize = CapBatchSize \/ (given /\ 2 * bsize > CapBatchSize)
        THEN CapBatchSize
        ELSE IF given THEN 2 * bsize ELSE (3 * bsize + 3) \div 4

OneAtATime == RecvMaxBatch = 1 /\ RecvMaxHandlers = 1

\* len(s.q) <= s.runningBatchSize*prefetchRatio, with prefetchRatio 1/2: as
\* bsize is rounded up the comparison is open at equality, and at the cap,
\* which does not apply to s.runningBatchSize itself.
MustPrefetch == waitc = FALSE /\ (q = <<>> \/ 2 * Len(q) < bsize)
MayPrefetch  == waitc = FALSE /\ (2 * Len(q) <= bsize \/ bsize = CapBatchSize)

StartFetch ==
    /\ waitc' = TRUE
    /\ fpc' = "start"
    /\ \E b \in IF OneAtATime THEN {1} ELSE NextBatchSizes :
          /\ want' = b
          /\ bsize' = IF OneAtATime THEN bsize ELSE b
    /\ UNCHANGED <<call, size, gerr, result, resultClosed>>

\* The top of the loop without an error: start a fetch if the queue runs low,
\* which restarts the count of messages given out, then return a message or
\* wait for the fetch.
ReceiveTop(r) ==
    /\ rpc[r] = "lock"
    /\ err = Nil
    /\ \/ (MustPrefetch \/ MayPrefetch) /\ StartFetch
       \/ ~MustPrefetch /\ UNCHANGED <<waitc, bsize, fetchVars>>
    /\ IF q # <<>>
       THEN /\ q' = Tail(q)
            /\ held' = held \cup {Head(q)}
            /\ given' = TRUE
            /\ rpc' = [rpc EXCEPT ![r] = "idle"]
       ELSE /\ rpc' = [rpc EXCEPT ![r] = "waiting"]
            /\ given' = IF waitc' # waitc /\ ~OneAtATime THEN FALSE ELSE given
            /\ UNCHANGED <<q, held>>
    /\ UNCHANGED <<err, unreported, cancelled, ackVars, shutVars, driverVars,
                   failed>>

-----------------------------------------------------------------------------
(* getNextBatch and the goroutine that collects its results *)

\* batcher.Split(n, recvBatchOpts): the sizes of the ReceiveBatch calls.
Split(n) ==
    IF n < RecvMinBatch THEN <<>>
    ELSE IF RecvMaxBatch = 0 THEN <<n>>
    ELSE [j \in {c \in Calls : n - (c - 1) * RecvMaxBatch >= RecvMinBatch} |->
            IF n - (j - 1) * RecvMaxBatch < RecvMaxBatch
            THEN n - (j - 1) * RecvMaxBatch ELSE RecvMaxBatch]

\* getNextBatch: one goroutine of the errgroup per batch.
FetchStart ==
    /\ fpc = "start"
    /\ fpc' = "collect"
    /\ LET sizes == Split(want) IN
         /\ call' = [c \in Calls |->
                       IF c \in DOMAIN sizes THEN "entry" ELSE "done"]
         /\ size' = [c \in Calls |->
                       IF c \in DOMAIN sizes THEN sizes[c] ELSE 0]
    /\ UNCHANGED <<fields, rpc, held, want, gerr, result, resultClosed,
                   ackVars, shutVars, driverVars, failed>>

\* The errgroup's context: cancelled by Shutdown and by the first error.
GroupDone == cancelled \/ gerr # Nil

\* retry.Call fails with e; the errgroup keeps the first error.
CallFails(c, e) ==
    /\ call' = [call EXCEPT ![c] = "done"]
    /\ gerr' = IF gerr = Nil THEN e ELSE gerr
    /\ UNCHANGED <<server, result>>

\* retry.Call looks at its context on entry, and calls f if it is not done.
\* The sleep of a backoff ends with the context's error or with the timer; if
\* both are there either may be chosen, and f is called once more.
CallEnters(c) ==
    /\ call[c] \in {"entry", "backoff"}
    /\ \/ GroupDone /\ CallFails(c, CtxErr)
       \/ /\ GroupDone => call[c] = "backoff"
          /\ call' = [call EXCEPT ![c] = "calling"]
          /\ UNCHANGED <<gerr, server, result>>
    /\ UNCHANGED <<fields, rpc, held, fpc, want, size, resultClosed, ackVars,
                   shutVars, closed, settled, failed>>

\* f invokes driver.ReceiveBatch.
CallInvokes(c) ==
    /\ call[c] = "calling"
    /\ call' = [call EXCEPT ![c] = "driver"]
    /\ UNCHANGED <<fields, rpc, held, fpc, want, size, gerr, result,
                   resultClosed, ackVars, shutVars, driverVars, failed>>

\* The sequences of at most n distinct messages of S.
Picks(S, n) ==
    UNION {{s \in [1..k -> S] : \A i, j \in 1..k : s[i] = s[j] => i = j} :
             k \in 0..n}

\* driver.ReceiveBatch returns: messages or none, an error that is retryable,
\* one that is not, or the error of its context.
CallReturns(c) ==
    /\ call[c] = "driver"
    /\ \/ \E s \in Picks(server, size[c]) :
            /\ server' = server \ {s[i] : i \in 1..Len(s)}
            /\ result' = Append(result, [msgs |-> s, err |-> Nil])
            /\ call' = [call EXCEPT ![c] = "done"]
            /\ UNCHANGED gerr
       \/ /\ call' = [call EXCEPT ![c] = "backoff"]
          /\ UNCHANGED <<gerr, server, result>>
       \/ CallFails(c, FetchErr)
       \/ GroupDone /\ CallFails(c, CtxErr)
    /\ UNCHANGED <<fields, rpc, held, fpc, want, size, resultClosed, ackVars,
                   shutVars, closed, settled, failed>>

\* g.Wait() returns: the error, if any, is the last result.
GroupWait ==
    /\ fpc # "start"
    /\ waitc
    /\ ~resultClosed
    /\ \A c \in Calls : call[c] = "done"
    /\ resultClosed' = TRUE
    /\ result' = IF gerr = Nil THEN result
                 ELSE Append(result, [msgs |-> <<>>, err |-> gerr])
    /\ UNCHANGED <<fields, rpc, held, fpc, want, call, size, gerr, ackVars,
                   shutVars, driverVars, failed>>

\* Slip: the messages replace the queue instead of being appended to it.
CollectOverwrites ==
    /\ fpc = "collect"
    /\ result # <<>>
    /\ result' = Tail(result)
    /\ LET x == Head(result) IN
         /\ q' = IF x.msgs = <<>> THEN q ELSE x.msgs
         /\ err' = IF x.msgs = <<>> /\ x.err # Nil THEN x.err ELSE err
         /\ fpc' = IF x.msgs # <<>> THEN "notify" ELSE "collect"
    /\ UNCHANGED <<unreported, waitc, bsize, given, cancelled, rpc, held, want,
                   call, size, gerr, resultClosed, ackVars, shutVars,
                   driverVars, failed>>

\* The fetching goroutine takes one result from the channel.  A result with
\* messages goes to s.q and is announced; an error becomes s.err; a result
\* without messages is passed over.
Collect ==
    /\ fpc = "collect"
    /\ result # <<>>
    /\ result' = Tail(result)
    /\ LET x == Head(result) IN
         /\ q' = q \o x.msgs
         /\ err' = IF x.msgs = <<>> /\ x.err # Nil THEN x.err ELSE err
         /\ fpc' = IF x.msgs # <<>> THEN "notify" ELSE "collect"
    /\ UNCHANGED <<unreported, waitc, bsize, given, cancelled, rpc, held,
                   want, call, size, gerr, resultClosed, ackVars, shutVars,
                   driverVars, failed>>

\* s.waitc <- struct{}{}: the channel has no buffer, so the send waits for a
\* caller of Receive that is in its select.
Notify(r) ==
    /\ fpc = "notify"
    /\ rpc[r] = "waiting"
    /\ fpc' = "collect"
    /\ rpc' = [rpc EXCEPT ![r] = "lock"]
    /\ UNCHANGED <<fields, held, want, call, size, gerr, result, resultClosed,
                   ackVars, shutVars, driverVars, failed>>

\* Slip: s.waitc is set to nil and not closed.
FetchEndNoClose ==
    /\ fpc = "collect"
    /\ result = <<>>
    /\ resultClosed
    /\ fpc' = "none"
    /\ waitc' = FALSE
    /\ call' = [c \in Calls |-> "none"]
    /\ gerr' = Nil
    /\ resultClosed' = FALSE
    /\ UNCHANGED <<q, err, unreported, bsize, given, cancelled, rpc, held, want,
                   size, result, ackVars, shutVars, driverVars, failed>>

\* The channel is drained and closed: close(s.waitc) wakes every waiting
\* caller, and the next Receive may start another fetch.
FetchEnd ==
    /\ fpc = "collect"
    /\ result = <<>>
    /\ resultClosed
    /\ fpc' = "none"
    /\ waitc' = FALSE
    /\ rpc' = [r \in Receivers |->
                 IF rpc[r] = "waiting" THEN "lock" ELSE rpc[r]]
    /\ call' = [c \in Calls |-> "none"]
    /\ gerr' = Nil
    /\ resultClosed' = FALSE
    /\ UNCHANGED <<q, err, unreported, bsize, given, cancelled, held, want,
                   size, result, ackVars, shutVars, driverVars, failed>>

-----------------------------------------------------------------------------
(* Message.Ack, Message.Nack and the handler of the ackBatcher *)

\* Slip: a message may be acked and nacked.
AcknowledgeAgain(m, k) ==
    /\ m \in held \cap Ackable
    /\ k = "nack" => CanNack
    /\ verdict' = [verdict EXCEPT ![m] = IF ackShut THEN "dropped" ELSE k]
    /\ ackPending' = IF ackShut THEN ackPending ELSE ackPending \cup {m}
    /\ UNCHANGED <<fields, rpc, held, fetchVars, ackShut, hset, hcall, herr,
                   shutVars, driverVars, failed>>

\* Ack or Nack on a message, at most once (a second call panics), Nack only
\* where the driver supports it.  After Shutdown AddNoWait refuses the item,
\* and nobody looks at the error it sends.
Acknowledge(m, k) ==
    /\ m \in held \cap Ackable
    /\ verdict[m] = "none"
    /\ k = "nack" => CanNack
    /\ verdict' = [verdict EXCEPT ![m] = IF ackShut THEN "dropped" ELSE k]
    /\ ackPending' = IF ackShut THEN ackPending ELSE ackPending \cup {m}
    /\ UNCHANGED <<fields, rpc, held, fetchVars, ackShut, hset, hcall, herr,
                   shutVars, driverVars, failed>>

\* The batcher passes a batch to one of its handlers.  Which items make up the
\* batch depends on the batch limits (module Batcher).
HandlerStart(h) ==
    /\ hset[h] = {}
    /\ \E b \in SUBSET ackPending \ {{}} :
         /\ hset' = [hset EXCEPT ![h] = b]
         /\ ackPending' = ackPending \ b
         /\ hcall' = [hcall EXCEPT ![h] =
                        [k \in Kinds |-> IF \E m \in b : verdict[m] = k
                                         THEN "entry" ELSE "done"]]
    /\ UNCHANGED <<fields, rpc, held, fetchVars, verdict, ackShut, herr,
                   shutVars, driverVars, failed>>

\* The context of the handler's errgroup.
SendDone(h) == cancelled \/ herr[h] # Nil

\* retry.Call fails with e.
SendFails(h, k, e) ==
    /\ hcall' = [hcall EXCEPT ![h][k] = "done"]
    /\ herr' = IF herr[h] = Nil THEN [herr EXCEPT ![h] = e] ELSE herr

\* retry.Call around SendAcks or SendNacks, as in CallEnters.
SendEnters(h, k) ==
    /\ hcall[h][k] \in {"entry", "backoff"}
    /\ \/ SendDone(h) /\ SendFails(h, k, CtxErr)
       \/ /\ SendDone(h) => hcall[h][k] = "backoff"
          /\ hcall' = [hcall EXCEPT ![h][k] = "calling"]
          /\ UNCHANGED herr
    /\ UNCHANGED <<fields, rpc, held, fetchVars, verdict, ackPending, ackShut,
                   hset, shutVars, driverVars, failed>>

\* f invokes driver.SendAcks or driver.SendNacks.
SendInvokes(h, k) ==
    /\ hcall[h][k] = "calling"
    /\ hcall' = [hcall EXCEPT ![h][k] = "driver"]
    /\ UNCHANGED <<fields, rpc, held, fetchVars, verdict, ackPending, ackShut,
                   hset, herr, shutVars, driverVars, failed>>

\* driver.SendAcks or SendNacks returns: done, retryable, permanent error, or
\* the error of its context.
SendReturns(h, k) ==
    /\ hcall[h][k] = "driver"
    /\ \/ /\ settled' = settled \cup {<<m, k>> : m \in {n \in hset[h] : verdict[n] = k}}
          /\ hcall' = [hcall EXCEPT ![h][k] = "done"]
          /\ UNCHANGED herr
       \/ /\ hcall' = [hcall EXCEPT ![h][k] = "backoff"]
          /\ UNCHANGED <<herr, settled>>
       \/ SendFails(h, k, AckErr) /\ UNCHANGED settled
       \/ SendDone(h) /\ SendFails(h, k, CtxErr) /\ UNCHANGED settled
    /\ UNCHANGED <<fields, rpc, held, fetchVars, verdict, ackPending, ackShut,
                   hset, shutVars, server, closed, failed>>

\* Slip: Shutdown holds s.mu while it waits for the flush, so that a handler
\* with an error waits for s.mu and Shutdown for the handler.
HandlerEndLockedOut(h) ==
    /\ herr[h] = Nil \/ \A s \in Closers : spc[s] # "select"
    /\ hset[h] # {}
    /\ \A k \in Kinds : hcall[h][k] = "done"
    /\ IF herr[h] = Nil
       THEN UNCHANGED <<err, unreported, failed>>
       ELSE /\ err' = herr[h]
            /\ unreported' = herr[h]
            /\ failed' = failed \cup {m \in hset[h] : <<m, verdict[m]>> \notin settled}
    /\ hset' = [hset EXCEPT ![h] = {}]
    /\ herr' = [herr EXCEPT ![h] = Nil]
    /\ hcall' = [hcall EXCEPT ![h] = [k \in Kinds |-> "none"]]
    /\ UNCHANGED <<q, waitc, bsize, given, cancelled, rpc, held, fetchVars,
                   verdict, ackPending, ackShut, shutVars, driverVars>>

\* g.Wait() returns: an error becomes s.err and s.unreportedAckErr.
HandlerEnd(h) ==
    /\ hset[h] # {}
    /\ \A k \in Kinds : hcall[h][k] = "done"
    /\ IF herr[h] = Nil
       THEN UNCHANGED <<err, unreported, failed>>
       ELSE /\ err' = herr[h]
            /\ unreported' = herr[h]
            /\ failed' = failed \cup {m \in hset[h] : <<m, verdict[m]>> \notin settled}
    /\ hset' = [hset EXCEPT ![h] = {}]
    /\ herr' = [herr EXCEPT ![h] = Nil]
    /\ hcall' = [hcall EXCEPT ![h] = [k \in Kinds |-> "none"]]
    /\ UNCHANGED <<q, waitc, bsize, given, cancelled, rpc, held, fetchVars,
                   verdict, ackPending, ackShut, shutVars, driverVars>>

-----------------------------------------------------------------------------
(* Shutdown *)

\* The first critical section, and the start of the goroutine that flushes.
ShutdownCall(s) ==
    /\ spc[s] = "idle"
    /\ IF err = Shut
       THEN /\ spc' = [spc EXCEPT ![s] = "returned"]
            /\ UNCHANGED <<err, flusher>>
       ELSE /\ spc' = [spc EXCEPT ![s] = "select"]
            /\ err' = Shut
            /\ flusher' = [flusher EXCEPT ![s] = "start"]
    /\ UNCHANGED <<q, unreported, waitc, bsize, given, cancelled, rpc, held,
                   fetchVars, ackVars, driverVars, failed>>

\* s.ackBatcher.Shutdown() begins, and returns once the batcher is drained.
FlushBegin(s) ==
    /\ flusher[s] = "start"
    /\ flusher' = [flusher EXCEPT ![s] = "waiting"]
    /\ ackShut' = TRUE
    /\ UNCHANGED <<fields, rpc, held, fetchVars, verdict, ackPending, hset,
                   hcall, herr, spc, driverVars, failed>>

\* Slip: ackBatcher.Shutdown does not wait for running handlers.
FlushEndEarly(s) ==
    /\ flusher[s] = "waiting"
    /\ ackPending = {}
    /\ flusher' = [flusher EXCEPT ![s] = "done"]
    /\ UNCHANGED <<fields, rpc, held, fetchVars, ackVars, spc, driverVars,
                   failed>>

FlushEnd(s) ==
    /\ flusher[s] = "waiting"
    /\ ackPending = {}
    /\ \A h \in AckHandlers : hset[h] = {}
    /\ flusher' = [flusher EXCEPT ![s] = "done"]
    /\ UNCHANGED <<fields, rpc, held, fetchVars, ackVars, spc, driverVars,
                   failed>>

\* The select is left when the flush is done or the caller's context is, and
\* the background context is cancelled.
ShutdownCancel(s) ==
    /\ spc[s] = "select"
    /\ spc' = [spc EXCEPT ![s] = "close"]
    /\ cancelled' = TRUE
    /\ UNCHANGED <<q, err, unreported, waitc, bsize, given, rpc, held,
                   fetchVars, ackVars, flusher, driverVars, failed>>

\* driver.Close(); its error, if any, is returned at once.
ShutdownClose(s) ==
    /\ spc[s] = "close"
    /\ closed' = TRUE
    /\ \/ /\ spc' = [spc EXCEPT ![s] = "report"]
       \/ /\ CloseFails
          /\ spc' = [spc EXCEPT ![s] = "returned"]
    /\ UNCHANGED <<fields, rpc, held, fetchVars, ackVars, flusher, server,
                   settled, failed>>

\* The last critical section: return an ack error nobody has heard of.
ShutdownReport(s) ==
    /\ spc[s] = "report"
    /\ spc' = [spc EXCEPT ![s] = "returned"]
    /\ unreported' = Nil
    /\ UNCHANGED <<q, err, waitc, bsize, given, cancelled, rpc, held,
                   fetchVars, ackVars, flusher, driverVars, failed>>

-----------------------------------------------------------------------------
SubscriptionInit ==
    /\ q = <<>>
    /\ err = Nil
    /\ unreported = Nil
    /\ waitc = FALSE
    /\ bsize = 1              \* initialBatchSize
    /\ given = FALSE
    /\ cancelled = FALSE
    /\ rpc = [r \in Receivers |-> "idle"]
    /\ held = {}
    /\ fpc = "none"
    /\ want = 0
    /\ call = [c \in Calls |-> "none"]
    /\ size = [c \in Calls |-> 0]
    /\ gerr = Nil
    /\ result = <<>>
    /\ resultClosed = FALSE
    /\ verdict = [m \in Msgs |-> "none"]
    /\ ackPending = {}
    /\ ackShut = FALSE
    /\ hset = [h \in AckHandlers |-> {}]
    /\ hcall = [h \in AckHandlers |-> [k \in Kinds |-> "none"]]
    /\ herr = [h \in AckHandlers |-> Nil]
    /\ spc = [s \in Closers |-> "idle"]
    /\ flusher = [s \in Closers |-> "none"]
    /\ server = Msgs
    /\ closed = FALSE
    /\ settled = {}
    /\ failed = {}

ReceiveStep(r) == ReceiveError(r) \/ ReceiveTop(r)
ShutdownStep(s) ==
    \/ FlushBegin(s)
    \/ FlushEnd(s)
    \/ ShutdownClose(s)
    \/ ShutdownReport(s)

SubscriptionNext ==
    \/ \E r \in Receivers :
         ReceiveCall(r) \/ ReceiveStep(r) \/ ReceiveCtxDone(r) \/ Notify(r)
    \/ FetchStart
    \/ \E c \in Calls : CallEnters(c) \/ CallInvokes(c) \/ CallReturns(c)
    \/ GroupWait
    \/ Collect
    \/ FetchEnd
    \/ \E m \in Msgs, k \in Kinds : Acknowledge(m, k)
    \/ \E h \in AckHandlers :
         \/ HandlerStart(h)
         \/ \E k \in Kinds :
              SendEnters(h, k) \/ SendInvokes(h, k) \/ SendReturns(h, k)
         \/ HandlerEnd(h)
    \/ \E s \in Closers :
         ShutdownCall(s) \/ ShutdownCancel(s) \/ ShutdownStep(s)

SubscriptionSpec == SubscriptionInit /\ [][SubscriptionNext]_svars

\* The Go scheduler runs every goroutine that can run, and the driver's methods
\* return.  Nothing makes the application call Receive, Ack or Shutdown, or
\* makes a context end.  The strong fairness conditions are assumptions about
\* the environment: contexts of Receive's callers do not always end before the
\* call gets anywhere, the driver does not withhold an available message for
\* ever, a send of acks does not fail with retryable errors for ever, and a
\* select with two ready cases does not choose the same one for ever.
SubscriptionFairness ==
    /\ \A r \in Receivers :
         WF_svars(ReceiveError(r)) /\ SF_svars(ReceiveTop(r))
    /\ SF_svars(\E r \in Receivers : Notify(r))
    /\ WF_svars(FetchStart \/ Collect \/ FetchEnd)
    /\ WF_svars(GroupWait)
    /\ \A c \in Calls :
         /\ WF_svars(CallEnters(c) \/ CallInvokes(c) \/ CallReturns(c))
         /\ SF_svars(CallReturns(c) /\ server' # server)
         /\ SF_svars(CallEnters(c) /\ call'[c] = "done")
    /\ WF_svars(\E h \in AckHandlers : HandlerStart(h))
    /\ \A h \in AckHandlers :
         /\ WF_svars(HandlerEnd(h))
         /\ \A k \in Kinds :
              WF_svars(SendEnters(h, k) \/ SendInvokes(h, k) \/ SendReturns(h, k))
         /\ SF_svars(\E k \in Kinds : SendReturns(h, k) /\ hcall'[h][k] = "done")
    /\ \A s \in Closers :
         WF_svars(ShutdownStep(s) \/ (flusher[s] = "done" /\ ShutdownCancel(s)))

SubscriptionFairSpec == SubscriptionSpec /\ SubscriptionFairness

-----------------------------------------------------------------------------
(* Properties *)

\* Where message m is: not handed out, on its way in the channel of
\* getNextBatch, in s.q, or returned by Receive.
Places(m) ==
    {<<"server">> : x \in server \cap {m}}
    \cup (UNION {{<<"result", i, j>> : j \in {n \in DOMAIN result[i].msgs : result[i].msgs[n] = m}} :
                   i \in DOMAIN result})
    \cup {<<"q", i>> : i \in {n \in DOMAIN q : q[n] = m}}
    \cup {<<"held">> : x \in held \cap {m}}

\* A message is in exactly one place.  No interleaving of receivers, of
\* concurrent ReceiveBatch calls (some of which fail) and of Shutdown loses one
\* or hands it out twice.
OnePlace == \A m \in Msgs : Cardinality(Places(m)) = 1

\* "Shutdown flushes pending ack sends": once ackBatcher.Shutdown has returned,
\* the driver has taken every ack and nack the application got into the
\* batcher, except those whose batch failed for good.
AcksFlushed ==
    (\E s \in Closers : flusher[s] = "done") =>
        \A m \in Msgs : verdict[m] \in Kinds =>
                          <<m, verdict[m]>> \in settled \/ m \in failed

\* The driver is told at most one verdict on a message, the one the application
\* gave, however batches, retries, failures and Shutdown interleave: a message
\* is in one batch at a time, and not again in a batch once the driver took it
\* in a batch that succeeded.
OneVerdict ==
    /\ \A v \in settled : v[1] \in held /\ v[2] = verdict[v[1]]
    /\ \A h \in AckHandlers :
         /\ hset[h] \cap ackPending = {}
         /\ \A g \in AckHandlers \ {h} : hset[g] \cap hset[h] = {}
         /\ hset[h] \cap failed = {}

\* As long as the application goes on calling Receive, a message the server
\* has for the subscription is received, or a permanent error sets in.
MessagesFlow ==
    \A m \in Msgs :
        \/ <>[](m \in held \/ err # Nil)
        \/ <>[](\A r \in Receivers : rpc[r] = "idle")

\* Shutdown returns, with the acks flushed, though Receive, the fetching
\* goroutine and the ack handler compete for s.mu, and by cancelling the
\* background context it lets everybody go who waits for a fetch in Receive.
ShutdownEnds ==
    /\ \A s \in Closers : <>[](spc[s] \in {"idle", "returned"})
    /\ \A r \in Receivers : []<>(cancelled => rpc[r] = "idle")

=============================================================================
