---------------------------- MODULE MCPubsubLive ----------------------------
(***************************************************************************)
(* A Topic and a Subscription under fairness, in one run: in each          *)
(* behaviour one of the two is at work, and nobody calls the other.        *)
(***************************************************************************)
EXTENDS Topic

CONSTANT Parts   \* what may be at work: "Topic", "Subscription"

\* Every message of the Topic has one byte.
MCByteSize == [i \in Items |-> 1]

VARIABLES
    part,    \* what is at work
    \* of the Subscription
    q, err, unreported, waitc, bsize, given, subCancelled, rpc, held, fpc, want, call, size, gerr,
    result, resultClosed, verdict, ackPending, ackShut, hset, ackCall, herr, subSpc, flusher,
    server, subClosed, settled, failed

\* One receiver, one message that is acked or nacked, and Shutdown.
S == INSTANCE Subscription WITH
    Receivers <- {"r1"}, Closers <- {"s1"}, Msgs <- {"m1"}, Ackable <- {"m1"}, AckHandlers <- {"h1"},
    CanNack <- TRUE, CloseFails <- FALSE, RecvMaxHandlers <- 1, RecvMinBatch <- 1,
    RecvMaxBatch <- 2, CapBatchSize <- 2,
    cancelled <- subCancelled, hcall <- ackCall, spc <- subSpc, closed <- subClosed

subVars ==
    <<q, err, unreported, waitc, bsize, given, subCancelled, rpc, held, fpc, want, call, size, gerr,
      result, resultClosed, verdict, ackPending, ackShut, hset, ackCall, herr, subSpc, flusher,
      server, subClosed, settled, failed>>

LiveInit == part \in Parts /\ TopicInit /\ S!SubscriptionInit

LiveNext ==
    \/ part = "Topic" /\ TopicNext /\ UNCHANGED <<part, subVars>>
    \/ part = "Subscription" /\ S!SubscriptionNext /\ UNCHANGED <<part, tvars>>

\* Fairness is asked of the part at work, which stays the same; written with <>[]
\* for TLC, which then looks at each part by itself.
LiveSpec ==
    /\ LiveInit /\ [][LiveNext]_<<part, tvars, subVars>>
    /\ \/ <>[](part = "Topic") /\ TopicFairness
       \/ <>[](part = "Subscription") /\ S!SubscriptionFairness

---------------------------------------------------------------------------
\* A message the server has is received as long as somebody calls Receive:
\* MessagesFlow of Subscription.
MessagesFlow == S!MessagesFlow

\* Shutdown returns, and lets everybody go who waits in Receive: ShutdownEnds of
\* Subscription.
ShutdownEnds == S!ShutdownEnds
=============================================================================
