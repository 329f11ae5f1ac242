\* Topic: two valid messages and an invalid one, two callers of Shutdown, and no
\* limit on the bytes of a batch.  Subscription: as in MCPubsubLive.
SPECIFICATION LiveSpec
CONSTANTS
    Parts = {"Topic", "Subscription"}
    Items = {i1, i2, i3}
    Goroutines = {g1, g2}
    Closers = {s1, s2}
    Invalid = {i3}
    HandlerErrors = {"nil", "SendBatchError", "Canceled"}
    ByteSize <- MCByteSize
    MaxHandlers = 1
    MinBatchSize = 0
    MaxBatchSize = 1
    MaxBatchByteSize = 0
INVARIANTS
    SentOnce
    FlushedMeansSent
PROPERTIES
    CallsComplete
    MessagesFlow
    ShutdownEnds
CHECK_DEADLOCK FALSE
