\* Batcher: two concurrent handlers; batches of at most two items and two
\* bytes, and of at least two items unless the batcher is shut down.  i1 fills
\* a batch and i4 does not fit into any.
\* Subscription: two receivers, two concurrent calls of ReceiveBatch, a message
\* that is acked or nacked and two that are not, and Shutdown; or one receiver,
\* two messages that are acked or nacked, two ack handlers, and Shutdown.
SPECIFICATION BothSpec
CONSTANTS
    i1 = i1
    i2 = i2
    i3 = i3
    i4 = i4
    g1 = g1
    g2 = g2
    g3 = g3
    m1 = m1
    h2 = h2
    Items = {i1, i2, i3, i4}
    Goroutines = {g1, g2, g3}
    HandlerErrors = {"nil"}
    ByteSize <- MCByteSize
    MaxHandlers = 2
    MinBatchSize = 2
    MaxBatchSize = 2
    MaxBatchByteSize = 2
    Receivers = {r1, r2}
    Closers = {s1}
    Msgs = {m1, m2, m3}
    Ackable = {m1, m2, m3}
    AckHandlers = {h1, h2}
    CanNack = TRUE
    CloseFails = TRUE
    RecvMaxHandlers = 2
    RecvMinBatch = 1
    RecvMaxBatch = 1
    CapBatchSize = 2
INVARIANTS
    TakenInOrder
    OneOwner
    HandlerLimit
    NoStrandedWork
    ShutdownFlushes
    OnePlace
    AcksFlushed
    OneVerdict
PROPERTIES
    ActsAsService
SYMMETRY Symmetry
CHECK_DEADLOCK FALSE
