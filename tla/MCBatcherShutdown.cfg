\* Shutdown with a limit on the bytes of a batch.
SPECIFICATION LiveSpec
CONSTANTS
    Parts = {"Topic"}
    Items = {i1}
    Goroutines = {g1}
    Closers = {s1}
    Invalid = {}
    HandlerErrors = {"nil", "SendBatchError", "Canceled"}
    ByteSize <- MCByteSize
    MaxHandlers = 1
    MinBatchSize = 0
    MaxBatchSize = 2
    MaxBatchByteSize = 2
PROPERTIES
    ShutdownCompletes
CHECK_DEADLOCK FALSE
