\* Variable: one reader, one watcher, two callers of Close, two changes of the
\* variable.  Watchers: two changes, two failing requests.
SPECIFICATION BothSpec
CONSTANTS
    Good = {v1}
    Bad = {e1}
    Readers = {r1}
    Closers = {c1, c2}
    MaxChanges = 2
    Drivers = {"blobvar", "httpvar", "gcpruntimeconfig", "hashivault", "awsparamstore",
               "gcpsecretmanager", "awssecretsmanager", "filevar", "etcdvar", "constantvar"}
    Values = {a, b}
    BadContents = BadContents
    Empty = Empty
    NoState = NoState
    MaxFaults = 2
INVARIANTS
    HealthyMeansGood
PROPERTIES
    ClosedForGood
    VariableSeesChanges
    CloseCompletes
    ChangesReturned
    WatcherCloses
CHECK_DEADLOCK FALSE
