\* Two callers that run two lists each, two goroutines per list at a time; three
\* clients of each driver; the conformance tests.
SPECIFICATION MCSpec
CONSTANTS
    c1 = c1
    c2 = c2
    k1 = k1
    k2 = k2
    u1 = u1
    u2 = u2
    Clients = {c1, c2}
    Keys = {k1, k2}
    UniqueKeys <- MCUnique
    Impatient = {c2}
    Lists <- MCLists
    Budget <- MCBudget
    MaxOutstanding = 2
    AllDrivers = {"mem", "dynamo", "firestore", "mongo"}
    AtomicDrivers = {"dynamo", "firestore"}
    DoActions <- MCDo
    FindAll <- MCFindAll
    Passes <- MCPasses
INVARIANTS
    ListOrder
    DocConforms
    DocPortable
PROPERTIES
    NoLostUpdate
    DoCompletes
CHECK_DEADLOCK FALSE
