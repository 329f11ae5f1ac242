\* The callers of MCDocs.cfg, for a property memdocstore does not have.
SPECIFICATION MCSpec
CONSTANTS
    c1 = c1
    c2 = c2
    k1 = k1
    k2 = k2
    u1 = u1
    u2 = u2
    Clients = {c1, c2}
    Keys = {k1, k2}
    UniqueKeys <- MCUnique
    Impatient = {c2}
    Lists <- MCLists
    Budget <- MCBudget
    MaxOutstanding = 2
    AllDrivers = {}
    AtomicDrivers = {}
    DoActions <- MCDo
    FindAll <- MCFindAll
    Passes <- MCPasses
PROPERTY
    AllOrNothing
CHECK_DEADLOCK FALSE
