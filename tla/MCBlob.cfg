SPECIFICATION Spec
CONSTANTS
    w1 = w1
    w2 = w2
    x = x
    k1 = k1
    k2 = k2
    Ops = {w1, w2, x}
    Seed = Seed
    Keys = {k1, k2}
    Drivers = {"file", "bare", "mem", "pipe"}
    RequestsOf <- MCRequestsOf
    SniffLen = 2
    MaxFaults = 1
    None = None
    NoBlob = NoBlob
    NoAttrs = NoAttrs
    Torn = Torn
INVARIANTS WrittenIsStored AttributesFit
PROPERTIES  CallsReturn
CHECK_DEADLOCK FALSE
