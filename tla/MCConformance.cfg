\* All drivers; strings to be escaped of up to eight characters.
SPECIFICATION ConformanceSpec
CONSTANTS
    Drivers = {"mem", "file", "s3", "azure", "gcs"}
    Keys <- MCKeys
    ListPrefixes <- MCListPrefixes
    PageSizes = {1, 2}
    MaxChanges = 1
    MaxLength = 8
    PageTable <- MCPages
    Call <- MCCall
    PageFrom <- MCPageFrom
    Passes <- MCPasses
INVARIANTS
    Listed
    Portable
    Conforms
    EscapeReversible
CHECK_DEADLOCK FALSE
