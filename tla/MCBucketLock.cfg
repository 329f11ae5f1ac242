\* Two goroutines, each with any one call.
SPECIFICATION Spec
CONSTANTS
    Calls = {c1, c2}
    None = None
PROPERTIES
    SafeToCallConcurrently
CHECK_DEADLOCK FALSE
