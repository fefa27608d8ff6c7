CONSTANTS
    p = 2
    np = 6
    multiProcessorCount = 2
    SharedRows = 4
SPECIFICATION Spec
INVARIANT EveryBodyOnce
CHECK_DEADLOCK FALSE
