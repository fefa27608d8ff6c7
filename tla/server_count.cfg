SPECIFICATION Spec
CONSTANTS
    Visualizers = {v1, v2}
    NumDomains = 1
    DomainUnits = 2
    Room = 1
    Frames = 1
    NoCount = NoCount
    NoFD = NoFD
INVARIANTS
    ToldTheNumber
\* the process exits after its last frame
CHECK_DEADLOCK FALSE
