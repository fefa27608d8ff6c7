SPECIFICATION FairSpec
CONSTANTS
    nDoms = 2
    MaxProcs = 2
    MaxIter = 3
    Visualizers = {v1, v2}
    DomainUnits = 1
    Room = 1
    NoOne = NoOne
    NoFrame = NoFrame
    NoCount = NoCount
    NoFD = NoFD
INVARIANTS
    TypeOK
    FramesInTime
    SendsHeldFrame
PROPERTIES
    ImplementsServer
    SimulationEnds
\* the process exits after its last iteration
CHECK_DEADLOCK FALSE
