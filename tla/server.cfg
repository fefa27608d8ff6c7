SPECIFICATION Spec
CONSTANTS
    Visualizers = {v1, v2, v3}
    NumDomains = 2
    DomainUnits = 2
    Room = 3
    Frames = 2
    NoCount = NoCount
    NoFD = NoFD
SYMMETRY VisualizerSymmetry
INVARIANTS
    TypeOK
    WholeFrames
    NobodyLeftBehind
    ListedAreOpen
\* the process exits after its last frame
CHECK_DEADLOCK FALSE
