SPECIFICATION VisualizerSpec
CONSTANTS
    NumParticles = 2
    NUM_TIMES_TO_SUBDIVIDE = 1
    NUM_TRIANGLES = 16
    MIN_DIST_INCREMENT = 1
    MAX_DIST_INCREMENT = 4
    SPEED_INCREMENT = 2
INVARIANTS
    TypeOK
    WritesInSlot
    RendersQuietSlot
    SceneTypeOK
    MeshFitsDrawing
PROPERTIES
    DisplayComesUp
\* a process whose data thread has called exit does nothing more
CHECK_DEADLOCK FALSE
