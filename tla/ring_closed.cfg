SPECIFICATION FairSpec
CONSTANT NumParticles = 1
PROPERTIES
    EndsWhenClosed
\* a process whose data thread has called exit does nothing more
CHECK_DEADLOCK FALSE
