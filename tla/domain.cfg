CONSTANTS
    np = 4
    MaxIter = 3
SPECIFICATION Spec
INVARIANTS TypeOK NothingWrong FrameOfIteration
CHECK_DEADLOCK FALSE
