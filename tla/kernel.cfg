CONSTANTS
    p = 2
    np = 12
    multiProcessorCount = 7
    SharedRows = 4
SPECIFICATION FairSpec
INVARIANTS TypeOK LoadsABody NoSharedRace EveryBodyOnce
PROPERTY BlockFinishes
CHECK_DEADLOCK FALSE
