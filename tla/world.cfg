SPECIFICATION FairSpec
CONSTANTS
    Precision = 3
    MaxProcs = 2
    Hosts = {h1, h2}
    NoMatch = NoMatch
    ArgLists <- MCArgLists
    Garbage <- MCGarbage
    Defaults <- MCDefaults
INVARIANTS
    TypeOK
    SettingsGiven
    OneOwner
    RunTogether
    StepsForward
PROPERTIES
    RunReachesEnd
\* the job ends
CHECK_DEADLOCK FALSE
