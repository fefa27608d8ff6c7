SPECIFICATION FairSpec
CONSTANTS
    Precision = 3
    MaxProcs = 2
    Hosts = {h1, h2}
    NoMatch = NoMatch
    ArgLists <- MCLongRun
    Garbage <- MCGarbage
    Defaults <- MCDefaults
PROPERTIES
    TimeLimitEnds
\* the job ends
CHECK_DEADLOCK FALSE
