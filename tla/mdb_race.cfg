SPECIFICATION FairSpec
CONSTANTS
    Domains = {d1, d2}
    MaxIter = 3
    NoOne = NoOne
    NoFrame = NoFrame
PROPERTIES
    NextFrameDelivered
\* every domain stops after MaxIter iterations
CHECK_DEADLOCK FALSE
