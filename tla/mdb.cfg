SPECIFICATION FairSpec
CONSTANTS
    Domains = {d1, d2, d3}
    MaxIter = 3
    NoOne = NoOne
    NoFrame = NoFrame
INVARIANTS
    TypeOK
    HeldFrameIntact
    AwaitedDataToCome
    SomeDomainOwes
PROPERTIES
    ImplementsFrameStream
    AllIterationsBuffered
    NextFrameDeliveredSerially
\* every domain stops after MaxIter iterations
CHECK_DEADLOCK FALSE
