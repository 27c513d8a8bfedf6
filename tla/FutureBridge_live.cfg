SPECIFICATION FairSpec
CHECK_DEADLOCK FALSE
INVARIANTS
    TypeOK
    ValueDelivered
    FrameAlive
PROPERTY
    RequirerReturns
