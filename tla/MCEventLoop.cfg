CONSTANTS
    Frame = {f1, f2}
    NoFrame = NoFrame
    CqSize = 3
SPECIFICATION FairSpec
INVARIANTS
    TypeOK
    OneWakerEach
PROPERTY
    StopEnds
CHECK_DEADLOCK FALSE
