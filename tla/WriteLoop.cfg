SPECIFICATION FairSpec
CONSTANTS
    NoFlag = NoFlag
    ModeFlags <- AllModes
    SizeFlags = {NoFlag, 0, 4}
    FlushFlags <- AllFlushes
    IntervalFlags = {0, 10}
    MessageSizes = {3, 4}
    MaxSent = 3
    OutCap = 2
INVARIANTS
    TypeOK
    Conserved
    NothingStuck
    NothingLostAtTheEnd
PROPERTIES
    Delivered
    LoopEnds
CHECK_DEADLOCK FALSE
