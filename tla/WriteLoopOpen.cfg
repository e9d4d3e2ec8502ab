SPECIFICATION FairSpec
CONSTANTS
    NoFlag = NoFlag
    ModeFlags <- NoMode
    SizeFlags = {4}
    FlushFlags <- Strategies
    IntervalFlags = {0, 10}
    MessageSizes = {3, 4}
    MaxSent = 3
    OutCap = 2
PROPERTY ConnectionCloses
CHECK_DEADLOCK FALSE
