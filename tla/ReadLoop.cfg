SPECIFICATION FairSpec
CONSTANTS
    Lengths = {1, 2}
    MaxFrames = 3
    InCap = 1
INVARIANTS
    TypeOK
    Framed
    RestsWhenDone
PROPERTIES
    Arrives
    LoopEnds
    LoopWearsOff
CHECK_DEADLOCK FALSE
