SPECIFICATION FairSpec
CONSTANTS
    Lengths = {1, 2}
    MaxFrames = 3
    InCap = 1
PROPERTY MisfitEnds
CHECK_DEADLOCK FALSE
