SPECIFICATION FairSpec
CONSTANTS
    Program <- MCProgram
    Cap = 1
    TopicCap = 1
    MaxMessages = 4
INVARIANTS
    TypeOK
    NoCircularWait
PROPERTIES
    CommandPipe
    MessagePipe
    TasksWearOff
    CallsReturn
    RecvEnds
    Teardown
CHECK_DEADLOCK FALSE
