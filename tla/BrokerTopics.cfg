SPECIFICATION Spec
CONSTANTS
    Utf8 <- MCUtf8
    MaxCount = 3
    Conns = {s, p}
    Topics <- TwoTopics
    NoTopic = NoTopic
    Patterns <- TwoPatterns
    Subs <- MCSubs
    EmptySubs <- NewTree
    SubsInsert <- TreeInsert
    SubsRemove <- TreeRemove
    SubsCheck <- MCSubsCheck
    Subscribers = {s}
    Publishers = {p}
    MaxSent = 1
    TopicCap = 1
    EventCap = 1
    OutCap = 1
INVARIANT Coverage
CHECK_DEADLOCK FALSE
