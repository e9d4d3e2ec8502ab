SPECIFICATION FairSpec
CONSTANTS
    Utf8 <- MCUtf8
    MaxCount = 2
    Conns = {s, p}
    Topics <- TwoTopics
    NoTopic = NoTopic
    Patterns <- OnePattern
    Subs <- MCSubs
    EmptySubs <- NewTree
    SubsInsert <- TreeInsert
    SubsRemove <- TreeRemove
    SubsCheck <- MCSubsCheck
    Subscribers = {s}
    Publishers = {p}
    MaxSent = 1
    TopicCap = 1
    EventCap = 1
    OutCap = 1
PROPERTY EveryMatchIsFollowed
CHECK_DEADLOCK FALSE
