SPECIFICATION FairSpec
CONSTANTS
    Utf8 <- MCUtf8
    MaxCount = 2
    Conns = {s, p}
    Topics <- OneTopic
    NoTopic = NoTopic
    Patterns <- OnePattern
    Subs <- MCSubs
    EmptySubs <- NewTree
    SubsInsert <- TreeInsert
    SubsRemove <- TreeRemove
    SubsCheck <- MCSubsCheck
    Subscribers = {s}
    Publishers = {s, p}
    MaxSent = 2
    TopicCap = 2
    EventCap = 1
    OutCap = 2
INVARIANTS
    TypeOK
    Bookkeeping
    Gapless
    QueueInOrder
    RestingIsUpToDate
PROPERTIES
    FeedSpec
    AtMostOnce
    Convergence
CHECK_DEADLOCK FALSE
