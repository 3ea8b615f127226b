CONSTANTS
    p1 = p1
    p2 = p2
    p3 = p3
    stray = stray
    known = known
    unknown = unknown
    key = key
    Nil = Nil
    Payloads = {p1, p2, p3, stray}
    TopicOf <- Topic
    KeyOf <- Key
    Hash <- Murmur
    Topics = {known}
    NumPartitions = 2
    MaxBytes = 2
    ChannelSize = 2
SPECIFICATION FairSpec
INVARIANT TypeOK
INVARIANT NothingLost
INVARIANT AtMostOnce
INVARIANT KeyOrder
PROPERTY EveryPayloadSent
CHECK_DEADLOCK FALSE
