CONSTANTS
    c1 = c1
    c2 = c2
    t1 = t1
    t2 = t2
    Nil = Nil
    Clients = {c1, c2}
    Topics = {t1, t2}
    NumPartitions = 2
    CreateRequests <- Creates
    DataRequests <- Data
    ChannelSize = 1
    SegmentRecords = 5
    MaxCreates = 3
    MaxCrashes = 1
SPECIFICATION FairSpec
INVARIANT TypeOK
INVARIANT ConfirmedIsVisible
INVARIANT ConfirmedSurvives
INVARIANT ImageIsLogged
INVARIANT KnownStaysKnown
INVARIANT WritersAskedFor
PROPERTY EveryCreateAnswered
