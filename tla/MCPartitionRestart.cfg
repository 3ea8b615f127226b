\* One consumer, no replicas: rotations, lost answers, one crash or shutdown.
CONSTANTS
    b1 = b1
    b2 = b2
    b3 = b3
    Nil = Nil
    Batches = {b1, b2, b3}
    Count <- Counts
    Replicas = {}
    Consumers = {c1}
    SegmentBytes = 2
    IndexInterval = 2
    FetchSizes = {1, 2}
    ChannelSize = 2
    MaxCrashes = 1
SPECIFICATION FairReaders
INVARIANTS TypeOK FetchFindsRecord NothingForgotten
PROPERTIES ReadersSeeLog
