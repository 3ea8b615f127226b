\* The log of a voter, appended to, truncated anywhere and restarted.
CONSTANTS
    e1 = e1
    e2 = e2
    e3 = e3
    e4 = e4
    e5 = e5
    Nil = Nil
    Batches = {e1, e2, e3, e4, e5}
    Count <- One
    EpochOf <- Epochs
    Replicas = {}
    Consumers = {}
    SegmentBytes = 3
    IndexInterval = 1
    FetchSizes = {1}
    ChannelSize = 2
    MaxCrashes = 1
    TruncateAt = {0, 2, 3}
SPECIFICATION RaftSpec
INVARIANTS FetchFindsRecord NothingForgotten WatermarkInLog AnswersLikeVecLog
