\* A truncation inside a segment.
CONSTANTS
    e1 = e1
    e2 = e2
    e3 = e3
    e4 = e4
    e5 = e5
    Nil = Nil
    Batches = {e1, e2, e3, e4, e5}
    Count <- One
    EpochOf <- Epochs
    Replicas = {}
    Consumers = {}
    SegmentBytes = 2
    IndexInterval = 1
    FetchSizes = {1}
    ChannelSize = 2
    MaxCrashes = 0
    TruncateAt = {1}
SPECIFICATION RaftSpec
INVARIANTS TruncatedIsGone
