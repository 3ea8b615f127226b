\* Two replicas, two batches, a channel of one place: nobody waits forever.
CONSTANTS
    b1 = b1
    b2 = b2
    b3 = b3
    Nil = Nil
    Batches = {b1, b2}
    Count <- Counts
    Replicas = {r1, r2}
    Consumers = {}
    SegmentBytes = 2
    IndexInterval = 2
    FetchSizes = {1}
    ChannelSize = 1
    MaxCrashes = 0
SPECIFICATION FairSpec
INVARIANTS AcksWaitAboveWatermark
PROPERTIES WatermarkMonotone EveryAppendAnswered
