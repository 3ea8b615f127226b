\* One replica that has received nothing.
CONSTANTS
    b1 = b1
    b2 = b2
    b3 = b3
    Nil = Nil
    Batches = {b1}
    Count <- Counts
    Replicas = {r1}
    Consumers = {}
    SegmentBytes = 2
    IndexInterval = 2
    FetchSizes = {1}
    ChannelSize = 2
    MaxCrashes = 0
SPECIFICATION Spec
INVARIANTS WatermarkReplicated
