\* Two epochs of a quorum of two with proposals and crashes, where n1 pushes its log
\* when it leads and n2 resigns when it does.
CONSTANTS
    n1 = n1
    n2 = n2
    n3 = n3
    v1 = v1
    v2 = v2
    v3 = v3
    Nil = Nil
    Voters = {n1, n2}
    Values = {v1, v2}
    InitQuorumState <- NewQuorumState
    InitLog <- NewLog
    Electable = {n1, n2}
    Crashable = {n1, n2}
    Pushing = {n1}
    Fetching = {}
    Resigning = {n2}
    MaxEpoch = 2
    MaxLog = 2
    MaxFetches = 0
    MaxBusy = 1
SPECIFICATION Spec
\* The bounds end every behaviour.
CHECK_DEADLOCK FALSE
INVARIANTS TypeOK WriteAhead VotesRemembered OneLeaderPerEpoch EntryIdentity ClientsTracked
PROPERTIES DurableEpochMonotone OnlyFollowersCopy
