\* n2 leads with an entry of an earlier epoch; n1, which has one more that nobody
\* else has, fetches.
CONSTANTS
    n1 = n1
    n2 = n2
    n3 = n3
    v1 = v1
    v2 = v2
    v3 = v3
    Nil = Nil
    Voters = {n1, n2, n3}
    Values = {v1, v2, v3}
    InitQuorumState <- DivergedQuorumState
    InitLog <- DivergedLog
    Electable = {n2}
    Crashable = {}
    Pushing = {}
    Fetching = {n1}
    Resigning = {}
    MaxEpoch = 2
    MaxLog = 2
    MaxFetches = 3
    MaxBusy = 1
SPECIFICATION Spec
\* The bounds end every behaviour.
CHECK_DEADLOCK FALSE
PROPERTIES CommitBacked OkBacked
