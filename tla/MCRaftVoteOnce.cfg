\* What raft/tests/election.rs:103 says of a voter.
CONSTANTS
    n1 = n1
    n2 = n2
    n3 = n3
    v1 = v1
    v2 = v2
    v3 = v3
    Nil = Nil
    Voters = {n1, n2, n3}
    Values = {}
    InitQuorumState <- NewQuorumState
    InitLog <- NewLog
    Electable = {n1, n2, n3}
    Crashable = {}
    Pushing = {}
    Fetching = {}
    Resigning = {}
    MaxEpoch = 1
    MaxLog = 0
    MaxFetches = 0
    MaxBusy = 1
SPECIFICATION Spec
\* The bounds end every behaviour.
CHECK_DEADLOCK FALSE
INVARIANTS VoteOnce
SYMMETRY SymmetricVoters
