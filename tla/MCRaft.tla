------------------------------ MODULE MCRaft ------------------------------
(* Instances of Raft for TLC. *)
EXTENDS RaftProperties

CONSTANTS n1, n2, n3, v1, v2, v3

\* Where every voter has the same rights, voters are interchangeable.
SymmetricVoters == Permutations(Voters)

\* A new quorum: no quorum-state file, QuorumState::empty, and empty logs.
NewQuorumState == [n \in Voters |-> [currentEpoch |-> 0, votedFor |-> Nil]]
NewLog == [n \in Voters |-> <<>>]

\* A quorum that stopped in epoch 1: n1 won it with the vote of n2, appended v1
\* and pushed it to n2, and then appended v2, which nobody received before the
\* voters crashed.
DivergedQuorumState ==
    [n \in Voters |-> [currentEpoch |-> 1, votedFor |-> IF n = n3 THEN Nil ELSE n1]]
DivergedLog ==
    LET first == [epoch |-> 1, offset |-> 0, data |-> v1]
        second == [epoch |-> 1, offset |-> 1, data |-> v2]
    IN  [n \in Voters |-> CASE n = n1 -> <<first, second>>
                            [] n = n2 -> <<first>>
                            [] OTHER  -> <<>>]

\* Both are files that a quorum can have left behind.
ASSUME InitFits

=============================================================================
