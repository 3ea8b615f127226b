-------------------------- MODULE MCRaftPartition --------------------------
(* Instances of RaftPartition for TLC. *)
EXTENDS RaftPartitionProperties

CONSTANTS e1, e2, e3, e4, e5

One == [id \in Batches |-> 1]

\* Two entries each of two epochs, and one of a later one.
Epochs == [id \in Batches |-> CASE id \in {e1, e2} -> 1
                                [] id \in {e3, e4} -> 2
                                [] OTHER -> 3]

=============================================================================
