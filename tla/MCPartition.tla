---------------------------- MODULE MCPartition ----------------------------
(* Instances of Partition for TLC. *)
EXTENDS PartitionProperties

CONSTANTS b1, b2, b3

\* Batches of one and of two records.
Counts == [id \in Batches |-> IF id = b2 THEN 2 ELSE 1]

=============================================================================
