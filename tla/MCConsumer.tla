---------------------------- MODULE MCConsumer ----------------------------
(* Instances of Consumer for TLC. *)
EXTENDS ConsumerProperties

CONSTANTS a, b

\* One partition is read from its beginning, the other from offset 2.
Base == [p \in Partitions |-> IF p = a THEN 0 ELSE 2]

=============================================================================
