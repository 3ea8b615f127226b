---------------------------- MODULE MCProducer ----------------------------
(* Instances of Producer for TLC. *)
EXTENDS ProducerProperties

CONSTANTS p1, p2, p3, stray, known, unknown, key

\* p1 and p2 have the same key, p3 has none; stray goes to a topic that the
\* metadata does not name.
Topic == [p \in Payloads |-> IF p = stray THEN unknown ELSE known]
Key == [p \in Payloads |-> IF p \in {p1, p2} THEN key ELSE Nil]
Murmur == [k \in {key} |-> 3]

=============================================================================
