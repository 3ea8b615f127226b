----------------------------- MODULE MCBroker -----------------------------
(* Instances of Broker for TLC. *)
EXTENDS BrokerProperties

CONSTANTS c1, c2, t1, t2

Creates == {<<t1>>, <<t2>>, <<t1, t2>>}
\* A request about a partition of each topic.
Data == {<< <<t1, 0>>, <<t2, 1>> >>}

=============================================================================
