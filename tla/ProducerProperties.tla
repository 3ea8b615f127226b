------------------------ MODULE ProducerProperties ------------------------
(***************************************************************************)
(* What a producer guarantees to the application that publishes with it.   *)
(***************************************************************************)
EXTENDS Producer

AcceptedPayloads == {c.payload : c \in ToSet(accepted)}

\* A payload stands in the records of some partition.
StandsIn(p, records) ==
    \E tp \in TopicPartition : \E i \in DOMAIN records[tp] : records[tp][i] = p

\* A payload was accepted that makes the task panic.
Poisoned == \E p \in AcceptedPayloads : TopicOf[p] \notin Topics

\* When the task has returned, and also when it has panicked with a working
\* connection and without an unknown topic, every accepted payload is in the
\* broker's logs: neither a shutdown nor a dropped handle loses what was still
\* in the channel or collected by the batching loop.
NothingLost ==
    task = "done" \/ (task = "panicked" /\ connected /\ ~ Poisoned) =>
        \A p \in AcceptedPayloads : StandsIn(p, logs)

\* No payload stands in two places of the records of the partitions.
NoneTwice(records) ==
    \A r, s \in TopicPartition : \A i \in DOMAIN records[r], j \in DOMAIN records[s] :
        records[r][i] = records[s][j] => r = s /\ i = j

\* No payload is ever appended twice, whatever made the loop send its batch.
AtMostOnce == NoneTwice(logs)

\* Two publishes whose records have to keep their order.
InOrder(c, d) ==
    /\ c.cmd = "Async" /\ d.cmd = "Async"
    /\ TopicOf[c.payload] = TopicOf[d.payload]
    /\ KeyOf[c.payload] = KeyOf[d.payload] /\ KeyOf[c.payload] # Nil

\* A record follows, in the same partition, those published before it.
Ordered(publishes, records) ==
    \A i, j \in DOMAIN publishes :
        i < j /\ InOrder(publishes[i], publishes[j]) =>
            \A tp \in TopicPartition : \A b \in DOMAIN records[tp] :
                records[tp][b] = publishes[j].payload =>
                    \E a \in 1 .. b - 1 : records[tp][a] = publishes[i].payload

\* Records of one key and one topic that were published with publish_async keep
\* their order: one that is in a log follows, in the same log, those accepted
\* before it.
KeyOrder == Ordered(accepted, logs)

-----------------------------------------------------------------------------
(* Liveness.  tokio runs the task whenever one of its arms is ready, an armed *)
(* timer elapses, and the broker handles a request it has received.           *)

Fairness ==
    /\ WF_vars(Batcher)
    /\ WF_vars(TimerFires)
    /\ WF_vars(\E tp \in TopicPartition : BrokerAppends(tp))

FairSpec == Spec /\ Fairness

\* Every accepted payload reaches the broker, without a shutdown too, unless
\* the connection breaks or an unknown topic kills the task.
EveryPayloadSent ==
    \A p \in Payloads :
        p \in AcceptedPayloads ~> StandsIn(p, logs) \/ ~ connected \/ Poisoned

=============================================================================
