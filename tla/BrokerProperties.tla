------------------------- MODULE BrokerProperties -------------------------
(***************************************************************************)
(* What the broker guarantees to the clients that create and use topics.   *)
(***************************************************************************)
EXTENDS Broker

\* A confirmed topic is complete: from the answer on, every partition of it can
\* be looked up.
ConfirmedIsVisible == PartitionsOf(told) \subseteq DOMAIN image

\* A record of the partition is in a segment that no restart reads.
BeyondReplay(tp) ==
    \E i \in 2 .. Len(mlog) : PartitionRecord(tp[1], tp[2]) \in ToSet(mlog[i])

\* A confirmed topic survives a crash at any point, also between the records of
\* another topic, as long as no restart has made the broker overwrite the start
\* of its metadata log, partition by partition unless its record is past the
\* first segment, the only one a restart reads.
ConfirmedSurvives ==
    up /\ ~ clobbered =>
        \A tp \in PartitionsOf(created) : tp \in DOMAIN image \/ BeyondReplay(tp)

\* The places of the metadata log, segment after segment, and the partitions a
\* replay of all of it would find.
Places == UNION {{s} \X DOMAIN mlog[s] : s \in DOMAIN mlog}
At(place) == mlog[place[1]][place[2]]
Before(a, b) == a[1] < b[1] \/ (a[1] = b[1] /\ a[2] < b[2])
Logged ==
    {tp \in TopicPartition :
        \E a, b \in Places :
            Before(a, b) /\ At(a) = TopicRecord(tp[1]) /\ At(b) = PartitionRecord(tp[1], tp[2])}

\* Write-ahead: the image shows no partition that is not in the log, whichever
\* segment it is in.
ImageIsLogged == ~ clobbered => DOMAIN image \subseteq Logged

\* A partition that a client has seen in a metadata response is never unknown
\* to it afterwards: it can look partitions up once and rely on them, although
\* a request reads the image anew for each of its partitions.
KnownStaysKnown ==
    \A c \in Clients : IsData(c) => conn[c].unknown \intersect view[c] = {}

\* The actors of a partition that can still write its files: the one of the image,
\* and those a request has taken from an earlier image and works with.
WorkingOn(tp) ==
    {c \in Clients : /\ IsData(c) /\ conn[c].handle # Nil
                     /\ Head(conn[c].left) = tp}
Writers(tp) ==
    {image[t] : t \in DOMAIN image \intersect {tp}}
        \union {conn[c].handle : c \in WorkingOn(tp)}

\* A partition has no more writers at a time than its topic was asked for: one, as
\* long as nobody asks to create a topic that exists.  Requests that keep a handle
\* while images come and go, other topics of the same command, a replay of repeated
\* records add none.
WritersAskedFor == \A tp \in TopicPartition : Cardinality(Writers(tp)) <= asked[tp[1]]

-----------------------------------------------------------------------------
(* Liveness: tokio runs the metadata actor, and its appends are answered.     *)
(* tokio's channel serves waiting senders in order: one that finds room again *)
(* and again sends.                                                           *)

FairSpec ==
    /\ Spec /\ WF_vars(MetadataActor)
    /\ \A c \in Clients : SF_vars(SendCreateTopic(c))

\* Every CreateTopic request is answered, also when its topic exists already or
\* it had to wait for room in the channel; a crash ends the wait with the connection.
EveryCreateAnswered ==
    \A c \in Clients :
        (conn[c] # Nil /\ conn[c].kind = "Create") ~> conn[c] = Nil

=============================================================================
