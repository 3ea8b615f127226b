------------------------ MODULE ConsumerProperties ------------------------
(***************************************************************************)
(* What a consumer guarantees to the application that reads from it.       *)
(***************************************************************************)
EXTENDS Consumer

\* The offsets of a partition that are in the channel, and the first one that the
\* fetch loop has not handed over yet.
InChannel(p) == {channel[i][2] : i \in {i \in DOMAIN channel : channel[i][1] = p}}
NextOffset(p) ==
    IF answer # <<>> /\ Head(answer).partition = p
    THEN commitOffset[p] + Head(answer).count - Len(Head(answer).todo)
    ELSE commitOffset[p]

\* What the application has taken of a partition, what waits in the channel and
\* what is about to be handed over are the offsets from the start on, in order.
Continuous(p) ==
    LET taken == BaseOffset[p] + Len(received[p]) IN
    /\ received[p] = [i \in 1 .. Len(received[p]) |-> BaseOffset[p] + i - 1]
    /\ taken <= NextOffset(p) /\ InChannel(p) = taken .. NextOffset(p) - 1
    /\ \A i, j \in DOMAIN channel :
          i < j /\ channel[i][1] = p /\ channel[j][1] = p =>
              channel[i][2] < channel[j][2]
    /\ \A i \in DOMAIN answer : answer[i].partition = p =>
          answer[i].todo = [k \in 1 .. Len(answer[i].todo) |-> NextOffset(p) + k - 1]

\* As long as the application listens, it gets the records of each partition each
\* once and in order, although the offset of the next fetch moves later than the
\* records do.
EachRecordOnce == open => \A p \in Partitions : Continuous(p)

\* A loop that waits for an answer is alone on the connection: the answer it
\* will read is the one to its own request, never the other loop's (which a
\* fetch would answer with a panic).
OwnAnswer ==
    \A loop \in Loops :
        (IF loop = "fetch" THEN fetchLoop ELSE metadataLoop) = "asked" /\ connected =>
            Len(stream) = 1 /\ Head(stream).of = loop

-----------------------------------------------------------------------------
(* Liveness.  tokio runs both loops and their timers, the broker answers what *)
(* it is asked, and the application takes what is in the channel.             *)

Fairness ==
    /\ WF_vars(MetadataLoop) /\ WF_vars(FetchLoop)
    /\ WF_vars(BrokerAnswers) /\ WF_vars(Take)

FairSpec == Spec /\ Fairness

\* A loop that wants the connection gets its turn, although the fetch loop
\* keeps the mutex while the application is slow, and whether or not the
\* connection still works.
BothLoopsServed ==
    /\ metadataLoop = "lock" ~> metadataLoop = "sleep"
    /\ fetchLoop = "lock" ~> fetchLoop # "lock"

Abstract ==
    INSTANCE Delivery WITH
        Channels <- Partitions,
        MaxLen <- MaxRecords,
        log <- [p \in Partitions |-> [i \in 1 .. leo[p] - BaseOffset[p] |->
                                         BaseOffset[p] + i - 1]],
        got <- received,
        lost <- IF open /\ connected THEN {} ELSE Partitions

\* The consumer implements Delivery: the application takes the records of each
\* partition from the start of consumption on, in order, without a gap and
\* without a repetition, and in the end all of them, unless the connection
\* breaks (it is never opened again) or the application leaves.
ApplicationSeesLog == Abstract!Spec

=============================================================================
