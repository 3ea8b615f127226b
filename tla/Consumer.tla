----------------------------- MODULE Consumer -----------------------------
(***************************************************************************)
(* The consumer client (crates/consumer): two loops, one that refreshes    *)
(* metadata and one that fetches, share one connection behind a mutex.     *)
(* The fetch loop hands the records to the application through a bounded   *)
(* channel WHILE it holds the mutex, and moves the offset of a partition   *)
(* only after all records of its answer have been handed over.             *)
(*                                                                         *)
(* A record is its offset.  The high watermark the consumer keeps, and the *)
(* metadata it refreshes, are written and never read: they are left out.   *)
(***************************************************************************)
EXTENDS Integers, SequencesExt

CONSTANTS
    Partitions,     \* the observed partitions of the topic
    BaseOffset,     \* where the consumer starts in each of them
    FetchMax,       \* how many records partition_max_bytes admits
    ChannelSize,    \* capacity of the channel to the application
    MaxRecords,     \* bound: how many records a partition is given
    Nil

ASSUME OffsetAssumption == IsFiniteSet(Partitions) /\ BaseOffset \in [Partitions -> Nat]
ASSUME SizeAssumption == {FetchMax, ChannelSize, MaxRecords} \subseteq Nat \ {0}

VARIABLES
    leo,            \* the broker's log end offset of each partition
    commitOffset,   \* commit_offset of each partition
    fetchLoop,      \* where run_offset_sync_loop is
    metadataLoop,   \* where run_metadata_loop is
    mutex,          \* the loops at the stream mutex: its owner, then who waits
    stream,         \* requests and answers on the connection, in order
    answer,         \* the partitions of a fetch answer not yet dealt with
    channel,        \* records on their way to the application
    received,       \* the records the application has taken
    open,           \* whether the application still has its Consumer
    connected       \* whether the connection still works

brokerVars == <<leo, stream>>
appVars == <<channel, received, open>>
vars == <<brokerVars, commitOffset, fetchLoop, metadataLoop, mutex, answer,
          appVars, connected>>

-----------------------------------------------------------------------------
Loops == {"fetch", "metadata"}
Record == Partitions \X Nat
\* The records of a partition in an answer: count in all, todo not handed over.
PartitionResponse == [partition : Partitions, count : Nat, todo : Seq(Nat)]
\* A request with the offsets it asks for; later its answer.
Exchange == [of : Loops, offsets : [Partitions -> Nat],
             answer : Seq(PartitionResponse) \union {Nil}]

TypeOK ==
    /\ {leo, commitOffset} \subseteq [Partitions -> Nat]
    /\ fetchLoop \in {"lock", "asked", "deliver", "sleep"}
    /\ metadataLoop \in {"lock", "asked", "sleep"}
    /\ mutex \in Seq(Loops)
    /\ stream \in Seq(Exchange)
    /\ answer \in Seq(PartitionResponse)
    /\ channel \in Seq(Record) /\ Len(channel) <= ChannelSize
    /\ received \in [Partitions -> Seq(Nat)]
    /\ {open, connected} \subseteq BOOLEAN

\* Consumer::new: both loops are spawned; the ticker ticks at once.
Init ==
    /\ leo = BaseOffset
    /\ commitOffset = BaseOffset
    /\ fetchLoop = "sleep"
    /\ metadataLoop = "sleep"
    /\ mutex = <<>>
    /\ stream = <<>>
    /\ answer = <<>>
    /\ channel = <<>>
    /\ received = [p \in Partitions |-> <<>>]
    /\ open = TRUE
    /\ connected = TRUE

-----------------------------------------------------------------------------
(* The mutex: tokio hands it to the loops in the order in which they asked. *)

\* (Mutant: the mutex does not exclude.)
Owns_Any(loop) == TRUE

Owns(loop) == mutex # <<>> /\ Head(mutex) = loop

Unlocked == Tail(mutex)

Ask(loop) ==
    stream' = Append(stream, [of |-> loop, offsets |-> commitOffset, answer |-> Nil])

\* The answer a loop reads is the first on the stream.
Answered == stream # <<>> /\ Head(stream).answer # Nil

-----------------------------------------------------------------------------
(* run_metadata_loop *)

MetadataTick ==
    /\ metadataLoop = "sleep"
    /\ metadataLoop' = "lock"
    /\ mutex' = Append(mutex, "metadata")
    /\ UNCHANGED <<brokerVars, commitOffset, fetchLoop, answer, appVars, connected>>

\* single_request_metadata, request_metadata: ask, unless the write fails.
MetadataRequest ==
    /\ metadataLoop = "lock" /\ Owns("metadata")
    /\ connected
    /\ metadataLoop' = "asked"
    /\ Ask("metadata")
    /\ UNCHANGED <<leo, commitOffset, fetchLoop, mutex, answer, appVars, connected>>

\* The answer, or the error, is thrown away.
MetadataDone ==
    /\ \/ /\ metadataLoop = "asked" /\ Answered
          /\ stream' = Tail(stream)
       \/ /\ metadataLoop # "sleep" /\ Owns("metadata") /\ ~ connected
          /\ UNCHANGED stream
    /\ metadataLoop' = "sleep"
    /\ mutex' = Unlocked
    /\ UNCHANGED <<leo, commitOffset, fetchLoop, answer, appVars, connected>>

-----------------------------------------------------------------------------
(* run_offset_sync_loop *)

\* The sleep ends and the loop starts again.
FetchWake ==
    /\ fetchLoop = "sleep"
    /\ fetchLoop' = "lock"
    /\ mutex' = Append(mutex, "fetch")
    /\ UNCHANGED <<brokerVars, commitOffset, metadataLoop, answer, appVars, connected>>

\* request_fetch: ask for every partition from its offset.
FetchRequest ==
    /\ fetchLoop = "lock" /\ Owns("fetch")
    /\ connected
    /\ fetchLoop' = "asked"
    /\ Ask("fetch")
    /\ UNCHANGED <<leo, commitOffset, metadataLoop, mutex, answer, appVars, connected>>

\* request_fetch fails: unlock, sleep, and try again on the SAME connection.
FetchError ==
    /\ fetchLoop \in {"lock", "asked"} /\ Owns("fetch")
    /\ ~ connected
    /\ fetchLoop' = "sleep"
    /\ mutex' = Unlocked
    /\ UNCHANGED <<brokerVars, commitOffset, metadataLoop, answer, appVars, connected>>

\* An answer without records: unlock and sleep.
FetchEmpty ==
    /\ fetchLoop = "asked" /\ Answered
    /\ \A i \in DOMAIN Head(stream).answer : Head(stream).answer[i].count = 0
    /\ stream' = Tail(stream)
    /\ fetchLoop' = "sleep"
    /\ mutex' = Unlocked
    /\ UNCHANGED <<leo, commitOffset, metadataLoop, answer, appVars, connected>>

FetchResponse ==
    /\ fetchLoop = "asked" /\ Answered
    /\ \E i \in DOMAIN Head(stream).answer : Head(stream).answer[i].count > 0
    /\ answer' = Head(stream).answer
    /\ stream' = Tail(stream)
    /\ fetchLoop' = "deliver"
    /\ UNCHANGED <<leo, commitOffset, metadataLoop, mutex, appVars, connected>>

\* (Mutant: the channel is unbounded.)
HasRoom_Always == TRUE

HasRoom == Len(channel) < ChannelSize

\* (Mutant: a send that fails is tried again.)
SendReturns_Retried == open /\ HasRoom

\* tx.send waits for a place in the channel, and fails once the application is
\* gone.
SendReturns == open => HasRoom

\* Hand over the next record; one that cannot be handed over is dropped.
Deliver ==
    /\ fetchLoop = "deliver" /\ answer # <<>> /\ Head(answer).todo # <<>>
    /\ SendReturns
    /\ channel' = IF open
                  THEN Append(channel, <<Head(answer).partition, Head(Head(answer).todo)>>)
                  ELSE channel
    /\ answer' = [answer EXCEPT ![1].todo = Tail(@)]
    /\ UNCHANGED <<brokerVars, commitOffset, fetchLoop, metadataLoop, mutex,
                   received, open, connected>>

\* (Mutant: the offset moves by what a fetch may return.)
Advance_Max(response) == FetchMax

\* The offset moves by the number of records received.
Advance(response) == response.count

PartitionDone ==
    /\ fetchLoop = "deliver" /\ answer # <<>> /\ Head(answer).todo = <<>>
    /\ commitOffset' = [commitOffset EXCEPT ![Head(answer).partition] =
                           @ + Advance(Head(answer))]
    /\ answer' = Tail(answer)
    /\ UNCHANGED <<brokerVars, fetchLoop, metadataLoop, mutex, appVars, connected>>

\* The end of an iteration with records: unlock, and lock again at once, behind
\* the other loop if it waits.
FetchAgain ==
    /\ fetchLoop = "deliver" /\ answer = <<>>
    /\ fetchLoop' = "lock"
    /\ mutex' = Append(Unlocked, "fetch")
    /\ UNCHANGED <<brokerVars, commitOffset, metadataLoop, answer, appVars, connected>>

-----------------------------------------------------------------------------
(* The application, the broker and the network, external to the client. *)

Take ==
    /\ channel # <<>>
    /\ channel' = Tail(channel)
    /\ received' = [received EXCEPT ![Head(channel)[1]] = Append(@, Head(channel)[2])]
    /\ UNCHANGED <<brokerVars, commitOffset, fetchLoop, metadataLoop, mutex,
                   answer, open, connected>>

\* The application drops the Consumer and the records in the channel.
Close ==
    /\ open
    /\ open' = FALSE
    /\ channel' = <<>>
    /\ UNCHANGED <<brokerVars, commitOffset, fetchLoop, metadataLoop, mutex,
                   answer, received, connected>>

BrokerAppends(p) ==
    /\ leo[p] < BaseOffset[p] + MaxRecords
    /\ leo' = [leo EXCEPT ![p] = @ + 1]
    /\ UNCHANGED <<stream, commitOffset, fetchLoop, metadataLoop, mutex, answer,
                   appVars, connected>>

\* handle_fetch: from each partition at least one record if there is one, and
\* as many as fit; handle_metadata answers with nothing the client looks at.
BrokerAnswers ==
    /\ stream # <<>> /\ Head(stream).answer = Nil
    /\ \E fit \in [Partitions -> 1 .. FetchMax] :
          LET asked == Head(stream).offsets
              found(p) == Max({0, Min({fit[p], leo[p] - asked[p]})})
              ps == SetToSeq(Partitions)
              response(p) == [partition |-> p, count |-> found(p),
                              todo |-> [i \in 1 .. found(p) |-> asked[p] + i - 1]]
          IN  stream' = [stream EXCEPT ![1].answer =
                            IF Head(stream).of = "metadata" THEN <<>>
                            ELSE [i \in 1 .. Len(ps) |-> response(ps[i])]]
    /\ UNCHANGED <<leo, commitOffset, fetchLoop, metadataLoop, mutex, answer,
                   appVars, connected>>

ConnectionLost ==
    /\ connected
    /\ connected' = FALSE
    /\ stream' = <<>>
    /\ UNCHANGED <<leo, commitOffset, fetchLoop, metadataLoop, mutex, answer, appVars>>

-----------------------------------------------------------------------------
MetadataLoop == MetadataTick \/ MetadataRequest \/ MetadataDone

FetchLoop ==
    \/ FetchWake \/ FetchRequest \/ FetchError \/ FetchEmpty \/ FetchResponse
    \/ Deliver \/ PartitionDone \/ FetchAgain

Next ==
    \/ MetadataLoop
    \/ FetchLoop
    \/ Take \/ Close
    \/ \E p \in Partitions : BrokerAppends(p)
    \/ BrokerAnswers
    \/ ConnectionLost

Spec == Init /\ [][Next]_vars

=============================================================================
