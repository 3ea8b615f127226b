---------------------------- MODULE BrokerProofs ----------------------------
(***************************************************************************)
(* Theorems about the broker's metadata, for any clients, topics, requests *)
(* and sizes, and any number of crashes.                                   *)
(***************************************************************************)
EXTENDS BrokerProperties, FiniteSetTheorems, SequenceTheorems, TLAPS

-----------------------------------------------------------------------------
(* The inductive invariant *)

\* The active segment is not larger than it is held to be.
SegmentFits == Len(Last(mlog)) <= size

\* A process that is down has no state but its files.
Down ==
    ~ up => /\ work = Nil /\ told = {}
            /\ \A c \in Clients : conn[c] = Nil /\ view[c] = {}

\* A command whose image is published has all its records in the log, and all
\* its partitions in the image.
WorkFits ==
    work # Nil =>
        /\ work.at <= Len(work.topics) + 1
        /\ work.stored => /\ work.at = Len(work.topics) + 1
                          /\ PartitionsOf(ToSet(work.topics)) \subseteq DOMAIN image

\* What a command has appended is in the log, a topic before its partitions.
WorkLogged ==
    ~ clobbered /\ work # Nil =>
        /\ \A i \in DOMAIN work.topics : i < work.at => PartitionsOf({work.topics[i]}) \subseteq Logged
        /\ work.at <= Len(work.topics) /\ work.appended > 0 =>
              /\ \E a \in Places : At(a) = TopicRecord(work.topics[work.at])
              /\ \A p \in 0 .. work.appended - 2 : <<work.topics[work.at], p>> \in Logged

\* Confirmed topics are in the log, whether or not the process runs.
CreatedLogged == ~ clobbered => PartitionsOf(created) \subseteq Logged

\* What a client was told of is in the image, and so is the partition whose actor
\* it works with, which this process has published.
ViewsKnown == \A c \in Clients : view[c] \subseteq DOMAIN image
HandlesKnown ==
    \A c \in Clients : IsData(c) /\ conn[c].handle # Nil =>
        /\ conn[c].left # <<>>
        /\ Head(conn[c].left) \in DOMAIN image
        /\ conn[c].handle \in 1 .. spawned[Head(conn[c].left)]

\* A client waits for the answer to this command.
IsCreate(c) == conn[c] # Nil /\ conn[c].kind = "Create"
Waits(c, topics) == IsCreate(c) /\ conn[c].sent /\ conn[c].topics = topics

\* The commands in the channel and the one being executed are those of clients that
\* wait for them, one of each client.
CommandsWaitedFor ==
    /\ \A i \in 1 .. Len(queue) : Waits(queue[i].client, queue[i].topics)
    /\ \A i, j \in 1 .. Len(queue) : queue[i].client = queue[j].client => i = j
    /\ work # Nil => /\ Waits(work.client, work.topics)
                     /\ \A i \in 1 .. Len(queue) : queue[i].client # work.client

\* The clients whose request for a topic has not led to a new image yet.
Published(c) == work # Nil /\ work.client = c /\ work.stored
Unmade(t) == {c \in Clients : IsCreate(c) /\ t \in ToSet(conn[c].topics) /\ ~ Published(c)}

\* Each handle was asked for, by a request of its own.
SpawnedAskedFor ==
    \A tp \in TopicPartition : spawned[tp] + Cardinality(Unmade(tp[1])) <= asked[tp[1]]

BrokerInv ==
    /\ TypeOK
    /\ SegmentFits /\ Down /\ WorkFits
    /\ ViewsKnown /\ HandlesKnown
    /\ ConfirmedIsVisible /\ KnownStaysKnown
    /\ CommandsWaitedFor /\ SpawnedAskedFor
    /\ WorkLogged /\ CreatedLogged
    /\ ImageIsLogged /\ ConfirmedSurvives

-----------------------------------------------------------------------------
(* The metadata log *)

\* The segments with another active one, and with one more after it.
LEMMA Segments ==
    ASSUME NEW S, NEW log \in Seq(Seq(S)), log # <<>>, NEW active \in Seq(S)
    PROVE  LET n == Len(log)
               e == [log EXCEPT ![n] = active]
           IN  /\ n \in Nat \ {0} /\ log[n] \in Seq(S)
               /\ e \o <<>> \in Seq(Seq(S)) /\ Len(e \o <<>>) = n
               /\ (e \o <<>>)[n] = active
               /\ \A s \in 1 .. n - 1 : (e \o <<>>)[s] = log[s]
               /\ e \o << <<>> >> \in Seq(Seq(S)) /\ Len(e \o << <<>> >>) = n + 1
               /\ (e \o << <<>> >>)[n] = active /\ (e \o << <<>> >>)[n + 1] = <<>>
               /\ \A s \in 1 .. n - 1 : (e \o << <<>> >>)[s] = log[s]
<1> DEFINE n == Len(log)
           e == [log EXCEPT ![n] = active]
<1>1. n \in Nat \ {0} /\ log[n] \in Seq(S)
  <2>1. n \in Nat \ {0}
    BY EmptySeq
  <2>2. n \in 1 .. Len(log)
    BY <2>1
  <2> QED BY <2>1, <2>2, ElementOfSeq
<1>2. /\ e \in Seq(Seq(S)) /\ Len(e) = n
      /\ \A j \in 1 .. n : e[j] = IF j = n THEN active ELSE log[j]
  <2>1. n \in 1 .. Len(log)
    BY <1>1
  <2> QED BY <2>1, ExceptSeq
<1> HIDE DEF e
<1>3. e \o <<>> = e
  BY <1>2, ConcatEmptySeq
<1>4. << <<>> >> \in Seq(Seq(S)) /\ Len(<< <<>> >>) = 1 /\ << <<>> >>[1] = <<>>
  OBVIOUS
<1>5. /\ e \o << <<>> >> \in Seq(Seq(S)) /\ Len(e \o << <<>> >>) = n + 1
      /\ \A i \in 1 .. n + 1 : (e \o << <<>> >>)[i] = IF i <= n THEN e[i] ELSE << <<>> >>[i - n]
  BY <1>2, <1>4, ConcatProperties
<1>6. n \in 1 .. n /\ n \in 1 .. n + 1 /\ n + 1 \in 1 .. n + 1 /\ (n + 1) - n = 1 /\ ~ (n + 1 <= n)
      /\ \A s \in 1 .. n - 1 : s \in 1 .. n /\ s \in 1 .. n + 1 /\ s <= n /\ s # n
  BY <1>1
<1>7. e[n] = active /\ \A s \in 1 .. n - 1 : e[s] = log[s]
  BY <1>2, <1>6
<1>8. (e \o << <<>> >>)[n] = active
  BY <1>5, <1>6, <1>7
<1>9. (e \o << <<>> >>)[n + 1] = <<>>
  BY <1>4, <1>5, <1>6
<1>10. \A s \in 1 .. n - 1 : (e \o << <<>> >>)[s] = log[s]
  BY <1>5, <1>6, <1>7
<1> QED BY <1>1, <1>2, <1>3, <1>5, <1>7, <1>8, <1>9, <1>10 DEF e

\* The record that is appended next, and the command after its append.
LEMMA NextForm ==
    ASSUME NEW w \in Work, w.at <= Len(w.topics)
    PROVE  /\ w.topics \in Seq(Topics) /\ w.at \in DOMAIN w.topics
           /\ w.topics[w.at] \in Topics
           /\ NextRecord(w) \in MetadataRecord
           /\ Appended(w) \in Work
<1>1. w.topics \in Seq(Topics) /\ w.at \in DOMAIN w.topics /\ w.topics[w.at] \in Topics
  <2>1. w.topics \in Seq(Topics) /\ w.at \in Nat \ {0}
    BY RequestAssumption DEF Work
  <2>2. w.at \in 1 .. Len(w.topics)
    BY <2>1
  <2> QED BY <2>1, <2>2, ElementOfSeq, LenProperties
<1>2. NumPartitions \in Nat /\ w.appended \in 0 .. NumPartitions
  BY SizeAssumption DEF Work
<1>3. w.appended # 0 => w.appended - 1 \in 0 .. NumPartitions - 1
  BY <1>2
<1>4. NextRecord(w) \in MetadataRecord
  BY <1>1, <1>3 DEF NextRecord, MetadataRecord, TopicRecord, PartitionRecord
<1>5. w.appended < NumPartitions => w.appended + 1 \in 0 .. NumPartitions
  BY <1>2
<1>6. w.at + 1 \in Nat \ {0} /\ 0 \in 0 .. NumPartitions
  BY <1>2 DEF Work
<1>7. Appended(w) \in Work
  BY <1>5, <1>6 DEF Appended, Work
<1> QED BY <1>1, <1>4, <1>7

\* What AppendRecord does to the log.
LEMMA LogForm ==
    ASSUME LogOK, ActorOK, AppendRecord
    PROVE  LET n == Len(mlog)
               over == cursor < Len(mlog[n])
               full == size + 1 >= SegmentRecords
           IN
           /\ n \in Nat \ {0} /\ mlog[n] = Last(mlog) /\ mlog[n] \in Seq(MetadataRecord)
           /\ mlog' \in Seq(Seq(MetadataRecord)) /\ Len(mlog') = IF full THEN n + 1 ELSE n
           /\ \A s \in 1 .. n - 1 : mlog'[s] = mlog[s]
           /\ mlog'[n] \in Seq(MetadataRecord)
           /\ full => mlog'[n + 1] = <<>>
           /\ Len(mlog'[n]) = IF over THEN Len(mlog[n]) ELSE Len(mlog[n]) + 1
           /\ ~ over => /\ \A i \in 1 .. Len(mlog[n]) : mlog'[n][i] = mlog[n][i]
                        /\ mlog'[n][Len(mlog[n]) + 1] = NextRecord(work)
           /\ clobbered' = (clobbered \/ over)
           /\ cursor' = IF full THEN 0 ELSE cursor + 1
           /\ size' = IF full THEN 0 ELSE size + 1
<1> DEFINE n == Len(mlog)
           over == cursor < Len(mlog[n])
           full == size + 1 >= SegmentRecords
           record == NextRecord(work)
           active == IF over THEN [mlog[n] EXCEPT ![cursor + 1] = record] ELSE Append(mlog[n], record)
<1>1. mlog \in Seq(Seq(MetadataRecord)) /\ mlog # <<>> /\ Last(mlog) = mlog[n]
      /\ cursor \in 0 .. Len(Last(mlog))
  BY DEF LogOK, Last
<1>2. n \in Nat \ {0} /\ mlog[n] \in Seq(MetadataRecord)
  <2>1. n \in Nat \ {0} /\ n \in 1 .. Len(mlog)
    BY <1>1
  <2> QED BY <1>1, <2>1, ElementOfSeq
<1>3. record \in MetadataRecord
  BY NextForm DEF AppendRecord, ActorOK
<1>4. /\ active \in Seq(MetadataRecord)
      /\ Len(active) = IF over THEN Len(mlog[n]) ELSE Len(mlog[n]) + 1
      /\ ~ over => /\ \A i \in 1 .. Len(mlog[n]) : active[i] = mlog[n][i]
                   /\ active[Len(mlog[n]) + 1] = record
  <2>1. CASE over
    <3>1. Len(mlog[n]) \in Nat /\ cursor \in Nat
      BY <1>1, <1>2
    <3>2. cursor + 1 \in 1 .. Len(mlog[n])
      BY <2>1, <3>1
    <3> HIDE DEF record
    <3> QED BY <1>2, <1>3, <2>1, <3>2, ExceptSeq
  <2>2. CASE ~ over
    <3> HIDE DEF record
    <3> QED BY <1>2, <1>3, <2>2, AppendProperties
  <2> QED BY <2>1, <2>2
<1>5. /\ mlog' = [mlog EXCEPT ![n] = active] \o IF full THEN << <<>> >> ELSE <<>>
      /\ clobbered' = (clobbered \/ over)
      /\ cursor' = IF full THEN 0 ELSE cursor + 1
      /\ size' = IF full THEN 0 ELSE size + 1
  BY <1>1 DEF AppendRecord, WithActive
<1> HIDE DEF active, record, over, full
<1>6. /\ mlog' \in Seq(Seq(MetadataRecord)) /\ Len(mlog') = IF full THEN n + 1 ELSE n
      /\ \A s \in 1 .. n - 1 : mlog'[s] = mlog[s]
      /\ mlog'[n] = active
      /\ full => mlog'[n + 1] = <<>>
  <2>1. CASE full
    BY <1>1, <1>4, <1>5, <2>1, Segments
  <2>2. CASE ~ full
    BY <1>1, <1>4, <1>5, <2>2, Segments
  <2> QED BY <2>1, <2>2
<1> QED BY <1>1, <1>2, <1>4, <1>5, <1>6 DEF over, full, record

-----------------------------------------------------------------------------
(* Type correctness *)

\* What the actions leave alone.
LEMMA Frames ==
    ASSUME [Next]_vars
    PROVE  /\ AppendRecord \/ Restart \/ UNCHANGED diskVars
           /\ StoreImage \/ Crash \/ Restart \/ UNCHANGED imageVars
           /\ MetadataActor \/ Crash \/ UNCHANGED work
           /\ Crash \/ Restart \/ UNCHANGED up
           /\ AnswerCreateTopic \/ Crash \/ UNCHANGED <<told, created>>
           /\ UNCHANGED view \/ Crash \/ \E c \in Clients : HandleMetadata(c)
BY DEF Next, MetadataActor, HandleMetadata, HandleCreateTopics, SendCreateTopic, HandleData, LookUp, PartitionAnswers,
       Respond, ReceiveCreateTopic, AppendRecord, StoreImage, AnswerCreateTopic, Crash, Restart,
       vars, imageVars, diskVars

LEMMA LogTyped ==
    ASSUME LogOK, ActorOK, SegmentFits, [Next]_vars PROVE LogOK' /\ SegmentFits'
<1>0. SegmentRecords \in Nat \ {0} /\ Last(mlog) = mlog[Len(mlog)]
  BY SizeAssumption DEF Last
<1>1. CASE AppendRecord
  <2> DEFINE n == Len(mlog)
             over == cursor < Len(mlog[n])
             full == size + 1 >= SegmentRecords
  <2>1. /\ n \in Nat \ {0} /\ mlog[n] = Last(mlog) /\ mlog[n] \in Seq(MetadataRecord)
        /\ mlog' \in Seq(Seq(MetadataRecord)) /\ Len(mlog') = IF full THEN n + 1 ELSE n
        /\ full => mlog'[n + 1] = <<>>
        /\ Len(mlog'[n]) = IF over THEN Len(mlog[n]) ELSE Len(mlog[n]) + 1
        /\ clobbered' = (clobbered \/ over)
        /\ cursor' = IF full THEN 0 ELSE cursor + 1
        /\ size' = IF full THEN 0 ELSE size + 1
    BY <1>1, LogForm
  <2>2. Len(mlog[n]) \in Nat /\ cursor \in 0 .. Len(mlog[n]) /\ size \in 0 .. SegmentRecords - 1
        /\ Len(mlog[n]) <= size
    BY <2>1 DEF LogOK, SegmentFits
  <2> HIDE DEF n
  <2>3. CASE full
    <3>1. Last(mlog') = <<>> /\ Len(Last(mlog')) = 0
      BY <2>1, <2>3 DEF Last
    <3>2. cursor' = 0 /\ size' = 0
      BY <2>1, <2>3
    <3>3. cursor' \in 0 .. Len(Last(mlog')) /\ size' \in 0 .. SegmentRecords - 1
          /\ Len(Last(mlog')) <= size'
      BY <1>0, <3>1, <3>2
    <3>4. mlog' # <<>>
      BY <2>1, <2>3
    <3>5. clobbered' \in BOOLEAN
      BY <2>1 DEF LogOK
    <3> QED BY <2>1, <3>3, <3>4, <3>5 DEF LogOK, SegmentFits, Last
  <2>4. CASE ~ full
    <3>1. Last(mlog') = mlog'[n]
      BY <2>1, <2>4 DEF Last
    <3>2. cursor' = cursor + 1 /\ size' = size + 1 /\ size + 1 < SegmentRecords
      BY <1>0, <2>1, <2>2, <2>4
    <3>3. cursor' \in 0 .. Len(mlog'[n]) /\ size' \in 0 .. SegmentRecords - 1
          /\ Len(mlog'[n]) <= size'
      BY <1>0, <2>1, <2>2, <3>2
    <3>4. mlog' # <<>>
      BY <2>1, <2>4
    <3>5. clobbered' \in BOOLEAN
      BY <2>1 DEF LogOK
    <3> QED BY <2>1, <3>1, <3>3, <3>4, <3>5 DEF LogOK, SegmentFits, Last
  <2> QED BY <2>3, <2>4
<1>2. CASE Restart
  <2>1. UNCHANGED <<mlog, clobbered>> /\ cursor' = 0 /\ size' = Len(Last(mlog))
    BY <1>2 DEF Restart
  <2>2. Len(Last(mlog)) \in Nat
    <3>1. Len(mlog) \in 1 .. Len(mlog)
      BY DEF LogOK
    <3>2. mlog[Len(mlog)] \in Seq(MetadataRecord)
      BY <3>1, ElementOfSeq DEF LogOK
    <3> QED BY <1>0, <3>2
  <2>3. size \in 0 .. SegmentRecords - 1 /\ Len(Last(mlog)) <= size
    BY DEF LogOK, SegmentFits
  <2>4. Len(Last(mlog)) \in 0 .. SegmentRecords - 1 /\ 0 \in 0 .. Len(Last(mlog))
        /\ Len(Last(mlog)) <= Len(Last(mlog))
    <3> DEFINE l == Len(Last(mlog))
    <3> HIDE DEF l
    <3>1. l \in Nat /\ l <= size
      BY <2>2, <2>3 DEF l
    <3>2. l \in 0 .. SegmentRecords - 1 /\ 0 \in 0 .. l /\ l <= l
      BY <1>0, <2>3, <3>1
    <3> QED BY <3>2 DEF l
  <2> QED BY <2>1, <2>4 DEF LogOK, SegmentFits
<1>3. CASE UNCHANGED diskVars
  BY <1>3 DEF diskVars, LogOK, SegmentFits
<1> QED BY <1>1, <1>2, <1>3, Frames

\* New handles for some partitions, on top of an image.
LEMMA Spawned ==
    ASSUME ImageOK, NEW old, NEW tps \in SUBSET TopicPartition,
           old = image \/ DOMAIN old = {}, Spawn(old, tps)
    PROVE  /\ DOMAIN image' = DOMAIN old \union tps
           /\ spawned' \in [TopicPartition -> Nat]
           /\ \A tp \in TopicPartition :
                 spawned'[tp] = IF tp \in tps THEN spawned[tp] + 1 ELSE spawned[tp]
           /\ \A tp \in DOMAIN image' : image'[tp] \in 1 .. spawned'[tp]
           /\ \A tp \in DOMAIN old \ tps : image'[tp] = old[tp]
<1>1. spawned \in [TopicPartition -> Nat]
  BY DEF ImageOK
<1>2. /\ spawned' = [tp \in TopicPartition |-> spawned[tp] + IF tp \in tps THEN 1 ELSE 0]
      /\ image' = [tp \in DOMAIN old \union tps |-> IF tp \in tps THEN spawned'[tp] ELSE old[tp]]
  BY DEF Spawn
<1>3. spawned' \in [TopicPartition -> Nat]
      /\ \A tp \in TopicPartition :
            spawned'[tp] = IF tp \in tps THEN spawned[tp] + 1 ELSE spawned[tp]
  BY <1>1, <1>2
<1>4. ASSUME NEW tp \in DOMAIN image' PROVE image'[tp] \in 1 .. spawned'[tp]
  <2>1. CASE tp \in tps
    BY <1>1, <1>2, <1>3, <2>1
  <2>2. CASE tp \notin tps
    <3>1. tp \in DOMAIN image /\ image'[tp] = image[tp]
      BY <1>2, <2>2
    <3>2. tp \in TopicPartition /\ image[tp] \in 1 .. spawned[tp]
      BY <3>1 DEF ImageOK
    <3>3. spawned'[tp] = spawned[tp]
      BY <1>3, <2>2, <3>2
    <3> QED BY <3>1, <3>2, <3>3
  <2> QED BY <2>1, <2>2
<1>5. DOMAIN image' = DOMAIN old \union tps /\ \A tp \in DOMAIN old \ tps : image'[tp] = old[tp]
  BY <1>2
<1> QED BY <1>3, <1>4, <1>5

LEMMA ImageTyped ==
    ASSUME ImageOK, [Next]_vars PROVE ImageOK'
<1>1. CASE StoreImage
  <2> DEFINE tps == PartitionsOf(ToSet(work.topics))
  <2>1. tps \in SUBSET TopicPartition
    BY DEF PartitionsOf
  <2> HIDE DEF tps
  <2>2. Spawn(image, tps)
    BY <1>1 DEF StoreImage, CreateTopics, Current, tps
  <2>3. /\ DOMAIN image' = DOMAIN image \union tps
        /\ spawned' \in [TopicPartition -> Nat]
        /\ \A tp \in DOMAIN image' : image'[tp] \in 1 .. spawned'[tp]
    BY <2>1, <2>2, Spawned
  <2>4. DOMAIN image' \subseteq TopicPartition
    BY <2>1, <2>2, <2>3 DEF ImageOK
  <2> QED BY <2>3, <2>4 DEF ImageOK
<1>2. CASE Crash
  BY <1>2 DEF Crash, ImageOK, NoImage
<1>3. CASE Restart
  <2> DEFINE tps == Replayed(Head(mlog))
  <2>1. tps \in SUBSET TopicPartition
    BY DEF Replayed
  <2> HIDE DEF tps
  <2>2. Spawn(NoImage, tps) /\ DOMAIN NoImage = {}
    BY <1>3 DEF Restart, tps, NoImage
  <2>3. /\ DOMAIN image' = DOMAIN NoImage \union tps
        /\ spawned' \in [TopicPartition -> Nat]
        /\ \A tp \in DOMAIN image' : image'[tp] \in 1 .. spawned'[tp]
    BY <2>1, <2>2, Spawned
  <2>4. DOMAIN image' \subseteq TopicPartition
    BY <2>1, <2>2, <2>3 DEF ImageOK
  <2> QED BY <2>3, <2>4 DEF ImageOK
<1>4. CASE UNCHANGED imageVars
  BY <1>4 DEF imageVars, ImageOK
<1> QED BY <1>1, <1>2, <1>3, <1>4, Frames

LEMMA ActorTyped ==
    ASSUME ActorOK, ClientsOK, [Next]_vars PROVE ActorOK'
<1>0. /\ queue \in Seq(Command) /\ Len(queue) <= ChannelSize /\ ChannelSize \in Nat
      /\ Len(queue) \in Nat
  BY SizeAssumption DEF ActorOK
<1>1. ASSUME NEW c \in Clients, SendCreateTopic(c) PROVE ActorOK'
  <2> DEFINE command == [client |-> c, topics |-> conn[c].topics]
  <2>0. conn[c].topics \in CreateRequests
    BY <1>1 DEF SendCreateTopic, ClientsOK, CreateRequest, DataRequest
  <2>1. command \in Command /\ queue' = Append(queue, command) /\ Len(queue) < ChannelSize
        /\ UNCHANGED work
    BY <1>1, <2>0 DEF SendCreateTopic, HasRoom, Command
  <2> HIDE DEF command
  <2>2. queue' \in Seq(Command) /\ Len(queue') = Len(queue) + 1
    BY <1>0, <2>1, AppendProperties
  <2>3. Len(queue') <= ChannelSize
    BY <1>0, <2>1, <2>2
  <2> QED BY <2>1, <2>2, <2>3 DEF ActorOK
<1>2. CASE ReceiveCreateTopic
  <2>1. queue # <<>> /\ queue' = Tail(queue)
        /\ work' = [client |-> Head(queue).client, topics |-> Head(queue).topics,
                    at |-> 1, appended |-> 0, stored |-> FALSE]
    BY <1>2 DEF ReceiveCreateTopic
  <2>2. Head(queue) \in Command /\ queue' \in Seq(Command) /\ Len(queue') = Len(queue) - 1
    BY <1>0, <2>1, HeadTailProperties
  <2>3. 0 \in 0 .. NumPartitions
    BY SizeAssumption
  <2>4. work' \in Work
    BY <2>1, <2>2, <2>3 DEF Command, Work
  <2>5. Len(queue') <= ChannelSize
    BY <1>0, <2>2
  <2> QED BY <2>2, <2>4, <2>5 DEF ActorOK
<1>3. CASE AppendRecord
  <2>1. work \in Work /\ work.at <= Len(work.topics) /\ work' = Appended(work) /\ UNCHANGED queue
    BY <1>3 DEF AppendRecord, ActorOK
  <2>2. work' \in Work
    BY <2>1, NextForm
  <2> QED BY <2>1, <2>2 DEF ActorOK
<1>4. CASE StoreImage
  BY <1>4 DEF StoreImage, ActorOK, Work
<1>5. CASE AnswerCreateTopic
  BY <1>5 DEF AnswerCreateTopic, ActorOK
<1>6. CASE Crash
  <2>1. queue' = <<>> /\ work' = Nil
    BY <1>6 DEF Crash
  <2>2. queue' \in Seq(Command) /\ Len(queue') <= ChannelSize
    BY <1>0, <2>1
  <2> QED BY <2>1, <2>2 DEF ActorOK
<1>7. CASE UNCHANGED <<queue, work>>
  BY <1>7 DEF ActorOK
<1>8. \/ UNCHANGED <<queue, work>> \/ Crash \/ MetadataActor
      \/ \E c \in Clients : SendCreateTopic(c)
  BY DEF Next, HandleMetadata, HandleCreateTopics, HandleData, LookUp, PartitionAnswers, Respond,
         Restart, vars
<1> QED BY <1>1, <1>2, <1>3, <1>4, <1>5, <1>6, <1>7, <1>8 DEF MetadataActor

\* The request of a connection that works on partitions.
LEMMA DataForm ==
    ASSUME ClientsOK, NEW c \in Clients, IsData(c)
    PROVE  /\ conn[c] \in DataRequest /\ conn[c].left \in Seq(TopicPartition)
           /\ conn[c].handle \in Nat \union {Nil} /\ conn[c].unknown \in SUBSET TopicPartition
           /\ conn[c].left # <<>> => /\ Head(conn[c].left) \in TopicPartition
                                     /\ Tail(conn[c].left) \in Seq(TopicPartition)
<1>1. conn[c] \in DataRequest
  BY DEF ClientsOK, IsData, CreateRequest
<1>2. /\ conn[c].left \in Seq(TopicPartition) /\ conn[c].handle \in Nat \union {Nil}
      /\ conn[c].unknown \in SUBSET TopicPartition
  BY <1>1 DEF DataRequest
<1> QED BY <1>1, <1>2, HeadTailProperties

\* How often topics were asked for is counted by requests and replays.
LEMMA AskedForm ==
    ASSUME asked \in [Topics -> Nat], [Next]_vars PROVE asked' \in [Topics -> Nat]
<1>1. ASSUME NEW topics, Ask(topics) PROVE asked' \in [Topics -> Nat]
  BY <1>1 DEF Ask
<1>2. CASE Crash
  BY <1>2 DEF Crash
<1>3. \/ Crash \/ asked' = asked \/ \E topics : Ask(topics)
  BY DEF Next, MetadataActor, HandleMetadata, HandleCreateTopics, SendCreateTopic, HandleData, LookUp,
         PartitionAnswers, Respond, ReceiveCreateTopic, AppendRecord, StoreImage, AnswerCreateTopic,
         Restart, vars
<1> QED BY <1>1, <1>2, <1>3

LEMMA ClientsTyped ==
    ASSUME ClientsOK, ImageOK, ActorOK, HandlesKnown, [Next]_vars PROVE ClientsOK'
<1>0. /\ conn \in [Clients -> {Nil} \union CreateRequest \union DataRequest]
      /\ view \in [Clients -> SUBSET TopicPartition]
      /\ {told, created} \subseteq SUBSET Topics /\ asked \in [Topics -> Nat]
  BY DEF ClientsOK
<1>a. asked' \in [Topics -> Nat]
  BY <1>0, AskedForm
<1>1. ASSUME NEW c \in Clients, HandleMetadata(c) PROVE ClientsOK'
  BY <1>1, <1>a DEF HandleMetadata, ClientsOK, ImageOK
<1>2. ASSUME UNCHANGED <<view, told, created>>, NEW c \in Clients,
             NEW r \in {Nil} \union CreateRequest \union DataRequest,
             conn' = [conn EXCEPT ![c] = r]
      PROVE  ClientsOK'
  BY <1>0, <1>2, <1>a DEF ClientsOK
<1>3. ASSUME NEW c \in Clients, NEW topics \in CreateRequests, HandleCreateTopics(c, topics)
      PROVE  ClientsOK'
  <2>1. [kind |-> "Create", topics |-> topics, sent |-> FALSE] \in CreateRequest
    BY DEF CreateRequest
  <2> QED BY <1>2, <1>3, <2>1 DEF HandleCreateTopics
<1>s. ASSUME NEW c \in Clients, SendCreateTopic(c) PROVE ClientsOK'
  <2> DEFINE r == [conn[c] EXCEPT !.sent = TRUE]
  <2>1. conn[c] \in CreateRequest
    BY <1>0, <1>s DEF SendCreateTopic, DataRequest
  <2>2. r \in CreateRequest /\ conn' = [conn EXCEPT ![c] = r] /\ UNCHANGED <<view, told, created>>
    BY <1>0, <1>s, <2>1 DEF SendCreateTopic, CreateRequest
  <2> HIDE DEF r
  <2> QED BY <1>2, <2>2
<1>4. ASSUME NEW c \in Clients, NEW tps \in DataRequests, HandleData(c, tps)
      PROVE  ClientsOK'
  <2>1. tps \in Seq(TopicPartition)
    BY RequestAssumption
  <2>2. [kind |-> "Data", left |-> tps, handle |-> Nil, unknown |-> {}] \in DataRequest
    BY <2>1 DEF DataRequest
  <2> QED BY <1>2, <1>4, <2>2 DEF HandleData
<1>5. ASSUME NEW c \in Clients, LookUp(c) PROVE ClientsOK'
  <2> DEFINE tp == Head(conn[c].left)
             found == [conn[c] EXCEPT !.handle = image[tp]]
             unknown == [conn[c] EXCEPT !.left = Tail(@), !.unknown = @ \union {tp}]
             r == IF tp \in DOMAIN image THEN found ELSE unknown
  <2>1. IsData(c) /\ conn[c].left # <<>> /\ UNCHANGED <<view, told, created>>
    BY <1>5 DEF LookUp
  <2>2. conn' = [conn EXCEPT ![c] = r]
    BY <1>0, <1>5 DEF LookUp
  <2>3. tp \in DOMAIN image => image[tp] \in Nat
    BY DEF ImageOK
  <2>4. r \in DataRequest
    <3>1. conn[c] \in DataRequest /\ tp \in TopicPartition /\ Tail(conn[c].left) \in Seq(TopicPartition)
      BY <2>1, DataForm
    <3> HIDE DEF tp
    <3> QED BY <2>3, <3>1 DEF DataRequest
  <2> HIDE DEF r
  <2> QED BY <1>2, <2>1, <2>2, <2>4
<1>6. ASSUME NEW c \in Clients, PartitionAnswers(c) PROVE ClientsOK'
  <2> DEFINE r == [conn[c] EXCEPT !.handle = Nil, !.left = Tail(@)]
  <2>1. IsData(c) /\ conn[c].left # <<>> /\ UNCHANGED <<view, told, created>>
    BY <1>6 DEF PartitionAnswers, HandlesKnown
  <2>2. conn' = [conn EXCEPT ![c] = r]
    BY <1>0, <1>6 DEF PartitionAnswers
  <2>3. r \in DataRequest
    BY <2>1, DataForm DEF DataRequest
  <2> HIDE DEF r
  <2> QED BY <1>2, <2>1, <2>2, <2>3
<1>7. ASSUME NEW c \in Clients, Respond(c) PROVE ClientsOK'
  BY <1>2, <1>7 DEF Respond
<1>8. CASE AnswerCreateTopic
  <2>1. work \in Work /\ work.client \in Clients /\ work.topics \in Seq(Topics)
    BY <1>8, RequestAssumption DEF AnswerCreateTopic, ActorOK, Work
  <2>2. ToSet(work.topics) \in SUBSET Topics
    BY <2>1, LenProperties DEF ToSet
  <2>3. {told', created'} \subseteq SUBSET Topics
    BY <1>0, <1>8, <2>2 DEF AnswerCreateTopic
  <2> QED BY <1>0, <1>8, <1>a, <2>1, <2>3 DEF AnswerCreateTopic, ClientsOK
<1>9. CASE Crash
  BY <1>0, <1>9, <1>a DEF Crash, ClientsOK
<1>10. CASE UNCHANGED <<conn, view, told, created>>
  BY <1>10, <1>a DEF ClientsOK
<1>11. CASE ReceiveCreateTopic \/ AppendRecord \/ StoreImage \/ Restart \/ UNCHANGED vars
  BY <1>10, <1>11 DEF ReceiveCreateTopic, AppendRecord, StoreImage, Restart, vars
<1> QED
  BY <1>1, <1>3, <1>s, <1>4, <1>5, <1>6, <1>7, <1>8, <1>9, <1>11 DEF Next, MetadataActor

LEMMA RestTyped ==
    ASSUME TypeOK, [Next]_vars
    PROVE  up' \in BOOLEAN /\ creates' \in 0 .. MaxCreates /\ crashes' \in 0 .. MaxCrashes
<1>0. MaxCreates \in Nat /\ MaxCrashes \in Nat
  BY SizeAssumption
<1>1. \/ creates' = creates
      \/ creates < MaxCreates /\ creates' = creates + 1
  BY DEF Next, MetadataActor, HandleMetadata, HandleCreateTopics, SendCreateTopic, HandleData, LookUp, PartitionAnswers,
       Respond, ReceiveCreateTopic, AppendRecord, StoreImage, AnswerCreateTopic, Crash, Restart,
       vars, countVars
<1>2. \/ crashes' = crashes
      \/ crashes < MaxCrashes /\ crashes' = crashes + 1
  BY DEF Next, MetadataActor, HandleMetadata, HandleCreateTopics, SendCreateTopic, HandleData, LookUp, PartitionAnswers,
       Respond, ReceiveCreateTopic, AppendRecord, StoreImage, AnswerCreateTopic, Crash, Restart,
       vars, countVars
<1>3. creates \in 0 .. MaxCreates /\ crashes \in 0 .. MaxCrashes
  BY DEF TypeOK
<1>4. up' \in BOOLEAN
  BY Frames DEF TypeOK, Crash, Restart
<1>5. creates' \in 0 .. MaxCreates
  BY <1>0, <1>1, <1>3
<1>6. crashes' \in 0 .. MaxCrashes
  BY <1>0, <1>2, <1>3
<1> QED BY <1>4, <1>5, <1>6

LEMMA TypeKept ==
    ASSUME TypeOK, SegmentFits, HandlesKnown, [Next]_vars PROVE TypeOK' /\ SegmentFits'
<1>1. LogOK /\ ImageOK /\ ActorOK /\ ClientsOK
  BY DEF TypeOK
<1>2. LogOK' /\ SegmentFits'
  BY <1>1, LogTyped
<1>3. ImageOK' /\ ActorOK' /\ ClientsOK'
  BY <1>1, ImageTyped, ActorTyped, ClientsTyped
<1> QED BY <1>2, <1>3, RestTyped DEF TypeOK

-----------------------------------------------------------------------------
(* The image, and what clients know of it *)

\* A process that is down only restarts.
LEMMA DownRestarts ==
    ASSUME TypeOK, Down, ~ up, [Next]_vars PROVE Restart \/ UNCHANGED vars
BY DEF Next, MetadataActor, HandleMetadata, HandleCreateTopics, SendCreateTopic, HandleData, LookUp, PartitionAnswers,
       Respond, ReceiveCreateTopic, AppendRecord, StoreImage, AnswerCreateTopic, Crash, IsData

LEMMA DownKept ==
    ASSUME TypeOK, Down, [Next]_vars PROVE Down'
<1>1. CASE ~ up
  BY <1>1, DownRestarts DEF Restart, vars, Down
<1>2. CASE Crash
  BY <1>2 DEF Crash, Down
<1>3. CASE up /\ ~ Crash
  <2>1. up'
    BY <1>3, Frames DEF Restart
  <2> QED BY <2>1 DEF Down
<1> QED BY <1>1, <1>2, <1>3

\* A new image keeps what the old one shows.
LEMMA ImageGrows ==
    ASSUME ImageOK, StoreImage
    PROVE  /\ DOMAIN image' = DOMAIN image \union PartitionsOf(ToSet(work.topics))
           /\ spawned' \in [TopicPartition -> Nat]
           /\ \A tp \in TopicPartition :
                 spawned'[tp] = IF tp[1] \in ToSet(work.topics) THEN spawned[tp] + 1 ELSE spawned[tp]
<1> DEFINE tps == PartitionsOf(ToSet(work.topics))
<1>1. tps \in SUBSET TopicPartition
  BY DEF PartitionsOf
<1> HIDE DEF tps
<1>2. Spawn(image, tps)
  BY DEF StoreImage, CreateTopics, Current, tps
<1>3. /\ DOMAIN image' = DOMAIN image \union tps
      /\ spawned' \in [TopicPartition -> Nat]
      /\ \A tp \in TopicPartition :
            spawned'[tp] = IF tp \in tps THEN spawned[tp] + 1 ELSE spawned[tp]
  BY <1>1, <1>2, Spawned
<1>4. \A tp \in TopicPartition : tp \in tps <=> tp[1] \in ToSet(work.topics)
  BY DEF tps, PartitionsOf
<1> QED BY <1>3, <1>4 DEF tps

LEMMA WorkKept ==
    ASSUME TypeOK, Down, WorkFits, [Next]_vars PROVE WorkFits'
<1>1. CASE ReceiveCreateTopic
  <2>1. work'.at = 1 /\ ~ work'.stored /\ work'.topics = Head(queue).topics
    BY <1>1 DEF ReceiveCreateTopic
  <2>2. Len(work'.topics) \in Nat
    <3>1. Head(queue) \in Command
      BY <1>1, HeadTailProperties DEF ReceiveCreateTopic, TypeOK, ActorOK
    <3>2. work'.topics \in Seq(Topics)
      BY <2>1, <3>1, RequestAssumption DEF Command
    <3> QED BY <3>2
  <2> QED BY <2>1, <2>2 DEF WorkFits
<1>2. CASE AppendRecord
  <2>1. work \in Work /\ work.at <= Len(work.topics) /\ work' = Appended(work) /\ work # Nil
    BY <1>2 DEF AppendRecord, TypeOK, ActorOK
  <2>2. work.at \in Nat /\ Len(work.topics) \in Nat
    BY <2>1, RequestAssumption DEF Work
  <2>3. ~ work.stored
    BY <2>1, <2>2 DEF WorkFits
  <2>4. work'.topics = work.topics /\ work'.stored = work.stored
        /\ (work'.at = work.at \/ work'.at = work.at + 1)
    BY <2>1 DEF Appended, Work
  <2> QED BY <2>1, <2>2, <2>3, <2>4 DEF WorkFits
<1>3. CASE StoreImage
  <2>1. work \in Work /\ work.at > Len(work.topics) /\ work # Nil
        /\ work' = [work EXCEPT !.stored = TRUE]
    BY <1>3 DEF StoreImage, Storable, TypeOK, ActorOK
  <2>2. work.at \in Nat /\ Len(work.topics) \in Nat
    BY <2>1, RequestAssumption DEF Work
  <2>3. work.at = Len(work.topics) + 1
    BY <2>1, <2>2 DEF WorkFits
  <2>4. work'.topics = work.topics /\ work'.at = work.at
    BY <2>1 DEF Work
  <2>5. PartitionsOf(ToSet(work.topics)) \subseteq DOMAIN image'
    BY <1>3, ImageGrows DEF TypeOK
  <2> QED BY <2>2, <2>3, <2>4, <2>5 DEF WorkFits, PartitionsOf
<1>4. CASE AnswerCreateTopic \/ Crash
  BY <1>4 DEF AnswerCreateTopic, Crash, WorkFits
<1>5. CASE Restart
  BY <1>5 DEF Restart, Down, WorkFits
<1>6. CASE UNCHANGED work /\ UNCHANGED imageVars
  BY <1>6 DEF WorkFits, imageVars, PartitionsOf
<1> QED BY <1>1, <1>2, <1>3, <1>4, <1>5, <1>6, Frames DEF MetadataActor

LEMMA VisibleKept ==
    ASSUME TypeOK, Down, WorkFits, ConfirmedIsVisible, [Next]_vars PROVE ConfirmedIsVisible'
<1>1. CASE AnswerCreateTopic
  <2>1. told' = told \union ToSet(work.topics) /\ UNCHANGED image
        /\ PartitionsOf(ToSet(work.topics)) \subseteq DOMAIN image
    BY <1>1 DEF AnswerCreateTopic, Answerable, WorkFits, imageVars
  <2> QED BY <2>1 DEF ConfirmedIsVisible, PartitionsOf
<1>2. CASE Crash
  BY <1>2 DEF Crash, ConfirmedIsVisible, PartitionsOf
<1>3. CASE Restart
  <2>1. told' = {}
    BY <1>3 DEF Restart, Down
  <2> QED BY <2>1 DEF ConfirmedIsVisible, PartitionsOf
<1>4. CASE StoreImage
  <2>1. told' = told /\ DOMAIN image \subseteq DOMAIN image'
    BY <1>4, ImageGrows DEF StoreImage, TypeOK
  <2> QED BY <2>1 DEF ConfirmedIsVisible, PartitionsOf
<1>5. CASE UNCHANGED imageVars /\ UNCHANGED <<told, created>>
  BY <1>5 DEF imageVars, ConfirmedIsVisible, PartitionsOf
<1> QED BY <1>1, <1>2, <1>3, <1>4, <1>5, Frames

LEMMA ViewsKept ==
    ASSUME TypeOK, Down, ViewsKnown, [Next]_vars PROVE ViewsKnown'
<1>0. view \in [Clients -> SUBSET TopicPartition]
  BY DEF TypeOK, ClientsOK
<1>1. ASSUME NEW c \in Clients, HandleMetadata(c) PROVE ViewsKnown'
  BY <1>0, <1>1 DEF HandleMetadata, ViewsKnown, imageVars
<1>2. CASE Crash
  BY <1>2 DEF Crash, ViewsKnown
<1>3. CASE Restart
  BY <1>3 DEF Restart, Down, ViewsKnown
<1>4. CASE StoreImage
  <2>1. view' = view /\ DOMAIN image \subseteq DOMAIN image'
    BY <1>4, ImageGrows DEF StoreImage, TypeOK
  <2> QED BY <2>1 DEF ViewsKnown
<1>5. CASE UNCHANGED imageVars /\ UNCHANGED view
  BY <1>5 DEF imageVars, ViewsKnown
<1> QED BY <1>1, <1>2, <1>3, <1>4, <1>5, Frames

\* A produce or fetch request and what its client knows: it finds what the client
\* has seen, and works with an actor this process
\* has published.
RequestFits(c) ==
    IsData(c) =>
        /\ conn[c].unknown \intersect view[c] = {}
        /\ conn[c].handle # Nil =>
              /\ conn[c].left # <<>>
              /\ Head(conn[c].left) \in DOMAIN image
              /\ conn[c].handle \in 1 .. spawned[Head(conn[c].left)]

LEMMA RequestsKept ==
    ASSUME TypeOK, Down, ViewsKnown, [Next]_vars, \A c \in Clients : RequestFits(c)
    PROVE  \A c \in Clients : RequestFits(c)'
<1> SUFFICES ASSUME NEW c \in Clients PROVE RequestFits(c)'
  OBVIOUS
<1>0. /\ conn \in [Clients -> {Nil} \union CreateRequest \union DataRequest]
      /\ view \in [Clients -> SUBSET TopicPartition]
      /\ RequestFits(c) /\ ImageOK /\ ClientsOK
  BY DEF TypeOK, ClientsOK
<1>1. ASSUME UNCHANGED <<image, spawned, up>>, conn'[c] = conn[c], view'[c] = view[c]
      PROVE  RequestFits(c)'
  BY <1>0, <1>1 DEF RequestFits, IsData
<1>2. ASSUME NEW d \in Clients, HandleMetadata(d) PROVE RequestFits(c)'
  <2>1. CASE d = c
    BY <1>2, <2>1 DEF HandleMetadata, RequestFits, IsData
  <2>2. CASE d # c
    BY <1>0, <1>1, <1>2, <2>2 DEF HandleMetadata, imageVars
  <2> QED BY <2>1, <2>2
<1>3. ASSUME NEW d \in Clients, d # c,
             \/ \E topics \in CreateRequests : HandleCreateTopics(d, topics)
             \/ SendCreateTopic(d)
             \/ \E tps \in DataRequests : HandleData(d, tps)
             \/ LookUp(d) \/ PartitionAnswers(d) \/ Respond(d)
      PROVE  RequestFits(c)'
  <2>1. UNCHANGED <<image, spawned, up, view>> /\ conn'[c] = conn[c]
    BY <1>0, <1>3 DEF HandleCreateTopics, SendCreateTopic, HandleData, LookUp, PartitionAnswers,
                      Respond, imageVars
  <2> QED BY <1>1, <2>1
<1>4. ASSUME NEW topics \in CreateRequests, HandleCreateTopics(c, topics) PROVE RequestFits(c)'
  <2>1. conn'[c].kind = "Create"
    BY <1>0, <1>4 DEF HandleCreateTopics
  <2> QED BY <2>1 DEF RequestFits, IsData
<1>s. ASSUME SendCreateTopic(c) PROVE RequestFits(c)'
  <2>1. conn[c] \in CreateRequest /\ conn' = [conn EXCEPT ![c].sent = TRUE]
    BY <1>0, <1>s DEF SendCreateTopic, DataRequest
  <2>2. conn'[c].kind = "Create"
    BY <1>0, <2>1 DEF CreateRequest
  <2> QED BY <2>2 DEF RequestFits, IsData
<1>5. ASSUME NEW tps \in DataRequests, HandleData(c, tps) PROVE RequestFits(c)'
  <2>1. conn'[c].unknown = {} /\ conn'[c].handle = Nil
    BY <1>0, <1>5 DEF HandleData
  <2> QED BY <2>1 DEF RequestFits
<1>6. ASSUME LookUp(c) PROVE RequestFits(c)'
  <2> DEFINE tp == Head(conn[c].left)
  <2>1. /\ IsData(c) /\ conn[c].left # <<>> /\ conn[c].handle = Nil
        /\ UNCHANGED <<image, spawned, up, view>>
    BY <1>6 DEF LookUp, imageVars
  <2>2. conn[c] \in DataRequest
    BY <1>0, <2>1, DataForm
  <2>3. CASE tp \in DOMAIN image /\ conn' = [conn EXCEPT ![c].handle = image[tp]]
    <3>1. conn'[c].handle = image[tp] /\ conn'[c].left = conn[c].left
          /\ conn'[c].unknown = conn[c].unknown
      BY <1>0, <2>2, <2>3 DEF DataRequest
    <3>2. image[tp] \in 1 .. spawned[tp]
      BY <1>0, <2>3 DEF ImageOK
    <3> QED BY <1>0, <2>1, <2>3, <3>1, <3>2 DEF RequestFits
  <2>4. CASE /\ tp \notin DOMAIN image
             /\ conn' = [conn EXCEPT ![c].left = Tail(@), ![c].unknown = @ \union {tp}]
    <3>1. conn'[c].handle = Nil /\ conn'[c].unknown = conn[c].unknown \union {tp}
      BY <1>0, <2>1, <2>2, <2>4 DEF DataRequest
    <3>2. tp \notin view[c]
      BY <2>4 DEF ViewsKnown
    <3> QED BY <1>0, <2>1, <3>1, <3>2 DEF RequestFits
  <2> QED BY <1>6, <2>3, <2>4 DEF LookUp
<1>7. ASSUME PartitionAnswers(c) PROVE RequestFits(c)'
  <2>1. IsData(c) /\ UNCHANGED <<image, spawned, up, view>>
    BY <1>7 DEF PartitionAnswers, imageVars
  <2>2. conn'[c].handle = Nil /\ conn'[c].unknown = conn[c].unknown
    <3>1. conn[c] \in DataRequest
      BY <1>0, <2>1, DataForm
    <3> QED BY <1>0, <1>7, <3>1 DEF PartitionAnswers, DataRequest
  <2> QED BY <1>0, <2>1, <2>2 DEF RequestFits
<1>8. ASSUME Respond(c) PROVE RequestFits(c)'
  BY <1>0, <1>8 DEF Respond, RequestFits, IsData
<1>9. CASE AnswerCreateTopic
  <2>1. UNCHANGED <<image, spawned, up, view>>
    BY <1>9 DEF AnswerCreateTopic, imageVars
  <2>2. conn'[c] = conn[c] \/ conn'[c] = Nil
    BY <1>0, <1>9 DEF AnswerCreateTopic
  <2> QED BY <1>1, <2>1, <2>2 DEF RequestFits, IsData
<1>10. CASE Crash
  BY <1>10 DEF Crash, RequestFits, IsData
<1>11. CASE Restart
  <2>1. conn'[c] = Nil
    BY <1>11 DEF Restart, Down
  <2> QED BY <2>1 DEF RequestFits, IsData
<1>12. CASE StoreImage
  <2>1. UNCHANGED <<conn, up, view>>
    BY <1>12 DEF StoreImage
  <2>2. DOMAIN image \subseteq DOMAIN image'
    BY <1>0, <1>12, ImageGrows
  <2>3. \A tp \in DOMAIN image : spawned[tp] \in Nat /\ spawned'[tp] \in {spawned[tp], spawned[tp] + 1}
    BY <1>0, <1>12, ImageGrows DEF ImageOK
  <2>4. \A tp \in DOMAIN image : 1 .. spawned[tp] \subseteq 1 .. spawned'[tp]
    BY <2>3
  <2> QED BY <1>0, <2>1, <2>2, <2>4 DEF RequestFits, IsData
<1>13. CASE ReceiveCreateTopic \/ AppendRecord \/ UNCHANGED vars
  <2>1. UNCHANGED <<image, spawned, up, view, conn>>
    BY <1>13 DEF ReceiveCreateTopic, AppendRecord, vars, imageVars
  <2> QED BY <1>1, <2>1
<1> QED
  BY <1>2, <1>3, <1>4, <1>s, <1>5, <1>6, <1>7, <1>8, <1>9, <1>10, <1>11, <1>12, <1>13
     DEF Next, MetadataActor

-----------------------------------------------------------------------------
(* How often topics were asked for, and the handles that come of it *)

LEMMA CommandsKept ==
    ASSUME TypeOK, CommandsWaitedFor, [Next]_vars PROVE CommandsWaitedFor'
<1>0. /\ conn \in [Clients -> {Nil} \union CreateRequest \union DataRequest]
      /\ queue \in Seq(Command) /\ Len(queue) \in Nat
      /\ \A i \in 1 .. Len(queue) : queue[i].client \in Clients
      /\ work # Nil => work \in Work /\ work.client \in Clients
  <2>1. queue \in Seq(Command) /\ Len(queue) \in Nat
    BY DEF TypeOK, ActorOK
  <2>2. \A i \in 1 .. Len(queue) : queue[i] \in Command
    BY <2>1, ElementOfSeq
  <2> QED BY <2>1, <2>2 DEF TypeOK, ClientsOK, ActorOK, Command, Work
<1>1. ASSUME UNCHANGED queue,
             \/ work' = Nil
             \/ work # Nil /\ work'.client = work.client /\ work'.topics = work.topics,
             \A c \in Clients : IsCreate(c) /\ conn[c].sent => conn'[c] = conn[c]
      PROVE  CommandsWaitedFor'
  BY <1>0, <1>1 DEF CommandsWaitedFor, Waits, IsCreate
<1>2. ASSUME NEW c \in Clients,
             \/ HandleMetadata(c)
             \/ \E topics \in CreateRequests : HandleCreateTopics(c, topics)
             \/ \E tps \in DataRequests : HandleData(c, tps)
             \/ LookUp(c) \/ PartitionAnswers(c) \/ Respond(c)
      PROVE  CommandsWaitedFor'
  <2>1. UNCHANGED <<queue, work>>
    BY <1>2 DEF HandleMetadata, HandleCreateTopics, HandleData, LookUp, PartitionAnswers, Respond
  <2>2. \A d \in Clients : IsCreate(d) /\ conn[d].sent => conn'[d] = conn[d]
    BY <1>0, <1>2 DEF HandleMetadata, HandleCreateTopics, HandleData, LookUp, PartitionAnswers,
                      Respond, IsCreate, IsData
  <2> QED BY <1>1, <2>1, <2>2
<1>3. ASSUME NEW c \in Clients, SendCreateTopic(c) PROVE CommandsWaitedFor'
  <2> DEFINE command == [client |-> c, topics |-> conn[c].topics]
             n == Len(queue)
             Waiting(d, topics) == /\ conn'[d] # Nil /\ conn'[d].kind = "Create"
                                   /\ conn'[d].sent /\ conn'[d].topics = topics
  <2>1. /\ IsCreate(c) /\ ~ conn[c].sent /\ work' = work
        /\ queue' = Append(queue, command) /\ conn' = [conn EXCEPT ![c].sent = TRUE]
    BY <1>3 DEF SendCreateTopic, IsCreate
  <2>2. conn[c] \in CreateRequest
    BY <1>0, <2>1 DEF IsCreate, DataRequest
  <2>3. command \in Command /\ command.client = c /\ command.topics = conn[c].topics
    BY <2>2 DEF Command, CreateRequest
  <2> HIDE DEF command
  <2>4. /\ Len(queue') = n + 1 /\ queue'[n + 1] = command
        /\ \A i \in 1 .. n : queue'[i] = queue[i]
    BY <1>0, <2>1, <2>3, AppendProperties
  <2>5. \A d \in Clients : d # c => conn'[d] = conn[d]
    BY <1>0, <2>1
  <2>6. conn'[c] = [conn[c] EXCEPT !.sent = TRUE]
    BY <1>0, <2>1
  <2>7. conn'[c] \in CreateRequest /\ conn'[c].sent /\ conn'[c].topics = conn[c].topics
    BY <2>2, <2>6 DEF CreateRequest
  <2>8. conn'[c] # Nil /\ conn'[c].kind = "Create"
    BY <2>1, <2>2, <2>6, <2>7, NilIsNoRecord DEF IsCreate, CreateRequest
  <2>9. Waiting(c, command.topics)
    BY <2>3, <2>7, <2>8
  <2>10. ASSUME NEW d \in Clients, NEW topics, Waits(d, topics) PROVE d # c /\ Waiting(d, topics)
    BY <2>1, <2>5, <2>10 DEF Waits, IsCreate
  <2> HIDE DEF Waiting
  <2>11. \A i \in 1 .. n : Waiting(queue[i].client, queue[i].topics) /\ queue[i].client # c
    BY <1>0, <2>10 DEF CommandsWaitedFor
  <2>12. work # Nil => Waiting(work.client, work.topics) /\ work.client # c
    BY <1>0, <2>10 DEF CommandsWaitedFor
  <2>13. \A i \in 1 .. Len(queue') : i \in 1 .. n \/ i = n + 1
    BY <1>0, <2>4
  <2> HIDE DEF n
  <2>14. \A i \in 1 .. Len(queue') : Waiting(queue'[i].client, queue'[i].topics)
    BY <2>3, <2>4, <2>9, <2>11, <2>13
  <2>15. \A i, j \in 1 .. Len(queue') : queue'[i].client = queue'[j].client => i = j
    BY <2>3, <2>4, <2>11, <2>13 DEF CommandsWaitedFor, n
  <2>16. work' # Nil => /\ Waiting(work'.client, work'.topics)
                        /\ \A i \in 1 .. Len(queue') : queue'[i].client # work'.client
    BY <2>1, <2>3, <2>4, <2>12, <2>13 DEF CommandsWaitedFor, n
  <2> QED BY <2>14, <2>15, <2>16 DEF CommandsWaitedFor, Waits, IsCreate, Waiting
<1>4. CASE ReceiveCreateTopic
  <2>1. /\ queue # <<>> /\ queue' = Tail(queue) /\ UNCHANGED conn
        /\ work'.client = Head(queue).client /\ work'.topics = Head(queue).topics
    BY <1>4 DEF ReceiveCreateTopic
  <2>2. /\ Head(queue) = queue[1] /\ Len(queue') = Len(queue) - 1
        /\ \A i \in 1 .. Len(queue') : queue'[i] = queue[i + 1]
    BY <1>0, <2>1, HeadTailProperties
  <2>3. /\ 1 \in 1 .. Len(queue)
        /\ \A i \in 1 .. Len(queue') : i + 1 \in 1 .. Len(queue) /\ i + 1 # 1
    BY <1>0, <2>1, <2>2
  <2>4. \A i, j \in 1 .. Len(queue') : i + 1 = j + 1 => i = j
    BY <1>0, <2>2
  <2>5. \A d, topics : Waits(d, topics) => Waits(d, topics)'
    BY <2>1 DEF Waits, IsCreate
  <2> QED BY <2>1, <2>2, <2>3, <2>4, <2>5 DEF CommandsWaitedFor, Waits
<1>5. CASE AppendRecord \/ StoreImage
  <2>1. UNCHANGED <<queue, conn>> /\ work # Nil /\ work \in Work
    BY <1>0, <1>5 DEF AppendRecord, StoreImage
  <2>2. work'.client = work.client /\ work'.topics = work.topics
    BY <1>5, <2>1 DEF AppendRecord, StoreImage, Appended, Work
  <2> QED BY <1>1, <2>1, <2>2
<1>6. CASE AnswerCreateTopic
  <2>1. /\ work # Nil /\ work' = Nil /\ UNCHANGED queue
        /\ conn' = [conn EXCEPT ![work.client] = Nil]
    BY <1>6 DEF AnswerCreateTopic
  <2>2. \A i \in 1 .. Len(queue) : queue[i].client # work.client
    BY <2>1 DEF CommandsWaitedFor
  <2>3. \A i \in 1 .. Len(queue) : conn'[queue[i].client] = conn[queue[i].client]
    BY <1>0, <2>1, <2>2
  <2> QED BY <2>1, <2>3 DEF CommandsWaitedFor, Waits, IsCreate
<1>7. CASE Crash
  <2>1. queue' = <<>> /\ work' = Nil
    BY <1>7 DEF Crash
  <2> QED BY <2>1 DEF CommandsWaitedFor
<1>8. CASE Restart \/ UNCHANGED vars
  BY <1>8 DEF Restart, vars, CommandsWaitedFor, Waits, IsCreate
<1> QED BY <1>2, <1>3, <1>4, <1>5, <1>6, <1>7, <1>8 DEF Next, MetadataActor

\* Clients can be counted.
LEMMA UnmadeFinite ==
    ASSUME NEW S \in SUBSET Clients
    PROVE  /\ IsFiniteSet(S) /\ Cardinality(S) \in Nat
           /\ \A T \in SUBSET S : IsFiniteSet(T) /\ Cardinality(T) \in Nat
                                 /\ Cardinality(T) <= Cardinality(S)
<1>1. IsFiniteSet(S)
  BY ClientsAssumption, FS_Subset
<1> QED BY <1>1, FS_Subset, FS_CardinalityType

LEMMA SpawnedAskedForKept ==
    ASSUME TypeOK, TypeOK', Down, CommandsWaitedFor, SpawnedAskedFor, [Next]_vars
    PROVE  SpawnedAskedFor'
<1> SUFFICES ASSUME NEW tp \in TopicPartition
             PROVE  spawned'[tp] + Cardinality(Unmade(tp[1])') <= asked'[tp[1]]
  BY DEF SpawnedAskedFor
<1> DEFINE t == tp[1]
           U == Unmade(t)
           V == Unmade(t)'
<1>0. /\ conn \in [Clients -> {Nil} \union CreateRequest \union DataRequest]
      /\ ImageOK /\ asked \in [Topics -> Nat] /\ t \in Topics
      /\ spawned[tp] \in Nat /\ asked[t] \in Nat
      /\ spawned'[tp] \in Nat /\ asked'[t] \in Nat
  BY DEF TypeOK, ClientsOK, ImageOK, TopicPartition
<1>a. /\ U \in SUBSET Clients /\ V \in SUBSET Clients
      /\ \A c \in Clients : c \in U <=> /\ IsCreate(c) /\ t \in ToSet(conn[c].topics)
                                        /\ ~ Published(c)
      /\ \A c \in Clients : c \in V <=> /\ IsCreate(c)' /\ t \in ToSet(conn'[c].topics)
                                        /\ ~ Published(c)'
  BY DEF Unmade
<1>b. spawned[tp] + Cardinality(U) <= asked[t]
  BY DEF SpawnedAskedFor
<1> HIDE DEF t, U, V
<1>c. IsFiniteSet(U) /\ Cardinality(U) \in Nat /\ Cardinality(V) \in Nat
  BY <1>a, UnmadeFinite
<1> SUFFICES spawned'[tp] + Cardinality(V) <= asked'[t]
  BY DEF t, V
<1>1. ASSUME V \subseteq U, spawned'[tp] = spawned[tp], asked'[t] = asked[t]
      PROVE  spawned'[tp] + Cardinality(V) <= asked'[t]
  <2>1. Cardinality(V) <= Cardinality(U)
    BY <1>1, <1>a, UnmadeFinite
  <2> QED BY <1>0, <1>1, <1>b, <1>c, <2>1
<1>2. ASSUME UNCHANGED <<spawned, asked>>,
             \A c \in Clients : IsCreate(c)' => /\ IsCreate(c) /\ conn'[c].topics = conn[c].topics
                                                /\ Published(c) => Published(c)'
      PROVE  spawned'[tp] + Cardinality(V) <= asked'[t]
  <2>1. V \subseteq U
    BY <1>2, <1>a
  <2> QED BY <1>1, <1>2, <2>1
<1>3. ASSUME NEW c \in Clients, NEW topics \in CreateRequests, HandleCreateTopics(c, topics)
      PROVE  spawned'[tp] + Cardinality(V) <= asked'[t]
  <2>1. /\ conn' = [conn EXCEPT ![c] = [kind |-> "Create", topics |-> topics, sent |-> FALSE]]
        /\ UNCHANGED <<spawned, work>> /\ Ask(ToSet(topics))
    BY <1>3 DEF HandleCreateTopics, imageVars
  <2>2. \A d \in Clients : /\ Published(d)' <=> Published(d)
                           /\ d # c => conn'[d] = conn[d]
    BY <1>0, <2>1 DEF Published
  <2>3. conn'[c].topics = topics
    BY <1>0, <2>1
  <2>4. V \subseteq U \union {c} /\ (t \notin ToSet(topics) => V \subseteq U)
    BY <1>a, <2>2, <2>3 DEF IsCreate
  <2>5. CASE t \in ToSet(topics)
    <3>1. asked'[t] = asked[t] + 1
      BY <1>0, <2>1, <2>5 DEF Ask
    <3> DEFINE W == U \union {c}
    <3>2. Cardinality(W) = Cardinality(U) \/ Cardinality(W) = Cardinality(U) + 1
      BY <1>c, FS_AddElement
    <3>3. W \in SUBSET Clients /\ V \in SUBSET W
      BY <1>a, <2>4
    <3> HIDE DEF W
    <3>4. Cardinality(V) <= Cardinality(W)
      BY <3>3, UnmadeFinite
    <3> QED BY <1>0, <1>b, <1>c, <2>1, <3>1, <3>2, <3>4
  <2>6. CASE t \notin ToSet(topics)
    <3>1. asked'[t] = asked[t]
      BY <1>0, <2>1, <2>6 DEF Ask
    <3> QED BY <1>1, <2>1, <2>4, <2>6, <3>1
  <2> QED BY <2>5, <2>6
<1>4. ASSUME NEW c \in Clients,
             \/ HandleMetadata(c) \/ SendCreateTopic(c)
             \/ \E tps \in DataRequests : HandleData(c, tps)
             \/ LookUp(c) \/ PartitionAnswers(c) \/ Respond(c)
      PROVE  spawned'[tp] + Cardinality(V) <= asked'[t]
  <2>1. UNCHANGED <<spawned, asked, work>>
    BY <1>4 DEF HandleMetadata, SendCreateTopic, HandleData, LookUp, PartitionAnswers, Respond,
                imageVars
  <2>2. ASSUME NEW d \in Clients, IsCreate(d)'
        PROVE  IsCreate(d) /\ conn'[d].topics = conn[d].topics
    <3>1. CASE conn'[d] = conn[d]
      BY <2>2, <3>1 DEF IsCreate
    <3>2. CASE SendCreateTopic(d)
      <4>1. conn[d] \in CreateRequest
        BY <1>0, <3>2 DEF SendCreateTopic, DataRequest
      <4> QED BY <1>0, <3>2, <4>1 DEF SendCreateTopic, CreateRequest, IsCreate
    <3>3. CASE IsData(d) /\ (LookUp(d) \/ PartitionAnswers(d) \/ Respond(d))
      <4>1. conn[d] \in DataRequest
        BY <1>0, <3>3, DataForm DEF TypeOK
      <4> QED BY <1>0, <2>2, <3>3, <4>1
              DEF LookUp, PartitionAnswers, Respond, DataRequest, IsCreate
    <3>4. CASE \E tps \in DataRequests : HandleData(d, tps)
      BY <1>0, <2>2, <3>4 DEF HandleData, IsCreate
    <3>5. CASE d # c \/ HandleMetadata(d)
      BY <1>0, <1>4, <3>1, <3>5
         DEF HandleMetadata, SendCreateTopic, HandleData, LookUp, PartitionAnswers, Respond
    <3> QED BY <1>4, <3>2, <3>3, <3>4, <3>5 DEF LookUp, PartitionAnswers, Respond
  <2>3. \A d \in Clients : Published(d) => Published(d)'
    BY <2>1 DEF Published
  <2> QED BY <1>2, <2>1, <2>2, <2>3
<1>5. CASE StoreImage
  <2>1. /\ work # Nil /\ work \in Work /\ ~ work.stored /\ work.client \in Clients
        /\ UNCHANGED <<conn, asked>> /\ work' = [work EXCEPT !.stored = TRUE]
    BY <1>5 DEF StoreImage, TypeOK, ActorOK, Work
  <2>2. spawned'[tp] = IF t \in ToSet(work.topics) THEN spawned[tp] + 1 ELSE spawned[tp]
    BY <1>0, <1>5, ImageGrows DEF t
  <2>3. /\ \A c \in Clients : ~ Published(c)
        /\ work' # Nil /\ work'.client = work.client /\ work'.stored
    <3>1. work' \in Work /\ work'.client = work.client /\ work'.stored
      BY <2>1 DEF Work
    <3>2. work' # Nil
      BY <3>1, NilIsNoRecord
    <3> QED BY <2>1, <3>1, <3>2 DEF Published
  <2>4. V \subseteq U \ {work.client}
    BY <1>a, <2>1, <2>3 DEF Published, IsCreate
  <2>5. CASE t \in ToSet(work.topics)
    <3>1. work.client \in U
      BY <1>a, <2>1, <2>3, <2>5 DEF CommandsWaitedFor, Waits
    <3>2. Cardinality(U \ {work.client}) = Cardinality(U) - 1
      BY <1>c, <3>1, FS_RemoveElement
    <3>3. Cardinality(V) <= Cardinality(U \ {work.client})
      BY <1>a, <2>4, UnmadeFinite
    <3> QED BY <1>0, <1>b, <1>c, <2>1, <2>2, <2>5, <3>2, <3>3
  <2>6. CASE t \notin ToSet(work.topics)
    BY <1>1, <2>1, <2>2, <2>4, <2>6
  <2> QED BY <2>5, <2>6
<1>6. CASE ReceiveCreateTopic
  <2>1. UNCHANGED <<spawned, asked, conn>> /\ work = Nil
    BY <1>6 DEF ReceiveCreateTopic, imageVars
  <2>2. \A c \in Clients : ~ Published(c)
    BY <2>1 DEF Published
  <2> QED BY <1>2, <2>1, <2>2 DEF IsCreate
<1>7. CASE AppendRecord
  <2>1. UNCHANGED <<spawned, asked, conn>> /\ work \in Work /\ work' = Appended(work)
    BY <1>7 DEF AppendRecord, imageVars, TypeOK, ActorOK
  <2>2. work'.client = work.client /\ work'.stored = work.stored
    BY <2>1 DEF Appended, Work
  <2>3. ASSUME NEW c \in Clients, Published(c) PROVE Published(c)'
    <3>1. work.at <= Len(work.topics) /\ work' # Nil
      <4>1. work.at <= Len(work.topics)
        BY <1>7 DEF AppendRecord
      <4>2. work' \in Work
        BY <2>1, <4>1, NextForm
      <4> QED BY <4>1, <4>2, NilIsNoRecord
    <3> QED BY <2>2, <2>3, <3>1 DEF Published
  <2> QED BY <1>2, <2>1, <2>3 DEF IsCreate
<1>8. CASE AnswerCreateTopic
  <2>1. /\ UNCHANGED <<spawned, asked>> /\ work # Nil
        /\ conn' = [conn EXCEPT ![work.client] = Nil]
    BY <1>8 DEF AnswerCreateTopic, imageVars
  <2>2. ASSUME NEW c \in Clients, IsCreate(c)'
        PROVE  conn'[c] = conn[c] /\ ~ Published(c)
    BY <1>0, <2>1, <2>2 DEF IsCreate, Published
  <2> QED BY <1>2, <2>1, <2>2 DEF IsCreate
<1>9. CASE Crash
  <2>1. spawned'[tp] = 0 /\ asked'[t] = 0 /\ \A c \in Clients : ~ IsCreate(c)'
    BY <1>0, <1>9 DEF Crash, IsCreate
  <2>2. V = {}
    BY <1>a, <2>1
  <2> QED BY <2>1, <2>2, FS_EmptySet
<1>10. CASE Restart
  <2> DEFINE tps == Replayed(Head(mlog))
  <2>1. /\ ~ up /\ UNCHANGED conn /\ Spawn(NoImage, tps) /\ Ask({q[1] : q \in tps})
    BY <1>10 DEF Restart
  <2>2. tps \in SUBSET TopicPartition
    BY DEF Replayed
  <2> HIDE DEF tps
  <2>3. V = {}
    BY <1>a, <2>1 DEF Down, IsCreate
  <2>4. spawned'[tp] = IF tp \in tps THEN spawned[tp] + 1 ELSE spawned[tp]
    BY <1>0, <2>1, <2>2, Spawned DEF NoImage
  <2>5. asked'[t] = asked[t] + IF t \in {q[1] : q \in tps} THEN 1 ELSE 0
    BY <1>0, <2>1 DEF Ask
  <2>6. tp \in tps => t \in {q[1] : q \in tps}
    BY DEF t
  <2> HIDE DEF t
  <2>7. Cardinality(V) = 0
    BY <2>3, FS_EmptySet
  <2> QED BY <1>0, <1>b, <1>c, <2>4, <2>5, <2>6, <2>7
<1>11. CASE UNCHANGED vars
  BY <1>2, <1>11 DEF vars, imageVars, IsCreate, Published
<1> QED
  BY <1>3, <1>4, <1>5, <1>6, <1>7, <1>8, <1>9, <1>10, <1>11 DEF Next, MetadataActor

\* The writers of a partition are among the handles this process has published.
LEMMA WritersBounded ==
    ASSUME TypeOK, HandlesKnown, SpawnedAskedFor PROVE WritersAskedFor
<1> SUFFICES ASSUME NEW tp \in TopicPartition PROVE Cardinality(Writers(tp)) <= asked[tp[1]]
  BY DEF WritersAskedFor
<1> DEFINE n == spawned[tp]
<1>1. n \in Nat /\ asked[tp[1]] \in Nat
  BY DEF TypeOK, ImageOK, ClientsOK, TopicPartition
<1>2. Writers(tp) \in SUBSET (1 .. n)
  BY DEF TypeOK, ImageOK, HandlesKnown, Writers, WorkingOn
<1>3. n + Cardinality(Unmade(tp[1])) <= asked[tp[1]]
  BY DEF SpawnedAskedFor
<1>4. Cardinality(Unmade(tp[1])) \in Nat
  BY UnmadeFinite DEF Unmade
<1> HIDE DEF n
<1>5. IsFiniteSet(1 .. n) /\ Cardinality(1 .. n) = n
  BY <1>1, FS_Interval
<1>6. Cardinality(Writers(tp)) <= n /\ Cardinality(Writers(tp)) \in Nat
  BY <1>2, <1>5, FS_Subset, FS_CardinalityType
<1> QED BY <1>1, <1>3, <1>4, <1>6

-----------------------------------------------------------------------------
(* The log, as long as none of it is overwritten *)

LEMMA PlaceForm ==
    ASSUME LogOK, NEW a
    PROVE  a \in Places <=> \E s \in 1 .. Len(mlog) : \E i \in DOMAIN mlog[s] : a = <<s, i>>
BY DEF Places, LogOK

LEMMA PlaceFormNext ==
    ASSUME LogOK', NEW a
    PROVE  a \in Places' <=> \E s \in 1 .. Len(mlog') : \E i \in DOMAIN mlog'[s] : a = <<s, i>>
BY DEF Places, LogOK

\* What is in the log stays where it is, and a new record comes after it.
LEMMA LogGrows ==
    ASSUME TypeOK, TypeOK', [Next]_vars, ~ clobbered'
    PROVE  /\ ~ clobbered
           /\ \A a \in Places : a \in Places' /\ At(a)' = At(a)
           /\ AppendRecord => \E b \in Places' : /\ At(b)' = NextRecord(work)
                                               /\ \A a \in Places : Before(a, b)
<1>0. LogOK /\ LogOK' /\ ActorOK
  BY DEF TypeOK
<1>1. CASE AppendRecord
  <2> DEFINE n == Len(mlog)
             m == Len(mlog[n])
  <2>1. ~ clobbered /\ ~ (cursor < m)
    BY <1>0, <1>1, LogForm
  <2>2. /\ n \in Nat \ {0} /\ mlog[n] \in Seq(MetadataRecord)
        /\ Len(mlog') \in {n, n + 1}
        /\ \A s \in 1 .. n - 1 : mlog'[s] = mlog[s]
        /\ mlog'[n] \in Seq(MetadataRecord)
        /\ Len(mlog'[n]) = m + 1
        /\ \A i \in 1 .. m : mlog'[n][i] = mlog[n][i]
        /\ mlog'[n][m + 1] = NextRecord(work)
    BY <1>0, <1>1, <2>1, LogForm
  <2>3. m \in Nat /\ DOMAIN mlog[n] = 1 .. m /\ DOMAIN mlog'[n] = 1 .. m + 1
    BY <2>2, LenProperties
  <2>4. /\ n \in 1 .. Len(mlog') /\ m + 1 \in 1 .. m + 1
        /\ \A s \in 1 .. n : s \in 1 .. Len(mlog') /\ (s # n => s \in 1 .. n - 1)
        /\ \A i \in 1 .. m : i \in 1 .. m + 1 /\ i < m + 1
        /\ \A s \in 1 .. n : s < n \/ s = n
    BY <2>2, <2>3
  <2> HIDE DEF n, m
  <2>a. PICK b : b = <<n, m + 1>>
    OBVIOUS
  <2>5. ASSUME NEW a \in Places PROVE a \in Places' /\ At(a)' = At(a) /\ Before(a, b)
    <3>0. PICK s \in 1 .. n : \E i \in DOMAIN mlog[s] : a = <<s, i>>
      BY <1>0, PlaceForm DEF n
    <3>1. PICK i \in DOMAIN mlog[s] : a = <<s, i>>
      BY <3>0
    <3>2. i \in DOMAIN mlog'[s] /\ mlog'[s][i] = mlog[s][i]
      BY <2>2, <2>3, <2>4
    <3>3. s < n \/ (s = n /\ i < m + 1)
      BY <2>3, <2>4
    <3> QED BY <1>0, <2>4, <2>a, <3>1, <3>2, <3>3, PlaceFormNext DEF At, Before
  <2>6. b \in Places' /\ At(b)' = NextRecord(work)
    <3>1. m + 1 \in DOMAIN mlog'[n]
      BY <2>3, <2>4
    <3> QED BY <1>0, <2>2, <2>4, <2>a, <3>1, PlaceFormNext DEF At
  <2> QED BY <2>1, <2>5, <2>6
<1>2. CASE UNCHANGED <<mlog, clobbered>> /\ ~ AppendRecord
  BY <1>2 DEF Places, At
<1>3. CASE ~ AppendRecord
  <2>1. UNCHANGED <<mlog, clobbered>>
    BY <1>3, Frames DEF Restart, diskVars
  <2> QED BY <1>2, <1>3, <2>1
<1> QED BY <1>1, <1>3

LEMMA LoggedGrows ==
    ASSUME TypeOK, TypeOK', [Next]_vars, ~ clobbered'
    PROVE  /\ Logged \subseteq Logged'
           /\ \A tp : BeyondReplay(tp) => BeyondReplay(tp)'
<1>0. LogOK /\ LogOK' /\ \A a \in Places : a \in Places' /\ At(a)' = At(a)
  BY LogGrows DEF TypeOK
<1>1. ASSUME NEW tp \in Logged PROVE tp \in Logged'
  <2>1. tp \in TopicPartition
    BY DEF Logged
  <2>2. PICK a \in Places, b \in Places :
           Before(a, b) /\ At(a) = TopicRecord(tp[1]) /\ At(b) = PartitionRecord(tp[1], tp[2])
    BY DEF Logged
  <2>3. a \in Places' /\ b \in Places' /\ At(a)' = TopicRecord(tp[1])
        /\ At(b)' = PartitionRecord(tp[1], tp[2]) /\ Before(a, b)
    BY <1>0, <2>2
  <2> QED BY <2>1, <2>3 DEF Logged, Before
<1>2. ASSUME NEW tp, BeyondReplay(tp) PROVE BeyondReplay(tp)'
  <2>0. PICK s \in 2 .. Len(mlog) : PartitionRecord(tp[1], tp[2]) \in ToSet(mlog[s])
    BY <1>2 DEF BeyondReplay
  <2>1. PICK i \in DOMAIN mlog[s] : mlog[s][i] = PartitionRecord(tp[1], tp[2])
    BY <2>0 DEF ToSet
  <2>2. s \in 1 .. Len(mlog) /\ s \in Int /\ s >= 2
    BY <1>0, <2>1 DEF LogOK
  <2>3. <<s, i>> \in Places /\ At(<<s, i>>) = PartitionRecord(tp[1], tp[2])
    BY <1>0, <2>1, <2>2, PlaceForm DEF At
  <2>4. <<s, i>> \in Places' /\ mlog'[s][i] = PartitionRecord(tp[1], tp[2])
    BY <1>0, <2>3 DEF At
  <2>5. s \in 1 .. Len(mlog') /\ i \in DOMAIN mlog'[s]
    BY <1>0, <2>4, PlaceFormNext
  <2>6. s \in 2 .. Len(mlog')
    BY <1>0, <2>2, <2>5 DEF LogOK
  <2> QED BY <2>4, <2>5, <2>6 DEF BeyondReplay, ToSet
<1> QED BY <1>1, <1>2

LEMMA WorkLoggedKept ==
    ASSUME TypeOK, TypeOK', Down, WorkLogged, [Next]_vars PROVE WorkLogged'
<1> SUFFICES ASSUME ~ clobbered', work' # Nil
             PROVE  /\ \A i \in DOMAIN work'.topics : i < work'.at =>
                          PartitionsOf({work'.topics[i]}) \subseteq Logged'
                    /\ work'.at <= Len(work'.topics) /\ work'.appended > 0 =>
                          /\ \E a \in Places' : At(a)' = TopicRecord(work'.topics[work'.at])
                          /\ \A p \in 0 .. work'.appended - 2 :
                                <<work'.topics[work'.at], p>> \in Logged'
  BY DEF WorkLogged, PartitionsOf
<1>0. /\ ~ clobbered /\ Logged \subseteq Logged'
      /\ \A a \in Places : a \in Places' /\ At(a)' = At(a)
  BY LogGrows, LoggedGrows
<1>1. CASE ReceiveCreateTopic
  <2>1. work'.at = 1 /\ work'.appended = 0 /\ work'.topics = Head(queue).topics
    BY <1>1 DEF ReceiveCreateTopic
  <2>2. work'.topics \in Seq(Topics)
    <3>1. work' \in Work
      BY DEF TypeOK, ActorOK
    <3> QED BY <3>1, RequestAssumption DEF Work
  <2>3. \A i \in DOMAIN work'.topics : ~ (i < 1)
    BY <2>2
  <2> QED BY <2>1, <2>3
<1>2. CASE AppendRecord
  <2> DEFINE t == work.topics[work.at]
  <2>1. work \in Work /\ work # Nil /\ work.at <= Len(work.topics) /\ work' = Appended(work)
    BY <1>2 DEF AppendRecord, TypeOK, ActorOK
  <2>2. /\ t \in Topics /\ work.topics \in Seq(Topics) /\ DOMAIN work.topics = 1 .. Len(work.topics)
        /\ work.at \in Nat \ {0} /\ work.appended \in 0 .. NumPartitions /\ NumPartitions \in Nat
    BY <2>1, NextForm, SizeAssumption, LenProperties DEF Work
  <2>3. PICK b \in Places' : /\ At(b)' = NextRecord(work)
                             /\ \A a \in Places : Before(a, b)
    BY <1>2, LogGrows
  <2>4. /\ \A i \in DOMAIN work.topics : i < work.at => PartitionsOf({work.topics[i]}) \subseteq Logged
        /\ work.appended > 0 =>
              /\ \E a \in Places : At(a) = TopicRecord(t)
              /\ \A p \in 0 .. work.appended - 2 : <<t, p>> \in Logged
    BY <1>0, <2>1 DEF WorkLogged
  <2>5. work.appended = 0 => At(b)' = TopicRecord(t)
    BY <2>3 DEF NextRecord
  <2>6. work.appended > 0 => <<t, work.appended - 1>> \in Logged'
    <3>1. ASSUME work.appended > 0 PROVE <<t, work.appended - 1>> \in Logged'
      <4>1. PICK a \in Places : At(a) = TopicRecord(t)
        BY <2>4, <3>1
      <4>2. a \in Places' /\ At(a)' = TopicRecord(t) /\ Before(a, b)
        BY <1>0, <2>3, <4>1
      <4>3. At(b)' = PartitionRecord(t, work.appended - 1)
        BY <2>2, <2>3, <3>1 DEF NextRecord
      <4>4. <<t, work.appended - 1>> \in TopicPartition
        BY <2>2, <3>1 DEF TopicPartition
      <4> QED BY <4>2, <4>3, <4>4 DEF Logged, Before
    <3> QED BY <3>1
  <2>7. \A p \in 0 .. work.appended - 1 : <<t, p>> \in Logged'
    <3>1. ASSUME NEW p \in 0 .. work.appended - 1
          PROVE  work.appended > 0 /\ (p = work.appended - 1 \/ p \in 0 .. work.appended - 2)
      BY <2>2
    <3> QED BY <1>0, <2>4, <2>6, <3>1
  <2>8. CASE work.appended < NumPartitions
    <3>1. work'.topics = work.topics /\ work'.at = work.at /\ work'.appended = work.appended + 1
      BY <2>1, <2>8 DEF Appended, Work
    <3>2. (work.appended + 1) - 2 = work.appended - 1
      BY <2>2
    <3>3. \E a \in Places' : At(a)' = TopicRecord(t)
      <4>1. CASE work.appended = 0
        BY <2>5, <4>1
      <4>2. CASE work.appended > 0
        BY <1>0, <2>4, <4>2
      <4> QED BY <2>2, <4>1, <4>2
    <3> HIDE DEF t
    <3> QED BY <1>0, <2>4, <2>7, <3>1, <3>2, <3>3 DEF t
  <2>9. CASE work.appended >= NumPartitions
    <3>1. work'.topics = work.topics /\ work'.at = work.at + 1 /\ work'.appended = 0
          /\ work.appended = NumPartitions
      BY <2>1, <2>2, <2>9 DEF Appended, Work
    <3>2. PartitionsOf({t}) \subseteq Logged'
      <4>1. ASSUME NEW tp \in PartitionsOf({t}) PROVE tp \in Logged'
        <5>1. tp = <<t, tp[2]>> /\ tp[2] \in 0 .. NumPartitions - 1
          BY DEF PartitionsOf, TopicPartition
        <5> QED BY <2>7, <3>1, <5>1
      <4> QED BY <4>1
    <3>3. \A i \in DOMAIN work.topics : i < work.at + 1 => i < work.at \/ i = work.at
      BY <2>2
    <3> QED BY <1>0, <2>4, <3>1, <3>2, <3>3
  <2>10. work.appended < NumPartitions \/ work.appended >= NumPartitions
    BY <2>2
  <2> HIDE DEF t
  <2> QED BY <2>8, <2>9, <2>10
<1>3. CASE StoreImage
  <2>1. work \in Work /\ work # Nil /\ work'.topics = work.topics /\ work'.at = work.at
        /\ work'.appended = work.appended
    BY <1>3 DEF StoreImage, TypeOK, ActorOK, Work
  <2> QED BY <1>0, <2>1 DEF WorkLogged
<1>4. CASE AnswerCreateTopic \/ Crash
  BY <1>4 DEF AnswerCreateTopic, Crash
<1>5. CASE UNCHANGED work
  BY <1>0, <1>5 DEF WorkLogged
<1> QED BY <1>1, <1>2, <1>3, <1>4, <1>5, Frames DEF MetadataActor

\* A command whose image is published has its partitions in the log.
LEMMA PublishedLogged ==
    ASSUME TypeOK, WorkLogged, ~ clobbered, work # Nil, work.at > Len(work.topics)
    PROVE  PartitionsOf(ToSet(work.topics)) \subseteq Logged
<1>1. work.topics \in Seq(Topics) /\ work.at \in Nat
  BY RequestAssumption DEF TypeOK, ActorOK, Work
<1>2. \A i \in DOMAIN work.topics : i < work.at
  BY <1>1
<1>3. \A i \in DOMAIN work.topics : PartitionsOf({work.topics[i]}) \subseteq Logged
  BY <1>2 DEF WorkLogged
<1> QED BY <1>3 DEF PartitionsOf, ToSet

LEMMA CreatedKept ==
    ASSUME TypeOK, TypeOK', WorkFits, WorkLogged, CreatedLogged, [Next]_vars PROVE CreatedLogged'
<1> SUFFICES ASSUME ~ clobbered' PROVE PartitionsOf(created') \subseteq Logged'
  BY DEF CreatedLogged, PartitionsOf
<1>0. ~ clobbered /\ Logged \subseteq Logged' /\ PartitionsOf(created) \subseteq Logged
  BY LogGrows, LoggedGrows DEF CreatedLogged
<1>1. CASE AnswerCreateTopic
  <2>1. work # Nil /\ work.stored /\ created' = created \union ToSet(work.topics)
    BY <1>1 DEF AnswerCreateTopic, Answerable
  <2>2. work.at > Len(work.topics)
    <3>1. work.topics \in Seq(Topics) /\ work.at = Len(work.topics) + 1
      BY <2>1, RequestAssumption DEF WorkFits, TypeOK, ActorOK, Work
    <3> QED BY <3>1
  <2>3. PartitionsOf(ToSet(work.topics)) \subseteq Logged
    BY <1>0, <2>1, <2>2, PublishedLogged
  <2> QED BY <1>0, <2>1, <2>3 DEF PartitionsOf
<1>2. CASE UNCHANGED created
  BY <1>0, <1>2
<1> QED BY <1>1, <1>2, Frames DEF Crash

\* What a restart reads is in the log.
LEMMA ReplayedLogged ==
    ASSUME LogOK
    PROVE  /\ Replayed(Head(mlog)) \subseteq Logged
           /\ \A tp \in Logged : tp \in Replayed(Head(mlog)) \/ BeyondReplay(tp)
<1>0. Head(mlog) = mlog[1] /\ Len(mlog) \in Nat \ {0}
  BY DEF LogOK
<1>1. ASSUME NEW tp \in Replayed(Head(mlog)) PROVE tp \in Logged
  <2>1. tp \in TopicPartition
    BY DEF Replayed
  <2>2. PICK i \in DOMAIN mlog[1], j \in DOMAIN mlog[1] :
           /\ i < j /\ mlog[1][i] = TopicRecord(tp[1]) /\ mlog[1][j] = PartitionRecord(tp[1], tp[2])
    BY <1>0 DEF Replayed
  <2>3. <<1, i>> \in Places /\ <<1, j>> \in Places
    BY <1>0, PlaceForm
  <2>4. /\ Before(<<1, i>>, <<1, j>>) /\ At(<<1, i>>) = TopicRecord(tp[1])
        /\ At(<<1, j>>) = PartitionRecord(tp[1], tp[2])
    BY <2>2 DEF Before, At
  <2> QED BY <2>1, <2>3, <2>4 DEF Logged
<1>2. ASSUME NEW tp \in Logged PROVE tp \in Replayed(Head(mlog)) \/ BeyondReplay(tp)
  <2>1. PICK a \in Places, b \in Places :
           Before(a, b) /\ At(a) = TopicRecord(tp[1]) /\ At(b) = PartitionRecord(tp[1], tp[2])
    BY DEF Logged
  <2>a. PICK r \in 1 .. Len(mlog) : \E i \in DOMAIN mlog[r] : a = <<r, i>>
    BY PlaceForm
  <2>b. PICK s \in 1 .. Len(mlog) : \E j \in DOMAIN mlog[s] : b = <<s, j>>
    BY PlaceForm
  <2>2. PICK i \in DOMAIN mlog[r] : a = <<r, i>>
    BY <2>a
  <2>3. PICK j \in DOMAIN mlog[s] : b = <<s, j>>
    BY <2>b
  <2>4. /\ r < s \/ (r = s /\ i < j)
        /\ mlog[r][i] = TopicRecord(tp[1]) /\ mlog[s][j] = PartitionRecord(tp[1], tp[2])
    BY <2>1, <2>2, <2>3 DEF Before, At
  <2>5. s \in 2 .. Len(mlog) \/ (s = 1 /\ r = 1)
    BY <1>0, <2>4
  <2>6. CASE s \in 2 .. Len(mlog)
    BY <2>4, <2>6 DEF BeyondReplay, ToSet
  <2>7. CASE s = 1 /\ r = 1
    <3>1. tp \in TopicPartition /\ i < j
      BY <2>4, <2>7 DEF Logged
    <3> QED BY <1>0, <2>4, <2>7, <3>1 DEF Replayed
  <2> QED BY <2>5, <2>6, <2>7
<1> QED BY <1>1, <1>2

LEMMA ImageLoggedKept ==
    ASSUME TypeOK, TypeOK', WorkLogged, ImageIsLogged, [Next]_vars PROVE ImageIsLogged'
<1> SUFFICES ASSUME ~ clobbered' PROVE DOMAIN image' \subseteq Logged'
  BY DEF ImageIsLogged
<1>0. ~ clobbered /\ Logged \subseteq Logged' /\ DOMAIN image \subseteq Logged /\ ImageOK
  BY LogGrows, LoggedGrows DEF ImageIsLogged, TypeOK
<1>1. CASE StoreImage
  <2>1. DOMAIN image' = DOMAIN image \union PartitionsOf(ToSet(work.topics))
    BY <1>0, <1>1, ImageGrows
  <2>2. PartitionsOf(ToSet(work.topics)) \subseteq Logged
    BY <1>0, <1>1, PublishedLogged DEF StoreImage, Storable
  <2> QED BY <1>0, <2>1, <2>2
<1>2. CASE Crash
  BY <1>2 DEF Crash, NoImage
<1>3. CASE Restart
  <2>1. DOMAIN image' = Replayed(Head(mlog))
    BY <1>3 DEF Restart, Spawn, NoImage
  <2> QED BY <1>0, <2>1, ReplayedLogged DEF TypeOK
<1>4. CASE UNCHANGED imageVars
  BY <1>0, <1>4 DEF imageVars
<1> QED BY <1>1, <1>2, <1>3, <1>4, Frames

LEMMA SurvivesKept ==
    ASSUME TypeOK, TypeOK', WorkFits, CreatedLogged, ConfirmedSurvives, [Next]_vars
    PROVE  ConfirmedSurvives'
<1> SUFFICES ASSUME up', ~ clobbered', NEW tp \in PartitionsOf(created')
             PROVE  tp \in DOMAIN image' \/ BeyondReplay(tp)'
  BY DEF ConfirmedSurvives, PartitionsOf
<1>0. /\ ~ clobbered /\ (BeyondReplay(tp) => BeyondReplay(tp)')
      /\ ImageOK /\ LogOK
  BY LogGrows, LoggedGrows DEF TypeOK
<1>1. CASE Restart
  <2>1. DOMAIN image' = Replayed(Head(mlog)) /\ created' = created
    BY <1>1 DEF Restart, Spawn, NoImage
  <2>2. tp \in Logged
    BY <1>0, <2>1 DEF CreatedLogged
  <2> QED BY <1>0, <2>1, <2>2, ReplayedLogged
<1>2. ~ Crash
  BY DEF Crash
<1>3. CASE ~ Restart
  <2>1. up /\ (tp \in PartitionsOf(created) => tp \in DOMAIN image \/ BeyondReplay(tp))
    BY <1>0, <1>2, <1>3, Frames DEF ConfirmedSurvives
  <2>2. DOMAIN image \subseteq DOMAIN image'
    BY <1>0, <1>2, <1>3, ImageGrows, Frames DEF imageVars
  <2>3. CASE AnswerCreateTopic
    <3>1. tp \in PartitionsOf(created) \/ tp \in PartitionsOf(ToSet(work.topics))
      BY <2>3 DEF AnswerCreateTopic, PartitionsOf
    <3>2. PartitionsOf(ToSet(work.topics)) \subseteq DOMAIN image
      BY <2>3 DEF AnswerCreateTopic, Answerable, WorkFits
    <3> QED BY <1>0, <2>1, <2>2, <3>1, <3>2
  <2>4. CASE created' = created
    BY <1>0, <2>1, <2>2, <2>4
  <2> QED BY <1>2, <2>3, <2>4, Frames
<1> QED BY <1>1, <1>3

-----------------------------------------------------------------------------
(* Theorems *)

LEMMA InvInit == Init => BrokerInv
<1> SUFFICES ASSUME Init PROVE BrokerInv
  OBVIOUS
<1>1. LogOK /\ SegmentFits
  <2>1. mlog = << <<>> >> /\ << <<>> >> \in Seq(Seq(MetadataRecord)) /\ cursor = 0 /\ size = 0
    BY DEF Init
  <2>2. Last(mlog) = <<>> /\ Len(Last(mlog)) = 0
    BY <2>1 DEF Last
  <2>3. mlog \in Seq(Seq(MetadataRecord)) /\ mlog # <<>>
    BY <2>1
  <2>4. SegmentRecords \in Nat \ {0}
    BY SizeAssumption
  <2>5. 0 \in 0 .. SegmentRecords - 1
    BY <2>4
  <2>6. cursor \in 0 .. Len(Last(mlog)) /\ Len(Last(mlog)) <= size
    BY <2>1, <2>2
  <2>7. size \in 0 .. SegmentRecords - 1
    BY <2>1, <2>5
  <2>8. clobbered \in BOOLEAN
    BY DEF Init
  <2> QED BY <2>3, <2>6, <2>7, <2>8, Zenon DEF LogOK, SegmentFits
<1>2. ImageOK
  BY DEF Init, ImageOK, NoImage
<1>3. ActorOK
  <2>1. queue = <<>> /\ work = Nil /\ ChannelSize \in Nat
    BY SizeAssumption DEF Init
  <2> QED BY <2>1 DEF ActorOK
<1>4. ClientsOK
  BY DEF Init, ClientsOK
<1>5. TypeOK
  BY <1>1, <1>2, <1>3, <1>4, SizeAssumption DEF Init, TypeOK
<1>6. /\ Down /\ WorkFits /\ ViewsKnown /\ HandlesKnown /\ ConfirmedIsVisible /\ KnownStaysKnown
      /\ WorkLogged
  BY DEF Init, Down, WorkFits, ViewsKnown, HandlesKnown, ConfirmedIsVisible, KnownStaysKnown,
         WorkLogged, IsData, PartitionsOf
<1>8. CommandsWaitedFor
  <2>1. queue = <<>> /\ work = Nil
    BY DEF Init
  <2> QED BY <2>1 DEF CommandsWaitedFor
<1>9. SpawnedAskedFor
  <2>1. ASSUME NEW tp \in TopicPartition
        PROVE  spawned[tp] = 0 /\ asked[tp[1]] = 0 /\ Unmade(tp[1]) = {}
    BY DEF Init, TopicPartition, Unmade, IsCreate
  <2> QED BY <2>1, FS_EmptySet DEF SpawnedAskedFor
<1>7. CreatedLogged /\ ImageIsLogged /\ ConfirmedSurvives
  BY DEF Init, CreatedLogged, ImageIsLogged, ConfirmedSurvives, PartitionsOf, NoImage
<1> QED BY <1>1, <1>5, <1>6, <1>7, <1>8, <1>9 DEF BrokerInv

LEMMA InvNext == BrokerInv /\ [Next]_vars => BrokerInv'
<1> SUFFICES ASSUME BrokerInv, [Next]_vars PROVE BrokerInv'
  OBVIOUS
<1>1. /\ TypeOK /\ SegmentFits /\ Down /\ WorkFits /\ ViewsKnown /\ HandlesKnown
      /\ ConfirmedIsVisible /\ KnownStaysKnown /\ CommandsWaitedFor /\ SpawnedAskedFor
      /\ WorkLogged /\ CreatedLogged /\ ImageIsLogged /\ ConfirmedSurvives
  BY DEF BrokerInv
<1>2. TypeOK' /\ SegmentFits'
  BY <1>1, TypeKept
<1>3. Down' /\ WorkFits' /\ ConfirmedIsVisible' /\ ViewsKnown'
  BY <1>1, DownKept, WorkKept, VisibleKept, ViewsKept
<1>4. HandlesKnown' /\ KnownStaysKnown'
  <2>1. \A c \in Clients : RequestFits(c)
    BY <1>1 DEF RequestFits, HandlesKnown, KnownStaysKnown
  <2>2. \A c \in Clients : RequestFits(c)'
    BY <1>1, <2>1, RequestsKept
  <2> QED BY <2>2 DEF RequestFits, HandlesKnown, KnownStaysKnown, IsData
<1>5. WorkLogged' /\ CreatedLogged' /\ ImageIsLogged' /\ ConfirmedSurvives'
  BY <1>1, <1>2, WorkLoggedKept, CreatedKept, ImageLoggedKept, SurvivesKept
<1>6. CommandsWaitedFor' /\ SpawnedAskedFor'
  BY <1>1, <1>2, CommandsKept, SpawnedAskedForKept
<1> QED BY <1>2, <1>3, <1>4, <1>5, <1>6 DEF BrokerInv

\* What the metadata actor has appended, what it has published, what it has
\* confirmed and what clients know of it fit each other at every step, a crash
\* between any two of them included.
THEOREM Invariance == Spec => []BrokerInv
BY InvInit, InvNext, PTL DEF Spec

\* The broker's state stays well formed; the actor's channel never holds more than
\* its capacity, and no handle is published that was not spawned.
THEOREM TypeCorrect == Spec => []TypeOK
<1>1. BrokerInv => TypeOK
  BY DEF BrokerInv
<1> QED BY <1>1, Invariance, PTL

\* A client that is told that a topic exists finds every partition of it, as long
\* as the process runs: the answer follows the image.
THEOREM ConfirmedIsVisibleHolds == Spec => []ConfirmedIsVisible
<1>1. BrokerInv => ConfirmedIsVisible
  BY DEF BrokerInv
<1> QED BY <1>1, Invariance, PTL

\* Write-ahead: the image shows no partition that the metadata log does not hold
\* behind the record of its topic, in whichever segments the two are.
THEOREM ImageIsLoggedHolds == Spec => []ImageIsLogged
<1>1. BrokerInv => ImageIsLogged
  BY DEF BrokerInv
<1> QED BY <1>1, Invariance, PTL

\* A confirmed topic is there after any number of crashes, at any points, unless
\* the log was overwritten after a restart or its records are past the segment that
\* a restart reads.
THEOREM ConfirmedSurvivesHolds == Spec => []ConfirmedSurvives
<1>1. BrokerInv => ConfirmedSurvives
  BY DEF BrokerInv
<1> QED BY <1>1, Invariance, PTL

\* A request never fails to find a partition that its client has seen in a metadata
\* response, although it reads the image anew for each of its partitions.
THEOREM KnownStaysKnownHolds == Spec => []KnownStaysKnown
<1>1. BrokerInv => KnownStaysKnown
  BY DEF BrokerInv
<1> QED BY <1>1, Invariance, PTL

\* A partition has at most as many actors that can write its files as this process
\* was asked for it, whatever requests hold a handle of an earlier image.
THEOREM WritersAskedForHolds == Spec => []WritersAskedFor
<1>1. BrokerInv => WritersAskedFor
  BY WritersBounded DEF BrokerInv
<1> QED BY <1>1, Invariance, PTL

=============================================================================
