------------------------------- MODULE Broker -------------------------------
(***************************************************************************)
(* The broker's metadata (crates/broker): the MetadataActor, which creates *)
(* topics by appending to the cluster metadata log and then publishes a    *)
(* new MetadataImage; the image, from which every request takes the handle *)
(* of its partition; the client connections; and a restart, which replays  *)
(* the metadata log.                                                       *)
(*                                                                         *)
(* What a partition does with a command is module Partition; here a handle *)
(* is a number that tells the actors of one partition apart.  The metadata *)
(* log is a partition too, of which only what the broker depends on is     *)
(* here: its segments, and the cursor a restart leaves at the start of the *)
(* last one.  All its records are equally large.                           *)
(***************************************************************************)
EXTENDS Integers, FiniteSets, SequencesExt

CONSTANTS
    Clients,        \* client connections
    Topics,
    NumPartitions,  \* num_partitions of every CreateTopic
    CreateRequests, \* the topic lists clients ask to create
    DataRequests,   \* the partition lists of their produce and fetch requests
    ChannelSize,    \* capacity of the metadata actor's channel
    SegmentRecords, \* a segment of the metadata log with this many records is full
    MaxCreates,     \* bound: how many create requests are made
    MaxCrashes,     \* bound: how often the process dies
    Nil

TopicPartition == Topics \X (0 .. NumPartitions - 1)

ASSUME RequestAssumption ==
    /\ CreateRequests \subseteq Seq(Topics)
    /\ DataRequests \subseteq Seq(TopicPartition)
ASSUME ClientsAssumption == IsFiniteSet(Clients)
ASSUME SizeAssumption ==
    /\ {NumPartitions, ChannelSize, MaxCreates, MaxCrashes} \subseteq Nat
    /\ SegmentRecords \in Nat \ {0}

VARIABLES
    mlog,       \* the TopicRecords and PartitionRecords in each segment of the
                \* cluster metadata log; the last segment is active
    cursor,     \* where in it the next record is written
    size,       \* and how large it is held to be
    image,      \* the published MetadataImage: the handle of each partition
    spawned,    \* how many handles of each partition this process has published
    queue,      \* commands in the metadata actor's channel
    work,       \* the CreateTopic command the actor is executing, or Nil
    up,         \* whether the process runs
    conn,       \* the request each connection is handling, or Nil
    view,       \* the partitions the client's last metadata response named
    told,       \* topics whose creation was confirmed since the process started
    created,    \* history: topics whose creation was ever confirmed
    asked,      \* history: how often this process was asked for each topic, by a
                \* CreateTopic request or by the log it replayed
    clobbered,  \* history: whether a record of the metadata log was overwritten
    creates, crashes

diskVars == <<mlog, cursor, size, clobbered>>
imageVars == <<image, spawned>>
countVars == <<creates, crashes>>
vars == <<diskVars, imageVars, asked, queue, work, up, conn, view, told, created,
          countVars>>

-----------------------------------------------------------------------------
TopicRecord(t) == <<t, Nil>>
PartitionRecord(t, p) == <<t, p>>
MetadataRecord == Topics \X ((0 .. NumPartitions - 1) \union {Nil})

NoImage == [tp \in {} |-> 0]

\* A CreateTopic command in the channel, and while the actor executes it: the
\* topic it is at and how many records of it are appended.
Command == [client : Clients, topics : CreateRequests]
Work == [client : Clients, topics : CreateRequests,
         at : Nat \ {0}, appended : 0 .. NumPartitions, stored : BOOLEAN]
\* A CreateTopic request, waiting for room in the channel or, once sent, for the
\* answer.
CreateRequest == [kind : {"Create"}, topics : CreateRequests, sent : BOOLEAN]
\* A produce or fetch request: its partitions that are not dealt with, the handle
\* it works with, and the partitions it did not find.
DataRequest == [kind : {"Data"}, left : Seq(TopicPartition),
                handle : Nat \union {Nil}, unknown : SUBSET TopicPartition]

ASSUME NilIsNoRecord == Nil \notin Work \union CreateRequest

LogOK ==
    /\ mlog \in Seq(Seq(MetadataRecord)) /\ mlog # <<>>
    /\ cursor \in 0 .. Len(Last(mlog))
    /\ size \in 0 .. SegmentRecords - 1
    /\ clobbered \in BOOLEAN

ImageOK ==
    /\ DOMAIN image \subseteq TopicPartition
    /\ \A tp \in DOMAIN image : image[tp] \in 1 .. spawned[tp]
    /\ spawned \in [TopicPartition -> Nat]

ActorOK ==
    /\ queue \in Seq(Command) /\ Len(queue) <= ChannelSize
    /\ work \in Work \union {Nil}

ClientsOK ==
    /\ conn \in [Clients -> {Nil} \union CreateRequest \union DataRequest]
    /\ view \in [Clients -> SUBSET TopicPartition]
    /\ {told, created} \subseteq SUBSET Topics
    /\ asked \in [Topics -> Nat]

TypeOK ==
    /\ LogOK /\ ImageOK /\ ActorOK /\ ClientsOK
    /\ up \in BOOLEAN
    /\ creates \in 0 .. MaxCreates
    /\ crashes \in 0 .. MaxCrashes

\* Broker::new on an empty directory.
Init ==
    /\ mlog = << <<>> >>
    /\ cursor = 0
    /\ size = 0
    /\ image = NoImage
    /\ spawned = [tp \in TopicPartition |-> 0]
    /\ queue = <<>>
    /\ work = Nil
    /\ up = TRUE
    /\ conn = [c \in Clients |-> Nil]
    /\ view = [c \in Clients |-> {}]
    /\ told = {}
    /\ created = {}
    /\ asked = [t \in Topics |-> 0]
    /\ clobbered = FALSE
    /\ creates = 0
    /\ crashes = 0

-----------------------------------------------------------------------------
(* MetadataImage *)

PartitionsOf(topics) == {tp \in TopicPartition : tp[1] \in topics}

\* (Mutant: the image is built anew, with a new handle for every partition.)
CreateTopics_Anew(topics) == DOMAIN image \union PartitionsOf(topics)

\* create_topic, for each topic of a command: the partitions that get a new
\* handle, which replaces the one they may have.
CreateTopics(topics) == PartitionsOf(topics)

\* Publish an image with new handles for these partitions.
Spawn(old, tps) ==
    /\ spawned' = [tp \in TopicPartition |-> spawned[tp] + IF tp \in tps THEN 1 ELSE 0]
    /\ image' = [tp \in DOMAIN old \union tps |->
                    IF tp \in tps THEN spawned'[tp] ELSE old[tp]]

\* (Mutant: a repeated topic record forgets the partitions read so far.)
Replayed_Insert(log) ==
    {tp \in TopicPartition :
        \E j \in DOMAIN log :
            /\ log[j] = PartitionRecord(tp[1], tp[2])
            /\ \A i \in DOMAIN log : log[i] = TopicRecord(tp[1]) => i < j}

\* MetadataActor::new: a partition record counts when a topic record stands
\* before it; a repeated topic record changes nothing (or_insert_with).
Replayed(log) ==
    {tp \in TopicPartition :
        \E i, j \in DOMAIN log :
            i < j /\ log[i] = TopicRecord(tp[1]) /\ log[j] = PartitionRecord(tp[1], tp[2])}

-----------------------------------------------------------------------------
(* Connection and Broker: one request at a time on each connection *)

\* handle_metadata: the partitions of the image of this moment.
HandleMetadata(c) ==
    /\ up /\ conn[c] = Nil
    /\ view' = [view EXCEPT ![c] = DOMAIN image]
    /\ UNCHANGED <<diskVars, imageVars, asked, queue, work, up, conn, told, created, countVars>>

\* (Mutant: the channel is unbounded.)
HasRoom_Always == TRUE

HasRoom == Len(queue) < ChannelSize

\* The process is asked once more for each of these topics.
Ask(topics) == asked' = [t \in Topics |-> asked[t] + IF t \in topics THEN 1 ELSE 0]

\* handle_create_topics, up to the send that hands the request to the actor.
HandleCreateTopics(c, topics) ==
    /\ up /\ conn[c] = Nil
    /\ creates < MaxCreates
    /\ conn' = [conn EXCEPT ![c] = [kind |-> "Create", topics |-> topics, sent |-> FALSE]]
    /\ Ask(ToSet(topics))
    /\ creates' = creates + 1
    /\ UNCHANGED <<diskVars, imageVars, queue, work, up, view, told, created, crashes>>

\* The channel has room; the request waits for its answer from now on.
SendCreateTopic(c) ==
    /\ up /\ conn[c] # Nil /\ conn[c].kind = "Create" /\ ~ conn[c].sent
    /\ HasRoom
    /\ queue' = Append(queue, [client |-> c, topics |-> conn[c].topics])
    /\ conn' = [conn EXCEPT ![c].sent = TRUE]
    /\ UNCHANGED <<diskVars, imageVars, asked, work, up, view, told, created, countVars>>

\* handle_produce and handle_fetch arrive with the partitions they are about.
HandleData(c, tps) ==
    /\ up /\ conn[c] = Nil
    /\ conn' = [conn EXCEPT ![c] = [kind |-> "Data", left |-> tps, handle |-> Nil,
                                    unknown |-> {}]]
    /\ UNCHANGED <<diskVars, imageVars, asked, queue, work, up, view, told, created,
                   countVars>>

IsData(c) == up /\ conn[c] # Nil /\ conn[c].kind = "Data"

\* Broker::partition, for the next partition of the request, in the image of
\* THIS moment: the handle, or the error UnknownTopicOrPartition.
LookUp(c) ==
    LET tp == Head(conn[c].left) IN
    /\ IsData(c) /\ conn[c].left # <<>> /\ conn[c].handle = Nil
    /\ \/ tp \in DOMAIN image /\ conn' = [conn EXCEPT ![c].handle = image[tp]]
       \/ /\ tp \notin DOMAIN image
          /\ conn' = [conn EXCEPT ![c].left = Tail(@), ![c].unknown = @ \union {tp}]
    /\ UNCHANGED <<diskVars, imageVars, asked, queue, work, up, view, told, created,
                   countVars>>

\* PartitionHandle::append or fetch has returned (module Partition).
PartitionAnswers(c) ==
    /\ IsData(c) /\ conn[c].handle # Nil
    /\ conn' = [conn EXCEPT ![c].handle = Nil, ![c].left = Tail(@)]
    /\ UNCHANGED <<diskVars, imageVars, asked, queue, work, up, view, told, created,
                   countVars>>

\* write_frame: the connection can take its next request.
Respond(c) ==
    /\ IsData(c) /\ conn[c].left = <<>>
    /\ conn' = [conn EXCEPT ![c] = Nil]
    /\ UNCHANGED <<diskVars, imageVars, asked, queue, work, up, view, told, created,
                   countVars>>

-----------------------------------------------------------------------------
(* MetadataActor::run *)

\* The record of a CreateTopic command that is appended next: of each topic the
\* topic record and then those of its partitions.
NextRecord(w) ==
    IF w.appended = 0 THEN TopicRecord(w.topics[w.at])
                      ELSE PartitionRecord(w.topics[w.at], w.appended - 1)

\* The command when that append has returned.
Appended(w) ==
    IF w.appended < NumPartitions THEN [w EXCEPT !.appended = @ + 1]
                                  ELSE [w EXCEPT !.appended = 0, !.at = @ + 1]

ReceiveCreateTopic ==
    /\ up /\ work = Nil /\ queue # <<>>
    /\ work' = [client |-> Head(queue).client, topics |-> Head(queue).topics,
                at |-> 1, appended |-> 0, stored |-> FALSE]
    /\ queue' = Tail(queue)
    /\ UNCHANGED <<diskVars, imageVars, asked, up, conn, view, told, created, countVars>>

\* The segments once the active one holds these records, and whether it is full:
\* then another one is opened.
WithActive(records, full) ==
    [mlog EXCEPT ![Len(mlog)] = records] \o IF full THEN << <<>> >> ELSE <<>>

\* handle.append of one record, awaited.  The write goes to the file's cursor,
\* which a restart leaves at the start of the file, and counts as growth.
AppendRecord ==
    LET active == Last(mlog)
        record == NextRecord(work)
        over == cursor < Len(active)
        full == size + 1 >= SegmentRecords
    IN
    /\ up /\ work # Nil /\ work.at <= Len(work.topics)
    /\ mlog' = WithActive(IF over THEN [active EXCEPT ![cursor + 1] = record]
                                  ELSE Append(active, record), full)
    /\ clobbered' = (clobbered \/ over)
    /\ cursor' = IF full THEN 0 ELSE cursor + 1
    /\ size' = IF full THEN 0 ELSE size + 1
    /\ work' = Appended(work)
    /\ UNCHANGED <<imageVars, asked, queue, up, conn, view, told, created, countVars>>

\* (Mutant: the image does not wait for the log.)
Storable_Any(w) == TRUE

\* All records are in the log.
Storable(w) == w.at > Len(w.topics)

\* (Mutant: the new image starts empty.)
Current_Empty == NoImage

\* A copy of the published image.
Current == image

\* Publish the new image.  (A topic named twice in one command spawns an actor whose
\* handle is dropped before anybody has it; it does not count.)
StoreImage ==
    LET tps == CreateTopics(ToSet(work.topics)) IN
    /\ up /\ work # Nil /\ Storable(work) /\ ~ work.stored
    /\ Spawn(Current, tps)
    /\ work' = [work EXCEPT !.stored = TRUE]
    /\ UNCHANGED <<diskVars, asked, queue, up, conn, view, told, created, countVars>>

\* (Mutants: the answer overtakes the image; a topic that exists gets none.)
Answerable_Early(w) == w.at > Len(w.topics)
Answerable_NewOnly(w) == w.stored /\ ToSet(w.topics) \intersect told = {}

\* The answer follows the image.
Answerable(w) == w.stored

\* done.send: the client learns that its topics exist.
AnswerCreateTopic ==
    /\ up /\ work # Nil /\ Answerable(work)
    /\ conn' = [conn EXCEPT ![work.client] = Nil]
    /\ told' = told \union ToSet(work.topics)
    /\ created' = created \union ToSet(work.topics)
    /\ work' = Nil
    /\ UNCHANGED <<diskVars, imageVars, asked, queue, up, view, countVars>>

-----------------------------------------------------------------------------
\* The process dies, between two appends of a command included: its clients
\* lose their connections and everything but the log is gone.
Crash ==
    /\ up /\ crashes < MaxCrashes
    /\ up' = FALSE
    /\ crashes' = crashes + 1
    /\ image' = NoImage
    /\ spawned' = [tp \in TopicPartition |-> 0]
    /\ asked' = [t \in Topics |-> 0]
    /\ queue' = <<>>
    /\ work' = Nil
    /\ conn' = [c \in Clients |-> Nil]
    /\ view' = [c \in Clients |-> {}]
    /\ told' = {}
    /\ UNCHANGED <<diskVars, created, creates>>

\* Broker::new, MetadataActor::new: reopen the log, replay its FIRST segment and
\* publish the image.  (Reopening rotates a segment that is full, as the append
\* that filled it does here at once: a crash in between makes no difference.)
Restart ==
    /\ ~ up
    /\ up' = TRUE
    /\ cursor' = 0
    /\ size' = Len(Last(mlog))
    /\ Spawn(NoImage, Replayed(Head(mlog)))
    /\ Ask({tp[1] : tp \in Replayed(Head(mlog))})
    /\ UNCHANGED <<mlog, clobbered, queue, work, conn, view, told, created, countVars>>

-----------------------------------------------------------------------------
MetadataActor ==
    ReceiveCreateTopic \/ AppendRecord \/ StoreImage \/ AnswerCreateTopic

Next ==
    \/ \E c \in Clients :
          \/ HandleMetadata(c)
          \/ \E topics \in CreateRequests : HandleCreateTopics(c, topics)
          \/ SendCreateTopic(c)
          \/ \E tps \in DataRequests : HandleData(c, tps)
          \/ LookUp(c) \/ PartitionAnswers(c) \/ Respond(c)
    \/ MetadataActor
    \/ Crash
    \/ Restart

Spec == Init /\ [][Next]_vars

=============================================================================
