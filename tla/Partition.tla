----------------------------- MODULE Partition -----------------------------
(***************************************************************************)
(* One partition of the broker (crates/storage): the PartitionActor, the   *)
(* only writer of the partition, fed through a channel by PartitionHandle; *)
(* the snapshot it publishes, which fetches read without the actor; the    *)
(* segment files on disk; producers waiting for their acknowledgement; and *)
(* readers (consumers and replica brokers) fetching from their position.   *)
(*                                                                         *)
(* How a segment is written and read is module Segment's.  A batch reaches *)
(* the log file whole.  Definitions marked "Mutant" are wrong on purpose   *)
(* and used nowhere (PROJECT.json, "mutants").                             *)
(***************************************************************************)
EXTENDS Segment

CONSTANTS
    Replicas,       \* replica brokers the partition is configured with
    Consumers,      \* readers that are not replicas (replica_id = -1)
    FetchSizes,     \* how many batches the byte limit of a fetch admits
    ChannelSize,    \* capacity of the actor's command channel
    MaxCrashes      \* bound: how often the process dies

ASSUME ReaderAssumption == IsFiniteSet(Replicas) /\ Replicas \intersect Consumers = {}
ASSUME SizeAssumption ==
    /\ ChannelSize \in Nat \ {0}
    /\ MaxCrashes \in Nat
    /\ FetchSizes \subseteq Nat \ {0}

Readers == Replicas \union Consumers

VARIABLES
    files,      \* the batches of each .log file, by the base offset in its name;
                \* the file with the highest one is active
    indexes,    \* the entries of each .index file, by base offset
    cursor,     \* where the next write goes in the active file
    size,       \* LogSegment::size of the active segment
    since,      \* bytes_since_last_index of the active segment
    snapshot,   \* the published PartitionState
    writing,    \* the batch in the file but not yet published, where it is
                \* and whether the index knows, or Nil
    queue,      \* commands in the channel
    pending,    \* acks_pending_replication
    up,         \* whether the actor is running
    client,     \* what each producer knows
    reply,      \* the fetch a reader waits for, as answered, or Nil
    late,       \* reports of fetches whose replica no longer waits
    pos,        \* the reader's fetch offset
    got,        \* the records it has received
    history,    \* the record written at each offset
    clobbered,  \* whether a write has overwritten an earlier batch
    crashes

segmentVars == <<files, indexes, cursor, size, since>>
actorVars == <<segmentVars, snapshot, writing, pending, up>>
readerVars == <<reply, late, pos, got>>
historyVars == <<history, clobbered, crashes>>
vars == <<actorVars, queue, client, readerVars, historyVars>>

-----------------------------------------------------------------------------
(* Data *)

PartitionState == [segments : Seq(SegmentView), leo : Nat, hw : Nat,
                   replicas : [Replicas -> Nat]]
Record == Batches \X Nat
AcksKinds == {"Leader", "All"}          \* Acks::None is answered as Acks::Leader
Command == [cmd : {"Append"}, id : Batches, acks : AcksKinds]
             \union [cmd : {"UpdateReplicaLeo"}, replica : Replicas, leo : Nat]
             \union [cmd : {"Truncate"}, offset : Nat]
             \union [cmd : {"Shutdown"}]

Writing == [id : Batches, acks : AcksKinds, pos : Nat, indexed : BOOLEAN]
Answer == [leo : Nat, records : Seq(Record)]

ASSUME NilIsNoRecord == Nil \notin Writing \union Answer

\* "acked" carries nothing more: the base offset in the answer is the batch's.
TypeOK ==
    /\ DOMAIN files \subseteq Nat /\ \A base \in DOMAIN files : files[base] \in Seq(Batch)
    /\ DOMAIN indexes = DOMAIN files
    /\ \A base \in DOMAIN indexes : indexes[base] \in Seq(IndexEntry)
    /\ {cursor, size, since} \subseteq Nat
    /\ snapshot \in PartitionState
    /\ writing \in Writing \union {Nil}
    /\ queue \in Seq(Command) /\ Len(queue) <= ChannelSize
    /\ pending \in Seq([hw : Nat, id : Batches])
    /\ up \in BOOLEAN
    /\ client \in [Batches -> {"idle", "waiting", "acked", "failed"}]
    /\ reply \in [Readers -> Answer \union {Nil}]
    /\ late \in [Replicas -> SUBSET Nat]
    /\ pos \in [Readers -> Nat]
    /\ got \in [Readers -> Seq(Record)]
    /\ history \in Seq(Record)
    /\ clobbered \in BOOLEAN
    /\ crashes \in 0 .. MaxCrashes

-----------------------------------------------------------------------------
(* Reading a snapshot *)

\* partition_point: the last segment that starts at or before the offset.
SegmentFor(segments, offset) ==
    CHOOSE i \in 1 .. Len(segments) :
        /\ segments[i].base <= offset
        /\ \A j \in i + 1 .. Len(segments) : segments[j].base > offset

\* PartitionState::fetch reads that one segment only, up to its end and not up
\* to the high watermark.
FetchRecords(offset, fit) ==
    LET view == snapshot.segments[SegmentFor(snapshot.segments, offset)]
    IN  SegmentFetch(files[view.base], indexes[view.base], view, offset, fit)

\* SegmentView::fetch_all: batches_from(0).
AllBatches(view) == BatchesFrom(files[view.base], view.size, 0)

\* The view of a new, empty segment.
FreshView(base) == [base |-> base, size |-> 0, indexCount |-> 0]

-----------------------------------------------------------------------------
(* Initial state: PartitionHandle::spawn on an empty directory. *)

Init ==
    /\ files = [base \in {0} |-> <<>>]
    /\ indexes = [base \in {0} |-> <<>>]
    /\ cursor = 0
    /\ size = 0
    /\ since = IndexInterval
    /\ snapshot = [segments |-> <<FreshView(0)>>, leo |-> 0, hw |-> 0,
                   replicas |-> [r \in Replicas |-> 0]]
    /\ writing = Nil
    /\ queue = <<>>
    /\ pending = <<>>
    /\ up = TRUE
    /\ client = [id \in Batches |-> "idle"]
    /\ reply = [r \in Readers |-> Nil]
    /\ late = [r \in Replicas |-> {}]
    /\ pos = [r \in Readers |-> 0]
    /\ got = [r \in Readers |-> <<>>]
    /\ history = <<>>
    /\ clobbered = FALSE
    /\ crashes = 0

-----------------------------------------------------------------------------
(* PartitionHandle: senders wait while the channel is full. *)

\* (Mutant: the channel is unbounded.)
Enqueue_Unbounded(command) ==
    /\ up
    /\ queue' = Append(queue, command)

Enqueue(command) ==
    /\ up
    /\ Len(queue) < ChannelSize
    /\ queue' = Append(queue, command)

\* append: the producer waits for the answer.
Produce(id, acks) ==
    /\ client[id] = "idle"
    /\ Enqueue([cmd |-> "Append", id |-> id, acks |-> acks])
    /\ client' = [client EXCEPT ![id] = "waiting"]
    /\ UNCHANGED <<actorVars, readerVars, historyVars>>

\* truncate: called by RaftPartition only (module RaftPartition).
Truncate(offset) ==
    /\ Enqueue([cmd |-> "Truncate", offset |-> offset])
    /\ UNCHANGED <<actorVars, client, readerVars, historyVars>>

Shutdown ==
    /\ MaxCrashes > crashes
    /\ Enqueue([cmd |-> "Shutdown"])
    /\ UNCHANGED <<actorVars, client, readerVars, historyVars>>

\* fetch, first half: read the snapshot.  What the actor will be told of a
\* replica is the log end offset of the LEADER's snapshot (log_start_offset in
\* the response).
Fetch(r, fit) ==
    /\ up
    /\ reply[r] = Nil
    /\ reply' = [reply EXCEPT ![r] =
                    [leo |-> snapshot.leo, records |-> FetchRecords(pos[r], fit)]]
    /\ UNCHANGED <<actorVars, queue, client, late, pos, got, historyVars>>

\* fetch, second half: a replica's fetch reports to the actor.
Report(r, leo) == Enqueue([cmd |-> "UpdateReplicaLeo", replica |-> r, leo |-> leo])

\* Then the answer reaches the reader, which moves its position by the records
\* it received (run_offset_sync_loop in the consumer).
Respond(r) ==
    /\ reply[r] # Nil
    /\ IF r \in Replicas THEN Report(r, reply[r].leo) ELSE UNCHANGED queue
    /\ pos' = [pos EXCEPT ![r] = @ + Len(reply[r].records)]
    /\ got' = [got EXCEPT ![r] = @ \o reply[r].records]
    /\ reply' = [reply EXCEPT ![r] = Nil]
    /\ UNCHANGED <<actorVars, client, late, historyVars>>

\* The connection breaks: the reader will fetch again from where it is, while
\* the broker's handler goes on to its report.
Disconnect(r) ==
    /\ reply[r] # Nil
    /\ late' = IF r \in Replicas THEN [late EXCEPT ![r] = @ \union {reply[r].leo}]
                                 ELSE late
    /\ reply' = [reply EXCEPT ![r] = Nil]
    /\ UNCHANGED <<actorVars, queue, client, pos, got, historyVars>>

LateReport(r) ==
    \E leo \in late[r] :
        /\ Report(r, leo)
        /\ late' = [late EXCEPT ![r] = @ \ {leo}]
        /\ UNCHANGED <<actorVars, client, reply, pos, got, historyVars>>

-----------------------------------------------------------------------------
(* PartitionActor::run *)

\* The base offset of the active segment, and its batches.
ActiveBase == Max(DOMAIN files)
Active == files[ActiveBase]

Receive(cmd) == up /\ writing = Nil /\ queue # <<>> /\ Head(queue).cmd = cmd

\* The directory with a new, empty file.
Created(directory, base) ==
    [b \in DOMAIN directory \union {base} |-> IF b = base THEN <<>> ELSE directory[b]]

\* LogSegment::open of a file that does not exist, or is empty: the first batch
\* is always indexed.
OpenFresh(base) ==
    /\ files' = Created(files, base)
    /\ indexes' = Created(indexes, base)
    /\ cursor' = 0
    /\ size' = 0
    /\ since' = IndexInterval

\* Append, first part: append_batch writes at the file's cursor, which is the
\* end of the file unless the file was reopened.  The snapshot does not show
\* it yet.  The position noted for the index is the length of the file.
WriteBatch ==
    LET id == Head(queue).id
        batch == [id |-> id, base |-> snapshot.leo]
        over == cursor < Len(Active)
        data == IF over THEN [Active EXCEPT ![cursor + 1] = batch]
                        ELSE Append(Active, batch)
    IN
    /\ Receive("Append")
    /\ files' = [files EXCEPT ![ActiveBase] = data]
    /\ cursor' = cursor + 1
    /\ writing' = [id |-> id, acks |-> Head(queue).acks, pos |-> Len(Active),
                   indexed |-> FALSE]
    /\ queue' = Tail(queue)
    /\ history' = history \o RecordsFrom(id, 0)
    /\ clobbered' = (clobbered \/ over)
    /\ UNCHANGED <<indexes, size, since, snapshot, pending, up, client, readerVars,
                   crashes>>

\* Append, second part: the rest of append_batch.
IndexBatch ==
    LET index == indexes[ActiveBase]
        due == IndexDue(index, since + 1)
    IN
    /\ writing # Nil
    /\ ~ writing.indexed
    /\ indexes' = IF due
                  THEN [indexes EXCEPT ![ActiveBase] =
                           Append(@, [offset |-> snapshot.leo, pos |-> writing.pos])]
                  ELSE indexes
    /\ since' = IF due THEN 0 ELSE since + 1
    /\ size' = size + 1
    /\ writing' = [writing EXCEPT !.indexed = TRUE]
    /\ UNCHANGED <<files, cursor, snapshot, pending, up, queue, client, readerVars,
                   historyVars>>

\* (Mutant: a segment is rotated to the offset of its last batch.)
NewBase_Stale(leo) == snapshot.leo

\* The segment opened by a rotation starts at the new log end offset.
NewBase(leo) == leo

\* Append, third part: publish the active segment, rotate it when it is full,
\* and answer at once unless the producer asked for all replicas.
PublishBatch ==
    LET leo == snapshot.leo + Count[writing.id]
        views == [snapshot.segments EXCEPT ![Len(snapshot.segments)] =
                     [base |-> ActiveBase, size |-> size,
                      indexCount |-> Len(indexes[ActiveBase])]]
        full == size >= SegmentBytes
    IN
    /\ writing # Nil
    /\ writing.indexed
    /\ snapshot' = [segments |-> IF full THEN Append(views, FreshView(NewBase(leo)))
                                         ELSE views,
                    leo |-> leo,
                    hw |-> IF Replicas = {} THEN snapshot.hw + Count[writing.id]
                                            ELSE snapshot.hw,
                    replicas |-> snapshot.replicas]
    /\ IF full THEN OpenFresh(NewBase(leo)) ELSE UNCHANGED segmentVars
    /\ IF writing.acks = "All"
       THEN /\ pending' = Append(pending, [hw |-> leo, id |-> writing.id])
            /\ UNCHANGED client
       ELSE /\ client' = [client EXCEPT ![writing.id] = "acked"]
            /\ UNCHANGED pending
    /\ writing' = Nil
    /\ UNCHANGED <<up, queue, readerVars, historyVars>>

\* (Mutant: the latest report of a replica counts, even if it is lower.)
ReplicaLeo_Latest(old, leo) == leo

\* ack_replica keeps the highest offset a replica has reported.
ReplicaLeo(old, leo) == Max({old, leo})

\* (Mutant: an acknowledgement waits for the watermark to pass its offset.)
Released_Strict(hw) == {i \in 1 .. Len(pending) :
                          \A j \in 1 .. i : pending[j].hw < hw}

\* (Mutant: one report pops one acknowledgement.)
Released_First(hw) == {i \in 1 .. Len(pending) : i = 1 /\ pending[i].hw <= hw}

\* The acknowledgements popped from the front: up to the first one above hw.
Released(hw) == {i \in 1 .. Len(pending) : \A j \in 1 .. i : pending[j].hw <= hw}

\* UpdateReplicaLeo: the high watermark becomes the least of the replicas'
\* offsets, and the acknowledgements it covers are sent in order.
UpdateReplicaLeo ==
    LET command == Head(queue)
        replicas == [snapshot.replicas EXCEPT ![command.replica] =
                        ReplicaLeo(@, command.leo)]
        hw == Min({replicas[r] : r \in Replicas})
        released == Released(hw)
    IN
    /\ Receive("UpdateReplicaLeo")
    /\ snapshot' = [snapshot EXCEPT !.replicas = replicas, !.hw = hw]
    /\ client' = [id \in Batches |->
                    IF \E i \in released : pending[i].id = id THEN "acked"
                                                              ELSE client[id]]
    /\ pending' = SubSeq(pending, Cardinality(released) + 1, Len(pending))
    /\ queue' = Tail(queue)
    /\ UNCHANGED <<segmentVars, writing, up, readerVars, historyVars>>

\* (Mutant: the watermark survives a truncation.)
TruncatedHw_Kept(offset) == snapshot.hw

\* The watermark does not stay above the new end of the log.
TruncatedHw(offset) == Min({snapshot.hw, offset})

\* handle_truncate: an offset past the end is ignored.  The segments that start
\* below the offset, which are the first ones, are kept WHOLE, the others are
\* deleted, and a new active segment starts at the offset.
TruncateLog ==
    LET offset == Head(queue).offset
        below == Cardinality({i \in 1 .. Len(snapshot.segments) :
                                 snapshot.segments[i].base < offset})
        kept == {base \in DOMAIN files : base < offset}
    IN
    /\ Receive("Truncate")
    /\ queue' = Tail(queue)
    /\ IF offset >= snapshot.leo
       THEN UNCHANGED <<segmentVars, snapshot, history>>
       ELSE /\ files' = Created(Restrict(files, kept), offset)
            /\ indexes' = Created(Restrict(indexes, kept), offset)
            /\ cursor' = 0
            /\ size' = 0
            /\ since' = IndexInterval
            /\ snapshot' = [segments |-> Append(SubSeq(snapshot.segments, 1, below),
                                                FreshView(offset)),
                            leo |-> offset,
                            hw |-> TruncatedHw(offset),
                            replicas |-> snapshot.replicas]
            /\ history' = SubSeq(history, 1, offset)
    /\ UNCHANGED <<writing, pending, up, client, readerVars, clobbered, crashes>>

\* The actor ends: the channel and every answer still owed are dropped, and so
\* are the connections of the readers.
Stop ==
    /\ up' = FALSE
    /\ crashes' = crashes + 1
    /\ writing' = Nil
    /\ queue' = <<>>
    /\ pending' = <<>>
    /\ client' = [id \in Batches |->
                    IF client[id] = "waiting" THEN "failed" ELSE client[id]]
    /\ reply' = [r \in Readers |-> Nil]
    /\ late' = [r \in Replicas |-> {}]
    /\ UNCHANGED <<segmentVars, snapshot, pos, got, history, clobbered>>

HandleShutdown == Receive("Shutdown") /\ Stop

\* The process dies, between the two halves of an append included.
Crash == up /\ crashes < MaxCrashes /\ Stop

\* (Mutant: a recovered log ends where its last segment starts.)
RecoveredEnd_Base(base) == base

\* The records of the last segment, on top of its base offset.
RecoveredEnd(base) == base + RecordsCount(files[base])

\* LogSegment::open of every file the directory holds: an index whose log is
\* empty is emptied too.
OpenedIndexes ==
    [base \in DOMAIN files |->
        IF files[base] = <<>> THEN <<>> ELSE ScannedIndex(indexes[base])]

\* The base offsets in the names of the files, in order.
Ascending(bases) ==
    CHOOSE s \in [1 .. Cardinality(bases) -> bases] :
        \A i, j \in 1 .. Cardinality(bases) : i < j => s[i] < s[j]

\* The view of a reopened segment has the length of the file.
Opened(base) == [base |-> base, size |-> Len(files[base]),
                 indexCount |-> Len(OpenedIndexes[base])]

\* PartitionActor::new on what the directory holds: every file is reopened at
\* its full length, the last one for writing with the cursor at ITS START; it
\* is rotated when it is already full.
Restart ==
    LET leo == RecoveredEnd(ActiveBase)
        bases == Ascending(DOMAIN files)
        views == [i \in 1 .. Len(bases) |-> Opened(bases[i])]
        full == Len(Active) >= SegmentBytes
    IN
    /\ ~ up
    /\ up' = TRUE
    /\ cursor' = 0
    /\ files' = IF full THEN Created(files, leo) ELSE files
    /\ indexes' = IF full THEN Created(OpenedIndexes, leo) ELSE OpenedIndexes
    /\ size' = IF full THEN 0 ELSE Len(Active)
    /\ since' = IF full \/ Active = <<>> THEN IndexInterval ELSE 0
    /\ snapshot' = [segments |-> IF full THEN Append(views, FreshView(leo)) ELSE views,
                    leo |-> leo,
                    hw |-> IF Replicas = {} THEN leo ELSE 0,
                    replicas |-> [r \in Replicas |-> 0]]
    /\ UNCHANGED <<writing, queue, pending, client, readerVars, historyVars>>

-----------------------------------------------------------------------------
Actor ==
    \/ WriteBatch \/ IndexBatch \/ PublishBatch
    \/ UpdateReplicaLeo \/ TruncateLog \/ HandleShutdown

Next ==
    \/ \E id \in Batches, acks \in AcksKinds : Produce(id, acks)
    \/ Shutdown
    \/ \E r \in Readers, fit \in FetchSizes : Fetch(r, fit)
    \/ \E r \in Readers : Respond(r) \/ Disconnect(r)
    \/ \E r \in Replicas : LateReport(r)
    \/ Actor
    \/ Crash
    \/ Restart

Spec == Init /\ [][Next]_vars

=============================================================================
