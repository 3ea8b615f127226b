--------------------------- MODULE RaftPartition ---------------------------
(***************************************************************************)
(* A partition as the log of a KRaft voter (crates/storage, partition/     *)
(* raft.rs): RaftPartition implements the trait RaftLog on a               *)
(* PartitionHandle.  Every entry is a batch of one record.  The writes     *)
(* take the log by `&mut self` and wait for the actor, so at most one is   *)
(* under way; the reads take the published snapshot.                       *)
(***************************************************************************)
EXTENDS Partition

CONSTANTS
    EpochOf,        \* partition_leader_epoch of each batch
    TruncateAt      \* the offsets the log may be truncated to

ASSUME EntryAssumption ==
    /\ EpochOf \in [Batches -> Nat \ {0}]
    /\ \A id \in Batches : Count[id] = 1
    /\ TruncateAt \subseteq Nat

\* The LogEntry a batch stands for.
LogEntry(batch) == [epoch |-> EpochOf[batch.id], offset |-> batch.base, data |-> batch.id]

\* The reference implementation of the trait, whose Kept is used here.
VecLog == INSTANCE RaftLog

-----------------------------------------------------------------------------
(* The reads *)

BatchesOf(view, offset) ==
    BatchIterFrom(files[view.base], indexes[view.base], view, offset)

\* The segments from the one that holds the offset on.
SegmentsFrom(offset) ==
    SubSeq(snapshot.segments, SegmentFor(snapshot.segments, offset),
           Len(snapshot.segments))

log_end_offset == snapshot.leo

\* epoch_at: None unless a batch starts at the offset.
epoch_at(offset) ==
    LET batches == BatchesOf(Head(SegmentsFrom(offset)), offset)
        i == SelectInSeq(batches, LAMBDA b : b.base >= offset)
    IN  IF i = 0 THEN Nil
        ELSE IF batches[i].base = offset THEN EpochOf[batches[i].id] ELSE Nil

\* Every batch of every segment, in order.
Everything == FlattenSeq([i \in 1 .. Len(snapshot.segments) |->
                             AllBatches(snapshot.segments[i])])

\* last_epoch: the epoch BEFORE the last change of epoch, counted from 0.
last_epoch ==
    LET batches == Everything
        seen[i \in 0 .. Len(batches)] ==
            IF i = 0 THEN [prev |-> 0, curr |-> 0]
            ELSE LET before == seen[i - 1]
                     epoch == EpochOf[batches[i].id]
                 IN  IF epoch = before.curr THEN before
                     ELSE [prev |-> before.curr, curr |-> epoch]
    IN  seen[Len(batches)].prev

\* (Mutant: only the segment that holds the start is read.)
entries_OneSegment(start, end) ==
    LET batches == BatchesOf(Head(SegmentsFrom(start)), start)
        wanted == SelectSeq(batches, LAMBDA b : start <= b.base /\ b.base < end)
    IN  [i \in 1 .. Len(wanted) |-> LogEntry(wanted[i])]

\* entries(start, end): each segment from its batch for `start` on, until the
\* first batch at or past `end`.
entries(start, end) ==
    LET views == SegmentsFrom(start)
        batches == FlattenSeq([i \in 1 .. Len(views) |-> BatchesOf(views[i], start)])
        read == {i \in 1 .. Len(batches) : \A j \in 1 .. i : batches[j].base < end}
        wanted == VecLog!Kept(batches, {i \in read : start <= batches[i].base})[Len(batches)]
    IN  [i \in 1 .. Len(wanted) |-> LogEntry(wanted[i])]

\* find_epoch_start: the log END when no batch has the epoch.
find_epoch_start(epoch) ==
    LET i == SelectInSeq(Everything, LAMBDA b : EpochOf[b.id] = epoch)
    IN  IF i = 0 THEN snapshot.leo ELSE Everything[i].base

-----------------------------------------------------------------------------
(* The writes *)

\* Nothing is under way.
Quiet == queue = <<>> /\ writing = Nil

\* append: with Acks::None, which is answered as Acks::Leader.  The offset of
\* the entry is not looked at.
AppendEntry(id) == Quiet /\ Produce(id, "Leader")

TruncateTo(offset) == Quiet /\ Truncate(offset)

RaftNext ==
    \/ \E id \in Batches : AppendEntry(id)
    \/ \E offset \in TruncateAt : TruncateTo(offset)
    \/ Shutdown
    \/ Actor
    \/ Crash
    \/ Restart

RaftSpec == Init /\ [][RaftNext]_vars

=============================================================================
