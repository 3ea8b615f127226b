---------------------- MODULE RaftPartitionProperties ----------------------
(***************************************************************************)
(* RaftPartition against VecLog, the reference implementation of RaftLog   *)
(* that the tests of the quorum use and module Raft is built on.           *)
(***************************************************************************)
EXTENDS RaftPartition, PartitionProperties

\* The published log as VecLog would hold it.
Entries == [i \in 1 .. snapshot.leo |->
               LogEntry([id |-> history[i][1], base |-> i - 1])]

\* A truncation inside a segment left batches behind that the next segment
\* starts below.
Leftovers ==
    \E i \in 1 .. Len(snapshot.segments) - 1 :
        \E batch \in ToSet(AllBatches(snapshot.segments[i])) :
            batch.base >= snapshot.segments[i + 1].base

\* The epoch of a log before its last change of epoch; 0 if all entries are of one.
IsEpochBeforeLast(log, epoch) ==
    LET last == VecLog!LastEpoch(log) IN
    \/ epoch = 0 /\ \A i \in DOMAIN log : log[i].epoch = last
    \/ \E i \in DOMAIN log :
          /\ epoch = log[i].epoch /\ epoch # last
          /\ \A j \in i + 1 .. Len(log) : log[j].epoch = last

\* Unless the log is damaged, a read of epochs by offset, and of entries that no
\* truncation left behind, answers as VecLog does, across segments, restarts
\* and truncations, also in the middle of an append.  find_epoch_start does for
\* the epochs the log has.  last_epoch does NOT: it names the epoch before the last
\* change, as if the log ended with the entry before it.
AnswersLikeVecLog ==
    up /\ ~ Damaged =>
        LET epochs == {Entries[i].epoch : i \in DOMAIN Entries} IN
            /\ log_end_offset = VecLog!LogEndOffset(Entries)
            /\ \A offset \in 0 .. snapshot.leo - 1 :
                  epoch_at(offset) = VecLog!EpochAt(Entries, offset)
            /\ ~ Leftovers =>
                  /\ \A start, end \in 0 .. snapshot.leo :
                        entries(start, end) = VecLog!Entries(Entries, start, end)
                  /\ \A epoch \in epochs :
                        find_epoch_start(epoch) = VecLog!FindEpochStart(Entries, epoch)
                  /\ IsEpochBeforeLast(Entries, last_epoch)

\* After a truncation no batch at or past its offset is left in the log.
TruncatedIsGone ==
    up => \A batch \in ToSet(Everything) : batch.base < snapshot.leo

=============================================================================
