------------------------------ MODULE Segment ------------------------------
(***************************************************************************)
(* One segment of a partition's log (crates/storage/src/segment): a file   *)
(* of batches and a sparse index into it, written by LogSegment and read   *)
(* through a published SegmentView.  All batches have the same size on     *)
(* disk, so sizes and file positions count batches.                        *)
(*                                                                         *)
(* These are the pure parts; module Partition keeps the files and indexes  *)
(* as state.  Definitions marked "Mutant" are wrong on purpose and used    *)
(* nowhere (PROJECT.json, "mutants").                                      *)
(***************************************************************************)
EXTENDS Integers, FiniteSets, SequencesExt

CONSTANTS
    Batches,        \* record batches; each is produced at most once
    Count,          \* records_count of each batch
    SegmentBytes,   \* a segment of this size, in batches, is rotated
    IndexInterval,  \* index_interval_bytes, in batches
    Nil

ASSUME BatchAssumption == Count \in [Batches -> Nat \ {0}]
ASSUME SegmentAssumption == {SegmentBytes, IndexInterval} \subseteq Nat \ {0}

Batch == [id : Batches, base : Nat]
IndexEntry == [offset : Nat, pos : Nat]
SegmentView == [base : Nat, size : Nat, indexCount : Nat]

ASSUME NilAssumption == Nil \notin Nat \union IndexEntry

-----------------------------------------------------------------------------
(* Writing: LogSegment *)

\* The index file is created at its full length, filled with zeros.
MaxEntries == SegmentBytes \div IndexInterval + 1
ZeroEntry == [offset |-> 0, pos |-> 0]

\* append_batch writes an index entry when enough has been written since the
\* last one and the index file has room.
IndexDue(index, since) == since >= IndexInterval /\ Len(index) < MaxEntries

\* LogSegment::open counts the entries of an existing index up to the first
\* zero one, but takes the first entry whatever it is.  (A later entry is never
\* zero: its offset is that of a later batch.)
ScannedIndex(index) == IF index = <<>> THEN <<ZeroEntry>> ELSE index

\* records_count: the records of the batches of a file.
RecordsCount(data) ==
    LET total[i \in 0 .. Len(data)] ==
            IF i = 0 THEN 0 ELSE total[i - 1] + Count[data[i].id]
    IN  total[Len(data)]

-----------------------------------------------------------------------------
(* Reading: SegmentView *)

\* (Mutant: an entry one past the target counts.)
EntriesUpTo_Past(index, count, target) ==
    Cardinality({i \in 1 .. count : index[i].offset <= target + 1})

\* The loop of find_physical_position: how many of the first `count` entries it
\* takes to be at or below the target.
EntriesUpTo(index, count, target) ==
    LET search[range \in (0 .. count) \X (-1 .. count - 1)] ==
            LET lo == range[1]
                hi == range[2]
                mid == lo + (hi - lo) \div 2
            IN  IF lo > hi THEN lo
                ELSE IF index[mid + 1].offset <= target THEN search[<<mid + 1, hi>>]
                ELSE IF mid = 0 THEN lo
                ELSE search[<<lo, mid - 1>>]
    IN  search[<<0, count - 1>>]

\* find_physical_position: the last entry at or below the target, or None.
FindPhysicalPosition(index, count, target) ==
    LET found == EntriesUpTo(index, count, target)
    IN  IF found = 0 THEN Nil ELSE index[found]

\* Where the file has ended, a read leaves zeros in the buffer.
CountAt(data, pos) == IF pos < Len(data) THEN Count[data[pos + 1].id] ELSE 0

\* (Mutant: the walk stops at the batch that ends at the target.)
LinearSearch_Early(data, size, target, entry) ==
    LET walk[at \in Nat \X Nat] ==
            LET offset == at[1]
                pos == at[2]
            IN  IF offset >= target THEN pos
                ELSE IF pos >= size THEN Nil
                ELSE IF offset + CountAt(data, pos) >= target THEN pos
                ELSE walk[<<offset + CountAt(data, pos), pos + 1>>]
    IN  walk[<<entry.offset, entry.pos>>]

\* linear_search: from an index entry, the position of the batch that holds the
\* target, counting records; Nil when it runs past the published size.
LinearSearch(data, size, target, entry) ==
    LET walk[at \in Nat \X Nat] ==
            LET offset == at[1]
                pos == at[2]
            IN  IF offset >= target THEN pos
                ELSE IF pos >= size THEN Nil
                ELSE IF offset + CountAt(data, pos) > target THEN pos
                ELSE walk[<<offset + CountAt(data, pos), pos + 1>>]
    IN  walk[<<entry.offset, entry.pos>>]

\* batches_from: BatchIter, which stops at the published size or where the file
\* ends.
BatchesFrom(data, size, pos) == SubSeq(data, pos + 1, Min({size, Len(data)}))

\* batch_iter_from.  An error and an end are the same to every caller.
BatchIterFrom(data, index, view, offset) ==
    LET entry == FindPhysicalPosition(index, view.indexCount, offset)
        start == IF entry = Nil THEN [offset |-> view.base, pos |-> 0] ELSE entry
        pos == LinearSearch(data, view.size, offset, start)
    IN  IF (entry = Nil /\ view.size = 0) \/ pos = Nil THEN <<>>
        ELSE BatchesFrom(data, view.size, pos)

\* The records of a batch from the k-th on.
RecordsFrom(id, k) == [i \in 1 .. (Count[id] - k) |-> <<id, k + i - 1>>]

\* SegmentView::fetch: the batch that holds the offset, cut there
\* (slice_from_offset, which fails for an offset outside the batch), and as many
\* of the following ones as fit.
SegmentFetch(data, index, view, offset, fit) ==
    LET batches == BatchIterFrom(data, index, view, offset)
        first == Head(batches)
        rest == SubSeq(batches, 2, Min({fit, Len(batches)}))
    IN  IF \/ batches = <<>>
           \/ offset \notin first.base .. first.base + Count[first.id] - 1
        THEN <<>>
        ELSE RecordsFrom(first.id, offset - first.base)
               \o FlattenSeq([i \in 1 .. Len(rest) |-> RecordsFrom(rest[i].id, 0)])

=============================================================================
