------------------------------ MODULE RaftLog ------------------------------
(***************************************************************************)
(* The log a quorum node reads and writes through the trait RaftLog        *)
(* (crates/raft/src/log.rs), with the semantics of its reference           *)
(* implementation VecLog: a vector of entries [epoch, offset, data] that   *)
(* is searched from the front.  append pushes an entry AS IT IS: nothing   *)
(* checks that its offset continues the log.                               *)
(*                                                                         *)
(* Definitions marked "Mutant" are wrong on purpose.  Nothing uses them:   *)
(* each stands in for the definition after it to show that a property of   *)
(* the project would notice that mistake (PROJECT.json, "mutants").        *)
(***************************************************************************)
EXTENDS Integers, SequencesExt

CONSTANT Nil                            \* Rust's None

ASSUME NilAssumption == Nil \notin Nat

\* (Mutant: the last offset itself, -1 for an empty log.)
LogEndOffset_LastOffset(log) == IF log = <<>> THEN -1 ELSE Last(log).offset

\* log_end_offset: one past the offset of the LAST entry, 0 for an empty log.
LogEndOffset(log) == IF log = <<>> THEN 0 ELSE Last(log).offset + 1

\* last_epoch: the epoch of the last entry, 0 for an empty log.
LastEpoch(log) == IF log = <<>> THEN 0 ELSE Last(log).epoch

\* epoch_at: the epoch of the first entry with this offset, or None.
EpochAt(log, offset) ==
    LET i == SelectInSeq(log, LAMBDA entry : entry.offset = offset)
    IN  IF i = 0 THEN Nil ELSE log[i].epoch

\* The entries at the indices I of each prefix of a log.  (SelectSeq with the
\* test as a set of indices: the provers cannot instantiate a test operator.)
Kept(log, I) ==
    LET kept[i \in 0 .. Len(log)] ==
            IF i = 0 THEN <<>>
            ELSE IF i \in I THEN Append(kept[i - 1], log[i]) ELSE kept[i - 1]
    IN  kept

\* entries(start, end): every entry whose offset is in start .. end - 1, in the
\* order of the vector.
Entries(log, start, end) ==
    Kept(log, {i \in 1 .. Len(log) : start <= log[i].offset /\ log[i].offset < end})
        [Len(log)]

\* find_epoch_start: the offset of the first entry of the epoch, 0 when the
\* log holds no entry of that epoch.
FindEpochStart(log, epoch) ==
    LET i == SelectInSeq(log, LAMBDA entry : entry.epoch = epoch)
    IN  IF i = 0 THEN 0 ELSE log[i].offset

\* truncate: retain the entries below the offset, wherever they are.
Truncate(log, offset) == Entries(log, 0, offset)

=============================================================================
