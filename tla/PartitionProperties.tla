------------------------ MODULE PartitionProperties ------------------------
(***************************************************************************)
(* What a partition guarantees to its producers and readers, "unless       *)
(* damaged".  Two things damage a log, and the statements say that nothing *)
(* else does: the first append after a restart on a segment that is        *)
(* neither empty nor full overwrites the segment's first batch, because    *)
(* LogSegment::open leaves the file's cursor at 0 (clobbered); and a crash *)
(* between the first batch of a later segment and its index entry makes    *)
(* LogSegment::open take an index entry of zeros for that of the segment's *)
(* start, so that lookups count offsets from 0 (IndexLost).                *)
(***************************************************************************)
EXTENDS Partition

\* The append under way has yet to write the index entry of its batch.
Unindexed(base) == writing # Nil /\ ~ writing.indexed /\ base = ActiveBase

\* A segment that does not start at offset 0 has batches and no entry for the
\* first of them, and no append is about to write it.
IndexLost ==
    \E base \in DOMAIN files \ {0} :
        /\ files[base] # <<>>
        /\ ScannedIndex(indexes[base])[1] = ZeroEntry
        /\ ~ Unindexed(base)

Damaged == clobbered \/ IndexLost

\* Every offset below the log end finds its own record: the segment the snapshot
\* picks, the index entry, the batch it leads to and the cut of that batch fit together across
\* rotations, truncations and restarts.
FetchFindsRecord ==
    up /\ ~ Damaged =>
        \A offset \in 0 .. snapshot.leo - 1 :
            LET records == FetchRecords(offset, 1)
            IN  records # <<>> /\ Head(records) = history[offset + 1]

\* A restarted partition has every batch that reached the disk, the unanswered
\* one included, and a running one publishes everything it has written.
NothingForgotten ==
    up /\ writing = Nil /\ ~ clobbered => snapshot.leo = Len(history)

\* The watermark never passes the end of the log, and without replicas it is
\* the end of the log.
WatermarkInLog ==
    /\ snapshot.hw <= snapshot.leo
    /\ Replicas = {} => snapshot.hw = snapshot.leo

\* No acknowledgement stays behind: with replicas, those still queued wait for
\* offsets above the watermark, in the order of their appends.
AcksWaitAboveWatermark ==
    Replicas # {} =>
        \A i \in 1 .. Len(pending) :
            /\ pending[i].hw > snapshot.hw
            /\ \A j \in i + 1 .. Len(pending) : pending[i].hw < pending[j].hw

\* As long as the actor runs and nothing is truncated, the watermark only
\* rises: a delayed report of a replica cannot take back what was committed.
WatermarkMonotone ==
    [][up /\ up' /\ snapshot'.leo >= snapshot.leo => snapshot'.hw >= snapshot.hw]_vars

\* The watermark, and with it the acknowledgement of a producer that asked for
\* all replicas, does not pass what any replica has received.
WatermarkReplicated ==
    \A r \in Replicas : snapshot.hw <= pos[r]

-----------------------------------------------------------------------------
(* Liveness.  The actor task and the replicas' fetch loops keep running:      *)
(* tokio schedules every ready task, and a replica that stopped fetching for  *)
(* good would rightly hold back acknowledgements.  A fetch that has to report *)
(* to the actor, also one whose replica is gone, competes for a place in the  *)
(* channel with the other senders; tokio's mpsc channel serves waiting        *)
(* senders in order, so the reports of a replica that find a free place again *)
(* and again get it: strong fairness.  For consumers it says that not every   *)
(* answer is lost, and a process that died is started again.                  *)

Reports(r) == Respond(r) \/ (r \in Replicas /\ LateReport(r))

\* Weak fairness of a reader's Fetch, which is enabled while the actor is up and no
\* answer is held, is written out: a reader that asks holds an answer.  (So TLC need
\* not compute an answer to find out whether one could be asked for.)
FetchesOn(r) == []<>(~ up \/ reply[r] # Nil)

Fairness(readers) ==
    /\ WF_vars(Actor)
    /\ \A r \in readers : FetchesOn(r) /\ SF_vars(Reports(r))

FairSpec == Spec /\ Fairness(Replicas)

\* With at least one replica every append is answered: the acknowledgement is sent
\* or, when the actor ends first, the producer sees the channel close.  (A batch is
\* produced once, so that each is answered says that in the end none waits.)
EveryAppendAnswered == <>[](\A id \in Batches : client[id] # "waiting")

FairReaders == Spec /\ Fairness(Readers) /\ WF_vars(Restart)

AbstractLog ==
    INSTANCE Delivery WITH
        Channels <- Readers,
        MaxLen <- FoldFunction(+, 0, Count),
        log <- [r \in Readers |-> history],
        got <- got,
        lost <- IF Damaged THEN Readers ELSE {}

\* The partition implements Delivery: a reader that moves its position by what
\* it received sees every record ever written, in order, without a gap and
\* without a repetition, whatever rotations, broken connections and restarts
\* happen between its fetches, until the log is damaged.
ReadersSeeLog == AbstractLog!Spec

=============================================================================
