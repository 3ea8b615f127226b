------------------------------- MODULE Raft -------------------------------
(***************************************************************************)
(* A KRaft-style quorum: the state machine Node of crates/raft, driven by  *)
(* the Runner of crates/raft-runtime, on every voter, over an unreliable   *)
(* network, with crashes.                                                  *)
(*                                                                         *)
(* The runner handles one event at a time: Node::handle changes the node's *)
(* memory and returns actions, then execute_actions runs the persistence   *)
(* actions (first pass) and after them the sends and the client replies    *)
(* (second pass).  todo[n] holds the actions that are still to be run; a   *)
(* voter takes its next event only when todo[n] is empty, and a crash may  *)
(* strike between any two of these steps.                                  *)
(*                                                                         *)
(* Timers are not clocks: both timeouts may fire whenever the runner is    *)
(* idle, so ResetElectionTimer and ResetHeartbeatTimer have no effect.     *)
(***************************************************************************)
EXTENDS Integers, FiniteSets, Sequences, RaftLog

CONSTANTS
    Voters,       \* ids of the voters of the quorum
    Values,       \* data of the proposals; each is proposed at most once, so it
                  \* also stands for the runner's propose_id
    InitQuorumState,  \* quorum-state file of each voter when it is first spawned
    InitLog,          \* and its log
    Electable,    \* the voters whose election timer may fire
    Crashable,    \* the voters that may crash and restart
    Pushing,      \* the voters whose heartbeat timer may fire
    Fetching,     \* the voters whose embedder sends FetchRequest
    Resigning,    \* the voters whose embedder sends EndQuorumEpoch
    MaxEpoch,     \* bound: no election timeout at this epoch
    MaxLog,       \* bound: no append makes a log longer than this
    MaxFetches,   \* bound: how many different FetchRequests are sent
    MaxBusy       \* bound: how many voters may be executing actions at once

ASSUME VotersAssumption == IsFiniteSet(Voters) /\ Nil \notin Voters
ASSUME InitAssumption ==
    /\ InitQuorumState \in [Voters -> [currentEpoch : Nat,
                                       votedFor : Voters \union {Nil}]]
    /\ InitLog \in [Voters -> Seq([epoch : Nat, offset : Nat, data : Values])]
ASSUME BoundAssumption == {MaxEpoch, MaxLog, MaxFetches, MaxBusy} \subseteq Nat

VARIABLES
    currentEpoch, votedFor,         \* Node, mirrored in the quorum-state file
    role, leaderId, votesReceived,  \* Node, volatile
    fetchOffsets, highWatermark, pendingProposes,
    log,                \* the voter's log (durable, shared by Node and Runner)
    quorumState,        \* the quorum-state file of the voter (durable)
    todo,               \* actions the runner has still to execute
    waiting,            \* Runner::pending_proposes: who still waits for a reply
    replies,            \* what each proposing client has been told
    msgs,               \* every message ever sent
    erased              \* history: <<v, e>> when v dropped a vote it cast in e

nodeVars == <<currentEpoch, votedFor, role, leaderId, votesReceived,
              fetchOffsets, highWatermark, pendingProposes>>
vars == <<nodeVars, log, quorumState, todo, waiting, replies, msgs, erased>>

-----------------------------------------------------------------------------
(* Data *)

Entry == [epoch : Nat, offset : Nat, data : Values]

VoteRequest == [type : {"VoteRequest"}, from : Voters, to : Voters, epoch : Nat,
                lastLogEpoch : Nat, lastLogOffset : Nat]
VoteResponse == [type : {"VoteResponse"}, from : Voters, to : Voters,
                 epoch : Nat, granted : BOOLEAN]
\* leader_id is always the sender.
BeginQuorumEpoch == [type : {"BeginQuorumEpoch"}, from : Voters, to : Voters,
                     epoch : Nat]
EndQuorumEpoch == [type : {"EndQuorumEpoch"}, from : Voters, to : Voters,
                   epoch : Nat]
FetchRequest == [type : {"FetchRequest"}, from : Voters, to : Voters,
                 epoch : Nat, fetchOffset : Nat, lastFetchedEpoch : Nat]
\* diverging: None, or the end_offset of the Diverging record (its epoch is
\* never read).
FetchResponse == [type : {"FetchResponse"}, from : Voters, to : Voters,
                  epoch : Nat, highWatermark : Nat, entries : Seq(Entry),
                  diverging : Nat \union {Nil}]

Message == VoteRequest \union VoteResponse \union BeginQuorumEpoch
             \union EndQuorumEpoch \union FetchRequest \union FetchResponse

\* The actions one call of Node::handle returns.  No handler returns appends
\* together with a truncation, and each truncation stands alone.
Work == [persist : BOOLEAN, append : Seq(Entry), truncate : Nat \union {Nil},
         send : SUBSET Message, commit : SUBSET Values, reject : SUBSET Values]

NoWork == [persist |-> FALSE, append |-> <<>>, truncate |-> Nil,
           send |-> {}, commit |-> {}, reject |-> {}]

QuorumState == [currentEpoch : Nat, votedFor : Voters \union {Nil}]

Replies == {"unsent", "waiting", "ok", "notLeader", "closed"}

TypeOK ==
    /\ currentEpoch \in [Voters -> Nat]
    /\ votedFor \in [Voters -> Voters \union {Nil}]
    /\ role \in [Voters -> {"Follower", "Candidate", "Leader"}]
    /\ leaderId \in [Voters -> Voters \union {Nil}]
    /\ votesReceived \in [Voters -> SUBSET Voters]
    /\ fetchOffsets \in [Voters -> [Voters -> Nat]]
    /\ highWatermark \in [Voters -> Nat]
    /\ pendingProposes \in [Voters -> SUBSET (Nat \X Values)]
    /\ log \in [Voters -> Seq(Entry)]
    /\ quorumState \in [Voters -> QuorumState]
    /\ todo \in [Voters -> Work]
    /\ waiting \in [Voters -> SUBSET Values]
    /\ replies \in [Values -> Replies]
    /\ msgs \in SUBSET Message
    /\ erased \in SUBSET (Voters \X Nat)

-----------------------------------------------------------------------------
(* Initial state: Runner::spawn with the files a voter left behind (none, for *)
(* a new quorum).  The client of a value that is already in a log is gone.    *)

Init ==
    /\ currentEpoch = [n \in Voters |-> InitQuorumState[n].currentEpoch]
    /\ votedFor = [n \in Voters |-> InitQuorumState[n].votedFor]
    /\ role = [n \in Voters |-> "Follower"]
    /\ leaderId = [n \in Voters |-> Nil]
    /\ votesReceived = [n \in Voters |-> {}]
    /\ fetchOffsets = [n \in Voters |-> [v \in Voters |-> 0]]
    /\ highWatermark = [n \in Voters |-> 0]
    /\ pendingProposes = [n \in Voters |-> {}]
    /\ log = InitLog
    /\ quorumState = InitQuorumState
    /\ todo = [n \in Voters |-> NoWork]
    /\ waiting = [n \in Voters |-> {}]
    /\ replies = [v \in Values |->
                    IF \E n \in Voters : \E i \in 1 .. Len(InitLog[n]) :
                          InitLog[n][i].data = v
                    THEN "closed" ELSE "unsent"]
    /\ msgs = {}
    /\ erased = {}

-----------------------------------------------------------------------------
(* Helpers of Node *)

Idle(n) == todo[n] = NoWork

Others(n) == Voters \ {n}

\* (Mutant: half the voters are enough.)
Majority_Half == Cardinality(Voters) \div 2

\* Integer division of the number of voters, plus one.
Majority == Cardinality(Voters) \div 2 + 1

\* The voter's part of an event: it is idle, and afterwards it has this work.
Handle(n, work) ==
    /\ Idle(n)
    /\ Cardinality({v \in Voters : ~ Idle(v)}) < MaxBusy
    /\ todo' = [todo EXCEPT ![n] = work]

\* become_follower: the vote is forgotten whatever the epoch was before.
BecomeFollower(n, epoch, leader) ==
    /\ currentEpoch' = [currentEpoch EXCEPT ![n] = epoch]
    /\ role' = [role EXCEPT ![n] = "Follower"]
    /\ leaderId' = [leaderId EXCEPT ![n] = leader]
    /\ votedFor' = [votedFor EXCEPT ![n] = Nil]
    /\ votesReceived' = [votesReceived EXCEPT ![n] = {}]

\* (Mutant: the pending proposals are cleared without a rejection.)
PendingIds_Cleared(n) == {}

\* The propose ids reject_pending_proposes drains.
PendingIds(n) == {p[2] : p \in pendingProposes[n]}

\* check_committed_proposes: the pending proposals below a high watermark.
Committed(n, hwm) == {p \in pendingProposes[n] : p[1] < hwm}

\* is_log_up_to_date, for the candidate of a VoteRequest.
LogUpToDate(n, req) ==
    IF req.lastLogEpoch = LastEpoch(log[n])
    THEN req.lastLogOffset >= LogEndOffset(log[n])
    ELSE req.lastLogEpoch > LastEpoch(log[n])

-----------------------------------------------------------------------------
(* election.rs *)

BeginQuorumEpochs(n, epoch) ==
    {[type |-> "BeginQuorumEpoch", from |-> n, to |-> v, epoch |-> epoch]
        : v \in Others(n)}

\* become_leader: votes_received and voted_for stay as they are, and nothing
\* is persisted.
BecomeLeader(n) ==
    /\ role' = [role EXCEPT ![n] = "Leader"]
    /\ leaderId' = [leaderId EXCEPT ![n] = n]
    /\ fetchOffsets' = [fetchOffsets EXCEPT ![n] = [v \in Voters |-> 0]]

\* handle_election_timeout.  A lone voter is its own majority.  leader_id
\* keeps naming the leader of an earlier epoch.
ElectionTimeout(n) ==
    LET epoch == currentEpoch[n] + 1
        requests == {[type |-> "VoteRequest", from |-> n, to |-> v, epoch |-> epoch,
                      lastLogEpoch |-> LastEpoch(log[n]),
                      lastLogOffset |-> LogEndOffset(log[n])] : v \in Others(n)}
    IN
    /\ n \in Electable
    /\ role[n] # "Leader"
    /\ currentEpoch[n] < MaxEpoch
    /\ currentEpoch' = [currentEpoch EXCEPT ![n] = epoch]
    /\ votedFor' = [votedFor EXCEPT ![n] = n]
    /\ votesReceived' = [votesReceived EXCEPT ![n] = {n}]
    /\ IF Majority <= 1
       THEN /\ BecomeLeader(n)
            /\ Handle(n, [NoWork EXCEPT !.persist = TRUE,
                                        !.send = BeginQuorumEpochs(n, epoch)])
       ELSE /\ role' = [role EXCEPT ![n] = "Candidate"]
            /\ Handle(n, [NoWork EXCEPT !.persist = TRUE, !.send = requests])
            /\ UNCHANGED <<leaderId, fetchOffsets>>
    /\ UNCHANGED <<highWatermark, pendingProposes, log, quorumState, waiting,
                   replies, msgs, erased>>

\* Whether a voter whose vote in the request's epoch is `vote` may vote for
\* the sender.
CanVote(vote, from) == vote = Nil \/ vote = from

\* (Mutant: the file is not written again for an epoch it already holds.)
VoteWork_EpochOnly(n, req, epoch, granted, persist) ==
    [NoWork EXCEPT
        !.persist = persist /\ epoch # quorumState[n].currentEpoch,
        !.send = {[type |-> "VoteResponse", from |-> n, to |-> req.from,
                   epoch |-> epoch, granted |-> granted]}]

\* The granted answer is sent only by a handler that also persists the vote.
VoteWork(n, req, epoch, granted, persist) ==
    [NoWork EXCEPT
        !.persist = persist,
        !.send = {[type |-> "VoteResponse", from |-> n, to |-> req.from,
                   epoch |-> epoch, granted |-> granted]}]

\* handle_vote_request, the request's epoch being newer: step down, then vote
\* in the new epoch.  Pending proposals are neither rejected nor dropped.
VoteRequestNewer(m) ==
    LET n == m.to
        granted == CanVote(Nil, m.from) /\ LogUpToDate(n, m)
    IN
    /\ m.type = "VoteRequest"
    /\ m.epoch > currentEpoch[n]
    /\ currentEpoch' = [currentEpoch EXCEPT ![n] = m.epoch]
    /\ role' = [role EXCEPT ![n] = "Follower"]
    /\ leaderId' = [leaderId EXCEPT ![n] = Nil]
    /\ votedFor' = [votedFor EXCEPT ![n] = IF granted THEN m.from ELSE Nil]
    /\ votesReceived' = [votesReceived EXCEPT ![n] = {}]
    /\ Handle(n, VoteWork(n, m, m.epoch, granted, TRUE))
    /\ UNCHANGED <<fetchOffsets, highWatermark, pendingProposes, log,
                   quorumState, waiting, replies, msgs, erased>>

\* handle_vote_request in the voter's own epoch, in any role, and the refusal
\* of an older epoch, which answers with the voter's epoch.
VoteRequestCurrent(m) ==
    LET n == m.to
        granted == /\ m.epoch = currentEpoch[n]
                   /\ CanVote(votedFor[n], m.from)
                   /\ LogUpToDate(n, m)
    IN
    /\ m.type = "VoteRequest"
    /\ m.epoch <= currentEpoch[n]
    /\ votedFor' = [votedFor EXCEPT ![n] = IF granted THEN m.from ELSE @]
    /\ Handle(n, VoteWork(n, m, currentEpoch[n], granted, granted))
    /\ UNCHANGED <<currentEpoch, role, leaderId, votesReceived, fetchOffsets,
                   highWatermark, pendingProposes, log, quorumState, waiting,
                   replies, msgs, erased>>

\* A response of a newer epoch than the voter's (handle_vote_response): step
\* down; pending proposals stay pending.
VoteResponseNewer(m) ==
    LET n == m.to IN
    /\ m.type = "VoteResponse"
    /\ m.epoch > currentEpoch[n]
    /\ BecomeFollower(n, m.epoch, Nil)
    /\ Handle(n, [NoWork EXCEPT !.persist = TRUE])
    /\ UNCHANGED <<fetchOffsets, highWatermark, pendingProposes, log,
                   quorumState, waiting, replies, msgs, erased>>

\* The responses handle_vote_response counts.
CountsVote(n, m) ==
    /\ role[n] = "Candidate"
    /\ m.epoch = currentEpoch[n]
    /\ m.granted

\* handle_vote_response for a granted vote of the candidate's epoch.  Every
\* other response is ignored.
VoteResponseGranted(m) ==
    LET n == m.to
        votes == votesReceived[n] \union {m.from}
    IN
    /\ m.type = "VoteResponse"
    /\ CountsVote(n, m)
    /\ votesReceived' = [votesReceived EXCEPT ![n] = votes]
    /\ IF Cardinality(votes) >= Majority
       THEN /\ BecomeLeader(n)
            /\ Handle(n, [NoWork EXCEPT !.send =
                              BeginQuorumEpochs(n, currentEpoch[n])])
       ELSE Handle(n, NoWork) /\ UNCHANGED <<role, leaderId, fetchOffsets>>
    /\ UNCHANGED <<currentEpoch, votedFor, highWatermark, pendingProposes, log,
                   quorumState, waiting, replies, msgs, erased>>

\* (Mutant: an announcement of any epoch is believed.)
AcceptsEpoch_Any(n, m) == TRUE

\* An announcement of an older epoch is ignored.
AcceptsEpoch(n, m) == m.epoch >= currentEpoch[n]

\* handle_begin_quorum_epoch and handle_end_quorum_epoch: the same step, with
\* the leader of the epoch or None.  At the voter's own epoch become_follower
\* drops a vote that was cast in it, which `erased` remembers.
QuorumEpoch(m) ==
    LET n == m.to IN
    /\ m.type \in {"BeginQuorumEpoch", "EndQuorumEpoch"}
    /\ AcceptsEpoch(n, m)
    /\ BecomeFollower(n, m.epoch,
                      IF m.type = "BeginQuorumEpoch" THEN m.from ELSE Nil)
    /\ erased' = IF m.epoch = currentEpoch[n] /\ votedFor[n] # Nil
                 THEN erased \union {<<n, m.epoch>>}
                 ELSE erased
    /\ Handle(n, [NoWork EXCEPT !.persist = TRUE, !.reject = PendingIds(n)])
    /\ pendingProposes' = [pendingProposes EXCEPT ![n] = {}]
    /\ UNCHANGED <<fetchOffsets, highWatermark, log, quorumState, waiting,
                   replies, msgs>>

-----------------------------------------------------------------------------
(* replication.rs *)

FetchResponseMsg(n, to, epoch, entries, diverging) ==
    [type |-> "FetchResponse", from |-> n, to |-> to, epoch |-> epoch,
     highWatermark |-> highWatermark[n], entries |-> entries,
     diverging |-> diverging]

\* handle_fetch_request of a newer epoch: step down, answer without data.
\* Pending proposals stay pending.
FetchRequestNewer(m) ==
    LET n == m.to IN
    /\ m.type = "FetchRequest"
    /\ m.epoch > currentEpoch[n]
    /\ BecomeFollower(n, m.epoch, Nil)
    /\ Handle(n, [NoWork EXCEPT
                    !.persist = TRUE,
                    !.send = {FetchResponseMsg(n, m.from, m.epoch, <<>>, Nil)}])
    /\ UNCHANGED <<fetchOffsets, highWatermark, pendingProposes, log,
                   quorumState, waiting, replies, msgs, erased>>

Serves(n, m) == role[n] = "Leader" /\ m.epoch = currentEpoch[n]

\* check_divergence: None, or the offset the fetcher is to truncate to.
Divergence(n, fetchOffset, lastFetchedEpoch) ==
    IF fetchOffset = 0 \/ EpochAt(log[n], fetchOffset - 1) = lastFetchedEpoch
    THEN Nil
    ELSE FindEpochStart(log[n], lastFetchedEpoch)

\* handle_fetch_request without data: an older epoch, not the leader, or a
\* fetcher whose log diverges.
FetchRequestRefused(m) ==
    LET n == m.to
        diverging == IF Serves(n, m)
                     THEN Divergence(n, m.fetchOffset, m.lastFetchedEpoch)
                     ELSE Nil
    IN
    /\ m.type = "FetchRequest"
    /\ m.epoch <= currentEpoch[n]
    /\ Serves(n, m) => diverging # Nil
    /\ Handle(n, [NoWork EXCEPT !.send =
          {FetchResponseMsg(n, m.from, currentEpoch[n], <<>>, diverging)}])
    /\ UNCHANGED <<nodeVars, log, quorumState, waiting, replies, msgs, erased>>

\* try_advance_high_watermark: the offset a majority has reached, the voter's
\* own log included.
MajorityOffset(n, offsets) ==
    LET reached == [offsets EXCEPT ![n] = LogEndOffset(log[n])]
        counted(o) == Cardinality({v \in Voters : reached[v] >= o})
    IN  Max({o \in {reached[v] : v \in Voters} : counted(o) >= Majority})

\* (Mutant: the epoch of the last committed entry is not checked.)
AdvancedHighWatermark_AnyEpoch(n, offsets) ==
    Max({MajorityOffset(n, offsets), highWatermark[n]})

\* Only an offset above the high watermark whose last entry, if there is one,
\* is of the current epoch advances it.
AdvancedHighWatermark(n, offsets) ==
    LET hwm == MajorityOffset(n, offsets)
    IN  IF /\ hwm > highWatermark[n]
           /\ EpochAt(log[n], hwm - 1) \in {Nil, currentEpoch[n]}
        THEN hwm
        ELSE highWatermark[n]

\* handle_fetch_request on the leader: record the offset, answer with the
\* entries from it and the OLD high watermark, then advance the watermark.
FetchRequestServed(m) ==
    LET n == m.to
        offsets == [fetchOffsets[n] EXCEPT ![m.from] = m.fetchOffset]
        hwm == AdvancedHighWatermark(n, offsets)
        committed == IF hwm = highWatermark[n] THEN {} ELSE Committed(n, hwm)
        entries == Entries(log[n], m.fetchOffset, LogEndOffset(log[n]))
    IN
    /\ m.type = "FetchRequest"
    /\ Serves(n, m)
    /\ Divergence(n, m.fetchOffset, m.lastFetchedEpoch) = Nil
    /\ fetchOffsets' = [fetchOffsets EXCEPT ![n] = offsets]
    /\ highWatermark' = [highWatermark EXCEPT ![n] = hwm]
    /\ pendingProposes' = [pendingProposes EXCEPT ![n] = @ \ committed]
    /\ Handle(n, [NoWork EXCEPT
                    !.send = {FetchResponseMsg(n, m.from, currentEpoch[n],
                                               entries, Nil)},
                    !.commit = {p[2] : p \in committed}])
    /\ UNCHANGED <<currentEpoch, votedFor, role, leaderId, votesReceived, log,
                   quorumState, waiting, replies, msgs, erased>>

\* handle_fetch_response of a newer epoch: step down, reject what is pending.
FetchResponseNewer(m) ==
    LET n == m.to IN
    /\ m.type = "FetchResponse"
    /\ m.epoch > currentEpoch[n]
    /\ BecomeFollower(n, m.epoch, Nil)
    /\ pendingProposes' = [pendingProposes EXCEPT ![n] = {}]
    /\ Handle(n, [NoWork EXCEPT !.persist = TRUE, !.reject = PendingIds(n)])
    /\ UNCHANGED <<fetchOffsets, highWatermark, log, quorumState, waiting,
                   replies, msgs, erased>>

\* (Mutant: the role is not checked.)
Applies_AnyRole(n, m) == m.epoch <= currentEpoch[n]

\* A response a follower applies: of its own or of any OLDER epoch, from
\* whichever voter sent it.
Applies(n, m) == m.epoch <= currentEpoch[n] /\ role[n] = "Follower"

\* handle_fetch_response that reports divergence: truncate, nothing else.
FetchResponseDiverging(m) ==
    LET n == m.to IN
    /\ m.type = "FetchResponse"
    /\ Applies(n, m)
    /\ m.diverging # Nil
    /\ Handle(n, [NoWork EXCEPT !.truncate = m.diverging])
    /\ UNCHANGED <<nodeVars, log, quorumState, waiting, replies, msgs, erased>>

\* handle_fetch_response with data: append every entry it carries; a higher
\* watermark is taken over up to the end of the log BEFORE the appends.
FetchResponseData(m) ==
    LET n == m.to
        higher == m.highWatermark > highWatermark[n]
        hwm == IF higher THEN Min({m.highWatermark, LogEndOffset(log[n])})
                         ELSE highWatermark[n]
        committed == IF higher THEN Committed(n, hwm) ELSE {}
    IN
    /\ m.type = "FetchResponse"
    /\ Applies(n, m)
    /\ m.diverging = Nil
    /\ Len(log[n]) + Len(m.entries) <= MaxLog
    /\ highWatermark' = [highWatermark EXCEPT ![n] = hwm]
    /\ pendingProposes' = [pendingProposes EXCEPT ![n] = @ \ committed]
    /\ Handle(n, [NoWork EXCEPT !.append = m.entries,
                                !.commit = {p[2] : p \in committed}])
    /\ UNCHANGED <<currentEpoch, votedFor, role, leaderId, votesReceived,
                   fetchOffsets, log, quorumState, waiting, replies, msgs,
                   erased>>

\* handle_heartbeat_timeout: push to every other voter what it has not fetched.
HeartbeatTimeout(n) ==
    LET leo == LogEndOffset(log[n])
        push(v) == FetchResponseMsg(n, v, currentEpoch[n],
                                    Entries(log[n], fetchOffsets[n][v], leo), Nil)
    IN
    /\ n \in Pushing
    /\ role[n] = "Leader"
    /\ Handle(n, [NoWork EXCEPT !.send = {push(v) : v \in Others(n)}])
    /\ UNCHANGED <<nodeVars, log, quorumState, waiting, replies, msgs, erased>>

\* RunnerHandle::propose, Runner::input_to_event and handle_propose: the client
\* waits; the leader appends, any other voter rejects.
Propose(n, value) ==
    LET entry == [epoch |-> currentEpoch[n], offset |-> LogEndOffset(log[n]),
                  data |-> value]
    IN
    /\ replies[value] = "unsent"
    /\ replies' = [replies EXCEPT ![value] = "waiting"]
    /\ waiting' = [waiting EXCEPT ![n] = @ \union {value}]
    /\ IF role[n] = "Leader"
       THEN /\ Len(log[n]) < MaxLog
            /\ Handle(n, [NoWork EXCEPT !.append = <<entry>>])
            /\ pendingProposes' = [pendingProposes EXCEPT ![n] =
                                      @ \union {<<entry.offset, value>>}]
       ELSE /\ Handle(n, [NoWork EXCEPT !.reject = {value}])
            /\ UNCHANGED pendingProposes
    /\ UNCHANGED <<currentEpoch, votedFor, role, leaderId, votesReceived,
                   fetchOffsets, highWatermark, log, quorumState, msgs, erased>>

-----------------------------------------------------------------------------
(* Runner::execute_actions *)

\* First pass, PersistQuorumState: writes the node's state as it is NOW.
PersistQuorumState(n) ==
    /\ todo[n].persist
    /\ quorumState' = [quorumState EXCEPT
           ![n] = [currentEpoch |-> currentEpoch[n], votedFor |-> votedFor[n]]]
    /\ todo' = [todo EXCEPT ![n].persist = FALSE]
    /\ UNCHANGED <<nodeVars, log, waiting, replies, msgs, erased>>

\* First pass, AppendToLog: one entry.
AppendToLog(n) ==
    /\ todo[n].append # <<>>
    /\ log' = [log EXCEPT ![n] = Append(@, Head(todo[n].append))]
    /\ todo' = [todo EXCEPT ![n].append = Tail(@)]
    /\ UNCHANGED <<nodeVars, quorumState, waiting, replies, msgs, erased>>

\* First pass, TruncateLog.
TruncateLog(n) ==
    /\ todo[n].truncate # Nil
    /\ log' = [log EXCEPT ![n] = Truncate(@, todo[n].truncate)]
    /\ todo' = [todo EXCEPT ![n].truncate = Nil]
    /\ UNCHANGED <<nodeVars, quorumState, waiting, replies, msgs, erased>>

\* (Mutant: the network does not wait for the disk.)
FirstPassDone_Never(n) == TRUE

FirstPassDone(n) ==
    ~ todo[n].persist /\ todo[n].append = <<>> /\ todo[n].truncate = Nil

\* The runner answers a client only while it still holds its reply channel.
Answer(n, value) ==
    IF value \notin waiting[n] THEN replies[value]
    ELSE IF value \in todo[n].commit THEN "ok"
    ELSE IF value \in todo[n].reject THEN "notLeader"
    ELSE replies[value]

\* Second pass: send every message, answer the clients.  A crash inside this
\* pass is a crash after it: messages may be lost anyway.
SecondPass(n) ==
    /\ todo[n] # NoWork
    /\ FirstPassDone(n)
    /\ msgs' = msgs \union todo[n].send
    /\ replies' = [value \in Values |-> Answer(n, value)]
    /\ waiting' = [waiting EXCEPT ![n] = @ \ (todo[n].commit \union todo[n].reject)]
    /\ todo' = [todo EXCEPT ![n] = NoWork]
    /\ UNCHANGED <<nodeVars, log, quorumState, erased>>

\* The process dies at any point and is spawned again: QuorumState::load and
\* Node::new keep the file and the log; the reply channels of the waiting
\* clients are dropped.
Crash(n) ==
    /\ n \in Crashable
    /\ currentEpoch' = [currentEpoch EXCEPT ![n] = quorumState[n].currentEpoch]
    /\ votedFor' = [votedFor EXCEPT ![n] = quorumState[n].votedFor]
    /\ role' = [role EXCEPT ![n] = "Follower"]
    /\ leaderId' = [leaderId EXCEPT ![n] = Nil]
    /\ votesReceived' = [votesReceived EXCEPT ![n] = {}]
    /\ fetchOffsets' = [fetchOffsets EXCEPT ![n] = [v \in Voters |-> 0]]
    /\ highWatermark' = [highWatermark EXCEPT ![n] = 0]
    /\ pendingProposes' = [pendingProposes EXCEPT ![n] = {}]
    /\ todo' = [todo EXCEPT ![n] = NoWork]
    /\ replies' = [value \in Values |->
                      IF value \in waiting[n] THEN "closed" ELSE replies[value]]
    /\ waiting' = [waiting EXCEPT ![n] = {}]
    /\ UNCHANGED <<log, quorumState, msgs, erased>>

-----------------------------------------------------------------------------
(* The embedder.  Node handles FetchRequest and EndQuorumEpoch events but    *)
(* produces neither Action::SendFetchRequest nor Action::SendEndQuorumEpoch: *)
(* whoever embeds the runner has to.                                         *)

\* A follower asks for what follows its log.
SendFetchRequest(n, to) ==
    /\ n \in Fetching
    /\ Idle(n)
    /\ role[n] = "Follower"
    /\ to # n
    /\ Cardinality({m \in msgs : m.type = "FetchRequest"}) < MaxFetches
    /\ msgs' = msgs \union
         {[type |-> "FetchRequest", from |-> n, to |-> to,
           epoch |-> currentEpoch[n], fetchOffset |-> LogEndOffset(log[n]),
           lastFetchedEpoch |-> LastEpoch(log[n])]}
    /\ UNCHANGED <<nodeVars, log, quorumState, todo, waiting, replies, erased>>

\* A leader announces that it gives up its epoch.
SendEndQuorumEpoch(n) ==
    /\ n \in Resigning
    /\ Idle(n)
    /\ role[n] = "Leader"
    /\ msgs' = msgs \union
         {[type |-> "EndQuorumEpoch", from |-> n, to |-> v,
           epoch |-> currentEpoch[n]] : v \in Others(n)}
    /\ UNCHANGED <<nodeVars, log, quorumState, todo, waiting, replies, erased>>

-----------------------------------------------------------------------------
(* The specification.  A message is never removed from msgs: it may be       *)
(* handled late, out of order, more than once or never.                      *)

Receive(m) ==
    \/ VoteRequestNewer(m)
    \/ VoteRequestCurrent(m)
    \/ VoteResponseNewer(m)
    \/ VoteResponseGranted(m)
    \/ QuorumEpoch(m)
    \/ FetchRequestNewer(m)
    \/ FetchRequestRefused(m)
    \/ FetchRequestServed(m)
    \/ FetchResponseNewer(m)
    \/ FetchResponseDiverging(m)
    \/ FetchResponseData(m)

Run(n) ==
    \/ PersistQuorumState(n)
    \/ AppendToLog(n)
    \/ TruncateLog(n)
    \/ SecondPass(n)

Next ==
    \/ \E n \in Voters :
          \/ ElectionTimeout(n)
          \/ HeartbeatTimeout(n)
          \/ Run(n)
          \/ Crash(n)
          \/ SendEndQuorumEpoch(n)
          \/ \E value \in Values : Propose(n, value)
          \/ \E to \in Voters : SendFetchRequest(n, to)
    \/ \E m \in msgs : Receive(m)

Spec == Init /\ [][Next]_vars

=============================================================================
