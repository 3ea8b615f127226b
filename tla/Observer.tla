----------------------------- MODULE Observer -----------------------------
(***************************************************************************)
(* The Observer of crates/raft-runtime: a loop beside the quorum that      *)
(* fetches its log and applies what is committed to a MetadataApplier.     *)
(* It has no vote.  It asks one controller at a time and waits for the     *)
(* answer, without a timeout.                                              *)
(*                                                                         *)
(* The controllers are the voters of module Raft, here with the elections  *)
(* that are won and the fetches that are answered: an exchange of request  *)
(* and answer is one step.  Nothing is lost between the controllers, nor   *)
(* between the observer and a controller that exists.                      *)
(* Ids and epochs share the numbers, for the observer confuses the two.    *)
(***************************************************************************)
EXTENDS RaftLog

CONSTANTS
    Controllers,    \* Observer::controller_ids, a sequence of naturals
    Values,         \* data of the entries
    MaxEpoch,       \* bound: no election at this epoch
    MaxLog          \* bound: no entry is appended to a log this long

VARIABLES
    node,           \* of each controller: epoch, whether it leads, log, watermark,
                    \* and as leader the voter_fetch_offsets
    request,        \* the request on its way, or Nil
    response,       \* the answer on its way, or Nil
    log, currentLeader, fetchOffset, lastFetchedEpoch, highWatermark,
    applied         \* what the MetadataApplier was given

quorumVars == <<node>>
observerVars == <<log, currentLeader, fetchOffset, lastFetchedEpoch,
                  highWatermark, applied>>
vars == <<node, request, response, observerVars>>

Ids == ToSet(Controllers)

Majority == Cardinality(Ids) \div 2 + 1

\* The leader of the newest epoch, once there is one.
Leads(c) == node[c].leads /\ \A d \in Ids : node[d].epoch <= node[c].epoch

\* What the quorum has committed: everything its newest leader knows to be.
Committed ==
    LET leaders == {c \in Ids : Leads(c)}
    IN  IF leaders = {} THEN 0 ELSE Max({node[c].highWatermark : c \in leaders})

\* Observer::new on an empty log, beside a quorum that has not voted yet.
Init ==
    /\ node = [c \in Ids |-> [epoch |-> 0, leads |-> FALSE, log |-> <<>>,
                              highWatermark |-> 0, fetched |-> [d \in Ids |-> 0]]]
    /\ request = Nil
    /\ response = Nil
    /\ log = <<>>
    /\ currentLeader = Nil
    /\ fetchOffset = LogEndOffset(log)
    /\ lastFetchedEpoch = LastEpoch(log)
    /\ highWatermark = 0
    /\ applied = <<>>

-----------------------------------------------------------------------------
(* The quorum *)

\* is_log_up_to_date: the voter finds the candidate's log at least as new as its own.
UpToDate(voter, candidate) ==
    LET mine == node[voter].log
        theirs == node[candidate].log
    IN  \/ LastEpoch(theirs) > LastEpoch(mine)
        \/ /\ LastEpoch(theirs) = LastEpoch(mine)
           /\ LogEndOffset(theirs) >= LogEndOffset(mine)

\* become_follower(epoch), of every field kept here.
Following(n, epoch) == [n EXCEPT !.epoch = epoch, !.leads = FALSE]

\* An election: c times out, every other controller of a majority takes its new
\* epoch and grants it the vote, and c becomes the leader.  The controllers that
\* are not of the majority have not heard of it.
Elect(c, majority) ==
    LET epoch == node[c].epoch + 1 IN
    /\ ~node[c].leads
    /\ epoch <= MaxEpoch
    /\ c \in majority
    /\ Cardinality(majority) >= Majority
    /\ \A d \in majority \ {c} : node[d].epoch < epoch /\ UpToDate(d, c)
    /\ node' = [d \in Ids |->
                  IF d = c
                  THEN [node[c] EXCEPT !.epoch = epoch, !.leads = TRUE,
                                       !.fetched = [v \in Ids |-> 0]]
                  ELSE IF d \in majority THEN Following(node[d], epoch) ELSE node[d]]
    /\ UNCHANGED <<request, response, observerVars>>

\* handle_begin_quorum_epoch: a controller hears of the leader.
Follow(c, leader) ==
    /\ node[leader].leads
    /\ c # leader
    /\ node[c].epoch <= node[leader].epoch
    /\ node' = [node EXCEPT ![c] = Following(node[c], node[leader].epoch)]
    /\ UNCHANGED <<request, response, observerVars>>

\* handle_propose: a leader appends an entry, not yet committed.
Propose(leader, value) ==
    LET leo == LogEndOffset(node[leader].log) IN
    /\ node[leader].leads
    /\ leo < MaxLog
    /\ node' = [node EXCEPT ![leader].log =
                    Append(@, [epoch |-> node[leader].epoch, offset |-> leo,
                               data |-> value])]
    /\ UNCHANGED <<request, response, observerVars>>

\* check_divergence.
Divergence(c, req) ==
    IF \/ req.fetchOffset = 0
       \/ EpochAt(node[c].log, req.fetchOffset - 1) = req.lastFetchedEpoch
    THEN Nil
    ELSE FindEpochStart(node[c].log, req.lastFetchedEpoch)

\* handle_fetch_request: the data only for a request of the leader's own epoch.
\* (The epoch of a request is 0, never newer than the controller's.)
FetchAnswer(c, req) ==
    LET serves == node[c].leads /\ req.epoch = node[c].epoch
        diverging == IF serves THEN Divergence(c, req) ELSE Nil
    IN  [epoch |-> node[c].epoch, highWatermark |-> node[c].highWatermark,
         entries |-> IF serves /\ diverging = Nil
                     THEN Entries(node[c].log, req.fetchOffset,
                                  LogEndOffset(node[c].log))
                     ELSE <<>>,
         diverging |-> diverging]

\* try_advance_high_watermark: up to the offset that a majority has asked from
\* (the leader counts with its log end), if the entry below is of its own epoch.
Committing(leader, fetched) ==
    LET n == node[leader]
        reached(d) == IF d = leader THEN LogEndOffset(n.log) ELSE fetched[d]
        hwm == Max({o \in {reached(d) : d \in Ids} :
                       Cardinality({d \in Ids : reached(d) >= o}) >= Majority})
        commits == /\ hwm > n.highWatermark
                   /\ EpochAt(n.log, hwm - 1) \in {n.epoch, Nil}
    IN  [n EXCEPT !.fetched = fetched,
                  !.highWatermark = IF commits THEN hwm ELSE @]

\* handle_fetch_response of a follower.
Received(n, resp) ==
    IF resp.diverging # Nil
    THEN [n EXCEPT !.log = Truncate(n.log, resp.diverging)]
    ELSE [n EXCEPT !.log = n.log \o resp.entries,
                   !.highWatermark = Max({@, Min({resp.highWatermark,
                                                  LogEndOffset(n.log)})})]

\* A follower fetches from its leader, which counts where it fetched from.
Replicate(c, leader) ==
    LET leo == LogEndOffset(node[c].log)
        resp == FetchAnswer(leader, [epoch |-> node[c].epoch, fetchOffset |-> leo,
                                     lastFetchedEpoch |-> LastEpoch(node[c].log)])
        fetched == [node[leader].fetched EXCEPT ![c] = leo]
    IN
    /\ node[leader].leads
    /\ c # leader
    /\ node[c].epoch = node[leader].epoch
    /\ node' = [node EXCEPT ![c] = Received(node[c], resp),
                            ![leader] = IF resp.diverging = Nil
                                        THEN Committing(leader, fetched) ELSE @]
    /\ UNCHANGED <<request, response, observerVars>>

\* A controller answers; a request to an id that no controller has is gone.
Answer ==
    /\ request # Nil
    /\ request.to \in Ids
    /\ response' = FetchAnswer(request.to, request)
    /\ request' = Nil
    /\ UNCHANGED <<quorumVars, observerVars>>

-----------------------------------------------------------------------------
(* Observer::run *)

\* The known leader, or the first controller.
Target == IF currentLeader = Nil THEN Head(Controllers) ELSE currentLeader

\* A tick: ask, in epoch 0, for what follows the log.
Fetch ==
    /\ request = Nil /\ response = Nil
    /\ Controllers # <<>>
    /\ request' = [to |-> Target, epoch |-> 0, fetchOffset |-> fetchOffset,
                   lastFetchedEpoch |-> lastFetchedEpoch]
    /\ UNCHANGED <<quorumVars, response, observerVars>>

\* The leader an answer points to: the number of its epoch is taken for an id.
LeaderOf(resp) == IF resp.epoch > 0 THEN resp.epoch ELSE currentLeader

\* handle_fetch_response that reports divergence.
HandleDiverging ==
    /\ response # Nil
    /\ response.diverging # Nil
    /\ currentLeader' = LeaderOf(response)
    /\ log' = Truncate(log, response.diverging)
    /\ fetchOffset' = response.diverging
    /\ lastFetchedEpoch' = IF response.diverging = 0 THEN 0 ELSE lastFetchedEpoch
    /\ response' = Nil
    /\ UNCHANGED <<quorumVars, request, highWatermark, applied>>

\* handle_fetch_response with data: append, then apply what a higher watermark
\* commits of the log.
HandleData ==
    LET entries == response.entries
        hwm == Max({highWatermark, response.highWatermark})
    IN
    /\ response # Nil
    /\ response.diverging = Nil
    /\ currentLeader' = LeaderOf(response)
    /\ log' = log \o entries
    /\ lastFetchedEpoch' = IF entries = <<>> THEN lastFetchedEpoch
                                             ELSE Last(entries).epoch
    /\ fetchOffset' = IF entries = <<>> THEN fetchOffset
                                        ELSE Last(entries).offset + 1
    /\ highWatermark' = hwm
    /\ applied' = applied \o Entries(log', highWatermark, hwm)
    /\ response' = Nil
    /\ UNCHANGED <<quorumVars, request>>

-----------------------------------------------------------------------------

Observe == Fetch \/ Answer \/ HandleDiverging \/ HandleData

Next ==
    \/ Observe
    \/ \E c \in Ids :
          \/ \E majority \in SUBSET Ids : Elect(c, majority)
          \/ \E value \in Values : Propose(c, value)
          \/ \E leader \in Ids : Follow(c, leader) \/ Replicate(c, leader)

\* The observer's loop goes on, the controllers hear of a leader and fetch from it.
\* Elections and proposals may stop.
Spec ==
    /\ Init /\ [][Next]_vars
    /\ WF_vars(Observe)
    /\ \A c, leader \in Ids : WF_vars(Follow(c, leader)) /\ WF_vars(Replicate(c, leader))

-----------------------------------------------------------------------------
(* Property *)

\* The observer keeps the metadata that is served to clients: whatever the quorum
\* commits, the observer applies in the end.
CommittedIsApplied ==
    \A n \in 1 .. MaxLog : Committed >= n ~> Len(applied) >= n

=============================================================================
