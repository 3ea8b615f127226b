-------------------------- MODULE RaftProperties --------------------------
(***************************************************************************)
(* What the quorum of module Raft guarantees.  Several statements carry    *)
(* the exception "unless a vote of that epoch was erased": a voter that    *)
(* receives BeginQuorumEpoch or EndQuorumEpoch of its OWN epoch forgets    *)
(* the vote it cast in it (node.rs, become_follower), and what holds of    *)
(* the code is that nothing else can break the guarantee.                  *)
(***************************************************************************)
EXTENDS Raft

\* Somebody forgot a vote cast in the epoch.
VoteErased(epoch) == \E v \in Voters : <<v, epoch>> \in erased

\* v has told c that c has its vote in the epoch.
Granted(v, c, epoch) ==
    [type |-> "VoteResponse", from |-> v, to |-> c, epoch |-> epoch,
     granted |-> TRUE] \in msgs

\* n has announced that it leads the epoch.
Announced(n, epoch) ==
    \E m \in msgs : /\ m.type = "BeginQuorumEpoch"
                    /\ m.from = n
                    /\ m.epoch = epoch

\* n leads the epoch, or led it long enough to say so.
Led(n, epoch) ==
    \/ role[n] = "Leader" /\ currentEpoch[n] = epoch
    \/ Announced(n, epoch)

\* A voter never speaks in an epoch that a crash could make it forget: every
\* message it has sent carries an epoch its quorum-state file has reached.
\* (Runner::execute_actions runs persistence before the network.)
WriteAhead ==
    \A m \in msgs : m.epoch <= quorumState[m.from].currentEpoch

\* A vote, once its answer is out, is on disk for as long as its epoch is the
\* voter's: a restart cannot make the voter vote twice.
VotesRemembered ==
    \A m \in msgs :
        m.type = "VoteResponse" /\ m.granted =>
            LET file == quorumState[m.from] IN
            \/ file.currentEpoch > m.epoch
            \/ file.currentEpoch = m.epoch /\ file.votedFor = m.to
            \/ <<m.from, m.epoch>> \in erased

\* Two voters that ever led the same epoch are the same voter, unless a vote
\* of that epoch was erased: an erased vote is the only way to two leaders.
OneLeaderPerEpoch ==
    \A a, b \in Voters, epoch \in {currentEpoch[n] : n \in Voters}
                                    \union {m.epoch : m \in msgs} :
        Led(a, epoch) /\ Led(b, epoch) => a = b \/ VoteErased(epoch)

\* A voter grants its vote in an epoch to one candidate only.
VoteOnce ==
    \A m1, m2 \in msgs :
        /\ m1.type = "VoteResponse" /\ m1.granted
        /\ m2.type = "VoteResponse" /\ m2.granted
        /\ m1.from = m2.from /\ m1.epoch = m2.epoch
        => m1.to = m2.to

\* The epoch in the quorum-state file never decreases, crashes included.
DurableEpochMonotone ==
    [][\A n \in Voters :
          quorumState'[n].currentEpoch >= quorumState[n].currentEpoch]_quorumState

\* Only a follower's log is rewritten.  While a voter is a candidate its log does
\* not change, and while it is leader it only grows, by entries of its own epoch:
\* whatever responses of other leaders arrive, and however late.
OnlyFollowersCopy ==
    [][\A n \in Voters :
          role[n] # "Follower" /\ log'[n] # log[n] =>
              /\ role[n] = "Leader"
              /\ \E entry \in ToSet(log'[n]) : /\ log'[n] = Append(log[n], entry)
                                               /\ entry.epoch = currentEpoch[n]]_vars

\* Every entry in a log, in a message, or about to be appended.
AllEntries ==
    UNION ({ToSet(log[n]) : n \in Voters}
           \union {ToSet(todo[n].append) : n \in Voters}
           \union {ToSet(m.entries) : m \in {x \in msgs : x.type = "FetchResponse"}})

\* Files that a quorum left behind: an entry in a log is identified by its epoch
\* and offset, and the voter that created it had won its epoch, with votes that
\* nobody erased.
InitFits ==
    LET all == UNION {ToSet(InitLog[n]) : n \in Voters}
        later(v, epoch) == InitQuorumState[v].currentEpoch > epoch
        votes(v, a, epoch) == InitQuorumState[v] = [currentEpoch |-> epoch, votedFor |-> a]
    IN  /\ \A x, y \in all : x.epoch = y.epoch /\ x.offset = y.offset => x.data = y.data
        /\ \A x \in all : \E a \in Voters :
              /\ InitQuorumState[a].currentEpoch >= x.epoch
              /\ \E Q \in SUBSET Voters :
                    /\ Cardinality(Q) >= Majority
                    /\ \A v \in Q : later(v, x.epoch) \/ votes(v, a, x.epoch)

\* An epoch and an offset identify an entry: all copies of it, in any log, carry
\* the same data, although followers append without looking at offsets.  It takes
\* initial files that fit.
EntryIdentity ==
    \A x, y \in AllEntries :
        x.epoch = y.epoch /\ x.offset = y.offset =>
            x.data = y.data \/ VoteErased(x.epoch)

\* No client is forgotten: whoever waits on a reply channel of a runner waits
\* for a proposal its node still tracks or is about to answer, and a client
\* that waits does so at exactly one runner.
ClientsTracked ==
    /\ \A n \in Voters :
          waiting[n] \subseteq PendingIds(n) \union todo[n].commit \union todo[n].reject
    /\ \A value \in Values :
          replies[value] = "waiting" <=>
              \E n \in Voters : /\ value \in waiting[n]
                                /\ \A k \in Others(n) : value \notin waiting[k]

\* v has asked leader n, in n's epoch and with a log that does not diverge from
\* n's where the request ends, for this offset or a later one.
HasAsked(n, v, offset) ==
    \E m \in msgs : /\ m.type = "FetchRequest"
                    /\ m.from = v /\ m.to = n
                    /\ m.epoch = currentEpoch[n]
                    /\ m.fetchOffset >= offset
                    /\ Divergence(n, m.fetchOffset, m.lastFetchedEpoch) = Nil

\* When a leader advances its high watermark, a majority stands behind it: each
\* counted voter has, in the leader's epoch, asked for that offset or a later
\* one with a log that does not diverge there, or is the leader with a log that
\* long; and the last committed entry is of the leader's epoch.
CommitBacked ==
    [][\A n \in Voters :
          role[n] = "Leader" /\ role'[n] = "Leader"
            /\ highWatermark'[n] > highWatermark[n] =>
          LET hwm == highWatermark'[n]
              self(v) == v = n /\ LogEndOffset(log[n]) >= hwm
          IN  /\ Cardinality({v \in Voters : HasAsked(n, v, hwm) \/ self(v)}) >= Majority
              /\ EpochAt(log[n], hwm - 1) = currentEpoch[n]]_vars

\* A client that a leader tells ok has its entry, in that leader's epoch, below
\* what a majority asked for: every other voter counted has asked, in that epoch
\* and with a log that does not diverge, for an offset past the entry.  Out of the
\* statement is a proposal left pending by a step-down (VoteRequest, VoteResponse
\* and FetchRequest do not reject it): the leader's log need not hold an entry of
\* its epoch for it.
OkBacked ==
    [][\A n \in Voters : \A value \in waiting[n] : \A entry \in ToSet(log[n]) :
          LET answered == /\ replies[value] = "waiting"
                          /\ replies'[value] = "ok"
                          /\ role[n] = "Leader"
              own == entry.data = value /\ entry.epoch = currentEpoch[n]
          IN  answered /\ own =>
                2 * Cardinality({v \in Voters : v = n \/ HasAsked(n, v, entry.offset + 1)})
                  > Cardinality(Voters)]_vars

=============================================================================
