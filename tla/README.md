# Musil in TLA+

Musil is a small Kafka: brokers keep topics as partitioned logs, producers append
to them, consumers read them, and a KRaft-style quorum is meant to replicate the
cluster's metadata. This directory is a verification development of it: modules
that model its components, TLC runs that check them on small instances, and
theorems about each component that TLAPS proves for every value of the constants.

`PROJECT.json` lists the components, the runs, the mutants that show each property
can fail, the source lines behind each definition, the hazards of the code, and
the theorems. Paths below are relative to `src/crates/`.

## 1. The system

| Component | State | Operations | Talks to |
|---|---|---|---|
| `raft` Node | epoch, vote, role, leader, votes received, fetch offsets of the voters, high watermark, pending proposals | one handler per event: two timeouts, vote, fetch and quorum-epoch messages, propose; each returns actions | driven by the Runner only |
| `raft-runtime` Runner | the node, the log, reply channels of clients | event loop; `execute_actions`: persistence first, then network and replies | transport, quorum-state file, clients |
| RaftLog (`VecLog`) | vector of entries | append, truncate, and the lookups of elections and replication | Node reads, Runner writes |
| RaftPartition | a PartitionHandle | the same trait on a stored partition | a PartitionActor |
| `raft-runtime` Observer | log, leader it believes in, fetch offset, last fetched epoch, watermark | fetch loop, apply what is committed | controllers of the quorum, a MetadataApplier |
| `storage` PartitionActor | active segment, published snapshot, acknowledgements waiting for replicas | Append, UpdateReplicaLeo, Truncate, Shutdown; recovery | PartitionHandle through a bounded channel |
| LogSegment, SegmentView | a file of batches, a sparse index, the published size and index count | append, rotate, reopen; binary search and walk to an offset | the actor writes, readers read |
| PartitionState | immutable snapshot: segments as published, log end, watermark, replicas | fetch, without the actor | readers |
| `broker` MetadataActor, MetadataImage | the cluster metadata log, the published image | create topics, replay | Broker handlers through a bounded channel; a partition as its log |
| Broker, Connection | a request per connection | metadata, create topics, produce, fetch | image, partitions |
| `producer` | channel, batch, timer, one connection | publish once, publish async, shutdown | a broker |
| `consumer` | offsets, one connection behind a mutex, channel to the application | metadata loop, fetch loop | a broker |
| `network`, `proto` | none | encoding and decoding | |

What is hard about it, in short: a voter changes its memory, its disk and the
network in separate steps and may die between any two; messages are late, repeated
and lost; one actor writes a partition while readers use snapshots of it and
producers and replica fetches compete for its channel; a topic is several records
of a log that may be cut short; an append writes a file, an index and a snapshot one
after the other; two loops of a consumer share one connection; a
producer's batch is sent by its size, by a timer, or by a shutdown. The hazards in
`PROJECT.json` name each with its line and the properties that watch it.

At this commit the quorum is not yet wired into the server: the broker writes its
metadata log directly, and nothing constructs an Observer or a RaftPartition yet.
They are therefore modelled apart, as they stand.

## 2. Modules

| Module | Models | Checked with |
|---|---|---|
| `RaftLog` | `raft/src/log.rs` | through `Raft` |
| `Raft` | `raft/src/{node,election,replication,state}.rs`, `raft-runtime/src/runner.rs` | `MCRaft` |
| `Segment` | `storage/src/segment/`, iteration and cutting of batches in `proto/src/` | through `Partition` |
| `Partition` | `storage/src/partition/{actor,handle,state}.rs`, on `Segment` | `MCPartition` |
| `RaftPartition` | `storage/src/partition/raft.rs`, on `Partition` | `MCRaftPartition` |
| `Observer` | `raft-runtime/src/observer.rs`, with `RaftLog` as its log | `MCObserver` |
| `Delivery` | no code: what reading a log promises | implemented by `Partition` and `Consumer` |
| `Broker` | `broker/src/broker/`, `broker/src/network/connection.rs` | `MCBroker` |
| `Producer` | `producer/src/` | `MCProducer` |
| `Consumer` | `consumer/src/lib.rs`, `network/src/requests/mod.rs` | `MCConsumer` |
| `XProperties` | what component X guarantees, its fairness | |
| `NaturalSets` | lemmas about sets of numbers | TLAPS |
| `RaftProofs` | theorems about `RaftLog` and `Raft` | TLAPS |
| `PartitionProofs` | theorems about `Segment` and `Partition`, with or without truncations | TLAPS |
| `ReaderProofs` | `Partition` implements `Delivery` for its readers | TLAPS |
| `RaftPartitionProofs` | `RaftPartition` is a truncating partition and answers as `RaftLog` does | TLAPS |
| `BrokerProofs`, `ProducerProofs`, `ConsumerProofs` | theorems about these | TLAPS |

Definitions marked "Mutant" are wrong on purpose. Nothing uses them; each can take
the place of the definition after it, and the property it is listed with then fails.

**Raft.** `Node::handle` is one atomic step on the node's memory; the actions it
returns become `todo[n]`. `PersistQuorumState`, `AppendToLog` and `TruncateLog` run
the first pass of `execute_actions` one action at a time, `SecondPass` sends and
answers. A voter takes its next event only when `todo[n]` is empty. `Crash` may strike
anywhere and keeps only the file and the log. `msgs` only grows, so a message may be
received late, twice, out of order or never. Timers may fire at any idle moment.
Each handler is split into the actions of its branches (`VoteRequestNewer`,
`VoteRequestCurrent`, ...). The node sends neither FetchRequest nor EndQuorumEpoch,
though it handles both: `SendFetchRequest` and `SendEndQuorumEpoch` stand for whoever
embeds the runner. `erased` is a history variable (see finding 1).

**Segment.** The files are state of `Partition`; how they are read and written is here, as
operators: when an index entry is due, what a reopened index is taken to hold,
the binary search, the walk from an index entry to the batch that holds an offset, the
iteration up to the published size, the cut of the first batch. All batches have one
size, so sizes and positions count batches.

**Partition.** An append is three steps of the actor: `WriteBatch` (the file),
`IndexBatch` (the index entry, when one is due) and `PublishBatch` (snapshot, rotation,
answer), with readers, other senders and a crash in between. `Fetch` reads a snapshot
through the index and `Respond` delivers it, a replica's after its
report has found a place in the channel; a broken connection leaves the report behind
as a late one. `Restart` recovers from the files: `LogSegment::open` leaves the write
cursor at 0, which `clobbered` remembers, and takes the first index entry for a valid one
even if it was never written. `IndexLost` says that some segment that has batches, and does not start at offset 0,
is without an entry for its first batch, and that no append is about to write it.

**RaftPartition.** The trait's reads are operators on the published snapshot and carry
the trait's names; its writes are the partition's Append and Truncate, one at a time,
because they take the log by `&mut self`. `RaftPartitionProperties` compares each read with the
same operation of `RaftLog` on the log the partition should hold.

**Observer.** `Fetch`, the controller's `Answer` and the two branches of
`handle_fetch_response`, beside a quorum of its own: `Elect` is an election that a majority
grants, `Follow` BeginQuorumEpoch, `Propose` an entry of the leader, and `Replicate` a
follower's fetch, which the leader counts and may commit upon. Each is one exchange of
messages that are not lost; what can go wrong between them is `Raft`'s. Ids and epochs are
numbers, because the observer takes one for the other.

**Delivery** is the abstract specification of reading: on each channel records are
published in an order, and received in that order, without gap or repetition and in the
end all of them, until the channel is lost. It is implemented twice.
`PartitionProperties!AbstractLog` maps the log to the records ever written to the
partition, what was received to a reader's records, and a damaged log to lost channels.
`ConsumerProperties!Abstract` maps the log to the partition's offsets as the broker has
them and what was received to what the application has taken. The second
rests on the first: the answers that `BrokerAnswers` may give, consecutive records from
the requested offset on, some of those there are, are the ones that `ReadersSeeLog`
shows a partition to give.

**Broker.** A create request (`HandleCreateTopics`) waits until the channel has room
(`SendCreateTopic`) and becomes one record per topic and per partition, each
appended separately (`AppendRecord`), then `StoreImage`, then `AnswerCreateTopic`.
`asked` counts the requests of this process for a topic, and the replay of its log as
one: `WritersAskedFor` bounds the actors that can write a partition's files by it.
Produce and fetch requests look up one partition at a time in the image of the moment.
A handle is a number that tells the actors of one partition apart. The metadata log
rotates after `SegmentRecords` records. `Crash` strikes anywhere; `Restart` replays the
first segment, as the code does.

**Producer.** The task's select loop: `HandleSync`, `HandleAsync`, `HandleShutdown`,
`TimerFires`, each sending at most one request and then waiting for its answer.
Every `unwrap` is a panic that closes the channel. Sizes count records.

**Consumer.** The two loops with their program counters (`lock`, `asked`, `deliver`,
`sleep`), the fair mutex of tokio as a queue, the stream as a queue of exchanges.

## 3. Runs

Eight runs pass; four are violations that state a finding.

| Run | Instance | Shows |
|---|---|---|
| `raft_restart` | 2 voters, 2 epochs, 2 proposals, logs of 2, crashes of both; n1 pushes its log when it leads, n2 resigns | `WriteAhead`, `VotesRemembered`, `OneLeaderPerEpoch`, `EntryIdentity`, `ClientsTracked`, `DurableEpochMonotone`, `OnlyFollowersCopy` |
| `raft_diverged` | 3 voters restarted after epoch 1; the new leader's log ends in epoch 1, the old leader has one entry more and fetches 3 times | `CommitBacked`, `OkBacked` |
| `raft_vote_once` | 3 voters, one epoch, no crashes | violation, finding 1 |
| `partition_restart` | 3 batches of 1 or 2 records, segments of 2 batches, an index entry every 2, no replica, 1 consumer, 1 crash or shutdown | `FetchFindsRecord`, `NothingForgotten`, `ReadersSeeLog` (refinement) |
| `partition_acks` | 2 batches, 2 replicas, a channel of 1 | `AcksWaitAboveWatermark`, `WatermarkMonotone`, `EveryAppendAnswered` |
| `raft_partition` | 5 entries of 3 epochs, segments of 3, an index entry for each batch, truncation to 0, 2 or 3, 1 crash | `FetchFindsRecord`, `NothingForgotten`, `WatermarkInLog`, `AnswersLikeVecLog` |
| `partition_replicated` | 1 replica | violation, finding 2 |
| `partition_truncated` | segments of 2, a truncation to 1 | violation, finding 3 |
| `observer` | 3 controllers, 1 election, 1 entry | violation, finding 4 |
| `broker_topics` | 2 connections, 2 topics of 2 partitions, metadata segments of 5 records, 3 creates, 1 crash, a channel of 1 | `ConfirmedIsVisible`, `ConfirmedSurvives`, `ImageIsLogged`, `KnownStaysKnown`, `WritersAskedFor`, `EveryCreateAnswered` |
| `producer` | 2 records of a key, 1 without, 1 to an unknown topic; 2 partitions; batches of 2; a channel of 2 | `NothingLost`, `AtMostOnce`, `KeyOrder`, `EveryPayloadSent` |
| `consumer` | 2 partitions of up to 3 records, answers of 1 or 2, a channel of 2 | `EachRecordOnce`, `OwnAnswer`, `BothLoopsServed`, `ApplicationSeesLog` (refinement) |

### Why the bounds are enough

- Raft: two voters over two epochs make stale leaders, stale messages, overwritten files
  and crashes between any two writes. What only more voters show about elections, a
  minority against a majority, is proved for any number of them (section 5), and
  `raft_vote_once` searches three. Entries of an
  earlier epoch need a quorum that has been stopped, so `raft_diverged` starts from the
  files such a quorum leaves (`DivergedQuorumState`, `DivergedLog`), which the model
  itself reaches: one voter wins epoch 1, appends an entry and pushes it to another,
  appends a second one, and everybody crashes.
  `MaxBusy = 1` lets one voter at a time be between an event and the end of its actions. Voters share
  only `msgs`, which a voter extends once, in its last step; the steps before it touch
  that voter's own memory and disk and read nothing of another's, so steps of two
  voters commute and each interleaving has an equivalent one that is not interleaved.
  The proofs leave `MaxBusy`, like every bound, arbitrary.
- Partition: three batches with a segment of two give a rotation, a write after it, a
  full and a part-filled segment at a restart; batches of one and two records make
  cuts inside a batch; an index entry every two batches leaves batches that only the walk
  finds. Channels of one or two places are often full. With two
  replicas the least of two reports counts, and two batches make two acknowledgements wait
  behind each other. A stop answers every producer at once, with a failure; it is left to
  `partition_restart`, and to the proof of `AcksWaitAboveWatermark`.
- RaftPartition: five entries with segments of three fill one segment and part of
  another; 0, 2 and 3 truncate everything, inside a segment, and at its end.
- Broker: three creates are a first creation, a repetition and a concurrent one; one
  crash between any two records of them. A topic is three records, so that with segments
  of five the second topic is split by the rotation.
- Observer: one election and one entry, so that the quorum settles; the finding needs no
  larger instance.
- Producer and Consumer: a batch of two records makes both reasons to send;
  answers of varying length against a full channel make every order of delivery.

`CHECK_DEADLOCK FALSE` stands in the Raft runs, where the bounds on epochs and
proposals end every behaviour, and in the producer's, whose task really ends.

### Fairness

- `Partition`: weak fairness of the actor task and of the replicas' fetch loops
  (tokio runs every ready task), strong fairness of the reports of a replica, because
  tokio's channel serves waiting senders in order, so that one of them gets the place
  that is free again and again. Nothing is assumed of producers or crashes. The
  refinement (`FairReaders`) also assumes that a consumer keeps fetching, that not every
  answer to it is lost, and that a process that died is started again.
- `Broker`: weak fairness of the metadata actor, strong fairness of a request that waits
  for a place in its channel, which tokio gives to the senders in order. A request that found no
  place has not been lost: `EveryCreateAnswered` starts with the request, not with the command.
- `Producer`: weak fairness of the task, of an armed timer, and of the broker with a
  request it has received. Nothing is assumed of the application.
- `Consumer`: weak fairness of both loops and their timers, of the broker and of the
  application that reads. The mutex needs none: tokio's is a queue.
- `Observer`: weak fairness of its loop, of the controllers' answers, and of the
  controllers that follow a leader and fetch from it; nothing is lost on the way. With one
  election the quorum settles, so the violation is due neither to it nor to the network.
- `Raft` has no liveness property: election timeouts are not randomised by the
  runner, so that an election ends depends on timing the model does not have.

## 4. Findings

1. **A vote can be given twice** (`raft_vote_once`). `become_follower` clears
   `voted_for` also when the epoch stays the same. A voter that votes, hears
   BeginQuorumEpoch of that epoch, and then gets another candidate's delayed request
   of the epoch grants it too. `raft/tests/election.rs:103` asserts the
   opposite for a voter that has voted. `VotesRemembered`, `OneLeaderPerEpoch` and
   `EntryIdentity` carry the exception "unless a vote of that epoch was erased"; it is
   proved that nothing else breaks them.
2. **The watermark runs ahead of the replicas** (`partition_replicated`): what a
   replica's fetch reports is the leader's log end offset.
3. **A truncation inside a segment removes nothing** (`partition_truncated`):
   `handle_truncate` drops whole segments only, `VecLog` drops entries.
4. **An observer applies nothing** (`observer`). It asks in epoch 0, which no leader
   serves, takes the epoch of the answer for the id of the leader and asks that id from
   then on. The run settles in a quorum whose three controllers all have the committed
   entry, and the observer goes on asking controller 1 in epoch 0. The comment at
   `raft-runtime/src/runner.rs:196` leaves the metadata that clients are served to it.

Noted without a run:

- records without a key are placed at random, although the comment
  at `producer/src/actor.rs:164` says round-robin;
- `RaftPartition::last_epoch` names the epoch before the last one and `find_epoch_start`
  the log end for an unknown epoch, where `VecLog` says 0. `AnswersLikeVecLog`
  says what each of them answers: the epoch before the last change, as if the log ended
  there, and the right start for the epochs the log has;
- `RaftPartition::append` gives an entry the next offset, whatever offset it carries;
- a leader that stepped down because of a vote or fetch request keeps its pending proposals,
  and may answer Ok for one that was overwritten meanwhile. `OkBacked` is
  stated for entries of the leader's own epoch.

Three more limits of the code exempt a state from a property; the properties say
that nothing else has their effect:

- `clobbered`: the first append after a restart overwrites the start of a reopened
  segment;
- `IndexLost`: after a crash between the first batch of a later segment and its index
  entry, `LogSegment::open` takes the entry of zeros for one, and lookups count from 0;
- `BeyondReplay`: a restart of the broker reads the first segment of its metadata log only.

Creating a topic again gives its partitions one more actor on the same files, which
`WritersAskedFor` counts and does not exclude.

## 5. Proofs

TLC shows a property on a small instance; the theorems show it for every value of the
constants: any voters, clients, payloads, batches, replicas, capacities and bounds.
Every safety property that a passing run checks is proved.

What is assumed is named in the modules that declare the constants, and TLC
evaluates it on each run:

- Raft: `VotersAssumption` (a finite set of voters, `Nil` none of them),
  `InitAssumption` (the initial files have the right type; they may be those of a quorum that
  has run), `BoundAssumption`, and `NilAssumption` in `RaftLog`. The theorem about `EntryIdentity`
  has one hypothesis more, `InitFits`: the initial files are ones a quorum can have left
  (entries that agree, votes that elected whoever created them). `MCRaft` assumes it of
  its instances, so that TLC checks it there.
- Partition: `Count` is positive, the sizes are positive or natural, the replicas are finitely
  many and no consumers, `Nil` is no record.
- Broker: finitely many clients, `Nil` is no record.
- Otherwise: types and finiteness of the constants.

### Raft

- `NaturalSets` has the facts the other modules keep needing: a nonempty set of natural
  numbers has a least member, a finite one a greatest. They take the place of induction,
  which the provers cannot instantiate: what a recursive function does is shown by looking at a
  least argument at which it would not.
- `RaftProofs`: the operators of the log return offsets, epochs and sequences of
  entries; `TypeCorrect == Spec => []TypeOK`, one lemma per action; `ElectionInvariant`,
  and from it `SpeaksAfterWriting`, `VotesSurvive`, `EpochsSurvive` and `ElectionSafety`
  (`OneLeaderPerEpoch`); then `EntryIdentityHolds`, `OnlyFollowersCopyHolds`,
  `CommitBackedHolds`, `OkBackedHolds` and `ClientsTrackedHolds`.

The safety properties of elections are not inductive alone: a vote in `msgs` was in `todo` before,
and before that only in the voter's memory. `ElectionInv` follows it on its way:

- `DiskBehind`: the file is never ahead of memory, and while nothing waits to be
  persisted they agree;
- `SendsOwn`: what a voter is about to send carries its id and its epoch, grants the vote
  it has in memory, and announces a leadership it has;
- `WriteAhead`: what it has sent carries an epoch it has on disk;
- `VotesKept`: a vote that was sent is held in memory and on disk, until a later epoch or
  an erasure;
- `VotesCounted`: whoever a candidate or leader counts has sent it a vote, or is itself,
  and a leader counts a majority;
- `AnnouncedBacked`: whoever announced an epoch had a majority's votes in it;
- `OneVote`: the votes of one voter in one epoch go to one candidate, unless erased.

Two leaders of an epoch have two majorities; these share a voter (counted with the
cardinality theorems on finite sets), whose two votes go to one candidate.

Next has 21 actions, but they disturb the invariant in six ways only. The proof
sorts them into `Handles` (an event changes memory and fills `todo`), `Persists`,
`Logs`, `Flushes`, `Speaks` (a send outside `todo`) and `Restarts`; each action is shown to be of its kind, and the invariant
is shown to survive each kind.

`ReplicationInv` adds to it what entries are made of. `Created`: whoever made an entry
won its epoch, which is a majority pledged to it for good, unless erased. `Fresh`: a leader
gives its next entry an offset that no entry of its epoch has, wherever one may be (in a
log, in a `todo`, in a response on its way). `Identified` is the property. `WorkShape` says
that a candidate has nothing to append and a leader at most one entry; without it a
candidate could append under an epoch it has not won. `OkBacked` and `CommitBacked` rest on
`OffsetsAsked` (a leader holds for another voter only an offset that voter asked for in a request that did not
diverge) and `AnswerInv` (a proposed value is at one offset wherever it is, and a
majority asked for what follows a value about to be confirmed).

### Partition

`PartitionProofs` proves most for `TruncatingSpec`, which allows a truncation to any offset at any time
on top of `Next`: every step of `RaftPartition` is one of its steps, so the results are
about both. Only the watermark and the acknowledgements are proved for `Spec`: after a
truncation a report of the longer log may still be in the channel, and lift the watermark over the log's end.

- `PartitionInv` is `TypeOK`, `Laid` (views are of files, in order, the last of the active
  one) and `Ends` (file, snapshot and what is being written end where the history does).
  `NothingForgotten` follows.
- `Backed` (no replica has reported less than the watermark), `Told` (what the actor has been or will be
  told of a replica is within the log, or was dropped by a stop) and `Owed` (the
  acknowledgements still owed, in order, above the watermark) carry `WatermarkInLog`,
  `WatermarkMonotone` and `AcksWaitAboveWatermark`.
- `FetchFindsRecord` needs `Sound`, of three parts that hold until a batch is overwritten.
  `OnDisk`: in each file the batches follow one another from the file's base offset; index
  entries lead to batches, but for a first one that `LogSegment::open` made up; each
  file reaches the next one; and where a file is the last one to start at or below an
  offset it has the record that history has there. Files may overlap, because a truncation
  keeps segments whole, hence the last clause. `Underway`: the append that is under way wrote the last
  batch of the active file. `Shown`: views show their files at full length, but for
  that batch. Rotation and truncation are one lemma: both cut files and history at
  an offset and start a file there (`CutOnDisk`).

What the operators of `Segment` compute is proved too. The binary search terminates and stops at an
entry at or below its target (`EntriesUpToFinds`); the walk from an entry arrives at the batch that
holds the target (`WalkFinds`: a farthest start from which it does not would come before
one from which it does); the cut batch begins at the target (`SegmentFinds`).

`ReaderProofs` proves the safety part of `ReadersSeeLog` (`ImplementsDelivery == Spec =>
AbstractLog!Safety`): each step is a step of `Delivery` under the refinement mapping, or a stutter.

- Whatever the search found, a fetch returns what the file holds from the requested offset on, one record
  after the other (`FetchRuns`), because `slice_from_offset` fails for an offset outside the first
  batch. `FetchFindsRecord` says that it returns something.
- What one file holds no other does: without truncations no file reaches into the next one
  (`Apart`). So what a fetch returns is what the history has there (`FetchFollows`), and
  `Delivered` is kept: a reader has the start of the history, and an answer on its way to it goes on
  from there, also when the connection breaks and the reader asks again.
- `Delivery` never takes a channel back that is lost, so damage must stay (`DamageStays`). That it does
  rests on `FirstIndexed`: while the actor runs, the first batch of a segment has its index entry before the
  next append, and an entry of such a segment does not look like the one `LogSegment::open` makes up.

`RaftPartitionProofs` is about the partition as the log of a voter. `ImplementsPartition`: its
steps are steps of `TruncatingSpec`, whose theorems therefore hold of it. The reads
of the trait read several segments, and `AnswersLikeVecLogHolds` says what they answer:

- Entries are single records, so a batch is at the position of its offset, and what a list of
  batches has to say is `Lists(s, a, b)`: the records of the history from `a` to `b`, one each.
- `PieceLists`: a segment as published lists the history from its base to where it ends. That is the
  next segment's base, unless a truncation left batches behind (`Leftovers`), which is the
  one state in which the answers are known to differ (finding 3). Pieces that
  meet add up (`FlattenLists`), so all of them are the log (`EverythingLists`), and those
  from the segment of an offset on are the rest of it (`ReadLists`).
- `KeptInterval`: of such a list, selecting by offset keeps an interval; that is `entries`, on the
  partition's side and on `VecLog`'s. `epoch_at` and `find_epoch_start` are the first
  element that fits on both sides. `SeenMet`: `last_epoch` ends with the epoch before the last change.

For these proofs `entries` and `last_epoch` are recursive functions over the list, not folds with an
operator as a parameter; the former shares `Kept` with `RaftLog`.

### Clients and broker

- `ConsumerProofs`: `ConsumerInv` says that a loop is at the mutex exactly while it is not asleep, that an exchange is on the
  connection exactly while a loop waits for it, and that an answer continues the committed offsets,
  also while some of its first partition has been handed over.
  From it `OwnAnswerHolds`, `EachRecordOnceHolds` and `ImplementsDelivery`: each step of the consumer is a
  step of `Delivery` under the refinement mapping, or a stutter.
- `BrokerProofs`: `BrokerInv` relates a command half done (`WorkLogged`, `WorkFits`), the log, the
  image, what was confirmed (`CreatedLogged`) and what clients hold (`ViewsKnown`,
  `HandlesKnown`). Writers are counted: the handles a process has published for a partition and the
  requests for its topic that have not led to an image yet (`Unmade`) are together at most as many
  as it was asked (`SpawnedAskedFor`). That needs that each command in the channel or under way is of a
  client of its own that waits for it (`CommandsWaitedFor`), so that each image uses up one request;
  the writers are among the published handles (`WritersBounded`).
  From it the theorems about the five safety properties of the run.
- `ProducerProofs`: `ProducerInv` keeps, for each partition, the line of records the broker has, those on
  their way and those collected, and which publishes they are of: each record in one place (`NoneTwice`),
  the publishes taken from the channel in their order (`Ordered`), none of them missing (`AllIn`).
  From it `NothingLostHolds`, `AtMostOnceHolds`, `KeyOrderHolds`.

### Only model-checked

- All liveness (`EveryAppendAnswered`, `EveryCreateAnswered`, `EveryPayloadSent`,
  `BothLoopsServed`, and `EveryRecord` in the two refinements): out of the prover's reach.
- The violations of section 4.

## 6. Not modelled

- Wire and record encodings (`network/src/protocol`, `proto`): sequential and
  stateless. The programs in `src/bin` and the configuration.
- The byte layout of batches and index entries; the time index, which is written and never
  read; torn writes of a batch, of an index entry or of the quorum-state file; the loss of
  data a process wrote before the operating system stopped (a crash is a crash of the process).
- A stop in the middle of the file deletions of one truncation.
- The accept loop, framing and frame errors of the socket server.
- Time: no property depends on how long a timeout is.

## 7. Plan

Done: the inventory, all components that keep state, the abstract specification of
reading with its two refinements, and the theorems of section 5.

1. Raft: what Ok means over three epochs, once pending proposals are rejected at every
   step-down. Leader completeness does not hold of the code as it is: votes can be erased, and
   a follower applies responses late, twice, and of older epochs, so one that
   reports a divergence may truncate what a majority has asked past since.
2. A truncation as several steps, once a stop between the deletions is meant to be survived.
3. The quorum as the broker's metadata log, once the server uses it.
