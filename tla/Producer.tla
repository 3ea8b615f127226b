----------------------------- MODULE Producer -----------------------------
(***************************************************************************)
(* The producer client (crates/producer): the Producer handle, the channel *)
(* to its ProducerActor task, the batching loop of that task, and the one  *)
(* connection to the broker, over which a produce request is written and   *)
(* its answer awaited before the loop goes on.                             *)
(*                                                                         *)
(* The size of a request is counted in records.  The task treats every     *)
(* error by unwrap: it panics, which closes the channel.                   *)
(***************************************************************************)
EXTENDS Integers, FiniteSets, SequencesExt

CONSTANTS
    Payloads,       \* what the application publishes, each at most once
    TopicOf,        \* the topic of each payload
    KeyOf,          \* its key, or Nil
    Topics,         \* the topics of the metadata the producer started with
    NumPartitions,  \* how many partitions each of them has
    Hash,           \* murmur2 of each key
    MaxBytes,       \* a batch of this many records is sent at once
    ChannelSize,    \* capacity of the command channel
    Nil

Keys == {KeyOf[p] : p \in Payloads} \ {Nil}
TopicPartition == Topics \X (0 .. NumPartitions - 1)

ASSUME PayloadAssumption == DOMAIN TopicOf = Payloads /\ DOMAIN KeyOf = Payloads
ASSUME HashAssumption == \A k \in Keys : Hash[k] \in Nat
ASSUME SizeAssumption == {NumPartitions, MaxBytes, ChannelSize} \subseteq Nat \ {0}
ASSUME NilAssumption ==
    Nil \notin {"Sync", "MaxBytes", "Timer", "Shutdown", "ok", "ChanClosed", "UnknownErr"}

VARIABLES
    queue,          \* commands in the channel
    batch,          \* the records collected for each partition
    timerActive,    \* timer_active
    request,        \* what the broker has still to append of the last request
    awaiting,       \* the arm of the loop that awaits its answer, or Nil
    task,           \* the batcher: running, done, or panicked
    handle,         \* the Producer: open, shut down, or dropped
    result,         \* what shutdown returned, or Nil
    connected,      \* whether the connection still works
    accepted,       \* history: the publishes that returned Ok, in order
    rejected,       \* history: the payloads whose publish returned ClientErr
    logs            \* the broker's log of each partition

actorVars == <<batch, timerActive, request, awaiting, task>>
clientVars == <<handle, result, accepted, rejected>>
vars == <<queue, actorVars, clientVars, connected, logs>>

-----------------------------------------------------------------------------
Command == [cmd : {"Sync", "Async"}, payload : Payloads] \union [cmd : {"Shutdown"}]
Records == [TopicPartition -> Seq(Payloads)]
NoRecords == [tp \in TopicPartition |-> <<>>]

TypeOK ==
    /\ queue \in Seq(Command) /\ Len(queue) <= ChannelSize
    /\ {batch, request, logs} \subseteq Records
    /\ {timerActive, connected} \subseteq BOOLEAN
    /\ awaiting \in {Nil, "Sync", "MaxBytes", "Timer", "Shutdown"}
    /\ task \in {"running", "done", "panicked"}
    /\ handle \in {"open", "shutdown", "dropped"}
    /\ result \in {Nil, "ok", "ChanClosed", "UnknownErr"}
    /\ accepted \in Seq([cmd : {"Sync", "Async"}, payload : Payloads])
    /\ rejected \in SUBSET Payloads

\* Producer::new: connected, metadata received, nothing sent.
Init ==
    /\ queue = <<>>
    /\ batch = NoRecords
    /\ timerActive = FALSE
    /\ request = NoRecords
    /\ awaiting = Nil
    /\ task = "running"
    /\ handle = "open"
    /\ result = Nil
    /\ connected = TRUE
    /\ accepted = <<>>
    /\ rejected = {}
    /\ logs = NoRecords

-----------------------------------------------------------------------------
(* Producer *)

\* (Mutant: the channel is unbounded.)
HasRoom_Always == TRUE

\* The channel has a place for one more command.
HasRoom == Len(queue) < ChannelSize

Published == {c.payload : c \in ToSet(accepted)} \union rejected

\* publish_once (Sync) and publish_async (Async): wait for a place in the
\* channel; ClientErr when the task is gone.
Publish(cmd, p) ==
    LET command == [cmd |-> cmd, payload |-> p] IN
    /\ handle = "open"
    /\ p \notin Published
    /\ IF task = "running"
       THEN /\ HasRoom
            /\ queue' = Append(queue, command)
            /\ accepted' = Append(accepted, command)
            /\ UNCHANGED rejected
       ELSE /\ rejected' = rejected \union {p}
            /\ UNCHANGED <<queue, accepted>>
    /\ UNCHANGED <<actorVars, handle, result, connected, logs>>

\* shutdown, first half: it consumes the handle, so nothing follows it.
Shutdown ==
    /\ handle = "open"
    /\ handle' = "shutdown"
    /\ IF task = "running"
       THEN /\ HasRoom
            /\ queue' = Append(queue, [cmd |-> "Shutdown"])
            /\ UNCHANGED result
       ELSE result' = "UnknownErr" /\ UNCHANGED queue
    /\ UNCHANGED <<actorVars, connected, accepted, rejected, logs>>

\* shutdown, second half: join the task.
Join ==
    /\ handle = "shutdown"
    /\ result = Nil
    /\ task # "running"
    /\ result' = IF task = "done" THEN "ok" ELSE "ChanClosed"
    /\ UNCHANGED <<queue, actorVars, handle, connected, accepted, rejected, logs>>

\* The application drops the handle without a shutdown: recv ends with None
\* once the channel is empty.
Drop ==
    /\ handle = "open"
    /\ handle' = "dropped"
    /\ UNCHANGED <<queue, actorVars, result, connected, accepted, rejected, logs>>

-----------------------------------------------------------------------------
(* ProducerActor::batcher *)

IsEmpty(records) == records = NoRecords

\* The number of records the size of a request stands for.
Size(records) == SumFunction([tp \in TopicPartition |-> Len(records[tp])])

\* (Mutant: every record goes to a random partition.)
Indexes_Random(p) == 0 .. NumPartitions - 1

\* calculate_index: the hash of the key, or a random partition.
Indexes(p) ==
    IF KeyOf[p] = Nil THEN 0 .. NumPartitions - 1 ELSE {Hash[KeyOf[p]] % NumPartitions}

Receive(cmd) ==
    task = "running" /\ awaiting = Nil /\ queue # <<>> /\ Head(queue).cmd = cmd

Panic == task' = "panicked" /\ queue' = <<>>

\* publish, publish_raw: write the request and await the answer.  A write to a
\* broken connection fails, here or when the answer is read.  rest is what the
\* channel holds meanwhile.
Send(records, arm, rest) ==
    IF connected
    THEN request' = records /\ awaiting' = arm /\ queue' = rest /\ UNCHANGED task
    ELSE Panic /\ UNCHANGED <<request, awaiting>>

\* Sync: publish_once sends the record alone, ahead of what is collected.
HandleSync ==
    LET p == Head(queue).payload IN
    /\ Receive("Sync")
    /\ TopicOf[p] \in Topics
    /\ \E i \in Indexes(p) :
          Send([NoRecords EXCEPT ![<<TopicOf[p], i>>] = <<p>>], "Sync", Tail(queue))
    /\ UNCHANGED <<batch, timerActive, clientVars, connected, logs>>

\* A payload for a topic the metadata does not name: unwrap panics.
HandleUnknownTopic ==
    /\ Receive("Sync") \/ Receive("Async")
    /\ TopicOf[Head(queue).payload] \notin Topics
    /\ Panic
    /\ UNCHANGED <<batch, timerActive, request, awaiting, clientVars, connected, logs>>

\* (Mutant: collecting a record does not start the timer.)
Armed_Never(collected) == timerActive

\* Collecting a record starts the timer unless it runs already.
Armed(collected) == timerActive \/ ~ IsEmpty(collected)

\* Async: collect the record; a batch that has reached max_bytes is sent.
HandleAsync ==
    LET p == Head(queue).payload IN
    /\ Receive("Async")
    /\ TopicOf[p] \in Topics
    /\ \E i \in Indexes(p) :
          LET collected == [batch EXCEPT ![<<TopicOf[p], i>>] = Append(@, p)]
          IN  /\ batch' = collected
              /\ timerActive' = Armed(collected)
              /\ IF Size(collected) >= MaxBytes
                 THEN Send(collected, "MaxBytes", Tail(queue))
                 ELSE /\ queue' = Tail(queue)
                      /\ UNCHANGED <<request, awaiting, task>>
    /\ UNCHANGED <<clientVars, connected, logs>>

\* (Mutant: what is collected is not sent.)
ShutdownFlushes_Never == FALSE

ShutdownFlushes == ~ IsEmpty(batch)

\* Shutdown: send what is collected, then return.
HandleShutdown ==
    /\ Receive("Shutdown")
    /\ IF ShutdownFlushes
       THEN batch' = NoRecords /\ Send(batch, "Shutdown", <<>>)
       ELSE task' = "done" /\ queue' = <<>> /\ UNCHANGED <<batch, request, awaiting>>
    /\ UNCHANGED <<timerActive, clientVars, connected, logs>>

TimerEnabled == timerActive /\ ~ IsEmpty(batch)

\* The arm of the timer: it may elapse whenever it is armed.
TimerFires ==
    /\ task = "running" /\ awaiting = Nil
    /\ TimerEnabled
    /\ batch' = NoRecords
    /\ Send(batch, "Timer", queue)
    /\ UNCHANGED <<timerActive, clientVars, connected, logs>>

\* Neither arm of the select can ever complete: tokio panics.
AllBranchesDisabled ==
    /\ task = "running" /\ awaiting = Nil
    /\ handle = "dropped" /\ queue = <<>>
    /\ ~ TimerEnabled
    /\ Panic
    /\ UNCHANGED <<batch, timerActive, request, awaiting, clientVars, connected, logs>>

\* (Mutant: a batch sent for its size stays collected.)
BatchAfter_Kept == batch

\* After the answer of a request sent for its size the batch is empty.
BatchAfter == IF awaiting = "MaxBytes" THEN NoRecords ELSE batch

\* publish_raw returns: the answer is in.  Its error codes are not looked at.
HandleResponse ==
    /\ task = "running" /\ awaiting # Nil
    /\ connected
    /\ IsEmpty(request)
    /\ awaiting' = Nil
    /\ batch' = BatchAfter
    /\ timerActive' = (timerActive /\ awaiting \notin {"MaxBytes", "Timer"})
    /\ task' = IF awaiting = "Shutdown" THEN "done" ELSE task
    /\ UNCHANGED <<queue, request, clientVars, connected, logs>>

\* publish_raw fails: the answer never comes.
HandleIoErr ==
    /\ task = "running" /\ awaiting # Nil
    /\ ~ connected
    /\ Panic
    /\ UNCHANGED <<batch, timerActive, request, awaiting, clientVars, connected, logs>>

-----------------------------------------------------------------------------
(* The broker and the network, external to the client. *)

\* handle_produce appends the records of one partition after the other, in any
\* order, also when the producer is gone.  (It knows every partition of a request:
\* the producer was told of them on this connection, and KnownStaysKnown of Broker
\* says that the broker finds them from then on, so that the answer
\* UnknownTopicOrPartition cannot be given here.)
BrokerAppends(tp) ==
    /\ request[tp] # <<>>
    /\ logs' = [logs EXCEPT ![tp] = @ \o request[tp]]
    /\ request' = [request EXCEPT ![tp] = <<>>]
    /\ UNCHANGED <<queue, batch, timerActive, awaiting, task, clientVars, connected>>

ConnectionLost ==
    /\ connected
    /\ connected' = FALSE
    /\ UNCHANGED <<queue, actorVars, clientVars, logs>>

-----------------------------------------------------------------------------
Batcher ==
    \/ HandleSync \/ HandleUnknownTopic \/ HandleAsync \/ HandleShutdown
    \/ AllBranchesDisabled \/ HandleResponse \/ HandleIoErr

Next ==
    \/ \E p \in Payloads, cmd \in {"Sync", "Async"} : Publish(cmd, p)
    \/ Shutdown \/ Join \/ Drop
    \/ Batcher
    \/ TimerFires
    \/ \E tp \in TopicPartition : BrokerAppends(tp)
    \/ ConnectionLost

Spec == Init /\ [][Next]_vars

=============================================================================
