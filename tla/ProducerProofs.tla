--------------------------- MODULE ProducerProofs ---------------------------
(***************************************************************************)
(* Theorems about the producer client, for any payloads, topics, keys and  *)
(* hashes, and any sizes of a batch and of the channel.                    *)
(***************************************************************************)
EXTENDS ProducerProperties, SequenceTheorems, TLAPS

-----------------------------------------------------------------------------
(* The inductive invariant *)

\* The channel of a running task holds the Shutdown command, its last one.
ShutdownSent == task = "running" /\ handle = "shutdown" /\ awaiting # "Shutdown"

\* How many publishes the task has not taken from the channel, and has taken.
Pending == IF ShutdownSent THEN Len(queue) - 1 ELSE Len(queue)
Taken == Len(accepted) - Pending

\* No payload is published twice.
Distinct(publishes) ==
    \A i, j \in DOMAIN publishes : publishes[i].payload = publishes[j].payload => i = j

\* The channel holds the publishes accepted last, in order.
QueueFits ==
    /\ Taken \in 0 .. Len(accepted)
    /\ \A i \in 1 .. Pending : queue[i] = accepted[Taken + i]
    /\ ShutdownSent => queue # <<>> /\ queue[Len(queue)].cmd = "Shutdown"
    /\ task # "running" => queue = <<>>
    /\ Distinct(accepted)

\* A request is on its way only while its answer is awaited, and a batch was
\* emptied for it, but for one sent for its size.  A collected record has armed
\* the timer.
RequestFits ==
    /\ task = "running" /\ awaiting = Nil => request = NoRecords
    /\ awaiting \in {"Timer", "Shutdown"} => batch = NoRecords
    /\ task = "running" /\ awaiting # "MaxBytes" /\ batch # NoRecords => timerActive
    /\ awaiting = "Shutdown" => handle = "shutdown" /\ queue = <<>>
    /\ task = "done" => batch = NoRecords /\ request = NoRecords

\* The records of a partition in the order of their offsets: those the broker
\* has appended, those it was sent, and those collected for the next request.
Collected == IF awaiting = "MaxBytes" THEN NoRecords ELSE batch
LineOf(appended, sent, collected) ==
    [tp \in TopicPartition |-> (appended[tp] \o sent[tp]) \o collected[tp]]
Line == LineOf(logs, request, Collected)

\* A record of the line is of one of the first n publishes, and stands in the
\* partition its publish names.
Placed(publishes, n, records) ==
    \A tp \in TopicPartition : \A i \in DOMAIN records[tp] :
        /\ \E k \in 1 .. n : publishes[k].payload = records[tp][i]
        /\ TopicOf[records[tp][i]] = tp[1] /\ tp[2] \in Indexes(records[tp][i])

LineFits(publishes, n, records) ==
    Placed(publishes, n, records) /\ NoneTwice(records) /\ Ordered(publishes, records)

\* The first n publishes have their records in the line.
AllIn(publishes, n, records) == \A k \in 1 .. n : StandsIn(publishes[k].payload, records)

ProducerInv ==
    /\ TypeOK
    /\ QueueFits
    /\ RequestFits
    /\ LineFits(accepted, Taken, Line)
    /\ task = "running" => AllIn(accepted, Taken, Line)
    /\ NothingLost

-----------------------------------------------------------------------------
(* Type correctness *)

\* The partitions a payload may go to are partitions.
LEMMA IndexType ==
    ASSUME NEW p \in Payloads, TopicOf[p] \in Topics, NEW i \in Indexes(p)
    PROVE  <<TopicOf[p], i>> \in TopicPartition
<1>1. NumPartitions \in Nat \ {0}
  BY SizeAssumption
<1>2. i \in 0 .. NumPartitions - 1
  <2>1. CASE KeyOf[p] = Nil
    BY <2>1 DEF Indexes
  <2>2. CASE KeyOf[p] # Nil
    <3>1. Hash[KeyOf[p]] \in Nat
      BY <2>2, HashAssumption DEF Keys
    <3>2. i = Hash[KeyOf[p]] % NumPartitions
      BY <2>2 DEF Indexes
    <3> QED BY <1>1, <3>1, <3>2
  <2> QED BY <2>1, <2>2
<1> QED BY <1>2 DEF TopicPartition

\* What the records of a request may be.
LEMMA RecordsType ==
    /\ NoRecords \in Records
    /\ \A tp \in TopicPartition : NoRecords[tp] = <<>>
    /\ \A tp \in TopicPartition, p \in Payloads : [NoRecords EXCEPT ![tp] = <<p>>] \in Records
    /\ \A r \in Records, tp \in TopicPartition, p \in Payloads :
          [r EXCEPT ![tp] = Append(@, p)] \in Records
<1>1. NoRecords \in Records /\ \A tp \in TopicPartition : NoRecords[tp] = <<>>
  BY DEF NoRecords, Records
<1>2. \A p \in Payloads : <<p>> \in Seq(Payloads)
  OBVIOUS
<1>3. ASSUME NEW r \in Records, NEW tp \in TopicPartition, NEW p \in Payloads
      PROVE  [r EXCEPT ![tp] = Append(@, p)] \in Records
  <2>1. Append(r[tp], p) \in Seq(Payloads)
    BY DEF Records
  <2> QED BY <2>1 DEF Records
<1> QED BY <1>1, <1>2, <1>3 DEF Records

\* The head of the channel, when it is a publish.
LEMMA HeadType ==
    ASSUME TypeOK, Receive("Sync") \/ Receive("Async")
    PROVE  Head(queue).payload \in Payloads /\ Tail(queue) \in Seq(Command)
           /\ Len(Tail(queue)) = Len(queue) - 1
<1>1. queue # <<>> /\ queue \in Seq(Command) /\ Head(queue).cmd # "Shutdown"
  BY DEF Receive, TypeOK
<1>2. Head(queue) \in Command
  BY <1>1
<1> QED BY <1>1, <1>2, HeadTailProperties DEF Command

\* What Send leaves of the request, the awaiting arm and the task.
LEMMA SendType ==
    ASSUME TypeOK, NEW records \in Records, NEW arm \in {"Sync", "MaxBytes", "Timer", "Shutdown"},
           NEW rest \in Seq(Command), Len(rest) <= ChannelSize, Send(records, arm, rest)
    PROVE  /\ request' \in Records
           /\ awaiting' \in {Nil, "Sync", "MaxBytes", "Timer", "Shutdown"}
           /\ task' \in {"running", "done", "panicked"}
           /\ queue' \in Seq(Command) /\ Len(queue') <= ChannelSize
<1>1. CASE connected
  <2>1. request' \in Records /\ queue' \in Seq(Command) /\ Len(queue') <= ChannelSize
    BY <1>1 DEF Send
  <2>2. awaiting' = arm /\ task' = task
    BY <1>1 DEF Send
  <2> QED BY <2>1, <2>2 DEF TypeOK
<1>2. CASE ~ connected
  <2>1. request' = request /\ queue' = <<>> /\ awaiting' = awaiting /\ task' = "panicked"
    BY <1>2 DEF Send, Panic
  <2>2. <<>> \in Seq(Command) /\ Len(<<>>) <= ChannelSize
    BY SizeAssumption
  <2> QED BY <2>1, <2>2 DEF TypeOK
<1> QED BY <1>1, <1>2

LEMMA TypeInit == Init => TypeOK
<1> SUFFICES ASSUME Init PROVE TypeOK
  OBVIOUS
<1>1. queue \in Seq(Command) /\ Len(queue) <= ChannelSize
  BY SizeAssumption DEF Init
<1>2. accepted \in Seq([cmd : {"Sync", "Async"}, payload : Payloads])
  BY DEF Init
<1> QED BY <1>1, <1>2, RecordsType DEF Init, TypeOK

\* The operations of the handle.
LEMMA TypeClient ==
    ASSUME TypeOK, \/ \E p \in Payloads, cmd \in {"Sync", "Async"} : Publish(cmd, p)
                   \/ Shutdown \/ Join \/ Drop
    PROVE  TypeOK'
<1>0. ChannelSize \in Nat /\ Len(queue) \in Nat
  BY SizeAssumption DEF TypeOK
<1>1. ASSUME NEW p \in Payloads, NEW cmd \in {"Sync", "Async"}, Publish(cmd, p) PROVE TypeOK'
  <2> DEFINE command == [cmd |-> cmd, payload |-> p]
  <2>1. /\ command \in Command
        /\ command \in [cmd : {"Sync", "Async"}, payload : Payloads]
    BY DEF Command
  <2>2. \/ queue' = queue /\ accepted' = accepted
        \/ queue' = Append(queue, command) /\ accepted' = Append(accepted, command)
           /\ Len(queue) < ChannelSize
    BY <1>1 DEF Publish, HasRoom
  <2>3. queue' \in Seq(Command) /\ Len(queue') <= ChannelSize
    <3> HIDE DEF command
    <3>1. queue \in Seq(Command) /\ Len(queue) <= ChannelSize
      BY DEF TypeOK
    <3>2. CASE queue' = Append(queue, command) /\ Len(queue) < ChannelSize
      BY <1>0, <2>1, <3>1, <3>2, AppendProperties
    <3> QED BY <2>2, <3>1, <3>2
  <2>4. accepted' \in Seq([cmd : {"Sync", "Async"}, payload : Payloads])
    <3> DEFINE Publishes == [cmd : {"Sync", "Async"}, payload : Payloads]
    <3>1. accepted \in Seq(Publishes) /\ command \in Publishes
      BY <2>1 DEF TypeOK
    <3> HIDE DEF command, Publishes
    <3>2. accepted' \in Seq(Publishes)
      BY <2>2, <3>1, AppendProperties
    <3> QED BY <3>2 DEF Publishes
  <2>5. rejected' \in SUBSET Payloads
    BY <1>1 DEF Publish, TypeOK
  <2> QED BY <1>1, <2>3, <2>4, <2>5 DEF Publish, TypeOK, actorVars
<1>2. ASSUME Shutdown PROVE TypeOK'
  <2>1. [cmd |-> "Shutdown"] \in Command
    BY DEF Command
  <2>2. \/ queue' = queue
        \/ queue' = Append(queue, [cmd |-> "Shutdown"]) /\ Len(queue) < ChannelSize
    BY <1>2 DEF Shutdown, HasRoom
  <2>3. queue' \in Seq(Command) /\ Len(queue') <= ChannelSize
    BY <1>0, <2>1, <2>2, AppendProperties DEF TypeOK
  <2>4. result' \in {Nil, "ok", "ChanClosed", "UnknownErr"} /\ handle' = "shutdown"
    BY <1>2 DEF Shutdown, TypeOK
  <2> QED BY <1>2, <2>3, <2>4 DEF Shutdown, TypeOK, actorVars
<1>3. ASSUME Join \/ Drop PROVE TypeOK'
  BY <1>3 DEF Join, Drop, TypeOK, actorVars
<1> QED BY <1>1, <1>2, <1>3

\* The arms of the loop.
LEMMA TypeBatcher ==
    ASSUME TypeOK, Batcher \/ TimerFires PROVE TypeOK'
<1>0. /\ ChannelSize \in Nat \ {0} /\ Len(queue) \in Nat /\ Len(queue) <= ChannelSize
      /\ queue \in Seq(Command) /\ <<>> \in Seq(Command) /\ Len(<<>>) = 0
      /\ batch \in Records /\ request \in Records /\ logs \in Records
  BY SizeAssumption DEF TypeOK
<1>1. ASSUME HandleSync PROVE TypeOK'
  <2>1. /\ Head(queue).payload \in Payloads /\ Tail(queue) \in Seq(Command)
        /\ Len(Tail(queue)) <= ChannelSize
    BY <1>0, <1>1, HeadType DEF HandleSync
  <2>2. PICK i \in Indexes(Head(queue).payload) :
           Send([NoRecords EXCEPT ![<<TopicOf[Head(queue).payload], i>>] = <<Head(queue).payload>>],
                "Sync", Tail(queue))
    BY <1>1 DEF HandleSync
  <2>3. [NoRecords EXCEPT ![<<TopicOf[Head(queue).payload], i>>] = <<Head(queue).payload>>] \in Records
    BY <1>1, <2>1, IndexType, RecordsType DEF HandleSync
  <2>4. /\ request' \in Records
        /\ awaiting' \in {Nil, "Sync", "MaxBytes", "Timer", "Shutdown"}
        /\ task' \in {"running", "done", "panicked"}
        /\ queue' \in Seq(Command) /\ Len(queue') <= ChannelSize
    BY <2>1, <2>2, <2>3, SendType
  <2> QED BY <1>1, <2>4 DEF HandleSync, TypeOK, clientVars
<1>2. ASSUME HandleUnknownTopic PROVE TypeOK'
  BY <1>0, <1>2 DEF HandleUnknownTopic, Panic, TypeOK, clientVars
<1>3. ASSUME HandleAsync PROVE TypeOK'
  <2> DEFINE p == Head(queue).payload
             collected(i) == [batch EXCEPT ![<<TopicOf[p], i>>] = Append(@, p)]
  <2>1. p \in Payloads /\ Tail(queue) \in Seq(Command) /\ Len(Tail(queue)) <= ChannelSize
    BY <1>0, <1>3, HeadType DEF HandleAsync
  <2>2. PICK i \in Indexes(p) :
           /\ batch' = collected(i)
           /\ timerActive' = Armed(collected(i))
           /\ IF Size(collected(i)) >= MaxBytes
              THEN Send(collected(i), "MaxBytes", Tail(queue))
              ELSE queue' = Tail(queue) /\ UNCHANGED <<request, awaiting, task>>
    BY <1>3, Zenon DEF HandleAsync
  <2>3. collected(i) \in Records
    BY <1>0, <1>3, <2>1, IndexType, RecordsType DEF HandleAsync
  <2>4. timerActive' \in BOOLEAN
    BY <2>2, Zenon DEF Armed, TypeOK
  <2>5. /\ request' \in Records
        /\ awaiting' \in {Nil, "Sync", "MaxBytes", "Timer", "Shutdown"}
        /\ task' \in {"running", "done", "panicked"}
        /\ queue' \in Seq(Command) /\ Len(queue') <= ChannelSize
    <3> HIDE DEF p, collected
    <3>1. CASE Send(collected(i), "MaxBytes", Tail(queue))
      BY <2>1, <2>3, <3>1, SendType
    <3>2. CASE queue' = Tail(queue) /\ UNCHANGED <<request, awaiting, task>>
      BY <2>1, <3>2 DEF TypeOK
    <3>3. \/ Send(collected(i), "MaxBytes", Tail(queue))
          \/ queue' = Tail(queue) /\ UNCHANGED <<request, awaiting, task>>
      BY <2>2, Zenon
    <3> QED BY <3>1, <3>2, <3>3
  <2>6. batch' \in Records
    BY <2>2, <2>3
  <2> HIDE DEF p, collected
  <2> QED BY <1>3, <2>4, <2>5, <2>6 DEF HandleAsync, TypeOK, clientVars
<1>4. ASSUME HandleShutdown PROVE TypeOK'
  <2>1. CASE ShutdownFlushes
    <3>1. Send(batch, "Shutdown", <<>>) /\ batch' = NoRecords
      BY <1>4, <2>1 DEF HandleShutdown
    <3>2. /\ request' \in Records
          /\ awaiting' \in {Nil, "Sync", "MaxBytes", "Timer", "Shutdown"}
          /\ task' \in {"running", "done", "panicked"}
          /\ queue' \in Seq(Command) /\ Len(queue') <= ChannelSize
      <4>1. Len(<<>>) <= ChannelSize
        BY <1>0
      <4> QED BY <1>0, <3>1, <4>1, SendType, Zenon
    <3> QED BY <1>4, <3>1, <3>2, RecordsType DEF HandleShutdown, TypeOK, clientVars
  <2>2. CASE ~ ShutdownFlushes
    BY <1>0, <1>4, <2>2 DEF HandleShutdown, TypeOK, clientVars
  <2> QED BY <2>1, <2>2
<1>5. ASSUME AllBranchesDisabled PROVE TypeOK'
  BY <1>0, <1>5 DEF AllBranchesDisabled, Panic, TypeOK, clientVars
<1>6. ASSUME HandleResponse PROVE TypeOK'
  <2>1. batch' \in Records
    BY <1>0, <1>6, RecordsType DEF HandleResponse, BatchAfter
  <2>2. timerActive' \in BOOLEAN
    BY <1>6, Zenon DEF HandleResponse, TypeOK
  <2>3. task' \in {"running", "done", "panicked"} /\ awaiting' = Nil
    BY <1>6 DEF HandleResponse, TypeOK
  <2> QED BY <1>6, <2>1, <2>2, <2>3 DEF HandleResponse, TypeOK, clientVars
<1>7. ASSUME HandleIoErr PROVE TypeOK'
  BY <1>0, <1>7 DEF HandleIoErr, Panic, TypeOK, clientVars
<1>8. ASSUME TimerFires PROVE TypeOK'
  <2>1. Send(batch, "Timer", queue) /\ batch' = NoRecords
    BY <1>8 DEF TimerFires
  <2>2. /\ request' \in Records
        /\ awaiting' \in {Nil, "Sync", "MaxBytes", "Timer", "Shutdown"}
        /\ task' \in {"running", "done", "panicked"}
        /\ queue' \in Seq(Command) /\ Len(queue') <= ChannelSize
    BY <1>0, <2>1, SendType
  <2> QED BY <1>8, <2>1, <2>2, RecordsType DEF TimerFires, TypeOK, clientVars
<1> QED BY <1>1, <1>2, <1>3, <1>4, <1>5, <1>6, <1>7, <1>8 DEF Batcher

LEMMA TypeNext == TypeOK /\ [Next]_vars => TypeOK'
<1> SUFFICES ASSUME TypeOK, [Next]_vars PROVE TypeOK'
  OBVIOUS
<1>1. ASSUME NEW tp \in TopicPartition, BrokerAppends(tp) PROVE TypeOK'
  <2>1. /\ logs \in Records /\ request \in Records
        /\ logs' = [logs EXCEPT ![tp] = @ \o request[tp]]
        /\ request' = [request EXCEPT ![tp] = <<>>]
    BY <1>1 DEF BrokerAppends, TypeOK
  <2>2. logs[tp] \o request[tp] \in Seq(Payloads) /\ <<>> \in Seq(Payloads)
    BY <2>1 DEF Records
  <2>3. logs' \in Records /\ request' \in Records
    BY <2>1, <2>2 DEF Records
  <2> QED BY <1>1, <2>3 DEF BrokerAppends, TypeOK, clientVars
<1>2. ASSUME ConnectionLost PROVE TypeOK'
  BY <1>2 DEF ConnectionLost, TypeOK, actorVars, clientVars
<1>3. CASE UNCHANGED vars
  BY <1>3 DEF TypeOK, vars, actorVars, clientVars
<1> QED BY <1>1, <1>2, <1>3, TypeClient, TypeBatcher DEF Next

-----------------------------------------------------------------------------
(* The line of records *)

\* m is l with a record p more, at place n of partition tp.
Inserts(l, m, tp, n, p) ==
    /\ n \in 1 .. Len(l[tp]) + 1 /\ Len(m[tp]) = Len(l[tp]) + 1
    /\ \A i \in 1 .. n - 1 : m[tp][i] = l[tp][i]
    /\ m[tp][n] = p
    /\ \A i \in n .. Len(l[tp]) : m[tp][i + 1] = l[tp][i]
    /\ \A t \in TopicPartition : t # tp => m[t] = l[t]

\* Every partition of m is a part of that of l, from its first record on.
Begins(m, l) ==
    \A tp \in TopicPartition :
        /\ Len(m[tp]) <= Len(l[tp])
        /\ \A i \in 1 .. Len(m[tp]) : m[tp][i] = l[tp][i]

\* more is made of publishes and others after them.
Extends(more, publishes) ==
    /\ Len(publishes) <= Len(more)
    /\ \A i \in 1 .. Len(publishes) : more[i] = publishes[i]

Publishes == [cmd : {"Sync", "Async"}, payload : Payloads]

\* A line that fits goes on to fit when its tail is cut off and more is published.
LEMMA LineCut ==
    ASSUME NEW l \in Records, NEW m \in Records, Begins(m, l),
           NEW old \in Seq(Publishes), NEW new \in Seq(Publishes), Extends(new, old),
           Distinct(new), NEW k \in 0 .. Len(old), NEW n \in k .. Len(new),
           LineFits(old, k, l)
    PROVE  LineFits(new, n, m)
<1>1. \A tp \in TopicPartition :
         /\ DOMAIN l[tp] = 1 .. Len(l[tp]) /\ DOMAIN m[tp] = 1 .. Len(m[tp])
         /\ Len(l[tp]) \in Nat /\ Len(m[tp]) \in Nat
  BY DEF Records
<1>2. \A tp \in TopicPartition : \A i \in DOMAIN m[tp] : i \in DOMAIN l[tp] /\ m[tp][i] = l[tp][i]
  BY <1>1, SMTT(30) DEF Begins
<1>3. /\ DOMAIN old = 1 .. Len(old) /\ DOMAIN new = 1 .. Len(new)
      /\ Len(old) \in Nat /\ Len(new) \in Nat
  OBVIOUS
<1>4. Placed(new, n, m)
  <2> SUFFICES ASSUME NEW tp \in TopicPartition, NEW i \in DOMAIN m[tp]
               PROVE  /\ \E j \in 1 .. n : new[j].payload = m[tp][i]
                      /\ TopicOf[m[tp][i]] = tp[1] /\ tp[2] \in Indexes(m[tp][i])
    BY DEF Placed
  <2>1. /\ \E j \in 1 .. k : old[j].payload = m[tp][i]
        /\ TopicOf[m[tp][i]] = tp[1] /\ tp[2] \in Indexes(m[tp][i])
    BY <1>2 DEF LineFits, Placed
  <2>2. \A j \in 1 .. k : j \in 1 .. n /\ new[j] = old[j]
    BY <1>3 DEF Extends
  <2> QED BY <2>1, <2>2
<1>5. NoneTwice(m)
  BY <1>2 DEF LineFits, NoneTwice
<1>6. Ordered(new, m)
  <2> SUFFICES ASSUME NEW i \in DOMAIN new, NEW j \in DOMAIN new, i < j, InOrder(new[i], new[j]),
                      NEW tp \in TopicPartition, NEW b \in DOMAIN m[tp],
                      m[tp][b] = new[j].payload
               PROVE  \E a \in 1 .. b - 1 : m[tp][a] = new[i].payload
    BY DEF Ordered
  <2>1. PICK c \in 1 .. k : old[c].payload = m[tp][b]
    BY <1>2 DEF LineFits, Placed
  <2>2. c \in DOMAIN new /\ c \in DOMAIN old /\ new[c] = old[c]
    BY <1>3 DEF Extends
  <2>3. c = j
    BY <2>1, <2>2 DEF Distinct
  <2>4. i \in DOMAIN old /\ new[i] = old[i]
    BY <1>3, <2>2, <2>3 DEF Extends
  <2>5. b \in DOMAIN l[tp] /\ l[tp][b] = old[j].payload
    BY <1>2, <2>1, <2>3
  <2>6. PICK a \in 1 .. b - 1 : l[tp][a] = old[i].payload
    BY <2>2, <2>3, <2>4, <2>5 DEF LineFits, Ordered
  <2>7. m[tp][a] = l[tp][a]
    BY <1>1, <1>2, SMTT(30)
  <2> QED BY <2>4, <2>6, <2>7
<1> QED BY <1>4, <1>5, <1>6 DEF LineFits

\* A line that fits goes on to fit when the next publish is taken, and its record
\* is put at the end, or anywhere when it was published with publish_once.
LEMMA LineTakes ==
    ASSUME NEW l \in Records, NEW m \in Records, NEW tp \in TopicPartition,
           NEW n \in Nat, NEW acc \in Seq(Publishes), Distinct(acc),
           NEW k \in 0 .. Len(acc) - 1,
           Inserts(l, m, tp, n, acc[k + 1].payload),
           n = Len(l[tp]) + 1 \/ acc[k + 1].cmd = "Sync",
           TopicOf[acc[k + 1].payload] = tp[1], tp[2] \in Indexes(acc[k + 1].payload),
           LineFits(acc, k, l), AllIn(acc, k, l)
    PROVE  LineFits(acc, k + 1, m) /\ AllIn(acc, k + 1, m)
<1> DEFINE p == acc[k + 1].payload
<1>1. \A t \in TopicPartition :
         /\ DOMAIN l[t] = 1 .. Len(l[t]) /\ DOMAIN m[t] = 1 .. Len(m[t])
         /\ Len(l[t]) \in Nat /\ Len(m[t]) \in Nat
  BY DEF Records
<1>2. DOMAIN acc = 1 .. Len(acc) /\ Len(acc) \in Nat /\ k + 1 \in DOMAIN acc
  OBVIOUS
<1>0. n \in 1 .. Len(l[tp]) + 1 /\ Len(l[tp]) \in Nat
  BY <1>1 DEF Inserts
\* Where a record of m was in l, or that it is the new one.
<1>3. \A t \in TopicPartition : \A i \in DOMAIN m[t] :
         \/ t = tp /\ i = n /\ m[t][i] = p
         \/ t # tp /\ i \in DOMAIN l[t] /\ m[t][i] = l[t][i]
         \/ t = tp /\ i < n /\ i \in DOMAIN l[t] /\ m[t][i] = l[t][i]
         \/ t = tp /\ i > n /\ i - 1 \in DOMAIN l[t] /\ m[t][i] = l[t][i - 1]
  <2> SUFFICES ASSUME NEW t \in TopicPartition, NEW i \in DOMAIN m[t]
               PROVE  \/ t = tp /\ i = n /\ m[t][i] = p
                      \/ t # tp /\ i \in DOMAIN l[t] /\ m[t][i] = l[t][i]
                      \/ t = tp /\ i < n /\ i \in DOMAIN l[t] /\ m[t][i] = l[t][i]
                      \/ t = tp /\ i > n /\ i - 1 \in DOMAIN l[t] /\ m[t][i] = l[t][i - 1]
    OBVIOUS
  <2>1. CASE t # tp
    BY <2>1 DEF Inserts
  <2>2. CASE t = tp /\ i = n
    BY <2>2 DEF Inserts
  <2>3. CASE t = tp /\ i < n
    BY <1>1, <2>3, SMTT(30) DEF Inserts
  <2>4. CASE t = tp /\ i > n
    <3>1. i \in 1 .. Len(l[tp]) + 1 /\ Len(l[tp]) \in Nat
      BY <1>1, <2>4 DEF Inserts
    <3>2. i - 1 \in n .. Len(l[tp]) /\ i - 1 \in 1 .. Len(l[tp]) /\ i = (i - 1) + 1
      BY <1>0, <2>4, <3>1
    <3>3. m[tp][(i - 1) + 1] = l[tp][i - 1]
      BY <3>2 DEF Inserts
    <3>4. m[tp][i] = l[tp][i - 1]
      BY <3>2, <3>3
    <3> QED BY <1>1, <2>4, <3>2, <3>4
  <2> QED BY <1>1, <2>1, <2>2, <2>3, <2>4
<1>4. \A t \in TopicPartition : \A i \in DOMAIN l[t] :
         l[t][i] # p /\ \E c \in 1 .. k : acc[c].payload = l[t][i]
  <2> SUFFICES ASSUME NEW t \in TopicPartition, NEW i \in DOMAIN l[t]
               PROVE  l[t][i] # p /\ \E c \in 1 .. k : acc[c].payload = l[t][i]
    OBVIOUS
  <2>1. PICK c \in 1 .. k : acc[c].payload = l[t][i]
    BY DEF LineFits, Placed
  <2>2. c \in DOMAIN acc /\ c # k + 1
    BY <1>2
  <2> QED BY <1>2, <2>1, <2>2 DEF Distinct
<1>5. Placed(acc, k + 1, m)
  <2> SUFFICES ASSUME NEW t \in TopicPartition, NEW i \in DOMAIN m[t]
               PROVE  /\ \E c \in 1 .. k + 1 : acc[c].payload = m[t][i]
                      /\ TopicOf[m[t][i]] = t[1] /\ t[2] \in Indexes(m[t][i])
    BY DEF Placed
  <2>1. CASE t = tp /\ m[t][i] = p
    <3>1. k + 1 \in 1 .. k + 1
      OBVIOUS
    <3> QED BY <2>1, <3>1
  <2>2. ASSUME NEW j \in DOMAIN l[t], m[t][i] = l[t][j]
        PROVE  /\ \E c \in 1 .. k + 1 : acc[c].payload = m[t][i]
               /\ TopicOf[m[t][i]] = t[1] /\ t[2] \in Indexes(m[t][i])
    <3>1. \A c \in 1 .. k : c \in 1 .. k + 1
      OBVIOUS
    <3> QED BY <2>2, <3>1 DEF LineFits, Placed
  <2> HIDE DEF p
  <2> QED BY <1>3, <2>1, <2>2
<1>6. NoneTwice(m)
  <2> HIDE DEF p
  <2> SUFFICES ASSUME NEW r \in TopicPartition, NEW s \in TopicPartition,
                      NEW i \in DOMAIN m[r], NEW j \in DOMAIN m[s], m[r][i] = m[s][j]
               PROVE  r = s /\ i = j
    BY DEF NoneTwice
  <2>0. i \in Nat /\ j \in Nat
    BY <1>1, SMTT(30)
  <2>1. \A a \in DOMAIN l[r], b \in DOMAIN l[s] : l[r][a] = l[s][b] => r = s /\ a = b
    BY DEF LineFits, NoneTwice
  <2>2. \/ r = tp /\ i = n /\ m[r][i] = p
        \/ r # tp /\ i \in DOMAIN l[r] /\ m[r][i] = l[r][i]
        \/ r = tp /\ i < n /\ i \in DOMAIN l[r] /\ m[r][i] = l[r][i]
        \/ r = tp /\ i > n /\ i - 1 \in DOMAIN l[r] /\ m[r][i] = l[r][i - 1]
    BY <1>3
  <2>3. \/ s = tp /\ j = n /\ m[s][j] = p
        \/ s # tp /\ j \in DOMAIN l[s] /\ m[s][j] = l[s][j]
        \/ s = tp /\ j < n /\ j \in DOMAIN l[s] /\ m[s][j] = l[s][j]
        \/ s = tp /\ j > n /\ j - 1 \in DOMAIN l[s] /\ m[s][j] = l[s][j - 1]
    BY <1>3
  <2> QED BY <1>4, <2>0, <2>1, <2>2, <2>3
<1>7. \A t \in TopicPartition : \A i \in DOMAIN l[t] :
         \E c \in DOMAIN m[t] : m[t][c] = l[t][i] /\ (t = tp /\ i < n => c = i)
  <2> SUFFICES ASSUME NEW t \in TopicPartition, NEW i \in DOMAIN l[t]
               PROVE  \E c \in DOMAIN m[t] : m[t][c] = l[t][i] /\ (t = tp /\ i < n => c = i)
    OBVIOUS
  <2>1. CASE t # tp
    BY <2>1 DEF Inserts
  <2>2. CASE t = tp /\ i < n
    BY <1>1, <2>2 DEF Inserts
  <2>3. CASE t = tp /\ i >= n
    <3>1. i + 1 \in DOMAIN m[tp] /\ m[tp][i + 1] = l[tp][i] /\ ~ (i < n)
      BY <1>1, <2>3, SMTT(30) DEF Inserts
    <3> QED BY <2>3, <3>1
  <2> QED BY <1>1, <2>1, <2>2, <2>3
<1>8. AllIn(acc, k + 1, m)
  <2> SUFFICES ASSUME NEW c \in 1 .. k + 1 PROVE StandsIn(acc[c].payload, m)
    BY DEF AllIn
  <2>1. CASE c = k + 1
    <3>1. n \in DOMAIN m[tp] /\ m[tp][n] = p
      BY <1>1 DEF Inserts
    <3> QED BY <2>1, <3>1 DEF StandsIn
  <2>2. CASE c \in 1 .. k
    <3>1. StandsIn(acc[c].payload, l)
      BY <2>2 DEF AllIn
    <3>2. PICK t \in TopicPartition : \E i \in DOMAIN l[t] : l[t][i] = acc[c].payload
      BY <3>1 DEF StandsIn
    <3> QED BY <1>7, <3>2 DEF StandsIn
  <2> QED BY <2>1, <2>2
<1>9. Ordered(acc, m)
  <2> SUFFICES ASSUME NEW i \in DOMAIN acc, NEW j \in DOMAIN acc, i < j, InOrder(acc[i], acc[j]),
                      NEW t \in TopicPartition, NEW b \in DOMAIN m[t], m[t][b] = acc[j].payload
               PROVE  \E a \in 1 .. b - 1 : m[t][a] = acc[i].payload
    BY DEF Ordered
  <2>0. i \in Nat /\ j \in Nat /\ b \in Nat
    BY <1>1, <1>2
  <2>1. CASE m[t][b] = p /\ t = tp /\ b = n
    <3>1. j = k + 1
      BY <1>2, <2>1 DEF Distinct
    <3>2. n = Len(l[tp]) + 1 /\ i \in 1 .. k
      BY <1>2, <2>0, <3>1 DEF InOrder
    <3>3. StandsIn(acc[i].payload, l)
      BY <3>2 DEF AllIn
    <3>4. PICK s \in TopicPartition : \E c \in DOMAIN l[s] : l[s][c] = acc[i].payload
      BY <3>3 DEF StandsIn
    <3>5. PICK c \in DOMAIN l[s] : l[s][c] = acc[i].payload
      BY <3>4
    <3>6. TopicOf[acc[i].payload] = s[1] /\ s[2] \in Indexes(acc[i].payload)
      BY <3>5 DEF LineFits, Placed
    <3>7. s[1] = tp[1] /\ s[2] = tp[2]
      BY <3>1, <3>6 DEF InOrder, Indexes
    <3>8. s = tp
      BY <3>7 DEF TopicPartition
    <3>9. c \in 1 .. n - 1
      BY <1>1, <3>2, <3>5, <3>8, SMTT(30)
    <3>10. m[tp][c] = l[tp][c]
      BY <3>9 DEF Inserts
    <3> QED BY <2>1, <3>5, <3>8, <3>9, <3>10
  <2>2. ASSUME NEW d \in DOMAIN l[t], m[t][b] = l[t][d],
               \A c \in 1 .. d - 1 : \E a \in 1 .. b - 1 : m[t][a] = l[t][c]
        PROVE  \E a \in 1 .. b - 1 : m[t][a] = acc[i].payload
    <3>1. Ordered(acc, l) /\ l[t][d] = acc[j].payload
      BY <2>2 DEF LineFits
    <3>2. \E c \in 1 .. d - 1 : l[t][c] = acc[i].payload
      BY <3>1 DEF Ordered
    <3> QED BY <2>2, <3>2
  <2>3. CASE t # tp
    <3>1. b \in DOMAIN l[t] /\ m[t] = l[t]
      BY <2>3 DEF Inserts
    <3> QED BY <2>2, <3>1
  <2>4. CASE t = tp /\ b < n
    <3>0. b \in 1 .. Len(l[tp]) /\ b \in 1 .. n - 1
      BY <1>1, <1>0, <2>0, <2>4
    <3>1. b \in DOMAIN l[t] /\ b \in 1 .. n - 1 /\ \A c \in 1 .. b - 1 : c \in 1 .. n - 1
      BY <1>1, <1>0, <2>4, <3>0, SMTT(30)
    <3>2. m[t][b] = l[t][b] /\ \A c \in 1 .. b - 1 : m[t][c] = l[t][c]
      BY <2>4, <3>1 DEF Inserts
    <3> QED BY <2>2, <3>1, <3>2
  <2>5. CASE t = tp /\ b > n
    <3>1. b - 1 \in DOMAIN l[t] /\ m[t][b] = l[t][b - 1]
      BY <1>3, <2>0, <2>5
    <3>2. ASSUME NEW c \in 1 .. (b - 1) - 1
          PROVE  \E a \in 1 .. b - 1 : m[t][a] = l[t][c]
      <4>1. CASE c < n
        <5>1. c \in 1 .. b - 1 /\ c \in 1 .. n - 1
          BY <2>0, <4>1
        <5> QED BY <2>5, <5>1 DEF Inserts
      <4>2. CASE c >= n
        <5>1. c + 1 \in 1 .. b - 1 /\ c \in n .. Len(l[tp])
          BY <1>1, <2>0, <2>5, <3>1, <4>2
        <5> QED BY <2>5, <5>1 DEF Inserts
      <4> QED BY <4>1, <4>2
    <3> QED BY <2>2, <3>1, <3>2
  <2>6. t = tp /\ b = n => m[t][b] = p
    BY DEF Inserts
  <2> QED BY <2>0, <2>1, <2>3, <2>4, <2>5, <2>6
<1> QED BY <1>5, <1>6, <1>8, <1>9 DEF LineFits

-----------------------------------------------------------------------------
(* The channel *)

\* How much of what was accepted is still in the channel.
LEMMA TakenType ==
    ASSUME TypeOK, QueueFits
    PROVE  /\ Len(queue) \in Nat /\ Len(accepted) \in Nat
           /\ Pending \in Nat /\ Taken \in Nat /\ Taken + Pending = Len(accepted)
<1>1. Len(queue) \in Nat /\ Len(accepted) \in Nat /\ (queue # <<>> => Len(queue) > 0)
  BY EmptySeq DEF TypeOK
<1>2. Pending \in Nat
  BY <1>1 DEF QueueFits, Pending
<1> QED BY <1>1, <1>2 DEF Taken, QueueFits

\* What was accepted is a publish.
LEMMA AcceptedType ==
    ASSUME TypeOK, NEW i \in 1 .. Len(accepted)
    PROVE  accepted[i] \in Publishes /\ accepted[i].payload \in Payloads /\ accepted[i].cmd # "Shutdown"
<1>1. accepted \in Seq(Publishes)
  BY DEF TypeOK, Publishes
<1>2. accepted[i] \in Publishes
  BY <1>1, ElementOfSeq
<1> QED BY <1>2 DEF Publishes

LEMMA ChannelSame ==
    ASSUME TypeOK, QueueFits, UNCHANGED <<queue, task, accepted>>, ShutdownSent' <=> ShutdownSent
    PROVE  QueueFits' /\ Taken' = Taken
<1>1. Pending' = Pending
  BY DEF Pending
<1>2. Taken' = Taken
  BY <1>1 DEF Taken
<1> QED BY <1>1, <1>2 DEF QueueFits

LEMMA ChannelEmptied ==
    ASSUME TypeOK, QueueFits, accepted' = accepted, queue' = <<>>, ~ ShutdownSent'
    PROVE  QueueFits' /\ Taken' = Len(accepted)
<1>1. Pending' = 0
  BY DEF Pending
<1>2. Taken' = Len(accepted) /\ Len(accepted) \in Nat
  BY <1>1, TakenType DEF Taken
<1> QED BY <1>1, <1>2 DEF QueueFits, Distinct

\* The publish at the head of the channel is the next one of those accepted.
LEMMA HeadIsNext ==
    ASSUME TypeOK, QueueFits, Receive("Sync") \/ Receive("Async")
    PROVE  /\ Taken \in 0 .. Len(accepted) - 1
           /\ Head(queue) = accepted[Taken + 1]
           /\ Pending > 0
<1>1. queue # <<>> /\ Head(queue) = queue[1] /\ Len(queue) \in Nat \ {0}
  BY EmptySeq DEF Receive, TypeOK
<1>2. ShutdownSent => Len(queue) > 1
  <2> SUFFICES ASSUME ShutdownSent PROVE Len(queue) > 1
    OBVIOUS
  <2>1. queue[Len(queue)].cmd = "Shutdown" /\ queue[1].cmd # "Shutdown"
    BY <1>1 DEF QueueFits, Receive
  <2> QED BY <1>1, <2>1
<1>3. Pending > 0
  BY <1>1, <1>2 DEF Pending
<1>4. queue[1] = accepted[Taken + 1]
  BY <1>3, TakenType DEF QueueFits
<1> QED BY <1>1, <1>3, <1>4, TakenType

LEMMA ChannelTaken ==
    ASSUME TypeOK, QueueFits, Receive("Sync") \/ Receive("Async"),
           queue' = Tail(queue), UNCHANGED <<task, handle, accepted>>, awaiting' # "Shutdown"
    PROVE  QueueFits' /\ Taken' = Taken + 1
<1>1. ShutdownSent' <=> ShutdownSent
  BY NilAssumption DEF ShutdownSent, Receive
<1>2. /\ Tail(queue) \in Seq(Command) /\ Len(Tail(queue)) = Len(queue) - 1
      /\ \A i \in 1 .. Len(queue) - 1 : Tail(queue)[i] = queue[i + 1]
      /\ task = "running"
  BY HeadTailProperties DEF Receive, TypeOK
<1>3. Pending' = Pending - 1 /\ Pending > 0 /\ Pending \in Nat
  BY <1>1, <1>2, HeadIsNext, TakenType DEF Pending
<1>4. Taken' = Taken + 1 /\ Taken \in 0 .. Len(accepted) - 1
  BY <1>3, HeadIsNext, TakenType DEF Taken
<1>5. ASSUME NEW i \in 1 .. Pending' PROVE queue'[i] = accepted[Taken' + i]
  <2>1. i + 1 \in 1 .. Pending /\ Pending <= Len(queue) /\ i \in 1 .. Len(queue) - 1
    BY <1>3, TakenType DEF Pending
  <2>2. queue[i + 1] = accepted[Taken + (i + 1)]
    BY <2>1 DEF QueueFits
  <2>3. queue'[i] = queue[i + 1] /\ Taken + (i + 1) = Taken' + i
    BY <1>2, <1>4, <2>1
  <2> QED BY <2>2, <2>3
<1>6. ASSUME ShutdownSent PROVE queue' # <<>> /\ queue'[Len(queue')].cmd = "Shutdown"
  <2>1. Len(queue) > 1 /\ queue[Len(queue)].cmd = "Shutdown" /\ Len(queue) \in Nat
    BY <1>3, <1>6, TakenType DEF Pending, QueueFits
  <2>2. Len(queue') = Len(queue) - 1 /\ Len(queue') > 0
    BY <1>2, <2>1
  <2>3. queue'[Len(queue')] = queue[Len(queue)]
    BY <1>2, <2>1, <2>2
  <2>4. queue' # <<>>
    BY <2>2
  <2> QED BY <2>1, <2>3, <2>4
<1>7. Taken' \in 0 .. Len(accepted')
  BY <1>4, TakenType
<1> QED BY <1>1, <1>2, <1>4, <1>5, <1>6, <1>7 DEF QueueFits, Distinct

\* A publish that is accepted goes to the end of the channel.
LEMMA ChannelPublish ==
    ASSUME TypeOK, TypeOK', QueueFits, RequestFits,
           NEW p \in Payloads, NEW cmd \in {"Sync", "Async"}, Publish(cmd, p)
    PROVE  /\ QueueFits' /\ Taken' = Taken
           /\ \/ accepted' = accepted
              \/ task = "running" /\ accepted' = Append(accepted, [cmd |-> cmd, payload |-> p])
<1> DEFINE command == [cmd |-> cmd, payload |-> p]
<1>0. handle = "open" /\ UNCHANGED <<handle, task, awaiting>>
  BY DEF Publish, actorVars
<1>1. ~ ShutdownSent /\ ~ ShutdownSent'
  BY <1>0 DEF ShutdownSent
<1>2. CASE task # "running"
  <2>1. queue' = queue /\ accepted' = accepted
    BY <1>2 DEF Publish
  <2> QED BY <1>0, <1>1, <2>1, ChannelSame
<1>3. CASE task = "running"
  <2>1. /\ queue' = Append(queue, command) /\ accepted' = Append(accepted, command)
        /\ p \notin Published
    BY <1>3 DEF Publish
  <2>2. /\ queue \in Seq(Command) /\ command \in Command
        /\ accepted \in Seq(Publishes) /\ command \in Publishes
        /\ Len(queue) \in Nat /\ Len(accepted) \in Nat
    BY DEF TypeOK, Command, Publishes
  <2>3. command.payload = p
    OBVIOUS
  <2> HIDE DEF command
  <2>4. /\ Len(queue') = Len(queue) + 1 /\ queue'[Len(queue) + 1] = command
        /\ \A i \in 1 .. Len(queue) : queue'[i] = queue[i]
    BY <2>1, <2>2, AppendProperties
  <2>5. /\ Len(accepted') = Len(accepted) + 1 /\ accepted'[Len(accepted) + 1] = command
        /\ \A i \in 1 .. Len(accepted) : accepted'[i] = accepted[i]
    BY <2>1, <2>2, AppendProperties
  <2>6. Pending = Len(queue) /\ Pending' = Len(queue) + 1
    BY <1>1, <2>4 DEF Pending
  <2>7. Taken' = Taken /\ Taken + Len(queue) = Len(accepted) /\ Taken \in Nat
    BY <2>5, <2>6, TakenType DEF Taken
  <2>8. ASSUME NEW i \in 1 .. Pending' PROVE queue'[i] = accepted'[Taken' + i]
    <3>1. CASE i = Len(queue) + 1
      <4>1. Taken' + i = Len(accepted) + 1
        BY <2>2, <2>7, <3>1
      <4> QED BY <2>4, <2>5, <3>1, <4>1
    <3>2. CASE i # Len(queue) + 1
      <4>1. i \in 1 .. Len(queue) /\ Taken + i \in 1 .. Len(accepted)
        BY <2>2, <2>6, <2>7, <3>2
      <4>2. queue[i] = accepted[Taken + i]
        BY <2>6, <4>1 DEF QueueFits
      <4> QED BY <2>4, <2>5, <2>7, <4>1, <4>2
    <3> QED BY <3>1, <3>2
  <2>9. Distinct(accepted')
    <3>1. DOMAIN accepted = 1 .. Len(accepted) /\ DOMAIN accepted' = 1 .. Len(accepted) + 1
      BY <2>1, <2>2, <2>5, AppendProperties, LenProperties
    <3>2. ASSUME NEW i \in 1 .. Len(accepted) PROVE accepted[i].payload # p
      <4>1. accepted[i] \in ToSet(accepted)
        BY <2>2, <3>1 DEF ToSet
      <4> QED BY <2>1, <4>1 DEF Published
    <3>3. Distinct(accepted)
      BY DEF QueueFits
    <3>4. \A i \in DOMAIN accepted' : i = Len(accepted) + 1 \/ i \in DOMAIN accepted
      BY <2>2, <3>1
    <3> QED BY <2>3, <2>5, <3>1, <3>2, <3>3, <3>4 DEF Distinct
  <2>10. Taken' \in 0 .. Len(accepted')
    BY <2>2, <2>5, <2>7
  <2>11. task' = "running"
    BY <1>0, <1>3
  <2>12. QueueFits'
    BY <1>1, <2>8, <2>9, <2>10, <2>11 DEF QueueFits
  <2> QED BY <1>3, <2>1, <2>7, <2>12 DEF command
<1> QED BY <1>2, <1>3

\* The Shutdown command is the last one of the channel.
LEMMA ChannelShutdown ==
    ASSUME TypeOK, QueueFits, RequestFits, Shutdown
    PROVE  QueueFits' /\ Taken' = Taken
<1>0. handle = "open" /\ handle' = "shutdown" /\ UNCHANGED <<task, awaiting, accepted>>
  BY DEF Shutdown, actorVars
<1>1. ~ ShutdownSent
  BY <1>0 DEF ShutdownSent
<1>2. CASE task # "running"
  BY <1>0, <1>1, <1>2, ChannelSame DEF Shutdown, ShutdownSent
<1>3. CASE task = "running"
  <2> DEFINE command == [cmd |-> "Shutdown"]
  <2>1. queue' = Append(queue, command) /\ command.cmd = "Shutdown" /\ command \in Command
    BY <1>3 DEF Shutdown, Command
  <2>2. queue \in Seq(Command) /\ Len(queue) \in Nat
    BY DEF TypeOK
  <2> HIDE DEF command
  <2>3. /\ Len(queue') = Len(queue) + 1 /\ queue'[Len(queue) + 1] = command /\ queue' # <<>>
        /\ \A i \in 1 .. Len(queue) : queue'[i] = queue[i]
    BY <2>1, <2>2, AppendProperties
  <2>4. ShutdownSent'
    BY <1>0, <1>3 DEF ShutdownSent, RequestFits
  <2>5. Pending' = Pending /\ Pending = Len(queue)
    BY <1>1, <2>2, <2>3, <2>4 DEF Pending
  <2>6. Taken' = Taken
    BY <1>0, <2>5 DEF Taken
  <2> QED BY <1>0, <1>3, <2>1, <2>2, <2>3, <2>4, <2>5, <2>6 DEF QueueFits, Distinct
<1> QED BY <1>2, <1>3

\* What the loop takes from the channel.
LEMMA ChannelBatcher ==
    ASSUME TypeOK, TypeOK', QueueFits, RequestFits, Batcher \/ TimerFires
    PROVE  /\ QueueFits' /\ Taken <= Taken' /\ accepted' = accepted /\ task = "running"
           /\ task' = "running" =>
                 Taken' = IF HandleSync \/ HandleAsync THEN Taken + 1 ELSE Taken
           /\ task' = "done" => Taken = Len(accepted)
<1> DEFINE Goal == /\ QueueFits' /\ Taken <= Taken'
                   /\ task' = "running" =>
                         Taken' = IF HandleSync \/ HandleAsync THEN Taken + 1 ELSE Taken
                   /\ task' = "done" => Taken = Len(accepted)
<1>1. accepted' = accepted /\ UNCHANGED handle /\ task = "running"
  BY DEF Batcher, HandleSync, HandleUnknownTopic, HandleAsync, HandleShutdown,
         AllBranchesDisabled, HandleResponse, HandleIoErr, TimerFires, clientVars, Receive
<1>2. Taken \in 0 .. Len(accepted) /\ Len(accepted) \in Nat
  BY TakenType DEF QueueFits
<1>3. ASSUME Panic PROVE Goal
  <2>1. ~ ShutdownSent' /\ queue' = <<>> /\ task' = "panicked"
    BY <1>3 DEF Panic, ShutdownSent
  <2>2. QueueFits' /\ Taken' = Len(accepted)
    BY <1>1, <2>1, ChannelEmptied
  <2> QED BY <1>2, <2>1, <2>2
<1>4. ASSUME Receive("Sync") \/ Receive("Async"), HandleSync \/ HandleAsync,
             queue' = Tail(queue), task' = task, awaiting' # "Shutdown"
      PROVE  Goal
  <2>1. QueueFits' /\ Taken' = Taken + 1
    BY <1>1, <1>4, ChannelTaken
  <2> QED BY <1>1, <1>2, <1>4, <2>1
<1> HIDE DEF Goal
<1>5. ASSUME HandleSync PROVE Goal
  <2>1. Receive("Sync") /\ awaiting = Nil
    BY <1>5 DEF HandleSync, Receive
  <2>2. \/ Panic
        \/ queue' = Tail(queue) /\ task' = task /\ awaiting' = "Sync"
    BY <1>5 DEF HandleSync, Send
  <2> QED BY <1>3, <1>4, <1>5, <2>1, <2>2
<1>6. ASSUME HandleAsync PROVE Goal
  <2>1. Receive("Async") /\ awaiting = Nil
    BY <1>6 DEF HandleAsync, Receive
  <2>2. \/ Panic
        \/ queue' = Tail(queue) /\ task' = task /\ awaiting' = "MaxBytes"
        \/ queue' = Tail(queue) /\ task' = task /\ awaiting' = awaiting
    BY <1>6 DEF HandleAsync, Send
  <2> QED BY <1>3, <1>4, <1>6, <2>1, <2>2, NilAssumption
<1>7. ASSUME HandleUnknownTopic \/ AllBranchesDisabled \/ HandleIoErr PROVE Goal
  BY <1>3, <1>7 DEF HandleUnknownTopic, AllBranchesDisabled, HandleIoErr
<1>8. ASSUME HandleShutdown PROVE Goal
  <2>1. Receive("Shutdown") /\ queue # <<>> /\ Head(queue) = queue[1]
    BY <1>8 DEF HandleShutdown, Receive, TypeOK
  <2>2. Pending = 0
    <3>1. CASE Pending >= 1
      <4>1. queue[1] = accepted[Taken + 1] /\ Taken + 1 \in 1 .. Len(accepted)
        BY <3>1, TakenType DEF QueueFits
      <4>2. accepted[Taken + 1].cmd # "Shutdown"
        BY <4>1, AcceptedType
      <4> QED BY <2>1, <4>1, <4>2 DEF Receive
    <3> QED BY <3>1, TakenType
  <2>3. Taken = Len(accepted)
    BY <2>2, TakenType
  <2>4. ~ HandleSync /\ ~ HandleAsync
    BY <2>1 DEF Receive, HandleSync, HandleAsync
  <2>5. CASE ShutdownFlushes
    <3>1. Send(batch, "Shutdown", <<>>)
      BY <1>8, <2>5 DEF HandleShutdown
    <3>2. CASE connected
      <4>1. queue' = <<>> /\ awaiting' = "Shutdown" /\ task' = "running"
        BY <1>1, <3>1, <3>2 DEF Send
      <4>2. ~ ShutdownSent'
        BY <4>1 DEF ShutdownSent
      <4> QED BY <1>1, <1>2, <2>3, <2>4, <4>1, <4>2, ChannelEmptied DEF Goal
    <3> QED BY <1>3, <3>1, <3>2 DEF Send
  <2>6. CASE ~ ShutdownFlushes
    <3>1. task' = "done" /\ queue' = <<>>
      BY <1>8, <2>6 DEF HandleShutdown
    <3>2. ~ ShutdownSent'
      BY <3>1 DEF ShutdownSent
    <3> QED BY <1>1, <1>2, <2>3, <3>1, <3>2, ChannelEmptied DEF Goal
  <2> QED BY <2>5, <2>6
<1>9. ASSUME HandleResponse PROVE Goal
  <2>0. ~ HandleSync /\ ~ HandleAsync
    BY <1>9 DEF Receive, HandleSync, HandleAsync, HandleResponse
  <2>1. awaiting' = Nil /\ queue' = queue /\ task' = IF awaiting = "Shutdown" THEN "done" ELSE task
    BY <1>9 DEF HandleResponse
  <2>2. ShutdownSent' <=> ShutdownSent
    BY <1>1, <2>1, NilAssumption DEF ShutdownSent
  <2>3. CASE awaiting # "Shutdown"
    BY <1>1, <1>2, <2>0, <2>1, <2>2, <2>3, ChannelSame DEF Goal
  <2>4. CASE awaiting = "Shutdown"
    <3>1. queue = <<>> /\ ~ ShutdownSent
      BY <2>4 DEF RequestFits, ShutdownSent
    <3>2. Taken = Len(accepted)
      <4>1. Pending = 0
        BY <3>1 DEF Pending
      <4> QED BY <4>1, TakenType
    <3> QED BY <1>1, <1>2, <2>1, <2>2, <2>4, <3>1, <3>2, ChannelEmptied DEF Goal
  <2> QED BY <2>3, <2>4
<1>10. ASSUME TimerFires PROVE Goal
  <2>0. Send(batch, "Timer", queue) /\ awaiting = Nil
    BY <1>10 DEF TimerFires
  <2>1. CASE connected
    <3>1. queue' = queue /\ task' = task /\ awaiting' = "Timer"
      BY <2>0, <2>1 DEF Send
    <3>2. ShutdownSent' <=> ShutdownSent
      BY <1>1, <2>0, <3>1, NilAssumption DEF ShutdownSent
    <3>3. ~ HandleSync /\ ~ HandleAsync
      <4>1. batch' = NoRecords /\ ~ IsEmpty(batch)
        BY <1>10 DEF TimerFires, TimerEnabled
      <4>2. awaiting' # "Sync" /\ awaiting' # "MaxBytes" /\ awaiting' # Nil
        BY <3>1, NilAssumption
      <4> QED BY <2>0, <2>1, <4>2 DEF HandleSync, HandleAsync, Send
    <3> QED BY <1>1, <1>2, <3>1, <3>2, <3>3, ChannelSame DEF Goal
  <2> QED BY <1>3, <2>0, <2>1 DEF Send
<1>11. Goal
  BY <1>5, <1>6, <1>7, <1>8, <1>9, <1>10 DEF Batcher
<1> QED BY <1>1, <1>11 DEF Goal

LEMMA ChannelNext ==
    ASSUME TypeOK, TypeOK', QueueFits, RequestFits, [Next]_vars
    PROVE  /\ QueueFits' /\ Taken <= Taken' /\ Extends(accepted', accepted)
           /\ task # "running" => accepted' = accepted
           /\ task' = "running" => task = "running" /\ (Batcher \/ TimerFires \/ Taken' = Taken)
<1>0. Taken \in Nat /\ Len(accepted) \in Nat
  BY TakenType
<1>1. ASSUME NEW p \in Payloads, NEW cmd \in {"Sync", "Async"}, Publish(cmd, p)
      PROVE  /\ QueueFits' /\ Taken' = Taken /\ Extends(accepted', accepted)
             /\ task # "running" => accepted' = accepted
             /\ task' = task
  <2>1. task' = task
    BY <1>1 DEF Publish, actorVars
  <2>2. CASE accepted' = accepted
    BY <1>0, <1>1, <2>1, <2>2, ChannelPublish DEF Extends
  <2>3. CASE task = "running" /\ accepted' = Append(accepted, [cmd |-> cmd, payload |-> p])
    <3>1. accepted \in Seq(Publishes) /\ [cmd |-> cmd, payload |-> p] \in Publishes
      BY DEF TypeOK, Publishes
    <3>2. Extends(accepted', accepted)
      BY <1>0, <2>3, <3>1, AppendProperties DEF Extends
    <3> QED BY <1>1, <2>1, <2>3, <3>2, ChannelPublish
  <2> QED BY <1>1, <2>2, <2>3, ChannelPublish
<1>2. ASSUME accepted' = accepted PROVE Extends(accepted', accepted)
  BY <1>0, <1>2 DEF Extends
<1>3. CASE Shutdown
  BY <1>0, <1>2, <1>3, ChannelShutdown DEF Shutdown, actorVars
<1>4. CASE Batcher \/ TimerFires
  BY <1>2, <1>4, ChannelBatcher
<1>5. CASE Join \/ Drop
  <2>1. UNCHANGED <<queue, task, accepted>> /\ (ShutdownSent' <=> ShutdownSent)
    BY <1>5 DEF Join, Drop, ShutdownSent, actorVars
  <2> QED BY <1>0, <1>2, <2>1, ChannelSame
<1>6. CASE ConnectionLost \/ (\E tp \in TopicPartition : BrokerAppends(tp)) \/ UNCHANGED vars
  <2>1. UNCHANGED <<queue, task, accepted>> /\ (ShutdownSent' <=> ShutdownSent)
    BY <1>6 DEF ConnectionLost, BrokerAppends, ShutdownSent, vars, actorVars, clientVars
  <2> QED BY <1>0, <1>2, <2>1, ChannelSame
<1> QED BY <1>0, <1>1, <1>3, <1>4, <1>5, <1>6 DEF Next

\* A request, what is collected beside it, and the timer.
LEMMA RequestNext ==
    ASSUME TypeOK, QueueFits, RequestFits, [Next]_vars
    PROVE  RequestFits'
<1>1. ASSUME NEW p \in Payloads, NEW cmd \in {"Sync", "Async"}, Publish(cmd, p) PROVE RequestFits'
  BY <1>1 DEF RequestFits, Publish, actorVars
<1>2. CASE Shutdown \/ Join \/ Drop
  BY <1>2 DEF RequestFits, Shutdown, Join, Drop, actorVars
<1>3. CASE HandleSync
  BY <1>3, NilAssumption DEF RequestFits, HandleSync, Receive, Send, Panic, clientVars
<1>4. CASE HandleUnknownTopic
  BY <1>4, NilAssumption DEF RequestFits, HandleUnknownTopic, Receive, Panic, clientVars
<1>5. CASE HandleAsync
  <2> DEFINE p == Head(queue).payload
             collected(i) == [batch EXCEPT ![<<TopicOf[p], i>>] = Append(@, p)]
  <2>1. PICK i \in Indexes(p) :
           /\ batch' = collected(i)
           /\ timerActive' = Armed(collected(i))
           /\ IF Size(collected(i)) >= MaxBytes
              THEN Send(collected(i), "MaxBytes", Tail(queue))
              ELSE queue' = Tail(queue) /\ UNCHANGED <<request, awaiting, task>>
    BY <1>5, Zenon DEF HandleAsync
  <2>2. batch' # NoRecords => timerActive'
    BY <2>1, Zenon DEF Armed, IsEmpty
  <2>3. \/ Panic /\ UNCHANGED <<request, awaiting>>
        \/ awaiting' = "MaxBytes" /\ task' = task
        \/ UNCHANGED <<request, awaiting, task>>
    BY <2>1 DEF Send
  <2>4. awaiting = Nil /\ task = "running" /\ handle' = handle
    BY <1>5 DEF HandleAsync, Receive, clientVars
  <2> HIDE DEF p, collected
  <2> QED BY <2>2, <2>3, <2>4, NilAssumption DEF RequestFits, Panic
<1>6. CASE HandleShutdown
  <2>1. handle = "shutdown"
    <3>1. task = "running" /\ queue # <<>> /\ Head(queue).cmd = "Shutdown" /\ Head(queue) = queue[1]
      BY <1>6 DEF HandleShutdown, Receive, TypeOK
    <3>2. Pending = 0 \/ Pending >= 1
      BY TakenType
    <3>3. CASE Pending >= 1
      <4>1. queue[1] = accepted[Taken + 1] /\ Taken + 1 \in 1 .. Len(accepted)
        BY <3>3, TakenType DEF QueueFits
      <4>2. accepted[Taken + 1].cmd # "Shutdown"
        BY <4>1, AcceptedType
      <4> QED BY <3>1, <4>1, <4>2
    <3>4. CASE Pending = 0
      <4>1. Len(queue) > 0
        BY <3>1, EmptySeq DEF TypeOK
      <4> QED BY <3>4, <4>1 DEF Pending, ShutdownSent
    <3> QED BY <3>2, <3>3, <3>4
  <2>2. task = "running" /\ awaiting = Nil /\ UNCHANGED <<timerActive, handle>>
    BY <1>6 DEF HandleShutdown, Receive, clientVars
  <2>3. CASE ShutdownFlushes
    BY <1>6, <2>1, <2>2, <2>3, NilAssumption DEF HandleShutdown, RequestFits, Send, Panic
  <2>4. CASE ~ ShutdownFlushes
    BY <1>6, <2>1, <2>2, <2>4, NilAssumption
       DEF HandleShutdown, RequestFits, ShutdownFlushes, IsEmpty
  <2> QED BY <2>3, <2>4
<1>7. CASE TimerFires
  BY <1>7, NilAssumption DEF RequestFits, TimerFires, Send, Panic, clientVars
<1>8. CASE AllBranchesDisabled \/ HandleIoErr
  BY <1>8, NilAssumption DEF RequestFits, AllBranchesDisabled, HandleIoErr, Panic, clientVars
<1>9. CASE HandleResponse
  <2>1. /\ task = "running" /\ awaiting # Nil /\ request = NoRecords
        /\ awaiting' = Nil /\ batch' = BatchAfter
        /\ task' = IF awaiting = "Shutdown" THEN "done" ELSE task
        /\ UNCHANGED <<queue, request, handle>>
    BY <1>9 DEF HandleResponse, IsEmpty, clientVars
  <2>2. batch' # NoRecords => batch' = batch /\ awaiting \notin {"MaxBytes", "Timer", "Shutdown"}
    BY <2>1 DEF BatchAfter, RequestFits
  <2>3. awaiting \notin {"MaxBytes", "Timer"} => timerActive' = timerActive
    BY <1>9, Zenon DEF HandleResponse, TypeOK
  <2> QED BY <2>1, <2>2, <2>3, NilAssumption DEF RequestFits
<1>10. ASSUME NEW tp \in TopicPartition, BrokerAppends(tp) PROVE RequestFits'
  <2>1. request # NoRecords
    BY <1>10 DEF BrokerAppends, NoRecords
  <2> QED BY <1>10, <2>1 DEF RequestFits, BrokerAppends, clientVars
<1>11. CASE ConnectionLost \/ UNCHANGED vars
  BY <1>11 DEF RequestFits, ConnectionLost, vars, actorVars, clientVars
<1> QED BY <1>1, <1>2, <1>3, <1>4, <1>5, <1>6, <1>7, <1>8, <1>9, <1>10, <1>11 DEF Next, Batcher

-----------------------------------------------------------------------------
(* Lines *)

\* Two parts of a line, and three.
LEMMA TwoParts ==
    \A a, b \in Seq(Payloads) :
        /\ a \o b \in Seq(Payloads)
        /\ Len(a \o b) = Len(a) + Len(b)
        /\ \A i \in 1 .. Len(a) + Len(b) : (a \o b)[i] = IF i <= Len(a) THEN a[i] ELSE b[i - Len(a)]
BY ConcatProperties, Zenon

HasParts(s, a, b, c) ==
    /\ s \in Seq(Payloads)
    /\ Len(a) \in Nat /\ Len(b) \in Nat /\ Len(c) \in Nat
    /\ Len(s) = Len(a) + Len(b) + Len(c)
    /\ \A i \in 1 .. Len(a) : s[i] = a[i]
    /\ \A i \in 1 .. Len(b) : s[Len(a) + i] = b[i]
    /\ \A i \in 1 .. Len(c) : s[Len(a) + Len(b) + i] = c[i]

LEMMA Parts ==
    \A a, b, c \in Seq(Payloads) : HasParts((a \o b) \o c, a, b, c)
<1> TAKE a, b, c \in Seq(Payloads)
<1>1. Len(a) \in Nat /\ Len(b) \in Nat /\ Len(c) \in Nat
  OBVIOUS
<1>2. /\ a \o b \in Seq(Payloads)
      /\ Len(a \o b) = Len(a) + Len(b)
      /\ \A i \in 1 .. Len(a) + Len(b) : (a \o b)[i] = IF i <= Len(a) THEN a[i] ELSE b[i - Len(a)]
  BY TwoParts, Zenon
<1> DEFINE d == a \o b
<1> HIDE DEF d
<1>3. d \in Seq(Payloads) /\ Len(d) = Len(a) + Len(b)
  BY <1>2 DEF d
<1>4. /\ d \o c \in Seq(Payloads)
      /\ Len(d \o c) = Len(d) + Len(c)
      /\ \A i \in 1 .. Len(d) + Len(c) : (d \o c)[i] = IF i <= Len(d) THEN d[i] ELSE c[i - Len(d)]
  BY <1>3, TwoParts, Zenon
<1>5. ASSUME NEW i \in 1 .. Len(a) PROVE (d \o c)[i] = a[i]
  <2>1. i \in 1 .. Len(a) + Len(b) /\ i \in 1 .. Len(d) + Len(c) /\ i <= Len(a) /\ i <= Len(d)
    BY <1>1, <1>3
  <2>2. (d \o c)[i] = d[i] /\ d[i] = a[i]
    BY <1>2, <1>4, <2>1 DEF d
  <2> QED BY <2>2
<1>6. ASSUME NEW i \in 1 .. Len(b) PROVE (d \o c)[Len(a) + i] = b[i]
  <2>1. /\ Len(a) + i \in 1 .. Len(a) + Len(b) /\ Len(a) + i \in 1 .. Len(d) + Len(c)
        /\ ~ (Len(a) + i <= Len(a)) /\ Len(a) + i <= Len(d) /\ (Len(a) + i) - Len(a) = i
    BY <1>1, <1>3
  <2>2. (d \o c)[Len(a) + i] = d[Len(a) + i]
    BY <1>4, <2>1
  <2>3. d[Len(a) + i] = b[(Len(a) + i) - Len(a)]
    BY <1>2, <2>1 DEF d
  <2> QED BY <2>1, <2>2, <2>3
<1>7. ASSUME NEW i \in 1 .. Len(c) PROVE (d \o c)[Len(a) + Len(b) + i] = c[i]
  <2>1. /\ Len(d) + i \in 1 .. Len(d) + Len(c) /\ ~ (Len(d) + i <= Len(d)) /\ (Len(d) + i) - Len(d) = i
        /\ Len(d) + i = Len(a) + Len(b) + i
    BY <1>1, <1>3
  <2>2. (d \o c)[Len(d) + i] = c[(Len(d) + i) - Len(d)]
    BY <1>4, <2>1
  <2> QED BY <2>1, <2>2
<1>8. HasParts(d \o c, a, b, c)
  BY <1>1, <1>3, <1>4, <1>5, <1>6, <1>7 DEF HasParts
<1> QED BY <1>8 DEF d

\* Parts that hold nothing.
LEMMA EmptyParts ==
    \A a, b \in Seq(Payloads) :
        /\ (a \o <<>>) \o b = a \o b /\ (a \o b) \o <<>> = a \o b
        /\ a \o <<>> = a /\ a \o b \in Seq(Payloads)
<1> TAKE a, b \in Seq(Payloads)
<1>1. a \o b \in Seq(Payloads)
  BY ConcatProperties
<1>2. a \o <<>> = a
  BY ConcatEmptySeq
<1> QED BY <1>1, <1>2, ConcatEmptySeq

LEMMA FirstPart ==
    ASSUME NEW s, NEW a, NEW b, NEW c, HasParts(s, a, b, c)
    PROVE  Len(a) <= Len(s) /\ \A i \in 1 .. Len(a) : a[i] = s[i]
BY DEF HasParts

\* A record between two parts.
OneMore(old, new, n, p) ==
    /\ n \in 1 .. Len(old) + 1 /\ Len(new) = Len(old) + 1
    /\ \A i \in 1 .. n - 1 : new[i] = old[i]
    /\ new[n] = p
    /\ \A i \in n .. Len(old) : new[i + 1] = old[i]

LEMMA PartsWithOneMore ==
    ASSUME NEW a \in Seq(Payloads), NEW c \in Seq(Payloads), NEW p \in Payloads,
           NEW old, old = (a \o <<>>) \o c, NEW new, new = (a \o <<p>>) \o c
    PROVE  OneMore(old, new, Len(a) + 1, p)
<1> DEFINE b == <<p>>
<1>0. /\ <<>> \in Seq(Payloads) /\ Len(<<>>) = 0
      /\ b \in Seq(Payloads) /\ Len(b) = 1 /\ b[1] = p
  OBVIOUS
<1>1. HasParts(old, a, <<>>, c) /\ HasParts(new, a, b, c)
  BY <1>0, Parts
<1> HIDE DEF b
<1>2. /\ Len(a) \in Nat /\ Len(c) \in Nat
      /\ Len(old) = Len(a) + Len(<<>>) + Len(c)
      /\ \A i \in 1 .. Len(a) : old[i] = a[i]
      /\ \A i \in 1 .. Len(c) : old[Len(a) + Len(<<>>) + i] = c[i]
  BY <1>1 DEF HasParts
<1>3. /\ Len(new) = Len(a) + Len(b) + Len(c)
      /\ \A i \in 1 .. Len(a) : new[i] = a[i]
      /\ \A i \in 1 .. Len(b) : new[Len(a) + i] = b[i]
      /\ \A i \in 1 .. Len(c) : new[Len(a) + Len(b) + i] = c[i]
  BY <1>1 DEF HasParts
<1>4. Len(old) = Len(a) + Len(c) /\ Len(new) = Len(a) + 1 + Len(c)
  BY <1>0, <1>2, <1>3
<1>5. ASSUME NEW i \in Len(a) + 1 .. Len(old) PROVE new[i + 1] = old[i]
  <2> DEFINE j == i - Len(a)
  <2>1. j \in 1 .. Len(c) /\ Len(a) + 1 + j = i + 1 /\ Len(a) + 0 + j = i
    BY <1>2, <1>4
  <2> HIDE DEF j
  <2>2. new[Len(a) + 1 + j] = c[j] /\ old[Len(a) + 0 + j] = c[j]
    BY <1>0, <1>2, <1>3, <2>1
  <2> QED BY <2>1, <2>2
<1>6. new[Len(a) + 1] = p
  BY <1>0, <1>3
<1>7. \A i \in 1 .. (Len(a) + 1) - 1 : new[i] = old[i]
  BY <1>2, <1>3
<1>8. Len(a) + 1 \in 1 .. Len(old) + 1 /\ Len(new) = Len(old) + 1
  BY <1>2, <1>4
<1> QED BY <1>5, <1>6, <1>7, <1>8 DEF OneMore

LEMMA LineType ==
    ASSUME NEW l \in Records, NEW r \in Records, NEW c \in Records
    PROVE  LineOf(l, r, c) \in Records
<1>1. ASSUME NEW tp \in TopicPartition PROVE (l[tp] \o r[tp]) \o c[tp] \in Seq(Payloads)
  <2>1. l[tp] \in Seq(Payloads) /\ r[tp] \in Seq(Payloads) /\ c[tp] \in Seq(Payloads)
    BY DEF Records
  <2>2. HasParts((l[tp] \o r[tp]) \o c[tp], l[tp], r[tp], c[tp])
    BY <2>1, Parts, Zenon
  <2> QED BY <2>2 DEF HasParts
<1> QED BY <1>1 DEF LineOf, Records

\* What is collected becomes the request.
LEMMA LineSends ==
    ASSUME NEW l \in Records, NEW c \in Records
    PROVE  LineOf(l, c, NoRecords) = LineOf(l, NoRecords, c)
<1>1. ASSUME NEW tp \in TopicPartition
      PROVE  (l[tp] \o c[tp]) \o NoRecords[tp] = (l[tp] \o NoRecords[tp]) \o c[tp]
  <2>1. l[tp] \in Seq(Payloads) /\ c[tp] \in Seq(Payloads) /\ NoRecords[tp] = <<>>
    BY DEF Records, NoRecords
  <2> QED BY <2>1, EmptyParts
<1> QED BY <1>1 DEF LineOf

\* The broker appends what a request holds for a partition.
LEMMA LineAppends ==
    ASSUME NEW l \in Records, NEW r \in Records, NEW c \in Records, NEW tp \in TopicPartition
    PROVE  LineOf([l EXCEPT ![tp] = @ \o r[tp]], [r EXCEPT ![tp] = <<>>], c) = LineOf(l, r, c)
<1> DEFINE m == [l EXCEPT ![tp] = @ \o r[tp]]
           s == [r EXCEPT ![tp] = <<>>]
<1>1. ASSUME NEW t \in TopicPartition
      PROVE  (m[t] \o s[t]) \o c[t] = (l[t] \o r[t]) \o c[t]
  <2>1. l[t] \in Seq(Payloads) /\ r[t] \in Seq(Payloads)
    BY DEF Records
  <2>2. CASE t = tp
    <3>1. m[t] = l[t] \o r[t] /\ s[t] = <<>>
      BY <2>2 DEF Records
    <3>2. (l[t] \o r[t]) \o <<>> = l[t] \o r[t]
      BY <2>1, EmptyParts
    <3> HIDE DEF m, s
    <3> QED BY <3>1, <3>2
  <2>3. CASE t # tp
    <3>1. m[t] = l[t] /\ s[t] = r[t]
      BY <2>3 DEF Records
    <3> HIDE DEF m, s
    <3> QED BY <3>1
  <2> QED BY <2>2, <2>3
<1> HIDE DEF m, s
<1>2. LineOf(m, s, c) = LineOf(l, r, c)
  BY <1>1 DEF LineOf
<1> QED BY <1>2 DEF m, s

\* The logs are where every line begins, and all of it when nothing else is left.
LEMMA LineOfLogs ==
    ASSUME NEW l \in Records, NEW r \in Records, NEW c \in Records
    PROVE  Begins(l, LineOf(l, r, c)) /\ LineOf(l, NoRecords, NoRecords) = l
<1>1. ASSUME NEW tp \in TopicPartition
      PROVE  /\ Len(l[tp]) <= Len(LineOf(l, r, c)[tp])
             /\ \A i \in 1 .. Len(l[tp]) : l[tp][i] = LineOf(l, r, c)[tp][i]
  <2>1. /\ l[tp] \in Seq(Payloads) /\ r[tp] \in Seq(Payloads) /\ c[tp] \in Seq(Payloads)
        /\ LineOf(l, r, c)[tp] = (l[tp] \o r[tp]) \o c[tp]
    BY DEF Records, LineOf
  <2>2. HasParts((l[tp] \o r[tp]) \o c[tp], l[tp], r[tp], c[tp])
    BY <2>1, Parts, Zenon
  <2>3. HasParts(LineOf(l, r, c)[tp], l[tp], r[tp], c[tp])
    BY <2>1, <2>2
  <2> QED BY <2>3, FirstPart, Zenon
<1>2. ASSUME NEW tp \in TopicPartition PROVE (l[tp] \o NoRecords[tp]) \o NoRecords[tp] = l[tp]
  <2>1. l[tp] \in Seq(Payloads) /\ NoRecords[tp] = <<>>
    BY DEF Records, NoRecords
  <2> QED BY <2>1, EmptyParts
<1>3. l = [tp \in TopicPartition |-> l[tp]]
  BY DEF Records
<1>4. LineOf(l, NoRecords, NoRecords) = l
  BY <1>2, <1>3 DEF LineOf
<1> QED BY <1>1, <1>4 DEF Begins

\* What is collected is lost.
LEMMA LineDrops ==
    ASSUME NEW l \in Records, NEW r \in Records, NEW c \in Records
    PROVE  Begins(LineOf(l, r, NoRecords), LineOf(l, r, c))
<1>1. ASSUME NEW tp \in TopicPartition
      PROVE  /\ Len(LineOf(l, r, NoRecords)[tp]) <= Len(LineOf(l, r, c)[tp])
             /\ \A i \in 1 .. Len(LineOf(l, r, NoRecords)[tp]) :
                   LineOf(l, r, NoRecords)[tp][i] = LineOf(l, r, c)[tp][i]
  <2> DEFINE d == l[tp] \o r[tp]
  <2>1. /\ l[tp] \in Seq(Payloads) /\ r[tp] \in Seq(Payloads) /\ c[tp] \in Seq(Payloads)
        /\ LineOf(l, r, c)[tp] = d \o c[tp] /\ LineOf(l, r, NoRecords)[tp] = d \o <<>>
    BY DEF Records, LineOf, NoRecords
  <2>2. d \in Seq(Payloads) /\ d \o <<>> = d
    BY <2>1, EmptyParts
  <2> HIDE DEF d
  <2>3. /\ Len(d \o c[tp]) = Len(d) + Len(c[tp])
        /\ \A i \in 1 .. Len(d) + Len(c[tp]) :
              (d \o c[tp])[i] = IF i <= Len(d) THEN d[i] ELSE c[tp][i - Len(d)]
    BY <2>1, <2>2, TwoParts, Zenon
  <2>4. Len(d) \in Nat /\ Len(c[tp]) \in Nat
    BY <2>1, <2>2
  <2> QED BY <2>1, <2>2, <2>3, <2>4
<1> QED BY <1>1 DEF Begins

\* A record is collected.
LEMMA LineCollects ==
    ASSUME NEW l \in Records, NEW r \in Records, NEW c \in Records,
           NEW tp \in TopicPartition, NEW p \in Payloads
    PROVE  Inserts(LineOf(l, r, c), LineOf(l, r, [c EXCEPT ![tp] = Append(@, p)]),
                   tp, Len(LineOf(l, r, c)[tp]) + 1, p)
<1> DEFINE d == [c EXCEPT ![tp] = Append(@, p)]
           old == LineOf(l, r, c)
           new == LineOf(l, r, d)
           s == l[tp] \o r[tp]
<1>1. d[tp] = Append(c[tp], p) /\ \A t \in TopicPartition : t # tp => d[t] = c[t]
  BY DEF Records
<1> HIDE DEF d
<1>2. /\ l[tp] \in Seq(Payloads) /\ r[tp] \in Seq(Payloads) /\ c[tp] \in Seq(Payloads)
      /\ old[tp] = s \o c[tp] /\ new[tp] = s \o Append(c[tp], p)
  BY <1>1 DEF Records, LineOf
<1>3. \A t \in TopicPartition : t # tp => new[t] = old[t]
  BY <1>1 DEF LineOf
<1>4. s \in Seq(Payloads) /\ s \o c[tp] \in Seq(Payloads)
  <2>1. s \in Seq(Payloads)
    BY <1>2, EmptyParts
  <2> HIDE DEF s
  <2> QED BY <1>2, <2>1, EmptyParts
<1> HIDE DEF s, old, new
<1>5. new[tp] = Append(old[tp], p) /\ old[tp] \in Seq(Payloads)
  <2>1. Append(c[tp], p) = c[tp] \o <<p>> /\ <<p>> \in Seq(Payloads)
    <3>1. c[tp] \in Seq(Payloads)
      BY <1>2
    <3> QED BY <3>1, AppendIsConcat
  <2>2. s \o (c[tp] \o <<p>>) = (s \o c[tp]) \o <<p>>
    <3>1. s \in Seq(Payloads) /\ c[tp] \in Seq(Payloads)
      BY <1>2, <1>4
    <3>2. <<p>> \in Seq(Payloads)
      BY <2>1
    <3>3. \A a, b, z \in Seq(Payloads) : (a \o b) \o z = a \o (b \o z)
      BY ConcatAssociative
    <3> QED BY <3>1, <3>2, <3>3, Zenon
  <2>3. (s \o c[tp]) \o <<p>> = Append(s \o c[tp], p)
    BY <1>4, AppendIsConcat
  <2> QED BY <1>2, <1>4, <2>1, <2>2, <2>3
<1>6. /\ Len(new[tp]) = Len(old[tp]) + 1 /\ new[tp][Len(old[tp]) + 1] = p
      /\ \A i \in 1 .. Len(old[tp]) : new[tp][i] = old[tp][i]
      /\ Len(old[tp]) \in Nat
  BY <1>5, AppendProperties
<1>7. Inserts(old, new, tp, Len(old[tp]) + 1, p)
  BY <1>3, <1>6 DEF Inserts
<1> QED BY <1>7 DEF old, new, d

\* A record is sent ahead of what is collected.
LEMMA LineSendsAhead ==
    ASSUME NEW l \in Records, NEW c \in Records, NEW tp \in TopicPartition, NEW p \in Payloads
    PROVE  Inserts(LineOf(l, NoRecords, c), LineOf(l, [NoRecords EXCEPT ![tp] = <<p>>], c),
                   tp, Len(l[tp]) + 1, p)
<1> DEFINE r == [NoRecords EXCEPT ![tp] = <<p>>]
           old == LineOf(l, NoRecords, c)
           new == LineOf(l, r, c)
<1>1. r[tp] = <<p>> /\ \A t \in TopicPartition : t # tp => r[t] = NoRecords[t]
  BY DEF NoRecords
<1> HIDE DEF r
<1>0. /\ l[tp] \in Seq(Payloads) /\ c[tp] \in Seq(Payloads)
      /\ <<>> \in Seq(Payloads) /\ <<p>> \in Seq(Payloads)
      /\ Len(<<>>) = 0 /\ Len(<<p>>) = 1
  BY DEF Records
<1>2. /\ old[tp] = (l[tp] \o <<>>) \o c[tp] /\ new[tp] = (l[tp] \o <<p>>) \o c[tp]
  BY <1>1 DEF Records, LineOf, NoRecords
<1>3. \A t \in TopicPartition : t # tp => new[t] = old[t]
  BY <1>1 DEF LineOf
<1> HIDE DEF old, new
<1>4. OneMore(old[tp], new[tp], Len(l[tp]) + 1, p)
  BY <1>0, <1>2, PartsWithOneMore
<1>5. Inserts(old, new, tp, Len(l[tp]) + 1, p)
  BY <1>3, <1>4, Zenon DEF Inserts, OneMore
<1> QED BY <1>5 DEF old, new, r

-----------------------------------------------------------------------------
(* The steps of the line *)

LEMMA PartsType ==
    ASSUME TypeOK
    PROVE  /\ logs \in Records /\ request \in Records /\ batch \in Records /\ Collected \in Records
           /\ Line \in Records
<1>1. logs \in Records /\ request \in Records /\ batch \in Records
  BY DEF TypeOK
<1>2. Collected \in Records
  BY <1>1, RecordsType DEF Collected
<1> QED BY <1>1, <1>2, LineType DEF Line

LEMMA LineIsRecords == TypeOK => Line \in Records
BY PartsType

LEMMA EmptyLine ==
    logs \in Records /\ request = NoRecords /\ Collected = NoRecords => Line = logs
BY LineOfLogs, RecordsType DEF Line

\* A publish that is taken has its record put in the line: at its end, or ahead
\* of what is collected.
LEMMA LineTaken ==
    ASSUME TypeOK, RequestFits, HandleSync \/ HandleAsync
    PROVE  \/ Line' = Line /\ task' # "running"
           \/ \E tp \in TopicPartition, n \in Nat :
                 /\ Inserts(Line, Line', tp, n, Head(queue).payload)
                 /\ n = Len(Line[tp]) + 1 \/ Head(queue).cmd = "Sync"
                 /\ TopicOf[Head(queue).payload] = tp[1]
                 /\ tp[2] \in Indexes(Head(queue).payload)
<1> DEFINE p == Head(queue).payload
<1>1. /\ task = "running" /\ awaiting = Nil /\ request = NoRecords /\ logs' = logs
      /\ p \in Payloads /\ TopicOf[p] \in Topics
      /\ logs \in Records /\ batch \in Records /\ Collected = batch
  <2>1. Receive("Sync") \/ Receive("Async")
    BY DEF HandleSync, HandleAsync
  <2>2. task = "running" /\ awaiting = Nil
    BY <2>1 DEF Receive
  <2>3. Collected = batch
    BY <2>2, NilAssumption DEF Collected
  <2> QED BY <2>1, <2>2, <2>3, HeadType, PartsType DEF RequestFits, HandleSync, HandleAsync
<1>2. Line = LineOf(logs, NoRecords, batch)
  BY <1>1 DEF Line
<1>3. CASE HandleSync
  <2>1. PICK i \in Indexes(p) :
           Send([NoRecords EXCEPT ![<<TopicOf[p], i>>] = <<p>>], "Sync", Tail(queue))
    BY <1>3 DEF HandleSync
  <2>2. batch' = batch /\ Head(queue).cmd = "Sync"
    BY <1>3 DEF HandleSync, Receive
  <2>3. CASE connected
    <3> DEFINE tp == <<TopicOf[p], i>>
    <3>1. tp \in TopicPartition /\ tp[1] = TopicOf[p] /\ tp[2] = i
      BY <1>1, IndexType
    <3>2. request' = [NoRecords EXCEPT ![tp] = <<p>>] /\ awaiting' = "Sync"
      BY <2>1, <2>3 DEF Send
    <3>3. Collected' = batch
      BY <2>2, <3>2 DEF Collected
    <3> HIDE DEF tp, p
    <3>4. Line' = LineOf(logs, [NoRecords EXCEPT ![tp] = <<p>>], batch)
      BY <1>1, <3>2, <3>3 DEF Line
    <3>5. Inserts(Line, Line', tp, Len(logs[tp]) + 1, p)
      BY <1>1, <1>2, <3>1, <3>4, LineSendsAhead
    <3>6. Len(logs[tp]) + 1 \in Nat
      BY <1>1, <3>1 DEF Records
    <3> QED BY <2>2, <3>1, <3>5, <3>6 DEF p
  <2>4. CASE ~ connected
    <3>1. task' = "panicked" /\ request' = request /\ awaiting' = awaiting
      BY <2>1, <2>4 DEF Send, Panic
    <3>2. Line' = Line
      BY <1>1, <2>2, <3>1 DEF Line, Collected
    <3> QED BY <3>1, <3>2
  <2> QED BY <2>3, <2>4
<1>4. CASE HandleAsync
  <2> DEFINE tp(i) == <<TopicOf[p], i>>
             collected(i) == [batch EXCEPT ![tp(i)] = Append(@, p)]
  <2>1. PICK i \in Indexes(p) :
           /\ batch' = collected(i)
           /\ IF Size(collected(i)) >= MaxBytes
              THEN Send(collected(i), "MaxBytes", Tail(queue))
              ELSE queue' = Tail(queue) /\ UNCHANGED <<request, awaiting, task>>
    BY <1>4, Zenon DEF HandleAsync
  <2>2. tp(i) \in TopicPartition /\ tp(i)[1] = TopicOf[p] /\ tp(i)[2] = i
    BY <1>1, IndexType
  <2>3. collected(i) \in Records
    BY <1>1, <2>2, RecordsType
  <2>4. \/ batch' = collected(i) /\ UNCHANGED <<request, awaiting>>
        \/ request' = collected(i) /\ awaiting' = "MaxBytes"
    BY <2>1 DEF Send
  <2>5. LineOf(logs, NoRecords, collected(i)) = Line'
    <3> HIDE DEF collected
    <3>1. CASE batch' = collected(i) /\ UNCHANGED <<request, awaiting>>
      <4>1. Collected' = collected(i)
        BY <1>1, <3>1, NilAssumption DEF Collected
      <4> QED BY <1>1, <3>1, <4>1 DEF Line
    <3>2. CASE request' = collected(i) /\ awaiting' = "MaxBytes"
      <4>1. Collected' = NoRecords
        BY <3>2 DEF Collected
      <4>2. Line' = LineOf(logs, collected(i), NoRecords)
        BY <1>1, <3>2, <4>1 DEF Line
      <4> QED BY <1>1, <2>3, <4>2, LineSends
    <3> QED BY <2>4, <3>1, <3>2
  <2>6. Inserts(LineOf(logs, NoRecords, batch), LineOf(logs, NoRecords, collected(i)),
                tp(i), Len(LineOf(logs, NoRecords, batch)[tp(i)]) + 1, p)
    <3> HIDE DEF p, tp
    <3> QED BY <1>1, <2>2, LineCollects, RecordsType
  <2> HIDE DEF collected, tp
  <2>7. Inserts(Line, Line', tp(i), Len(Line[tp(i)]) + 1, p)
    BY <1>2, <2>5, <2>6
  <2>8. Len(Line[tp(i)]) + 1 \in Nat
    BY <2>2, PartsType DEF Records
  <2> QED BY <2>2, <2>7, <2>8
<1> QED BY <1>3, <1>4

\* No other step changes the line, but to lose its tail with the task.
LEMMA LineOther ==
    ASSUME TypeOK, RequestFits, [Next]_vars, ~ HandleSync, ~ HandleAsync
    PROVE  Line' = Line \/ (task' = "panicked" /\ Begins(Line', Line))
<1>0. /\ logs \in Records /\ request \in Records /\ batch \in Records /\ Collected \in Records
      /\ NoRecords \in Records
  BY PartsType, RecordsType
<1>1. ASSUME UNCHANGED <<logs, request, batch, awaiting>> PROVE Line' = Line
  BY <1>1 DEF Line, Collected
\* A request made of the batch.
<1>2. ASSUME task = "running", awaiting = Nil, batch' = NoRecords, logs' = logs,
             NEW arm \in {"Timer", "Shutdown"}, NEW rest, Send(batch, arm, rest)
      PROVE  Line' = Line \/ (task' = "panicked" /\ Begins(Line', Line))
  <2>1. request = NoRecords /\ Collected = batch
    BY <1>2, NilAssumption DEF RequestFits, Collected
  <2>2. Collected' = NoRecords
    BY <1>2 DEF Collected
  <2>3. CASE connected
    <3>1. Line' = LineOf(logs, batch, NoRecords)
      BY <1>2, <2>2, <2>3 DEF Line, Send
    <3> QED BY <1>0, <2>1, <3>1, LineSends DEF Line
  <2>4. CASE ~ connected
    <3>1. Line' = LineOf(logs, request, NoRecords) /\ task' = "panicked"
      BY <1>2, <2>2, <2>4 DEF Line, Send, Panic
    <3> QED BY <1>0, <3>1, LineDrops DEF Line
  <2> QED BY <2>3, <2>4
<1>3. ASSUME NEW p \in Payloads, NEW cmd \in {"Sync", "Async"}, Publish(cmd, p) PROVE Line' = Line
  BY <1>1, <1>3 DEF Publish, actorVars
<1>4. ASSUME Shutdown \/ Join \/ Drop PROVE Line' = Line
  BY <1>1, <1>4 DEF Shutdown, Join, Drop, actorVars
<1>5. ASSUME HandleUnknownTopic \/ AllBranchesDisabled \/ HandleIoErr PROVE Line' = Line
  BY <1>1, <1>5 DEF HandleUnknownTopic, AllBranchesDisabled, HandleIoErr
<1>6. ASSUME ConnectionLost \/ UNCHANGED vars PROVE Line' = Line
  BY <1>1, <1>6 DEF ConnectionLost, vars, actorVars
<1>7. CASE HandleShutdown
  <2>1. task = "running" /\ awaiting = Nil /\ logs' = logs
    BY <1>7 DEF HandleShutdown, Receive
  <2>2. CASE ShutdownFlushes
    BY <1>2, <1>7, <2>1, <2>2 DEF HandleShutdown
  <2>3. CASE ~ ShutdownFlushes
    BY <1>1, <1>7, <2>1, <2>3 DEF HandleShutdown
  <2> QED BY <2>2, <2>3
<1>8. CASE TimerFires
  <2>1. task = "running" /\ awaiting = Nil /\ logs' = logs
    BY <1>8 DEF TimerFires
  <2> QED BY <1>2, <1>8, <2>1 DEF TimerFires
<1>9. ASSUME HandleResponse PROVE Line' = Line
  <2>1. awaiting' = Nil /\ batch' = BatchAfter /\ UNCHANGED <<request, logs>>
    BY <1>9 DEF HandleResponse
  <2>2. Collected' = Collected
    BY <2>1, NilAssumption DEF Collected, BatchAfter
  <2> QED BY <2>1, <2>2 DEF Line
<1>10. ASSUME NEW tp \in TopicPartition, BrokerAppends(tp) PROVE Line' = Line
  <2>1. /\ logs' = [logs EXCEPT ![tp] = @ \o request[tp]]
        /\ request' = [request EXCEPT ![tp] = <<>>]
        /\ UNCHANGED <<batch, awaiting>>
    BY <1>10 DEF BrokerAppends
  <2>2. Collected' = Collected
    BY <2>1 DEF Collected
  <2>3. PICK l \in Records, r \in Records, c \in Records : l = logs /\ r = request /\ c = Collected
    BY <1>0
  <2>4. LineOf([l EXCEPT ![tp] = @ \o r[tp]], [r EXCEPT ![tp] = <<>>], c) = LineOf(l, r, c)
    BY LineAppends, ZenonT(30)
  <2>5. logs' = [l EXCEPT ![tp] = @ \o r[tp]] /\ request' = [r EXCEPT ![tp] = <<>>] /\ Collected' = c
    BY <2>1, <2>2, <2>3
  <2>6. Line' = LineOf(l, r, c)
    BY <2>4, <2>5 DEF Line
  <2> QED BY <2>3, <2>6 DEF Line
<1> QED BY <1>3, <1>4, <1>5, <1>6, <1>7, <1>8, <1>9, <1>10 DEF Next, Batcher

\* A task that does not run has an empty channel.
LEMMA NoneLeft == TypeOK /\ QueueFits /\ task # "running" => Taken = Len(accepted)
<1> SUFFICES ASSUME TypeOK, QueueFits, task # "running" PROVE Taken = Len(accepted)
  OBVIOUS
<1>1. Pending = 0
  BY DEF QueueFits, Pending, ShutdownSent
<1> QED BY <1>1, TakenType

LEMMA LineNext ==
    ASSUME ProducerInv, TypeOK', QueueFits', [Next]_vars
    PROVE  /\ LineFits(accepted', Taken', Line')
           /\ task' = "running" => AllIn(accepted', Taken', Line')
<1>1. /\ TypeOK /\ QueueFits /\ RequestFits /\ LineFits(accepted, Taken, Line)
      /\ task = "running" => AllIn(accepted, Taken, Line)
  BY DEF ProducerInv
<1>2. /\ accepted \in Seq(Publishes) /\ accepted' \in Seq(Publishes)
      /\ Len(accepted) \in Nat /\ Len(accepted') \in Nat
      /\ Distinct(accepted) /\ Distinct(accepted')
      /\ Taken \in 0 .. Len(accepted) /\ Taken' \in 0 .. Len(accepted')
  BY <1>1 DEF TypeOK, Publishes, QueueFits
<1>3. Line \in Records /\ Line' \in Records
  <2>1. (TypeOK => Line \in Records)'
    BY LineIsRecords, PTL
  <2> QED BY <1>1, <2>1, LineIsRecords
<1>4. /\ Taken <= Taken' /\ Extends(accepted', accepted)
      /\ task' = "running" => task = "running" /\ (Batcher \/ TimerFires \/ Taken' = Taken)
  BY <1>1, ChannelNext
<1>5. task' # "running" => Taken' = Len(accepted')
  <2>1. (TypeOK /\ QueueFits /\ task # "running" => Taken = Len(accepted))'
    BY NoneLeft, PTL
  <2> QED BY <2>1
<1>6. Begins(Line', Line')
  BY <1>3 DEF Begins, Records
<1>7. ASSUME Begins(Line', Line) PROVE LineFits(accepted', Taken', Line')
  <2>1. Taken' \in Taken .. Len(accepted')
    BY <1>2, <1>4
  <2> QED BY <1>1, <1>2, <1>3, <1>4, <1>7, <2>1, LineCut
<1>8. CASE HandleSync \/ HandleAsync
  <2>1. /\ accepted' = accepted /\ task = "running"
        /\ task' = "running" => Taken' = Taken + 1
    BY <1>1, <1>8, ChannelBatcher DEF Batcher
  <2>2. Receive("Sync") \/ Receive("Async")
    BY <1>8 DEF HandleSync, HandleAsync
  <2>3. /\ Taken \in 0 .. Len(accepted) - 1
        /\ Head(queue) = accepted[Taken + 1]
    BY <1>1, <2>2, HeadIsNext
  <2>4. CASE Line' = Line /\ task' # "running"
    BY <1>6, <1>7, <2>4
  <2>5. CASE \E tp \in TopicPartition, n \in Nat :
                 /\ Inserts(Line, Line', tp, n, Head(queue).payload)
                 /\ n = Len(Line[tp]) + 1 \/ Head(queue).cmd = "Sync"
                 /\ TopicOf[Head(queue).payload] = tp[1]
                 /\ tp[2] \in Indexes(Head(queue).payload)
    <3>1. PICK tp \in TopicPartition, n \in Nat :
             /\ Inserts(Line, Line', tp, n, accepted[Taken + 1].payload)
             /\ n = Len(Line[tp]) + 1 \/ accepted[Taken + 1].cmd = "Sync"
             /\ TopicOf[accepted[Taken + 1].payload] = tp[1]
             /\ tp[2] \in Indexes(accepted[Taken + 1].payload)
      BY <2>3, <2>5
    <3>2. AllIn(accepted, Taken, Line)
      BY <1>1, <2>1
    <3>3. LineFits(accepted, Taken + 1, Line') /\ AllIn(accepted, Taken + 1, Line')
      BY <1>1, <1>2, <1>3, <2>3, <3>1, <3>2, LineTakes
    <3>4. Taken' \in Taken + 1 .. Len(accepted)
      BY <1>2, <1>5, <2>1, <2>3
    <3>5. Extends(accepted, accepted)
      BY <1>2 DEF Extends
    <3>6. Taken + 1 \in 0 .. Len(accepted)
      BY <1>2, <2>3
    <3>7. LineFits(accepted, Taken', Line')
      BY <1>2, <1>3, <1>6, <3>3, <3>4, <3>5, <3>6, LineCut
    <3> QED BY <2>1, <3>3, <3>7
  <2> QED BY <1>1, <1>8, <2>4, <2>5, LineTaken
<1>9. CASE ~ HandleSync /\ ~ HandleAsync
  <2>1. Line' = Line \/ (task' = "panicked" /\ Begins(Line', Line))
    BY <1>1, <1>9, LineOther
  <2>2. LineFits(accepted', Taken', Line')
    BY <1>6, <1>7, <2>1
  <2>3. ASSUME task' = "running" PROVE AllIn(accepted', Taken', Line')
    <3>1. Line' = Line /\ AllIn(accepted, Taken, Line)
      BY <1>1, <1>4, <2>1, <2>3
    <3>2. Taken' = Taken
      BY <1>1, <1>4, <1>9, <2>3, ChannelBatcher
    <3>3. \A k \in 1 .. Taken : accepted'[k] = accepted[k]
      BY <1>2, <1>4 DEF Extends
    <3> QED BY <3>1, <3>2, <3>3 DEF AllIn
  <2> QED BY <2>2, <2>3
<1> QED BY <1>8, <1>9

-----------------------------------------------------------------------------
(* What is lost *)

LEMMA AcceptedAt ==
    ASSUME TypeOK, NEW p \in AcceptedPayloads
    PROVE  \E k \in 1 .. Len(accepted) : accepted[k].payload = p
<1>1. PICK c \in ToSet(accepted) : p = c.payload
  BY DEF AcceptedPayloads
<1>2. DOMAIN accepted = 1 .. Len(accepted)
  BY DEF TypeOK
<1> QED BY <1>1, <1>2 DEF ToSet

\* A task whose line is all in the logs has lost nothing.
LEMMA AllLogged ==
    ASSUME TypeOK, AllIn(accepted, Len(accepted), Line), Line = logs
    PROVE  \A p \in AcceptedPayloads : StandsIn(p, logs)
BY AcceptedAt DEF AllIn

\* The logs only grow.
LEMMA LogsGrow ==
    ASSUME TypeOK, [Next]_vars, NEW p, StandsIn(p, logs)
    PROVE  StandsIn(p, logs')
<1>1. CASE logs' = logs
  BY <1>1
<1>2. ASSUME NEW tp \in TopicPartition, BrokerAppends(tp) PROVE StandsIn(p, logs')
  <2>1. /\ logs' = [logs EXCEPT ![tp] = @ \o request[tp]]
        /\ logs \in Records /\ request \in Records
    BY <1>2 DEF BrokerAppends, TypeOK
  <2>2. PICK t \in TopicPartition : \E i \in DOMAIN logs[t] : logs[t][i] = p
    BY DEF StandsIn
  <2>3. PICK i \in DOMAIN logs[t] : logs[t][i] = p
    BY <2>2
  <2>4. CASE t # tp
    <3>1. logs'[t] = logs[t]
      BY <2>1, <2>4 DEF Records
    <3> QED BY <2>3, <3>1 DEF StandsIn
  <2>5. CASE t = tp
    <3> DEFINE a == logs[t]
               b == request[t]
    <3>1. a \in Seq(Payloads) /\ b \in Seq(Payloads) /\ logs'[t] = a \o b /\ i \in DOMAIN a /\ a[i] = p
      BY <2>1, <2>3, <2>5 DEF Records
    <3> HIDE DEF a, b
    <3>2. a \o b \in Seq(Payloads) /\ Len(a \o b) = Len(a) + Len(b) /\ i \in 1 .. Len(a)
          /\ Len(a) \in Nat /\ Len(b) \in Nat
      BY <3>1, TwoParts
    <3>3. i \in DOMAIN (a \o b) /\ (a \o b)[i] = a[i]
      BY <3>1, <3>2, TwoParts
    <3> QED BY <3>1, <3>3 DEF StandsIn
  <2> QED BY <2>4, <2>5
<1>3. (\E tp \in TopicPartition : BrokerAppends(tp)) \/ logs' = logs
  BY DEF Next, Publish, Shutdown, Join, Drop, Batcher, HandleSync, HandleUnknownTopic, HandleAsync,
         HandleShutdown, AllBranchesDisabled, HandleResponse, HandleIoErr, TimerFires,
         ConnectionLost, vars
<1> QED BY <1>1, <1>2, <1>3

LEMMA LostNext ==
    ASSUME ProducerInv, TypeOK', RequestFits', [Next]_vars
    PROVE  NothingLost'
<1>1. /\ TypeOK /\ QueueFits /\ RequestFits /\ NothingLost
      /\ task = "running" => AllIn(accepted, Taken, Line)
  BY DEF ProducerInv
<1>2. connected' => connected
  BY DEF Next, Publish, Shutdown, Join, Drop, Batcher, HandleSync, HandleUnknownTopic, HandleAsync,
         HandleShutdown, AllBranchesDisabled, HandleResponse, HandleIoErr, TimerFires,
         BrokerAppends, ConnectionLost, vars
<1>3. CASE task # "running"
  <2>1. accepted' = accepted
    BY <1>1, <1>3, ChannelNext
  <2>2. task' = task
    BY <1>3 DEF Next, Publish, Shutdown, Join, Drop, Batcher, HandleSync, HandleUnknownTopic,
         HandleAsync, HandleShutdown, AllBranchesDisabled, HandleResponse, HandleIoErr, TimerFires,
         BrokerAppends, ConnectionLost, vars, actorVars, Receive
  <2>3. AcceptedPayloads' = AcceptedPayloads /\ (Poisoned' <=> Poisoned)
    BY <2>1 DEF AcceptedPayloads, Poisoned
  <2> QED BY <1>1, <1>2, <2>2, <2>3, LogsGrow DEF NothingLost
<1>4. CASE task = "running" /\ task' = "done"
  <2>1. Batcher
    BY <1>4 DEF Next, Publish, Shutdown, Join, Drop, TimerFires, Send, Panic, BrokerAppends,
                ConnectionLost, vars, actorVars
  <2>2. ~ HandleSync /\ ~ HandleAsync
    BY <1>4 DEF HandleSync, HandleAsync, Send, Panic
  <2>3. Line' = Line
    BY <1>1, <1>4, <2>2, LineOther
  <2>4. accepted' = accepted /\ Taken = Len(accepted)
    BY <1>1, <1>4, <2>1, ChannelBatcher
  <2>5. Line' = logs'
    <3>1. (logs \in Records /\ request = NoRecords /\ Collected = NoRecords => Line = logs)'
      BY EmptyLine, PTL
    <3>2. request' = NoRecords /\ Collected' = NoRecords /\ logs' \in Records
      BY <1>4 DEF RequestFits, Collected, TypeOK
    <3> QED BY <3>1, <3>2
  <2>6. AllIn(accepted', Len(accepted'), Line')
    BY <1>1, <1>4, <2>3, <2>4
  <2>7. \A p \in AcceptedPayloads' : StandsIn(p, logs')
    <3>1. (TypeOK /\ AllIn(accepted, Len(accepted), Line) /\ Line = logs =>
              \A p \in AcceptedPayloads : StandsIn(p, logs))'
      BY AllLogged, PTL
    <3> QED BY <2>5, <2>6, <3>1
  <2> QED BY <2>7 DEF NothingLost
<1>5. CASE task = "running" /\ task' = "panicked" /\ connected' /\ ~ Poisoned'
  <2>1. HandleUnknownTopic \/ AllBranchesDisabled
    BY <1>2, <1>5 DEF Next, Publish, Shutdown, Join, Drop, Batcher, HandleSync,
         HandleAsync, HandleShutdown, HandleResponse, HandleIoErr, TimerFires, Send,
         BrokerAppends, ConnectionLost, vars, actorVars
  <2>2. ~ HandleUnknownTopic
    <3> SUFFICES ASSUME HandleUnknownTopic PROVE FALSE
      OBVIOUS
    <3>1. /\ Receive("Sync") \/ Receive("Async")
          /\ TopicOf[Head(queue).payload] \notin Topics
          /\ accepted' = accepted
      BY DEF HandleUnknownTopic, clientVars
    <3>2. Taken \in 0 .. Len(accepted) - 1 /\ Head(queue) = accepted[Taken + 1]
      BY <1>1, <3>1, HeadIsNext
    <3>3. Taken + 1 \in DOMAIN accepted
      BY <1>1, <3>2, TakenType DEF TypeOK
    <3>4. Head(queue) \in ToSet(accepted)
      BY <3>2, <3>3 DEF ToSet
    <3> QED BY <1>5, <3>1, <3>4 DEF Poisoned, AcceptedPayloads
  <2>3. /\ awaiting = Nil /\ handle = "dropped" /\ queue = <<>> /\ ~ TimerEnabled
        /\ UNCHANGED <<accepted, logs>>
    BY <2>1, <2>2 DEF AllBranchesDisabled, clientVars
  <2>4. request = NoRecords /\ batch = NoRecords
    BY <1>1, <1>5, <2>3, NilAssumption DEF RequestFits, TimerEnabled, IsEmpty
  <2>5. Line = logs
    BY <1>1, <2>4, LineOfLogs, PartsType DEF Line, Collected
  <2>6. Taken = Len(accepted)
    <3>1. Pending = 0
      BY <2>3 DEF Pending, ShutdownSent
    <3> QED BY <1>1, <3>1, TakenType
  <2>7. \A p \in AcceptedPayloads : StandsIn(p, logs)
    BY <1>1, <1>5, <2>5, <2>6, AllLogged
  <2>8. AcceptedPayloads' = AcceptedPayloads /\ logs' = logs
    BY <2>3 DEF AcceptedPayloads
  <2> QED BY <2>7, <2>8 DEF NothingLost
<1> QED BY <1>3, <1>4, <1>5 DEF NothingLost

-----------------------------------------------------------------------------
(* Theorems *)

LEMMA InvInit == Init => ProducerInv
<1> SUFFICES ASSUME Init PROVE ProducerInv
  OBVIOUS
<1>1. TypeOK
  BY TypeInit
<1>2. queue = <<>> /\ accepted = <<>> /\ Len(queue) = 0 /\ Len(accepted) = 0 /\ handle = "open"
  BY DEF Init
<1>3. Pending = 0 /\ Taken = 0
  BY <1>2 DEF Pending, Taken, ShutdownSent
<1>4. QueueFits
  BY <1>2, <1>3 DEF QueueFits, ShutdownSent, Distinct, Init
<1>5. RequestFits
  BY NilAssumption DEF Init, RequestFits
<1>6. Line = NoRecords
  BY <1>1, LineOfLogs, PartsType, NilAssumption DEF Init, Line, Collected
<1>7. \A tp \in TopicPartition : DOMAIN Line[tp] = {}
  BY <1>6 DEF NoRecords
<1>8. LineFits(accepted, Taken, Line)
  BY <1>2, <1>7 DEF LineFits, Placed, NoneTwice, Ordered
<1>9. AllIn(accepted, Taken, Line)
  BY <1>3 DEF AllIn
<1>10. NothingLost
  BY DEF Init, NothingLost
<1> QED BY <1>1, <1>4, <1>5, <1>8, <1>9, <1>10 DEF ProducerInv

LEMMA InvNext == ProducerInv /\ [Next]_vars => ProducerInv'
<1> SUFFICES ASSUME ProducerInv, [Next]_vars PROVE ProducerInv'
  OBVIOUS
<1>1. TypeOK /\ QueueFits /\ RequestFits
  BY DEF ProducerInv
<1>2. TypeOK'
  BY <1>1, TypeNext
<1>3. QueueFits'
  BY <1>1, <1>2, ChannelNext
<1>4. RequestFits'
  BY <1>1, RequestNext
<1>5. LineFits(accepted', Taken', Line') /\ (task' = "running" => AllIn(accepted', Taken', Line'))
  BY <1>2, <1>3, LineNext
<1>6. NothingLost'
  BY <1>2, <1>4, LostNext
<1> QED BY <1>2, <1>3, <1>4, <1>5, <1>6 DEF ProducerInv

\* The inductive invariant holds in every reachable state.
THEOREM Invariance == Spec => []ProducerInv
<1>1. Init => ProducerInv
  BY InvInit
<1>2. ProducerInv /\ [Next]_vars => ProducerInv'
  BY InvNext
<1> QED BY <1>1, <1>2, PTL DEF Spec

\* The logs are where the line begins, so what holds of the line holds of them.
LEMMA LogsFit ==
    ProducerInv => AtMostOnce /\ KeyOrder
<1> SUFFICES ASSUME ProducerInv PROVE AtMostOnce /\ KeyOrder
  OBVIOUS
<1>1. /\ TypeOK /\ QueueFits /\ LineFits(accepted, Taken, Line)
      /\ logs \in Records /\ Line \in Records /\ Begins(logs, Line)
  BY PartsType, LineOfLogs DEF ProducerInv, Line
<1>2. /\ accepted \in Seq(Publishes) /\ Distinct(accepted) /\ Len(accepted) \in Nat
      /\ Taken \in 0 .. Len(accepted) /\ Extends(accepted, accepted)
  BY <1>1, TakenType DEF TypeOK, Publishes, QueueFits, Extends
<1>3. Taken \in Taken .. Len(accepted)
  BY <1>2
<1>4. LineFits(accepted, Taken, logs)
  BY <1>1, <1>2, <1>3, LineCut
<1> QED BY <1>4 DEF LineFits, AtMostOnce, KeyOrder

\* Every variable of the producer keeps its type.
THEOREM TypeCorrect == Spec => []TypeOK
<1>1. ProducerInv => TypeOK
  BY DEF ProducerInv
<1> QED BY <1>1, Invariance, PTL

\* Neither a shutdown nor a dropped handle loses an accepted payload.
THEOREM NothingLostHolds == Spec => []NothingLost
<1>1. ProducerInv => NothingLost
  BY DEF ProducerInv
<1> QED BY <1>1, Invariance, PTL

\* No payload is appended twice, whichever arm of the loop sent it.
THEOREM AtMostOnceHolds == Spec => []AtMostOnce
<1>1. ProducerInv => AtMostOnce
  BY LogsFit
<1> QED BY <1>1, Invariance, PTL

\* Asynchronous records of one key and one topic keep the order they were
\* accepted in.
THEOREM KeyOrderHolds == Spec => []KeyOrder
<1>1. ProducerInv => KeyOrder
  BY LogsFit
<1> QED BY <1>1, Invariance, PTL

=============================================================================
