--------------------------- MODULE ConsumerProofs ---------------------------
(***************************************************************************)
(* Theorems about the consumer client, for any finite set of partitions,   *)
(* any start offsets, any sizes of answers and of the channel.             *)
(***************************************************************************)
EXTENDS ConsumerProperties, FiniteSetTheorems, SequenceTheorems, TLAPS

-----------------------------------------------------------------------------
(* The inductive invariant *)

\* A loop is at the mutex, once, exactly while it is not asleep.
MutexHeld ==
    /\ Len(mutex) <= 2
    /\ Len(mutex) = 2 => mutex[1] # mutex[2]
    /\ fetchLoop # "sleep" <=> \E i \in 1 .. Len(mutex) : mutex[i] = "fetch"
    /\ metadataLoop # "sleep" <=> \E i \in 1 .. Len(mutex) : mutex[i] = "metadata"
    /\ fetchLoop \in {"asked", "deliver"} => mutex[1] = "fetch"
    /\ metadataLoop = "asked" => mutex[1] = "metadata"

\* There is an exchange on the connection exactly while a loop waits for its
\* answer, and it is that loop's.
OneExchange ==
    /\ Len(stream) <= 1
    /\ ~ connected => stream = <<>>
    /\ stream # <<>> =>
          \/ stream[1].of = "fetch" /\ fetchLoop = "asked"
          \/ stream[1].of = "metadata" /\ metadataLoop = "asked"
    /\ connected /\ (fetchLoop = "asked" \/ metadataLoop = "asked") => stream # <<>>

\* An answer holds, for partitions that are all different, the records from the
\* committed offset on, which the broker has; of the first one some may
\* have been handed over.
Follows(response) ==
    LET p == response.partition IN
    /\ commitOffset[p] + response.count <= leo[p]
    /\ Len(response.todo) <= response.count
    /\ \A k \in 1 .. Len(response.todo) :
          response.todo[k] = commitOffset[p] + response.count - Len(response.todo) + k - 1
Fits(responses) ==
    /\ \A i, j \in DOMAIN responses :
          responses[i].partition = responses[j].partition => i = j
    /\ \A i \in DOMAIN responses : Follows(responses[i])
    /\ \A i \in DOMAIN responses : i # 1 => Len(responses[i].todo) = responses[i].count

AnswersFit ==
    /\ \A p \in Partitions : commitOffset[p] <= leo[p]
    /\ Fits(answer)
    /\ fetchLoop # "deliver" => answer = <<>>
    /\ stream # <<>> /\ stream[1].of = "fetch" =>
          /\ stream[1].offsets = commitOffset
          /\ stream[1].answer # Nil =>
                /\ Fits(stream[1].answer)
                /\ \A i \in DOMAIN stream[1].answer :
                      Len(stream[1].answer[i].todo) = stream[1].answer[i].count

ConsumerInv ==
    /\ TypeOK
    /\ MutexHeld
    /\ OneExchange
    /\ AnswersFit
    /\ EachRecordOnce

-----------------------------------------------------------------------------
(* Operators *)

\* The smaller of a size that fits and the records there are, but not less than 0.
LEMMA FoundRecords ==
    ASSUME NEW fit \in Nat, NEW rest \in Int
    PROVE  /\ Max({0, Min({fit, rest})}) \in Nat
           /\ rest >= 0 => Max({0, Min({fit, rest})}) <= rest
           /\ rest < 0 => Max({0, Min({fit, rest})}) = 0
<1>1. Min({fit, rest}) = IF fit <= rest THEN fit ELSE rest
  BY DEF Min
<1>2. Min({fit, rest}) \in Int
  BY <1>1
<1>3. ASSUME NEW m \in Int PROVE Max({0, m}) = IF m <= 0 THEN 0 ELSE m
  BY DEF Max
<1> QED BY <1>1, <1>2, <1>3

\* The partitions of a request, in the order of its answer, are all different.
LEMMA PartitionsInOrder ==
    /\ SetToSeq(Partitions) \in Seq(Partitions)
    /\ \A i, j \in DOMAIN SetToSeq(Partitions) :
          SetToSeq(Partitions)[i] = SetToSeq(Partitions)[j] => i = j
<1> DEFINE n == Cardinality(Partitions)
<1>1. n \in Nat /\ ExistsBijection(1 .. n, Partitions)
  BY OffsetAssumption, FS_CardinalityType
<1>2. \E f \in [1 .. n -> Partitions] : IsInjective(f)
  BY <1>1 DEF ExistsBijection, Bijection, Injection, Surjection
<1>3. /\ SetToSeq(Partitions) \in [1 .. n -> Partitions]
      /\ IsInjective(SetToSeq(Partitions))
  BY <1>2 DEF SetToSeq
<1>4. SetToSeq(Partitions) \in Seq(Partitions)
  BY <1>1, <1>3
<1> QED BY <1>3, <1>4 DEF IsInjective

-----------------------------------------------------------------------------
(* Type correctness *)

\* Init and every action keep the types; a loop that unlocks is at the mutex.
LEMMA TypeInit == Init => TypeOK
<1> SUFFICES ASSUME Init PROVE TypeOK
  OBVIOUS
<1>1. received \in [Partitions -> Seq(Nat)]
  BY DEF Init
<1> QED BY <1>1, OffsetAssumption, SizeAssumption DEF Init, TypeOK

LEMMA TypeMetadataLoop ==
    ASSUME TypeOK, MutexHeld, MetadataLoop PROVE TypeOK'
<1>1. ASSUME MetadataTick PROVE TypeOK'
  BY <1>1 DEF TypeOK, MetadataTick, brokerVars, appVars, Loops
<1>2. ASSUME MetadataRequest PROVE TypeOK'
  BY <1>2 DEF TypeOK, MetadataRequest, Ask, appVars, Loops, Exchange
<1>3. ASSUME MetadataDone PROVE TypeOK'
  <2>1. stream' \in Seq(Exchange)
    <3>1. CASE stream # <<>> /\ stream' = Tail(stream)
      BY <3>1, HeadTailProperties DEF TypeOK
    <3> QED BY <1>3, <3>1 DEF TypeOK, MetadataDone, Answered
  <2>2. mutex # <<>>
    BY <1>3 DEF MetadataDone, MutexHeld, TypeOK
  <2>3. mutex' \in Seq(Loops)
    BY <1>3, <2>2, HeadTailProperties DEF MetadataDone, Unlocked, TypeOK
  <2> QED BY <1>3, <2>1, <2>3 DEF TypeOK, MetadataDone, appVars
<1> QED BY <1>1, <1>2, <1>3 DEF MetadataLoop

LEMMA TypeFetchLoop ==
    ASSUME TypeOK, MutexHeld, FetchLoop PROVE TypeOK'
<1>0. /\ fetchLoop # "sleep" => mutex # <<>>
      /\ mutex # <<>> => Tail(mutex) \in Seq(Loops) /\ Append(Tail(mutex), "fetch") \in Seq(Loops)
      /\ stream # <<>> => Head(stream) \in Exchange /\ Tail(stream) \in Seq(Exchange)
      /\ answer # <<>> => Head(answer) \in PartitionResponse /\ Tail(answer) \in Seq(PartitionResponse)
  BY HeadTailProperties, "fetch" \in Loops DEF MutexHeld, TypeOK, Loops
<1>1. ASSUME FetchWake PROVE TypeOK'
  BY <1>1 DEF TypeOK, FetchWake, brokerVars, appVars, Loops
<1>2. ASSUME FetchRequest PROVE TypeOK'
  BY <1>2 DEF TypeOK, FetchRequest, Ask, appVars, Loops, Exchange
<1>3. ASSUME FetchError PROVE TypeOK'
  BY <1>0, <1>3 DEF TypeOK, FetchError, Unlocked, Owns, brokerVars, appVars
<1>4. ASSUME FetchEmpty PROVE TypeOK'
  BY <1>0, <1>4 DEF TypeOK, FetchEmpty, Unlocked, Answered, appVars
<1>5. ASSUME FetchResponse PROVE TypeOK'
  BY <1>0, <1>5 DEF TypeOK, FetchResponse, Answered, Exchange, appVars
<1>6. ASSUME Deliver PROVE TypeOK'
  <2> DEFINE next == [Head(answer) EXCEPT !.todo = Tail(@)]
  <2>1. /\ answer # <<>> /\ Head(answer) = answer[1]
        /\ Head(answer).partition \in Partitions /\ Head(answer).count \in Nat
        /\ Head(answer).todo \in Seq(Nat) /\ Head(answer).todo # <<>>
    <3>1. answer # <<>> /\ Head(answer).todo # <<>> /\ Head(answer) \in PartitionResponse
      BY <1>0, <1>6 DEF Deliver
    <3>2. Head(answer) = answer[1]
      BY <3>1 DEF TypeOK
    <3> QED BY <3>1, <3>2 DEF PartitionResponse
  <2>2. Head(Head(answer).todo) \in Nat /\ Tail(Head(answer).todo) \in Seq(Nat)
    BY <2>1, HeadTailProperties
  <2>3. next \in PartitionResponse
    BY <1>0, <2>1, <2>2 DEF PartitionResponse
  <2>4. answer' = [answer EXCEPT ![1] = next]
    BY <1>6, <2>1 DEF Deliver
  <2>5. answer' \in Seq(PartitionResponse)
    <3>1. 1 \in 1 .. Len(answer) /\ answer \in Seq(PartitionResponse)
      BY <2>1 DEF TypeOK
    <3> HIDE DEF next
    <3> QED BY <2>3, <2>4, <3>1, ExceptSeq
  <2>6. channel' \in Seq(Record) /\ Len(channel') <= ChannelSize
    <3> DEFINE record == <<Head(answer).partition, Head(Head(answer).todo)>>
    <3>1. record \in Record
      BY <2>1, <2>2 DEF Record
    <3>2. \/ channel' = channel
          \/ channel' = Append(channel, record) /\ Len(channel) < ChannelSize
      BY <1>6 DEF Deliver, SendReturns, HasRoom
    <3>3. channel \in Seq(Record) /\ Len(channel) <= ChannelSize /\ ChannelSize \in Nat
      BY SizeAssumption DEF TypeOK
    <3> HIDE DEF record
    <3> QED BY <3>1, <3>2, <3>3
  <2> QED BY <1>6, <2>5, <2>6 DEF TypeOK, Deliver, brokerVars
<1>7. ASSUME PartitionDone PROVE TypeOK'
  <2>1. Head(answer).partition \in Partitions /\ Head(answer).count \in Nat
    BY <1>0, <1>7 DEF PartitionDone, PartitionResponse
  <2>2. commitOffset' \in [Partitions -> Nat]
    BY <1>7, <2>1, SMTT(30) DEF PartitionDone, Advance, TypeOK
  <2> QED BY <1>0, <1>7, <2>2 DEF TypeOK, PartitionDone, brokerVars, appVars
<1>8. ASSUME FetchAgain PROVE TypeOK'
  BY <1>0, <1>8 DEF TypeOK, FetchAgain, Unlocked, brokerVars, appVars
<1> QED BY <1>1, <1>2, <1>3, <1>4, <1>5, <1>6, <1>7, <1>8 DEF FetchLoop

\* What BrokerAnswers may put on the stream.
LEMMA AnswerForm ==
    ASSUME TypeOK, BrokerAnswers
    PROVE  /\ stream # <<>> /\ stream[1] \in Exchange
           /\ \E responses \in Seq(PartitionResponse) :
                 /\ stream' = [stream EXCEPT ![1] = [stream[1] EXCEPT !.answer = responses]]
                 /\ stream[1].of = "metadata" => responses = <<>>
                 /\ \A i, j \in DOMAIN responses :
                       responses[i].partition = responses[j].partition => i = j
                 /\ \A i \in DOMAIN responses :
                       LET r == responses[i]
                           rest == leo[r.partition] - stream[1].offsets[r.partition]
                       IN  /\ rest >= 0 => r.count <= rest
                           /\ Len(r.todo) = r.count
                           /\ \A k \in 1 .. r.count :
                                 r.todo[k] = stream[1].offsets[r.partition] + k - 1
<1>1. stream # <<>> /\ stream \in Seq(Exchange) /\ Head(stream) = stream[1] /\ 1 \in DOMAIN stream
  BY DEF BrokerAnswers, TypeOK
<1>2. stream[1] \in Exchange /\ stream[1].offsets \in [Partitions -> Nat]
  <2>1. stream[1] \in Exchange
    BY <1>1, ElementOfSeq
  <2> QED BY <2>1 DEF Exchange
<1> DEFINE asked == Head(stream).offsets
           ps == SetToSeq(Partitions)
           found(fit, p) == Max({0, Min({fit[p], leo[p] - asked[p]})})
           response(fit, p) == [partition |-> p, count |-> found(fit, p),
                                todo |-> [i \in 1 .. found(fit, p) |-> asked[p] + i - 1]]
           responses(fit) == IF Head(stream).of = "metadata" THEN <<>>
                             ELSE [i \in 1 .. Len(ps) |-> response(fit, ps[i])]
<1>3. PICK fit \in [Partitions -> 1 .. FetchMax] :
         stream' = [stream EXCEPT ![1].answer = responses(fit)]
  BY DEF BrokerAnswers
<1>4. ASSUME NEW p \in Partitions
      PROVE  /\ found(fit, p) \in Nat
             /\ leo[p] - asked[p] >= 0 => found(fit, p) <= leo[p] - asked[p]
             /\ response(fit, p) \in PartitionResponse
             /\ Len(response(fit, p).todo) = found(fit, p)
  <2>1. fit[p] \in Nat /\ leo[p] - asked[p] \in Int /\ asked[p] \in Nat
    <3>1. FetchMax \in Nat /\ leo \in [Partitions -> Nat]
      BY SizeAssumption DEF TypeOK
    <3> QED BY <1>1, <1>2, <3>1
  <2>2. /\ found(fit, p) \in Nat
        /\ leo[p] - asked[p] >= 0 => found(fit, p) <= leo[p] - asked[p]
    BY <2>1, FoundRecords
  <2> HIDE DEF found
  <2>3. [i \in 1 .. found(fit, p) |-> asked[p] + i - 1] \in Seq(Nat)
    BY <2>1, <2>2
  <2> QED BY <2>2, <2>3 DEF PartitionResponse
<1>5. responses(fit) \in Seq(PartitionResponse)
  <2>1. ps \in Seq(Partitions)
    BY PartitionsInOrder
  <2>2. \A p \in Partitions : response(fit, p) \in PartitionResponse
    BY <1>4
  <2> HIDE DEF response, ps
  <2>3. [i \in 1 .. Len(ps) |-> response(fit, ps[i])] \in Seq(PartitionResponse)
    BY <2>1, <2>2
  <2> QED BY <2>3
<1>6. \A i, j \in DOMAIN responses(fit) :
         responses(fit)[i].partition = responses(fit)[j].partition => i = j
  BY PartitionsInOrder, SMTT(30)
<1>7. ASSUME NEW i \in DOMAIN responses(fit)
      PROVE  LET r == responses(fit)[i]
                 rest == leo[r.partition] - asked[r.partition]
             IN  /\ rest >= 0 => r.count <= rest
                 /\ Len(r.todo) = r.count
                 /\ \A k \in 1 .. r.count : r.todo[k] = asked[r.partition] + k - 1
  <2>1. ps[i] \in Partitions /\ responses(fit)[i] = response(fit, ps[i])
    <3>1. ps \in Seq(Partitions)
      BY PartitionsInOrder
    <3> HIDE DEF ps, response
    <3> QED BY <3>1
  <2> DEFINE p == ps[i]
  <2>2. /\ found(fit, p) \in Nat
        /\ leo[p] - asked[p] >= 0 => found(fit, p) <= leo[p] - asked[p]
        /\ Len(response(fit, p).todo) = found(fit, p)
    BY <1>4, <2>1
  <2>3. /\ response(fit, p).partition = p /\ response(fit, p).count = found(fit, p)
        /\ \A k \in 1 .. found(fit, p) : response(fit, p).todo[k] = asked[p] + k - 1
    OBVIOUS
  <2> HIDE DEF p, response, found, asked, responses
  <2> QED BY <2>1, <2>2, <2>3 DEF p
<1>8. stream' = [stream EXCEPT ![1] = [stream[1] EXCEPT !.answer = responses(fit)]]
  BY <1>1, <1>3
<1>9. asked = stream[1].offsets /\ (stream[1].of = "metadata" => responses(fit) = <<>>)
  BY <1>1
<1> HIDE DEF responses, asked
<1> QED BY <1>1, <1>2, <1>5, <1>6, <1>7, <1>8, <1>9

LEMMA TypeEnvironment ==
    ASSUME TypeOK,
           \/ Take \/ Close \/ BrokerAnswers \/ ConnectionLost
           \/ \E p \in Partitions : BrokerAppends(p)
    PROVE  TypeOK'
<1>1. ASSUME Take PROVE TypeOK'
  <2>1. channel # <<>> /\ Head(channel) \in Record /\ Tail(channel) \in Seq(Record)
        /\ Len(Tail(channel)) <= ChannelSize
    <3>1. channel # <<>> /\ channel \in Seq(Record) /\ Len(channel) <= ChannelSize
      BY <1>1 DEF Take, TypeOK
    <3>2. ChannelSize \in Nat
      BY SizeAssumption
    <3> QED BY <3>1, <3>2, HeadTailProperties
  <2>2. Head(channel)[1] \in Partitions /\ Head(channel)[2] \in Nat
    BY <2>1 DEF Record
  <2>3. received' \in [Partitions -> Seq(Nat)]
    BY <1>1, <2>2 DEF Take, TypeOK
  <2> QED BY <1>1, <2>1, <2>3 DEF TypeOK, Take, brokerVars
<1>2. ASSUME Close PROVE TypeOK'
  <2>1. ChannelSize \in Nat /\ Len(<<>>) = 0 /\ <<>> \in Seq(Record)
    BY SizeAssumption
  <2>2. channel' \in Seq(Record) /\ Len(channel') <= ChannelSize
    <3>1. channel' = <<>>
      BY <1>2 DEF Close
    <3> QED BY <2>1, <3>1
  <2> QED BY <1>2, <2>2 DEF TypeOK, Close, brokerVars
<1>3. ASSUME BrokerAnswers PROVE TypeOK'
  <2>1. PICK responses \in Seq(PartitionResponse) :
           stream' = [stream EXCEPT ![1] = [stream[1] EXCEPT !.answer = responses]]
    BY <1>3, AnswerForm
  <2>2. stream # <<>> /\ stream[1] \in Exchange
    BY <1>3, AnswerForm
  <2> DEFINE next == [stream[1] EXCEPT !.answer = responses]
  <2>3. next \in Exchange
    BY <2>2 DEF Exchange
  <2>4. stream' \in Seq(Exchange)
    <3>1. 1 \in 1 .. Len(stream) /\ stream \in Seq(Exchange)
      BY <2>2 DEF TypeOK
    <3>2. stream' = [stream EXCEPT ![1] = next]
      BY <2>1
    <3> HIDE DEF next
    <3> QED BY <2>3, <3>1, <3>2, ExceptSeq
  <2> QED BY <1>3, <2>4 DEF TypeOK, BrokerAnswers, appVars
<1>4. ASSUME ConnectionLost PROVE TypeOK'
  <2>1. stream' = <<>> /\ <<>> \in Seq(Exchange)
    BY <1>4 DEF ConnectionLost
  <2>2. stream' \in Seq(Exchange)
    BY <2>1
  <2> QED BY <1>4, <2>2 DEF TypeOK, ConnectionLost, appVars
<1>5. ASSUME NEW p \in Partitions, BrokerAppends(p) PROVE TypeOK'
  <2>1. leo' \in [Partitions -> Nat]
    BY <1>5 DEF TypeOK, BrokerAppends
  <2>2. UNCHANGED <<stream, commitOffset, fetchLoop, metadataLoop, mutex, answer,
                    channel, received, open, connected>>
    BY <1>5 DEF BrokerAppends, appVars
  <2> QED BY <2>1, <2>2 DEF TypeOK
<1> QED BY <1>1, <1>2, <1>3, <1>4, <1>5

-----------------------------------------------------------------------------
(* The mutex and the connection *)

\* The mutex after a loop has queued for it, and after its owner has left it.
LEMMA Queues ==
    ASSUME NEW q \in Seq(Loops), NEW loop \in Loops
    PROVE  /\ Len(q) \in Nat
           /\ Append(q, loop) \in Seq(Loops)
           /\ Len(Append(q, loop)) = Len(q) + 1
           /\ \A i \in 1 .. Len(q) : Append(q, loop)[i] = q[i]
           /\ Append(q, loop)[Len(q) + 1] = loop
BY AppendProperties, LenProperties

LEMMA Leaves ==
    ASSUME TypeOK, mutex # <<>>
    PROVE  /\ Len(mutex) \in Nat \ {0} /\ mutex[1] \in Loops
           /\ Len(mutex) > 1 => mutex[2] \in Loops
           /\ Head(mutex) = mutex[1]
           /\ Tail(mutex) \in Seq(Loops) /\ Len(Tail(mutex)) = Len(mutex) - 1
           /\ Len(mutex) > 1 => Tail(mutex)[1] = mutex[2]
<1>1. mutex \in Seq(Loops)
  BY DEF TypeOK
<1>2. Len(mutex) \in Nat \ {0} /\ Head(mutex) = mutex[1] /\ mutex[1] \in Loops
  BY <1>1
<1>3. Len(mutex) > 1 => mutex[2] \in Loops
  BY <1>1, <1>2
<1>4. /\ Tail(mutex) \in Seq(Loops) /\ Len(Tail(mutex)) = Len(mutex) - 1
      /\ \A i \in 1 .. Len(mutex) - 1 : Tail(mutex)[i] = mutex[i + 1]
  BY <1>1, HeadTailProperties
<1>5. Len(mutex) > 1 => Tail(mutex)[1] = mutex[2]
  BY <1>2, <1>4
<1> QED BY <1>2, <1>3, <1>4, <1>5

LEMMA MutexMetadataLoop ==
    ASSUME TypeOK, MutexHeld, MetadataLoop PROVE MutexHeld'
<1>0. /\ mutex \in Seq(Loops) /\ Len(mutex) \in Nat
      /\ \A i \in 1 .. Len(mutex) : mutex[i] = "fetch" \/ mutex[i] = "metadata"
      /\ mutex # <<>> <=> Len(mutex) > 0
  BY DEF TypeOK, Loops
<1>1. ASSUME MetadataTick PROVE MutexHeld'
  <2>1. /\ Len(mutex') = Len(mutex) + 1 /\ mutex'[Len(mutex) + 1] = "metadata"
        /\ \A i \in 1 .. Len(mutex) : mutex'[i] = mutex[i]
    BY <1>0, <1>1, Queues, "metadata" \in Loops DEF MetadataTick, Loops
  <2>2. Len(mutex) <= 1
    <3>1. Len(mutex) # 2
      <4>1. \A i \in 1 .. Len(mutex) : mutex[i] # "metadata"
        BY <1>1 DEF MutexHeld, MetadataTick
      <4>2. Len(mutex) = 2 => mutex[1] = mutex[2]
        BY <1>0, <4>1
      <4> QED BY <4>2 DEF MutexHeld
    <3>2. Len(mutex) <= 2 /\ Len(mutex) \in Nat
      BY <1>0 DEF MutexHeld
    <3> QED BY <3>1, <3>2
  <2> QED BY <1>0, <1>1, <2>1, <2>2 DEF MutexHeld, MetadataTick
<1>2. ASSUME MetadataRequest PROVE MutexHeld'
  BY <1>0, <1>2, Leaves DEF MutexHeld, MetadataRequest, Owns
<1>3. ASSUME MetadataDone PROVE MutexHeld'
  <2>1. mutex # <<>> /\ mutex[1] = "metadata"
    BY <1>0, <1>3, Leaves DEF MutexHeld, MetadataDone, Owns
  <2>2. /\ Len(mutex') = Len(mutex) - 1
        /\ Len(mutex) = 2 => mutex'[1] = mutex[2]
    BY <1>3, <2>1, Leaves DEF MetadataDone, Unlocked
  <2> QED BY <1>0, <1>3, <2>1, <2>2 DEF MutexHeld, MetadataDone
<1> QED BY <1>1, <1>2, <1>3 DEF MetadataLoop

LEMMA MutexFetchLoop ==
    ASSUME TypeOK, MutexHeld, FetchLoop PROVE MutexHeld'
<1>0. /\ mutex \in Seq(Loops) /\ Len(mutex) \in Nat
      /\ \A i \in 1 .. Len(mutex) : mutex[i] = "fetch" \/ mutex[i] = "metadata"
      /\ mutex # <<>> <=> Len(mutex) > 0
  BY DEF TypeOK, Loops
<1>1. ASSUME FetchWake PROVE MutexHeld'
  <2>1. /\ Len(mutex') = Len(mutex) + 1 /\ mutex'[Len(mutex) + 1] = "fetch"
        /\ \A i \in 1 .. Len(mutex) : mutex'[i] = mutex[i]
    BY <1>0, <1>1, Queues, "fetch" \in Loops DEF FetchWake, Loops
  <2>2. Len(mutex) <= 1
    <3>1. Len(mutex) # 2
      <4>1. \A i \in 1 .. Len(mutex) : mutex[i] # "fetch"
        BY <1>1 DEF MutexHeld, FetchWake
      <4>2. Len(mutex) = 2 => mutex[1] = mutex[2]
        BY <1>0, <4>1
      <4> QED BY <4>2 DEF MutexHeld
    <3>2. Len(mutex) <= 2 /\ Len(mutex) \in Nat
      BY <1>0 DEF MutexHeld
    <3> QED BY <3>1, <3>2
  <2> QED BY <1>0, <1>1, <2>1, <2>2 DEF MutexHeld, FetchWake
<1>2. ASSUME FetchRequest PROVE MutexHeld'
  BY <1>0, <1>2, Leaves DEF MutexHeld, FetchRequest, Owns
<1>3. ASSUME FetchError \/ FetchEmpty PROVE MutexHeld'
  <2>1. mutex # <<>> /\ mutex[1] = "fetch"
    BY <1>0, <1>3, Leaves DEF MutexHeld, FetchError, FetchEmpty, Owns
  <2>2. /\ Len(mutex') = Len(mutex) - 1
        /\ Len(mutex) = 2 => mutex'[1] = mutex[2]
    <3>1. mutex' = Tail(mutex)
      BY <1>3 DEF FetchError, FetchEmpty, Unlocked
    <3> QED BY <2>1, <3>1, Leaves
  <2> QED BY <1>0, <1>3, <2>1, <2>2 DEF MutexHeld, FetchError, FetchEmpty
<1>4. ASSUME FetchResponse \/ Deliver \/ PartitionDone PROVE MutexHeld'
  BY <1>0, <1>4 DEF MutexHeld, FetchResponse, Deliver, PartitionDone
<1>5. ASSUME FetchAgain PROVE MutexHeld'
  <2>1. mutex # <<>> /\ mutex[1] = "fetch"
    BY <1>0, <1>5, Leaves DEF MutexHeld, FetchAgain
  <2>2. /\ Tail(mutex) \in Seq(Loops) /\ Len(Tail(mutex)) = Len(mutex) - 1
        /\ Len(mutex) = 2 => Tail(mutex)[1] = mutex[2]
    BY <2>1, Leaves
  <2>3. /\ Len(mutex') = Len(mutex) /\ mutex'[Len(mutex)] = "fetch"
        /\ \A i \in 1 .. Len(mutex) - 1 : mutex'[i] = Tail(mutex)[i]
    BY <1>0, <1>5, <2>2, Queues, "fetch" \in Loops DEF FetchAgain, Unlocked, Loops
  <2> QED BY <1>0, <1>5, <2>1, <2>2, <2>3 DEF MutexHeld, FetchAgain
<1> QED BY <1>1, <1>2, <1>3, <1>4, <1>5 DEF FetchLoop

\* Between two exchanges the connection is empty.
LEMMA Stream ==
    ASSUME TypeOK, OneExchange
    PROVE  /\ stream # <<>> =>
                 /\ Len(stream) = 1 /\ stream[1] \in Exchange
                 /\ Head(stream) = stream[1] /\ Tail(stream) = <<>>
           /\ stream = <<>> => \A e : Append(stream, e)[1] = e /\ Len(Append(stream, e)) = 1
<1>1. stream \in Seq(Exchange)
  BY DEF TypeOK
<1>2. ASSUME stream # <<>>
      PROVE  Len(stream) = 1 /\ stream[1] \in Exchange /\ Head(stream) = stream[1]
  <2>1. Len(stream) \in Nat \ {0} /\ Head(stream) = stream[1] /\ stream[1] \in Exchange
    BY <1>1, <1>2
  <2>2. Len(stream) <= 1
    BY DEF OneExchange
  <2>3. Len(stream) = 1
    <3>1. \A n \in Nat \ {0} : n <= 1 => n = 1
      OBVIOUS
    <3> QED BY <2>1, <2>2, <3>1
  <2> QED BY <2>1, <2>3
<1>3. ASSUME stream # <<>> PROVE Tail(stream) = <<>>
  <2>1. Tail(stream) \in Seq(Exchange) /\ Len(Tail(stream)) = 0
    BY <1>1, <1>2, <1>3, HeadTailProperties
  <2> QED BY <2>1, EmptySeq
<1>4. ASSUME stream = <<>>, NEW e PROVE Append(stream, e)[1] = e /\ Len(Append(stream, e)) = 1
  BY <1>4
<1> QED BY <1>2, <1>3, <1>4

LEMMA ExchangeKept ==
    ASSUME TypeOK, MutexHeld, OneExchange, [Next]_vars
    PROVE  OneExchange'
<1>0. mutex # <<>> => Head(mutex) = mutex[1]
  BY Leaves
<1>1. ASSUME MetadataTick \/ FetchWake PROVE OneExchange'
  BY <1>1 DEF OneExchange, MetadataTick, FetchWake, brokerVars
<1>2. ASSUME MetadataRequest PROVE OneExchange'
  <2>1. stream = <<>> /\ fetchLoop # "asked"
    BY <1>0, <1>2 DEF MutexHeld, OneExchange, MetadataRequest, Owns
  <2>2. stream' # <<>> /\ Len(stream') = 1 /\ stream'[1].of = "metadata"
    BY <1>2, <2>1, Stream DEF MetadataRequest, Ask
  <2> QED BY <1>2, <2>2 DEF OneExchange, MetadataRequest
<1>3. ASSUME MetadataDone PROVE OneExchange'
  <2>1. stream' = <<>> /\ fetchLoop # "asked" /\ metadataLoop' = "sleep"
    BY <1>0, <1>3, Stream DEF MutexHeld, OneExchange, MetadataDone, Owns, Answered
  <2> QED BY <1>3, <2>1 DEF OneExchange, MetadataDone
<1>4. ASSUME FetchRequest PROVE OneExchange'
  <2>1. stream = <<>> /\ metadataLoop # "asked"
    BY <1>0, <1>4 DEF MutexHeld, OneExchange, FetchRequest, Owns
  <2>2. stream' # <<>> /\ Len(stream') = 1 /\ stream'[1].of = "fetch"
    BY <1>4, <2>1, Stream DEF FetchRequest, Ask
  <2> QED BY <1>4, <2>2 DEF OneExchange, FetchRequest
<1>5. ASSUME FetchError PROVE OneExchange'
  BY <1>0, <1>5 DEF MutexHeld, OneExchange, FetchError, Owns, brokerVars
<1>6. ASSUME FetchEmpty \/ FetchResponse PROVE OneExchange'
  <2>1. stream' = <<>> /\ metadataLoop # "asked" /\ fetchLoop' # "asked"
    BY <1>6, Stream DEF MutexHeld, FetchEmpty, FetchResponse, Answered
  <2> QED BY <1>6, <2>1 DEF OneExchange, FetchEmpty, FetchResponse
<1>7. ASSUME Deliver \/ PartitionDone \/ FetchAgain PROVE OneExchange'
  BY <1>7 DEF OneExchange, Deliver, PartitionDone, FetchAgain, brokerVars
<1>8. ASSUME Take \/ Close PROVE OneExchange'
  BY <1>8 DEF OneExchange, Take, Close, brokerVars
<1>9. ASSUME BrokerAnswers PROVE OneExchange'
  <2>1. stream # <<>> /\ Len(stream) = 1 /\ stream[1] \in Exchange
    BY <1>9, Stream DEF BrokerAnswers
  <2>2. PICK responses \in Seq(PartitionResponse) :
           stream' = [stream EXCEPT ![1] = [stream[1] EXCEPT !.answer = responses]]
    BY <1>9, AnswerForm
  <2>3. stream' # <<>> /\ Len(stream') = 1 /\ stream'[1].of = stream[1].of
    <3>1. stream \in Seq(Exchange)
      BY DEF TypeOK
    <3> QED BY <2>1, <2>2, <3>1 DEF Exchange
  <2> QED BY <1>9, <2>1, <2>3 DEF OneExchange, BrokerAnswers
<1>10. ASSUME ConnectionLost PROVE OneExchange'
  BY <1>10 DEF OneExchange, ConnectionLost
<1>11. ASSUME NEW p \in Partitions, BrokerAppends(p) PROVE OneExchange'
  BY <1>11 DEF OneExchange, BrokerAppends
<1>12. ASSUME UNCHANGED vars PROVE OneExchange'
  BY <1>12 DEF OneExchange, vars, brokerVars
<1> QED
  BY <1>1, <1>2, <1>3, <1>4, <1>5, <1>6, <1>7, <1>8, <1>9, <1>10, <1>11, <1>12
     DEF Next, MetadataLoop, FetchLoop

-----------------------------------------------------------------------------
(* The records of an answer *)

\* The form of an answer: its first partition and the others.
LEMMA Responses ==
    ASSUME NEW a \in Seq(PartitionResponse)
    PROVE  /\ Len(a) \in Nat /\ DOMAIN a = 1 .. Len(a)
           /\ \A i \in DOMAIN a : /\ a[i].partition \in Partitions /\ a[i].count \in Nat
                                   /\ a[i].todo \in Seq(Nat) /\ Len(a[i].todo) \in Nat
           /\ a # <<>> => /\ 1 \in DOMAIN a /\ Head(a) = a[1]
                          /\ Tail(a) \in Seq(PartitionResponse)
                          /\ DOMAIN Tail(a) = 1 .. Len(a) - 1
                          /\ \A i \in DOMAIN Tail(a) : Tail(a)[i] = a[i + 1]
<1>1. Len(a) \in Nat /\ DOMAIN a = 1 .. Len(a)
  BY LenProperties
<1>2. ASSUME NEW i \in DOMAIN a
      PROVE  /\ a[i].partition \in Partitions /\ a[i].count \in Nat
             /\ a[i].todo \in Seq(Nat) /\ Len(a[i].todo) \in Nat
  <2>1. a[i] \in PartitionResponse
    BY <1>1, ElementOfSeq
  <2> QED BY <2>1 DEF PartitionResponse
<1>3. ASSUME a # <<>>
      PROVE  /\ 1 \in DOMAIN a /\ Head(a) = a[1]
             /\ Tail(a) \in Seq(PartitionResponse)
             /\ DOMAIN Tail(a) = 1 .. Len(a) - 1
             /\ \A i \in DOMAIN Tail(a) : Tail(a)[i] = a[i + 1]
  <2>1. 1 \in DOMAIN a /\ Head(a) = a[1]
    BY <1>3
  <2>2. /\ Tail(a) \in Seq(PartitionResponse) /\ Len(Tail(a)) = Len(a) - 1
        /\ \A i \in 1 .. Len(Tail(a)) : Tail(a)[i] = a[i + 1]
    BY <1>3, HeadTailProperties
  <2>3. DOMAIN Tail(a) = 1 .. Len(Tail(a))
    BY <2>2, LenProperties
  <2> QED BY <2>1, <2>2, <2>3
<1> QED BY <1>1, <1>2, <1>3

\* What Deliver does to an answer.
LEMMA Delivered ==
    ASSUME TypeOK, MutexHeld, Deliver
    PROVE  LET todo == answer[1].todo IN
           /\ answer # <<>> /\ todo \in Seq(Nat) /\ todo # <<>>
           /\ Len(todo) \in Nat \ {0} /\ Head(todo) = todo[1]
           /\ DOMAIN answer' = DOMAIN answer /\ answer' # <<>> /\ Head(answer') = answer'[1]
           /\ answer'[1].partition = answer[1].partition
           /\ answer'[1].count = answer[1].count
           /\ answer'[1].todo = Tail(todo)
           /\ Tail(todo) \in Seq(Nat) /\ Len(Tail(todo)) = Len(todo) - 1
           /\ \A k \in 1 .. Len(todo) - 1 : Tail(todo)[k] = todo[k + 1]
           /\ \A i \in DOMAIN answer : i # 1 => answer'[i] = answer[i]
<1> DEFINE todo == answer[1].todo
<1>1. /\ answer \in Seq(PartitionResponse) /\ answer # <<>> /\ Head(answer) = answer[1]
      /\ 1 \in DOMAIN answer /\ Len(answer) \in Nat \ {0} /\ DOMAIN answer = 1 .. Len(answer)
  BY DEF Deliver, TypeOK
<1>2. todo \in Seq(Nat) /\ todo # <<>>
  BY <1>1, Responses DEF Deliver
<1>3. /\ Len(todo) \in Nat \ {0} /\ Head(todo) = todo[1]
      /\ Tail(todo) \in Seq(Nat) /\ Len(Tail(todo)) = Len(todo) - 1
      /\ \A k \in 1 .. Len(todo) - 1 : Tail(todo)[k] = todo[k + 1]
  <2> HIDE DEF todo
  <2>1. /\ Tail(todo) \in Seq(Nat) /\ Len(Tail(todo)) = Len(todo) - 1
        /\ \A k \in 1 .. Len(Tail(todo)) : Tail(todo)[k] = todo[k + 1]
    BY <1>2, HeadTailProperties
  <2>2. Len(todo) \in Nat \ {0} /\ Head(todo) = todo[1]
    BY <1>2
  <2> QED BY <2>1, <2>2
<1>4. answer' = [answer EXCEPT ![1].todo = Tail(@)]
  BY DEF Deliver
<1>5. answer[1] \in PartitionResponse
  BY <1>1, ElementOfSeq
<1>6. /\ DOMAIN answer' = DOMAIN answer
      /\ answer'[1].partition = answer[1].partition
      /\ answer'[1].count = answer[1].count
      /\ answer'[1].todo = Tail(todo)
      /\ \A i \in DOMAIN answer : i # 1 => answer'[i] = answer[i]
  BY <1>1, <1>4, <1>5 DEF PartitionResponse
<1>7. answer' # <<>> /\ Head(answer') = answer'[1]
  <2>1. answer' # <<>>
    BY <1>1, <1>6
  <2>2. answer' \in Seq(PartitionResponse)
    BY TypeFetchLoop DEF TypeOK, FetchLoop
  <2> QED BY <2>1, <2>2
<1> HIDE DEF todo
<1> QED BY <1>1, <1>2, <1>3, <1>6, <1>7 DEF todo

\* As long as neither the committed offsets nor what the loop has of an answer
\* change, an answer that fits still does.
LEMMA FitsStays ==
    ASSUME TypeOK, leo' \in [Partitions -> Nat], commitOffset' = commitOffset,
           \A p \in Partitions : leo[p] <= leo'[p],
           NEW a \in Seq(PartitionResponse), Fits(a)
    PROVE  Fits(a)'
<1>1. ASSUME NEW i \in DOMAIN a PROVE Follows(a[i])'
  <2>1. Follows(a[i]) /\ a[i].partition \in Partitions /\ a[i].count \in Nat
    BY <1>1, Responses DEF Fits
  <2>2. LET p == a[i].partition IN
        leo[p] \in Nat /\ leo'[p] \in Nat /\ commitOffset[p] \in Nat /\ leo[p] <= leo'[p]
    BY <2>1 DEF TypeOK
  <2>3. commitOffset'[a[i].partition] + a[i].count <= leo'[a[i].partition]
    BY <2>1, <2>2 DEF Follows
  <2> QED BY <2>1, <2>3 DEF Follows
<1> QED BY <1>1 DEF Fits

LEMMA FitsKept ==
    ASSUME TypeOK, TypeOK', MutexHeld, OneExchange, AnswersFit, [Next]_vars
    PROVE  AnswersFit'
<1>0. /\ answer \in Seq(PartitionResponse) /\ leo \in [Partitions -> Nat]
      /\ leo' \in [Partitions -> Nat] /\ commitOffset \in [Partitions -> Nat]
  BY DEF TypeOK
<1>1. ASSUME UNCHANGED <<leo, commitOffset, answer>>, answer = <<>> \/ fetchLoop' = "deliver",
             stream' = <<>> \/ stream'[1].of = "metadata" \/ stream' = stream
      PROVE  AnswersFit'
  BY <1>1 DEF AnswersFit, Fits, Follows
<1>2. ASSUME MetadataTick \/ FetchWake \/ FetchError \/ FetchAgain \/ Take \/ Close
             \/ UNCHANGED vars
      PROVE  AnswersFit'
  <2>1. UNCHANGED <<leo, commitOffset, answer>> /\ stream' = stream
    BY <1>2 DEF MetadataTick, FetchWake, FetchError, FetchAgain, Take, Close, vars, brokerVars
  <2>2. answer = <<>> \/ fetchLoop' = "deliver"
    BY <1>2 DEF MetadataTick, FetchWake, FetchError, FetchAgain, Take, Close, vars, AnswersFit
  <2> QED BY <1>1, <2>1, <2>2
<1>3. ASSUME MetadataRequest PROVE AnswersFit'
  <2>1. stream = <<>>
    BY <1>3, Leaves DEF MutexHeld, OneExchange, MetadataRequest, Owns
  <2>2. stream'[1].of = "metadata"
    BY <1>3, <2>1, Stream DEF MetadataRequest, Ask
  <2> QED BY <1>1, <1>3, <2>2 DEF MetadataRequest, AnswersFit
<1>4. ASSUME MetadataDone PROVE AnswersFit'
  <2>1. stream' = <<>> \/ stream' = stream
    BY <1>4, Stream DEF MetadataDone, Answered
  <2> QED BY <1>1, <1>4, <2>1 DEF MetadataDone, AnswersFit
<1>5. ASSUME FetchRequest PROVE AnswersFit'
  <2>1. stream = <<>>
    BY <1>5, Leaves DEF MutexHeld, OneExchange, FetchRequest, Owns
  <2>2. stream'[1].offsets = commitOffset /\ stream'[1].answer = Nil
    BY <1>5, <2>1, Stream DEF FetchRequest, Ask
  <2>3. UNCHANGED <<leo, commitOffset, answer>> /\ answer = <<>>
    BY <1>5 DEF FetchRequest, AnswersFit
  <2> QED BY <2>2, <2>3 DEF AnswersFit, Fits, Follows
<1>6. ASSUME FetchEmpty PROVE AnswersFit'
  <2>1. stream' = <<>>
    BY <1>6, Stream DEF FetchEmpty, Answered
  <2> QED BY <1>1, <1>6, <2>1 DEF FetchEmpty, AnswersFit
<1>7. ASSUME FetchResponse PROVE AnswersFit'
  <2>1. stream # <<>> /\ Head(stream) = stream[1] /\ stream' = <<>>
    BY <1>7, Stream DEF FetchResponse, Answered
  <2>2. stream[1].of = "fetch"
    BY <1>7, <2>1 DEF MutexHeld, OneExchange, FetchResponse
  <2>3. Fits(answer')
    BY <1>7, <2>1, <2>2 DEF FetchResponse, Answered, AnswersFit
  <2>4. UNCHANGED <<leo, commitOffset>> /\ fetchLoop' = "deliver"
    BY <1>7 DEF FetchResponse
  <2> QED BY <2>1, <2>3, <2>4 DEF AnswersFit, Fits, Follows
<1>8. ASSUME Deliver PROVE AnswersFit'
  <2>1. /\ UNCHANGED <<leo, commitOffset, stream>> /\ fetchLoop = "deliver" /\ fetchLoop' = "deliver"
    BY <1>8 DEF Deliver, brokerVars
  <2>2. ~ (stream # <<>> /\ stream[1].of = "fetch")
    BY <2>1 DEF OneExchange
  <2>3. ASSUME NEW i \in DOMAIN answer PROVE answer'[i].partition = answer[i].partition
    BY <1>8, Delivered
  <2>4. Follows(answer[1])'
    <3> DEFINE todo == answer[1].todo
               p == answer[1].partition
    <3>1. /\ Len(todo) \in Nat \ {0} /\ Len(Tail(todo)) = Len(todo) - 1
          /\ \A k \in 1 .. Len(todo) - 1 : Tail(todo)[k] = todo[k + 1]
      BY <1>8, Delivered
    <3>2. /\ p \in Partitions /\ answer[1].count \in Nat /\ commitOffset[p] \in Nat
          /\ Follows(answer[1])
      BY <1>0, <1>8, Delivered, Responses DEF AnswersFit, Fits
    <3>3. /\ answer'[1].partition = p /\ answer'[1].count = answer[1].count
          /\ answer'[1].todo = Tail(todo)
      BY <1>8, Delivered
    <3>4. \A k \in 1 .. Len(todo) : todo[k] = commitOffset[p] + answer[1].count - Len(todo) + k - 1
      BY <3>2 DEF Follows
    <3>5. Len(todo) <= answer[1].count /\ commitOffset[p] + answer[1].count <= leo[p]
      BY <3>2 DEF Follows
    <3> HIDE DEF todo, p
    <3>6. \A k \in 1 .. Len(Tail(todo)) :
             Tail(todo)[k] = commitOffset[p] + answer[1].count - Len(Tail(todo)) + k - 1
      BY <3>1, <3>2, <3>4
    <3>7. Len(Tail(todo)) <= answer[1].count
      BY <3>1, <3>2, <3>5
    <3> QED BY <2>1, <3>3, <3>5, <3>6, <3>7 DEF Follows
  <2>5. ASSUME NEW i \in DOMAIN answer, i # 1
        PROVE  Follows(answer[i])' /\ Len(answer'[i].todo) = answer'[i].count
    BY <1>8, <2>1, <2>5, Delivered DEF AnswersFit, Fits, Follows
  <2>6. DOMAIN answer' = DOMAIN answer
    BY <1>8, Delivered
  <2>7. Fits(answer)'
    BY <2>3, <2>4, <2>5, <2>6 DEF Fits, AnswersFit
  <2> QED BY <2>1, <2>2, <2>7 DEF AnswersFit
<1>9. ASSUME PartitionDone PROVE AnswersFit'
  <2>1. /\ UNCHANGED <<leo, stream>> /\ fetchLoop = "deliver" /\ fetchLoop' = "deliver"
        /\ answer # <<>> /\ answer' = Tail(answer)
    BY <1>9 DEF PartitionDone, brokerVars
  <2>2. ~ (stream # <<>> /\ stream[1].of = "fetch")
    BY <2>1 DEF OneExchange
  <2> DEFINE p == answer[1].partition
  <2>3. /\ p \in Partitions /\ answer[1].count \in Nat /\ 1 \in DOMAIN answer
        /\ Len(answer) \in Nat /\ DOMAIN answer = 1 .. Len(answer)
        /\ DOMAIN answer' = 1 .. Len(answer) - 1
        /\ \A i \in DOMAIN answer' : answer'[i] = answer[i + 1]
    BY <1>0, <2>1, Responses
  <2>4. commitOffset' = [commitOffset EXCEPT ![p] = @ + answer[1].count]
    BY <1>0, <1>9, <2>1, Responses DEF PartitionDone, Advance
  <2>5. ASSUME NEW i \in DOMAIN answer'
        PROVE  /\ i + 1 \in DOMAIN answer /\ i + 1 # 1 /\ answer'[i] = answer[i + 1]
               /\ answer[i + 1].partition # p
    BY <2>3 DEF AnswersFit, Fits
  <2>6. ASSUME NEW i \in DOMAIN answer'
        PROVE  Follows(answer[i])' /\ Len(answer'[i].todo) = answer'[i].count
    <3>1. Follows(answer[i + 1]) /\ Len(answer[i + 1].todo) = answer[i + 1].count
      BY <2>5 DEF AnswersFit, Fits
    <3>2. commitOffset'[answer[i + 1].partition] = commitOffset[answer[i + 1].partition]
      BY <1>0, <2>4, <2>5, Responses
    <3> QED BY <2>1, <2>5, <3>1, <3>2 DEF Follows
  <2>7. ASSUME NEW i \in DOMAIN answer', NEW j \in DOMAIN answer',
               answer'[i].partition = answer'[j].partition
        PROVE  i = j
    <3>1. i + 1 = j + 1
      BY <2>5, <2>7 DEF AnswersFit, Fits
    <3> QED BY <2>3, <3>1
  <2>8. \A q \in Partitions : commitOffset'[q] <= leo'[q]
    <3>1. commitOffset[p] + answer[1].count <= leo[p]
      BY <2>3 DEF AnswersFit, Fits, Follows
    <3> QED BY <1>0, <2>1, <2>3, <2>4, <3>1 DEF AnswersFit
  <2>9. Fits(answer)'
    BY <2>6, <2>7 DEF Fits
  <2> QED BY <2>1, <2>2, <2>8, <2>9 DEF AnswersFit
<1>10. ASSUME NEW q \in Partitions, BrokerAppends(q) PROVE AnswersFit'
  <2>1. /\ UNCHANGED <<stream, commitOffset, answer, fetchLoop>>
        /\ \A p \in Partitions : leo[p] <= leo'[p]
    BY <1>0, <1>10 DEF BrokerAppends
  <2>2. Fits(answer)'
    BY <1>0, <2>1, FitsStays DEF AnswersFit
  <2>3. ASSUME stream # <<>>, stream[1].of = "fetch", stream[1].answer # Nil
        PROVE  Fits(stream[1].answer)'
    <3>1. stream[1].answer \in Seq(PartitionResponse) /\ Fits(stream[1].answer)
      BY <2>3, Stream DEF Exchange, AnswersFit
    <3> DEFINE a == stream[1].answer
    <3>2. a' = a
      BY <2>1
    <3> HIDE DEF a
    <3> QED BY <1>0, <2>1, <3>1, <3>2, FitsStays DEF a
  <2>4. \A p \in Partitions : commitOffset'[p] <= leo'[p]
    BY <1>0, <2>1 DEF AnswersFit
  <2> QED BY <2>1, <2>2, <2>3, <2>4 DEF AnswersFit
<1>11. ASSUME BrokerAnswers PROVE AnswersFit'
  <2>1. UNCHANGED <<leo, commitOffset, answer, fetchLoop>>
    BY <1>11 DEF BrokerAnswers
  <2>2. Fits(answer)' /\ (fetchLoop' # "deliver" => answer' = <<>>)
        /\ \A p \in Partitions : commitOffset'[p] <= leo'[p]
    BY <2>1 DEF AnswersFit, Fits, Follows
  <2>3. stream # <<>> /\ stream[1] \in Exchange /\ stream \in Seq(Exchange)
    BY <1>11, AnswerForm DEF TypeOK
  <2>4. PICK a \in Seq(PartitionResponse) :
           /\ stream' = [stream EXCEPT ![1] = [stream[1] EXCEPT !.answer = a]]
           /\ \A i, j \in DOMAIN a : a[i].partition = a[j].partition => i = j
           /\ \A i \in DOMAIN a :
                 LET rest == leo[a[i].partition] - stream[1].offsets[a[i].partition]
                 IN  /\ rest >= 0 => a[i].count <= rest
                     /\ Len(a[i].todo) = a[i].count
                     /\ \A k \in 1 .. a[i].count :
                           a[i].todo[k] = stream[1].offsets[a[i].partition] + k - 1
    BY <1>11, AnswerForm
  <2>5. /\ stream'[1].of = stream[1].of /\ stream'[1].offsets = stream[1].offsets
        /\ stream'[1].answer = a
    <3>1. 1 \in DOMAIN stream
      BY <2>3
    <3> QED BY <2>3, <2>4, <3>1 DEF Exchange
  <2>6. ASSUME stream[1].of = "fetch"
        PROVE  stream[1].offsets = commitOffset /\ Fits(a)'
    <3>1. stream[1].offsets = commitOffset
      BY <2>3, <2>6 DEF AnswersFit
    <3>2. ASSUME NEW i \in DOMAIN a PROVE Follows(a[i])'
      <4> DEFINE p == a[i].partition
      <4>1. /\ p \in Partitions /\ a[i].count \in Nat /\ Len(a[i].todo) = a[i].count
            /\ \A k \in 1 .. a[i].count : a[i].todo[k] = commitOffset[p] + k - 1
            /\ leo[p] - commitOffset[p] >= 0 => a[i].count <= leo[p] - commitOffset[p]
        BY <2>4, <3>1, <3>2, Responses
      <4>2. commitOffset[p] <= leo[p] /\ commitOffset[p] \in Nat /\ leo[p] \in Nat
        BY <1>0, <4>1 DEF AnswersFit
      <4> HIDE DEF p
      <4>3. commitOffset[p] + a[i].count <= leo[p] /\ Len(a[i].todo) <= a[i].count
        BY <4>1, <4>2
      <4>4. \A k \in 1 .. Len(a[i].todo) :
               a[i].todo[k] = commitOffset[p] + a[i].count - Len(a[i].todo) + k - 1
        BY <4>1, <4>2
      <4> QED BY <2>1, <4>3, <4>4 DEF Follows, p
    <3> QED BY <2>4, <3>1, <3>2 DEF Fits
  <2>7. \A i \in DOMAIN a : Len(a[i].todo) = a[i].count
    BY <2>4
  <2>8. stream' # <<>> /\ stream'[1].of = "fetch" =>
           /\ stream'[1].offsets = commitOffset'
           /\ Fits(stream[1].answer)'
           /\ \A i \in DOMAIN stream'[1].answer :
                 Len(stream'[1].answer[i].todo) = stream'[1].answer[i].count
    BY <2>1, <2>5, <2>6, <2>7 DEF Fits, Follows
  <2> QED BY <2>2, <2>8 DEF AnswersFit
<1>12. ASSUME ConnectionLost PROVE AnswersFit'
  <2>1. UNCHANGED <<leo, commitOffset, answer, fetchLoop>> /\ stream' = <<>>
    BY <1>12 DEF ConnectionLost
  <2> QED BY <2>1 DEF AnswersFit, Fits, Follows
<1> QED
  BY <1>2, <1>3, <1>4, <1>5, <1>6, <1>7, <1>8, <1>9, <1>10, <1>11, <1>12
     DEF Next, MetadataLoop, FetchLoop

-----------------------------------------------------------------------------
(* Every record once, in order *)

\* A sequence that counts up from a number.
LEMMA CountsUp ==
    ASSUME NEW s \in Seq(Nat), NEW base \in Nat
    PROVE  s = [k \in 1 .. Len(s) |-> base + k - 1]
             <=> \A k \in 1 .. Len(s) : s[k] = base + k - 1
<1>1. s \in [1 .. Len(s) -> Nat]
  BY LenProperties
<1>2. ASSUME \A k \in 1 .. Len(s) : s[k] = base + k - 1
      PROVE  s = [k \in 1 .. Len(s) |-> base + k - 1]
  <2>1. s = [k \in 1 .. Len(s) |-> s[k]]
    BY <1>1
  <2>2. [k \in 1 .. Len(s) |-> s[k]] = [k \in 1 .. Len(s) |-> base + k - 1]
    BY <1>2
  <2> QED BY <2>1, <2>2
<1>3. ASSUME s = [k \in 1 .. Len(s) |-> base + k - 1], NEW j \in 1 .. Len(s)
      PROVE  s[j] = base + j - 1
  <2>1. [k \in 1 .. Len(s) |-> base + k - 1][j] = base + j - 1
    OBVIOUS
  <2> QED BY <1>3, <2>1, Zenon
<1> QED BY <1>2, <1>3

\* What the application has of a partition, what is in the channel and what comes
\* next, stated offset by offset.
Line(p, next) ==
    LET taken == BaseOffset[p] + Len(received[p]) IN
    /\ \A i \in 1 .. Len(received[p]) : received[p][i] = BaseOffset[p] + i - 1
    /\ taken <= next
    /\ \A i \in DOMAIN channel : channel[i][1] = p => channel[i][2] \in taken .. next - 1
    /\ \A o \in taken .. next - 1 :
          \E i \in DOMAIN channel : channel[i][1] = p /\ channel[i][2] = o
    /\ \A i, j \in DOMAIN channel :
          i < j /\ channel[i][1] = p /\ channel[j][1] = p => channel[i][2] < channel[j][2]
    /\ \A i \in DOMAIN answer : answer[i].partition = p =>
          \A k \in 1 .. Len(answer[i].todo) : answer[i].todo[k] = next + k - 1

LEMMA ContinuousForm ==
    ASSUME TypeOK, NEW p \in Partitions, NextOffset(p) \in Nat
    PROVE  Continuous(p) <=> Line(p, NextOffset(p))
<1> DEFINE next == NextOffset(p)
           taken == BaseOffset[p] + Len(received[p])
<1>1. received[p] \in Seq(Nat) /\ BaseOffset[p] \in Nat /\ next \in Nat
  BY OffsetAssumption DEF TypeOK
<1> HIDE DEF next, taken
<1>2. received[p] = [i \in 1 .. Len(received[p]) |-> BaseOffset[p] + i - 1]
        <=> \A i \in 1 .. Len(received[p]) : received[p][i] = BaseOffset[p] + i - 1
  BY <1>1, CountsUp
<1>3. InChannel(p) = taken .. next - 1 <=>
        /\ \A i \in DOMAIN channel : channel[i][1] = p => channel[i][2] \in taken .. next - 1
        /\ \A o \in taken .. next - 1 :
              \E i \in DOMAIN channel : channel[i][1] = p /\ channel[i][2] = o
  BY DEF InChannel
<1>4. ASSUME NEW i \in DOMAIN answer
      PROVE  answer[i].todo = [k \in 1 .. Len(answer[i].todo) |-> next + k - 1]
               <=> \A k \in 1 .. Len(answer[i].todo) : answer[i].todo[k] = next + k - 1
  <2>1. answer[i].todo \in Seq(Nat)
    BY Responses DEF TypeOK
  <2> QED BY <1>1, <2>1, CountsUp
<1>5. Continuous(p) <=>
        /\ received[p] = [i \in 1 .. Len(received[p]) |-> BaseOffset[p] + i - 1]
        /\ taken <= next /\ InChannel(p) = taken .. next - 1
        /\ \A i, j \in DOMAIN channel :
              i < j /\ channel[i][1] = p /\ channel[j][1] = p =>
                 channel[i][2] < channel[j][2]
        /\ \A i \in DOMAIN answer : answer[i].partition = p =>
              answer[i].todo = [k \in 1 .. Len(answer[i].todo) |-> next + k - 1]
  BY Zenon DEF Continuous, next, taken
<1>6. Line(p, NextOffset(p)) <=>
        /\ \A i \in 1 .. Len(received[p]) : received[p][i] = BaseOffset[p] + i - 1
        /\ taken <= next
        /\ \A i \in DOMAIN channel : channel[i][1] = p => channel[i][2] \in taken .. next - 1
        /\ \A o \in taken .. next - 1 :
              \E i \in DOMAIN channel : channel[i][1] = p /\ channel[i][2] = o
        /\ \A i, j \in DOMAIN channel :
              i < j /\ channel[i][1] = p /\ channel[j][1] = p =>
                 channel[i][2] < channel[j][2]
        /\ \A i \in DOMAIN answer : answer[i].partition = p =>
              \A k \in 1 .. Len(answer[i].todo) : answer[i].todo[k] = next + k - 1
  BY Zenon DEF Line, next, taken
<1> QED BY <1>2, <1>3, <1>4, <1>5, <1>6, Zenon

\* The first offset that is not handed over yet: it lies in the broker's log.
LEMMA NextOffsetType ==
    ASSUME TypeOK, AnswersFit, NEW p \in Partitions
    PROVE  /\ NextOffset(p) \in Nat /\ NextOffset(p) <= leo[p]
           /\ answer # <<>> /\ answer[1].partition = p =>
                 NextOffset(p) = commitOffset[p] + answer[1].count - Len(answer[1].todo)
           /\ ~ (answer # <<>> /\ answer[1].partition = p) => NextOffset(p) = commitOffset[p]
<1>1. commitOffset[p] \in Nat /\ leo[p] \in Nat /\ commitOffset[p] <= leo[p]
  BY DEF TypeOK, AnswersFit
<1>2. ASSUME answer # <<>>, answer[1].partition = p
      PROVE  /\ NextOffset(p) = commitOffset[p] + answer[1].count - Len(answer[1].todo)
             /\ NextOffset(p) \in Nat /\ NextOffset(p) <= leo[p]
  <2>1. /\ Head(answer) = answer[1] /\ answer[1].count \in Nat /\ Len(answer[1].todo) \in Nat
        /\ Follows(answer[1])
    BY <1>2, Responses DEF TypeOK, AnswersFit, Fits
  <2>2. NextOffset(p) = commitOffset[p] + answer[1].count - Len(answer[1].todo)
    BY <1>2, <2>1 DEF NextOffset
  <2>3. Len(answer[1].todo) <= answer[1].count /\ commitOffset[p] + answer[1].count <= leo[p]
    BY <1>2, <2>1 DEF Follows
  <2> QED BY <1>1, <2>1, <2>2, <2>3, SMTT(30)
<1>3. ASSUME ~ (answer # <<>> /\ answer[1].partition = p) PROVE NextOffset(p) = commitOffset[p]
  <2>1. answer # <<>> => Head(answer) = answer[1]
    BY Responses DEF TypeOK
  <2> QED BY <1>3, <2>1 DEF NextOffset
<1> QED BY <1>1, <1>2, <1>3

\* The same facts, of this state and of the next one.
Placed(p) ==
    /\ NextOffset(p) \in Nat /\ NextOffset(p) <= leo[p]
    /\ answer # <<>> /\ answer[1].partition = p =>
          NextOffset(p) = commitOffset[p] + answer[1].count - Len(answer[1].todo)
    /\ ~ (answer # <<>> /\ answer[1].partition = p) => NextOffset(p) = commitOffset[p]
    /\ Continuous(p) <=> Line(p, NextOffset(p))

LEMMA PlacedNow == TypeOK /\ AnswersFit => \A p \in Partitions : Placed(p)
BY NextOffsetType, ContinuousForm DEF Placed

LEMMA PlacedNext == TypeOK' /\ AnswersFit' => \A p \in Partitions : Placed(p)'
<1>1. (TypeOK /\ AnswersFit => \A p \in Partitions : Placed(p))'
  BY PlacedNow, PTL
<1> QED BY <1>1

LEMMA OnceKept ==
    ASSUME TypeOK, TypeOK', MutexHeld, OneExchange, AnswersFit, AnswersFit',
           EachRecordOnce, [Next]_vars
    PROVE  EachRecordOnce'
<1>a. open' => open
  BY DEF Next, MetadataLoop, MetadataTick, MetadataRequest, MetadataDone, FetchLoop, FetchWake,
         FetchRequest, FetchError, FetchEmpty, FetchResponse, Deliver, PartitionDone, FetchAgain,
         Take, Close, BrokerAppends, BrokerAnswers, ConnectionLost, vars, appVars
<1> SUFFICES ASSUME open, open', NEW p \in Partitions PROVE Line(p, NextOffset(p))'
  BY <1>a, PlacedNext DEF EachRecordOnce, Placed
<1> DEFINE next == NextOffset(p)
<1>0. /\ Line(p, next) /\ next \in Nat /\ next' \in Nat /\ Placed(p) /\ Placed(p)'
      /\ answer \in Seq(PartitionResponse) /\ answer' \in Seq(PartitionResponse)
      /\ channel \in Seq(Record) /\ channel' \in Seq(Record)
      /\ commitOffset \in [Partitions -> Nat] /\ received[p] \in Seq(Nat) /\ received'[p] \in Seq(Nat)
      /\ BaseOffset[p] \in Nat
  BY PlacedNow, PlacedNext, OffsetAssumption DEF EachRecordOnce, Placed, TypeOK
<1>1. ASSUME UNCHANGED <<channel, received, answer, commitOffset>> PROVE Line(p, NextOffset(p))'
  <2>1. next' = next
    BY <1>1 DEF NextOffset
  <2> QED BY <1>0, <1>1, <2>1 DEF Line
<1>2. ASSUME MetadataLoop \/ FetchWake \/ FetchRequest \/ FetchError \/ FetchEmpty
             \/ FetchAgain \/ BrokerAnswers \/ ConnectionLost \/ UNCHANGED vars
             \/ \E q \in Partitions : BrokerAppends(q)
      PROVE  Line(p, NextOffset(p))'
  <2>1. UNCHANGED <<channel, received, answer, commitOffset>>
    BY <1>2 DEF MetadataLoop, MetadataTick, MetadataRequest, MetadataDone, FetchWake,
         FetchRequest, FetchError, FetchEmpty, FetchAgain, BrokerAppends, BrokerAnswers,
         ConnectionLost, vars, appVars
  <2> QED BY <1>1, <2>1
<1>3. ASSUME FetchResponse PROVE Line(p, NextOffset(p))'
  <2>1. UNCHANGED <<channel, received, commitOffset>> /\ answer = <<>>
    BY <1>3 DEF FetchResponse, appVars, AnswersFit
  <2>2. stream # <<>> /\ Head(stream) = stream[1] /\ stream[1].of = "fetch"
    BY <1>3, Stream DEF MutexHeld, OneExchange, FetchResponse, Answered
  <2>3. \A i \in DOMAIN answer' :
           /\ Len(answer'[i].todo) = answer'[i].count /\ Follows(answer'[i])
           /\ answer'[i].count \in Nat
    <3>1. stream[1].answer # Nil /\ answer' = stream[1].answer
      BY <1>3, <2>2 DEF FetchResponse, Answered
    <3>2. Fits(stream[1].answer)
          /\ \A i \in DOMAIN stream[1].answer :
                Len(stream[1].answer[i].todo) = stream[1].answer[i].count
      BY <2>2, <3>1 DEF AnswersFit
    <3>3. \A i \in DOMAIN answer' : answer'[i].count \in Nat
      BY <1>0, Responses
    <3> QED BY <3>1, <3>2, <3>3 DEF Fits
  <2>4. next = commitOffset[p] /\ commitOffset[p] \in Nat
    BY <1>0, <2>1 DEF Placed
  <2>5. next' = next
    <3>1. CASE answer' # <<>> /\ answer'[1].partition = p
      <4>1. 1 \in DOMAIN answer' /\ next' = commitOffset[p] + answer'[1].count - Len(answer'[1].todo)
        BY <1>0, <2>1, <3>1, Responses DEF Placed
      <4> QED BY <2>3, <2>4, <4>1
    <3>2. CASE ~ (answer' # <<>> /\ answer'[1].partition = p)
      BY <1>0, <2>1, <2>4, <3>2 DEF Placed
    <3> QED BY <3>1, <3>2
  <2>6. ASSUME NEW i \in DOMAIN answer', answer'[i].partition = p, NEW k \in 1 .. Len(answer'[i].todo)
        PROVE  answer'[i].todo[k] = next + k - 1
    <3>1. answer'[i].todo[k] = commitOffset[p] + answer'[i].count - Len(answer'[i].todo) + k - 1
      BY <2>3, <2>6 DEF Follows
    <3> QED BY <2>3, <2>4, <3>1
  <2> QED BY <1>0, <2>1, <2>5, <2>6 DEF Line
<1>4. ASSUME Deliver PROVE Line(p, NextOffset(p))'
  <2> DEFINE first == answer[1]
             record == <<first.partition, Head(first.todo)>>
  <2>1. /\ UNCHANGED <<received, commitOffset>> /\ channel' = Append(channel, record)
    BY <1>0, <1>4, Responses DEF Deliver
  <2>2. /\ first.partition \in Partitions /\ first.count \in Nat
        /\ answer # <<>> /\ 1 \in DOMAIN answer /\ Len(first.todo) \in Nat \ {0}
        /\ Head(first.todo) = first.todo[1]
        /\ DOMAIN answer' = DOMAIN answer /\ answer' # <<>>
        /\ answer'[1].partition = first.partition /\ answer'[1].count = first.count
        /\ answer'[1].todo = Tail(first.todo) /\ Len(answer'[1].todo) = Len(first.todo) - 1
        /\ \A k \in 1 .. Len(first.todo) - 1 : answer'[1].todo[k] = first.todo[k + 1]
        /\ \A i \in DOMAIN answer : i # 1 => answer'[i] = answer[i]
    BY <1>0, <1>4, Delivered, Responses
  <2>3. /\ Len(channel) \in Nat /\ DOMAIN channel = 1 .. Len(channel)
        /\ DOMAIN channel' = 1 .. Len(channel) + 1
        /\ \A i \in DOMAIN channel : channel'[i] = channel[i]
        /\ channel'[Len(channel) + 1] = record
    <3> HIDE DEF record
    <3> QED BY <1>0, <2>1
  <2>4. CASE first.partition # p
    <3>1. next' = next
      BY <1>0, <2>1, <2>2, <2>4 DEF Placed
    <3>2. \A i \in DOMAIN channel' : channel'[i][1] = p => i \in DOMAIN channel /\ channel'[i] = channel[i]
      BY <2>3, <2>4
    <3>3. \A i \in DOMAIN answer' : answer'[i].partition = p => answer'[i] = answer[i] /\ i \in DOMAIN answer
      BY <2>2, <2>4
    <3>4. \A i \in DOMAIN channel : i \in DOMAIN channel' /\ channel'[i] = channel[i]
      BY <2>3
    <3>5. received' = received
      BY <2>1
    <3>6. \A i \in DOMAIN answer' : answer'[i].partition = p =>
             \A k \in 1 .. Len(answer'[i].todo) : answer'[i].todo[k] = next' + k - 1
      BY <1>0, <3>1, <3>3, SMTT(30) DEF Line
    <3>7. \A i \in DOMAIN channel' :
             channel'[i][1] = p => channel'[i][2] \in BaseOffset[p] + Len(received[p]) .. next' - 1
      BY <1>0, <3>1, <3>2 DEF Line
    <3>8. \A o \in BaseOffset[p] + Len(received[p]) .. next' - 1 :
             \E i \in DOMAIN channel' : channel'[i][1] = p /\ channel'[i][2] = o
      BY <1>0, <3>1, <3>4 DEF Line
    <3>9. \A i, j \in DOMAIN channel' : i < j /\ channel'[i][1] = p /\ channel'[j][1] = p =>
             channel'[i][2] < channel'[j][2]
      BY <1>0, <3>2 DEF Line
    <3> QED BY <1>0, <3>1, <3>5, <3>6, <3>7, <3>8, <3>9 DEF Line
  <2>5. CASE first.partition = p
    <3>1. next' = next + 1
      <4>1. commitOffset[p] \in Nat /\ commitOffset' = commitOffset
        BY <1>0, <2>1
      <4>2. next' = commitOffset[p] + first.count - (Len(first.todo) - 1)
        BY <1>0, <2>1, <2>2, <2>5 DEF Placed
      <4>3. next = commitOffset[p] + first.count - Len(first.todo)
        BY <1>0, <2>2, <2>5 DEF Placed
      <4> HIDE DEF next, first
      <4> QED BY <2>2, <4>1, <4>2, <4>3
    <3>2. \A k \in 1 .. Len(first.todo) : first.todo[k] = next + k - 1
      BY <1>0, <2>2, <2>5 DEF Line
    <3>3. record[1] = p /\ record[2] = next
      <4>1. 1 \in 1 .. Len(first.todo) /\ next + 1 - 1 = next
        BY <1>0, <2>2
      <4>2. first.todo[1] = next
        BY <3>2, <4>1
      <4> QED BY <2>2, <2>5, <4>2
    <3>4. ASSUME NEW i \in DOMAIN answer', answer'[i].partition = p
          PROVE  i = 1
      <4>1. i \in DOMAIN answer /\ answer[i].partition = answer[1].partition
        BY <2>2, <2>5, <3>4
      <4> QED BY <2>2, <4>1 DEF AnswersFit, Fits
    <3>5. \A k \in 1 .. Len(answer'[1].todo) : answer'[1].todo[k] = next' + k - 1
      <4>1. Len(first.todo) \in Nat \ {0} /\ Len(answer'[1].todo) = Len(first.todo) - 1
        BY <2>2
      <4> HIDE DEF next, first
      <4>2. ASSUME NEW k \in 1 .. Len(first.todo) - 1
            PROVE  /\ answer'[1].todo[k] = first.todo[k + 1]
                   /\ k + 1 \in 1 .. Len(first.todo) /\ next + (k + 1) - 1 = next' + k - 1
        <5>1. k + 1 \in 1 .. Len(first.todo) /\ k \in Nat
          BY <4>1
        <5>2. next + (k + 1) - 1 = (next + 1) + k - 1
          BY <1>0, <5>1
        <5> QED BY <2>2, <3>1, <5>1, <5>2
      <4> QED BY <3>2, <4>1, <4>2
    <3> DEFINE taken == BaseOffset[p] + Len(received[p])
    <3>6. taken \in Nat /\ received' = received
      BY <1>0, <2>1
    <3>7. /\ taken <= next
          /\ \A i \in DOMAIN channel : channel[i][1] = p => channel[i][2] \in taken .. next - 1
          /\ \A o \in taken .. next - 1 :
                \E i \in DOMAIN channel : channel[i][1] = p /\ channel[i][2] = o
          /\ \A i, j \in DOMAIN channel :
                i < j /\ channel[i][1] = p /\ channel[j][1] = p => channel[i][2] < channel[j][2]
      BY <1>0 DEF Line
    <3> HIDE DEF taken, next, record, first
    <3>8. taken <= next'
      BY <1>0, <3>1, <3>6, <3>7
    <3>9. \A i \in DOMAIN channel' : channel'[i][1] = p => channel'[i][2] \in taken .. next' - 1
      BY <1>0, <2>3, <3>1, <3>3, <3>6, <3>7, SMTT(30)
    <3>10. \A o \in taken .. next' - 1 :
              \E i \in DOMAIN channel' : channel'[i][1] = p /\ channel'[i][2] = o
      <4>1. ASSUME NEW o \in taken .. next' - 1 PROVE o = next \/ o \in taken .. next - 1
        BY <1>0, <3>1, <3>6
      <4>2. Len(channel) + 1 \in DOMAIN channel' /\ DOMAIN channel \subseteq DOMAIN channel'
        BY <2>3
      <4> QED BY <2>3, <3>3, <3>7, <4>1, <4>2
    <3>11. ASSUME NEW i \in DOMAIN channel', NEW j \in DOMAIN channel',
                  i < j, channel'[i][1] = p, channel'[j][1] = p
           PROVE  channel'[i][2] < channel'[j][2]
      <4>1. i \in DOMAIN channel
        BY <2>3, <3>11
      <4>2. CASE j \in DOMAIN channel
        BY <2>3, <3>7, <3>11, <4>1, <4>2
      <4>3. CASE j = Len(channel) + 1
        <5>1. channel[i][2] \in taken .. next - 1
          BY <2>3, <3>7, <3>11, <4>1
        <5>2. channel'[j][2] = next /\ channel'[i] = channel[i]
          BY <2>3, <3>3, <4>1, <4>3
        <5> QED BY <1>0, <3>6, <5>1, <5>2
      <4> QED BY <2>3, <4>2, <4>3
    <3>12. \A i \in DOMAIN answer' : answer'[i].partition = p =>
              \A k \in 1 .. Len(answer'[i].todo) : answer'[i].todo[k] = next' + k - 1
      BY <3>4, <3>5
    <3>13. taken = BaseOffset[p] + Len(received'[p])
      BY <3>6 DEF taken
    <3>14. \A i \in 1 .. Len(received'[p]) : received'[p][i] = BaseOffset[p] + i - 1
      BY <1>0, <3>6 DEF Line
    <3> QED BY <3>8, <3>9, <3>10, <3>11, <3>12, <3>13, <3>14 DEF Line, next
  <2> QED BY <2>4, <2>5
<1>5. ASSUME PartitionDone PROVE Line(p, NextOffset(p))'
  <2> DEFINE first == answer[1]
  <2>1. /\ UNCHANGED <<received, channel>> /\ answer # <<>> /\ answer' = Tail(answer)
        /\ commitOffset' = [commitOffset EXCEPT ![first.partition] = @ + first.count]
        /\ first.todo = <<>>
    BY <1>0, <1>5, Responses DEF PartitionDone, Advance, appVars
  <2>2. /\ first.partition \in Partitions /\ first.count \in Nat /\ Len(first.todo) = 0
        /\ 1 \in DOMAIN answer /\ Len(answer) \in Nat /\ DOMAIN answer = 1 .. Len(answer)
        /\ DOMAIN answer' = 1 .. Len(answer) - 1
        /\ \A i \in DOMAIN answer' : answer'[i] = answer[i + 1]
    <3>1. Len(first.todo) = 0
      BY <2>1
    <3> QED BY <1>0, <2>1, <3>1, Responses
  <2>3. ASSUME NEW i \in DOMAIN answer'
        PROVE  /\ i + 1 \in DOMAIN answer /\ i + 1 # 1 /\ answer'[i] = answer[i + 1]
               /\ answer'[i].partition # first.partition
               /\ Len(answer'[i].todo) = answer'[i].count
               /\ answer'[i].count \in Nat
    <3>1. i + 1 \in DOMAIN answer /\ i + 1 # 1 /\ answer'[i] = answer[i + 1]
      BY <2>2
    <3>2. answer[i + 1].partition # first.partition /\ Len(answer[i + 1].todo) = answer[i + 1].count
      BY <2>2, <3>1 DEF AnswersFit, Fits
    <3> QED BY <1>0, <3>1, <3>2, Responses
  <2>4. commitOffset[p] \in Nat
    BY <1>0
  <2>5. next' = next
    <3>1. CASE first.partition = p
      <4>1. next = commitOffset[p] + first.count - 0
        BY <1>0, <2>1, <2>2, <3>1 DEF Placed
      <4>2. ~ (answer' # <<>> /\ answer'[1].partition = p)
        BY <1>0, <2>3, <3>1, Responses
      <4>3. next' = commitOffset[p] + first.count
        BY <1>0, <2>1, <2>2, <3>1, <4>2 DEF Placed
      <4> QED BY <2>2, <2>4, <4>1, <4>3
    <3>2. CASE first.partition # p
      <4>1. next = commitOffset[p] /\ commitOffset'[p] = commitOffset[p]
        BY <1>0, <2>1, <2>2, <3>2 DEF Placed
      <4>2. CASE answer' # <<>> /\ answer'[1].partition = p
        <5>1. 1 \in DOMAIN answer'
          BY <1>0, <4>2, Responses
        <5>2. next' = commitOffset[p] + answer'[1].count - Len(answer'[1].todo)
          BY <1>0, <4>1, <4>2 DEF Placed
        <5> QED BY <2>3, <2>4, <4>1, <5>1, <5>2
      <4>3. CASE ~ (answer' # <<>> /\ answer'[1].partition = p)
        BY <1>0, <4>1, <4>3 DEF Placed
      <4> QED BY <4>2, <4>3
    <3> QED BY <3>1, <3>2
  <2>6. \A i \in DOMAIN answer' : answer'[i].partition = p =>
           \A k \in 1 .. Len(answer'[i].todo) : answer'[i].todo[k] = next' + k - 1
    BY <1>0, <2>3, <2>5, SMTT(30) DEF Line
  <2> QED BY <1>0, <2>1, <2>5, <2>6 DEF Line
<1>6. ASSUME Take PROVE Line(p, NextOffset(p))'
  <2> DEFINE record == channel[1]
             taken == BaseOffset[p] + Len(received[p])
  <2>1. /\ UNCHANGED <<answer, commitOffset>> /\ channel # <<>>
        /\ channel' = Tail(channel) /\ Head(channel) = record
        /\ received' = [received EXCEPT ![record[1]] = Append(@, record[2])]
    <3>1. channel # <<>> /\ Head(channel) = record
      BY <1>0, <1>6 DEF Take
    <3> QED BY <1>6, <3>1 DEF Take
  <2>2. next' = next
    BY <2>1 DEF NextOffset
  <2>3. record \in Record /\ record[1] \in Partitions /\ record[2] \in Nat
    <3>1. record \in Record
      BY <1>0, <2>1, HeadTailProperties
    <3> QED BY <3>1 DEF Record
  <2>4. /\ Len(channel) \in Nat \ {0} /\ DOMAIN channel = 1 .. Len(channel)
        /\ DOMAIN channel' = 1 .. Len(channel) - 1
        /\ \A i \in DOMAIN channel' : channel'[i] = channel[i + 1]
    <3>1. Len(channel) \in Nat \ {0} /\ DOMAIN channel = 1 .. Len(channel)
      BY <1>0, <2>1
    <3>2. /\ Len(channel') = Len(channel) - 1
          /\ \A i \in 1 .. Len(channel') : channel'[i] = channel[i + 1]
      BY <1>0, <2>1, HeadTailProperties
    <3>3. DOMAIN channel' = 1 .. Len(channel')
      BY <1>0, LenProperties
    <3> QED BY <3>1, <3>2, <3>3
  <2>5. /\ taken \in Nat /\ taken <= next
        /\ \A i \in 1 .. Len(received[p]) : received[p][i] = BaseOffset[p] + i - 1
        /\ \A i \in DOMAIN channel : channel[i][1] = p => channel[i][2] \in taken .. next - 1
        /\ \A o \in taken .. next - 1 :
              \E i \in DOMAIN channel : channel[i][1] = p /\ channel[i][2] = o
        /\ \A i, j \in DOMAIN channel :
              i < j /\ channel[i][1] = p /\ channel[j][1] = p => channel[i][2] < channel[j][2]
        /\ \A i \in DOMAIN answer : answer[i].partition = p =>
              \A k \in 1 .. Len(answer[i].todo) : answer[i].todo[k] = next + k - 1
    BY <1>0 DEF Line
  <2>6. \A i \in DOMAIN channel' : i + 1 \in DOMAIN channel /\ i + 1 # 1
    BY <2>4
  <2>7. \A i, j \in DOMAIN channel' : i < j /\ channel'[i][1] = p /\ channel'[j][1] = p =>
           channel'[i][2] < channel'[j][2]
    <3>1. \A i, j \in DOMAIN channel' : i < j => i + 1 < j + 1
      BY <2>4
    <3> QED BY <2>4, <2>5, <2>6, <3>1
  <2>8. \A i \in DOMAIN channel : i # 1 => \E j \in DOMAIN channel' : channel'[j] = channel[i]
    <3>1. ASSUME NEW i \in DOMAIN channel, i # 1
          PROVE  i - 1 \in DOMAIN channel' /\ (i - 1) + 1 = i
      BY <2>4, <3>1
    <3> QED BY <2>4, <3>1
  <2>9. CASE record[1] # p
    <3>1. received'[p] = received[p]
      BY <2>1, <2>3, <2>9 DEF TypeOK
    <3>2. \A o \in taken .. next - 1 :
             \E i \in DOMAIN channel' : channel'[i][1] = p /\ channel'[i][2] = o
      BY <2>5, <2>8, <2>9
    <3>3. \A i \in DOMAIN channel' : channel'[i][1] = p => channel'[i][2] \in taken .. next - 1
      BY <2>4, <2>5, <2>6
    <3>4. taken = BaseOffset[p] + Len(received'[p])
      BY <3>1
    <3> HIDE DEF taken
    <3>5. \A i \in 1 .. Len(received'[p]) : received'[p][i] = BaseOffset[p] + i - 1
      BY <2>5, <3>1
    <3> QED BY <2>1, <2>2, <2>5, <2>7, <3>2, <3>3, <3>4, <3>5 DEF Line
  <2>10. CASE record[1] = p
    <3>1. received'[p] = Append(received[p], record[2])
      BY <2>1, <2>3, <2>10 DEF TypeOK
    <3>2. 1 \in DOMAIN channel /\ \A j \in DOMAIN channel : j # 1 => 1 < j
      BY <2>4
    <3>3. record[2] \in taken .. next - 1
      BY <2>5, <2>10, <3>2
    <3>4. record[2] = taken
      <4>1. taken \in taken .. next - 1
        BY <1>0, <2>5, <3>3, SMTT(30)
      <4>2. PICK i \in DOMAIN channel : channel[i][1] = p /\ channel[i][2] = taken
        BY <2>5, <4>1
      <4>3. i # 1 => record[2] < taken
        BY <2>5, <2>10, <3>2, <4>2
      <4>4. i # 1 => FALSE
        BY <2>3, <2>5, <3>3, <4>3
      <4> QED BY <4>2, <4>4
    <3>5. /\ Len(received'[p]) = Len(received[p]) + 1 /\ Len(received[p]) \in Nat
          /\ \A i \in 1 .. Len(received[p]) : received'[p][i] = received[p][i]
          /\ received'[p][Len(received[p]) + 1] = taken
      BY <1>0, <2>3, <3>1, <3>4, AppendProperties, LenProperties, SMTT(30)
    <3>6. BaseOffset[p] + Len(received'[p]) = taken + 1
      <4>1. \A a, b \in Nat : a + (b + 1) = (a + b) + 1
        OBVIOUS
      <4>2. BaseOffset[p] \in Nat /\ Len(received[p]) \in Nat
        BY <1>0, <3>5
      <4> QED BY <3>5, <4>1, <4>2
    <3>7. \A i \in 1 .. Len(received'[p]) : received'[p][i] = BaseOffset[p] + i - 1
      <4>1. taken = BaseOffset[p] + (Len(received[p]) + 1) - 1
        BY <1>0, <3>5
      <4>2. \A i \in 1 .. Len(received'[p]) :
               i \in 1 .. Len(received[p]) \/ i = Len(received[p]) + 1
        BY <3>5
      <4> HIDE DEF taken
      <4> QED BY <2>5, <3>5, <4>1, <4>2
    <3> HIDE DEF taken
    <3>8. \A i \in DOMAIN channel' : channel'[i][1] = p => channel'[i][2] \in taken + 1 .. next - 1
      <4>1. ASSUME NEW i \in DOMAIN channel', channel'[i][1] = p
            PROVE  channel'[i][2] \in taken .. next - 1 /\ taken < channel'[i][2]
        BY <2>4, <2>5, <2>6, <2>10, <3>2, <3>4, <4>1
      <4> QED BY <1>0, <2>5, <4>1, SMTT(30)
    <3>9. \A o \in taken + 1 .. next - 1 :
             \E i \in DOMAIN channel' : channel'[i][1] = p /\ channel'[i][2] = o
      <4>1. \A o \in taken + 1 .. next - 1 : o \in taken .. next - 1 /\ o # taken
        BY <1>0, <2>5
      <4> QED BY <2>5, <2>8, <3>4, <4>1
    <3>10. taken + 1 <= next
      BY <1>0, <2>5, <3>3
    <3> QED BY <2>1, <2>2, <2>5, <2>7, <3>6, <3>7, <3>8, <3>9, <3>10 DEF Line
  <2> QED BY <2>9, <2>10
<1>7. ~ Close
  BY DEF Close
<1> QED
  BY <1>2, <1>3, <1>4, <1>5, <1>6, <1>7 DEF Next, FetchLoop

-----------------------------------------------------------------------------
(* Theorems *)

LEMMA InvInit == Init => ConsumerInv
<1> SUFFICES ASSUME Init PROVE ConsumerInv
  OBVIOUS
<1>1. TypeOK
  BY TypeInit
<1>2. MutexHeld /\ OneExchange
  BY DEF Init, MutexHeld, OneExchange
<1>3. AnswersFit
  <2>1. \A p \in Partitions : commitOffset[p] <= leo[p]
    BY OffsetAssumption DEF Init
  <2>2. answer = <<>> /\ stream = <<>>
    BY DEF Init
  <2> QED BY <2>1, <2>2 DEF AnswersFit, Fits
<1>4. EachRecordOnce
  <2> SUFFICES ASSUME NEW p \in Partitions PROVE Line(p, NextOffset(p))
    BY <1>1, <1>3, PlacedNow DEF EachRecordOnce, Placed
  <2>1. NextOffset(p) = BaseOffset[p] /\ BaseOffset[p] \in Nat
    BY OffsetAssumption DEF Init, NextOffset
  <2>2. received[p] = <<>> /\ channel = <<>> /\ answer = <<>>
    BY DEF Init
  <2>3. Len(received[p]) = 0
    BY <2>2
  <2> QED BY <2>1, <2>2, <2>3 DEF Line
<1> QED BY <1>1, <1>2, <1>3, <1>4 DEF ConsumerInv

LEMMA InvNext == ConsumerInv /\ [Next]_vars => ConsumerInv'
<1> SUFFICES ASSUME ConsumerInv, [Next]_vars PROVE ConsumerInv'
  OBVIOUS
<1>0. TypeOK /\ MutexHeld /\ OneExchange /\ AnswersFit /\ EachRecordOnce
  BY DEF ConsumerInv
<1>2. TypeOK'
  <2>1. CASE UNCHANGED vars
    BY <1>0, <2>1 DEF vars, brokerVars, appVars, TypeOK
  <2> QED BY <1>0, <2>1, TypeMetadataLoop, TypeFetchLoop, TypeEnvironment DEF Next
<1>3. MutexHeld'
  <2>1. CASE MetadataLoop \/ FetchLoop
    BY <1>0, <2>1, MutexMetadataLoop, MutexFetchLoop
  <2>2. CASE \/ UNCHANGED vars \/ Take \/ Close \/ BrokerAnswers \/ ConnectionLost
             \/ \E p \in Partitions : BrokerAppends(p)
    <3>1. UNCHANGED <<mutex, fetchLoop, metadataLoop>>
      BY <2>2 DEF vars, Take, Close, BrokerAnswers, ConnectionLost, BrokerAppends
    <3> QED BY <1>0, <3>1 DEF MutexHeld
  <2> QED BY <2>1, <2>2 DEF Next
<1>4. OneExchange' /\ AnswersFit'
  BY <1>0, <1>2, ExchangeKept, FitsKept
<1>5. EachRecordOnce'
  BY <1>0, <1>2, <1>4, OnceKept
<1> QED BY <1>2, <1>3, <1>4, <1>5 DEF ConsumerInv

\* The parts of the invariant hold together: who is at the mutex decides who may
\* have an exchange on the connection, that decides which offsets an answer is for,
\* and that which records the application gets.
THEOREM Invariance == Spec => []ConsumerInv
BY InvInit, InvNext, PTL DEF Spec

\* Whatever the two loops, the broker, the network and the application do, and in
\* whatever order, the consumer's state stays well formed; the channel never holds
\* more than its capacity.
THEOREM TypeCorrect == Spec => []TypeOK
<1>1. ConsumerInv => TypeOK
  BY DEF ConsumerInv
<1> QED BY <1>1, Invariance, PTL

\* The answer a loop reads is the one to its own request: the mutex is held from
\* the request to the answer, and there is never a second exchange on the
\* connection, however the loops queue for it.
THEOREM OwnAnswerHolds == Spec => []OwnAnswer
<1>1. ConsumerInv => OwnAnswer
  <2> SUFFICES ASSUME ConsumerInv, NEW loop \in Loops, connected,
                      (IF loop = "fetch" THEN fetchLoop ELSE metadataLoop) = "asked"
               PROVE  Len(stream) = 1 /\ Head(stream).of = loop
    BY DEF OwnAnswer
  <2>1. stream # <<>>
    BY DEF ConsumerInv, OneExchange, Loops
  <2>2. Len(stream) = 1 /\ Head(stream) = stream[1]
    BY <2>1, Stream DEF ConsumerInv
  <2>3. stream[1].of = loop
    BY <2>1 DEF ConsumerInv, OneExchange, MutexHeld, Loops
  <2> QED BY <2>2, <2>3
<1> QED BY <1>1, Invariance, PTL

\* For each partition the application takes, the channel holds and the fetch loop
\* hands over consecutive offsets from the start of consumption on: none is missing,
\* none comes twice, although the committed offset moves after the records do.
THEOREM EachRecordOnceHolds == Spec => []EachRecordOnce
<1>1. ConsumerInv => EachRecordOnce
  BY DEF ConsumerInv
<1> QED BY <1>1, Invariance, PTL

\* The records published on a partition, in the terms of Delivery.
Published(p) == [i \in 1 .. leo[p] - BaseOffset[p] |-> BaseOffset[p] + i - 1]

Listed(p) ==
    /\ Published(p) \in Seq(Nat)
    /\ Len(Published(p)) = IF BaseOffset[p] <= leo[p] THEN leo[p] - BaseOffset[p] ELSE 0
    /\ \A i \in 1 .. Len(Published(p)) : Published(p)[i] = BaseOffset[p] + i - 1

LEMMA ListedNow == TypeOK => \A p \in Partitions : Listed(p)
<1> SUFFICES ASSUME TypeOK, NEW p \in Partitions PROVE Listed(p)
  OBVIOUS
<1> DEFINE n == IF BaseOffset[p] <= leo[p] THEN leo[p] - BaseOffset[p] ELSE 0
<1>1. BaseOffset[p] \in Nat /\ leo[p] \in Nat
  BY OffsetAssumption DEF TypeOK
<1>2. n \in Nat /\ 1 .. leo[p] - BaseOffset[p] = 1 .. n
  BY <1>1
<1>3. Published(p) = [i \in 1 .. n |-> BaseOffset[p] + i - 1]
  BY <1>2 DEF Published
<1> HIDE DEF n
<1>4. /\ Published(p) \in Seq(Nat) /\ Len(Published(p)) = n
      /\ \A i \in 1 .. n : Published(p)[i] = BaseOffset[p] + i - 1
  BY <1>1, <1>2, <1>3
<1> QED BY <1>4 DEF Listed, n

LEMMA ListedNext == TypeOK' => \A p \in Partitions : Listed(p)'
<1>1. (TypeOK => \A p \in Partitions : Listed(p))'
  BY ListedNow, PTL
<1> QED BY <1>1

\* Sequences that agree as far as the first one goes.
LEMMA PrefixForm ==
    ASSUME NEW s \in Seq(Nat), NEW t \in Seq(Nat), Len(s) <= Len(t),
           \A i \in 1 .. Len(s) : s[i] = t[i]
    PROVE  IsPrefix(s, t)
<1>1. Len(s) \in Nat /\ Len(t) \in Nat /\ \A i \in 1 .. Len(s) : s[i] \in Nat /\ t[i] \in Nat
  <2>1. Len(s) \in Nat /\ Len(t) \in Nat
    OBVIOUS
  <2>2. \A i \in 1 .. Len(s) : i \in 1 .. Len(t)
    BY <2>1
  <2> QED BY <2>1, <2>2, ElementOfSeq
<1>2. SubSeq(s, 1, Len(s)) = s
  BY SubSeqFull
<1>3. /\ SubSeq(t, 1, Len(s)) \in Seq(Nat) /\ Len(SubSeq(t, 1, Len(s))) = Len(s)
      /\ \A i \in 1 .. Len(s) : SubSeq(t, 1, Len(s))[i] = t[i]
  <2>1. /\ SubSeq(t, 1, Len(s)) \in Seq(Nat)
        /\ Len(SubSeq(t, 1, Len(s))) = IF 1 <= Len(s) THEN Len(s) - 1 + 1 ELSE 0
        /\ \A i \in 1 .. Len(s) - 1 + 1 : SubSeq(t, 1, Len(s))[i] = t[1 + i - 1]
    BY <1>1, SubSeqProperties
  <2>2. Len(s) - 1 + 1 = Len(s) /\ \A i \in 1 .. Len(s) : 1 + i - 1 = i
    BY <1>1
  <2> QED BY <1>1, <2>1, <2>2
<1>4. SubSeq(t, 1, Len(s)) = s
  BY <1>3, SeqEqual
<1> QED BY <1>2, <1>4 DEF IsPrefix

\* The consumer does what Delivery allows: a record the application takes is the
\* next one of its partition, as long as it listens and the connection holds.
THEOREM ImplementsDelivery == Spec => Abstract!Safety
<1> DEFINE log == [p \in Partitions |-> Published(p)]
           lost == IF open /\ connected THEN {} ELSE Partitions
<1>1. ASSUME Init PROVE Abstract!Init
  <2>1. \A p \in Partitions : Published(p) = <<>>
    <3>1. \A p \in Partitions : leo[p] - BaseOffset[p] = 0
      BY <1>1, OffsetAssumption DEF Init
    <3> QED BY <3>1 DEF Published
  <2>2. log = [p \in Partitions |-> <<>>] /\ received = [p \in Partitions |-> <<>>] /\ lost = {}
    BY <1>1, <2>1 DEF Init
  <2> QED BY <2>2 DEF Abstract!Init, Published
<1>2. ASSUME ConsumerInv, ConsumerInv', [Next]_vars PROVE [Abstract!Next]_(Abstract!vars)
  <2>0. /\ leo \in [Partitions -> Nat] /\ leo' \in [Partitions -> Nat]
        /\ received \in [Partitions -> Seq(Nat)]
        /\ BaseOffset \in [Partitions -> Nat]
    BY <1>2, OffsetAssumption DEF ConsumerInv, TypeOK
  <2>1. ASSUME UNCHANGED <<leo, received, open, connected>> PROVE UNCHANGED Abstract!vars
    BY <2>1 DEF Abstract!vars
  <2>2. CASE MetadataLoop \/ FetchLoop \/ BrokerAnswers \/ UNCHANGED vars
    <3>1. UNCHANGED <<leo, received, open, connected>>
      BY <2>2 DEF MetadataLoop, MetadataTick, MetadataRequest, MetadataDone, FetchLoop, FetchWake,
         FetchRequest, FetchError, FetchEmpty, FetchResponse, Deliver, PartitionDone, FetchAgain,
         BrokerAnswers, vars, brokerVars, appVars
    <3> QED BY <2>1, <3>1
  <2>3. CASE Close \/ ConnectionLost
    <3>1. UNCHANGED <<leo, received>> /\ ~ (open' /\ connected')
      BY <2>3 DEF Close, ConnectionLost, brokerVars, appVars
    <3>2. lost' = Partitions /\ lost \subseteq Partitions /\ UNCHANGED <<log, received>>
      BY <3>1 DEF Published
    <3>3. CASE Partitions = {}
      <4>1. lost' = lost
        BY <3>2, <3>3
      <4> QED BY <3>2, <4>1 DEF Abstract!vars, Published
    <3>4. CASE Partitions # {}
      <4>1. Abstract!Lose
        BY <3>2, <3>4 DEF Abstract!Lose
      <4> QED BY <4>1 DEF Abstract!Next
    <3> QED BY <3>3, <3>4
  <2>4. CASE \E q \in Partitions : BrokerAppends(q)
    <3>1. /\ UNCHANGED <<received, open, connected>>
          /\ \A p \in Partitions : leo[p] <= leo'[p]
      BY <2>0, <2>4 DEF BrokerAppends, appVars
    <3>2. ASSUME NEW p \in Partitions PROVE Abstract!IsPrefix(log[p], log'[p])
      <4>1. /\ BaseOffset[p] \in Nat /\ leo[p] \in Nat /\ leo'[p] \in Nat /\ leo[p] <= leo'[p]
            /\ log[p] = Published(p) /\ log'[p] = Published(p)'
        BY <2>0, <3>1, <3>2
      <4> HIDE DEF log
      <4>2. /\ log[p] \in Seq(Nat) /\ log'[p] \in Seq(Nat)
            /\ Len(log[p]) = IF BaseOffset[p] <= leo[p] THEN leo[p] - BaseOffset[p] ELSE 0
            /\ Len(log'[p]) = IF BaseOffset[p] <= leo'[p] THEN leo'[p] - BaseOffset[p] ELSE 0
            /\ \A i \in 1 .. Len(log[p]) : log[p][i] = BaseOffset[p] + i - 1
            /\ \A i \in 1 .. Len(log'[p]) : log'[p][i] = BaseOffset[p] + i - 1
        <5>1. Listed(p) /\ Listed(p)'
          BY <1>2, ListedNow, ListedNext DEF ConsumerInv
        <5> QED BY <4>1, <5>1 DEF Listed
      <4>3. Len(log[p]) <= Len(log'[p]) /\ Len(log[p]) \in Nat /\ Len(log'[p]) \in Nat
        BY <4>1, <4>2
      <4>4. \A i \in 1 .. Len(log[p]) : log[p][i] = log'[p][i]
        BY <4>2, <4>3
      <4>5. IsPrefix(log[p], log'[p])
        BY <4>2, <4>3, <4>4, PrefixForm
      <4> QED BY <4>5 DEF Abstract!IsPrefix, IsPrefix
    <3>3. Abstract!Publish
      BY <3>1, <3>2 DEF Abstract!Publish, Published
    <3> QED BY <3>3 DEF Abstract!Next
  <2>5. CASE Take
    <3>1. PICK q \in Partitions :
             /\ UNCHANGED <<leo, open, connected>>
             /\ received' = [received EXCEPT ![q] = Append(@, Head(channel)[2])]
      <4>1. Head(channel) \in Record
        BY <1>2, <2>5, HeadTailProperties DEF ConsumerInv, TypeOK, Take
      <4> QED BY <2>5, <4>1 DEF Record, Take, brokerVars
    <3>2. CASE ~ (open /\ connected)
      <4>1. Abstract!Lose
        BY <3>1, <3>2 DEF Abstract!Lose, Published
      <4> QED BY <4>1 DEF Abstract!Next
    <3>3. CASE open /\ connected
      <4> DEFINE n == Len(received'[q])
      <4>1. /\ BaseOffset[q] \in Nat /\ leo[q] \in Nat /\ received'[q] \in Seq(Nat)
            /\ Len(received[q]) \in Nat /\ n = Len(received[q]) + 1
            /\ received' = [received EXCEPT ![q] = received'[q]]
        <5>1. received' \in [Partitions -> Seq(Nat)] /\ received[q] \in Seq(Nat)
          BY <1>2, <2>0, <3>1 DEF ConsumerInv, TypeOK
        <5>2. received'[q] = Append(received[q], Head(channel)[2])
          BY <2>0, <3>1
        <5> QED BY <2>0, <3>1, <5>1, <5>2, AppendProperties, LenProperties
      <4>2. /\ \A i \in 1 .. n : received'[q][i] = BaseOffset[q] + i - 1
            /\ BaseOffset[q] + n <= NextOffset(q)' /\ NextOffset(q)' \in Nat
            /\ NextOffset(q)' <= leo'[q]
        <5>1. Continuous(q)' /\ Placed(q)'
          BY <1>2, <3>1, <3>3, PlacedNext DEF ConsumerInv, EachRecordOnce
        <5> QED BY <5>1 DEF Placed, Line
      <4>3. /\ log[q] \in Seq(Nat)
            /\ Len(log[q]) = IF BaseOffset[q] <= leo[q] THEN leo[q] - BaseOffset[q] ELSE 0
            /\ \A i \in 1 .. Len(log[q]) : log[q][i] = BaseOffset[q] + i - 1
        <5>1. log[q] = Published(q) /\ Listed(q)
          BY <1>2, ListedNow DEF ConsumerInv
        <5> HIDE DEF log
        <5> QED BY <5>1 DEF Listed
      <4> HIDE DEF log, lost
      <4>4. /\ n \in Nat /\ n <= Len(log[q]) /\ Len(log[q]) \in Nat
            /\ n \in Len(received[q]) + 1 .. Len(log[q])
        <5> HIDE DEF n
        <5>1. n \in Nat /\ BaseOffset[q] + n <= leo[q]
          BY <3>1, <4>1, <4>2
        <5>2. BaseOffset[q] <= leo[q] /\ n <= leo[q] - BaseOffset[q]
          BY <4>1, <5>1
        <5>3. Len(log[q]) = leo[q] - BaseOffset[q] /\ Len(log[q]) \in Nat
          BY <4>1, <4>3, <5>2
        <5> QED BY <4>1, <5>1, <5>2, <5>3
      <4>5. received'[q] = SubSeq(log[q], 1, n)
        <5>1. \A i \in 1 .. n : log[q][i] = received'[q][i] /\ received'[q][i] \in Nat
          <6>1. \A i \in 1 .. n : i \in 1 .. Len(log[q])
            BY <4>4
          <6> QED BY <4>1, <4>2, <4>3, <6>1, ElementOfSeq
        <5>2. /\ Len(received'[q]) <= Len(log[q])
              /\ \A i \in 1 .. Len(received'[q]) : received'[q][i] = log[q][i]
          BY <4>4, <5>1
        <5>3. IsPrefix(received'[q], log[q])
          BY <4>1, <4>3, <5>2, PrefixForm
        <5> QED BY <4>1, <5>3, SubSeqFull DEF IsPrefix
      <4>6. Abstract!Receive(q)
        <5>1. q \notin lost /\ lost' = lost /\ log' = log
          BY <3>1, <3>3 DEF lost, log, Published
        <5>2. received' = [received EXCEPT ![q] = SubSeq(log[q], 1, n)]
          BY <4>1, <4>5
        <5> QED BY <4>4, <5>1, <5>2 DEF Abstract!Receive, log, lost, Published
      <4> QED BY <3>1, <4>6 DEF Abstract!Next
    <3> QED BY <3>2, <3>3
  <2> QED BY <1>2, <2>2, <2>3, <2>4, <2>5 DEF Next
<1> QED BY <1>1, <1>2, Invariance, PTL DEF Spec, Abstract!Safety

=============================================================================
