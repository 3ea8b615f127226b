---------------------------- MODULE ReaderProofs ----------------------------
(***************************************************************************)
(* The partition implements Delivery for its readers, for any batches,     *)
(* readers, segment sizes and index intervals: until the log is damaged a  *)
(* reader sees every record ever written, in order, without a gap and      *)
(* without a repetition.                                                   *)
(*                                                                         *)
(* That fetches get to the end of the log is FetchFindsRecord, in          *)
(* PartitionProofs; here it is shown that whatever they return is what     *)
(* comes next.                                                             *)
(***************************************************************************)
EXTENDS PartitionProofs

-----------------------------------------------------------------------------
(* What one fetch returns *)

\* The file holds the record at the offset.
Holds(data, offset, record) ==
    \E j \in 1 .. Len(data) : \E k \in 0 .. Count[data[j].id] - 1 :
        offset = data[j].base + k /\ record = <<data[j].id, k>>

\* It holds the records, one after the other from the offset on.
Runs(data, offset, records) ==
    \A i \in 1 .. Len(records) : Holds(data, offset + i - 1, records[i])

LEMMA RunsOn ==
    ASSUME NEW data, NEW offset \in Nat, NEW s \in Seq(Record), NEW t \in Seq(Record),
           Runs(data, offset, s), Runs(data, offset + Len(s), t)
    PROVE  Runs(data, offset, s \o t)
<1>1. /\ Len(s \o t) = Len(s) + Len(t) /\ Len(s) \in Nat /\ Len(t) \in Nat
      /\ \A i \in 1 .. Len(s) + Len(t) : (s \o t)[i] = IF i <= Len(s) THEN s[i] ELSE t[i - Len(s)]
  BY ConcatProperties
<1> SUFFICES ASSUME NEW i \in 1 .. Len(s) + Len(t)
             PROVE  Holds(data, offset + i - 1, (s \o t)[i])
  BY <1>1 DEF Runs
<1>2. CASE i <= Len(s)
  <2>1. i \in 1 .. Len(s) /\ (s \o t)[i] = s[i]
    BY <1>1, <1>2
  <2> QED BY <2>1 DEF Runs
<1>3. CASE ~ (i <= Len(s))
  <2>1. /\ i - Len(s) \in 1 .. Len(t) /\ (s \o t)[i] = t[i - Len(s)]
        /\ offset + Len(s) + (i - Len(s)) - 1 = offset + i - 1
    BY <1>1, <1>3
  <2>2. Holds(data, offset + Len(s) + (i - Len(s)) - 1, t[i - Len(s)])
    BY <2>1 DEF Runs
  <2> QED BY <2>1, <2>2
<1> QED BY <1>2, <1>3

\* The records of a batch from the k-th on.
LEMMA BatchRuns ==
    ASSUME NEW data \in Seq(Batch), NEW j \in 1 .. Len(data), NEW k \in 0 .. Count[data[j].id]
    PROVE  /\ RecordsFrom(data[j].id, k) \in Seq(Record)
           /\ Len(RecordsFrom(data[j].id, k)) = Count[data[j].id] - k
           /\ Runs(data, data[j].base + k, RecordsFrom(data[j].id, k))
<1> DEFINE batch == data[j]
           records == RecordsFrom(batch.id, k)
           n == Count[batch.id]
<1>1. batch.id \in Batches /\ batch.base \in Nat /\ n \in Nat
  BY BatchAt
<1>2. /\ records \in Seq(Record) /\ Len(records) = n - k
      /\ \A i \in 1 .. n - k : records[i] = <<batch.id, k + i - 1>>
  <2>1. k \in 0 .. Count[batch.id]
    OBVIOUS
  <2> HIDE DEF batch
  <2> QED BY <1>1, <2>1, RecordsFromType
<1>3. Runs(data, batch.base + k, records)
  <2> SUFFICES ASSUME NEW i \in 1 .. n - k
               PROVE  Holds(data, batch.base + k + i - 1, records[i])
    BY <1>2 DEF Runs
  <2>1. k + i - 1 \in 0 .. n - 1 /\ batch.base + k + i - 1 = batch.base + (k + i - 1)
    <3>1. k \in 0 .. n
      OBVIOUS
    <3> HIDE DEF batch, n
    <3> QED BY <1>1, <3>1
  <2> DEFINE m == k + i - 1
  <2>2. m \in 0 .. Count[data[j].id] - 1 /\ batch.base + k + i - 1 = data[j].base + m
        /\ records[i] = <<data[j].id, m>>
    BY <1>2, <2>1
  <2> HIDE DEF m, batch, records, n
  <2> QED BY <2>2 DEF Holds
<1> QED BY <1>2, <1>3

\* Batches of a file that follow its q-th: joining a least number of them that
\* does not run on would come after one that does.
LEMMA RestRuns ==
    ASSUME NEW data \in Seq(Batch), NEW base \in Nat, Contiguous(data, base),
           NEW q \in 0 .. Len(data), NEW rest \in Seq(Batch), q + Len(rest) <= Len(data),
           \A m \in 1 .. Len(rest) : rest[m] = data[q + m]
    PROVE  LET parts == [m \in 1 .. Len(rest) |-> RecordsFrom(rest[m].id, 0)]
           IN  /\ FlattenSeq(parts) \in Seq(Record)
               /\ Runs(data, base + Total(data)[q], FlattenSeq(parts))
<1> DEFINE parts == [m \in 1 .. Len(rest) |-> RecordsFrom(rest[m].id, 0)]
           n == Len(rest)
           T == Total(data)
           f == Flattened(parts)
           start == base + T[q]
           Good(m) == /\ f[m] \in Seq(Record) /\ Len(f[m]) = T[q + m] - T[q]
                      /\ Runs(data, start, f[m])
           Bad == {m \in 1 .. n : ~ Good(m)}
<1>1. n \in Nat /\ Len(data) \in Nat /\ q \in Nat /\ q + n <= Len(data)
  OBVIOUS
<1>2. \A m \in 1 .. n : q + m \in 1 .. Len(data) /\ q + m - 1 \in 0 .. Len(data)
                        /\ rest[m] = data[q + m]
  BY <1>1
<1>3. /\ \A i \in 0 .. Len(data) : T[i] \in Nat
      /\ \A i \in 1 .. Len(data) : T[i] = T[i - 1] + Count[data[i].id]
  BY TotalValues, TotalType
<1>4. start \in Nat
  BY <1>1, <1>3
<1> HIDE DEF T, n, start
<1>5. ASSUME NEW m \in 1 .. n
      PROVE  /\ parts[m] \in Seq(Record)
             /\ Len(parts[m]) = T[q + m] - T[q + m - 1]
             /\ Runs(data, start + (T[q + m - 1] - T[q]), parts[m])
  <2> DEFINE j == q + m
  <2>1. /\ j \in 1 .. Len(data) /\ j - 1 \in 0 .. Len(data) /\ rest[m] = data[j]
        /\ parts[m] = RecordsFrom(rest[m].id, 0)
    BY <1>2 DEF n
  <2> HIDE DEF j, parts
  <2>2. Count[data[j].id] \in Nat /\ 0 \in 0 .. Count[data[j].id] /\ data[j].base \in Nat
    BY <2>1, BatchAt
  <2>3. /\ parts[m] \in Seq(Record)
        /\ Len(parts[m]) = Count[data[j].id] - 0
        /\ Runs(data, data[j].base + 0, parts[m])
    BY <2>1, <2>2, BatchRuns
  <2>4. data[j].base = base + T[j - 1]
    BY <2>1 DEF Contiguous, T
  <2>5. T[j] = T[j - 1] + Count[data[j].id] /\ T[j] \in Nat /\ T[j - 1] \in Nat /\ T[q] \in Nat
    BY <1>1, <1>3, <2>1
  <2>6. data[j].base + 0 = start + (T[j - 1] - T[q])
    BY <2>2, <2>4, <2>5 DEF start
  <2>7. Len(parts[m]) = T[j] - T[j - 1]
    BY <2>2, <2>3, <2>5
  <2> QED BY <2>3, <2>6, <2>7 DEF j
<1>6. parts \in Seq(Seq(Record)) /\ Len(parts) = n
  <2>1. \A m \in 1 .. n : RecordsFrom(rest[m].id, 0) \in Seq(Record)
    BY <1>5 DEF n
  <2>2. parts \in Seq(Seq(Record))
    BY <1>1, <2>1, IsASeq DEF n
  <2>3. DOMAIN parts = 1 .. n
    BY DEF n
  <2> HIDE DEF parts
  <2> QED BY <1>1, <2>2, <2>3, LenProperties
<1> HIDE DEF parts
<1>7. /\ parts = <<>> => FlattenSeq(parts) = <<>>
      /\ \A m \in 1 .. n : f[m] = IF m = 1 THEN parts[m] ELSE f[m - 1] \o parts[m]
      /\ n # 0 => FlattenSeq(parts) = f[n]
  BY <1>6, FlattenValues, FlattenDef
<1> HIDE DEF f
<1>8. Bad = {}
  <2>1. SUFFICES ASSUME Bad # {} PROVE FALSE
    OBVIOUS
  <2>2. PICK m \in Bad : \A i \in Bad : m <= i
    <3>1. Bad \subseteq Nat
      BY <1>1
    <3> HIDE DEF Bad
    <3> QED BY <2>1, <3>1, LeastNat
  <2>3. m \in 1 .. n /\ ~ Good(m)
    OBVIOUS
  <2>4. T[q] \in Nat /\ T[q + m] \in Nat /\ T[q + m - 1] \in Nat
    BY <1>1, <1>2, <1>3, <2>3
  <2>5. CASE m = 1
    <3>1. f[m] = parts[m] /\ q + m - 1 = q
      BY <1>1, <1>7, <2>3, <2>5
    <3>2. start + (T[q] - T[q]) = start
      BY <1>4, <2>4
    <3>3. Good(m)
      BY <1>5, <2>3, <3>1, <3>2
    <3> QED BY <2>3, <3>3
  <2>6. CASE m # 1
    <3> DEFINE i == m - 1
    <3>1. i \in 1 .. n /\ q + m - 1 = q + i
      BY <1>1, <2>3, <2>6
    <3>2. Good(i)
      <4>1. ~ (m <= i)
        BY <1>1, <2>3
      <4>2. i \notin Bad
        <5> HIDE DEF Bad, i
        <5> QED BY <2>2, <4>1
      <4> HIDE DEF i
      <4> QED BY <3>1, <4>2
    <3>3. f[m] = f[i] \o parts[m]
      BY <1>7, <2>3, <2>6
    <3> HIDE DEF i, Bad
    <3>4. /\ parts[m] \in Seq(Record) /\ Len(parts[m]) = T[q + m] - T[q + i]
          /\ Runs(data, start + (T[q + i] - T[q]), parts[m])
      BY <1>5, <2>3, <3>1
    <3>5. T[q + i] \in Nat
      BY <2>4, <3>1
    <3>6. Runs(data, start, f[m])
      BY <1>4, <3>2, <3>3, <3>4, RunsOn
    <3>7. f[m] \in Seq(Record) /\ Len(f[m]) = T[q + m] - T[q]
      <4>0. f[i] \in Seq(Record) /\ parts[m] \in Seq(Record)
        BY <3>2, <3>4
      <4>1. f[m] \in Seq(Record) /\ Len(f[m]) = Len(f[i]) + Len(parts[m])
        <5> HIDE DEF Good
        <5> QED BY <3>3, <4>0, ConcatProperties
      <4> QED BY <2>4, <3>2, <3>4, <3>5, <4>1
    <3> QED BY <2>3, <3>6, <3>7
  <2> QED BY <2>5, <2>6
<1>9. FlattenSeq(parts) \in Seq(Record) /\ Runs(data, start, FlattenSeq(parts))
  <2>1. CASE n = 0
    <3>1. parts = <<>>
      BY <1>6, <2>1, EmptySeq
    <3>2. FlattenSeq(parts) = <<>> /\ Len(<<>>) = 0 /\ <<>> \in Seq(Record)
      BY <1>7, <3>1
    <3> QED BY <3>2 DEF Runs
  <2>2. CASE n # 0
    <3>1. n \in 1 .. n
      BY <1>1, <2>2
    <3>2. Good(n)
      BY <1>8, <3>1
    <3> QED BY <1>7, <2>2, <3>2
  <2> QED BY <2>1, <2>2
<1> QED BY <1>9 DEF parts, start, T

\* A read of a segment gives the batches of its file from some place on.
LEMMA IterPart ==
    ASSUME NEW data \in Seq(Batch), NEW index \in Seq(IndexEntry),
           NEW view \in SegmentView, view.indexCount <= Len(index), NEW offset \in Nat
    PROVE  LET batches == BatchIterFrom(data, index, view, offset)
           IN  /\ batches \in Seq(Batch)
               /\ batches # <<>> =>
                     \E p \in Nat : /\ p + Len(batches) <= Len(data)
                                    /\ \A i \in 1 .. Len(batches) : batches[i] = data[p + i]
<1> DEFINE entry == FindPhysicalPosition(index, view.indexCount, offset)
           start == IF entry = Nil THEN [offset |-> view.base, pos |-> 0] ELSE entry
           p == LinearSearch(data, view.size, offset, start)
           batches == BatchIterFrom(data, index, view, offset)
           end == Min({view.size, Len(data)})
<1>1. view.size \in Nat /\ view.base \in Nat /\ view.indexCount \in 0 .. Len(index)
  BY DEF SegmentView
<1>2. entry \in IndexEntry \union {Nil}
  BY <1>1, FindType
<1>3. start.offset \in Nat /\ start.pos \in Nat
  <2> HIDE DEF entry
  <2> QED BY <1>1, <1>2 DEF IndexEntry
<1>4. p \in Nat \union {Nil}
  <2> HIDE DEF start
  <2> QED BY <1>1, <1>3, LinearSearchType
<1>5. batches = <<>> \/ (p # Nil /\ batches = SubSeq(data, p + 1, end))
  <2>1. batches = IF (entry = Nil /\ view.size = 0) \/ p = Nil THEN <<>>
                  ELSE BatchesFrom(data, view.size, p)
    BY DEF BatchIterFrom
  <2> HIDE DEF batches, p, entry
  <2> QED BY <2>1 DEF BatchesFrom
<1>6. end \in 0 .. Len(data)
  <2>1. Len(data) \in Nat
    OBVIOUS
  <2>2. end = IF view.size <= Len(data) THEN view.size ELSE Len(data)
    BY <1>1, <2>1, MinPair
  <2> HIDE DEF end
  <2> QED BY <1>1, <2>1, <2>2
<1>7. batches \in Seq(Batch)
  BY BatchIterType
<1> HIDE DEF p, batches, end
<1>8. ASSUME batches # <<>>
      PROVE  /\ p \in Nat /\ p + Len(batches) <= Len(data)
             /\ \A i \in 1 .. Len(batches) : batches[i] = data[p + i]
  <2>1. p \in Nat /\ p + 1 \in Nat \ {0} /\ batches = SubSeq(data, p + 1, end)
    BY <1>4, <1>5, <1>8
  <2>2. /\ Len(batches) = IF p + 1 <= end THEN end - (p + 1) + 1 ELSE 0
        /\ \A i \in 1 .. end - (p + 1) + 1 : batches[i] = data[p + 1 + i - 1]
    BY <1>6, <2>1, PartType
  <2>3. Len(batches) \in Nat /\ Len(batches) # 0
    BY <1>7, <1>8
  <2>4. Len(batches) = end - p /\ end \in Nat /\ end <= Len(data)
    BY <1>6, <2>1, <2>2, <2>3
  <2>5. \A i \in 1 .. Len(batches) : i \in 1 .. end - (p + 1) + 1 /\ p + 1 + i - 1 = p + i
    BY <2>1, <2>4
  <2> QED BY <2>1, <2>2, <2>4, <2>5
<1> QED BY <1>7, <1>8 DEF batches

\* Whatever the search found, what a fetch returns is in the file, one record after
\* the other from the offset on: the cut of the first batch sees to that.
LEMMA FetchRuns ==
    ASSUME NEW data \in Seq(Batch), NEW index \in Seq(IndexEntry),
           NEW view \in SegmentView, view.indexCount <= Len(index),
           NEW offset \in Nat, NEW fit \in Nat, Contiguous(data, view.base)
    PROVE  Runs(data, offset, SegmentFetch(data, index, view, offset, fit))
<1> DEFINE batches == BatchIterFrom(data, index, view, offset)
           first == Head(batches)
           rest == SubSeq(batches, 2, Min({fit, Len(batches)}))
           parts == [i \in 1 .. Len(rest) |-> RecordsFrom(rest[i].id, 0)]
           k == offset - first.base
           none == \/ batches = <<>>
                   \/ offset \notin first.base .. first.base + Count[first.id] - 1
           fetched == SegmentFetch(data, index, view, offset, fit)
<1>1. fetched = IF none THEN <<>> ELSE RecordsFrom(first.id, k) \o FlattenSeq(parts)
  BY DEF SegmentFetch
<1>2. /\ batches \in Seq(Batch)
      /\ batches # <<>> =>
            \E p \in Nat : /\ p + Len(batches) <= Len(data)
                           /\ \A i \in 1 .. Len(batches) : batches[i] = data[p + i]
  BY IterPart
<1> HIDE DEF batches, fetched
<1>3. CASE none
  <2> HIDE DEF none
  <2>1. fetched = <<>> /\ Len(<<>>) = 0
    BY <1>1, <1>3
  <2> QED BY <2>1 DEF Runs, fetched
<1>4. CASE ~ none
  <2>1. batches # <<>> /\ offset \in first.base .. first.base + Count[first.id] - 1
    BY <1>4
  <2>2. fetched = RecordsFrom(first.id, k) \o FlattenSeq(parts)
    <3> HIDE DEF none, first, k, parts
    <3> QED BY <1>1, <1>4
  <2>3. PICK p \in Nat : /\ p + Len(batches) <= Len(data)
                         /\ \A i \in 1 .. Len(batches) : batches[i] = data[p + i]
    BY <1>2, <2>1
  <2> DEFINE q == p + 1
  <2>4. /\ Len(batches) \in Nat \ {0} /\ Len(data) \in Nat
        /\ q \in 1 .. Len(data) /\ q \in 0 .. Len(data) /\ q - 1 \in 0 .. Len(data)
        /\ first = data[q]
    <3>1. Len(batches) \in Nat \ {0} /\ first = batches[1]
      BY <1>2, <2>1
    <3>2. 1 \in 1 .. Len(batches) /\ Len(data) \in Nat
      BY <3>1
    <3> HIDE DEF first
    <3> QED BY <2>3, <3>1, <3>2
  <2> HIDE DEF q, first
  <2>5. /\ first.id \in Batches /\ first.base \in Nat /\ Count[first.id] \in Nat \ {0}
        /\ Total(data)[q] \in Nat /\ Total(data)[q - 1] \in Nat
        /\ Total(data)[q] = Total(data)[q - 1] + Count[first.id]
        /\ first.base = view.base + Total(data)[q - 1]
        /\ view.base \in Nat
    BY <2>4, BatchAt, TotalType, TotalValues DEF Contiguous, SegmentView
  <2>6. k \in 0 .. Count[first.id] /\ first.base + k = offset
    <3> DEFINE b == first.base
               c == Count[first.id]
    <3>1. b \in Nat /\ c \in Nat /\ offset \in b .. b + c - 1 /\ k = offset - b
      BY <2>1, <2>5
    <3> HIDE DEF b, c, k
    <3>2. k \in 0 .. c /\ b + k = offset
      BY <3>1
    <3> QED BY <3>2 DEF b, c
  <2>7. /\ RecordsFrom(first.id, k) \in Seq(Record)
        /\ Len(RecordsFrom(first.id, k)) = Count[first.id] - k
        /\ Runs(data, offset, RecordsFrom(first.id, k))
    <3> HIDE DEF k
    <3> QED BY <2>4, <2>6, BatchRuns
  <2>8. offset + Len(RecordsFrom(first.id, k)) = view.base + Total(data)[q]
    <3> DEFINE t == Total(data)[q - 1]
               u == Total(data)[q]
               c == Count[first.id]
               len == Len(RecordsFrom(first.id, k))
    <3>1. /\ t \in Nat /\ u = t + c /\ c \in Nat /\ first.base = view.base + t /\ view.base \in Nat
          /\ k \in 0 .. c /\ first.base + k = offset /\ len = c - k
      BY <2>5, <2>6, <2>7
    <3> HIDE DEF t, u, c, k, len
    <3>2. offset + len = view.base + u
      BY <3>1
    <3> QED BY <3>2 DEF u, len
  <2>9. /\ rest \in Seq(Batch) /\ q + Len(rest) <= Len(data)
        /\ \A m \in 1 .. Len(rest) : rest[m] = data[q + m]
    <3> DEFINE end == Min({fit, Len(batches)})
    <3>1. end \in 0 .. Len(batches)
      <4>1. end = IF fit <= Len(batches) THEN fit ELSE Len(batches)
        BY <2>4, MinPair
      <4> HIDE DEF end
      <4> QED BY <2>4, <4>1
    <3>2. rest = SubSeq(batches, 2, end) /\ 2 \in Nat \ {0}
      OBVIOUS
    <3> HIDE DEF rest, end
    <3>3. /\ rest \in Seq(Batch)
          /\ Len(rest) = IF 2 <= end THEN end - 2 + 1 ELSE 0
          /\ \A m \in 1 .. end - 2 + 1 : rest[m] = batches[2 + m - 1]
      BY <1>2, <3>1, <3>2, PartType
    <3>4. q + Len(rest) <= Len(data)
      BY <2>3, <2>4, <3>1, <3>3 DEF q
    <3>5. \A m \in 1 .. Len(rest) : /\ m \in 1 .. end - 2 + 1
                                    /\ m + 1 \in 1 .. Len(batches)
                                    /\ 2 + m - 1 = m + 1 /\ p + (m + 1) = q + m
      BY <2>4, <3>1, <3>3 DEF q
    <3>6. \A m \in 1 .. Len(rest) : rest[m] = data[q + m]
      <4> TAKE m \in 1 .. Len(rest)
      <4>1. rest[m] = batches[m + 1] /\ m + 1 \in 1 .. Len(batches) /\ p + (m + 1) = q + m
        BY <3>3, <3>5
      <4>2. batches[m + 1] = data[p + (m + 1)]
        BY <2>3, <4>1
      <4> QED BY <4>1, <4>2
    <3> QED BY <3>3, <3>4, <3>6
  <2> HIDE DEF rest
  <2>10. /\ FlattenSeq(parts) \in Seq(Record)
         /\ Runs(data, view.base + Total(data)[q], FlattenSeq(parts))
    BY <2>4, <2>5, <2>9, RestRuns
  <2> HIDE DEF parts, k
  <2>11. Runs(data, offset, RecordsFrom(first.id, k) \o FlattenSeq(parts))
    BY <2>7, <2>8, <2>10, RunsOn
  <2> QED BY <2>2, <2>11 DEF fetched
<1> QED BY <1>3, <1>4

-----------------------------------------------------------------------------
(* The steps that touch files *)

\* What a step leaves alone when it touches no file.
fileVars == <<segmentVars, writing, up, history, clobbered>>

LEMMA FileSteps ==
    ASSUME TypeOK, Told, [Next]_vars
    PROVE  \/ UNCHANGED fileVars \/ Stop
           \/ WriteBatch \/ IndexBatch \/ PublishBatch \/ Restart
<1>1. CASE UNCHANGED vars
  BY <1>1 DEF vars, actorVars, historyVars, fileVars
<1>2. CASE \/ \E id \in Batches, acks \in AcksKinds : Produce(id, acks)
           \/ Shutdown
  BY <1>2 DEF Produce, Shutdown, actorVars, historyVars, fileVars
<1>3. CASE \/ \E r \in Readers, fit \in FetchSizes : Fetch(r, fit)
           \/ \E r \in Readers : Respond(r) \/ Disconnect(r)
           \/ \E r \in Replicas : LateReport(r)
  BY <1>3 DEF Fetch, Respond, Disconnect, LateReport, actorVars, historyVars, fileVars
<1>4. CASE UpdateReplicaLeo
  BY <1>4 DEF UpdateReplicaLeo, historyVars, fileVars
<1>5. CASE HandleShutdown \/ Crash
  BY <1>5 DEF HandleShutdown, Crash
<1>6. CASE TruncateLog
  <2>1. queue # <<>> /\ Head(queue).cmd = "Truncate" /\ queue \in Seq(Command)
    BY <1>6 DEF TruncateLog, Receive, TypeOK
  <2>2. 1 \in 1 .. Len(queue) /\ Head(queue) = queue[1]
    BY <2>1
  <2> QED BY <2>1, <2>2 DEF Told
<1> QED BY <1>1, <1>2, <1>3, <1>4, <1>5, <1>6 DEF Next, Actor

\* A new active file, at the end of the one before.
Rotated(entries) ==
    /\ FileEnd \in Nat /\ ActiveBase < FileEnd
    /\ files' = Created(files, FileEnd)
    /\ indexes' = Created(entries, FileEnd)
    /\ cursor' = 0 /\ size' = 0 /\ since' = IndexInterval
    /\ ActiveBase' = FileEnd

LEMMA RotatedActive ==
    ASSUME TypeOK, Laid, FileEnd \in Nat, ActiveBase < FileEnd, files' = Created(files, FileEnd)
    PROVE  ActiveBase' = FileEnd
<1>1. /\ DOMAIN files \subseteq Nat /\ IsFiniteSet(DOMAIN files)
      /\ ActiveBase \in Nat /\ \A b \in DOMAIN files : b <= ActiveBase
  BY ActiveFacts DEF TypeOK, Laid
<1>2. \A b \in DOMAIN files : b <= FileEnd
  BY <1>1
<1>3. DOMAIN files' = DOMAIN files \union {FileEnd} /\ files'[FileEnd] = <<>>
  BY CreatedFacts
<1> QED BY <1>1, <1>2, <1>3, CreatedActive

LEMMA PublishMoves ==
    ASSUME PartitionInv, PublishBatch, ~ clobbered
    PROVE  /\ up /\ writing # Nil /\ writing.indexed /\ writing' = Nil
           /\ UNCHANGED <<up, history, clobbered, reply, pos, got>>
           /\ Rotated(indexes) \/ UNCHANGED segmentVars
<1> DEFINE leo == snapshot.leo + Count[writing.id]
           full == size >= SegmentBytes
<1>0. TypeOK /\ Laid /\ Ends
  BY DEF PartitionInv
<1>1. /\ writing # Nil /\ writing.indexed /\ writing' = Nil
      /\ IF full THEN OpenFresh(leo) ELSE UNCHANGED segmentVars
      /\ UNCHANGED <<up, history, clobbered, reply, pos, got>>
  BY DEF PublishBatch, NewBase, historyVars, readerVars
<1>2. up
  BY <1>0, <1>1 DEF Ends
<1>3. /\ Count[writing.id] \in Nat \ {0} /\ snapshot.leo \in Nat
      /\ ActiveBase \in Nat /\ ActiveBase <= snapshot.leo
  BY <1>0, PublishedEnd, ActiveFacts DEF Laid
<1>4. leo \in Nat /\ ActiveBase < leo
  BY <1>3
<1>5. leo = FileEnd
  BY <1>0, <1>1, <1>2 DEF Ends, Unpublished
<1> HIDE DEF leo, full
<1>6. OpenFresh(leo) => Rotated(indexes)
  BY <1>0, <1>4, <1>5, RotatedActive DEF OpenFresh, Rotated
<1> QED BY <1>1, <1>2, <1>6

LEMMA RestartMoves ==
    ASSUME PartitionInv, Restart
    PROVE  /\ ~ up /\ up' /\ writing = Nil /\ writing' = Nil
           /\ UNCHANGED <<history, clobbered, reply, pos, got>>
           /\ \/ Rotated(OpenedIndexes)
              \/ /\ files' = files /\ indexes' = OpenedIndexes
                 /\ size' = Len(Active)
                 /\ since' = IF Active = <<>> THEN IndexInterval ELSE 0
<1> DEFINE leo == RecoveredEnd(ActiveBase)
           full == Len(Active) >= SegmentBytes
<1>0. TypeOK /\ Laid /\ Ends
  BY DEF PartitionInv
<1>1. /\ ~ up /\ up' = TRUE /\ cursor' = 0
      /\ files' = IF full THEN Created(files, leo) ELSE files
      /\ indexes' = IF full THEN Created(OpenedIndexes, leo) ELSE OpenedIndexes
      /\ size' = IF full THEN 0 ELSE Len(Active)
      /\ since' = IF full \/ Active = <<>> THEN IndexInterval ELSE 0
      /\ UNCHANGED <<writing, history, clobbered, reply, pos, got>>
  BY DEF Restart, historyVars, readerVars
<1>2. writing = Nil /\ writing' = Nil
  BY <1>0, <1>1 DEF Ends
<1>3. /\ ActiveBase \in Nat /\ Active \in Seq(Batch) /\ RecordsCount(Active) \in Nat
      /\ leo = FileEnd
  BY <1>0, ActiveFacts DEF RecoveredEnd, FileEnd, Active
<1> HIDE DEF leo
<1>4. CASE full
  <2>1. Active # <<>>
    <3>1. Len(Active) >= SegmentBytes /\ SegmentBytes \in Nat \ {0}
      BY <1>4, SegmentAssumption
    <3>2. Len(<<>>) = 0
      OBVIOUS
    <3> QED BY <3>1, <3>2
  <2>2. RecordsCount(Active) > 0
    BY <1>3, <2>1, CountPositive
  <2>3. FileEnd \in Nat /\ ActiveBase < FileEnd
    BY <1>3, <2>2 DEF FileEnd
  <2>4. /\ files' = Created(files, FileEnd) /\ indexes' = Created(OpenedIndexes, FileEnd)
        /\ cursor' = 0 /\ size' = 0 /\ since' = IndexInterval
    BY <1>1, <1>3, <1>4
  <2>5. Rotated(OpenedIndexes)
    BY <1>0, <2>3, <2>4, RotatedActive DEF Rotated
  <2> QED BY <1>1, <1>2, <2>5
<1>5. CASE ~ full
  BY <1>1, <1>2, <1>5
<1> QED BY <1>4, <1>5

\* Under ~ clobbered, an append goes to the end of the active file.
LEMMA WriteMoves ==
    ASSUME PartitionInv, WriteBatch
    PROVE  /\ up /\ up' /\ writing = Nil /\ writing' # Nil /\ ~ writing'.indexed
           /\ UNCHANGED <<indexes, size, since, reply, pos, got>>
           /\ DOMAIN files' = DOMAIN files /\ ActiveBase' = ActiveBase
           /\ \A b \in DOMAIN files : b # ActiveBase => files'[b] = files[b]
           /\ Active' # <<>>
           /\ ~ clobbered' => ~ clobbered /\ cursor >= Len(Active)
           /\ \E id \in Batches : history' = history \o RecordsFrom(id, 0)
<1> DEFINE batch == [id |-> Head(queue).id, base |-> snapshot.leo]
           over == cursor < Len(Active)
           data == IF over THEN [Active EXCEPT ![cursor + 1] = batch] ELSE Append(Active, batch)
<1>0. TypeOK /\ Laid /\ Ends
  BY DEF PartitionInv
<1>1. /\ up /\ writing = Nil /\ queue # <<>> /\ Head(queue).cmd = "Append"
      /\ files' = [files EXCEPT ![ActiveBase] = data]
      /\ writing' = [id |-> Head(queue).id, acks |-> Head(queue).acks, pos |-> Len(Active),
                     indexed |-> FALSE]
      /\ history' = history \o RecordsFrom(Head(queue).id, 0)
      /\ clobbered' = (clobbered \/ over)
      /\ UNCHANGED <<indexes, size, since, up, reply, pos, got>>
  BY DEF WriteBatch, Receive, readerVars
<1>2. Head(queue).id \in Batches /\ Head(queue).acks \in AcksKinds
  BY <1>0, <1>1, ReceivedType, CommandParts
<1>3. /\ cursor \in Nat /\ Active \in Seq(Batch) /\ Len(Active) \in Nat
      /\ ActiveBase \in DOMAIN files /\ snapshot.leo \in Nat
  <2>1. cursor \in Nat
    BY <1>0 DEF TypeOK
  <2> QED BY <1>0, <2>1, ActiveFacts, ViewFacts
<1>4. writing' # Nil /\ ~ writing'.indexed
  <2>1. writing' \in Writing /\ ~ writing'.indexed
    BY <1>1, <1>2, <1>3 DEF Writing
  <2> QED BY <2>1, NilIsNoRecord
<1>5. batch \in Batch
  BY <1>2, <1>3 DEF Batch
<1> HIDE DEF batch
<1>6. data # <<>>
  <2>1. Len([Active EXCEPT ![cursor + 1] = batch]) = Len(Active)
    BY <1>3
  <2>2. Append(Active, batch) # <<>>
    BY <1>3, <1>5, AppendProperties
  <2>3. CASE over
    <3>1. Len(Active) # 0
      BY <1>3, <2>3
    <3> QED BY <2>1, <2>3, <3>1
  <2> QED BY <2>2, <2>3
<1>7. ~ clobbered' => ~ clobbered /\ cursor >= Len(Active)
  <2>1. ~ over => cursor >= Len(Active)
    BY <1>3
  <2> HIDE DEF over
  <2> QED BY <1>1, <2>1, Zenon
<1> HIDE DEF data
<1>8. /\ DOMAIN files' = DOMAIN files /\ files'[ActiveBase] = data
      /\ \A b \in DOMAIN files : b # ActiveBase => files'[b] = files[b]
  BY <1>1, <1>3
<1>9. ActiveBase' = ActiveBase
  BY <1>8, SameFiles
<1>10. Active' # <<>>
  BY <1>6, <1>8, <1>9 DEF Active
<1>11. \E id \in Batches : history' = history \o RecordsFrom(id, 0)
  BY <1>1, <1>2
<1> QED BY <1>1, <1>4, <1>7, <1>8, <1>9, <1>10, <1>11

LEMMA IndexMoves ==
    ASSUME PartitionInv, IndexBatch
    PROVE  /\ up /\ writing # Nil /\ ~ writing.indexed /\ writing' # Nil /\ writing'.indexed
           /\ UNCHANGED <<files, cursor, up, history, clobbered, reply, pos, got, ActiveBase, Active>>
           /\ size' = size + 1 /\ size' # 0
           /\ DOMAIN indexes' = DOMAIN indexes
           /\ \A b \in DOMAIN files : b # ActiveBase => indexes'[b] = indexes[b]
           /\ IndexDue(indexes[ActiveBase], since + 1) \/ indexes[ActiveBase] # <<>>
                 => indexes'[ActiveBase] # <<>>
<1> DEFINE index == indexes[ActiveBase]
           entry == [offset |-> snapshot.leo, pos |-> writing.pos]
           due == IndexDue(index, since + 1)
<1>0. TypeOK /\ Laid /\ Ends
  BY DEF PartitionInv
<1>1. /\ writing # Nil /\ ~ writing.indexed
      /\ indexes' = IF due THEN [indexes EXCEPT ![ActiveBase] = Append(index, entry)] ELSE indexes
      /\ size' = size + 1
      /\ writing' = [writing EXCEPT !.indexed = TRUE]
      /\ UNCHANGED <<files, cursor, up, history, clobbered, reply, pos, got>>
  BY DEF IndexBatch, historyVars, readerVars
<1>2. writing \in Writing
  BY <1>0, <1>1 DEF TypeOK
<1>3. up
  BY <1>0, <1>1 DEF Ends
<1>4. writing' # Nil /\ writing'.indexed
  <2>1. writing' \in Writing /\ writing'.indexed
    BY <1>1, <1>2 DEF Writing
  <2> QED BY <2>1, NilIsNoRecord
<1>5. size' # 0
  <2>1. size \in Nat
    BY <1>0 DEF TypeOK
  <2> QED BY <1>1, <2>1
<1>6. UNCHANGED <<ActiveBase, Active>>
  BY <1>1 DEF ActiveBase, Active
<1>7. /\ ActiveBase \in DOMAIN indexes /\ DOMAIN indexes = DOMAIN files /\ index \in Seq(IndexEntry)
      /\ entry \in IndexEntry
  <2>1. writing.pos \in Nat
    BY <1>2 DEF Writing
  <2> QED BY <1>0, <2>1, ActiveFacts, ViewFacts DEF TypeOK, IndexEntry
<1> HIDE DEF entry, due, index
<1>8. Append(index, entry) # <<>>
  BY <1>7, AppendProperties
<1>9. /\ DOMAIN indexes' = DOMAIN indexes
      /\ \A b \in DOMAIN files : b # ActiveBase => indexes'[b] = indexes[b]
      /\ due \/ index # <<>> => indexes'[ActiveBase] # <<>>
  BY <1>1, <1>7, <1>8 DEF index
<1> QED BY <1>1, <1>3, <1>4, <1>5, <1>6, <1>9 DEF due, index

-----------------------------------------------------------------------------
(* No file reaches into the next one *)

Disjoint(directory) ==
    \A b, c \in DOMAIN directory : b < c => b + RecordsCount(directory[b]) <= c

\* A record is in one file only.  (A truncation keeps the segment it cuts into
\* whole, but nobody truncates this partition.)
Apart == ~ clobbered => Disjoint(files)

\* No file of the directory reaches past the end of the active one.
LEMMA AllEnd ==
    ASSUME PartitionInv, Disjoint(files)
    PROVE  \A b \in DOMAIN files : /\ b \in Nat /\ RecordsCount(files[b]) \in Nat
                                   /\ b + RecordsCount(files[b]) <= FileEnd
<1> TAKE b \in DOMAIN files
<1>1. b \in Nat /\ RecordsCount(files[b]) \in Nat
  BY RecordsCountType DEF PartitionInv, TypeOK
<1>2. /\ ActiveBase \in DOMAIN files /\ ActiveBase \in Nat /\ b <= ActiveBase
      /\ RecordsCount(Active) \in Nat
  BY ActiveFacts DEF PartitionInv
<1>3. CASE b = ActiveBase
  BY <1>1, <1>2, <1>3 DEF FileEnd, Active
<1>4. CASE b < ActiveBase
  <2>1. b + RecordsCount(files[b]) <= ActiveBase
    BY <1>2, <1>4 DEF Disjoint
  <2> QED BY <1>1, <1>2, <2>1 DEF FileEnd
<1> QED BY <1>1, <1>2, <1>3, <1>4

LEMMA ApartStep == PartitionInv /\ Told /\ Apart /\ [Next]_vars => Apart'
<1> SUFFICES ASSUME PartitionInv, Told, Apart, [Next]_vars, ~ clobbered'
             PROVE  Disjoint(files')
  BY DEF Apart, Disjoint
<1>0. TypeOK /\ Laid /\ Ends
  BY DEF PartitionInv
<1>1. ASSUME files' = files, clobbered' = clobbered
      PROVE  Disjoint(files')
  BY <1>1 DEF Apart
<1>2. ASSUME clobbered' = clobbered, NEW entries, Rotated(entries)
      PROVE  Disjoint(files')
  <2>1. Disjoint(files) /\ FileEnd \in Nat
    BY <1>2 DEF Apart, Rotated
  <2>2. \A b \in DOMAIN files : /\ b \in Nat /\ RecordsCount(files[b]) \in Nat
                                /\ b + RecordsCount(files[b]) <= FileEnd
    BY <2>1, AllEnd
  <2>3. /\ DOMAIN files' = DOMAIN files \union {FileEnd}
        /\ \A b \in DOMAIN files : b # FileEnd => files'[b] = files[b]
    BY <1>2, CreatedFacts DEF Rotated
  <2> SUFFICES ASSUME NEW b \in DOMAIN files', NEW c \in DOMAIN files', b < c
               PROVE  b + RecordsCount(files'[b]) <= c
    BY DEF Disjoint
  <2>4. b \in DOMAIN files /\ b # FileEnd
    BY <2>1, <2>2, <2>3
  <2>5. CASE c = FileEnd
    BY <2>2, <2>3, <2>4, <2>5
  <2>6. CASE c # FileEnd
    BY <2>1, <2>3, <2>4, <2>6 DEF Disjoint
  <2> QED BY <2>5, <2>6
<1>3. CASE UNCHANGED fileVars \/ Stop \/ IndexBatch
  <2>1. files' = files /\ clobbered' = clobbered
    BY <1>3, IndexMoves DEF fileVars, segmentVars, Stop
  <2> QED BY <1>1, <2>1
<1>4. CASE PublishBatch
  <2>1. clobbered' = clobbered
    BY <1>4 DEF PublishBatch, historyVars
  <2>2. Rotated(indexes) \/ UNCHANGED segmentVars
    BY <1>4, <2>1, PublishMoves
  <2> QED BY <1>1, <1>2, <2>1, <2>2 DEF segmentVars
<1>5. CASE Restart
  <2>1. clobbered' = clobbered /\ (Rotated(OpenedIndexes) \/ files' = files)
    BY <1>5, RestartMoves
  <2> QED BY <1>1, <1>2, <2>1
<1>6. CASE WriteBatch
  <2>1. /\ DOMAIN files' = DOMAIN files /\ ~ clobbered
        /\ \A b \in DOMAIN files : b # ActiveBase => files'[b] = files[b]
    BY <1>6, WriteMoves
  <2>2. \A b \in DOMAIN files : b <= ActiveBase /\ b \in Nat
    BY <1>0, ActiveFacts DEF TypeOK
  <2>3. \A b, c \in DOMAIN files : b < c => b # ActiveBase
    BY <1>0, <2>2, ActiveFacts
  <2>4. Disjoint(files)
    BY <2>1 DEF Apart
  <2> QED BY <2>1, <2>3, <2>4 DEF Disjoint
<1> QED BY <1>0, <1>3, <1>4, <1>5, <1>6, FileSteps

LEMMA InitApart == Init => Apart
<1> SUFFICES ASSUME Init, NEW b \in DOMAIN files, NEW c \in DOMAIN files, b < c PROVE FALSE
  BY DEF Apart, Disjoint
<1>1. b = 0 /\ c = 0
  BY DEF Init
<1> QED BY <1>1

-----------------------------------------------------------------------------
(* A lost index stays lost *)

\* The first batch of a segment gets an index entry, unless the actor ends first.
FirstIndexed ==
    up /\ ~ clobbered =>
        /\ size = 0 => since >= IndexInterval /\ indexes[ActiveBase] = <<>>
        /\ size # 0 /\ cursor >= Len(Active) => indexes[ActiveBase] # <<>>

LEMMA FirstStep == PartitionInv /\ Told /\ Sound /\ FirstIndexed /\ [Next]_vars => FirstIndexed'
<1> SUFFICES ASSUME PartitionInv, Told, Sound, FirstIndexed, [Next]_vars, up', ~ clobbered'
             PROVE  /\ size' = 0 => since' >= IndexInterval /\ indexes'[ActiveBase'] = <<>>
                    /\ size' # 0 /\ cursor' >= Len(Active') => indexes'[ActiveBase'] # <<>>
  BY DEF FirstIndexed
<1>0. TypeOK /\ Laid /\ Ends
  BY DEF PartitionInv
<1>1. IndexInterval \in Nat \ {0}
  BY SegmentAssumption
<1>2. ASSUME UNCHANGED <<segmentVars, up, clobbered>>
      PROVE  /\ size' = 0 => since' >= IndexInterval /\ indexes'[ActiveBase'] = <<>>
             /\ size' # 0 /\ cursor' >= Len(Active') => indexes'[ActiveBase'] # <<>>
  <2>1. UNCHANGED <<ActiveBase, Active>>
    BY <1>2 DEF ActiveBase, Active, segmentVars
  <2> QED BY <1>2, <2>1 DEF FirstIndexed, segmentVars
<1>3. ASSUME NEW entries, Rotated(entries)
      PROVE  size' = 0 /\ since' >= IndexInterval /\ indexes'[ActiveBase'] = <<>>
  <2>1. /\ size' = 0 /\ since' = IndexInterval /\ ActiveBase' = FileEnd
        /\ indexes' = Created(entries, FileEnd)
    BY <1>3 DEF Rotated
  <2>2. Created(entries, FileEnd)[FileEnd] = <<>>
    BY CreatedFacts
  <2> QED BY <1>1, <2>1, <2>2
<1>4. CASE UNCHANGED fileVars
  BY <1>2, <1>4 DEF fileVars
<1>5. CASE Stop
  BY <1>5 DEF Stop
<1>6. CASE WriteBatch
  <2>1. /\ up /\ ~ clobbered /\ cursor >= Len(Active)
        /\ UNCHANGED <<indexes, size, since, ActiveBase>>
    BY <1>6, WriteMoves
  <2> QED BY <2>1 DEF FirstIndexed
<1>7. CASE IndexBatch
  <2>1. /\ up /\ ~ clobbered /\ writing # Nil /\ size' # 0 /\ ActiveBase' = ActiveBase
        /\ IndexDue(indexes[ActiveBase], since + 1) \/ indexes[ActiveBase] # <<>>
              => indexes'[ActiveBase] # <<>>
    BY <1>7, IndexMoves
  <2>2. cursor >= Len(Active)
    BY <2>1 DEF Sound, Underway
  <2>3. CASE size # 0
    BY <2>1, <2>2, <2>3 DEF FirstIndexed
  <2>4. CASE size = 0
    <3>1. since >= IndexInterval /\ indexes[ActiveBase] = <<>> /\ since \in Nat
      BY <1>0, <2>1, <2>4 DEF FirstIndexed, TypeOK
    <3>2. Len(<<>>) < MaxEntries
      <4>1. SegmentBytes \in Nat /\ SegmentBytes \div IndexInterval >= 0
        BY <1>1, SegmentAssumption
      <4>2. Len(<<>>) = 0 /\ SegmentBytes \div IndexInterval \in Int
        BY <1>1, <4>1
      <4> QED BY <4>1, <4>2 DEF MaxEntries
    <3>3. since + 1 >= IndexInterval
      BY <1>1, <3>1
    <3> QED BY <2>1, <3>1, <3>2, <3>3 DEF IndexDue
  <2> QED BY <2>3, <2>4
<1>8. CASE PublishBatch
  <2>1. clobbered' = clobbered
    BY <1>8 DEF PublishBatch, historyVars
  <2>2. up' = up /\ (Rotated(indexes) \/ UNCHANGED segmentVars)
    BY <1>8, <2>1, PublishMoves
  <2> QED BY <1>2, <1>3, <2>1, <2>2
<1>9. CASE Restart
  <2>1. CASE Rotated(OpenedIndexes)
    BY <1>3, <2>1
  <2>2. CASE /\ files' = files /\ indexes' = OpenedIndexes
             /\ size' = Len(Active)
             /\ since' = IF Active = <<>> THEN IndexInterval ELSE 0
    <3>1. UNCHANGED <<ActiveBase, Active>>
      BY <2>2 DEF ActiveBase, Active
    <3>2. ActiveBase \in DOMAIN files /\ Active \in Seq(Batch)
      BY <1>0, ActiveFacts
    <3>3. indexes'[ActiveBase] = IF Active = <<>> THEN <<>> ELSE ScannedIndex(indexes[ActiveBase])
      BY <2>2, <3>2 DEF OpenedIndexes, Active
    <3>4. CASE Active = <<>>
      <4>1. Len(<<>>) = 0 /\ IndexInterval >= IndexInterval
        BY <1>1
      <4> QED BY <2>2, <3>1, <3>3, <3>4, <4>1
    <3>5. CASE Active # <<>>
      <4>1. size' # 0
        BY <2>2, <3>2, <3>5
      <4>2. ScannedIndex(indexes[ActiveBase]) # <<>>
        BY DEF ScannedIndex
      <4> QED BY <3>1, <3>3, <3>5, <4>1, <4>2
    <3> QED BY <3>4, <3>5
  <2> QED BY <1>9, <2>1, <2>2, RestartMoves
<1> QED BY <1>0, <1>4, <1>5, <1>6, <1>7, <1>8, <1>9, FileSteps

LEMMA InitFirst == Init => FirstIndexed
<1> SUFFICES ASSUME Init PROVE FirstIndexed
  OBVIOUS
<1>1. TypeOK /\ Laid
  BY InitHolds DEF PartitionInv
<1>2. /\ ActiveBase \in {0} /\ indexes[0] = <<>> /\ size = 0 /\ since = IndexInterval
      /\ IndexInterval \in Nat
  BY <1>1, ActiveFacts, SegmentAssumption DEF Init
<1> QED BY <1>2 DEF FirstIndexed

\* The index of a segment that does not start at offset 0 does not know its first
\* batch, and no append is about to write the entry.
LostAt(base) ==
    /\ base \in DOMAIN files \ {0}
    /\ files[base] # <<>>
    /\ ScannedIndex(indexes[base])[1] = ZeroEntry
    /\ ~ Unindexed(base)

\* Damage is not repaired: appends go on behind the entry that is missing, and a
\* restart finds what the one before has made of it.
LEMMA DamageStays ==
    ASSUME PartitionInv, Told, Sound, FirstIndexed, [Next]_vars, Damaged
    PROVE  Damaged'
<1>0. TypeOK /\ Laid /\ Ends
  BY DEF PartitionInv
<1>1. CASE clobbered
  <2>1. clobbered'
    <3>1. CASE UNCHANGED fileVars \/ Stop \/ PublishBatch
      BY <1>1, <3>1 DEF fileVars, Stop, PublishBatch, historyVars
    <3>2. CASE WriteBatch \/ IndexBatch \/ Restart
      BY <1>1, <3>2, WriteMoves, IndexMoves, RestartMoves
    <3> QED BY <1>0, <3>1, <3>2, FileSteps
  <2> QED BY <2>1 DEF Damaged
<1>2. CASE ~ clobbered
  <2> SUFFICES ASSUME ~ clobbered' PROVE IndexLost'
    BY DEF Damaged
  <2>1. PICK base : LostAt(base)
    BY <1>2 DEF Damaged, IndexLost, LostAt
  <2> SUFFICES LostAt(base)'
    BY DEF IndexLost, LostAt
  <2>2. /\ base \in DOMAIN files /\ base # 0 /\ files[base] # <<>>
        /\ ScannedIndex(indexes[base])[1] = ZeroEntry /\ ~ Unindexed(base)
    BY <2>1 DEF LostAt
  <2>3. /\ base \in Nat /\ ActiveBase \in Nat /\ base <= ActiveBase
        /\ Active \in Seq(Batch) /\ indexes[ActiveBase] \in Seq(IndexEntry)
    BY <1>0, <2>2, ActiveFacts DEF TypeOK
  <2>4. ASSUME NEW entries, Rotated(entries), writing' = Nil, base \in DOMAIN entries,
               ScannedIndex(entries[base])[1] = ZeroEntry
        PROVE  LostAt(base)'
    <3>1. base # FileEnd
      BY <2>3, <2>4 DEF Rotated
    <3>2. base \in DOMAIN files' /\ files'[base] = files[base] /\ indexes'[base] = entries[base]
      <4>1. files' = Created(files, FileEnd) /\ indexes' = Created(entries, FileEnd)
        BY <2>4 DEF Rotated
      <4>2. base \in DOMAIN Created(files, FileEnd) /\ Created(files, FileEnd)[base] = files[base]
        <5>1. DOMAIN Created(files, FileEnd) = DOMAIN files \union {FileEnd}
          BY CreatedFacts
        <5>2. \A b \in DOMAIN files : b # FileEnd => Created(files, FileEnd)[b] = files[b]
          BY CreatedFacts, Zenon
        <5> QED BY <2>2, <3>1, <5>1, <5>2
      <4>3. Created(entries, FileEnd)[base] = entries[base]
        BY <2>4, <3>1, CreatedFacts
      <4> QED BY <4>1, <4>2, <4>3
    <3> QED BY <2>2, <2>4, <3>2 DEF LostAt, Unindexed
  <2>5. CASE UNCHANGED fileVars
    <3>1. UNCHANGED <<files, indexes, writing, ActiveBase>>
      BY <2>5 DEF fileVars, segmentVars, ActiveBase
    <3> QED BY <2>2, <3>1 DEF LostAt, Unindexed
  <2>6. CASE Stop
    BY <2>2, <2>6 DEF Stop, segmentVars, LostAt, Unindexed
  <2>7. CASE WriteBatch
    <3>1. /\ up /\ writing = Nil /\ cursor >= Len(Active)
          /\ UNCHANGED <<indexes, ActiveBase>> /\ DOMAIN files' = DOMAIN files
          /\ \A b \in DOMAIN files : b # ActiveBase => files'[b] = files[b]
      BY <2>7, WriteMoves
    <3>2. base # ActiveBase
      <4> SUFFICES ASSUME base = ActiveBase PROVE FALSE
        OBVIOUS
      <4>1. Underway /\ Shown
        BY <1>2, <3>1 DEF Sound
      <4>2. size = Len(Active) /\ Len(Active) # 0
        <5>1. Active # <<>> /\ size \in Nat
          BY <1>0, <2>2 DEF Active, TypeOK
        <5>2. size + 0 = Len(Active)
          BY <3>1, <4>1 DEF Shown
        <5> QED BY <2>3, <5>1, <5>2
      <4>3. indexes[ActiveBase] # <<>>
        BY <1>2, <3>1, <4>2 DEF FirstIndexed
      <4>4. 1 \in 1 .. Len(indexes[ActiveBase]) /\ indexes[ActiveBase][1] = ZeroEntry
        BY <2>2, <2>3, <4>3 DEF ScannedIndex
      <4>5. Points(indexes[ActiveBase][1], Active, ActiveBase)
        BY <3>1, <4>1, <4>4 DEF Underway, AllPoint
      <4>6. /\ ZeroEntry.offset = 0 /\ ZeroEntry.pos = 0
            /\ 0 \in 0 .. Len(Active) /\ Total(Active)[0] \in Nat
        BY <2>3, TotalType DEF ZeroEntry
      <4>7. ActiveBase + Total(Active)[0] = 0
        BY <4>4, <4>5, <4>6 DEF Points
      <4> QED BY <2>2, <2>3, <4>6, <4>7
    <3> QED BY <2>2, <3>1, <3>2 DEF LostAt, Unindexed
  <2>8. CASE IndexBatch
    <3>1. /\ writing # Nil /\ ~ writing.indexed
          /\ UNCHANGED <<files, ActiveBase>>
          /\ \A b \in DOMAIN files : b # ActiveBase => indexes'[b] = indexes[b]
      BY <2>8, IndexMoves
    <3>2. base # ActiveBase
      BY <2>2, <3>1 DEF Unindexed
    <3> QED BY <2>2, <3>1, <3>2 DEF LostAt, Unindexed
  <2>9. CASE PublishBatch
    <3>1. writing' = Nil /\ (Rotated(indexes) \/ UNCHANGED segmentVars)
      BY <1>2, <2>9, PublishMoves
    <3>2. DOMAIN indexes = DOMAIN files
      BY <1>0 DEF TypeOK
    <3> QED BY <2>2, <2>4, <3>1, <3>2 DEF LostAt, Unindexed, segmentVars
  <2>10. CASE Restart
    <3>1. /\ writing' = Nil
          /\ Rotated(OpenedIndexes) \/ (files' = files /\ indexes' = OpenedIndexes)
      BY <2>10, RestartMoves
    <3>2. base \in DOMAIN OpenedIndexes /\ OpenedIndexes[base] = ScannedIndex(indexes[base])
      BY <2>2 DEF OpenedIndexes
    <3>3. ScannedIndex(OpenedIndexes[base])[1] = ZeroEntry
      BY <2>2, <3>2 DEF ScannedIndex
    <3> QED BY <2>2, <2>4, <3>1, <3>2, <3>3 DEF LostAt, Unindexed
  <2> QED BY <1>0, <2>5, <2>6, <2>7, <2>8, <2>9, <2>10, FileSteps
<1> QED BY <1>1, <1>2

-----------------------------------------------------------------------------
(* What the readers have *)

\* The records are those of the history that come after the first `offset` ones.
Follows(offset, records, written) ==
    \A i \in 1 .. Len(records) : offset + i <= Len(written) /\ records[i] = written[offset + i]

\* A reader has the start of the history, and an answer on its way to it goes on
\* from there.
Delivered ==
    ~ clobbered => \A r \in Readers :
        /\ pos[r] = Len(got[r])
        /\ Follows(0, got[r], history)
        /\ reply[r] # Nil => Follows(pos[r], reply[r].records, history)

LEMMA FollowsOn ==
    ASSUME NEW written \in Seq(Record), NEW s \in Seq(Record), NEW t \in Seq(Record),
           Follows(0, s, written), Follows(Len(s), t, written)
    PROVE  Follows(0, s \o t, written)
<1>1. /\ Len(s \o t) = Len(s) + Len(t) /\ Len(s) \in Nat /\ Len(t) \in Nat
      /\ \A i \in 1 .. Len(s) + Len(t) : (s \o t)[i] = IF i <= Len(s) THEN s[i] ELSE t[i - Len(s)]
  BY ConcatProperties
<1> SUFFICES ASSUME NEW i \in 1 .. Len(s) + Len(t)
             PROVE  0 + i <= Len(written) /\ (s \o t)[i] = written[0 + i]
  BY <1>1 DEF Follows
<1>2. CASE i <= Len(s)
  <2>1. i \in 1 .. Len(s) /\ (s \o t)[i] = s[i]
    BY <1>1, <1>2
  <2> QED BY <2>1 DEF Follows
<1>3. CASE ~ (i <= Len(s))
  <2>1. /\ i - Len(s) \in 1 .. Len(t) /\ (s \o t)[i] = t[i - Len(s)]
        /\ Len(s) + (i - Len(s)) = 0 + i
    BY <1>1, <1>3
  <2>2. /\ Len(s) + (i - Len(s)) <= Len(written)
        /\ t[i - Len(s)] = written[Len(s) + (i - Len(s))]
    BY <2>1 DEF Follows
  <2> QED BY <2>1, <2>2
<1> QED BY <1>2, <1>3

LEMMA FollowsLonger ==
    ASSUME NEW written \in Seq(Record), NEW more \in Seq(Record), NEW offset \in Nat,
           NEW s \in Seq(Record), Follows(offset, s, written)
    PROVE  Follows(offset, s, written \o more)
<1>1. /\ Len(written \o more) = Len(written) + Len(more) /\ Len(written) \in Nat /\ Len(more) \in Nat
      /\ \A i \in 1 .. Len(written) + Len(more) :
            (written \o more)[i] = IF i <= Len(written) THEN written[i] ELSE more[i - Len(written)]
  BY ConcatProperties
<1> SUFFICES ASSUME NEW i \in 1 .. Len(s)
             PROVE  offset + i <= Len(written \o more) /\ s[i] = (written \o more)[offset + i]
  BY DEF Follows
<1>2. offset + i <= Len(written) /\ s[i] = written[offset + i]
  BY DEF Follows
<1>3. offset + i \in 1 .. Len(written) + Len(more)
  BY <1>1, <1>2
<1> QED BY <1>1, <1>2, <1>3

\* What a file holds is the history: no other file holds the same offset.
LEMMA HoldsHistory ==
    ASSUME PartitionInv, Disjoint(files), OnDisk(files, indexes, history),
           NEW b \in DOMAIN files, NEW offset, NEW record, Holds(files[b], offset, record)
    PROVE  offset \in Nat /\ offset < Len(history) /\ record = history[offset + 1]
<1> DEFINE data == files[b]
           T == Total(data)
<1>1. b \in Nat /\ DOMAIN files \subseteq Nat /\ data \in Seq(Batch)
  BY DEF PartitionInv, TypeOK
<1>2. PICK j \in 1 .. Len(data) : \E k \in 0 .. Count[data[j].id] - 1 :
               offset = data[j].base + k /\ record = <<data[j].id, k>>
  BY DEF Holds
<1>3. PICK k \in 0 .. Count[data[j].id] - 1 :
               offset = data[j].base + k /\ record = <<data[j].id, k>>
  BY <1>2
<1>4. /\ Len(data) \in Nat /\ j - 1 \in 0 .. Len(data) /\ j \in 0 .. Len(data)
      /\ Len(data) \in 0 .. Len(data)
  BY <1>1
<1>5. /\ T[j - 1] \in Nat /\ T[j] \in Nat /\ T[Len(data)] \in Nat
      /\ T[j] = T[j - 1] + Count[data[j].id]
  BY <1>1, <1>4, TotalType, TotalValues
<1>6. T[j] <= T[Len(data)]
  <2>1. CASE j = Len(data)
    BY <1>5, <2>1
  <2>2. CASE j < Len(data)
    <3>1. T[j] < T[Len(data)]
      BY <1>1, <1>4, <2>2, TotalRises
    <3> QED BY <1>5, <3>1
  <2> QED BY <1>4, <2>1, <2>2
<1>7. data[j].base = b + T[j - 1]
  BY DEF OnDisk, Contiguous
<1>8. RecordsCount(data) = T[Len(data)]
  BY <1>1, TotalDef
<1>9. Count[data[j].id] \in Nat
  BY <1>1, BatchAt
<1>10. b <= offset /\ offset < b + RecordsCount(data) /\ offset \in Nat
  <2> DEFINE c == Count[data[j].id]
             base == data[j].base
             s == T[j - 1]
             t == T[j]
             u == T[Len(data)]
  <2>1. /\ c \in Nat /\ s \in Nat /\ t = s + c /\ u \in Nat /\ t <= u /\ base = b + s
        /\ k \in 0 .. c - 1 /\ offset = base + k /\ RecordsCount(data) = u
    BY <1>3, <1>5, <1>6, <1>7, <1>8, <1>9
  <2> HIDE DEF c, base, s, t, u, data
  <2>2. b <= offset /\ offset < b + u /\ offset \in Nat
    BY <1>1, <2>1
  <2> QED BY <2>1, <2>2
<1>11. Covers(files, b, offset)
  <2>1. ASSUME NEW c \in DOMAIN files, b < c PROVE offset < c
    <3>1. b + RecordsCount(data) <= c
      BY <2>1 DEF Disjoint
    <3>2. c \in Nat /\ RecordsCount(data) \in Nat
      BY <1>1, <1>5, <1>8
    <3> QED BY <1>1, <1>10, <3>1, <3>2
  <2> QED BY <1>10, <2>1 DEF Covers
<1>12. Covers(files, b, data[j].base + k)
  BY <1>3, <1>11
<1>13. /\ data[j].base + k < Len(history)
       /\ history[data[j].base + k + 1] = <<data[j].id, k>>
  BY <1>12 DEF OnDisk, Recorded
<1> QED BY <1>3, <1>10, <1>13

\* A fetch returns what comes next, however little of it.
LEMMA FetchFollows ==
    ASSUME PartitionInv, Sound, Apart, ~ clobbered, NEW offset \in Nat, NEW fit \in Nat
    PROVE  Follows(offset, FetchRecords(offset, fit), history)
<1> DEFINE n == SegmentFor(snapshot.segments, offset)
           b == View(n).base
           records == FetchRecords(offset, fit)
<1>0. TypeOK /\ Laid
  BY DEF PartitionInv
<1>1. OnDisk(files, indexes, history) /\ Disjoint(files)
  BY DEF Sound, Apart
<1>2. n \in Views
  BY <1>0, SegmentForPicks
<1> HIDE DEF n
<1>3. /\ View(n) \in SegmentView
      /\ b \in DOMAIN files
      /\ View(n).indexCount <= Len(indexes[b])
  BY <1>0, <1>2, ViewFacts DEF Views, View, Laid, Fits
<1>4. files[b] \in Seq(Batch) /\ indexes[b] \in Seq(IndexEntry)
  BY <1>0, <1>3 DEF TypeOK
<1>5. records = SegmentFetch(files[b], indexes[b], View(n), offset, fit)
  BY DEF FetchRecords, View, n
<1>6. Contiguous(files[b], b)
  BY <1>1, <1>3 DEF OnDisk
<1>7. Runs(files[b], offset, records)
  BY <1>3, <1>4, <1>5, <1>6, FetchRuns
<1>8. records \in Seq(Record)
  BY <1>0, FetchRecordsType
<1> HIDE DEF b, records
<1>9. ASSUME NEW i \in 1 .. Len(records)
      PROVE  offset + i <= Len(history) /\ records[i] = history[offset + i]
  <2>1. Holds(files[b], offset + i - 1, records[i])
    BY <1>7 DEF Runs
  <2>2. /\ offset + i - 1 < Len(history)
        /\ records[i] = history[offset + i - 1 + 1]
    BY <1>1, <1>3, <2>1, HoldsHistory
  <2>3. Len(history) \in Nat /\ offset + i - 1 + 1 = offset + i
    BY <1>0 DEF TypeOK
  <2> QED BY <2>2, <2>3
<1> QED BY <1>9 DEF Follows, records

\* The steps that touch what readers have.
LEMMA ReaderMoves ==
    ASSUME TypeOK, [Next]_vars
    PROVE  \/ UNCHANGED <<reply, pos, got>>
           \/ \E r \in Readers, fit \in FetchSizes : Fetch(r, fit)
           \/ \E r \in Readers : Respond(r)
           \/ /\ UNCHANGED <<pos, got>>
              /\ \A r \in Readers : reply'[r] = reply[r] \/ reply'[r] = Nil
<1>1. CASE UNCHANGED vars
  BY <1>1 DEF vars, readerVars
<1>2. CASE \E r \in Readers : Disconnect(r)
  <2> PICK r \in Readers : Disconnect(r)
    BY <1>2
  <2>1. reply' = [reply EXCEPT ![r] = Nil] /\ UNCHANGED <<pos, got>>
    BY DEF Disconnect
  <2> QED BY <2>1 DEF TypeOK
<1>3. CASE HandleShutdown \/ Crash
  <2>1. reply' = [r \in Readers |-> Nil] /\ UNCHANGED <<pos, got>>
    BY <1>3 DEF HandleShutdown, Crash, Stop
  <2> QED BY <2>1
<1>4. CASE \E r \in Replicas : LateReport(r)
  BY <1>4 DEF LateReport
<1>5. CASE \/ \E id \in Batches, acks \in AcksKinds : Produce(id, acks)
           \/ Shutdown \/ WriteBatch \/ IndexBatch \/ PublishBatch
           \/ UpdateReplicaLeo \/ TruncateLog \/ Restart
  BY <1>5 DEF Produce, Shutdown, WriteBatch, IndexBatch, PublishBatch, UpdateReplicaLeo,
              TruncateLog, Restart, readerVars
<1> QED BY <1>1, <1>2, <1>3, <1>4, <1>5 DEF Next, Actor

LEMMA HistoryMoves ==
    ASSUME PartitionInv, Told, [Next]_vars
    PROVE  UNCHANGED <<history, clobbered>> \/ WriteBatch
<1>0. TypeOK
  BY DEF PartitionInv
<1>1. CASE UNCHANGED fileVars \/ Stop \/ PublishBatch
  BY <1>1 DEF fileVars, Stop, PublishBatch, historyVars
<1>2. CASE IndexBatch \/ Restart
  BY <1>2, IndexMoves, RestartMoves
<1> QED BY <1>0, <1>1, <1>2, FileSteps

LEMMA InitDelivered == Init => Delivered
<1> SUFFICES ASSUME Init, NEW r \in Readers
             PROVE  pos[r] = Len(got[r]) /\ Follows(0, got[r], history) /\ reply[r] = Nil
  BY DEF Delivered
<1>1. pos[r] = 0 /\ got[r] = <<>> /\ reply[r] = Nil /\ Len(<<>>) = 0
  BY DEF Init
<1> QED BY <1>1 DEF Follows

LEMMA DeliveredStep ==
    PartitionInv /\ Told /\ Sound /\ Apart /\ Delivered /\ [Next]_vars => Delivered'
<1> SUFFICES ASSUME PartitionInv, Told, Sound, Apart, Delivered, [Next]_vars, ~ clobbered',
                    NEW r \in Readers
             PROVE  /\ pos'[r] = Len(got'[r])
                    /\ Follows(0, got'[r], history')
                    /\ reply'[r] # Nil => Follows(pos'[r], reply'[r].records, history')
  BY DEF Delivered, Follows
<1>0. TypeOK /\ Laid
  BY DEF PartitionInv
<1>1. ~ clobbered
  BY HistoryMoves, WriteMoves
<1>2. /\ pos[r] = Len(got[r]) /\ Follows(0, got[r], history)
      /\ reply[r] # Nil => Follows(pos[r], reply[r].records, history)
  BY <1>1 DEF Delivered
<1>3. /\ history \in Seq(Record) /\ got[r] \in Seq(Record) /\ pos[r] \in Nat
      /\ reply \in [Readers -> Answer \union {Nil}] /\ got \in [Readers -> Seq(Record)]
      /\ pos \in [Readers -> Nat]
      /\ reply[r] # Nil => reply[r].records \in Seq(Record)
  <2>1. reply[r] # Nil => reply[r].records \in Seq(Record)
    BY <1>0 DEF TypeOK, Answer
  <2> QED BY <1>0, <2>1 DEF TypeOK
<1>4. /\ Follows(0, got[r], history')
      /\ reply[r] # Nil => Follows(pos[r], reply[r].records, history')
  <2>1. CASE history' = history
    BY <1>2, <2>1
  <2>2. CASE WriteBatch
    <3>1. PICK id \in Batches : history' = history \o RecordsFrom(id, 0)
      BY <2>2, WriteMoves
    <3>2. RecordsFrom(id, 0) \in Seq(Record)
      <4>1. 0 \in 0 .. Count[id]
        BY BatchAssumption
      <4> QED BY <4>1, RecordsFromType
    <3>3. Follows(0, got[r], history \o RecordsFrom(id, 0))
      BY <1>2, <1>3, <3>2, FollowsLonger
    <3>4. reply[r] # Nil => Follows(pos[r], reply[r].records, history \o RecordsFrom(id, 0))
      BY <1>2, <1>3, <3>2, FollowsLonger
    <3> QED BY <3>1, <3>3, <3>4
  <2> QED BY <2>1, <2>2, HistoryMoves
<1>5. CASE /\ UNCHANGED <<pos, got>>
           /\ \A q \in Readers : reply'[q] = reply[q] \/ reply'[q] = Nil
  BY <1>2, <1>4, <1>5
<1>6. CASE UNCHANGED <<reply, pos, got>>
  BY <1>2, <1>4, <1>6
<1>7. CASE \E q \in Readers, fit \in FetchSizes : Fetch(q, fit)
  <2> PICK q \in Readers, fit \in FetchSizes : Fetch(q, fit)
    BY <1>7
  <2>1. /\ UNCHANGED <<pos, got, history>>
        /\ reply' = [reply EXCEPT ![q] = [leo |-> snapshot.leo, records |-> FetchRecords(pos[q], fit)]]
    BY DEF Fetch, historyVars
  <2>2. CASE q = r
    <3>1. fit \in Nat
      BY SizeAssumption
    <3>2. reply'[r].records = FetchRecords(pos[r], fit)
      BY <1>3, <2>1, <2>2
    <3>3. Follows(pos[r], FetchRecords(pos[r], fit), history)
      BY <1>1, <1>3, <3>1, FetchFollows
    <3> QED BY <1>2, <2>1, <3>2, <3>3
  <2>3. CASE q # r
    <3>1. reply'[r] = reply[r]
      BY <1>3, <2>1, <2>3
    <3> QED BY <1>2, <2>1, <3>1
  <2> QED BY <2>2, <2>3
<1>8. CASE \E q \in Readers : Respond(q)
  <2> PICK q \in Readers : Respond(q)
    BY <1>8
  <2>1. /\ reply[q] # Nil /\ history' = history
        /\ pos' = [pos EXCEPT ![q] = pos[q] + Len(reply[q].records)]
        /\ got' = [got EXCEPT ![q] = got[q] \o reply[q].records]
        /\ reply' = [reply EXCEPT ![q] = Nil]
    BY DEF Respond, historyVars
  <2>2. CASE q = r
    <3> DEFINE records == reply[r].records
    <3>1. /\ records \in Seq(Record) /\ Follows(Len(got[r]), records, history)
          /\ Follows(0, got[r], history)
      BY <1>2, <1>3, <2>1, <2>2
    <3>2. /\ pos'[r] = Len(got[r]) + Len(records)
          /\ got'[r] = got[r] \o records
          /\ reply'[r] = Nil
      BY <1>2, <1>3, <2>1, <2>2
    <3> HIDE DEF records
    <3>3. Len(got[r] \o records) = Len(got[r]) + Len(records)
      BY <1>3, <3>1, ConcatProperties
    <3>4. Follows(0, got[r] \o records, history)
      BY <1>3, <3>1, FollowsOn
    <3> QED BY <2>1, <3>2, <3>3, <3>4
  <2>3. CASE q # r
    <3>1. reply'[r] = reply[r] /\ pos'[r] = pos[r] /\ got'[r] = got[r]
      BY <1>3, <2>1, <2>3
    <3> QED BY <1>2, <2>1, <3>1
  <2> QED BY <2>2, <2>3
<1> QED BY <1>0, <1>5, <1>6, <1>7, <1>8, ReaderMoves

-----------------------------------------------------------------------------
(* Delivery *)

\* What follows nothing is the start of the history.
LEMMA FollowsStart ==
    ASSUME NEW s \in Seq(Record), NEW t \in Seq(Record), Follows(0, s, t)
    PROVE  Len(s) <= Len(t) /\ SubSeq(t, 1, Len(s)) = s /\ SubSeq(s, 1, Len(s)) = s
<1>1. Len(s) \in Nat /\ Len(t) \in Nat
  OBVIOUS
<1>2. \A i \in 1 .. Len(s) : i <= Len(t) /\ s[i] = t[i]
  <2>1. \A i \in 1 .. Len(s) : 0 + i = i
    BY <1>1
  <2> QED BY <2>1 DEF Follows
<1>3. Len(s) <= Len(t)
  <2>1. CASE Len(s) = 0
    BY <1>1, <2>1
  <2>2. CASE Len(s) # 0
    <3>1. Len(s) \in 1 .. Len(s)
      BY <1>1, <2>2
    <3> QED BY <1>2, <3>1
  <2> QED BY <2>1, <2>2
<1>4. SubSeq(s, 1, Len(s)) = s
  BY SubSeqFull
<1>5. /\ SubSeq(t, 1, Len(s)) \in Seq(Record) /\ Len(SubSeq(t, 1, Len(s))) = Len(s)
      /\ \A i \in 1 .. Len(s) : SubSeq(t, 1, Len(s))[i] = t[i]
  <2>1. 1 \in Nat \ {0} /\ Len(s) \in 0 .. Len(t)
    BY <1>1, <1>3
  <2>2. /\ SubSeq(t, 1, Len(s)) \in Seq(Record)
        /\ Len(SubSeq(t, 1, Len(s))) = IF 1 <= Len(s) THEN Len(s) - 1 + 1 ELSE 0
        /\ \A i \in 1 .. Len(s) - 1 + 1 : SubSeq(t, 1, Len(s))[i] = t[1 + i - 1]
    BY <2>1, PartType
  <2>3. Len(s) - 1 + 1 = Len(s) /\ \A i \in 1 .. Len(s) : 1 + i - 1 = i
    BY <1>1
  <2> QED BY <1>1, <2>2, <2>3
<1>6. SubSeq(t, 1, Len(s)) = s
  BY <1>2, <1>5, SeqEqual
<1> QED BY <1>3, <1>4, <1>6

\* All of it together is inductive.
ReaderInv == PartitionInv /\ Told /\ Sound /\ Apart /\ FirstIndexed /\ Delivered

LEMMA ReaderInvariance == Spec => [](PartitionInv /\ ReaderInv)
<1>1. Init => ReaderInv
  BY InitHolds, InitTold, InitSound, InitApart, InitFirst, InitDelivered DEF ReaderInv
<1>2. PartitionInv /\ Stoppable /\ ReaderInv /\ PartitionInv' /\ [Next]_vars => ReaderInv'
  <2> SUFFICES ASSUME ReaderInv, PartitionInv', [Next]_vars PROVE ReaderInv'
    OBVIOUS
  <2>1. Sound'
    BY SoundStep DEF ReaderInv, TruncatingNext
  <2> QED BY <2>1, ToldStep, ApartStep, FirstStep, DeliveredStep DEF ReaderInv
<1> QED BY <1>1, <1>2, SpecTruncates, InvariantHolds, PTL DEF Spec

\* What an append adds comes after what is there.
LEMMA HistoryGrows ==
    ASSUME PartitionInv, WriteBatch
    PROVE  IsPrefix(history, history')
<1>1. PICK id \in Batches : history' = history \o RecordsFrom(id, 0)
  BY WriteMoves
<1>2. history \in Seq(Record)
  BY DEF PartitionInv, TypeOK
<1>3. RecordsFrom(id, 0) \in Seq(Record)
  <2>1. 0 \in 0 .. Count[id]
    BY BatchAssumption
  <2> QED BY <2>1, RecordsFromType
<1> DEFINE more == RecordsFrom(id, 0)
<1> HIDE DEF more
<1>4. Follows(0, history, history)
  BY <1>2 DEF Follows
<1>5. Follows(0, history, history \o more)
  BY <1>2, <1>3, <1>4, FollowsLonger DEF more
<1>6. history \o more \in Seq(Record)
  BY <1>2, <1>3, ConcatProperties DEF more
<1>7. /\ Len(history) <= Len(history \o more)
      /\ SubSeq(history \o more, 1, Len(history)) = history
      /\ SubSeq(history, 1, Len(history)) = history
  BY <1>2, <1>5, <1>6, FollowsStart
<1> QED BY <1>1, <1>7 DEF IsPrefix, more

\* The partition implements Delivery: whatever rotations, broken connections, crashes
\* and restarts happen between its fetches, a reader that moves its position by what it
\* received has every record written up to there, in order, without a gap and without a
\* repetition, until the log is damaged; and once damaged it stays so.
THEOREM ImplementsDelivery == Spec => AbstractLog!Safety
<1> DEFINE log == [r \in Readers |-> history]
           lost == IF Damaged THEN Readers ELSE {}
<1>1. ASSUME Init PROVE AbstractLog!Init
  <2>1. ~ Damaged
    BY <1>1 DEF Init, Damaged, IndexLost
  <2>2. log = [r \in Readers |-> <<>>] /\ got = [r \in Readers |-> <<>>] /\ lost = {}
    BY <1>1, <2>1 DEF Init
  <2> QED BY <2>2 DEF AbstractLog!Init
<1>2. ASSUME ReaderInv, PartitionInv', ReaderInv', [Next]_vars
      PROVE  [AbstractLog!Next]_(AbstractLog!vars)
  <2>0. TypeOK /\ TypeOK' /\ PartitionInv /\ Told /\ Sound /\ FirstIndexed
    BY <1>2 DEF ReaderInv, PartitionInv
  <2>1. ASSUME UNCHANGED <<history, got>>, lost' = lost
        PROVE  UNCHANGED AbstractLog!vars
    BY <2>1 DEF AbstractLog!vars
  <2>2. CASE Damaged'
    <3>1. lost' = Readers /\ lost \subseteq Readers
      BY <2>2
    <3>2. CASE Readers # {}
      <4>1. AbstractLog!Lose
        BY <3>1, <3>2 DEF AbstractLog!Lose
      <4> QED BY <4>1 DEF AbstractLog!Next
    <3>3. CASE Readers = {}
      <4>1. got' = got
        BY <2>0, <3>3 DEF TypeOK
      <4>2. log' = log /\ lost' = lost
        BY <3>1, <3>3
      <4> QED BY <4>1, <4>2 DEF AbstractLog!vars
    <3> QED BY <3>2, <3>3
  <2>3. CASE ~ Damaged'
    <3>1. ~ Damaged
      BY <1>2, <2>0, <2>3, DamageStays
    <3>2. lost = {} /\ lost' = {}
      BY <2>3, <3>1
    <3>3. ~ clobbered /\ ~ clobbered'
      BY <2>3, <3>1 DEF Damaged
    <3>4. CASE WriteBatch
      <4>1. IsPrefix(history, history') /\ got' = got
        BY <2>0, <3>4, HistoryGrows, WriteMoves
      <4>2. \A r \in Readers : AbstractLog!IsPrefix(log[r], log'[r])
        BY <4>1 DEF AbstractLog!IsPrefix, IsPrefix
      <4>3. AbstractLog!Publish
        BY <3>2, <4>1, <4>2 DEF AbstractLog!Publish
      <4> QED BY <4>3 DEF AbstractLog!Next
    <3>5. CASE history' = history /\ got' = got
      BY <2>1, <3>2, <3>5
    <3>6. CASE history' = history /\ \E r \in Readers : Respond(r)
      <4> PICK r \in Readers : Respond(r)
        BY <3>6
      <4> DEFINE records == reply[r].records
                 n == Len(got'[r])
      <4>1. reply[r] # Nil /\ got' = [got EXCEPT ![r] = got[r] \o records]
        BY DEF Respond
      <4>2. /\ got \in [Readers -> Seq(Record)] /\ got' \in [Readers -> Seq(Record)]
            /\ got[r] \in Seq(Record) /\ got'[r] \in Seq(Record) /\ history \in Seq(Record)
            /\ records \in Seq(Record)
        <5>1. reply[r] \in Answer
          BY <2>0, <4>1 DEF TypeOK
        <5> QED BY <2>0, <5>1 DEF TypeOK, Answer
      <4>3. got'[r] = got[r] \o records
        BY <4>1, <4>2
      <4> HIDE DEF records
      <4>4. Len(got'[r]) = Len(got[r]) + Len(records)
        BY <4>2, <4>3, ConcatProperties
      <4>5. CASE records = <<>>
        <5>1. got[r] \o records = got[r]
          BY <4>2, <4>5, ConcatEmptySeq
        <5>2. got' = got
          BY <4>1, <4>2, <5>1
        <5> QED BY <2>1, <3>2, <3>6, <5>2
      <4>6. CASE records # <<>>
        <5>1. Follows(0, got'[r], history)
          BY <1>2, <3>3, <3>6 DEF ReaderInv, Delivered
        <5>2. n <= Len(history) /\ SubSeq(history, 1, n) = got'[r]
          BY <4>2, <5>1, FollowsStart
        <5>3. n \in Len(got[r]) + 1 .. Len(history)
          <6>1. Len(records) \in Nat /\ Len(records) # 0 /\ Len(got[r]) \in Nat /\ Len(history) \in Nat
            BY <4>2, <4>6
          <6> QED BY <4>4, <5>2, <6>1
        <5>4. got' = [got EXCEPT ![r] = SubSeq(log[r], 1, n)]
          BY <4>1, <4>2, <4>3, <5>2
        <5>5. AbstractLog!Receive(r)
          BY <3>2, <3>6, <5>3, <5>4 DEF AbstractLog!Receive
        <5> QED BY <5>5 DEF AbstractLog!Next
      <4> QED BY <4>5, <4>6
    <3>7. WriteBatch \/ history' = history
      BY <1>2, <2>0, HistoryMoves
    <3>8. got' = got \/ \E r \in Readers : Respond(r)
      BY <1>2, <2>0, ReaderMoves DEF Fetch
    <3> QED BY <3>4, <3>5, <3>6, <3>7, <3>8
  <2> QED BY <2>2, <2>3
<1> QED BY <1>1, <1>2, ReaderInvariance, PTL DEF Spec, AbstractLog!Safety

=============================================================================
