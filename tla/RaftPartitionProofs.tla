------------------------ MODULE RaftPartitionProofs ------------------------
(***************************************************************************)
(* Theorems about a partition as the log of a voter, for any entries and   *)
(* epochs, any sizes of segments and indexes, and any truncations: it is a *)
(* partition like any other (ImplementsPartition), and its reads answer as *)
(* the reference implementation of the log does (AnswersLikeVecLog).       *)
(***************************************************************************)
EXTENDS RaftPartitionProperties, PartitionProofs

-----------------------------------------------------------------------------
(* The log of a voter is a partition *)

\* What a voter does to its partition is what an owner that truncates may do: its
\* appends are those of a producer that asks for the leader's acknowledgement.
THEOREM ImplementsPartition == RaftSpec => TruncatingSpec
<1>1. [RaftNext]_vars => [TruncatingNext]_vars
  <2>1. ASSUME NEW id \in Batches, AppendEntry(id) PROVE Next
    BY <2>1 DEF AppendEntry, Next, AcksKinds
  <2>2. ASSUME NEW offset \in TruncateAt, TruncateTo(offset)
        PROVE  \E o \in Nat : Truncate(o)
    BY <2>2, EntryAssumption DEF TruncateTo
  <2> QED BY <2>1, <2>2 DEF RaftNext, TruncatingNext, Next
<1> QED BY <1>1, PTL DEF RaftSpec, TruncatingSpec

\* So every offset below the end of the voter's log finds its own entry.
THEOREM VoterFindsRecord == RaftSpec => []FetchFindsRecord
BY ImplementsPartition, FetchFindsRecordHolds, PTL

\* A voter that restarts has every entry that reached its disk.
THEOREM VoterForgetsNothing == RaftSpec => []NothingForgotten
BY ImplementsPartition, NothingForgottenHolds, PTL

\* Without replicas, its watermark is the end of its log.
THEOREM VoterWatermarkInLog ==
    ASSUME Replicas = {} PROVE RaftSpec => []WatermarkInLog
BY ImplementsPartition, WatermarkIsEnd, PTL

-----------------------------------------------------------------------------
(* Selecting *)

\* The equation the recursive function of Kept satisfies.
KeptStep(f, s, I) ==
    [i \in 0 .. Len(s) |->
        IF i = 0 THEN <<>>
        ELSE IF i \in I THEN Append(f[i - 1], s[i]) ELSE f[i - 1]]

LEMMA KeptDef ==
    ASSUME NEW S, NEW s \in Seq(S), NEW I
    PROVE  VecLog!Kept(s, I) = KeptStep(VecLog!Kept(s, I), s, I)
<1> DEFINE V == Seq(S)
           n == Len(s)
           step == [at \in V \X (1 .. n) |->
                       IF at[2] \in I THEN Append(at[1], s[at[2]]) ELSE at[1]]
<1>1. n \in Nat /\ <<>> \in V
  OBVIOUS
<1>2. step \in [V \X (1 .. n) -> V]
  <2>1. ASSUME NEW v \in V, NEW i \in 1 .. n PROVE Append(v, s[i]) \in V
    <3>1. s[i] \in S
      OBVIOUS
    <3> QED BY <3>1
  <2>2. \A at \in V \X (1 .. n) : at[1] \in V /\ at[2] \in 1 .. n
    OBVIOUS
  <2> HIDE DEF V, n
  <2> QED BY <2>1, <2>2
<1>3. \A v \in V, i \in 1 .. n :
         step[<<v, i>>] = IF i \in I THEN Append(v, s[i]) ELSE v
  <2> HIDE DEF V, n
  <2> QED OBVIOUS
<1> HIDE DEF step, V
<1>4. PICK f \in Iterates(V, <<>>, n, step) : TRUE
  <2>1. Iterates(V, <<>>, n, step) # {}
    BY <1>1, <1>2, IteratesExist
  <2> QED BY <2>1
<1>5. /\ f \in [0 .. n -> V] /\ f[0] = <<>>
      /\ \A i \in 1 .. n : f[i] = step[<<f[i - 1], i>>]
  BY <1>4 DEF Iterates
<1>6. \A i \in 1 .. n : f[i] = IF i \in I THEN Append(f[i - 1], s[i]) ELSE f[i - 1]
  <2> TAKE i \in 1 .. n
  <2>1. i - 1 \in 0 .. n
    BY <1>1
  <2>2. f[i - 1] \in V
    BY <1>5, <2>1
  <2> HIDE DEF n
  <2> QED BY <1>3, <1>5, <2>2
<1>7. f = KeptStep(f, s, I)
  <2>1. \A i \in 0 .. n : i # 0 => i \in 1 .. n
    BY <1>1
  <2>2. \A i \in 0 .. n : f[i] = IF i = 0 THEN <<>>
                                 ELSE IF i \in I THEN Append(f[i - 1], s[i]) ELSE f[i - 1]
    BY <1>5, <1>6, <2>1
  <2> QED BY <1>5, <2>2 DEF KeptStep
<1>8. \E g : g = KeptStep(g, s, I)
  BY <1>7
<1> QED BY <1>8 DEF VecLog!Kept, KeptStep

\* Selecting the entries after the a-th, up to the b-th, gives those.
LEMMA KeptInterval ==
    ASSUME NEW S, NEW s \in Seq(S), NEW a \in 0 .. Len(s), NEW b \in a .. Len(s), NEW I,
           \A i \in 1 .. Len(s) : i \in I <=> a < i /\ i <= b
    PROVE  LET k == VecLog!Kept(s, I)[Len(s)]
           IN  /\ k \in Seq(S) /\ Len(k) = b - a
               /\ \A j \in 1 .. b - a : k[j] = s[a + j]
<1> DEFINE k == VecLog!Kept(s, I)
           length(i) == IF i <= a THEN 0 ELSE IF i <= b THEN i - a ELSE b - a
           Good(i) == /\ k[i] \in Seq(S) /\ Len(k[i]) = length(i)
                      /\ \A j \in 1 .. length(i) : k[i][j] = s[a + j]
           Bad == {i \in 0 .. Len(s) : ~ Good(i)}
<1>1. /\ k[0] = <<>>
      /\ \A i \in 1 .. Len(s) :
            k[i] = IF i \in I THEN Append(k[i - 1], s[i]) ELSE k[i - 1]
  <2>1. k = KeptStep(k, s, I)
    BY KeptDef
  <2> HIDE DEF k
  <2>2. \A i \in 0 .. Len(s) :
           k[i] = IF i = 0 THEN <<>>
                  ELSE IF i \in I THEN Append(k[i - 1], s[i]) ELSE k[i - 1]
    BY <2>1 DEF KeptStep
  <2>3. 0 \in 0 .. Len(s) /\ \A i \in 1 .. Len(s) : i \in 0 .. Len(s) /\ i # 0
    OBVIOUS
  <2> QED BY <2>2, <2>3
<1> HIDE DEF k
<1>2. Len(s) \in Nat /\ a \in Nat /\ b \in Nat /\ a <= b /\ b <= Len(s)
  OBVIOUS
<1>3. Bad = {}
  <2>1. SUFFICES ASSUME Bad # {} PROVE FALSE
    OBVIOUS
  <2>2. PICK i \in Bad : \A j \in Bad : i <= j
    <3>1. Bad \subseteq Nat
      BY <1>2
    <3> HIDE DEF Bad
    <3> QED BY <2>1, <3>1, LeastNat
  <2>3. i \in 0 .. Len(s) /\ ~ Good(i)
    BY <2>2
  <2>4. i # 0
    <3>1. length(0) = 0 /\ <<>> \in Seq(S) /\ Len(<<>>) = 0 /\ 1 .. 0 = {}
      BY <1>2
    <3>2. Good(0)
      <4> HIDE DEF length
      <4> QED BY <1>1, <3>1
    <3> HIDE DEF Good
    <3> QED BY <2>3, <3>2
  <2>5. i \in 1 .. Len(s) /\ i - 1 \in 0 .. Len(s) /\ ~ (i <= i - 1)
    BY <1>2, <2>3, <2>4
  <2>6. Good(i - 1)
    <3> HIDE DEF Good
    <3> QED BY <2>2, <2>5
  <2>7. k[i] = IF i \in I THEN Append(k[i - 1], s[i]) ELSE k[i - 1]
    BY <1>1, <2>5
  <2>8. CASE a < i /\ i <= b
    <3>1. /\ length(i - 1) = i - 1 - a /\ length(i) = i - a
          /\ i - 1 - a \in Nat /\ i - 1 - a + 1 = i - a /\ a + (i - a) = i
      BY <1>2, <2>5, <2>8
    <3> DEFINE before == k[i - 1]
               m == i - 1 - a
    <3>2. before \in Seq(S) /\ Len(before) = m /\ s[i] \in S
      BY <2>5, <2>6, <3>1
    <3>3. k[i] = Append(before, s[i])
      BY <2>5, <2>7, <2>8
    <3>4. \A j \in 1 .. m : before[j] = s[a + j]
      BY <2>6, <3>1
    <3> HIDE DEF before, m
    <3>5. /\ Append(before, s[i]) \in Seq(S)
          /\ Len(Append(before, s[i])) = m + 1
          /\ \A j \in 1 .. m : Append(before, s[i])[j] = before[j]
          /\ Append(before, s[i])[m + 1] = s[i]
      BY <3>2
    <3>6. m + 1 = i - a /\ m \in Nat /\ i - a \in Nat
      BY <3>1 DEF m
    <3>7. \A j \in 1 .. i - a : Append(before, s[i])[j] = s[a + j]
      <4> TAKE j \in 1 .. i - a
      <4>1. CASE j = m + 1
        BY <3>1, <3>5, <3>6, <4>1
      <4>2. CASE j # m + 1
        <5>1. j \in 1 .. m
          BY <3>6, <4>2
        <5> QED BY <3>4, <3>5, <5>1
      <4> QED BY <4>1, <4>2
    <3>8. Good(i)
      <4> HIDE DEF length
      <4> QED BY <3>1, <3>3, <3>5, <3>6, <3>7
    <3> HIDE DEF Good
    <3> QED BY <2>3, <3>8
  <2>9. CASE ~ (a < i /\ i <= b)
    <3>1. length(i) = length(i - 1)
      BY <1>2, <2>5, <2>9
    <3>2. k[i] = k[i - 1]
      BY <2>5, <2>7, <2>9
    <3> HIDE DEF length
    <3> QED BY <2>3, <2>6, <3>1, <3>2
  <2> QED BY <2>8, <2>9
<1>4. Good(Len(s))
  <2>1. Len(s) \in 0 .. Len(s)
    BY <1>2
  <2> HIDE DEF Good
  <2> QED BY <1>3, <2>1
<1>5. length(Len(s)) = b - a
  BY <1>2
<1> HIDE DEF length
<1> QED BY <1>4, <1>5 DEF k

-----------------------------------------------------------------------------
(* Batches of one record *)

\* They count their records.
LEMMA TotalIsIndex ==
    ASSUME NEW data \in Seq(Batch), NEW n \in 0 .. Len(data)
    PROVE  Total(data)[n] = n
<1> DEFINE f == Total(data)
           Bad == {i \in 0 .. Len(data) : f[i] # i}
<1>1. SUFFICES ASSUME Bad # {} PROVE FALSE
  OBVIOUS
<1>2. PICK i \in Bad : \A j \in Bad : i <= j
  <2>1. Bad \subseteq Nat
    OBVIOUS
  <2> HIDE DEF Bad
  <2> QED BY <1>1, <2>1, LeastNat
<1>3. i # 0
  BY <1>2, TotalValues
<1>4. i - 1 \in 0 .. Len(data) /\ i \in 1 .. Len(data) /\ f[i - 1] = i - 1
  BY <1>2, <1>3
<1>5. f[i] = f[i - 1] + Count[data[i].id]
  BY <1>4, TotalValues
<1>6. Count[data[i].id] = 1
  BY <1>4, BatchAt, EntryAssumption
<1> QED BY <1>2, <1>4, <1>5, <1>6

\* A sequence of batches holds the entries from an offset on, up to another.
Lists(s, from, to) ==
    /\ s \in Seq(Batch) /\ Len(s) = to - from
    /\ \A i \in 1 .. to - from : s[i].base = from + i - 1 /\ s[i].id = history[from + i][1]

LEMMA ConcatLists ==
    ASSUME NEW x \in Nat, NEW y \in Nat, NEW z \in Nat,
           NEW s, Lists(s, x, y), NEW t, Lists(t, y, z)
    PROVE  Lists(s \o t, x, z)
<1>1. /\ s \in Seq(Batch) /\ Len(s) = y - x /\ y - x \in Nat
      /\ t \in Seq(Batch) /\ Len(t) = z - y /\ z - y \in Nat
  <2>1. s \in Seq(Batch) /\ Len(s) = y - x /\ t \in Seq(Batch) /\ Len(t) = z - y
    BY DEF Lists
  <2>2. Len(s) \in Nat /\ Len(t) \in Nat
    BY <2>1
  <2> QED BY <2>1, <2>2
<1>2. /\ s \o t \in Seq(Batch) /\ Len(s \o t) = z - x
      /\ \A i \in 1 .. z - x : (s \o t)[i] = IF i <= y - x THEN s[i] ELSE t[i - (y - x)]
  <2>1. /\ s \o t \in Seq(Batch)
        /\ Len(s \o t) = Len(s) + Len(t)
        /\ \A i \in 1 .. Len(s) + Len(t) :
              (s \o t)[i] = IF i <= Len(s) THEN s[i] ELSE t[i - Len(s)]
    BY <1>1, ConcatProperties
  <2>2. Len(s) + Len(t) = z - x
    BY <1>1
  <2> QED BY <1>1, <2>1, <2>2
<1>3. ASSUME NEW i \in 1 .. z - x
      PROVE  /\ (s \o t)[i].base = x + i - 1
             /\ (s \o t)[i].id = history[x + i][1]
  <2>1. CASE i <= y - x
    <3>1. i \in 1 .. y - x /\ (s \o t)[i] = s[i]
      BY <1>1, <1>2, <1>3, <2>1
    <3> QED BY <3>1 DEF Lists
  <2>2. CASE ~ (i <= y - x)
    <3> DEFINE j == i - (y - x)
    <3>1. j \in 1 .. z - y /\ (s \o t)[i] = t[j] /\ y + j = x + i
      BY <1>1, <1>2, <1>3, <2>2
    <3> HIDE DEF j
    <3>2. t[j].base = y + j - 1 /\ t[j].id = history[y + j][1]
      BY <3>1 DEF Lists
    <3>3. (s \o t)[i] = t[j] /\ y + j - 1 = x + i - 1 /\ y + j = x + i
      BY <3>1
    <3> QED BY <3>2, <3>3, Zenon
  <2> QED BY <2>1, <2>2
<1> QED BY <1>2, <1>3 DEF Lists

\* Pieces that go on from one another make one.
LEMMA FlattenLists ==
    ASSUME NEW seqs \in Seq(Seq(Batch)), seqs # <<>>,
           NEW b \in [1 .. Len(seqs) + 1 -> Nat],
           \A i \in 1 .. Len(seqs) : Lists(seqs[i], b[i], b[i + 1])
    PROVE  Lists(FlattenSeq(seqs), b[1], b[Len(seqs) + 1])
<1> DEFINE f == Flattened(seqs)
           n == Len(seqs)
           Bad == {i \in 1 .. n : ~ Lists(f[i], b[1], b[i + 1])}
<1>0. n \in Nat /\ n # 0 /\ 1 \in 1 .. n /\ n \in 1 .. n
  OBVIOUS
<1>1. \A i \in 1 .. n : f[i] = IF i = 1 THEN seqs[i] ELSE f[i - 1] \o seqs[i]
  BY FlattenValues
<1>2. FlattenSeq(seqs) = f[n]
  <2>1. Len(seqs) # 0 => FlattenSeq(seqs) = f[Len(seqs)]
    BY FlattenDef
  <2> QED BY <1>0, <2>1
<1> HIDE DEF f
<1>3. Bad = {}
  <2>1. SUFFICES ASSUME Bad # {} PROVE FALSE
    OBVIOUS
  <2>2. PICK i \in Bad : \A j \in Bad : i <= j
    <3>1. Bad \subseteq Nat
      OBVIOUS
    <3> HIDE DEF Bad
    <3> QED BY <2>1, <3>1, LeastNat
  <2>3. i \in 1 .. n /\ ~ Lists(f[i], b[1], b[i + 1])
    BY <2>2
  <2>4. i # 1
    BY <1>0, <1>1, <2>3
  <2>5. i - 1 \in 1 .. n /\ ~ (i <= i - 1) /\ i - 1 + 1 = i
    BY <1>0, <2>3, <2>4
  <2>6. Lists(f[i - 1], b[1], b[i])
    <3>1. i - 1 \notin Bad
      <4> HIDE DEF Bad
      <4> QED BY <2>2, <2>5
    <3> QED BY <2>5, <3>1
  <2>7. b[1] \in Nat /\ b[i] \in Nat /\ b[i + 1] \in Nat
    <3>1. 1 \in 1 .. n + 1 /\ i \in 1 .. n + 1 /\ i + 1 \in 1 .. n + 1
      BY <1>0, <2>3
    <3> QED BY <3>1
  <2>8. Lists(f[i - 1] \o seqs[i], b[1], b[i + 1])
    <3>1. Lists(seqs[i], b[i], b[i + 1])
      BY <2>3
    <3> QED BY <2>6, <2>7, <3>1, ConcatLists
  <2>9. f[i] = f[i - 1] \o seqs[i]
    BY <1>1, <2>3, <2>4
  <2> QED BY <2>3, <2>8, <2>9
<1> QED BY <1>0, <1>2, <1>3

-----------------------------------------------------------------------------
(* The segments of an undamaged log *)

Intact == PartitionInv /\ Sound /\ up /\ ~ Damaged

LEMMA IntactFacts ==
    ASSUME Intact
    PROVE  /\ TypeOK /\ Laid /\ Ends /\ PartitionInv
           /\ OnDisk(files, indexes, history) /\ Underway /\ Shown
           /\ up /\ ~ clobbered /\ ~ IndexLost
           /\ snapshot.leo \in Nat /\ snapshot.segments \in Seq(SegmentView)
           /\ Len(snapshot.segments) \in Nat \ {0}
           /\ history \in Seq(Record) /\ snapshot.leo <= Len(history)
<1>1. TypeOK /\ Laid /\ Ends /\ up /\ ~ clobbered /\ ~ IndexLost
  BY DEF Intact, PartitionInv, Damaged
<1>2. OnDisk(files, indexes, history) /\ Underway /\ Shown
  BY <1>1 DEF Intact, Sound
<1>3. /\ snapshot.leo \in Nat /\ snapshot.segments \in Seq(SegmentView)
      /\ Len(snapshot.segments) \in Nat \ {0}
  BY <1>1, ViewFacts
<1>4. snapshot.leo <= Len(history)
  <2>1. Unpublished \in Nat
    <3>1. writing # Nil => Count[writing.id] \in Nat
      BY <1>1, BatchAssumption DEF TypeOK, Writing
    <3> QED BY <3>1 DEF Unpublished
  <2>2. snapshot.leo + Unpublished <= Len(history) /\ Len(history) \in Nat
    BY <1>1 DEF Ends, TypeOK
  <2> QED BY <1>3, <2>1, <2>2
<1> QED BY <1>1, <1>2, <1>3, <1>4 DEF Intact, TypeOK

\* The segments start one after the other.
LEMMA BasesRise ==
    ASSUME Intact
    PROVE  /\ \A i \in Views : i \in Nat /\ View(i).base \in Nat
           /\ \A i, j \in Views : i < j => View(i).base < View(j).base
           /\ Len(snapshot.segments) \in Views /\ 1 \in Views /\ View(1).base = 0
           /\ View(Len(snapshot.segments)).base = ActiveBase
<1>1. TypeOK /\ Laid /\ Len(snapshot.segments) \in Nat \ {0}
  BY IntactFacts
<1>2. \A i \in Views : i \in Nat /\ View(i).base \in Nat
  BY <1>1, ViewFacts DEF Views
<1>3. \A i, j \in Views : i < j => View(i).base < View(j).base
  BY <1>1 DEF Laid, Fits, Views, View
<1>4. Len(snapshot.segments) \in Views /\ 1 \in Views
  BY <1>1 DEF Views
<1>5. View(1).base = 0 /\ View(Len(snapshot.segments)).base = ActiveBase
  BY <1>1 DEF Laid, Fits, View
<1> QED BY <1>2, <1>3, <1>4, <1>5

\* What a view shows of its file.
LEMMA SegmentFacts ==
    ASSUME Intact, NEW n \in Views
    PROVE  LET v == View(n)
               data == files[v.base]
               index == indexes[v.base]
           IN  /\ v \in SegmentView /\ v.base \in Nat /\ v.base \in DOMAIN files
               /\ data \in Seq(Batch) /\ v.size \in 0 .. Len(data) /\ v.size \in Nat
               /\ index \in Seq(IndexEntry) /\ v.indexCount <= Len(index)
               /\ Contiguous(data, v.base)
               /\ v.size # 0 => AllPoint(index, data, v.base)
<1> DEFINE v == View(n)
           b == v.base
           data == files[b]
           index == indexes[b]
<1>0. TypeOK /\ Laid /\ OnDisk(files, indexes, history) /\ Underway /\ Shown /\ ~ IndexLost
  BY IntactFacts
<1>1. v \in SegmentView /\ b \in DOMAIN files /\ v.indexCount <= Len(index)
  BY <1>0, ViewFacts DEF Laid, Fits, Views, View
<1>2. b \in Nat /\ v.size \in Nat
  <2> HIDE DEF v
  <2> QED BY <1>1 DEF SegmentView
<1>3. data \in Seq(Batch) /\ index \in Seq(IndexEntry)
  BY <1>0, <1>1 DEF TypeOK
<1>4. v.size <= Len(data)
  <2>1. CASE b # ActiveBase
    <3>1. v.size = Len(data)
      BY <1>0, <2>1 DEF Shown
    <3> HIDE DEF v, data
    <3> QED BY <1>2, <3>1
  <2>2. CASE b = ActiveBase
    <3>1. n = Len(snapshot.segments)
      <4>1. ~ (n < Len(snapshot.segments))
        BY <2>2, BasesRise
      <4>2. n \in Nat /\ Len(snapshot.segments) \in Nat /\ n <= Len(snapshot.segments)
        BY BasesRise, IntactFacts DEF Views
      <4> QED BY <4>1, <4>2
    <3>2. v.size + (IF writing = Nil THEN 0 ELSE 1) = Len(data)
      BY <1>0, <2>2, <3>1 DEF Shown, Active
    <3> HIDE DEF v, data
    <3> QED BY <1>2, <3>2
  <2> QED BY <2>1, <2>2
<1>5. Contiguous(data, b)
  BY <1>0, <1>1 DEF OnDisk
<1>6. ASSUME v.size # 0 PROVE AllPoint(index, data, b)
  <2>1. data # <<>>
    <3> HIDE DEF v, data
    <3>1. Len(data) # 0
      BY <1>2, <1>4, <1>6
    <3> QED BY <3>1
  <2> QED BY <1>0, <1>1, <2>1, EntriesPoint
<1>7. v.size \in 0 .. Len(data)
  <2> HIDE DEF v, data
  <2> QED BY <1>2, <1>3, <1>4
<1> QED BY <1>1, <1>2, <1>3, <1>5, <1>6, <1>7

\* The batches of a file that are read from a position on.
LEMMA PartBatches ==
    ASSUME NEW data \in Seq(Batch), NEW length \in 0 .. Len(data), NEW p \in 0 .. length
    PROVE  LET part == BatchesFrom(data, length, p)
           IN  /\ part \in Seq(Batch) /\ Len(part) = length - p
               /\ \A i \in 1 .. length - p : part[i] = data[p + i]
<1> DEFINE part == BatchesFrom(data, length, p)
<1>1. Len(data) \in Nat /\ length \in Nat /\ p \in Nat /\ p <= length /\ length <= Len(data)
  OBVIOUS
<1>2. part = SubSeq(data, p + 1, length)
  <2>1. Min({length, Len(data)}) = IF length <= Len(data) THEN length ELSE Len(data)
    BY <1>1, MinPair
  <2> QED BY <1>1, <2>1 DEF BatchesFrom
<1> HIDE DEF part
<1>3. p + 1 \in Nat \ {0} /\ length - (p + 1) + 1 = length - p
  BY <1>1
<1>4. /\ part \in Seq(Batch)
      /\ Len(part) = IF p + 1 <= length THEN length - (p + 1) + 1 ELSE 0
      /\ \A i \in 1 .. length - (p + 1) + 1 : part[i] = data[p + 1 + i - 1]
  BY <1>2, <1>3, PartType
<1>5. Len(part) = length - p
  BY <1>1, <1>4
<1>6. ASSUME NEW i \in 1 .. length - p PROVE part[i] = data[p + i]
  <2>1. p + 1 + i - 1 = p + i
    BY <1>1
  <2> QED BY <1>3, <1>4, <2>1
<1> QED BY <1>4, <1>5, <1>6 DEF part

\* Where the next segment starts, or the log ends.
Limit(n) == IF n = Len(snapshot.segments) THEN snapshot.leo ELSE View(n + 1).base

\* A file that starts later does so at the next segment or after it.
LEMMA LaterFiles ==
    ASSUME Intact, NEW n \in Views, NEW c \in DOMAIN files, View(n).base < c
    PROVE  n # Len(snapshot.segments) /\ n + 1 \in Views /\ View(n + 1).base <= c
<1>1. PICK j \in Views : View(j).base = c
  BY IntactFacts DEF Shown
<1>2. /\ \A i \in Views : i \in Nat /\ View(i).base \in Nat
      /\ \A i, k \in Views : i < k => View(i).base < View(k).base
  BY BasesRise
<1>3. j > n
  <2>1. ~ (j < n) /\ j # n
    BY <1>1, <1>2
  <2> QED BY <1>2, <2>1
<1>4. n # Len(snapshot.segments) /\ n + 1 \in Views
  BY <1>2, <1>3, IntactFacts DEF Views
<1>5. View(n + 1).base <= c
  <2>1. CASE j = n + 1
    BY <1>1, <1>2, <2>1
  <2>2. CASE j # n + 1
    <3>1. n + 1 < j
      BY <1>2, <1>3, <2>2
    <3>2. View(n + 1).base < c /\ View(n + 1).base \in Nat /\ c \in Nat
      BY <1>1, <1>2, <1>4, <3>1
    <3> QED BY <3>2
  <2> QED BY <2>1, <2>2
<1> QED BY <1>4, <1>5

\* An entry that a segment shows is the one written at its offset, unless the next
\* segment starts at or below it.
LEMMA EntryHeld ==
    ASSUME Intact, NEW n \in Views, NEW i \in 1 .. View(n).size,
           n = Len(snapshot.segments) \/ View(n).base + i - 1 < View(n + 1).base
    PROVE  LET batch == files[View(n).base][i]
           IN  /\ batch.base = View(n).base + i - 1
               /\ history[View(n).base + i][1] = batch.id
<1> DEFINE b == View(n).base
           data == files[b]
<1>1. /\ b \in Nat /\ b \in DOMAIN files /\ data \in Seq(Batch) /\ Contiguous(data, b)
      /\ View(n).size \in 0 .. Len(data) /\ View(n).size \in Nat
  BY SegmentFacts
<1>2. i \in 1 .. Len(data) /\ i - 1 \in 0 .. Len(data) /\ i \in Nat
  <2>1. Len(data) \in Nat
    BY <1>1
  <2> HIDE DEF data
  <2> QED BY <1>1, <2>1
<1>3. data[i].base = b + i - 1
  <2>1. data[i].base = b + Total(data)[i - 1]
    BY <1>1, <1>2 DEF Contiguous
  <2>2. Total(data)[i - 1] = i - 1
    BY <1>1, <1>2, TotalIsIndex
  <2> HIDE DEF data, b
  <2> QED BY <1>1, <1>2, <2>1, <2>2
<1>4. Covers(files, b, b + i - 1)
  <2>1. b <= b + i - 1
    <3> HIDE DEF b
    <3> QED BY <1>1, <1>2
  <2>2. ASSUME NEW c \in DOMAIN files, b < c PROVE b + i - 1 < c
    <3>1. n # Len(snapshot.segments) /\ n + 1 \in Views /\ View(n + 1).base <= c
      BY <2>2, LaterFiles
    <3>2. b + i - 1 < View(n + 1).base
      BY <3>1
    <3>3. View(n + 1).base \in Nat /\ c \in Nat
      BY <3>1, BasesRise, IntactFacts DEF TypeOK
    <3> HIDE DEF b
    <3> QED BY <1>1, <1>2, <3>1, <3>2, <3>3
  <2> QED BY <2>1, <2>2 DEF Covers
<1>5. history[b + i] = <<data[i].id, 0>>
  <2>1. Recorded(files, history)
    BY IntactFacts DEF OnDisk
  <2>2. 0 \in 0 .. Count[data[i].id] - 1
    <3>1. Count[data[i].id] = 1
      BY <1>1, <1>2, BatchAt, EntryAssumption
    <3> QED BY <3>1
  <2>3. data[i].base + 0 = b + i - 1 /\ data[i].base + 0 + 1 = b + i
    <3> HIDE DEF data, b
    <3> QED BY <1>1, <1>2, <1>3
  <2>4. Covers(files, b, data[i].base + 0)
    BY <1>4, <2>3
  <2>5. history[data[i].base + 0 + 1] = <<data[i].id, 0>>
    BY <1>1, <1>2, <2>1, <2>2, <2>4 DEF Recorded
  <2> QED BY <2>3, <2>5
<1> QED BY <1>3, <1>5

\* Without leftovers a segment shows the entries up to the next one, and the last
\* up to the end of the log.
LEMMA SegmentEnds ==
    ASSUME Intact, ~ Leftovers, NEW n \in Views
    PROVE  View(n).base + View(n).size = Limit(n)
<1> DEFINE b == View(n).base
           data == files[b]
           length == View(n).size
           last == Len(snapshot.segments)
<1>0. /\ PartitionInv /\ TypeOK /\ Laid /\ Ends /\ Shown /\ Underway
      /\ OnDisk(files, indexes, history) /\ up /\ ~ clobbered
      /\ snapshot.leo \in Nat /\ last \in Nat \ {0}
  BY IntactFacts
<1>1. /\ b \in Nat /\ b \in DOMAIN files /\ data \in Seq(Batch) /\ Contiguous(data, b)
      /\ length \in 0 .. Len(data) /\ length \in Nat
  BY SegmentFacts
<1>2. Len(data) \in Nat /\ RecordsCount(data) = Len(data)
  <2>1. Len(data) \in Nat /\ Len(data) \in 0 .. Len(data)
    BY <1>1
  <2>2. RecordsCount(data) = Total(data)[Len(data)]
    BY <1>1, TotalDef
  <2>3. Total(data)[Len(data)] = Len(data)
    BY <1>1, <2>1, TotalIsIndex
  <2> QED BY <2>1, <2>2, <2>3
<1>3. CASE n = last
  <2>1. b = ActiveBase /\ data = Active
    BY <1>3, BasesRise DEF Active
  <2>2. length + (IF writing = Nil THEN 0 ELSE 1) = Len(data)
    BY <1>0, <1>3, <2>1 DEF Shown
  <2>3. CASE writing = Nil
    <3>1. snapshot.leo = Len(history)
      BY <1>0, <2>3 DEF Ends, Unpublished
    <3>2. b + RecordsCount(data) = Len(history)
      BY <1>0, <2>1 DEF Ends, FileEnd
    <3>3. b + length = snapshot.leo
      <4> HIDE DEF b, data, length
      <4> QED BY <1>1, <1>2, <2>2, <2>3, <3>1, <3>2
    <3> QED BY <1>3, <3>3 DEF Limit
  <2>4. CASE writing # Nil
    <3>1. snapshot.leo = b + Total(data)[Len(data) - 1] /\ Len(data) # 0
      BY <1>0, <2>1, <2>4, WritingEnd
    <3>2. Len(data) - 1 \in 0 .. Len(data)
      <4> HIDE DEF data
      <4> QED BY <1>2, <3>1
    <3>3. Total(data)[Len(data) - 1] = Len(data) - 1
      BY <1>1, <3>2, TotalIsIndex
    <3>4. b + length = snapshot.leo
      <4> HIDE DEF b, data, length
      <4> QED BY <1>1, <1>2, <2>2, <2>4, <3>1, <3>3
    <3> QED BY <1>3, <3>4 DEF Limit
  <2> QED BY <2>3, <2>4
<1>4. CASE n # last
  <2> DEFINE next == View(n + 1).base
  <2>1. last \in Views /\ n < last
    BY <1>0, <1>4, BasesRise DEF Views
  <2>2. View(last).base = ActiveBase /\ b < ActiveBase /\ ActiveBase \in DOMAIN files
    BY <1>0, <2>1, BasesRise, ActiveFacts
  <2>3. PICK d \in DOMAIN files : b < d /\ d <= b + RecordsCount(data)
    BY <1>0, <1>1, <2>2 DEF OnDisk, NoGap
  <2>4. n + 1 \in Views /\ next <= d /\ b < next /\ next \in Nat /\ d \in Nat
    <3>1. n + 1 \in Views /\ next <= d /\ d \in Nat
      BY <1>0, <2>3, LaterFiles DEF TypeOK
    <3>2. n < n + 1
      BY BasesRise
    <3> QED BY <3>1, <3>2, BasesRise
  <2>5. length = Len(data)
    <3>1. b # ActiveBase
      BY <1>0, <1>1, <2>2, ActiveFacts
    <3> QED BY <1>0, <3>1 DEF Shown
  <2>6. next <= b + length
    <3> HIDE DEF b, data, length, next
    <3> QED BY <1>1, <1>2, <2>3, <2>4, <2>5
  <2>7. length \in 1 .. length
    <3> HIDE DEF b, data, length, next
    <3> QED BY <1>1, <2>4, <2>6
  <2>8. data[length].base < next
    <3> DEFINE part == AllBatches(View(n))
    <3>1. part = BatchesFrom(data, length, 0)
      BY DEF AllBatches
    <3>2. part \in Seq(Batch) /\ Len(part) = length /\ part[length] = data[length]
      <4>1. /\ BatchesFrom(data, length, 0) \in Seq(Batch)
            /\ Len(BatchesFrom(data, length, 0)) = length - 0
            /\ \A i \in 1 .. length - 0 : BatchesFrom(data, length, 0)[i] = data[0 + i]
        <5>1. 0 \in 0 .. length
          BY <1>1
        <5> HIDE DEF data, length
        <5> QED BY <1>1, <5>1, PartBatches
      <4>2. length - 0 = length /\ 0 + length = length
        BY <1>1
      <4> HIDE DEF data, length, part
      <4> QED BY <2>7, <3>1, <4>1, <4>2
    <3>3. data[length] \in ToSet(part)
      <4> HIDE DEF part, data, length
      <4> QED BY <2>7, <3>2 DEF ToSet
    <3>4. n \in 1 .. Len(snapshot.segments) - 1
      BY <1>0, <1>4 DEF Views
    <3>5. ~ (data[length].base >= next)
      BY <3>3, <3>4 DEF Leftovers, View
    <3>6. data[length].base \in Nat
      BY <1>1, <2>5, <2>7, BatchAt
    <3> HIDE DEF part, data, length, next
    <3> QED BY <2>4, <3>5, <3>6
  <2>9. data[length].base = b + length - 1
    <3>1. length \in 1 .. Len(data) /\ length - 1 \in 0 .. Len(data)
      <4> HIDE DEF data, length
      <4> QED BY <1>1, <1>2, <2>5, <2>7
    <3>2. data[length].base = b + Total(data)[length - 1]
      BY <1>1, <3>1 DEF Contiguous
    <3>3. Total(data)[length - 1] = length - 1
      BY <1>1, <3>1, TotalIsIndex
    <3> HIDE DEF b, data, length
    <3> QED BY <1>1, <3>2, <3>3
  <2>10. b + length = next
    <3> HIDE DEF b, data, length, next
    <3> QED BY <1>1, <2>4, <2>6, <2>8, <2>9
  <2> QED BY <1>4, <2>10 DEF Limit
<1> QED BY <1>3, <1>4

\* So what is read of it is a list of entries of the log.
LEMMA PieceLists ==
    ASSUME Intact, ~ Leftovers, NEW n \in Views, NEW p \in 0 .. View(n).size
    PROVE  Lists(BatchesFrom(files[View(n).base], View(n).size, p),
                 View(n).base + p, Limit(n))
<1> DEFINE b == View(n).base
           data == files[b]
           length == View(n).size
           part == BatchesFrom(data, length, p)
           end == Limit(n)
<1>1. /\ b \in Nat /\ data \in Seq(Batch)
      /\ length \in 0 .. Len(data) /\ length \in Nat
  BY SegmentFacts
<1>2. b + length = end
  BY SegmentEnds
<1>3. /\ part \in Seq(Batch) /\ Len(part) = length - p
      /\ \A i \in 1 .. length - p : part[i] = data[p + i]
  <2> HIDE DEF data, length, part
  <2> QED BY <1>1, PartBatches DEF part, length
<1>4. end - (b + p) = length - p
  <2> HIDE DEF b, data, length, end
  <2> QED BY <1>1, <1>2 DEF length
<1>5. ASSUME NEW i \in 1 .. length - p
      PROVE  part[i].base = b + p + i - 1 /\ part[i].id = history[b + p + i][1]
  <2>1. p + i \in 1 .. length /\ b + (p + i) - 1 < end
    <3>1. p \in 0 .. length
      OBVIOUS
    <3> HIDE DEF b, data, length, end
    <3> QED BY <1>1, <1>2, <3>1
  <2>2. n = Len(snapshot.segments) \/ b + (p + i) - 1 < View(n + 1).base
    BY <2>1 DEF Limit
  <2>3. data[p + i].base = b + (p + i) - 1 /\ history[b + (p + i)][1] = data[p + i].id
    BY <2>1, <2>2, EntryHeld
  <2>4. p \in Nat /\ i \in Nat
    BY <1>1
  <2>5. part[i] = data[p + i]
    BY <1>3
  <2> HIDE DEF b, data, length, part, end
  <2>6. b + (p + i) = b + p + i /\ b + (p + i) - 1 = b + p + i - 1
    BY <1>1, <2>4
  <2> QED BY <1>1, <2>3, <2>4, <2>5, <2>6
<1> HIDE DEF b, data, length, part, end
<1> QED BY <1>3, <1>4, <1>5 DEF Lists, b, data, length, part, end

\* The segments together list the whole log.
LEMMA EverythingLists ==
    ASSUME Intact, ~ Leftovers
    PROVE  Lists(Everything, 0, snapshot.leo)
<1> DEFINE m == Len(snapshot.segments)
           seqs == [i \in 1 .. m |-> AllBatches(snapshot.segments[i])]
           b == [i \in 1 .. m + 1 |-> IF i <= m THEN View(i).base ELSE snapshot.leo]
<1>1. m \in Nat \ {0} /\ snapshot.leo \in Nat /\ Views = 1 .. m
  BY IntactFacts DEF Views
<1>2. \A i \in Views : View(i).base \in Nat
  BY BasesRise
<1> HIDE DEF m
<1>3. b \in [1 .. m + 1 -> Nat]
  BY <1>1, <1>2
<1>4. ASSUME NEW i \in 1 .. m PROVE Lists(seqs[i], b[i], b[i + 1])
  <2>1. i \in Views /\ i \in Nat /\ i \in 1 .. m + 1 /\ i + 1 \in 1 .. m + 1
    BY <1>1
  <2>2. View(i).base \in Nat /\ View(i).size \in Nat
    BY <2>1, SegmentFacts
  <2>3. seqs[i] = BatchesFrom(files[View(i).base], View(i).size, 0)
    BY DEF AllBatches, View
  <2>4. b[i] = View(i).base + 0
    BY <1>1, <2>1, <2>2
  <2>5. b[i + 1] = Limit(i)
    <3>1. CASE i = m
      <4>1. ~ (i + 1 <= m)
        BY <1>1, <3>1
      <4> QED BY <2>1, <3>1, <4>1 DEF Limit, m
    <3>2. CASE i # m
      <4>1. i + 1 <= m
        BY <1>1, <3>2
      <4> QED BY <2>1, <3>2, <4>1 DEF Limit, m
    <3> QED BY <3>1, <3>2
  <2>6. Lists(BatchesFrom(files[View(i).base], View(i).size, 0), View(i).base + 0, Limit(i))
    <3>1. 0 \in 0 .. View(i).size
      BY <2>2
    <3> QED BY <2>1, <3>1, PieceLists
  <2> HIDE DEF seqs, b
  <2> QED BY <2>3, <2>4, <2>5, <2>6
<1>5. seqs \in Seq(Seq(Batch)) /\ Len(seqs) = m /\ seqs # <<>>
  <2>1. \A i \in 1 .. m : seqs[i] \in Seq(Batch)
    BY <1>4 DEF Lists
  <2>2. \A i \in 1 .. m : AllBatches(snapshot.segments[i]) \in Seq(Batch)
    BY <2>1
  <2>3. seqs \in Seq(Seq(Batch)) /\ Len(seqs) = m
    BY <1>1, <2>2
  <2> HIDE DEF seqs
  <2> QED BY <1>1, <2>3
<1>6. Everything = FlattenSeq(seqs)
  BY DEF Everything, m
<1>7. b[1] = 0 /\ b[m + 1] = snapshot.leo
  BY <1>1, BasesRise
<1> HIDE DEF seqs, b
<1>8. Lists(FlattenSeq(seqs), b[1], b[Len(seqs) + 1])
  BY <1>3, <1>4, <1>5, FlattenLists
<1> QED BY <1>5, <1>6, <1>7, <1>8

-----------------------------------------------------------------------------
(* Reading from an offset *)

\* A segment that starts after the offset is read from its start.
LEMMA LaterWhole ==
    ASSUME NEW data \in Seq(Batch), NEW index \in Seq(IndexEntry),
           NEW view \in SegmentView, view.indexCount <= Len(index), view.size <= Len(data),
           view.size # 0 => AllPoint(index, data, view.base),
           NEW target \in Nat, target < view.base
    PROVE  BatchIterFrom(data, index, view, target) = BatchesFrom(data, view.size, 0)
<1> DEFINE entry == FindPhysicalPosition(index, view.indexCount, target)
           start == StartOf(index, view, target)
           at == LinearSearch(data, view.size, target, start)
<1>1. /\ view.size \in 0 .. Len(data) /\ view.size \in Nat /\ view.base \in Nat
      /\ view.indexCount \in 0 .. Len(index) /\ view.indexCount \in Nat
  BY DEF SegmentView
<1>2. BatchIterFrom(data, index, view, target) =
         IF (entry = Nil /\ view.size = 0) \/ at = Nil
         THEN <<>> ELSE BatchesFrom(data, view.size, at)
  BY DEF BatchIterFrom, StartOf
<1>3. CASE view.size = 0
  <2>1. ASSUME NEW p \in Nat PROVE BatchesFrom(data, view.size, p) = <<>>
    <3>1. Min({view.size, Len(data)}) = 0
      <4>1. Len(data) \in Nat
        OBVIOUS
      <4> QED BY <1>1, <1>3, <4>1, MinPair
    <3>2. p + 1 \in Nat \ {0} /\ 0 \in 0 .. Len(data) /\ ~ (p + 1 <= 0)
      OBVIOUS
    <3>3. SubSeq(data, p + 1, 0) \in Seq(Batch) /\ Len(SubSeq(data, p + 1, 0)) = 0
      BY <3>2, PartType
    <3>4. SubSeq(data, p + 1, 0) = <<>>
      BY <3>3, EmptySeq
    <3> QED BY <3>1, <3>4 DEF BatchesFrom
  <2>2. at \in Nat \union {Nil}
    <3>1. entry \in IndexEntry \union {Nil}
      BY <1>1, FindType
    <3>2. start.offset \in Nat /\ start.pos \in Nat
      BY <1>1, <3>1 DEF StartOf, IndexEntry
    <3> HIDE DEF start
    <3> QED BY <1>1, <3>2, LinearSearchType
  <2> HIDE DEF at, entry
  <2>3. 0 \in Nat
    OBVIOUS
  <2> QED BY <1>2, <2>1, <2>2, <2>3
<1>4. CASE view.size # 0
  <2>1. entry = Nil
    <3> DEFINE found == EntriesUpTo(index, view.indexCount, target)
    <3>1. found \in 0 .. view.indexCount /\ (found # 0 => index[found].offset <= target)
      BY <1>1, EntriesUpToFinds
    <3> HIDE DEF found
    <3>2. ASSUME found # 0 PROVE FALSE
      <4>1. found \in 1 .. Len(index)
        BY <1>1, <3>1, <3>2
      <4>2. Points(index[found], data, view.base)
        BY <1>4, <4>1 DEF AllPoint
      <4>3. index[found].pos \in Nat /\ index[found].offset \in Nat
        <5>1. index[found] \in IndexEntry
          BY <4>1, ElementOfSeq
        <5> QED BY <5>1 DEF IndexEntry
      <4>4. index[found].pos \in 0 .. Len(data)
        <5>1. Len(data) \in Nat
          OBVIOUS
        <5> QED BY <4>2, <4>3, <5>1 DEF Points
      <4>5. Total(data)[index[found].pos] = index[found].pos
        BY <4>4, TotalIsIndex
      <4> QED BY <1>1, <3>1, <3>2, <4>2, <4>3, <4>5 DEF Points
    <3> QED BY <3>2 DEF FindPhysicalPosition, found
  <2>2. start = [offset |-> view.base, pos |-> 0]
    BY <2>1 DEF StartOf
  <2> HIDE DEF start
  <2>3. at = Walk(data, view.size, target)[<<view.base, 0>>]
    <3>1. ASSUME NEW e
          PROVE  LinearSearch(data, view.size, target, e) =
                   Walk(data, view.size, target)[<<e.offset, e.pos>>]
      <4>1. view.size \in Nat
        BY <1>1
      <4> QED BY <4>1, WalkDef
    <3>2. start.offset = view.base /\ start.pos = 0
      BY <2>2
    <3> QED BY <3>1, <3>2
  <2> HIDE DEF at, entry
  <2>4. Walk(data, view.size, target)[<<view.base, 0>>] = 0
    <3>1. Walks(Walk(data, view.size, target), data, view.size, target)
      BY <1>1, WalkValues
    <3>2. view.base \in Nat /\ 0 \in Nat /\ view.base >= target
      BY <1>1
    <3> QED BY <3>1, <3>2 DEF Walks
  <2>5. at # Nil
    BY <2>3, <2>4, NilAssumption
  <2> QED BY <1>2, <1>4, <2>3, <2>4, <2>5
<1> QED BY <1>3, <1>4

\* The segment of an offset is read from the batch at that offset on, the later ones
\* whole.
LEMMA ReadsFrom ==
    ASSUME Intact, NEW start \in Nat, start < snapshot.leo
    PROVE  LET n == SegmentFor(snapshot.segments, start)
               b == View(n).base
           IN  /\ n \in Views /\ start - b \in 0 .. View(n).size - 1
               /\ n = Len(snapshot.segments) \/ start < View(n + 1).base
               /\ BatchesOf(View(n), start) = BatchesFrom(files[b], View(n).size, start - b)
               /\ \A i \in Views : i > n =>
                     BatchesOf(View(i), start) = BatchesFrom(files[View(i).base], View(i).size, 0)
<1> DEFINE n == SegmentFor(snapshot.segments, start)
           v == View(n)
           b == v.base
           data == files[b]
<1>0. /\ PartitionInv /\ TypeOK /\ Laid /\ OnDisk(files, indexes, history) /\ Underway
      /\ Shown /\ up /\ ~ clobbered
      /\ Len(snapshot.segments) \in Nat
  BY IntactFacts
<1>1. /\ n \in Views /\ b <= start
      /\ \A j \in Views : j > n => View(j).base > start
  BY <1>0, SegmentForPicks
<1>2. \E p \in 1 .. v.size : b + Total(data)[p - 1] <= start /\ start < b + Total(data)[p]
  BY <1>0, OffsetShown
<1> HIDE DEF n
<1>3. n \in Nat /\ (n = Len(snapshot.segments) \/ n + 1 \in Views)
  BY <1>0, <1>1 DEF Views
<1>4. n = Len(snapshot.segments) \/ start < View(n + 1).base
  <2>1. ASSUME n + 1 \in Views PROVE start < View(n + 1).base
    <3>1. View(n + 1).base > start /\ View(n + 1).base \in Nat
      BY <1>1, <1>3, <2>1, BasesRise
    <3> QED BY <3>1
  <2> QED BY <1>3, <2>1
<1>5. /\ v \in SegmentView /\ b \in Nat /\ data \in Seq(Batch)
      /\ v.size \in 0 .. Len(data) /\ v.size \in Nat
      /\ indexes[b] \in Seq(IndexEntry) /\ v.indexCount <= Len(indexes[b])
      /\ v.size # 0 => AllPoint(indexes[b], data, b)
  BY <1>1, SegmentFacts
<1>6. PICK p \in 1 .. v.size : b + Total(data)[p - 1] <= start /\ start < b + Total(data)[p]
  BY <1>2
<1>7. p - 1 = start - b /\ start - b \in 0 .. v.size - 1
  <2>1. p - 1 \in 0 .. Len(data) /\ p \in 0 .. Len(data) /\ p \in Nat /\ p <= v.size /\ p >= 1
    <3>1. Len(data) \in Nat
      BY <1>5
    <3> HIDE DEF v, data
    <3> QED BY <1>5, <3>1
  <2>2. Total(data)[p - 1] = p - 1 /\ Total(data)[p] = p
    BY <1>5, <2>1, TotalIsIndex
  <2> HIDE DEF v, b, data
  <2> QED BY <1>1, <1>5, <1>6, <2>1, <2>2
<1>8. BatchesOf(v, start) = BatchesFrom(data, v.size, start - b)
  <2>1. v.size <= Len(data) /\ v.size # 0
    <3>1. Len(data) \in Nat /\ p \in 1 .. v.size
      BY <1>5
    <3> HIDE DEF v, data
    <3> QED BY <1>5, <3>1
  <2>2. AllPoint(indexes[b], data, v.base)
    BY <1>5, <2>1
  <2> HIDE DEF v, data
  <2>3. BatchIterFrom(data, indexes[b], v, start) = BatchesFrom(data, v.size, p - 1)
    BY <1>5, <1>6, <2>1, <2>2, IterStarts
  <2> QED BY <1>7, <2>3 DEF BatchesOf, data
<1>9. ASSUME NEW i \in Views, i > n
      PROVE  BatchesOf(View(i), start) = BatchesFrom(files[View(i).base], View(i).size, 0)
  <2> DEFINE w == View(i)
             later == files[w.base]
             index == indexes[w.base]
  <2>1. /\ w \in SegmentView /\ w.base \in Nat /\ later \in Seq(Batch)
        /\ w.size \in 0 .. Len(later)
        /\ index \in Seq(IndexEntry) /\ w.indexCount <= Len(index)
        /\ w.size # 0 => AllPoint(index, later, w.base)
    BY SegmentFacts
  <2>2. start < w.base
    BY <1>1, <1>9, <2>1
  <2>3. w.size <= Len(later)
    <3>1. Len(later) \in Nat
      BY <2>1
    <3> HIDE DEF w, later
    <3> QED BY <2>1, <3>1
  <2> HIDE DEF w, later, index
  <2>4. BatchIterFrom(later, index, w, start) = BatchesFrom(later, w.size, 0)
    BY <2>1, <2>2, <2>3, LaterWhole
  <2> QED BY <2>4 DEF BatchesOf, w, later, index
<1> QED BY <1>1, <1>4, <1>7, <1>8, <1>9 DEF n

-----------------------------------------------------------------------------
(* The answers *)

VecEntry == [epoch : Nat, offset : Nat, data : Batches]

\* What VecLog would hold.
LEMMA EntriesAre ==
    ASSUME Intact
    PROVE  /\ Entries \in Seq(VecEntry) /\ Len(Entries) = snapshot.leo
           /\ \A i \in 1 .. snapshot.leo :
                 /\ history[i][1] \in Batches
                 /\ Entries[i] = [epoch |-> EpochOf[history[i][1]], offset |-> i - 1,
                                  data |-> history[i][1]]
                 /\ Entries[i].epoch = EpochOf[history[i][1]]
                 /\ Entries[i].offset = i - 1
<1>1. snapshot.leo \in Nat /\ history \in Seq(Record) /\ snapshot.leo <= Len(history)
  BY IntactFacts
<1> DEFINE entry(i) == [epoch |-> EpochOf[history[i][1]], offset |-> i - 1,
                        data |-> history[i][1]]
<1>2. ASSUME NEW i \in 1 .. snapshot.leo
      PROVE  /\ history[i][1] \in Batches
             /\ LogEntry([id |-> history[i][1], base |-> i - 1]) = entry(i)
             /\ entry(i) \in VecEntry
  <2>1. i \in 1 .. Len(history) /\ i - 1 \in Nat
    BY <1>1
  <2>2. history[i] \in Record
    BY <1>1, <2>1, ElementOfSeq
  <2>3. history[i][1] \in Batches
    BY <2>2 DEF Record
  <2>4. EpochOf[history[i][1]] \in Nat
    BY <2>3, EntryAssumption
  <2> QED BY <2>1, <2>3, <2>4 DEF LogEntry, VecEntry
<1>3. Entries = [i \in 1 .. snapshot.leo |-> entry(i)]
  BY <1>2 DEF Entries
<1> HIDE DEF entry
<1>4. Entries \in Seq(VecEntry) /\ Len(Entries) = snapshot.leo
  <2> DEFINE leo == snapshot.leo
  <2>1. leo \in Nat /\ \A i \in 1 .. leo : entry(i) \in VecEntry
    BY <1>1, <1>2
  <2>2. Entries = [i \in 1 .. leo |-> entry(i)]
    BY <1>3
  <2> HIDE DEF leo
  <2> QED BY <2>1, <2>2 DEF leo
<1>5. \A i \in 1 .. snapshot.leo : Entries[i] = entry(i)
  BY <1>3
<1>6. \A i \in 1 .. snapshot.leo : entry(i).epoch = EpochOf[history[i][1]] /\ entry(i).offset = i - 1
  BY DEF entry
<1>7. \A i \in 1 .. snapshot.leo :
         Entries[i].epoch = EpochOf[history[i][1]] /\ Entries[i].offset = i - 1
  BY <1>5, <1>6
<1> QED BY <1>2, <1>4, <1>5, <1>7 DEF entry

LEMMA EndAnswered ==
    ASSUME Intact
    PROVE  log_end_offset = VecLog!LogEndOffset(Entries)
<1>1. snapshot.leo \in Nat /\ Entries \in Seq(VecEntry) /\ Len(Entries) = snapshot.leo
  BY IntactFacts, EntriesAre
<1>2. CASE snapshot.leo = 0
  <2>1. Entries = <<>>
    BY <1>1, <1>2, EmptySeq
  <2> QED BY <1>2, <2>1 DEF log_end_offset, VecLog!LogEndOffset
<1>3. CASE snapshot.leo # 0
  <2>1. snapshot.leo \in 1 .. snapshot.leo /\ Entries # <<>>
    BY <1>1, <1>3
  <2>2. Entries[snapshot.leo].offset = snapshot.leo - 1
    <3>1. \A i \in 1 .. snapshot.leo : Entries[i].offset = i - 1
      BY EntriesAre
    <3> QED BY <2>1, <3>1
  <2>3. Last(Entries) = Entries[snapshot.leo]
    BY <1>1 DEF Last
  <2>4. snapshot.leo - 1 + 1 = snapshot.leo
    BY <1>1
  <2>5. VecLog!LogEndOffset(Entries) = Last(Entries).offset + 1
    BY <2>1 DEF VecLog!LogEndOffset, VecLog!Last, Last
  <2>6. Last(Entries).offset + 1 = snapshot.leo
    BY <2>2, <2>3, <2>4
  <2> QED BY <2>5, <2>6 DEF log_end_offset
<1> QED BY <1>2, <1>3

\* The segments from a segment on.
LEMMA SegmentsFromAre ==
    ASSUME Intact, NEW start \in Nat
    PROVE  LET n == SegmentFor(snapshot.segments, start)
               m == Len(snapshot.segments)
           IN  /\ n \in Views /\ m - n + 1 \in Nat \ {0}
               /\ SegmentsFrom(start) \in Seq(SegmentView)
               /\ Len(SegmentsFrom(start)) = m - n + 1
               /\ \A i \in 1 .. m - n + 1 :
                     SegmentsFrom(start)[i] = View(n + i - 1) /\ n + i - 1 \in Views
<1> DEFINE n == SegmentFor(snapshot.segments, start)
           segments == snapshot.segments
           m == Len(segments)
<1>1. n \in Views
  BY IntactFacts, SegmentForPicks
<1>2. SegmentsFrom(start) = SubSeq(segments, n, m)
  BY DEF SegmentsFrom
<1> HIDE DEF n
<1>3. segments \in Seq(SegmentView) /\ m \in Nat \ {0} /\ n \in 1 .. m /\ Views = 1 .. m
  BY <1>1, IntactFacts DEF Views
<1>4. \A i \in Views : segments[i] = View(i)
  BY DEF View
<1> HIDE DEF segments
<1>5. n \in Nat \ {0} /\ n <= m /\ m \in 0 .. m
  BY <1>3
<1> HIDE DEF m
<1>6. /\ SubSeq(segments, n, m) \in Seq(SegmentView)
      /\ Len(SubSeq(segments, n, m)) = IF n <= m THEN m - n + 1 ELSE 0
      /\ \A i \in 1 .. m - n + 1 : SubSeq(segments, n, m)[i] = segments[n + i - 1]
  BY <1>3, <1>5, PartType DEF m
<1>7. \A i \in 1 .. m - n + 1 : n + i - 1 \in Views
  BY <1>3
<1>8. m - n + 1 \in Nat \ {0}
  BY <1>3, <1>5
<1>9. /\ SegmentsFrom(start) \in Seq(SegmentView)
      /\ Len(SegmentsFrom(start)) = m - n + 1
      /\ \A i \in 1 .. m - n + 1 :
            SegmentsFrom(start)[i] = View(n + i - 1) /\ n + i - 1 \in Views
  BY <1>2, <1>4, <1>5, <1>6, <1>7
<1> QED BY <1>1, <1>8, <1>9 DEF n, m, segments

LEMMA VecMin ==
    ASSUME NEW T, T \subseteq Nat, T # {}
    PROVE  VecLog!Min(T) \in T /\ \A y \in T : VecLog!Min(T) <= y
BY LeastNat DEF VecLog!Min

\* epoch_at answers the epoch of the entry at the offset.
LEMMA EpochAnswered ==
    ASSUME Intact, NEW offset \in Nat, offset < snapshot.leo
    PROVE  epoch_at(offset) = VecLog!EpochAt(Entries, offset)
<1> DEFINE n == SegmentFor(snapshot.segments, offset)
           b == View(n).base
           data == files[b]
           length == View(n).size
           q == offset - b
           batches == BatchesFrom(data, length, q)
           past == {i \in 1 .. Len(batches) : batches[i].base >= offset}
           here == {i \in 1 .. Len(Entries) : Entries[i].offset = offset}
           epoch == EpochOf[history[offset + 1][1]]
<1>0. snapshot.leo \in Nat
  BY IntactFacts
<1>1. /\ n \in Views /\ q \in 0 .. length - 1
      /\ n = Len(snapshot.segments) \/ offset < View(n + 1).base
      /\ BatchesOf(View(n), offset) = batches
  BY ReadsFrom
<1>2. Head(SegmentsFrom(offset)) = View(n)
  <2>1. /\ Len(SegmentsFrom(offset)) = Len(snapshot.segments) - n + 1
        /\ Len(snapshot.segments) - n + 1 \in Nat \ {0}
        /\ SegmentsFrom(offset) \in Seq(SegmentView)
        /\ \A i \in 1 .. Len(snapshot.segments) - n + 1 :
              SegmentsFrom(offset)[i] = View(n + i - 1)
    BY SegmentsFromAre
  <2>2. n \in Nat
    BY <1>1, BasesRise
  <2> HIDE DEF n
  <2>3. 1 \in 1 .. Len(snapshot.segments) - n + 1 /\ n + 1 - 1 = n
    BY <2>1, <2>2
  <2>4. SegmentsFrom(offset)[1] = View(n)
    BY <2>1, <2>3
  <2> QED BY <2>1, <2>4
<1> HIDE DEF n
<1>3. /\ b \in Nat /\ data \in Seq(Batch) /\ length \in 0 .. Len(data) /\ length \in Nat
  BY <1>1, SegmentFacts
<1>4. /\ batches \in Seq(Batch) /\ Len(batches) = length - q
      /\ batches[1] = data[q + 1] /\ 1 \in 1 .. Len(batches)
  <2>1. q \in 0 .. length /\ 1 \in 1 .. length - q
    <3> HIDE DEF b, data, length, q
    <3> QED BY <1>1, <1>3
  <2>2. /\ batches \in Seq(Batch) /\ Len(batches) = length - q
        /\ \A i \in 1 .. length - q : batches[i] = data[q + i]
    <3> HIDE DEF b, data, length, q
    <3> QED BY <1>3, <2>1, PartBatches
  <2> HIDE DEF b, data, length, q, batches
  <2> QED BY <2>1, <2>2
<1>5. data[q + 1].base = offset /\ EpochOf[data[q + 1].id] = epoch
  <2>1. q + 1 \in 1 .. length /\ b + (q + 1) = offset + 1 /\ b + (q + 1) - 1 = offset
    <3>1. b + q = offset
      <4> HIDE DEF b
      <4> QED BY <1>3
    <3> HIDE DEF b, data, length, q
    <3> QED BY <1>1, <1>3, <3>1
  <2>2. n = Len(snapshot.segments) \/ b + (q + 1) - 1 < View(n + 1).base
    BY <1>1, <2>1
  <2>3. /\ data[q + 1].base = b + (q + 1) - 1
        /\ history[b + (q + 1)][1] = data[q + 1].id
    <3> HIDE DEF q
    <3> QED BY <1>1, <2>1, <2>2, EntryHeld
  <2> HIDE DEF b, data, length, q
  <2> QED BY <2>1, <2>3
<1>6. epoch_at(offset) = epoch
  <2>1. epoch_at(offset) =
          LET i == SelectInSeq(batches, LAMBDA batch : batch.base >= offset)
          IN  IF i = 0 THEN Nil
              ELSE IF batches[i].base = offset THEN EpochOf[batches[i].id] ELSE Nil
    BY <1>1, <1>2 DEF epoch_at
  <2>2. SelectInSeq(batches, LAMBDA batch : batch.base >= offset) =
          IF past # {} THEN Min(past) ELSE 0
    BY DEF SelectInSeq
  <2> HIDE DEF b, data, length, q, batches
  <2>3. 1 \in past
    BY <1>4, <1>5
  <2>4. past \subseteq Nat
    OBVIOUS
  <2>5. \A i \in past : i >= 1
    OBVIOUS
  <2> HIDE DEF past
  <2>6. Min(past) \in past /\ Min(past) <= 1
    BY <2>3, <2>4, MinNat
  <2>7. Min(past) = 1 /\ past # {}
    <3>1. Min(past) \in Nat /\ Min(past) >= 1 /\ Min(past) <= 1
      BY <2>4, <2>5, <2>6
    <3>2. Min(past) = 1
      BY <3>1
    <3> QED BY <2>3, <3>2
  <2> QED BY <1>4, <1>5, <2>1, <2>2, <2>7
<1>7. VecLog!EpochAt(Entries, offset) = epoch
  <2>1. VecLog!EpochAt(Entries, offset) =
          LET i == IF here # {} THEN VecLog!Min(here) ELSE 0
          IN  IF i = 0 THEN Nil ELSE Entries[i].epoch
    BY DEF VecLog!EpochAt, VecLog!SelectInSeq
  <2>2. /\ Len(Entries) = snapshot.leo
        /\ \A i \in 1 .. snapshot.leo :
              Entries[i].offset = i - 1 /\ Entries[i].epoch = EpochOf[history[i][1]]
    BY EntriesAre
  <2>3. offset + 1 \in 1 .. snapshot.leo /\ offset + 1 - 1 = offset /\ offset + 1 # 0
    BY <1>0
  <2>4. here = {offset + 1}
    <3>1. offset + 1 \in here
      BY <2>2, <2>3
    <3>2. \A i \in here : i = offset + 1
      BY <1>0, <2>2
    <3> HIDE DEF here
    <3> QED BY <3>1, <3>2
  <2> HIDE DEF here
  <2>5. here # {} /\ VecLog!Min(here) = offset + 1
    <3>1. here \subseteq Nat /\ here # {}
      BY <2>4
    <3> QED BY <2>4, <3>1, VecMin
  <2> QED BY <2>1, <2>2, <2>3, <2>5
<1> QED BY <1>6, <1>7

\* The batches that entries goes through.
ReadFrom(start) ==
    LET views == SegmentsFrom(start)
    IN  FlattenSeq([i \in 1 .. Len(views) |-> BatchesOf(views[i], start)])

LEMMA ReadType ==
    ASSUME Intact, NEW start \in Nat
    PROVE  ReadFrom(start) \in Seq(Batch)
<1> DEFINE views == SegmentsFrom(start)
           seqs == [i \in 1 .. Len(views) |-> BatchesOf(views[i], start)]
           n == SegmentFor(snapshot.segments, start)
           m == Len(snapshot.segments)
<1>1. /\ Len(views) = m - n + 1 /\ m - n + 1 \in Nat \ {0}
      /\ \A i \in 1 .. m - n + 1 : views[i] = View(n + i - 1) /\ n + i - 1 \in Views
  BY SegmentsFromAre
<1> HIDE DEF views, n, m
<1>2. ASSUME NEW i \in 1 .. Len(views) PROVE BatchesOf(views[i], start) \in Seq(Batch)
  <2> DEFINE w == views[i]
  <2>1. PICK k \in Views : w = View(k)
    BY <1>1
  <2>2. /\ w \in SegmentView /\ files[w.base] \in Seq(Batch)
        /\ indexes[w.base] \in Seq(IndexEntry) /\ w.indexCount <= Len(indexes[w.base])
    BY <2>1, SegmentFacts
  <2> HIDE DEF w
  <2>3. BatchIterFrom(files[w.base], indexes[w.base], w, start) \in Seq(Batch)
    BY <2>2, BatchIterType
  <2> QED BY <2>3 DEF BatchesOf, w
<1>3. seqs \in Seq(Seq(Batch))
  <2>1. Len(views) \in Nat
    BY <1>1
  <2> QED BY <1>2, <2>1
<1> HIDE DEF seqs
<1>4. FlattenSeq(seqs) \in Seq(Batch)
  BY <1>3, FlattenType
<1> QED BY <1>4 DEF ReadFrom, seqs, views

\* Without leftovers they are the entries from the start to the end of the log.
LEMMA ReadLists ==
    ASSUME Intact, ~ Leftovers, NEW start \in Nat, start < snapshot.leo
    PROVE  Lists(ReadFrom(start), start, snapshot.leo)
<1> DEFINE views == SegmentsFrom(start)
           n == SegmentFor(snapshot.segments, start)
           m == Len(snapshot.segments)
           k == m - n + 1
           seqs == [i \in 1 .. Len(views) |-> BatchesOf(views[i], start)]
           b == [i \in 1 .. k + 1 |-> IF i = 1 THEN start
                                       ELSE IF i <= k THEN View(n + i - 1).base
                                       ELSE snapshot.leo]
<1>1. /\ Len(views) = k /\ k \in Nat \ {0}
      /\ \A i \in 1 .. k : views[i] = View(n + i - 1) /\ n + i - 1 \in Views
  BY SegmentsFromAre
<1>2. m \in Nat \ {0} /\ snapshot.leo \in Nat /\ Views = 1 .. m
  BY IntactFacts DEF Views
<1>3. /\ n \in Views /\ start - View(n).base \in 0 .. View(n).size - 1
      /\ BatchesOf(View(n), start) =
             BatchesFrom(files[View(n).base], View(n).size, start - View(n).base)
      /\ \A i \in Views : i > n =>
            BatchesOf(View(i), start) = BatchesFrom(files[View(i).base], View(i).size, 0)
  BY ReadsFrom
<1>4. n \in Nat /\ 1 <= n /\ n <= m
  <2> HIDE DEF n, m
  <2> QED BY <1>2, <1>3
<1> HIDE DEF views, n
<1>5. \A i \in Views : View(i).base \in Nat /\ View(i).size \in Nat
  BY BasesRise, SegmentFacts
<1>6. b \in [1 .. k + 1 -> Nat]
  <2>1. ASSUME NEW i \in 1 .. k + 1, i # 1, i <= k PROVE View(n + i - 1).base \in Nat
    <3>1. i \in 1 .. k
      BY <1>1, <2>1
    <3> QED BY <1>1, <1>5, <3>1
  <2> HIDE DEF k
  <2> QED BY <1>2, <2>1
<1>7. ASSUME NEW i \in 1 .. k PROVE Lists(seqs[i], b[i], b[i + 1])
  <2> DEFINE j == n + i - 1
  <2>1. /\ i \in 1 .. k + 1 /\ i + 1 \in 1 .. k + 1 /\ i + 1 # 1
        /\ n + (i + 1) - 1 = j + 1 /\ i \in Nat /\ (i + 1 <= k <=> j # m) /\ i >= 1
    <3> HIDE DEF m
    <3> QED BY <1>1, <1>2, <1>4
  <2>2. seqs[i] = BatchesOf(View(j), start) /\ j \in Views
    BY <1>1
  <2>3. b[i + 1] = Limit(j)
    <3>1. b[i + 1] = IF i + 1 <= k THEN View(j + 1).base ELSE snapshot.leo
      <4> HIDE DEF k, j
      <4> QED BY <2>1
    <3> QED BY <2>1, <3>1 DEF Limit
  <2>4. CASE i = 1
    <3>1. j = n /\ b[i] = start
      <4>1. j = n
        BY <1>4, <2>4
      <4>2. b[i] = start
        BY <2>1, <2>4
      <4> QED BY <4>1, <4>2
    <3> DEFINE q == start - View(n).base
    <3>2. q \in 0 .. View(n).size /\ View(n).base + q = start
      <4>1. View(n).base \in Nat /\ View(n).size \in Nat
        BY <1>3, <1>5
      <4> QED BY <1>3, <4>1
    <3> HIDE DEF q
    <3>3. Lists(BatchesFrom(files[View(n).base], View(n).size, q), View(n).base + q, Limit(n))
      BY <1>3, <3>2, PieceLists
    <3>4. seqs[i] = BatchesFrom(files[View(n).base], View(n).size, q)
      <4> HIDE DEF seqs, j
      <4> QED BY <1>3, <2>2, <3>1 DEF q
    <3> HIDE DEF seqs, b, j
    <3> QED BY <2>3, <3>1, <3>2, <3>3, <3>4
  <2>5. CASE i # 1
    <3>1. j > n /\ b[i] = View(j).base
      <4>1. j > n
        BY <1>4, <2>1, <2>5
      <4>2. i <= k
        BY <1>1, <2>1
      <4>3. b[i] = View(j).base
        <5> HIDE DEF k
        <5> QED BY <2>1, <2>5, <4>2
      <4> QED BY <4>1, <4>3
    <3>2. 0 \in 0 .. View(j).size /\ View(j).base + 0 = View(j).base
      <4>1. View(j).base \in Nat /\ View(j).size \in Nat
        BY <1>5, <2>2
      <4> QED BY <4>1
    <3> HIDE DEF j
    <3>3. Lists(BatchesFrom(files[View(j).base], View(j).size, 0), View(j).base + 0, Limit(j))
      BY <2>2, <3>2, PieceLists
    <3>4. seqs[i] = BatchesFrom(files[View(j).base], View(j).size, 0)
      <4> HIDE DEF seqs
      <4> QED BY <1>3, <2>2, <3>1
    <3> HIDE DEF seqs, b
    <3> QED BY <2>3, <3>1, <3>2, <3>3, <3>4
  <2> QED BY <2>4, <2>5
<1>8. b[1] = start /\ b[k + 1] = snapshot.leo
  <2>1. k \in Nat \ {0} /\ k + 1 # 1 /\ ~ (k + 1 <= k) /\ k + 1 \in 1 .. k + 1 /\ 1 \in 1 .. k + 1
    BY <1>1
  <2> HIDE DEF k
  <2> QED BY <2>1
<1>9. seqs \in Seq(Seq(Batch)) /\ Len(seqs) = k /\ seqs # <<>>
  <2> HIDE DEF k
  <2>1. \A i \in 1 .. k : BatchesOf(views[i], start) \in Seq(Batch)
    BY <1>1, <1>7 DEF Lists
  <2>2. seqs \in Seq(Seq(Batch)) /\ Len(seqs) = k
    BY <1>1, <2>1
  <2> HIDE DEF seqs
  <2> QED BY <1>1, <2>2
<1> HIDE DEF seqs, b, k
<1>10. Lists(FlattenSeq(seqs), b[1], b[Len(seqs) + 1])
  BY <1>6, <1>7, <1>9, FlattenLists
<1>11. FlattenSeq(seqs) = ReadFrom(start)
  BY DEF seqs, views, ReadFrom
<1> QED BY <1>8, <1>9, <1>10, <1>11

\* entries answers the entries of the range.
LEMMA EntriesAnswered ==
    ASSUME Intact, ~ Leftovers, NEW start \in 0 .. snapshot.leo, NEW end \in 0 .. snapshot.leo
    PROVE  entries(start, end) = VecLog!Entries(Entries, start, end)
<1> DEFINE leo == snapshot.leo
           batches == ReadFrom(start)
           read == {i \in 1 .. Len(batches) : \A j \in 1 .. i : batches[j].base < end}
           chosen == {i \in read : start <= batches[i].base}
           wanted == VecLog!Kept(batches, chosen)[Len(batches)]
           inside == {i \in 1 .. Len(Entries) :
                         start <= Entries[i].offset /\ Entries[i].offset < end}
           vec == VecLog!Kept(Entries, inside)[Len(Entries)]
           d == IF start < end THEN end - start ELSE 0
           a == IF start < end THEN start ELSE 0
<1>0. leo \in Nat
  BY IntactFacts
<1>1. start \in Nat /\ end \in Nat /\ end <= leo /\ d \in Nat /\ a \in Nat
  BY <1>0
<1>2. batches \in Seq(Batch) /\ Len(batches) \in Nat
  <2>1. batches \in Seq(Batch)
    BY <1>1, ReadType
  <2> HIDE DEF batches
  <2> QED BY <2>1
<1>3. /\ Entries \in Seq(VecEntry) /\ Len(Entries) = leo
      /\ \A i \in 1 .. leo :
            /\ Entries[i] = [epoch |-> EpochOf[history[i][1]], offset |-> i - 1,
                             data |-> history[i][1]]
            /\ Entries[i].offset = i - 1
  BY EntriesAre
<1>4. entries(start, end) = [i \in 1 .. Len(wanted) |-> LogEntry(wanted[i])]
  BY DEF entries, ReadFrom
<1>5. VecLog!Entries(Entries, start, end) = vec
  BY DEF VecLog!Entries
<1>6. start < end =>
         /\ Len(batches) = leo - start
         /\ \A j \in 1 .. leo - start :
               batches[j].base = start + j - 1 /\ batches[j].id = history[start + j][1]
  <2> SUFFICES ASSUME start < end
               PROVE  /\ Len(batches) = leo - start
                      /\ \A j \in 1 .. leo - start : /\ batches[j].base = start + j - 1
                                                      /\ batches[j].id = history[start + j][1]
    OBVIOUS
  <2>1. start < snapshot.leo
    BY <1>0, <1>1
  <2>2. Lists(ReadFrom(start), start, snapshot.leo)
    BY <1>1, <2>1, ReadLists
  <2> QED BY <2>2 DEF Lists
<1> HIDE DEF batches, leo
<1>7. d \in 0 .. Len(batches) /\ \A i \in 1 .. Len(batches) : i \in chosen <=> 0 < i /\ i <= d
  <2>1. CASE start < end
    <3>1. d = end - start /\ Len(batches) = leo - start
      BY <1>6, <2>1
    <3>2. \A i \in 1 .. Len(batches) : batches[i].base = start + i - 1
      BY <1>6, <2>1, <3>1
    <3>3. d \in 0 .. Len(batches)
      BY <1>0, <1>1, <2>1, <3>1
    <3>4. ASSUME NEW i \in 1 .. Len(batches) PROVE i \in chosen <=> 0 < i /\ i <= d
      <4>1. i \in Nat /\ 0 < i /\ start <= batches[i].base
        BY <1>1, <1>2, <3>2
      <4>2. ASSUME i <= d PROVE i \in read
        <5> SUFFICES ASSUME NEW j \in 1 .. i PROVE batches[j].base < end
          OBVIOUS
        <5>1. j \in 1 .. Len(batches) /\ j \in Nat /\ j <= d
          BY <1>1, <1>2, <4>1, <4>2
        <5>2. batches[j].base = start + j - 1
          BY <3>2, <5>1
        <5> HIDE DEF d
        <5> QED BY <1>1, <3>1, <5>1, <5>2
      <4>3. ASSUME i \in read PROVE i <= d
        <5>1. i \in 1 .. i /\ batches[i].base < end /\ batches[i].base = start + i - 1
          BY <3>2, <4>1, <4>3
        <5> HIDE DEF d
        <5> QED BY <1>1, <3>1, <4>1, <5>1
      <4> HIDE DEF read, d
      <4> QED BY <4>1, <4>2, <4>3
    <3> QED BY <3>3, <3>4
  <2>2. CASE ~ (start < end)
    <3>1. d = 0 /\ d \in 0 .. Len(batches)
      BY <1>2, <2>2
    <3>2. ASSUME NEW i \in chosen PROVE FALSE
      <4>1. i \in 1 .. Len(batches) /\ i \in 1 .. i
        BY <1>2
      <4>2. start <= batches[i].base /\ batches[i].base < end
        BY <4>1
      <4>3. batches[i].base \in Nat
        BY <1>2, <4>1, BatchAt
      <4> QED BY <1>1, <2>2, <4>2, <4>3
    <3>3. \A i \in 1 .. Len(batches) : ~ (0 < i /\ i <= d)
      BY <3>1
    <3> HIDE DEF chosen, d
    <3> QED BY <3>1, <3>2, <3>3
  <2> QED BY <2>1, <2>2
<1>8. /\ a + d \in a .. leo /\ a \in 0 .. leo
      /\ \A i \in 1 .. leo : i \in inside <=> a < i /\ i <= a + d
  <2>1. \A i \in 1 .. leo : i \in inside <=> start <= i - 1 /\ i - 1 < end
    BY <1>3
  <2> HIDE DEF inside
  <2>2. CASE start < end
    <3>1. a = start /\ d = end - start /\ a + d = end
      BY <1>1, <2>2
    <3> HIDE DEF a, d
    <3>2. a + d \in a .. leo /\ a \in 0 .. leo
      BY <1>0, <1>1, <2>2, <3>1
    <3>3. ASSUME NEW i \in 1 .. leo PROVE i \in inside <=> a < i /\ i <= a + d
      <4>1. i \in inside <=> start <= i - 1 /\ i - 1 < end
        BY <2>1
      <4>2. (start <= i - 1 <=> start < i) /\ (i - 1 < end <=> i <= end)
        BY <1>0, <1>1
      <4> QED BY <3>1, <4>1, <4>2
    <3> QED BY <3>2, <3>3
  <2>3. CASE ~ (start < end)
    <3>1. a = 0 /\ d = 0
      BY <2>3
    <3> HIDE DEF a, d
    <3>2. a + d \in a .. leo /\ a \in 0 .. leo
      BY <1>0, <3>1
    <3>3. ASSUME NEW i \in 1 .. leo PROVE i \in inside <=> a < i /\ i <= a + d
      <4>1. i \in inside <=> start <= i - 1 /\ i - 1 < end
        BY <2>1
      <4>2. ~ (start <= i - 1 /\ i - 1 < end)
        BY <1>0, <1>1, <2>3
      <4>3. ~ (a < i /\ i <= a + d)
        BY <1>0, <3>1
      <4> QED BY <4>1, <4>2, <4>3
    <3> QED BY <3>2, <3>3
  <2> QED BY <2>2, <2>3
<1>9. wanted \in Seq(Batch) /\ Len(wanted) = d /\ \A j \in 1 .. d : wanted[j] = batches[j]
  <2> HIDE DEF chosen, d
  <2>1. d - 0 = d /\ \A j \in 1 .. d : 0 + j = j
    BY <1>1
  <2>2. 0 \in 0 .. Len(batches) /\ d \in 0 .. Len(batches)
    BY <1>2, <1>7
  <2>3. \A i \in 1 .. Len(batches) : i \in chosen <=> 0 < i /\ i <= d
    BY <1>7
  <2>4. batches \in Seq(Batch)
    BY <1>2
  <2>5. /\ wanted \in Seq(Batch) /\ Len(wanted) = d - 0
        /\ \A j \in 1 .. d - 0 : wanted[j] = batches[0 + j]
    BY <2>2, <2>3, <2>4, KeptInterval
  <2> HIDE DEF wanted
  <2> QED BY <2>1, <2>5
<1>10. vec \in Seq(VecEntry) /\ Len(vec) = d /\ \A j \in 1 .. d : vec[j] = Entries[a + j]
  <2> DEFINE last == a + d
  <2> HIDE DEF inside, d, a
  <2>1. last - a = d
    BY <1>1
  <2>2. a \in 0 .. Len(Entries) /\ last \in a .. Len(Entries)
    BY <1>3, <1>8
  <2>3. \A i \in 1 .. Len(Entries) : i \in inside <=> a < i /\ i <= last
    BY <1>3, <1>8
  <2>4. Entries \in Seq(VecEntry)
    BY <1>3
  <2> HIDE DEF last
  <2>5. /\ vec \in Seq(VecEntry) /\ Len(vec) = last - a
        /\ \A j \in 1 .. last - a : vec[j] = Entries[a + j]
    BY <2>2, <2>3, <2>4, KeptInterval
  <2> HIDE DEF vec
  <2> QED BY <2>1, <2>5
<1>11. ASSUME NEW j \in 1 .. d PROVE LogEntry(wanted[j]) = vec[j]
  <2>1. start < end /\ d = end - start /\ a = start
    <3>1. start < end
      BY <1>1
    <3> QED BY <3>1
  <2> HIDE DEF d, a
  <2>2. j \in 1 .. leo - start /\ start + j \in 1 .. leo /\ start + j - 1 \in Nat
    BY <1>0, <1>1, <2>1
  <2>3. batches[j].base = start + j - 1 /\ batches[j].id = history[start + j][1]
    BY <1>6, <2>1, <2>2
  <2>4. wanted[j] = batches[j] /\ vec[j] = Entries[start + j]
    BY <1>9, <1>10, <2>1
  <2>5. Entries[start + j] = [epoch |-> EpochOf[history[start + j][1]],
                              offset |-> start + j - 1, data |-> history[start + j][1]]
    BY <1>3, <2>2
  <2> HIDE DEF wanted, vec
  <2> QED BY <2>3, <2>4, <2>5 DEF LogEntry
<1>12. vec = [j \in 1 .. d |-> vec[j]]
  <2> HIDE DEF vec, d
  <2> QED BY <1>10
<1>13. [j \in 1 .. d |-> LogEntry(wanted[j])] = [j \in 1 .. d |-> vec[j]]
  <2> HIDE DEF vec, d, wanted
  <2> QED BY <1>11
<1> HIDE DEF vec, wanted, d
<1> QED BY <1>4, <1>5, <1>9, <1>12, <1>13

\* find_epoch_start answers where an epoch of the log starts.
LEMMA EpochStartAnswered ==
    ASSUME Intact, ~ Leftovers, NEW epoch \in {Entries[i].epoch : i \in DOMAIN Entries}
    PROVE  find_epoch_start(epoch) = VecLog!FindEpochStart(Entries, epoch)
<1> DEFINE leo == snapshot.leo
           all == Everything
           mine == {i \in 1 .. Len(all) : EpochOf[all[i].id] = epoch}
           theirs == {i \in 1 .. Len(Entries) : Entries[i].epoch = epoch}
<1>1. /\ Entries \in Seq(VecEntry) /\ Len(Entries) = leo /\ leo \in Nat
      /\ \A i \in 1 .. leo :
            Entries[i].offset = i - 1 /\ Entries[i].epoch = EpochOf[history[i][1]]
  BY EntriesAre, IntactFacts
<1>2. /\ Len(all) = leo
      /\ \A i \in 1 .. leo : all[i].base = i - 1 /\ all[i].id = history[i][1]
  <2>1. Lists(all, 0, leo)
    BY EverythingLists
  <2> HIDE DEF all
  <2>2. /\ Len(all) = leo - 0
        /\ \A i \in 1 .. leo - 0 : all[i].base = 0 + i - 1 /\ all[i].id = history[0 + i][1]
    BY <2>1 DEF Lists
  <2>3. leo - 0 = leo /\ \A i \in 1 .. leo : 0 + i = i
    BY <1>1
  <2> QED BY <2>2, <2>3
<1>3. find_epoch_start(epoch) =
        LET i == IF mine # {} THEN Min(mine) ELSE 0
        IN  IF i = 0 THEN leo ELSE all[i].base
  BY DEF find_epoch_start, SelectInSeq
<1>4. VecLog!FindEpochStart(Entries, epoch) =
        LET i == IF theirs # {} THEN VecLog!Min(theirs) ELSE 0
        IN  IF i = 0 THEN 0 ELSE Entries[i].offset
  BY DEF VecLog!FindEpochStart, VecLog!SelectInSeq
<1> HIDE DEF all
<1>5. mine = theirs
  BY <1>1, <1>2
<1>6. theirs # {}
  <2>1. PICK i \in DOMAIN Entries : epoch = Entries[i].epoch
    OBVIOUS
  <2>2. DOMAIN Entries = 1 .. Len(Entries)
    BY <1>1
  <2> QED BY <2>1, <2>2
<1>7. theirs \subseteq 1 .. leo /\ theirs \subseteq Nat
  BY <1>1
<1> HIDE DEF mine, theirs
<1>8. Min(theirs) = VecLog!Min(theirs)
  BY DEF Min, VecLog!Min
<1>9. Min(theirs) \in 1 .. leo /\ Min(theirs) # 0
  <2>1. Min(theirs) \in theirs
    BY <1>6, <1>7, MinNat
  <2>2. Min(theirs) \in 1 .. leo
    BY <1>7, <2>1
  <2> HIDE DEF leo
  <2> QED BY <1>1, <2>2
<1> QED BY <1>1, <1>2, <1>3, <1>4, <1>5, <1>6, <1>8, <1>9

-----------------------------------------------------------------------------
(* The last epoch *)

\* The recursive function of last_epoch, and the equation it satisfies.
EpochsSeen(s) ==
    LET seen[i \in 0 .. Len(s)] ==
            IF i = 0 THEN [prev |-> 0, curr |-> 0]
            ELSE LET before == seen[i - 1]
                     epoch == EpochOf[s[i].id]
                 IN  IF epoch = before.curr THEN before
                     ELSE [prev |-> before.curr, curr |-> epoch]
    IN  seen

SeenNext(before, epoch) ==
    IF epoch = before.curr THEN before ELSE [prev |-> before.curr, curr |-> epoch]

SeenStep(f, s) ==
    [i \in 0 .. Len(s) |->
        IF i = 0 THEN [prev |-> 0, curr |-> 0]
        ELSE SeenNext(f[i - 1], EpochOf[s[i].id])]

LEMMA SeenDef ==
    ASSUME NEW s \in Seq(Batch), NEW E, 0 \in E,
           \A i \in 1 .. Len(s) : EpochOf[s[i].id] \in E
    PROVE  EpochsSeen(s) = SeenStep(EpochsSeen(s), s)
<1> DEFINE V == [prev : E, curr : E]
           n == Len(s)
           a == [prev |-> 0, curr |-> 0]
           step == [at \in V \X (1 .. n) |-> SeenNext(at[1], EpochOf[s[at[2]].id])]
<1>1. n \in Nat /\ a \in V
  OBVIOUS
<1>2. step \in [V \X (1 .. n) -> V]
  <2>1. ASSUME NEW v \in V, NEW i \in 1 .. n PROVE SeenNext(v, EpochOf[s[i].id]) \in V
    <3>1. v.curr \in E /\ EpochOf[s[i].id] \in E
      OBVIOUS
    <3> QED BY <3>1 DEF SeenNext
  <2>2. \A at \in V \X (1 .. n) : at[1] \in V /\ at[2] \in 1 .. n
    OBVIOUS
  <2> HIDE DEF V, n
  <2> QED BY <2>1, <2>2
<1>3. \A v \in V, i \in 1 .. n : step[<<v, i>>] = SeenNext(v, EpochOf[s[i].id])
  <2> HIDE DEF V, n
  <2> QED OBVIOUS
<1> HIDE DEF step, V, a
<1>4. PICK f \in Iterates(V, a, n, step) : TRUE
  <2>1. Iterates(V, a, n, step) # {}
    BY <1>1, <1>2, IteratesExist
  <2> QED BY <2>1
<1>5. /\ f \in [0 .. n -> V] /\ f[0] = a
      /\ \A i \in 1 .. n : f[i] = step[<<f[i - 1], i>>]
  BY <1>4 DEF Iterates
<1>6. \A i \in 1 .. n : f[i] = SeenNext(f[i - 1], EpochOf[s[i].id])
  <2> TAKE i \in 1 .. n
  <2>1. i - 1 \in 0 .. n
    BY <1>1
  <2>2. f[i - 1] \in V
    BY <1>5, <2>1
  <2> HIDE DEF n
  <2> QED BY <1>3, <1>5, <2>2
<1>7. f = SeenStep(f, s)
  <2>1. \A i \in 0 .. n : i # 0 => i \in 1 .. n
    BY <1>1
  <2>2. \A i \in 0 .. n : f[i] = IF i = 0 THEN a ELSE SeenNext(f[i - 1], EpochOf[s[i].id])
    BY <1>5, <1>6, <2>1
  <2> QED BY <1>5, <2>2 DEF SeenStep, a
<1>8. \E g : g = SeenStep(g, s)
  BY <1>7
<1> QED BY <1>8 DEF EpochsSeen, SeenStep, SeenNext

\* After a list of batches: the epoch of the last, and the one before the last change.
LEMMA SeenMet ==
    ASSUME NEW s \in Seq(Batch), s # <<>>
    PROVE  LET k == EpochsSeen(s)[Len(s)]
               last == EpochOf[s[Len(s)].id]
           IN  \/ k.prev = 0 /\ \A j \in 1 .. Len(s) : EpochOf[s[j].id] = last
               \/ \E m \in 1 .. Len(s) :
                     /\ k.prev = EpochOf[s[m].id] /\ k.prev # last
                     /\ \A j \in m + 1 .. Len(s) : EpochOf[s[j].id] = last
<1> DEFINE k == EpochsSeen(s)
           n == Len(s)
           ep(i) == EpochOf[s[i].id]
           Good(i) == /\ k[i].curr = ep(i)
                      /\ \/ k[i].prev = 0 /\ \A j \in 1 .. i : ep(j) = ep(i)
                         \/ \E m \in 1 .. i :
                               /\ k[i].prev = ep(m) /\ k[i].prev # ep(i)
                               /\ \A j \in m + 1 .. i : ep(j) = ep(i)
           Bad == {i \in 1 .. n : ~ Good(i)}
<1>0. n \in Nat /\ n # 0
  OBVIOUS
<1>1. \A i \in 1 .. n : ep(i) \in Nat \ {0}
  <2> TAKE i \in 1 .. n
  <2>1. s[i] \in Batch
    BY ElementOfSeq
  <2> QED BY <2>1, EntryAssumption DEF Batch
<1>2. /\ k[0] = [prev |-> 0, curr |-> 0]
      /\ \A i \in 1 .. n : k[i] = SeenNext(k[i - 1], ep(i))
  <2>1. k = SeenStep(k, s)
    <3>1. 0 \in Nat /\ \A i \in 1 .. Len(s) : EpochOf[s[i].id] \in Nat
      BY <1>1
    <3> HIDE DEF ep
    <3> QED BY <3>1, SeenDef
  <2> HIDE DEF k
  <2>2. \A i \in 0 .. n :
           k[i] = IF i = 0 THEN [prev |-> 0, curr |-> 0] ELSE SeenNext(k[i - 1], ep(i))
    BY <2>1 DEF SeenStep
  <2>3. 0 \in 0 .. n /\ \A i \in 1 .. n : i \in 0 .. n /\ i # 0
    BY <1>0
  <2> QED BY <2>2, <2>3
<1> HIDE DEF k, n, ep
<1>3. Good(1)
  <2>1. 1 \in 1 .. n /\ 1 - 1 = 0
    BY <1>0
  <2>2. ep(1) # 0
    BY <1>1, <2>1
  <2>3. k[1] = [prev |-> 0, curr |-> ep(1)]
    BY <1>2, <2>1, <2>2 DEF SeenNext
  <2> QED BY <2>3
<1>4. ASSUME NEW i \in 1 .. n, i # 1, Good(i - 1) PROVE Good(i)
  <2>1. /\ i - 1 \in 1 .. i /\ i - 1 \in 1 .. n /\ i \in Nat
        /\ \A j \in 1 .. i : j \in 1 .. i - 1 \/ j = i
        /\ \A j \in (i - 1) + 1 .. i : j = i
    BY <1>0, <1>4
  <2>2. k[i] = SeenNext(k[i - 1], ep(i)) /\ k[i - 1].curr = ep(i - 1)
    BY <1>2, <1>4
  <2>3. CASE ep(i) = ep(i - 1)
    <3>1. k[i] = k[i - 1]
      BY <2>2, <2>3 DEF SeenNext
    <3>2. CASE k[i - 1].prev = 0 /\ \A j \in 1 .. i - 1 : ep(j) = ep(i - 1)
      BY <2>1, <2>2, <2>3, <3>1, <3>2
    <3>3. ASSUME NEW m \in 1 .. i - 1,
                 k[i - 1].prev = ep(m), k[i - 1].prev # ep(i - 1),
                 \A j \in m + 1 .. i - 1 : ep(j) = ep(i - 1)
          PROVE  Good(i)
      <4>1. m \in 1 .. i /\ \A j \in m + 1 .. i : j \in m + 1 .. i - 1 \/ j = i
        BY <2>1
      <4>2. \A j \in m + 1 .. i : ep(j) = ep(i)
        BY <2>3, <3>3, <4>1
      <4> QED BY <2>2, <2>3, <3>1, <3>3, <4>1, <4>2
    <3> QED BY <1>4, <3>2, <3>3
  <2>4. CASE ep(i) # ep(i - 1)
    <3>1. k[i] = [prev |-> ep(i - 1), curr |-> ep(i)]
      BY <2>2, <2>4 DEF SeenNext
    <3>2. k[i].prev = ep(i - 1) /\ k[i].curr = ep(i)
      BY <3>1
    <3>3. \A j \in (i - 1) + 1 .. i : ep(j) = ep(i)
      BY <2>1
    <3> QED BY <2>1, <2>4, <3>2, <3>3
  <2> QED BY <2>3, <2>4
<1>5. Bad = {}
  <2>1. SUFFICES ASSUME Bad # {} PROVE FALSE
    OBVIOUS
  <2>2. PICK i \in Bad : \A j \in Bad : i <= j
    <3>1. Bad \subseteq Nat
      BY <1>0
    <3> HIDE DEF Bad
    <3> QED BY <2>1, <3>1, LeastNat
  <2>3. i \in 1 .. n /\ ~ Good(i)
    BY <2>2
  <2> HIDE DEF Good
  <2>4. i # 1
    BY <1>3, <2>3
  <2>5. i - 1 \in 1 .. n /\ ~ (i <= i - 1)
    BY <1>0, <2>3, <2>4
  <2>6. Good(i - 1)
    BY <2>2, <2>5
  <2> QED BY <1>4, <2>3, <2>4, <2>6
<1>6. Good(n)
  <2>1. n \in 1 .. n
    BY <1>0
  <2> HIDE DEF Good
  <2> QED BY <1>5, <2>1
<1> QED BY <1>6 DEF k, n, ep

\* last_epoch names the epoch before the last change.
LEMMA LastAnswered ==
    ASSUME Intact, ~ Leftovers
    PROVE  IsEpochBeforeLast(Entries, last_epoch)
<1> DEFINE leo == snapshot.leo
           all == Everything
           last == VecLog!LastEpoch(Entries)
           ep(i) == EpochOf[all[i].id]
<1>1. /\ Entries \in Seq(VecEntry) /\ Len(Entries) = leo /\ leo \in Nat
      /\ DOMAIN Entries = 1 .. leo
      /\ \A i \in 1 .. leo : Entries[i].epoch = EpochOf[history[i][1]]
  <2>1. /\ Entries \in Seq(VecEntry) /\ Len(Entries) = leo /\ leo \in Nat
        /\ \A i \in 1 .. leo : Entries[i].epoch = EpochOf[history[i][1]]
    BY EntriesAre, IntactFacts
  <2>2. DOMAIN Entries = 1 .. Len(Entries)
    BY <2>1, LenProperties
  <2> QED BY <2>1, <2>2
<1>2. /\ all \in Seq(Batch) /\ Len(all) = leo
      /\ \A i \in 1 .. leo : all[i].id = history[i][1]
  <2>1. Lists(all, 0, leo)
    BY EverythingLists
  <2> HIDE DEF all
  <2>2. /\ all \in Seq(Batch) /\ Len(all) = leo - 0
        /\ \A i \in 1 .. leo - 0 : all[i].id = history[0 + i][1]
    BY <2>1 DEF Lists
  <2>3. leo - 0 = leo /\ \A i \in 1 .. leo : 0 + i = i
    BY <1>1
  <2> QED BY <2>2, <2>3
<1>3. last_epoch = EpochsSeen(all)[leo].prev
  BY <1>2 DEF last_epoch, EpochsSeen
<1>4. \A i \in 1 .. leo : Entries[i].epoch = ep(i)
  BY <1>1, <1>2
<1> HIDE DEF all, ep, leo
<1>5. CASE leo = 0
  <2>1. last_epoch = 0
    <3>1. 0 \in Nat /\ \A i \in 1 .. Len(all) : EpochOf[all[i].id] \in Nat
      BY <1>2, <1>5
    <3>2. EpochsSeen(all) = SeenStep(EpochsSeen(all), all)
      BY <1>2, <3>1, SeenDef
    <3>3. EpochsSeen(all)[0] = [prev |-> 0, curr |-> 0]
      <4>1. 0 \in 0 .. Len(all)
        BY <1>2, <1>5
      <4>2. SeenStep(EpochsSeen(all), all)[0] = [prev |-> 0, curr |-> 0]
        BY <4>1 DEF SeenStep
      <4> QED BY <3>2, <4>2
    <3> QED BY <1>3, <1>5, <3>3
  <2>2. DOMAIN Entries = {}
    BY <1>1, <1>5
  <2> QED BY <2>1, <2>2 DEF IsEpochBeforeLast
<1>6. CASE leo # 0
  <2>1. all # <<>> /\ leo \in 1 .. leo
    BY <1>1, <1>2, <1>6
  <2>2. last = ep(leo)
    <3>0. Entries # <<>>
      <4> HIDE DEF last
      <4> QED BY <1>1, <1>6
    <3>1. VecLog!LastEpoch(Entries) = Entries[leo].epoch
      <4>1. Last(Entries) = Entries[leo]
        BY <1>1 DEF Last
      <4> HIDE DEF last
      <4> QED BY <3>0, <4>1 DEF VecLog!LastEpoch, VecLog!Last, Last
    <3> QED BY <1>4, <2>1, <3>1
  <2> HIDE DEF last
  <2>3. \/ last_epoch = 0 /\ \A j \in 1 .. leo : ep(j) = ep(leo)
        \/ \E m \in 1 .. leo :
              /\ last_epoch = ep(m) /\ last_epoch # ep(leo)
              /\ \A j \in m + 1 .. leo : ep(j) = ep(leo)
    BY <1>2, <1>3, <2>1, SeenMet DEF ep
  <2>4. CASE last_epoch = 0 /\ \A j \in 1 .. leo : ep(j) = ep(leo)
    BY <1>1, <1>4, <2>2, <2>4 DEF IsEpochBeforeLast, last
  <2>5. ASSUME NEW m \in 1 .. leo, last_epoch = ep(m), last_epoch # ep(leo),
               \A j \in m + 1 .. leo : ep(j) = ep(leo)
        PROVE  IsEpochBeforeLast(Entries, last_epoch)
    <3>1. m \in DOMAIN Entries /\ Entries[m].epoch = last_epoch /\ last_epoch # last
      BY <1>1, <1>4, <2>2, <2>5
    <3>2. \A j \in m + 1 .. Len(Entries) : j \in 1 .. leo /\ j \in m + 1 .. leo
      BY <1>1
    <3>3. \A j \in m + 1 .. Len(Entries) : Entries[j].epoch = last
      BY <1>4, <2>2, <2>5, <3>2
    <3> QED BY <3>1, <3>3 DEF IsEpochBeforeLast, last
  <2> QED BY <2>3, <2>4, <2>5
<1> QED BY <1>5, <1>6

-----------------------------------------------------------------------------
(* Answering as VecLog *)

\* Unless it is damaged, the log of a voter answers every read as the reference
\* implementation of RaftLog does: what the quorum is checked over is what a
\* partition gives it (crates/storage, partition/raft.rs).
THEOREM AnswersLikeVecLogHolds == RaftSpec => []AnswersLikeVecLog
<1>1. PartitionInv /\ Sound => AnswersLikeVecLog
  <2> SUFFICES ASSUME PartitionInv, Sound, up, ~ Damaged
               PROVE  AnswersLikeVecLog
    BY DEF AnswersLikeVecLog
  <2>1. Intact
    BY DEF Intact
  <2>2. \A offset \in 0 .. snapshot.leo - 1 :
           epoch_at(offset) = VecLog!EpochAt(Entries, offset)
    <3> TAKE offset \in 0 .. snapshot.leo - 1
    <3>1. snapshot.leo \in Nat
      BY <2>1, IntactFacts
    <3>2. offset \in Nat /\ offset < snapshot.leo
      BY <3>1
    <3> QED BY <2>1, <3>2, EpochAnswered
  <2>3. log_end_offset = VecLog!LogEndOffset(Entries)
    BY <2>1, EndAnswered
  <2>4. ~ Leftovers =>
           /\ \A start, end \in 0 .. snapshot.leo :
                 entries(start, end) = VecLog!Entries(Entries, start, end)
           /\ \A epoch \in {Entries[i].epoch : i \in DOMAIN Entries} :
                 find_epoch_start(epoch) = VecLog!FindEpochStart(Entries, epoch)
           /\ IsEpochBeforeLast(Entries, last_epoch)
    <3> SUFFICES ASSUME ~ Leftovers
                 PROVE  /\ \A start, end \in 0 .. snapshot.leo :
                              entries(start, end) = VecLog!Entries(Entries, start, end)
                        /\ \A epoch \in {Entries[i].epoch : i \in DOMAIN Entries} :
                              find_epoch_start(epoch) =
                                  VecLog!FindEpochStart(Entries, epoch)
                        /\ IsEpochBeforeLast(Entries, last_epoch)
      OBVIOUS
    <3>1. \A start, end \in 0 .. snapshot.leo :
             entries(start, end) = VecLog!Entries(Entries, start, end)
      BY <2>1, EntriesAnswered
    <3>2. \A epoch \in {Entries[i].epoch : i \in DOMAIN Entries} :
             find_epoch_start(epoch) = VecLog!FindEpochStart(Entries, epoch)
      BY <2>1, EpochStartAnswered
    <3>3. IsEpochBeforeLast(Entries, last_epoch)
      BY <2>1, LastAnswered
    <3> QED BY <3>1, <3>2, <3>3
  <2> QED BY <2>2, <2>3, <2>4 DEF AnswersLikeVecLog
<1> QED BY <1>1, ImplementsPartition, InvariantHolds, SoundHolds, PTL

=============================================================================
