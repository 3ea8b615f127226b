-------------------------- MODULE PartitionProofs --------------------------
(***************************************************************************)
(* Proofs about Partition and PartitionProperties.                         *)
(***************************************************************************)
EXTENDS PartitionProperties, NaturalSets, SequenceTheorems

-----------------------------------------------------------------------------
(* Recursive functions *)

\* The sequence of values that starts at a and goes on by the step.
Iterates(V, a, n, step) ==
    {f \in [0 .. n -> V] :
        /\ f[0] = a
        /\ \A i \in 1 .. n : f[i] = step[<<f[i - 1], i>>]}

\* A value and a step define a sequence of values: a first index at which they
\* do not would come after one at which they do.
LEMMA IteratesExist ==
    ASSUME NEW V, NEW a \in V, NEW n \in Nat, NEW step \in [V \X (1 .. n) -> V]
    PROVE  Iterates(V, a, n, step) # {}
<1> DEFINE Good(m) == \E f \in [0 .. m -> V] :
                          /\ f[0] = a
                          /\ \A i \in 1 .. m : f[i] = step[<<f[i - 1], i>>]
           Bad == {m \in 0 .. n : ~ Good(m)}
<1>1. SUFFICES ASSUME Bad # {} PROVE FALSE
  <2>1. n \notin Bad => Good(n)
    OBVIOUS
  <2> QED BY <2>1 DEF Iterates
<1>2. PICK m \in Bad : \A k \in Bad : m <= k
  <2>1. Bad \subseteq Nat
    OBVIOUS
  <2> HIDE DEF Bad
  <2> QED BY <1>1, <2>1, LeastNat
<1>3. m # 0
  <2>1. [i \in 0 .. 0 |-> a] \in [0 .. 0 -> V] /\ 1 .. 0 = {}
    OBVIOUS
  <2> DEFINE f == [i \in 0 .. 0 |-> a]
  <2>2. f[0] = a /\ \A i \in 1 .. 0 : f[i] = step[<<f[i - 1], i>>]
    BY <2>1
  <2>3. Good(0)
    <3> HIDE DEF f
    <3>1. f \in [0 .. 0 -> V]
      BY <2>1 DEF f
    <3> QED BY <2>2, <3>1
  <2> QED BY <1>2, <2>3
<1>4. m - 1 \in 0 .. n /\ m \in 1 .. n /\ ~ (m <= m - 1)
  BY <1>2, <1>3
<1>5. Good(m - 1)
  <2>1. m - 1 \notin Bad
    <3> HIDE DEF Bad
    <3> QED BY <1>2, <1>4
  <2> QED BY <1>4, <2>1
<1>6. PICK f \in [0 .. m - 1 -> V] :
          f[0] = a /\ \A i \in 1 .. m - 1 : f[i] = step[<<f[i - 1], i>>]
  BY <1>5
<1> DEFINE g == [i \in 0 .. m |-> IF i = m THEN step[<<f[m - 1], m>>] ELSE f[i]]
<1>7. m - 1 \in 0 .. m - 1 /\ f[m - 1] \in V
  BY <1>4, <1>6
<1>8. \A i \in 0 .. m : i # m => i \in 0 .. m - 1
  BY <1>4
<1>9. g \in [0 .. m -> V]
  <2>1. step[<<f[m - 1], m>>] \in V
    BY <1>4, <1>7
  <2> QED BY <1>6, <1>8, <2>1
<1>10. g[0] = a
  BY <1>3, <1>4, <1>6
<1>11. \A i \in 1 .. m : g[i] = step[<<g[i - 1], i>>]
  <2> TAKE i \in 1 .. m
  <2>1. i \in 0 .. m /\ i - 1 \in 0 .. m /\ i - 1 # m
    BY <1>4
  <2>2. g[i - 1] = f[i - 1]
    BY <2>1
  <2>3. CASE i = m
    BY <2>1, <2>2, <2>3
  <2>4. CASE i # m
    <3>1. i \in 1 .. m - 1 /\ g[i] = f[i]
      BY <1>4, <2>1, <2>4
    <3>2. f[i] = step[<<f[i - 1], i>>]
      BY <1>6, <3>1
    <3> QED BY <2>2, <3>1, <3>2
  <2> QED BY <2>3, <2>4
<1>12. Good(m)
  BY <1>9, <1>10, <1>11
<1> QED BY <1>2, <1>12

-----------------------------------------------------------------------------
(* Counting records *)

\* The equation of the function by which RecordsCount recurses.
TotalStep(f, data) ==
    [i \in 0 .. Len(data) |-> IF i = 0 THEN 0 ELSE f[i - 1] + Count[data[i].id]]

Total(data) == CHOOSE f : f = TotalStep(f, data)

\* The batches of a file have counts.
LEMMA CountType ==
    ASSUME NEW b \in Batch
    PROVE  Count[b.id] \in Nat /\ Count[b.id] > 0
BY BatchAssumption DEF Batch

LEMMA TotalDef ==
    ASSUME NEW data \in Seq(Batch)
    PROVE  /\ Total(data) = TotalStep(Total(data), data)
           /\ RecordsCount(data) = Total(data)[Len(data)]
<1> DEFINE n == Len(data)
           step == [p \in Nat \X (1 .. n) |-> p[1] + Count[data[p[2]].id]]
<1>1. n \in Nat
  OBVIOUS
<1>2. \A i \in 1 .. n : data[i] \in Batch
  OBVIOUS
<1>3. step \in [Nat \X (1 .. n) -> Nat]
  <2>1. \A p \in Nat \X (1 .. n) : p[1] + Count[data[p[2]].id] \in Nat
    <3> TAKE p \in Nat \X (1 .. n)
    <3>1. p[1] \in Nat /\ p[2] \in 1 .. n
      OBVIOUS
    <3>2. Count[data[p[2]].id] \in Nat
      BY <1>2, <3>1, CountType
    <3> QED BY <3>1, <3>2
  <2> QED BY <2>1
<1>4. PICK f \in [0 .. n -> Nat] :
          f[0] = 0 /\ \A i \in 1 .. n : f[i] = step[<<f[i - 1], i>>]
  <2>1. 0 \in Nat
    OBVIOUS
  <2> HIDE DEF n, step
  <2>2. Iterates(Nat, 0, n, step) # {}
    BY <1>1, <1>3, <2>1, IteratesExist
  <2> QED BY <2>2 DEF Iterates
<1>5. \A i \in 1 .. n : f[i] = f[i - 1] + Count[data[i].id]
  <2> TAKE i \in 1 .. n
  <2>1. i - 1 \in 0 .. n
    OBVIOUS
  <2>2. f[i - 1] \in Nat
    BY <1>4, <2>1
  <2>3. f[i] = step[<<f[i - 1], i>>]
    BY <1>4
  <2>4. <<f[i - 1], i>> \in Nat \X (1 .. n)
    BY <2>2
  <2> QED BY <2>3, <2>4
<1>6. f = TotalStep(f, data)
  <2>1. \A i \in 0 .. n : f[i] = IF i = 0 THEN 0 ELSE f[i - 1] + Count[data[i].id]
    <3> TAKE i \in 0 .. n
    <3>1. i # 0 => i \in 1 .. n
      OBVIOUS
    <3> HIDE DEF n, step
    <3> QED BY <1>4, <1>5, <3>1
  <2> QED BY <1>4, <2>1 DEF TotalStep
<1>7. Total(data) = TotalStep(Total(data), data)
  <2>1. \E g : g = TotalStep(g, data)
    BY <1>6
  <2> QED BY <2>1 DEF Total
<1>8. RecordsCount(data) = Total(data)[Len(data)]
  BY DEF RecordsCount, Total, TotalStep
<1> QED BY <1>7, <1>8

LEMMA TotalValues ==
    ASSUME NEW data \in Seq(Batch)
    PROVE  /\ Total(data)[0] = 0
           /\ \A i \in 1 .. Len(data) :
                 Total(data)[i] = Total(data)[i - 1] + Count[data[i].id]
<1> DEFINE f == Total(data)
<1>1. f = TotalStep(f, data)
  BY TotalDef
<1> HIDE DEF f
<1>2. \A i \in 0 .. Len(data) : f[i] = IF i = 0 THEN 0 ELSE f[i - 1] + Count[data[i].id]
  BY <1>1 DEF TotalStep
<1>3. 0 \in 0 .. Len(data) /\ \A i \in 1 .. Len(data) : i \in 0 .. Len(data) /\ i # 0
  OBVIOUS
<1>4. f[0] = 0 /\ \A i \in 1 .. Len(data) : f[i] = f[i - 1] + Count[data[i].id]
  BY <1>2, <1>3
<1> QED BY <1>4 DEF f

LEMMA TotalType ==
    ASSUME NEW data \in Seq(Batch), NEW n \in 0 .. Len(data)
    PROVE  Total(data)[n] \in Nat
<1> DEFINE f == Total(data)
           Bad == {i \in 0 .. Len(data) : f[i] \notin Nat}
<1>1. SUFFICES ASSUME Bad # {} PROVE FALSE
  OBVIOUS
<1>2. PICK i \in Bad : \A j \in Bad : i <= j
  <2>1. Bad \subseteq Nat
    OBVIOUS
  <2> HIDE DEF Bad
  <2> QED BY <1>1, <2>1, LeastNat
<1>3. i # 0
  BY <1>2, TotalValues
<1>4. i - 1 \in 0 .. Len(data) /\ i \in 1 .. Len(data) /\ f[i - 1] \in Nat
  BY <1>2, <1>3
<1>5. f[i] = f[i - 1] + Count[data[i].id]
  BY <1>4, TotalValues
<1>6. Count[data[i].id] \in Nat
  BY <1>4, CountType
<1> QED BY <1>2, <1>4, <1>5, <1>6

LEMMA RecordsCountType ==
    ASSUME NEW data \in Seq(Batch)
    PROVE  RecordsCount(data) \in Nat
BY TotalType, TotalDef

\* Files that begin with the same batches begin with the same counts.
LEMMA TotalAgrees ==
    ASSUME NEW data \in Seq(Batch), NEW other \in Seq(Batch),
           NEW n \in 0 .. Len(data), n <= Len(other),
           \A i \in 1 .. n : data[i] = other[i]
    PROVE  Total(data)[n] = Total(other)[n]
<1> DEFINE f == Total(data)
           g == Total(other)
           Bad == {i \in 0 .. n : f[i] # g[i]}
<1>1. SUFFICES ASSUME Bad # {} PROVE FALSE
  OBVIOUS
<1>2. PICK i \in Bad : \A j \in Bad : i <= j
  <2>1. Bad \subseteq Nat
    OBVIOUS
  <2> HIDE DEF Bad
  <2> QED BY <1>1, <2>1, LeastNat
<1>3. i # 0
  BY <1>2, TotalValues
<1>4. i - 1 \in 0 .. n /\ f[i - 1] = g[i - 1]
  BY <1>2, <1>3
<1>5. i \in 1 .. Len(data) /\ i \in 1 .. Len(other) /\ i \in 1 .. n
  BY <1>2, <1>3
<1>6. f[i] = f[i - 1] + Count[data[i].id] /\ g[i] = g[i - 1] + Count[other[i].id]
  BY <1>5, TotalValues
<1> QED BY <1>2, <1>4, <1>5, <1>6

LEMMA EmptyCount == RecordsCount(<<>>) = 0
<1>1. <<>> \in Seq(Batch) /\ Len(<<>>) = 0
  OBVIOUS
<1> QED BY <1>1, TotalDef, TotalValues

LEMMA AppendCount ==
    ASSUME NEW data \in Seq(Batch), NEW b \in Batch
    PROVE  RecordsCount(Append(data, b)) = RecordsCount(data) + Count[b.id]
<1> DEFINE more == Append(data, b)
           n == Len(data)
<1>1. /\ more \in Seq(Batch)
      /\ Len(more) = n + 1
      /\ more[n + 1] = b
      /\ \A i \in 1 .. n : data[i] = more[i]
      /\ n \in 0 .. n
      /\ n + 1 \in 1 .. Len(more)
      /\ n <= Len(more)
  OBVIOUS
<1>2. Total(data)[n] = Total(more)[n]
  <2> HIDE DEF more
  <2> QED BY <1>1, TotalAgrees
<1>3. Total(more)[n + 1] = Total(more)[(n + 1) - 1] + Count[b.id]
  <2> HIDE DEF more
  <2> QED BY <1>1, TotalValues
<1>4. RecordsCount(data) = Total(data)[n] /\ RecordsCount(more) = Total(more)[n + 1]
  <2> HIDE DEF more
  <2> QED BY <1>1, TotalDef
<1>5. (n + 1) - 1 = n
  OBVIOUS
<1> QED BY <1>2, <1>3, <1>4, <1>5

\* A batch that replaces another adds at most its own records.
LEMMA ReplaceCount ==
    ASSUME NEW data \in Seq(Batch), NEW b \in Batch, NEW k \in 1 .. Len(data)
    PROVE  RecordsCount([data EXCEPT ![k] = b]) <= RecordsCount(data) + Count[b.id]
<1> DEFINE other == [data EXCEPT ![k] = b]
           f == Total(data)
           g == Total(other)
           Bad == {i \in 0 .. Len(data) : ~ (g[i] <= f[i] + IF i < k THEN 0 ELSE Count[b.id])}
<1>1. /\ other \in Seq(Batch)
      /\ Len(other) = Len(data)
      /\ \A i \in 1 .. Len(data) : other[i] = IF i = k THEN b ELSE data[i]
  OBVIOUS
<1>2. Count[b.id] \in Nat
  BY CountType
<1>3. Bad = {}
  <2>1. SUFFICES ASSUME Bad # {} PROVE FALSE
    OBVIOUS
  <2>2. PICK i \in Bad : \A j \in Bad : i <= j
    <3>1. Bad \subseteq Nat
      OBVIOUS
    <3> HIDE DEF Bad
    <3> QED BY <2>1, <3>1, LeastNat
  <2>3. g[0] = 0 /\ f[0] = 0
    <3> HIDE DEF other
    <3> QED BY <1>1, TotalValues
  <2>4. i # 0
    BY <2>2, <2>3
  <2>5. i \in 1 .. Len(data) /\ i - 1 \in 0 .. Len(data) /\ i \in 0 .. Len(data)
    BY <2>2, <2>4
  <2>6. g[i - 1] <= f[i - 1] + IF i - 1 < k THEN 0 ELSE Count[b.id]
    <3>1. i - 1 \notin Bad
      <4>1. ~ (i <= i - 1)
        BY <2>5
      <4> HIDE DEF Bad
      <4> QED BY <2>2, <4>1
    <3> QED BY <2>5, <3>1
  <2>7. f[i] = f[i - 1] + Count[data[i].id] /\ g[i] = g[i - 1] + Count[other[i].id]
    <3> HIDE DEF other
    <3> QED BY <1>1, <2>5, TotalValues
  <2>8. f[i - 1] \in Nat /\ g[i - 1] \in Nat /\ f[i] \in Nat /\ g[i] \in Nat
    <3> HIDE DEF other
    <3> QED BY <1>1, <2>5, TotalType
  <2>9. Count[data[i].id] \in Nat
    BY <2>5, CountType
  <2>10. ~ (g[i] <= f[i] + IF i < k THEN 0 ELSE Count[b.id])
    BY <2>2
  <2>11. other[i] = IF i = k THEN b ELSE data[i]
    BY <1>1, <2>5
  <2> HIDE DEF f, g, Bad, other
  <2>12. CASE i = k
    BY <1>2, <2>5, <2>6, <2>7, <2>8, <2>9, <2>10, <2>11, <2>12, SMTT(30)
  <2>13. CASE i < k
    <3>1. i - 1 < k /\ other[i] = data[i]
      BY <2>5, <2>11, <2>13
    <3>2. g[i - 1] <= f[i - 1]
      BY <2>6, <2>8, <3>1
    <3> QED BY <2>7, <2>8, <2>9, <2>10, <2>13, <3>1, <3>2
  <2>14. CASE i > k
    <3>1. ~ (i - 1 < k) /\ ~ (i < k) /\ other[i] = data[i]
      BY <2>5, <2>11, <2>14
    <3>2. g[i - 1] <= f[i - 1] + Count[b.id]
      BY <2>6, <3>1
    <3>3. g[i - 1] + Count[data[i].id] <= f[i - 1] + Count[b.id] + Count[data[i].id]
      BY <1>2, <2>8, <2>9, <3>2, SMTT(30)
    <3>4. ~ (g[i] <= f[i] + Count[b.id])
      BY <2>10, <3>1
    <3> QED BY <1>2, <2>7, <2>8, <2>9, <3>1, <3>3, <3>4, SMTT(30)
  <2>15. i \in Int /\ k \in Int
    BY <2>5
  <2> QED BY <2>12, <2>13, <2>14, <2>15
<1>4. g[Len(data)] <= f[Len(data)] + Count[b.id]
  <2>1. Len(data) \in 0 .. Len(data) /\ ~ (Len(data) < k)
    OBVIOUS
  <2>2. Len(data) \notin Bad
    <3> HIDE DEF Bad
    <3> QED BY <1>3
  <2> HIDE DEF f, g
  <2> QED BY <2>1, <2>2
<1>5. RecordsCount(data) = f[Len(data)] /\ RecordsCount(other) = g[Len(data)]
  <2> HIDE DEF other
  <2> QED BY <1>1, TotalDef
<1> QED BY <1>4, <1>5

\* The first batch of a file counts.
LEMMA CountPositive ==
    ASSUME NEW data \in Seq(Batch), data # <<>>
    PROVE  RecordsCount(data) > 0
<1> DEFINE n == Len(data)
<1>1. n \in 1 .. Len(data) /\ n - 1 \in 0 .. Len(data)
  OBVIOUS
<1>2. Total(data)[n] = Total(data)[n - 1] + Count[data[n].id]
  BY <1>1, TotalValues
<1>3. Total(data)[n - 1] \in Nat /\ Count[data[n].id] \in Nat /\ Count[data[n].id] > 0
  BY <1>1, TotalType, CountType
<1>4. RecordsCount(data) = Total(data)[n]
  BY TotalDef
<1> QED BY <1>2, <1>3, <1>4

-----------------------------------------------------------------------------
(* Concatenating *)

FlattenStep(f, seqs) ==
    [i \in 1 .. Len(seqs) |-> IF i = 1 THEN seqs[i] ELSE f[i - 1] \o seqs[i]]

Flattened(seqs) == CHOOSE f : f = FlattenStep(f, seqs)

LEMMA FlattenDef ==
    ASSUME NEW S, NEW seqs \in Seq(Seq(S))
    PROVE  /\ Flattened(seqs) = FlattenStep(Flattened(seqs), seqs)
           /\ Len(seqs) # 0 => FlattenSeq(seqs) = Flattened(seqs)[Len(seqs)]
<1> DEFINE n == Len(seqs)
           step == [p \in Seq(S) \X (1 .. n) |-> p[1] \o seqs[p[2]]]
<1>1. n \in Nat /\ \A i \in 1 .. n : seqs[i] \in Seq(S)
  OBVIOUS
<1>2. step \in [Seq(S) \X (1 .. n) -> Seq(S)]
  <2>1. \A p \in Seq(S) \X (1 .. n) : p[1] \o seqs[p[2]] \in Seq(S)
    <3> TAKE p \in Seq(S) \X (1 .. n)
    <3>1. p[1] \in Seq(S) /\ seqs[p[2]] \in Seq(S)
      BY <1>1
    <3> QED BY <3>1
  <2> QED BY <2>1
<1>3. Iterates(Seq(S), <<>>, n, step) # {}
  <2>1. <<>> \in Seq(S)
    OBVIOUS
  <2> HIDE DEF n, step
  <2> QED BY <1>1, <1>2, <2>1, IteratesExist
<1>4. PICK f \in [0 .. n -> Seq(S)] :
          f[0] = <<>> /\ \A i \in 1 .. n : f[i] = step[<<f[i - 1], i>>]
  <2> HIDE DEF n, step
  <2> QED BY <1>3 DEF Iterates
<1> DEFINE g == [i \in 1 .. n |-> f[i]]
<1>5. \A i \in 1 .. n : f[i] = f[i - 1] \o seqs[i]
  <2> TAKE i \in 1 .. n
  <2>1. i - 1 \in 0 .. n
    OBVIOUS
  <2>2. f[i - 1] \in Seq(S)
    BY <1>4, <2>1
  <2>3. f[i] = step[<<f[i - 1], i>>]
    BY <1>4
  <2>4. <<f[i - 1], i>> \in Seq(S) \X (1 .. n)
    BY <2>2
  <2> QED BY <2>3, <2>4
<1>6. g = FlattenStep(g, seqs)
  <2>1. \A i \in 1 .. n : g[i] = IF i = 1 THEN seqs[i] ELSE g[i - 1] \o seqs[i]
    <3> TAKE i \in 1 .. n
    <3>1. CASE i = 1
      <4>1. seqs[1] \in Seq(S) /\ i - 1 = 0
        BY <1>1, <3>1
      <4>2. f[1] = f[0] \o seqs[1]
        BY <1>5, <3>1, <4>1
      <4>3. f[1] = seqs[1]
        BY <1>4, <4>1, <4>2, ConcatEmptySeq
      <4>4. g[i] = f[i]
        OBVIOUS
      <4> QED BY <3>1, <4>3, <4>4
    <3>2. CASE i # 1
      <4>1. i - 1 \in 1 .. n
        BY <3>2
      <4>2. g[i - 1] = f[i - 1] /\ g[i] = f[i]
        BY <4>1
      <4> QED BY <1>5, <3>2, <4>2
    <3> QED BY <3>1, <3>2
  <2> QED BY <2>1 DEF FlattenStep
<1>7. Flattened(seqs) = FlattenStep(Flattened(seqs), seqs)
  <2>1. \E h : h = FlattenStep(h, seqs)
    BY <1>6
  <2> QED BY <2>1 DEF Flattened
<1>8. Len(seqs) # 0 => FlattenSeq(seqs) = Flattened(seqs)[Len(seqs)]
  BY DEF FlattenSeq, Flattened, FlattenStep
<1> QED BY <1>7, <1>8

LEMMA FlattenValues ==
    ASSUME NEW S, NEW seqs \in Seq(Seq(S))
    PROVE  /\ seqs = <<>> => FlattenSeq(seqs) = <<>>
           /\ \A i \in 1 .. Len(seqs) :
                 Flattened(seqs)[i] = IF i = 1 THEN seqs[i]
                                      ELSE Flattened(seqs)[i - 1] \o seqs[i]
<1> DEFINE f == Flattened(seqs)
<1>1. f = FlattenStep(f, seqs)
  BY FlattenDef
<1>2. seqs = <<>> => FlattenSeq(seqs) = <<>>
  BY DEF FlattenSeq
<1> HIDE DEF f
<1>3. \A i \in 1 .. Len(seqs) : f[i] = IF i = 1 THEN seqs[i] ELSE f[i - 1] \o seqs[i]
  BY <1>1 DEF FlattenStep
<1> QED BY <1>2, <1>3 DEF f

\* A concatenation of sequences is a sequence.
LEMMA FlattenType ==
    ASSUME NEW S, NEW seqs \in Seq(Seq(S))
    PROVE  FlattenSeq(seqs) \in Seq(S)
<1> DEFINE f == Flattened(seqs)
           Bad == {i \in 1 .. Len(seqs) : f[i] \notin Seq(S)}
<1>1. Bad = {}
  <2>1. SUFFICES ASSUME Bad # {} PROVE FALSE
    OBVIOUS
  <2>2. PICK i \in Bad : \A j \in Bad : i <= j
    <3>1. Bad \subseteq Nat
      OBVIOUS
    <3> HIDE DEF Bad
    <3> QED BY <2>1, <3>1, LeastNat
  <2>3. f[i] = IF i = 1 THEN seqs[i] ELSE f[i - 1] \o seqs[i]
    BY <2>2, FlattenValues
  <2>4. seqs[i] \in Seq(S)
    BY <2>2
  <2>5. i # 1
    BY <2>2, <2>3, <2>4
  <2>6. f[i - 1] \in Seq(S)
    BY <2>2, <2>5
  <2>7. f[i - 1] \o seqs[i] \in Seq(S)
    BY <2>4, <2>6, ConcatProperties
  <2>8. f[i] \notin Seq(S)
    BY <2>2
  <2> HIDE DEF f, Bad
  <2> QED BY <2>3, <2>5, <2>7, <2>8
<1>2. CASE seqs = <<>>
  <2>1. FlattenSeq(seqs) = <<>>
    BY <1>2, FlattenValues
  <2>2. <<>> \in Seq(S)
    OBVIOUS
  <2> QED BY <2>1, <2>2, Zenon
<1>3. CASE seqs # <<>>
  <2>1. Len(seqs) \in 1 .. Len(seqs) /\ Len(seqs) # 0
    BY <1>3
  <2>2. f[Len(seqs)] \in Seq(S)
    BY <1>1, <2>1
  <2>3. FlattenSeq(seqs) = f[Len(seqs)]
    <3> HIDE DEF Bad
    <3> QED BY <2>1, FlattenDef
  <2> QED BY <2>2, <2>3
<1> QED BY <1>2, <1>3

-----------------------------------------------------------------------------
(* linear_search *)

WalkStep(w, data, length, target) ==
    [at \in Nat \X Nat |->
        IF at[1] >= target THEN at[2]
        ELSE IF at[2] >= length THEN Nil
        ELSE IF at[1] + CountAt(data, at[2]) > target THEN at[2]
        ELSE w[<<at[1] + CountAt(data, at[2]), at[2] + 1>>]]

Walk(data, length, target) == CHOOSE w : w = WalkStep(w, data, length, target)

LEMMA CountAtType ==
    ASSUME NEW data \in Seq(Batch), NEW p \in Nat
    PROVE  CountAt(data, p) \in Nat
<1>1. CASE p < Len(data)
  <2>1. p + 1 \in 1 .. Len(data)
    BY <1>1
  <2>2. data[p + 1] \in Batch
    BY <2>1
  <2> QED BY <1>1, <2>2, CountType DEF CountAt
<1>2. CASE ~ (p < Len(data))
  BY <1>2 DEF CountAt
<1> QED BY <1>1, <1>2

LEMMA WalkDef ==
    ASSUME NEW data \in Seq(Batch), NEW length \in Nat, NEW target \in Nat, NEW entry
    PROVE  /\ Walk(data, length, target) =
                 WalkStep(Walk(data, length, target), data, length, target)
           /\ LinearSearch(data, length, target, entry) =
                 Walk(data, length, target)[<<entry.offset, entry.pos>>]
<1> DEFINE V == [Nat -> Nat \union {Nil}]
           left(i) == length - i
           start == [o \in Nat |-> IF o >= target THEN length ELSE Nil]
           next(v, i) == [o \in Nat |->
                             IF o >= target THEN left(i)
                             ELSE IF o + CountAt(data, left(i)) > target THEN left(i)
                             ELSE v[o + CountAt(data, left(i))]]
           step == [p \in V \X (1 .. length) |-> next(p[1], p[2])]
<1>1. start \in V
  OBVIOUS
<1>2. \A i \in 1 .. length : left(i) \in Nat /\ CountAt(data, left(i)) \in Nat
  <2> TAKE i \in 1 .. length
  <2>1. length - i \in Nat
    OBVIOUS
  <2> QED BY <2>1, CountAtType
<1>3. \A v \in V, i \in 1 .. length : next(v, i) \in V
  <2> TAKE v \in V, i \in 1 .. length
  <2>1. left(i) \in Nat /\ CountAt(data, left(i)) \in Nat
    BY <1>2
  <2> HIDE DEF left
  <2>2. \A o \in Nat : o + CountAt(data, left(i)) \in Nat
    BY <2>1
  <2> QED BY <2>1, <2>2
<1>4. step \in [V \X (1 .. length) -> V]
  <2> HIDE DEF V, next
  <2> QED BY <1>3
<1>5. Iterates(V, start, length, step) # {}
  <2> HIDE DEF V, start, step
  <2> QED BY <1>1, <1>4, IteratesExist
<1>6. PICK f \in [0 .. length -> V] :
          f[0] = start /\ \A i \in 1 .. length : f[i] = step[<<f[i - 1], i>>]
  <2> HIDE DEF V, start, step
  <2> QED BY <1>5 DEF Iterates
<1>7. \A i \in 1 .. length : f[i] = next(f[i - 1], i)
  <2> HIDE DEF V, start, next
  <2> TAKE i \in 1 .. length
  <2>1. i - 1 \in 0 .. length
    OBVIOUS
  <2>2. <<f[i - 1], i>> \in V \X (1 .. length)
    BY <1>6, <2>1
  <2> QED BY <1>6, <2>2
<1> DEFINE w == [at \in Nat \X Nat |->
                    IF at[2] >= length THEN (IF at[1] >= target THEN at[2] ELSE Nil)
                    ELSE f[length - at[2]][at[1]]]
<1>8. ASSUME NEW o \in Nat, NEW p \in Nat
      PROVE  w[<<o, p>>] = IF o >= target THEN p
                       ELSE IF p >= length THEN Nil
                       ELSE IF o + CountAt(data, p) > target THEN p
                       ELSE w[<<o + CountAt(data, p), p + 1>>]
  <2>1. CASE p >= length
    BY <2>1
  <2>2. CASE ~ (p >= length)
    <3>1. length - p \in 1 .. length /\ left(length - p) = p
      BY <2>2
    <3>2. w[<<o, p>>] = next(f[(length - p) - 1], length - p)[o]
      BY <1>7, <2>2, <3>1
    <3>3. next(f[(length - p) - 1], length - p)[o] =
             IF o >= target THEN p
             ELSE IF o + CountAt(data, p) > target THEN p
             ELSE f[(length - p) - 1][o + CountAt(data, p)]
      BY <3>1
    <3>4. o + CountAt(data, p) \in Nat /\ p + 1 \in Nat
      <4>1. CountAt(data, p) \in Nat
        BY CountAtType
      <4> HIDE DEF w, next, left
      <4> QED BY <4>1
    <3>5. w[<<o + CountAt(data, p), p + 1>>] = f[(length - p) - 1][o + CountAt(data, p)]
      <4> DEFINE q == o + CountAt(data, p)
      <4>1. q \in Nat
        BY <3>4
      <4> HIDE DEF q
      <4>2. w[<<q, p + 1>>] = f[(length - p) - 1][q]
        <5>1. CASE p + 1 >= length
          <6>1. (length - p) - 1 = 0 /\ p + 1 = length
            BY <2>2, <5>1
          <6>2. f[0][q] = IF q >= target THEN length ELSE Nil
            BY <1>6, <4>1
          <6>3. w[<<q, p + 1>>] = IF q >= target THEN length ELSE Nil
            BY <4>1, <5>1, <6>1
          <6> QED BY <6>1, <6>2, <6>3
        <5>2. CASE ~ (p + 1 >= length)
          <6>1. length - (p + 1) = (length - p) - 1
            OBVIOUS
          <6> QED BY <4>1, <5>2, <6>1
        <5> QED BY <5>1, <5>2
      <4> QED BY <4>2 DEF q
    <3> HIDE DEF w, next, left
    <3> QED BY <2>2, <3>2, <3>3, <3>5
  <2> QED BY <2>1, <2>2
<1>9. w = WalkStep(w, data, length, target)
  <2> HIDE DEF V, start, step, next
  <2> QED BY <1>8, ZenonT(30) DEF WalkStep
<1>10. Walk(data, length, target) =
          WalkStep(Walk(data, length, target), data, length, target)
  <2>1. \E g : g = WalkStep(g, data, length, target)
    BY <1>9
  <2> QED BY <2>1 DEF Walk
<1>11. LinearSearch(data, length, target, entry) =
          Walk(data, length, target)[<<entry.offset, entry.pos>>]
  BY DEF LinearSearch, Walk, WalkStep
<1> QED BY <1>10, <1>11

Walks(w, data, length, target) ==
    \A o \in Nat, p \in Nat :
        w[<<o, p>>] = IF o >= target THEN p
                      ELSE IF p >= length THEN Nil
                      ELSE IF o + CountAt(data, p) > target THEN p
                      ELSE w[<<o + CountAt(data, p), p + 1>>]

LEMMA WalkValues ==
    ASSUME NEW data \in Seq(Batch), NEW length \in Nat, NEW target \in Nat
    PROVE  Walks(Walk(data, length, target), data, length, target)
<1> DEFINE w == Walk(data, length, target)
<1>1. w = WalkStep(w, data, length, target)
  BY WalkDef
<1> HIDE DEF w
<1>2. Walks(w, data, length, target)
  BY <1>1 DEF WalkStep, Walks
<1> QED BY <1>2 DEF w

\* linear_search answers a position, or nothing.
LEMMA LinearSearchType ==
    ASSUME NEW data \in Seq(Batch), NEW length \in Nat, NEW target \in Nat,
           NEW entry, entry.offset \in Nat, entry.pos \in Nat
    PROVE  LinearSearch(data, length, target, entry) \in Nat \union {Nil}
<1> DEFINE w == Walk(data, length, target)
           Bad == {k \in Nat : \E o \in Nat, p \in Nat :
                      k + p >= length /\ w[<<o, p>>] \notin Nat \union {Nil}}
<1>1. Bad = {}
  <2>1. SUFFICES ASSUME Bad # {} PROVE FALSE
    OBVIOUS
  <2>2. PICK k \in Bad : \A j \in Bad : k <= j
    <3>1. Bad \subseteq Nat
      OBVIOUS
    <3> HIDE DEF Bad
    <3> QED BY <2>1, <3>1, LeastNat
  <2>3. PICK o \in Nat, p \in Nat : k + p >= length /\ w[<<o, p>>] \notin Nat \union {Nil}
    BY <2>2
  <2> DEFINE q == o + CountAt(data, p)
  <2>4. q \in Nat
    <3>1. CountAt(data, p) \in Nat
      BY CountAtType
    <3> QED BY <3>1
  <2>5. w[<<o, p>>] = IF o >= target THEN p
                      ELSE IF p >= length THEN Nil
                      ELSE IF q > target THEN p
                      ELSE w[<<q, p + 1>>]
    <3>1. Walks(w, data, length, target)
      BY WalkValues
    <3> HIDE DEF w, Bad
    <3> QED BY <3>1 DEF Walks
  <2> HIDE DEF q, w
  <2>6. p < length /\ w[<<q, p + 1>>] \notin Nat \union {Nil}
    BY <2>3, <2>5
  <2>7. k \in Nat /\ k # 0
    BY <2>2, <2>3, <2>6
  <2>8. k - 1 \in Nat /\ p + 1 \in Nat /\ (k - 1) + (p + 1) >= length
    BY <2>3, <2>7
  <2>9. k - 1 \in Bad
    BY <2>4, <2>6, <2>8
  <2>10. k <= k - 1
    <3> HIDE DEF Bad
    <3> QED BY <2>2, <2>9
  <2> QED BY <2>7, <2>10
<1>2. w[<<entry.offset, entry.pos>>] \in Nat \union {Nil}
  <2>1. length \notin Bad
    BY <1>1
  <2>2. length + entry.pos >= length
    OBVIOUS
  <2> HIDE DEF w
  <2> QED BY <2>1, <2>2
<1>3. LinearSearch(data, length, target, entry) = w[<<entry.offset, entry.pos>>]
  <2> HIDE DEF Bad
  <2> QED BY WalkDef
<1> QED BY <1>2, <1>3

-----------------------------------------------------------------------------
(* find_physical_position *)

Ranges(count) == (0 .. count) \X (-1 .. count - 1)

Middle(lo, hi) == lo + (hi - lo) \div 2

SearchStep(s, index, count, target) ==
    [range \in Ranges(count) |->
        IF range[1] > range[2] THEN range[1]
        ELSE IF index[Middle(range[1], range[2]) + 1].offset <= target
             THEN s[<<Middle(range[1], range[2]) + 1, range[2]>>]
        ELSE IF Middle(range[1], range[2]) = 0 THEN range[1]
        ELSE s[<<range[1], Middle(range[1], range[2]) - 1>>]]

Search(index, count, target) == CHOOSE s : s = SearchStep(s, index, count, target)

LEMMA MiddleBetween ==
    ASSUME NEW lo \in Int, NEW hi \in Int, lo <= hi
    PROVE  Middle(lo, hi) \in Int /\ lo <= Middle(lo, hi) /\ Middle(lo, hi) <= hi
<1>1. (hi - lo) \div 2 \in Int /\ 0 <= (hi - lo) \div 2 /\ (hi - lo) \div 2 <= hi - lo
  OBVIOUS
<1> QED BY <1>1 DEF Middle

\* The ranges that the loop goes on to are ranges, and shorter.
LEMMA SearchShrinks ==
    ASSUME NEW count \in Nat, NEW lo \in 0 .. count, NEW hi \in -1 .. count - 1, lo <= hi
    PROVE  /\ Middle(lo, hi) \in 0 .. count - 1
           /\ Middle(lo, hi) + 1 \in 0 .. count
           /\ hi - (Middle(lo, hi) + 1) < hi - lo
           /\ Middle(lo, hi) # 0 => Middle(lo, hi) - 1 \in -1 .. count - 1
           /\ (Middle(lo, hi) - 1) - lo < hi - lo
<1>1. Middle(lo, hi) \in Int /\ lo <= Middle(lo, hi) /\ Middle(lo, hi) <= hi
  <2>1. lo \in Int /\ hi \in Int
    OBVIOUS
  <2> QED BY <2>1, MiddleBetween
<1> QED BY <1>1

LEMMA SearchDef ==
    ASSUME NEW index, NEW count \in Nat, NEW target \in Nat
    PROVE  /\ Search(index, count, target) =
                 SearchStep(Search(index, count, target), index, count, target)
           /\ EntriesUpTo(index, count, target) =
                 Search(index, count, target)[<<0, count - 1>>]
<1> DEFINE R == Ranges(count)
           V == [R -> 0 .. count]
           start == [range \in R |-> range[1]]
           look(s, lo, hi) ==
               IF lo > hi THEN lo
               ELSE IF index[Middle(lo, hi) + 1].offset <= target
                    THEN s[<<Middle(lo, hi) + 1, hi>>]
               ELSE IF Middle(lo, hi) = 0 THEN lo
               ELSE s[<<lo, Middle(lo, hi) - 1>>]
           next(v, i) == [range \in R |-> IF range[2] - range[1] < i - 1 THEN v[range]
                                          ELSE look(v, range[1], range[2])]
           step == [p \in V \X (1 .. count) |-> next(p[1], p[2])]
<1>1. \A s \in V, lo \in 0 .. count, hi \in -1 .. count - 1 :
         look(s, lo, hi) \in 0 .. count
  <2> TAKE s \in V, lo \in 0 .. count, hi \in -1 .. count - 1
  <2>1. CASE lo > hi
    BY <2>1
  <2>2. CASE lo <= hi
    <3>1. /\ Middle(lo, hi) + 1 \in 0 .. count
          /\ Middle(lo, hi) # 0 => Middle(lo, hi) - 1 \in -1 .. count - 1
      BY <2>2, SearchShrinks
    <3>2. s[<<Middle(lo, hi) + 1, hi>>] \in 0 .. count
      BY <3>1 DEF Ranges
    <3>3. Middle(lo, hi) # 0 => s[<<lo, Middle(lo, hi) - 1>>] \in 0 .. count
      BY <3>1 DEF Ranges
    <3> HIDE DEF V
    <3> QED BY <3>2, <3>3
  <2> HIDE DEF V, look
  <2>3. lo \in Int /\ hi \in Int
    OBVIOUS
  <2> QED BY <2>1, <2>2, <2>3
<1>2. start \in V
  BY DEF Ranges
<1>3. \A v \in V, i \in 1 .. count : next(v, i) \in V
  <2> TAKE v \in V, i \in 1 .. count
  <2>1. \A range \in R : (IF range[2] - range[1] < i - 1 THEN v[range]
                           ELSE look(v, range[1], range[2])) \in 0 .. count
    <3> TAKE range \in R
    <3>1. range[1] \in 0 .. count /\ range[2] \in -1 .. count - 1
      BY DEF Ranges
    <3>2. look(v, range[1], range[2]) \in 0 .. count
      <4> HIDE DEF V, look
      <4> QED BY <1>1, <3>1
    <3>3. v[range] \in 0 .. count
      OBVIOUS
    <3> HIDE DEF look
    <3> QED BY <3>2, <3>3
  <2> HIDE DEF look, R
  <2> QED BY <2>1
<1>4. step \in [V \X (1 .. count) -> V]
  <2> HIDE DEF V, next
  <2> QED BY <1>3
<1>5. Iterates(V, start, count, step) # {}
  <2> HIDE DEF V, start, step
  <2> QED BY <1>2, <1>4, IteratesExist
<1>6. PICK f \in [0 .. count -> V] :
          f[0] = start /\ \A i \in 1 .. count : f[i] = step[<<f[i - 1], i>>]
  <2> HIDE DEF V, start, step
  <2> QED BY <1>5 DEF Iterates
<1>7. \A i \in 1 .. count : f[i - 1] \in V /\ f[i] = next(f[i - 1], i)
  <2> HIDE DEF V, start, next
  <2> TAKE i \in 1 .. count
  <2>1. i - 1 \in 0 .. count
    OBVIOUS
  <2>2. <<f[i - 1], i>> \in V \X (1 .. count)
    BY <1>6, <2>1
  <2> QED BY <1>6, <2>2
<1>8. \A i \in 1 .. count, lo \in 0 .. count, hi \in -1 .. count - 1 :
         f[i][<<lo, hi>>] = IF hi - lo < i - 1 THEN f[i - 1][<<lo, hi>>]
                            ELSE look(f[i - 1], lo, hi)
  <2> HIDE DEF V, look
  <2> TAKE i \in 1 .. count, lo \in 0 .. count, hi \in -1 .. count - 1
  <2>1. <<lo, hi>> \in R
    BY DEF Ranges
  <2>2. f[i] = next(f[i - 1], i)
    BY <1>7
  <2> HIDE DEF R
  <2> QED BY <2>1, <2>2
<1> HIDE DEF next, step
\* Once a range has its value it keeps it.
<1>9. \A j, i \in 0 .. count, lo \in 0 .. count, hi \in -1 .. count - 1 :
         j <= i /\ hi - lo < j => f[i][<<lo, hi>>] = f[j][<<lo, hi>>]
  <2> HIDE DEF V, R, look, start
  <2> TAKE j \in 0 .. count
  <2> DEFINE Bad == {i \in 0 .. count : \E lo \in 0 .. count, hi \in -1 .. count - 1 :
                        j <= i /\ hi - lo < j /\ f[i][<<lo, hi>>] # f[j][<<lo, hi>>]}
  <2>1. Bad = {}
    <3>1. SUFFICES ASSUME Bad # {} PROVE FALSE
      OBVIOUS
    <3>2. PICK i \in Bad : \A k \in Bad : i <= k
      <4>1. Bad \subseteq Nat
        OBVIOUS
      <4> HIDE DEF Bad
      <4> QED BY <3>1, <4>1, LeastNat
    <3>3. PICK lo \in 0 .. count, hi \in -1 .. count - 1 :
              j <= i /\ hi - lo < j /\ f[i][<<lo, hi>>] # f[j][<<lo, hi>>]
      BY <3>2
    <3>4. j < i /\ i \in 1 .. count /\ i - 1 \in 0 .. count /\ j <= i - 1 /\ hi - lo < i - 1
      BY <3>2, <3>3
    <3>5. f[i][<<lo, hi>>] = f[i - 1][<<lo, hi>>]
      BY <1>8, <3>4
    <3>6. i - 1 \in Bad
      BY <3>3, <3>4, <3>5
    <3>7. i <= i - 1
      <4> HIDE DEF Bad
      <4> QED BY <3>2, <3>6
    <3> QED BY <3>4, <3>7
  <2> QED BY <2>1, ZenonT(30)
<1> DEFINE s == f[count]
<1>10. ASSUME NEW lo \in 0 .. count, NEW hi \in -1 .. count - 1
       PROVE  s[<<lo, hi>>] = look(s, lo, hi)
  <2>0. count \in 0 .. count /\ 0 \in 0 .. count /\ lo \in Int /\ hi \in Int
    OBVIOUS
  <2>1. CASE lo > hi
    <3>1. s[<<lo, hi>>] = f[0][<<lo, hi>>]
      <4>1. 0 <= count /\ hi - lo < 0
        BY <2>1
      <4> HIDE DEF V, R, look, start
      <4> QED BY <1>9, <2>0, <4>1
    <3>2. f[0][<<lo, hi>>] = lo
      BY <1>6 DEF Ranges
    <3> QED BY <2>1, <3>1, <3>2
  <2>2. CASE lo <= hi
    <3> DEFINE m == hi - lo + 1
               a == Middle(lo, hi) + 1
               b == Middle(lo, hi) - 1
    <3>1. m \in 1 .. count /\ m - 1 \in 0 .. count /\ m \in 0 .. count
      BY <2>2
    <3>2. s[<<lo, hi>>] = f[m][<<lo, hi>>]
      <4>1. m <= count /\ hi - lo < m
        BY <3>1
      <4> HIDE DEF V, R, look, start, m
      <4> QED BY <1>9, <2>0, <3>1, <4>1
    <3>3. f[m][<<lo, hi>>] = look(f[m - 1], lo, hi)
      <4>1. ~ (hi - lo < m - 1)
        OBVIOUS
      <4> HIDE DEF V, R, look, start, m
      <4> QED BY <1>8, <3>1, <4>1
    <3>4. /\ a \in 0 .. count /\ hi - a < m - 1
          /\ Middle(lo, hi) # 0 => b \in -1 .. count - 1
          /\ b - lo < m - 1
      <4>1. /\ a \in 0 .. count /\ hi - a < hi - lo
            /\ Middle(lo, hi) # 0 => b \in -1 .. count - 1
            /\ b - lo < hi - lo
        BY <2>2, SearchShrinks
      <4>2. m - 1 = hi - lo
        OBVIOUS
      <4> HIDE DEF a, b, m
      <4> QED BY <4>1, <4>2
    <3>5. s[<<a, hi>>] = f[m - 1][<<a, hi>>]
      <4>1. m - 1 <= count
        BY <3>1
      <4> HIDE DEF V, R, look, start, m, a
      <4> QED BY <1>9, <2>0, <3>1, <3>4, <4>1
    <3>6. Middle(lo, hi) # 0 => s[<<lo, b>>] = f[m - 1][<<lo, b>>]
      <4>1. m - 1 <= count
        BY <3>1
      <4> HIDE DEF V, R, look, start, m, b
      <4> QED BY <1>9, <2>0, <3>1, <3>4, <4>1
    <3>7. look(f[m - 1], lo, hi) = look(s, lo, hi)
      <4> HIDE DEF s
      <4> QED BY <3>5, <3>6
    <3> HIDE DEF look, s, m
    <3> QED BY <3>2, <3>3, <3>7
  <2> HIDE DEF look
  <2> QED BY <2>0, <2>1, <2>2
<1>11. s \in V
  <2>1. count \in 0 .. count
    OBVIOUS
  <2> HIDE DEF V
  <2> QED BY <1>6, <2>1
<1>12. s = SearchStep(s, index, count, target)
  <2>1. \A range \in R : s[range] = look(s, range[1], range[2])
    <3> TAKE range \in R
    <3>1. /\ range[1] \in 0 .. count
          /\ range[2] \in -1 .. count - 1
          /\ range = <<range[1], range[2]>>
      BY DEF Ranges
    <3> HIDE DEF look, s
    <3> QED BY <1>10, <3>1
  <2> HIDE DEF s
  <2>2. s = [range \in R |-> look(s, range[1], range[2])]
    <3> HIDE DEF look, R
    <3> QED BY <1>11, <2>1
  <2> QED BY <2>2 DEF SearchStep
<1>13. Search(index, count, target) =
          SearchStep(Search(index, count, target), index, count, target)
  <2>1. \E g : g = SearchStep(g, index, count, target)
    <3> HIDE DEF s
    <3> QED BY <1>12
  <2> QED BY <2>1 DEF Search
<1>14. EntriesUpTo(index, count, target) =
          Search(index, count, target)[<<0, count - 1>>]
  BY DEF EntriesUpTo, Search, SearchStep, Ranges, Middle
<1> QED BY <1>13, <1>14

Searches(s, index, count, target) ==
    \A lo \in 0 .. count, hi \in -1 .. count - 1 :
        s[<<lo, hi>>] =
            IF lo > hi THEN lo
            ELSE IF index[Middle(lo, hi) + 1].offset <= target
                 THEN s[<<Middle(lo, hi) + 1, hi>>]
            ELSE IF Middle(lo, hi) = 0 THEN lo
            ELSE s[<<lo, Middle(lo, hi) - 1>>]

LEMMA SearchValues ==
    ASSUME NEW index, NEW count \in Nat, NEW target \in Nat
    PROVE  Searches(Search(index, count, target), index, count, target)
<1> DEFINE s == Search(index, count, target)
<1>1. s = SearchStep(s, index, count, target)
  BY SearchDef
<1> HIDE DEF s
<1>2. Searches(s, index, count, target)
  BY <1>1 DEF SearchStep, Searches, Ranges
<1> QED BY <1>2 DEF s

\* The search counts some of the entries.
LEMMA EntriesUpToType ==
    ASSUME NEW index, NEW count \in Nat, NEW target \in Nat
    PROVE  EntriesUpTo(index, count, target) \in 0 .. count
<1> DEFINE s == Search(index, count, target)
           Bad == {k \in Nat : \E lo \in 0 .. count, hi \in -1 .. count - 1 :
                      hi - lo < k /\ s[<<lo, hi>>] \notin 0 .. count}
<1>1. Searches(s, index, count, target)
  BY SearchValues
<1>2. EntriesUpTo(index, count, target) = s[<<0, count - 1>>]
  BY SearchDef
<1> HIDE DEF s
<1>3. Bad = {}
  <2>1. SUFFICES ASSUME Bad # {} PROVE FALSE
    OBVIOUS
  <2>2. PICK k \in Bad : \A j \in Bad : k <= j
    <3>1. Bad \subseteq Nat
      OBVIOUS
    <3> HIDE DEF Bad
    <3> QED BY <2>1, <3>1, LeastNat
  <2>3. PICK lo \in 0 .. count, hi \in -1 .. count - 1 :
            hi - lo < k /\ s[<<lo, hi>>] \notin 0 .. count
    BY <2>2
  <2> DEFINE m == Middle(lo, hi)
  <2>4. s[<<lo, hi>>] = IF lo > hi THEN lo
                        ELSE IF index[m + 1].offset <= target THEN s[<<m + 1, hi>>]
                        ELSE IF m = 0 THEN lo
                        ELSE s[<<lo, m - 1>>]
    BY <1>1 DEF Searches
  <2>5. lo <= hi /\ k \in Nat /\ k # 0 /\ k - 1 \in Nat
    BY <2>2, <2>3, <2>4
  <2>6. /\ m + 1 \in 0 .. count
        /\ hi - (m + 1) < hi - lo
        /\ m # 0 => m - 1 \in -1 .. count - 1
        /\ (m - 1) - lo < hi - lo
        /\ m \in Int
    <3>1. /\ m \in 0 .. count - 1
          /\ m + 1 \in 0 .. count
          /\ hi - (m + 1) < hi - lo
          /\ m # 0 => m - 1 \in -1 .. count - 1
          /\ (m - 1) - lo < hi - lo
      <4> HIDE DEF Bad
      <4> QED BY <2>5, SearchShrinks
    <3> HIDE DEF m, Bad
    <3> QED BY <3>1
  <2> HIDE DEF m
  <2>7. \/ s[<<m + 1, hi>>] \notin 0 .. count
        \/ m # 0 /\ s[<<lo, m - 1>>] \notin 0 .. count
    <3> HIDE DEF Bad
    <3> QED BY <2>3, <2>4, <2>5
  <2>8. hi - (m + 1) < k - 1 /\ (m - 1) - lo < k - 1
    BY <2>3, <2>5, <2>6
  <2>9. k - 1 \in Bad
    BY <2>5, <2>6, <2>7, <2>8
  <2>10. k <= k - 1
    <3> HIDE DEF Bad
    <3> QED BY <2>2, <2>9
  <2> QED BY <2>5, <2>10
<1>4. s[<<0, count - 1>>] \in 0 .. count
  <2>1. count \notin Bad
    BY <1>3
  <2>2. (count - 1) - 0 < count /\ 0 \in 0 .. count /\ count - 1 \in -1 .. count - 1
    OBVIOUS
  <2> QED BY <2>1, <2>2
<1> QED BY <1>2, <1>4

-----------------------------------------------------------------------------
(* Reading a segment *)

LEMMA MinPair ==
    ASSUME NEW a \in Nat, NEW b \in Nat
    PROVE  Min({a, b}) = IF a <= b THEN a ELSE b
<1>1. Min({a, b}) \in {a, b} /\ \A y \in {a, b} : Min({a, b}) <= y
  <2>1. {a, b} \subseteq Nat /\ {a, b} # {}
    OBVIOUS
  <2> QED BY <2>1, MinNat
<1> QED BY <1>1

LEMMA MaxPair ==
    ASSUME NEW a \in Nat, NEW b \in Nat
    PROVE  Max({a, b}) = IF a <= b THEN b ELSE a
<1>1. Max({a, b}) \in {a, b} /\ \A y \in {a, b} : y <= Max({a, b})
  <2>1. {a, b} \subseteq Nat /\ {a, b} # {} /\ IsFiniteSet({a, b})
    <3>1. IsFiniteSet({a}) /\ IsFiniteSet({b}) /\ {a, b} = {a} \union {b}
      BY FS_Singleton
    <3>2. IsFiniteSet({a, b})
      BY <3>1, FS_Union
    <3> QED BY <3>2
  <2> QED BY <2>1, MaxNat
<1> QED BY <1>1

\* A part of a sequence is a sequence, whatever the start.
LEMMA PartType ==
    ASSUME NEW S, NEW s \in Seq(S), NEW m \in Nat \ {0}, NEW n \in 0 .. Len(s)
    PROVE  /\ SubSeq(s, m, n) \in Seq(S)
           /\ Len(SubSeq(s, m, n)) = IF m <= n THEN n - m + 1 ELSE 0
           /\ \A i \in 1 .. n - m + 1 : SubSeq(s, m, n)[i] = s[m + i - 1]
<1>1. \A i \in m .. n : s[i] \in S
  OBVIOUS
<1>2. m \in Int /\ n \in Int
  OBVIOUS
<1> QED BY <1>1, <1>2, SubSeqProperties

\* The index finds an entry, or nothing.
LEMMA FindType ==
    ASSUME NEW index \in Seq(IndexEntry), NEW count \in 0 .. Len(index), NEW target \in Nat
    PROVE  FindPhysicalPosition(index, count, target) \in IndexEntry \union {Nil}
<1>1. EntriesUpTo(index, count, target) \in 0 .. count
  <2>1. count \in Nat
    OBVIOUS
  <2> QED BY <2>1, EntriesUpToType
<1>2. CASE EntriesUpTo(index, count, target) = 0
  BY <1>2 DEF FindPhysicalPosition
<1>3. CASE EntriesUpTo(index, count, target) # 0
  <2>1. EntriesUpTo(index, count, target) \in 1 .. Len(index)
    BY <1>1, <1>3
  <2>2. index[EntriesUpTo(index, count, target)] \in IndexEntry
    BY <2>1
  <2> QED BY <1>3, <2>2 DEF FindPhysicalPosition
<1> QED BY <1>2, <1>3

LEMMA BatchesFromType ==
    ASSUME NEW data \in Seq(Batch), NEW length \in Nat, NEW p \in Nat
    PROVE  BatchesFrom(data, length, p) \in Seq(Batch)
<1>1. Min({length, Len(data)}) \in 0 .. Len(data)
  <2>1. Len(data) \in Nat
    OBVIOUS
  <2>2. Min({length, Len(data)}) = IF length <= Len(data) THEN length ELSE Len(data)
    BY <2>1, MinPair
  <2> QED BY <2>1, <2>2
<1>2. p + 1 \in Nat \ {0}
  OBVIOUS
<1> QED BY <1>1, <1>2, PartType DEF BatchesFrom

\* A read of a segment gives batches of its file.
LEMMA BatchIterType ==
    ASSUME NEW data \in Seq(Batch), NEW index \in Seq(IndexEntry),
           NEW view \in SegmentView, view.indexCount <= Len(index), NEW offset \in Nat
    PROVE  BatchIterFrom(data, index, view, offset) \in Seq(Batch)
<1> DEFINE entry == FindPhysicalPosition(index, view.indexCount, offset)
           start == IF entry = Nil THEN [offset |-> view.base, pos |-> 0] ELSE entry
           p == LinearSearch(data, view.size, offset, start)
<1>1. view.size \in Nat /\ view.base \in Nat /\ view.indexCount \in 0 .. Len(index)
  BY DEF SegmentView
<1>2. entry \in IndexEntry \union {Nil}
  BY <1>1, FindType
<1>3. start.offset \in Nat /\ start.pos \in Nat
  <2> HIDE DEF entry
  <2> QED BY <1>1, <1>2 DEF IndexEntry
<1>4. p \in Nat \union {Nil}
  <2> HIDE DEF start
  <2> QED BY <1>1, <1>3, LinearSearchType
<1>5. p # Nil => BatchesFrom(data, view.size, p) \in Seq(Batch)
  <2> HIDE DEF p
  <2> QED BY <1>1, <1>4, BatchesFromType
<1>6. BatchIterFrom(data, index, view, offset) =
         IF (entry = Nil /\ view.size = 0) \/ p = Nil THEN <<>>
         ELSE BatchesFrom(data, view.size, p)
  BY DEF BatchIterFrom
<1>7. <<>> \in Seq(Batch)
  OBVIOUS
<1> HIDE DEF p, entry
<1> QED BY <1>5, <1>6, <1>7

LEMMA RecordsFromType ==
    ASSUME NEW id \in Batches, NEW k \in 0 .. Count[id]
    PROVE  /\ RecordsFrom(id, k) \in Seq(Record)
           /\ Len(RecordsFrom(id, k)) = Count[id] - k
           /\ \A i \in 1 .. Count[id] - k : RecordsFrom(id, k)[i] = <<id, k + i - 1>>
<1>1. Count[id] \in Nat /\ Count[id] - k \in Nat
  BY BatchAssumption
<1>2. \A i \in 1 .. Count[id] - k : <<id, k + i - 1>> \in Record
  <2> TAKE i \in 1 .. Count[id] - k
  <2>1. k + i - 1 \in Nat
    BY <1>1
  <2> QED BY <2>1 DEF Record
<1>3. RecordsFrom(id, k) = [i \in 1 .. Count[id] - k |-> <<id, k + i - 1>>]
  BY DEF RecordsFrom
<1>4. RecordsFrom(id, k) \in Seq(Record)
  BY <1>1, <1>2, <1>3, IsASeq
<1>5. DOMAIN RecordsFrom(id, k) = 1 .. Count[id] - k
  BY <1>3
<1>6. Len(RecordsFrom(id, k)) = Count[id] - k
  BY <1>1, <1>4, <1>5, LenProperties
<1> QED BY <1>3, <1>4, <1>6

\* A fetch from a segment gives records.
LEMMA SegmentFetchType ==
    ASSUME NEW data \in Seq(Batch), NEW index \in Seq(IndexEntry),
           NEW view \in SegmentView, view.indexCount <= Len(index),
           NEW offset \in Nat, NEW fit \in Nat
    PROVE  SegmentFetch(data, index, view, offset, fit) \in Seq(Record)
<1> DEFINE batches == BatchIterFrom(data, index, view, offset)
           first == Head(batches)
           rest == SubSeq(batches, 2, Min({fit, Len(batches)}))
           parts == [i \in 1 .. Len(rest) |-> RecordsFrom(rest[i].id, 0)]
           none == \/ batches = <<>>
                   \/ offset \notin first.base .. first.base + Count[first.id] - 1
<1>1. batches \in Seq(Batch)
  BY BatchIterType
<1>2. SegmentFetch(data, index, view, offset, fit) =
         IF none THEN <<>> ELSE RecordsFrom(first.id, offset - first.base) \o FlattenSeq(parts)
  BY DEF SegmentFetch
<1> HIDE DEF batches
<1>3. rest \in Seq(Batch)
  <2>1. Len(batches) \in Nat
    BY <1>1
  <2>2. Min({fit, Len(batches)}) = IF fit <= Len(batches) THEN fit ELSE Len(batches)
    BY <2>1, MinPair
  <2>3. Min({fit, Len(batches)}) \in 0 .. Len(batches)
    BY <2>1, <2>2
  <2>4. 2 \in Nat \ {0}
    OBVIOUS
  <2> HIDE DEF first
  <2> QED BY <1>1, <2>3, <2>4, PartType
<1> HIDE DEF rest
<1>4. parts \in Seq(Seq(Record))
  <2>1. \A i \in 1 .. Len(rest) : RecordsFrom(rest[i].id, 0) \in Seq(Record)
    <3> TAKE i \in 1 .. Len(rest)
    <3>1. rest[i] \in Batch
      BY <1>3
    <3>2. rest[i].id \in Batches
      BY <3>1 DEF Batch
    <3>3. 0 \in 0 .. Count[rest[i].id]
      BY <3>2, BatchAssumption
    <3> QED BY <3>2, <3>3, RecordsFromType
  <2>2. Len(rest) \in Nat
    BY <1>3
  <2> QED BY <2>1, <2>2, IsASeq
<1>5. FlattenSeq(parts) \in Seq(Record)
  <2> HIDE DEF parts
  <2> QED BY <1>4, FlattenType
<1>6. ~ none => RecordsFrom(first.id, offset - first.base) \in Seq(Record)
  <2> SUFFICES ASSUME ~ none PROVE RecordsFrom(first.id, offset - first.base) \in Seq(Record)
    OBVIOUS
  <2>1. first \in Batch
    BY <1>1
  <2>2. first.id \in Batches /\ first.base \in Nat
    BY <2>1 DEF Batch
  <2>3. Count[first.id] \in Nat
    BY <2>2, BatchAssumption
  <2>4. offset - first.base \in 0 .. Count[first.id]
    <3> HIDE DEF first
    <3> QED BY <2>2, <2>3
  <2> HIDE DEF first, none
  <2> QED BY <2>2, <2>4, RecordsFromType
<1>7. ~ none => RecordsFrom(first.id, offset - first.base) \o FlattenSeq(parts) \in Seq(Record)
  <2> HIDE DEF none, first, parts
  <2> QED BY <1>5, <1>6, ConcatProperties
<1>8. <<>> \in Seq(Record)
  OBVIOUS
<1> HIDE DEF none, first, parts
<1> QED BY <1>2, <1>7, <1>8

-----------------------------------------------------------------------------
(* The files of a directory *)

Enumerates(s, D) ==
    /\ s \in [1 .. Cardinality(D) -> D]
    /\ \A i, j \in 1 .. Cardinality(D) : i < j => s[i] < s[j]

\* A finite set of offsets has an enumeration in ascending order: without its
\* greatest element it has one, and that element comes last.
LEMMA AscendingExists ==
    ASSUME NEW D, D \subseteq Nat, IsFiniteSet(D)
    PROVE  Enumerates(Ascending(D), D)
<1> DEFINE Bad == {k \in Nat : \E T \in SUBSET Nat :
                      IsFiniteSet(T) /\ Cardinality(T) = k /\ ~ \E s : Enumerates(s, T)}
<1>1. Bad = {}
  <2>1. SUFFICES ASSUME Bad # {} PROVE FALSE
    OBVIOUS
  <2>2. PICK k \in Bad : \A j \in Bad : k <= j
    <3>1. Bad \subseteq Nat
      OBVIOUS
    <3> HIDE DEF Bad
    <3> QED BY <2>1, <3>1, LeastNat
  <2>3. PICK T \in SUBSET Nat :
            IsFiniteSet(T) /\ Cardinality(T) = k /\ ~ \E s : Enumerates(s, T)
    BY <2>2
  <2>4. T # {}
    <3>1. SUFFICES ASSUME T = {} PROVE FALSE
      OBVIOUS
    <3>2. Cardinality(T) = 0 /\ 1 .. 0 = {}
      BY <3>1, FS_EmptySet
    <3>3. <<>> \in [1 .. 0 -> T]
      OBVIOUS
    <3>4. Enumerates(<<>>, T)
      BY <3>2, <3>3 DEF Enumerates
    <3> QED BY <2>3, <3>4
  <2> DEFINE m == Max(T)
             U == T \ {m}
  <2>5. m \in T /\ \A y \in T : y <= m
    BY <2>3, <2>4, MaxNat
  <2> HIDE DEF m
  <2>6. IsFiniteSet(U) /\ Cardinality(U) = k - 1 /\ U \in SUBSET Nat /\ k \in Nat /\ k - 1 \in Nat
    <3>1. IsFiniteSet(U) /\ Cardinality(U) = k - 1
      <4> HIDE DEF Bad
      <4> QED BY <2>3, <2>5, FS_RemoveElement
    <3>2. U \in SUBSET Nat /\ k \in Nat
      BY <2>2, <2>3
    <3>3. Cardinality(U) \in Nat
      BY <3>1, FS_CardinalityType
    <3> HIDE DEF Bad, U
    <3> QED BY <3>1, <3>2, <3>3
  <2>7. k - 1 \notin Bad
    <3>1. ~ (k <= k - 1)
      BY <2>6
    <3> HIDE DEF Bad
    <3> QED BY <2>2, <3>1
  <2>8. PICK s : Enumerates(s, U)
    BY <2>6, <2>7
  <2>9. /\ s \in [1 .. k - 1 -> U]
        /\ \A i, j \in 1 .. k - 1 : i < j => s[i] < s[j]
    BY <2>6, <2>8 DEF Enumerates
  <2> DEFINE t == [i \in 1 .. k |-> IF i = k THEN m ELSE s[i]]
  <2>10. \A i \in 1 .. k : i # k => i \in 1 .. k - 1
    BY <2>6
  <2>11. t \in [1 .. k -> T]
    BY <2>5, <2>9, <2>10
  <2>12. \A i, j \in 1 .. k : i < j => t[i] < t[j]
    <3> TAKE i, j \in 1 .. k
    <3>1. SUFFICES ASSUME i < j PROVE t[i] < t[j]
      OBVIOUS
    <3>2. i # k /\ i \in 1 .. k - 1 /\ t[i] = s[i]
      BY <2>10, <3>1
    <3>3. CASE j = k
      <4>1. s[i] \in T /\ s[i] # m /\ s[i] <= m /\ s[i] \in Nat /\ m \in Nat
        BY <2>3, <2>5, <2>9, <3>2
      <4>2. t[j] = m
        BY <3>3
      <4> HIDE DEF t
      <4> QED BY <3>2, <4>1, <4>2
    <3>4. CASE j # k
      BY <2>9, <2>10, <3>1, <3>2, <3>4
    <3> QED BY <3>3, <3>4
  <2>13. Enumerates(t, T)
    <3> HIDE DEF t
    <3> QED BY <2>3, <2>11, <2>12 DEF Enumerates
  <2> QED BY <2>3, <2>13
<1>2. \E s : Enumerates(s, D)
  <2>1. Cardinality(D) \in Nat
    BY FS_CardinalityType
  <2>2. Cardinality(D) \notin Bad
    BY <1>1
  <2> QED BY <2>1, <2>2
<1> QED BY <1>2 DEF Enumerates, Ascending

\* The enumeration lists the whole set.
LEMMA AscendingLists ==
    ASSUME NEW D, D \subseteq Nat, IsFiniteSet(D)
    PROVE  /\ Ascending(D) \in Seq(Nat)
           /\ Len(Ascending(D)) = Cardinality(D)
           /\ \A i \in 1 .. Len(Ascending(D)) : Ascending(D)[i] \in D
           /\ \A b \in D : \E i \in 1 .. Len(Ascending(D)) : Ascending(D)[i] = b
           /\ \A i, j \in 1 .. Len(Ascending(D)) : i < j => Ascending(D)[i] < Ascending(D)[j]
<1> DEFINE s == Ascending(D)
           n == Cardinality(D)
<1>1. Enumerates(s, D)
  BY AscendingExists
<1>2. n \in Nat
  BY FS_CardinalityType
<1> HIDE DEF s, n
<1>3. /\ s \in [1 .. n -> D]
      /\ \A i, j \in 1 .. n : i < j => s[i] < s[j]
  BY <1>1 DEF Enumerates, n
<1>4. s \in Seq(Nat) /\ Len(s) = n
  <2>1. s = [i \in 1 .. n |-> s[i]] /\ \A i \in 1 .. n : s[i] \in Nat
    BY <1>3
  <2>2. [i \in 1 .. n |-> s[i]] \in Seq(Nat)
    BY <1>2, <2>1, IsASeq
  <2>3. s \in Seq(Nat)
    BY <2>1, <2>2
  <2>4. DOMAIN s = 1 .. n
    BY <1>3
  <2>5. Len(s) = n
    BY <1>2, <2>3, <2>4, LenProperties
  <2> QED BY <2>3, <2>5
<1>5. s \in Injection(1 .. n, D)
  <2>1. ASSUME NEW i \in 1 .. n, NEW j \in 1 .. n, s[i] = s[j]
        PROVE  i = j
    <3>1. s[i] \in Nat /\ s[j] \in Nat /\ i \in Int /\ j \in Int
      <4>1. s[i] \in D /\ s[j] \in D
        BY <1>3
      <4>2. s[i] \in Nat /\ s[j] \in Nat
        BY <4>1
      <4>3. i \in Int /\ j \in Int
        OBVIOUS
      <4> QED BY <4>2, <4>3
    <3>2. ~ (i < j)
      BY <1>3, <2>1, <3>1
    <3>3. ~ (j < i)
      BY <1>3, <2>1, <3>1
    <3> QED BY <3>1, <3>2, <3>3
  <2> QED BY <1>3, <2>1 DEF Injection, IsInjective
<1>6. s \in Surjection(1 .. n, D)
  <2>1. Cardinality(1 .. n) = n
    <3>1. 1 \in Int /\ n \in Int /\ (1 > n => n = 0) /\ n - 1 + 1 = n
      BY <1>2
    <3> QED BY <3>1, FS_Interval
  <2>2. Cardinality(1 .. n) = Cardinality(D)
    BY <2>1 DEF n
  <2> QED BY <1>5, <2>2, FS_Injection
<1>7. \A b \in D : \E i \in 1 .. n : s[i] = b
  BY <1>6 DEF Surjection
<1>8. \A i \in 1 .. n : s[i] \in D
  BY <1>3
<1> QED BY <1>3, <1>4, <1>7, <1>8 DEF s, n

\* The first and the last of them.
LEMMA AscendingEnds ==
    ASSUME NEW D, D \subseteq Nat, IsFiniteSet(D), 0 \in D
    PROVE  /\ Len(Ascending(D)) \in Nat \ {0}
           /\ Ascending(D)[1] = 0
           /\ Ascending(D)[Len(Ascending(D))] = Max(D)
<1> DEFINE s == Ascending(D)
           n == Len(s)
<1>1. /\ s \in Seq(Nat)
      /\ \A i \in 1 .. n : s[i] \in D
      /\ \A b \in D : \E i \in 1 .. n : s[i] = b
      /\ \A i, j \in 1 .. n : i < j => s[i] < s[j]
  BY AscendingLists
<1>2. Max(D) \in D /\ \A y \in D : y <= Max(D)
  <2>1. D # {}
    OBVIOUS
  <2> QED BY <2>1, MaxNat
<1> HIDE DEF s
<1>3. n \in Nat
  BY <1>1
<1>4. PICK z \in 1 .. n : s[z] = 0
  BY <1>1
<1>5. PICK m \in 1 .. n : s[m] = Max(D)
  BY <1>1, <1>2
<1>6. 1 \in 1 .. n /\ n \in 1 .. n /\ n \in Nat \ {0}
  BY <1>3, <1>4
<1>7. z = 1
  <2>1. s[1] \in Nat
    BY <1>1, <1>6
  <2>2. ~ (1 < z)
    BY <1>1, <1>4, <1>6, <2>1
  <2> QED BY <1>3, <1>4, <2>2
<1>8. m = n
  <2>1. s[n] \in D /\ s[n] \in Nat /\ s[m] \in Nat
    BY <1>1, <1>5, <1>6
  <2>2. s[n] <= s[m]
    BY <1>2, <1>5, <2>1
  <2>3. ~ (m < n)
    <3>1. ~ (s[m] < s[n])
      BY <2>1, <2>2
    <3> QED BY <1>1, <1>5, <1>6, <3>1
  <2> QED BY <1>3, <1>5, <2>3
<1>9. n \in Nat \ {0} /\ s[1] = 0 /\ s[n] = Max(D)
  BY <1>4, <1>5, <1>6, <1>7, <1>8
<1> QED BY <1>9 DEF s

\* A new file that starts where no other does, or later, is the last one.
LEMMA MaxAdded ==
    ASSUME NEW D, D \subseteq Nat, NEW n \in Nat, \A y \in D : y <= n
    PROVE  Max(D \union {n}) = n
<1> DEFINE T == D \union {n}
<1>1. T \subseteq Nat /\ T # {} /\ n \in T /\ \A y \in T : y <= n
  OBVIOUS
<1>2. IsFiniteSet(T)
  <2>1. T \in SUBSET Nat
    OBVIOUS
  <2> HIDE DEF T
  <2> QED BY <1>1, <2>1, FS_BoundedSetOfNaturals
<1> HIDE DEF T
<1>3. Max(T) \in T /\ \A y \in T : y <= Max(T)
  BY <1>1, <1>2, MaxNat
<1>4. Max(T) = n
  <2>1. Max(T) <= n /\ n <= Max(T) /\ Max(T) \in Nat
    BY <1>1, <1>3
  <2> QED BY <2>1
<1> QED BY <1>4 DEF T

LEMMA CreatedFacts ==
    ASSUME NEW directory, NEW base
    PROVE  /\ DOMAIN Created(directory, base) = DOMAIN directory \union {base}
           /\ Created(directory, base)[base] = <<>>
           /\ \A b \in DOMAIN directory :
                 b # base => Created(directory, base)[b] = directory[b]
BY DEF Created

-----------------------------------------------------------------------------
(* What every partition keeps, truncated or not *)

\* A partition whose owner may truncate it anywhere, as RaftPartition does.
TruncatingNext == Next \/ \E offset \in Nat : Truncate(offset)

TruncatingSpec == Init /\ [][TruncatingNext]_vars

View(i) == snapshot.segments[i]
Views == 1 .. Len(snapshot.segments)

\* Views are of files of the directory, in order, the first of the file at 0, and
\* show no more of an index than there is.
Fits(segments, directory, entries) ==
    /\ \A i \in 1 .. Len(segments) :
          /\ segments[i].base \in DOMAIN directory
          /\ segments[i].indexCount <= Len(entries[segments[i].base])
    /\ \A i, j \in 1 .. Len(segments) : i < j => segments[i].base < segments[j].base
    /\ segments # <<>> => segments[1].base = 0

\* So are those of the snapshot, and the last is of the active file.
Laid ==
    /\ IsFiniteSet(DOMAIN files) /\ 0 \in DOMAIN files
    /\ snapshot.segments # <<>>
    /\ Fits(snapshot.segments, files, indexes)
    /\ View(Len(snapshot.segments)).base = ActiveBase
    /\ ActiveBase <= snapshot.leo

\* The records of an append that the snapshot does not show yet.
Unpublished == IF writing = Nil THEN 0 ELSE Count[writing.id]

FileEnd == ActiveBase + RecordsCount(Active)

\* The active file and the snapshot end where the history does, and not after it
\* even when batches were overwritten.
Ends ==
    /\ FileEnd <= Len(history)
    /\ ~ clobbered => FileEnd = Len(history)
    /\ up => snapshot.leo + Unpublished <= Len(history)
    /\ up /\ ~ clobbered => snapshot.leo + Unpublished = Len(history)
    /\ ~ up => writing = Nil

PartitionInv == TypeOK /\ Laid /\ Ends

\* What a command carries.
LEMMA CommandParts ==
    ASSUME NEW command \in Command
    PROVE  /\ command.cmd = "Append" => command.id \in Batches /\ command.acks \in AcksKinds
           /\ command.cmd = "UpdateReplicaLeo" => command.replica \in Replicas /\ command.leo \in Nat
           /\ command.cmd = "Truncate" => command.offset \in Nat
BY DEF Command

\* The command at the head of the channel, and the rest of them.
LEMMA ReceivedType ==
    ASSUME TypeOK, queue # <<>>
    PROVE  /\ Head(queue) \in Command
           /\ Tail(queue) \in Seq(Command)
           /\ Len(Tail(queue)) <= ChannelSize
<1>1. queue \in Seq(Command) /\ Len(queue) <= ChannelSize
  BY DEF TypeOK
<1>2. Head(queue) \in Command /\ Tail(queue) \in Seq(Command) /\ Len(Tail(queue)) = Len(queue) - 1
  BY <1>1, HeadTailProperties
<1>3. Len(queue) \in Nat /\ ChannelSize \in Nat
  BY <1>1, SizeAssumption
<1> QED BY <1>1, <1>2, <1>3

LEMMA EnqueueType ==
    ASSUME TypeOK, NEW command \in Command, Enqueue(command)
    PROVE  queue' \in Seq(Command) /\ Len(queue') <= ChannelSize
<1>1. queue \in Seq(Command) /\ Len(queue) < ChannelSize /\ queue' = Append(queue, command)
  BY DEF TypeOK, Enqueue
<1>2. queue' \in Seq(Command) /\ Len(queue') = Len(queue) + 1
  BY <1>1, AppendProperties
<1>3. Len(queue) \in Nat /\ ChannelSize \in Nat
  BY <1>1, SizeAssumption
<1> QED BY <1>1, <1>2, <1>3

\* A file of the directory is the active one, and no other starts later.
LEMMA ActiveFacts ==
    ASSUME TypeOK, Laid
    PROVE  /\ ActiveBase \in DOMAIN files
           /\ ActiveBase \in Nat
           /\ \A b \in DOMAIN files : b <= ActiveBase
           /\ Active \in Seq(Batch)
           /\ indexes[ActiveBase] \in Seq(IndexEntry)
           /\ RecordsCount(Active) \in Nat
<1>1. DOMAIN files \subseteq Nat /\ IsFiniteSet(DOMAIN files) /\ DOMAIN files # {}
  BY DEF TypeOK, Laid
<1>2. ActiveBase \in DOMAIN files /\ \A b \in DOMAIN files : b <= ActiveBase
  BY <1>1, MaxNat DEF ActiveBase
<1>3. Active \in Seq(Batch) /\ indexes[ActiveBase] \in Seq(IndexEntry)
  BY <1>2 DEF TypeOK, Active
<1> QED BY <1>1, <1>2, <1>3, RecordsCountType

\* The views have types.
LEMMA ViewFacts ==
    ASSUME TypeOK, Laid
    PROVE  /\ snapshot.segments \in Seq(SegmentView)
           /\ Len(snapshot.segments) \in Nat \ {0}
           /\ \A i \in Views : View(i) \in SegmentView /\ View(i).base \in Nat
           /\ \A i \in Views : View(i).base <= ActiveBase
           /\ snapshot.leo \in Nat /\ snapshot.hw \in Nat
           /\ snapshot.replicas \in [Replicas -> Nat]
<1>1. /\ snapshot.segments \in Seq(SegmentView)
      /\ snapshot.leo \in Nat /\ snapshot.hw \in Nat
      /\ snapshot.replicas \in [Replicas -> Nat]
  BY DEF TypeOK, PartitionState
<1>2. Len(snapshot.segments) \in Nat \ {0}
  BY <1>1 DEF Laid
<1>3. \A i \in Views : View(i) \in SegmentView /\ View(i).base \in Nat
  <2>1. \A i \in Views : View(i) \in SegmentView
    BY <1>1 DEF Views, View
  <2>2. \A v \in SegmentView : v.base \in Nat
    BY DEF SegmentView
  <2> QED BY <2>1, <2>2
<1>4. \A i \in Views : View(i).base <= ActiveBase
  BY ActiveFacts DEF Laid, Fits, Views, View
<1> QED BY <1>1, <1>2, <1>3, <1>4

\* The segment that a fetch reads is the last one that starts at or below the offset.
LEMMA SegmentForPicks ==
    ASSUME TypeOK, Laid, NEW offset \in Nat
    PROVE  LET n == SegmentFor(snapshot.segments, offset)
           IN  /\ n \in Views /\ View(n).base <= offset
               /\ \A j \in Views : j > n => View(j).base > offset
<1> DEFINE segments == snapshot.segments
           Below == {i \in Views : View(i).base <= offset}
           n == SegmentFor(segments, offset)
<1>1. /\ Len(segments) \in Nat \ {0}
      /\ \A i \in Views : View(i) \in SegmentView /\ View(i).base \in Nat
  BY ViewFacts
<1>2. 1 \in Below
  BY <1>1 DEF Views, View, Laid, Fits
<1>3. Below \subseteq Nat /\ IsFiniteSet(Below)
  <2>1. Below \subseteq Nat /\ \A i \in Below : i <= Len(segments)
    BY DEF Views
  <2>2. Below \in SUBSET Nat
    BY <2>1
  <2> HIDE DEF Below
  <2> QED BY <1>1, <2>1, <2>2, FS_BoundedSetOfNaturals
<1>4. Max(Below) \in Below /\ \A i \in Below : i <= Max(Below)
  <2> HIDE DEF Below
  <2> QED BY <1>2, <1>3, MaxNat
<1>5. \E i \in 1 .. Len(segments) :
         segments[i].base <= offset /\ \A j \in i + 1 .. Len(segments) : segments[j].base > offset
  <2> DEFINE m == Max(Below)
  <2>1. m \in 1 .. Len(segments) /\ segments[m].base <= offset
    BY <1>4 DEF Views, View
  <2>2. \A j \in m + 1 .. Len(segments) : segments[j].base > offset
    <3> TAKE j \in m + 1 .. Len(segments)
    <3>1. j \in Views /\ ~ (j <= m)
      BY <2>1 DEF Views
    <3>2. j \notin Below
      <4> HIDE DEF Below
      <4> QED BY <1>4, <3>1
    <3>3. segments[j].base \in Nat
      BY <1>1, <3>1 DEF View
    <3> QED BY <3>1, <3>2, <3>3 DEF View
  <2> HIDE DEF m
  <2> QED BY <2>1, <2>2
<1>6. /\ n \in 1 .. Len(segments) /\ segments[n].base <= offset
      /\ \A j \in n + 1 .. Len(segments) : segments[j].base > offset
  <2> HIDE DEF segments
  <2> QED BY <1>5 DEF SegmentFor
<1>7. n \in Nat /\ Len(segments) \in Nat
  BY <1>1, <1>6
<1> HIDE DEF n
<1>8. \A j \in Views : j > n => j \in n + 1 .. Len(segments)
  BY <1>7 DEF Views
<1> QED BY <1>6, <1>8 DEF Views, View, n

\* A fetch reads records.
LEMMA FetchRecordsType ==
    ASSUME TypeOK, Laid, NEW offset \in Nat, NEW fit \in Nat
    PROVE  FetchRecords(offset, fit) \in Seq(Record)
<1> DEFINE segments == snapshot.segments
           n == SegmentFor(segments, offset)
<1>1. /\ Len(segments) \in Nat \ {0}
      /\ \A i \in Views : View(i) \in SegmentView /\ View(i).base \in Nat
  BY ViewFacts
<1>2. n \in 1 .. Len(segments)
  BY SegmentForPicks DEF Views
<1> HIDE DEF n
<1>3. /\ View(n) \in SegmentView
      /\ View(n).base \in DOMAIN files
      /\ View(n).indexCount <= Len(indexes[View(n).base])
  BY <1>1, <1>2 DEF Views, View, Laid, Fits
<1>4. files[View(n).base] \in Seq(Batch) /\ indexes[View(n).base] \in Seq(IndexEntry)
  BY <1>3 DEF TypeOK
<1>5. SegmentFetch(files[View(n).base], indexes[View(n).base], View(n), offset, fit) \in Seq(Record)
  BY <1>3, <1>4, SegmentFetchType
<1>6. FetchRecords(offset, fit) =
          SegmentFetch(files[View(n).base], indexes[View(n).base], View(n), offset, fit)
  BY DEF FetchRecords, View, n
<1> QED BY <1>5, <1>6

\* Steps that write no file, publish nothing and do not change the history.
LEMMA QuietStep ==
    ASSUME Laid, Ends,
           UNCHANGED <<files, indexes, snapshot, writing, up, history, clobbered>>
    PROVE  Laid' /\ Ends'
<1>1. UNCHANGED <<ActiveBase, Active, Views, Unpublished, FileEnd>>
  BY DEF ActiveBase, Active, Views, Unpublished, FileEnd
<1>2. Laid'
  BY <1>1 DEF Laid, View
<1>3. Ends'
  BY <1>1 DEF Ends
<1> QED BY <1>2, <1>3

LEMMA InitHolds == Init => PartitionInv
<1> SUFFICES ASSUME Init PROVE PartitionInv
  OBVIOUS
<1> USE DEF Init
<1>1. /\ DOMAIN files = {0} /\ DOMAIN indexes = {0}
      /\ files[0] = <<>> /\ indexes[0] = <<>>
  OBVIOUS
<1>2. ActiveBase = 0 /\ Active = <<>>
  <2>1. Max({0}) = 0
    <3>1. {0} \subseteq Nat /\ {0} # {} /\ IsFiniteSet({0})
      BY FS_Singleton
    <3> QED BY <3>1, MaxNat
  <2> QED BY <1>1, <2>1 DEF ActiveBase, Active
<1>3. TypeOK
  <2>1. IndexInterval \in Nat /\ ChannelSize \in Nat /\ MaxCrashes \in Nat
    BY SegmentAssumption, SizeAssumption
  <2>2. snapshot \in PartitionState
    <3>1. <<FreshView(0)>> \in Seq(SegmentView)
      BY DEF FreshView, SegmentView
    <3> QED BY <3>1 DEF PartitionState
  <2>3. <<>> \in Seq(Batch) /\ <<>> \in Seq(IndexEntry)
    OBVIOUS
  <2>4. /\ DOMAIN files \subseteq Nat /\ \A b \in DOMAIN files : files[b] \in Seq(Batch)
        /\ DOMAIN indexes = DOMAIN files
        /\ \A b \in DOMAIN indexes : indexes[b] \in Seq(IndexEntry)
    BY <1>1, <2>3
  <2>5. /\ queue \in Seq(Command) /\ Len(queue) <= ChannelSize
        /\ pending \in Seq([hw : Nat, id : Batches])
        /\ history \in Seq(Record)
    BY <2>1
  <2>6. got \in [Readers -> Seq(Record)] /\ reply \in [Readers -> Answer \union {Nil}]
    OBVIOUS
  <2>7. /\ {cursor, size, since} \subseteq Nat
        /\ writing \in Writing \union {Nil}
        /\ crashes \in 0 .. MaxCrashes
    BY <2>1
  <2>8. /\ client \in [Batches -> {"idle", "waiting", "acked", "failed"}]
        /\ late \in [Replicas -> SUBSET Nat]
        /\ pos \in [Readers -> Nat]
        /\ up \in BOOLEAN /\ clobbered \in BOOLEAN
    OBVIOUS
  <2> QED BY <2>2, <2>4, <2>5, <2>6, <2>7, <2>8, Zenon DEF TypeOK
<1>4. Laid
  <2>1. /\ snapshot.segments = <<FreshView(0)>>
        /\ snapshot.leo = 0
    OBVIOUS
  <2>2. Views = {1} /\ View(1) = FreshView(0) /\ Len(snapshot.segments) = 1
    BY <2>1 DEF Views, View
  <2>3. IsFiniteSet(DOMAIN files)
    BY <1>1, FS_Singleton
  <2>4. View(1).base = 0 /\ View(1).indexCount = 0 /\ 0 <= Len(indexes[0])
    BY <1>1, <2>2 DEF FreshView
  <2> QED BY <1>1, <1>2, <2>1, <2>2, <2>3, <2>4 DEF Laid, Fits, Views, View
<1>5. Ends
  <2>1. FileEnd = 0
    BY <1>2, EmptyCount DEF FileEnd
  <2> QED BY <2>1 DEF Ends, Unpublished
<1> QED BY <1>3, <1>4, <1>5 DEF PartitionInv

\* Produce, Shutdown and Truncate put a command into the channel.
LEMMA SendSteps ==
    ASSUME TypeOK,
           \/ \E id \in Batches, acks \in AcksKinds : Produce(id, acks)
           \/ Shutdown
           \/ \E offset \in Nat : Truncate(offset)
    PROVE  TypeOK'
<1>1. CASE \E id \in Batches, acks \in AcksKinds : Produce(id, acks)
  <2> PICK id \in Batches, acks \in AcksKinds : Produce(id, acks)
    BY <1>1
  <2>1. [cmd |-> "Append", id |-> id, acks |-> acks] \in Command
    BY DEF Command
  <2>2. queue' \in Seq(Command) /\ Len(queue') <= ChannelSize
    BY <2>1, EnqueueType DEF Produce
  <2>3. client' \in [Batches -> {"idle", "waiting", "acked", "failed"}]
    BY DEF TypeOK, Produce
  <2> QED BY <2>2, <2>3 DEF TypeOK, Produce, actorVars, segmentVars, readerVars, historyVars
<1>2. CASE Shutdown
  <2>1. [cmd |-> "Shutdown"] \in Command
    BY DEF Command
  <2>2. queue' \in Seq(Command) /\ Len(queue') <= ChannelSize
    BY <1>2, <2>1, EnqueueType DEF Shutdown
  <2> QED BY <1>2, <2>2 DEF TypeOK, Shutdown, actorVars, segmentVars, readerVars, historyVars
<1>3. CASE \E offset \in Nat : Truncate(offset)
  <2> PICK offset \in Nat : Truncate(offset)
    BY <1>3
  <2>1. [cmd |-> "Truncate", offset |-> offset] \in Command
    BY DEF Command
  <2>2. queue' \in Seq(Command) /\ Len(queue') <= ChannelSize
    BY <2>1, EnqueueType DEF Truncate
  <2> QED BY <2>2 DEF TypeOK, Truncate, actorVars, segmentVars, readerVars, historyVars
<1> QED BY <1>1, <1>2, <1>3

LEMMA ReportType ==
    ASSUME TypeOK, NEW r \in Replicas, NEW leo \in Nat, Report(r, leo)
    PROVE  queue' \in Seq(Command) /\ Len(queue') <= ChannelSize
<1>1. [cmd |-> "UpdateReplicaLeo", replica |-> r, leo |-> leo] \in Command
  BY DEF Command
<1> QED BY <1>1, EnqueueType DEF Report

\* Fetch, Respond, Disconnect and LateReport.
LEMMA ReaderSteps ==
    ASSUME TypeOK, Laid,
           \/ \E r \in Readers, fit \in FetchSizes : Fetch(r, fit)
           \/ \E r \in Readers : Respond(r) \/ Disconnect(r)
           \/ \E r \in Replicas : LateReport(r)
    PROVE  TypeOK'
<1>1. CASE \E r \in Readers, fit \in FetchSizes : Fetch(r, fit)
  <2> PICK r \in Readers, fit \in FetchSizes : Fetch(r, fit)
    BY <1>1
  <2>1. pos[r] \in Nat /\ fit \in Nat
    BY SizeAssumption DEF TypeOK
  <2>2. FetchRecords(pos[r], fit) \in Seq(Record)
    BY <2>1, FetchRecordsType
  <2>3. snapshot.leo \in Nat
    BY ViewFacts
  <2>4. [leo |-> snapshot.leo, records |-> FetchRecords(pos[r], fit)] \in Answer
    BY <2>2, <2>3 DEF Answer
  <2>5. reply' \in [Readers -> Answer \union {Nil}]
    BY <2>4 DEF TypeOK, Fetch
  <2> QED BY <2>5 DEF TypeOK, Fetch, actorVars, segmentVars, historyVars
<1>2. ASSUME NEW r \in Readers, reply[r] # Nil
      PROVE  reply[r] \in Answer /\ reply[r].leo \in Nat /\ reply[r].records \in Seq(Record)
  <2>1. reply[r] \in Answer
    BY <1>2 DEF TypeOK
  <2> QED BY <2>1 DEF Answer
<1>3. CASE \E r \in Readers : Respond(r)
  <2> PICK r \in Readers : Respond(r)
    BY <1>3
  <2>1. reply[r].leo \in Nat /\ reply[r].records \in Seq(Record)
    BY <1>2 DEF Respond
  <2>2. queue' \in Seq(Command) /\ Len(queue') <= ChannelSize
    <3>1. CASE r \in Replicas
      BY <2>1, <3>1, ReportType DEF Respond
    <3>2. CASE r \notin Replicas
      BY <3>2 DEF Respond, TypeOK
    <3> QED BY <3>1, <3>2
  <2>3. pos' \in [Readers -> Nat]
    <3>1. Len(reply[r].records) \in Nat
      BY <2>1
    <3>2. pos' = [pos EXCEPT ![r] = pos[r] + Len(reply[r].records)]
      BY DEF Respond
    <3> QED BY <3>1, <3>2, SMTT(30) DEF TypeOK
  <2>4. got' \in [Readers -> Seq(Record)]
    <3>1. got[r] \o reply[r].records \in Seq(Record)
      BY <2>1, ConcatProperties DEF TypeOK
    <3>2. got' = [got EXCEPT ![r] = got[r] \o reply[r].records]
      BY DEF Respond
    <3> QED BY <3>1, <3>2 DEF TypeOK
  <2>5. reply' \in [Readers -> Answer \union {Nil}]
    BY DEF TypeOK, Respond
  <2> QED BY <2>2, <2>3, <2>4, <2>5 DEF TypeOK, Respond, actorVars, segmentVars, historyVars
<1>4. CASE \E r \in Readers : Disconnect(r)
  <2> PICK r \in Readers : Disconnect(r)
    BY <1>4
  <2>1. reply[r].leo \in Nat
    BY <1>2 DEF Disconnect
  <2>2. reply' \in [Readers -> Answer \union {Nil}]
    BY DEF TypeOK, Disconnect
  <2>3. late' \in [Replicas -> SUBSET Nat]
    <3>1. CASE r \in Replicas
      <4>1. late' = [late EXCEPT ![r] = late[r] \union {reply[r].leo}]
        BY <3>1 DEF Disconnect
      <4>2. late[r] \union {reply[r].leo} \in SUBSET Nat
        BY <2>1, <3>1 DEF TypeOK
      <4> QED BY <4>1, <4>2 DEF TypeOK
    <3>2. CASE r \notin Replicas
      BY <3>2 DEF Disconnect, TypeOK
    <3> QED BY <3>1, <3>2
  <2> QED BY <2>2, <2>3 DEF TypeOK, Disconnect, actorVars, segmentVars, historyVars
<1>5. CASE \E r \in Replicas : LateReport(r)
  <2> PICK r \in Replicas : LateReport(r)
    BY <1>5
  <2> PICK leo \in late[r] :
          /\ Report(r, leo)
          /\ late' = [late EXCEPT ![r] = late[r] \ {leo}]
          /\ UNCHANGED <<actorVars, client, reply, pos, got, historyVars>>
    BY DEF LateReport
  <2>1. leo \in Nat
    BY DEF TypeOK
  <2>2. queue' \in Seq(Command) /\ Len(queue') <= ChannelSize
    BY <2>1, ReportType
  <2>3. late' \in [Replicas -> SUBSET Nat]
    BY DEF TypeOK
  <2> QED BY <2>2, <2>3 DEF TypeOK, actorVars, segmentVars, historyVars
<1> QED BY <1>1, <1>3, <1>4, <1>5

\* A step of the actor that keeps the directory keeps what depends on it.
LEMMA SameFiles ==
    ASSUME DOMAIN files' = DOMAIN files
    PROVE  ActiveBase' = ActiveBase
BY DEF ActiveBase

LEMMA WriteStep == PartitionInv /\ WriteBatch => PartitionInv'
<1> SUFFICES ASSUME TypeOK, Laid, Ends, WriteBatch PROVE PartitionInv'
  BY DEF PartitionInv
<1> DEFINE id == Head(queue).id
           batch == [id |-> id, base |-> snapshot.leo]
           over == cursor < Len(Active)
           data == IF over THEN [Active EXCEPT ![cursor + 1] = batch] ELSE Append(Active, batch)
<1>1. up /\ writing = Nil /\ queue # <<>> /\ Head(queue).cmd = "Append"
  BY DEF WriteBatch, Receive
<1>2. id \in Batches /\ Head(queue).acks \in AcksKinds /\ Tail(queue) \in Seq(Command)
      /\ Len(Tail(queue)) <= ChannelSize
  BY <1>1, ReceivedType, CommandParts
<1>3. Count[id] \in Nat
  BY <1>2, BatchAssumption
<1>4. batch \in Batch
  BY <1>2, ViewFacts DEF Batch
<1>5. /\ files' = [files EXCEPT ![ActiveBase] = data]
      /\ cursor' = cursor + 1
      /\ writing' = [id |-> id, acks |-> Head(queue).acks, pos |-> Len(Active), indexed |-> FALSE]
      /\ queue' = Tail(queue)
      /\ history' = history \o RecordsFrom(id, 0)
      /\ clobbered' = (clobbered \/ over)
      /\ UNCHANGED <<indexes, size, since, snapshot, pending, up, client, readerVars, crashes>>
  BY DEF WriteBatch
<1>6. cursor \in Nat /\ Active \in Seq(Batch) /\ ActiveBase \in DOMAIN files /\ ActiveBase \in Nat
      /\ RecordsCount(Active) \in Nat /\ Len(Active) \in Nat
  <2>1. cursor \in Nat
    BY DEF TypeOK
  <2>2. Active \in Seq(Batch) /\ ActiveBase \in DOMAIN files /\ ActiveBase \in Nat
        /\ RecordsCount(Active) \in Nat
    BY ActiveFacts
  <2> QED BY <2>1, <2>2
<1> HIDE DEF id, batch
<1>7. /\ data \in Seq(Batch)
      /\ RecordsCount(data) \in Nat
      /\ RecordsCount(data) <= RecordsCount(Active) + Count[id]
      /\ ~ over => RecordsCount(data) = RecordsCount(Active) + Count[id]
  <2>1. batch.id = id
    BY DEF batch
  <2>2. CASE over
    <3>1. cursor + 1 \in 1 .. Len(Active)
      BY <1>6, <2>2
    <3>2. data = [Active EXCEPT ![cursor + 1] = batch]
      BY <2>2
    <3>3. data \in Seq(Batch)
      BY <1>4, <1>6, <3>1, <3>2, ExceptSeq
    <3>4. RecordsCount(data) <= RecordsCount(Active) + Count[id]
      BY <1>4, <1>6, <2>1, <3>1, <3>2, ReplaceCount
    <3> QED BY <2>2, <3>3, <3>4, RecordsCountType
  <2>3. CASE ~ over
    <3>1. data = Append(Active, batch)
      BY <2>3
    <3>2. data \in Seq(Batch)
      BY <1>4, <1>6, <3>1
    <3>3. RecordsCount(data) = RecordsCount(Active) + Count[id]
      BY <1>4, <1>6, <2>1, <3>1, AppendCount
    <3>4. RecordsCount(data) \in Nat
      BY <3>2, RecordsCountType
    <3> HIDE DEF data, over
    <3> QED BY <1>3, <1>6, <2>3, <3>2, <3>3, <3>4
  <2> QED BY <2>2, <2>3
<1> HIDE DEF data
<1>8. DOMAIN files' = DOMAIN files /\ ActiveBase' = ActiveBase /\ Active' = data
  <2>1. DOMAIN files' = DOMAIN files
    BY <1>5
  <2>2. ActiveBase' = ActiveBase
    BY <2>1, SameFiles
  <2>3. Active' = files'[ActiveBase]
    BY <2>2 DEF Active
  <2>4. files'[ActiveBase] = data
    BY <1>5, <1>6
  <2> QED BY <2>1, <2>2, <2>3, <2>4
<1>9. writing' \in Writing /\ writing' # Nil
  <2>1. writing' \in Writing
    BY <1>2, <1>5, <1>6 DEF Writing
  <2> QED BY <2>1, NilIsNoRecord
<1>10. history' \in Seq(Record) /\ Len(history') = Len(history) + Count[id]
       /\ Len(history) \in Nat
  <2>1. history \in Seq(Record)
    BY DEF TypeOK
  <2>2. 0 \in 0 .. Count[id] /\ Count[id] - 0 = Count[id]
    BY <1>3
  <2>3. RecordsFrom(id, 0) \in Seq(Record) /\ Len(RecordsFrom(id, 0)) = Count[id]
    BY <1>2, <2>2, RecordsFromType
  <2>4. /\ history \o RecordsFrom(id, 0) \in Seq(Record)
        /\ Len(history \o RecordsFrom(id, 0)) = Len(history) + Count[id]
    BY <2>1, <2>3, ConcatProperties
  <2>5. history' = history \o RecordsFrom(id, 0)
    BY <1>5
  <2>6. Len(history) \in Nat
    BY <2>1
  <2> QED BY <2>4, <2>5, <2>6, Zenon
<1>11. TypeOK'
  <2>1. \A b \in DOMAIN files' : files'[b] \in Seq(Batch)
    BY <1>5, <1>7 DEF TypeOK
  <2>2. {cursor', size', since'} \subseteq Nat
    BY <1>5 DEF TypeOK
  <2>3. clobbered' \in BOOLEAN
    BY <1>5, <1>6
  <2> QED BY <1>2, <1>5, <1>8, <1>9, <1>10, <2>1, <2>2, <2>3 DEF TypeOK, readerVars
<1>12. Laid'
  <2>1. UNCHANGED <<Views, snapshot, indexes>>
    BY <1>5 DEF Views
  <2> QED BY <1>8, <2>1 DEF Laid, Fits, View
<1>13. Ends'
  <2>1. FileEnd' = ActiveBase + RecordsCount(data)
    BY <1>8 DEF FileEnd
  <2>2. Unpublished' = Count[id] /\ Unpublished = 0
    BY <1>1, <1>5, <1>9 DEF Unpublished
  <2>3. FileEnd' <= Len(history')
    BY <1>3, <1>6, <1>7, <1>10, <2>1 DEF Ends, FileEnd
  <2>0. ~ clobbered' => ~ clobbered /\ ~ over
    BY <1>5, Zenon
  <2>4. ~ clobbered' => FileEnd' = Len(history')
    <3> SUFFICES ASSUME ~ clobbered' PROVE FileEnd' = Len(history')
      OBVIOUS
    <3>1. FileEnd = Len(history) /\ RecordsCount(data) = RecordsCount(Active) + Count[id]
      BY <1>7, <2>0 DEF Ends
    <3> QED BY <1>3, <1>6, <1>10, <2>1, <3>1 DEF FileEnd
  <2>5. snapshot'.leo + Unpublished' <= Len(history')
    BY <1>1, <1>3, <1>5, <1>10, <2>2, ViewFacts DEF Ends
  <2>6. ~ clobbered' => snapshot'.leo + Unpublished' = Len(history')
    <3> SUFFICES ASSUME ~ clobbered' PROVE snapshot'.leo + Unpublished' = Len(history')
      OBVIOUS
    <3>1. snapshot.leo + Unpublished = Len(history)
      BY <1>1, <2>0 DEF Ends
    <3>2. snapshot' = snapshot /\ snapshot.leo \in Nat
      BY <1>5, ViewFacts
    <3> QED BY <1>3, <1>10, <2>2, <3>1, <3>2
  <2> QED BY <1>1, <1>5, <2>3, <2>4, <2>5, <2>6 DEF Ends
<1> QED BY <1>11, <1>12, <1>13 DEF PartitionInv

LEMMA IndexStep == PartitionInv /\ IndexBatch => PartitionInv'
<1> SUFFICES ASSUME TypeOK, Laid, Ends, IndexBatch PROVE PartitionInv'
  BY DEF PartitionInv
<1> DEFINE index == indexes[ActiveBase]
           entry == [offset |-> snapshot.leo, pos |-> writing.pos]
           due == IndexDue(index, since + 1)
<1>1. /\ writing # Nil
      /\ indexes' = IF due THEN [indexes EXCEPT ![ActiveBase] = Append(index, entry)] ELSE indexes
      /\ since' = IF due THEN 0 ELSE since + 1
      /\ size' = size + 1
      /\ writing' = [writing EXCEPT !.indexed = TRUE]
      /\ UNCHANGED <<files, cursor, snapshot, pending, up, queue, client, readerVars, historyVars>>
  BY DEF IndexBatch
<1>2. writing \in Writing
  BY <1>1 DEF TypeOK
<1>3. writing' \in Writing /\ writing' # Nil /\ writing'.id = writing.id
  <2>1. writing' \in Writing /\ writing'.id = writing.id
    BY <1>1, <1>2 DEF Writing
  <2> QED BY <2>1, NilIsNoRecord
<1>4. /\ ActiveBase \in DOMAIN files
      /\ index \in Seq(IndexEntry)
      /\ entry \in IndexEntry
  BY <1>2, ActiveFacts, ViewFacts DEF IndexEntry, Writing
<1> HIDE DEF entry, due
<1>5. Append(index, entry) \in Seq(IndexEntry) /\ Len(Append(index, entry)) = Len(index) + 1
  BY <1>4, AppendProperties
<1>6. /\ DOMAIN indexes' = DOMAIN indexes
      /\ \A b \in DOMAIN indexes : indexes'[b] \in Seq(IndexEntry) /\ Len(indexes[b]) <= Len(indexes'[b])
  <2>0. DOMAIN indexes = DOMAIN files /\ \A b \in DOMAIN indexes : indexes[b] \in Seq(IndexEntry)
    BY DEF TypeOK
  <2>1. CASE due
    <3>1. indexes' = [indexes EXCEPT ![ActiveBase] = Append(index, entry)]
      BY <1>1, <2>1
    <3>2. DOMAIN indexes' = DOMAIN indexes
      BY <3>1
    <3>3. ASSUME NEW b \in DOMAIN indexes
          PROVE  indexes'[b] \in Seq(IndexEntry) /\ Len(indexes[b]) <= Len(indexes'[b])
      <4>1. CASE b = ActiveBase
        <5>1. indexes'[b] = Append(index, entry)
          BY <3>1, <3>3, <4>1
        <5>2. Len(index) \in Nat
          BY <1>4
        <5> QED BY <1>5, <4>1, <5>1, <5>2
      <4>2. CASE b # ActiveBase
        <5>1. indexes'[b] = indexes[b]
          BY <3>1, <3>3, <4>2
        <5>2. indexes[b] \in Seq(IndexEntry) /\ Len(indexes[b]) \in Nat
          BY <2>0, <3>3
        <5> QED BY <5>1, <5>2
      <4> QED BY <4>1, <4>2
    <3> QED BY <3>2, <3>3
  <2>2. CASE ~ due
    <3>1. indexes' = indexes
      BY <1>1, <2>2
    <3>2. \A b \in DOMAIN indexes : Len(indexes[b]) \in Nat
      BY <2>0
    <3> QED BY <2>0, <3>1, <3>2
  <2> QED BY <2>1, <2>2
<1>7. TypeOK'
  <2>1. size' \in Nat /\ since' \in Nat
    BY <1>1 DEF TypeOK
  <2>2. {cursor', size', since'} \subseteq Nat
    BY <1>1, <2>1 DEF TypeOK
  <2> QED BY <1>1, <1>3, <1>6, <2>2 DEF TypeOK, readerVars, historyVars
<1>8. UNCHANGED <<ActiveBase, Active, Views, FileEnd>>
  BY <1>1 DEF ActiveBase, Active, Views, FileEnd
<1>9. Laid'
  <2>1. \A i \in Views : View(i).indexCount <= Len(indexes'[View(i).base])
    <3> TAKE i \in Views
    <3>1. View(i).base \in DOMAIN indexes /\ View(i).indexCount <= Len(indexes[View(i).base])
      BY DEF Laid, Fits, TypeOK, Views, View
    <3>2. View(i).indexCount \in Nat
      BY ViewFacts DEF SegmentView
    <3>3. Len(indexes[View(i).base]) \in Nat /\ Len(indexes'[View(i).base]) \in Nat
      BY <1>6, <3>1 DEF TypeOK
    <3>4. Len(indexes[View(i).base]) <= Len(indexes'[View(i).base])
      BY <1>6, <3>1
    <3> QED BY <3>1, <3>2, <3>3, <3>4
  <2>2. snapshot' = snapshot /\ files' = files
    BY <1>1
  <2> QED BY <1>8, <2>1, <2>2 DEF Laid, Fits, Views, View
<1>10. Ends'
  <2>1. Unpublished' = Unpublished
    BY <1>1, <1>3 DEF Unpublished
  <2> QED BY <1>1, <1>3, <1>8, <2>1 DEF Ends, historyVars
<1> QED BY <1>7, <1>9, <1>10 DEF PartitionInv

\* A new file at a later offset, and its view.
LEMMA FitsFresh ==
    ASSUME NEW segments \in Seq(SegmentView), NEW directory, NEW entries,
           DOMAIN entries = DOMAIN directory,
           Fits(segments, directory, entries),
           NEW base \in Nat,
           \A i \in 1 .. Len(segments) : segments[i].base < base,
           segments = <<>> => base = 0
    PROVE  /\ Append(segments, FreshView(base)) \in Seq(SegmentView)
           /\ Append(segments, FreshView(base)) # <<>>
           /\ Append(segments, FreshView(base))[Len(Append(segments, FreshView(base)))].base = base
           /\ Fits(Append(segments, FreshView(base)), Created(directory, base), Created(entries, base))
<1> DEFINE more == Append(segments, FreshView(base))
           n == Len(segments)
           dir == Created(directory, base)
           idx == Created(entries, base)
<1>1. FreshView(base) \in SegmentView /\ FreshView(base).base = base /\ FreshView(base).indexCount = 0
  BY DEF FreshView, SegmentView
<1>2. /\ more \in Seq(SegmentView) /\ Len(more) = n + 1 /\ n \in Nat /\ more # <<>>
      /\ \A i \in 1 .. n : more[i] = segments[i]
      /\ more[n + 1] = FreshView(base)
  BY <1>1, AppendProperties
<1>3. \A i \in 1 .. n + 1 : i \in 1 .. n \/ i = n + 1
  BY <1>2
<1>4. /\ \A b \in DOMAIN directory : b \in DOMAIN dir
      /\ base \in DOMAIN dir
      /\ idx[base] = <<>>
      /\ \A b \in DOMAIN entries : b # base => idx[b] = entries[b]
  <2>1. DOMAIN dir = DOMAIN directory \union {base}
    BY CreatedFacts
  <2>2. idx[base] = <<>> /\ \A b \in DOMAIN entries : b # base => idx[b] = entries[b]
    BY CreatedFacts
  <2> HIDE DEF dir, idx
  <2> QED BY <2>1, <2>2
<1> HIDE DEF more, dir, idx
<1>5. ASSUME NEW i \in 1 .. n + 1
      PROVE  more[i].base \in DOMAIN dir /\ more[i].indexCount <= Len(idx[more[i].base])
  <2>1. CASE i \in 1 .. n
    <3>1. segments[i].base \in DOMAIN directory /\ segments[i].indexCount <= Len(entries[segments[i].base])
      BY <2>1 DEF Fits
    <3>2. segments[i].base # base
      <4>1. segments[i].base < base /\ segments[i].base \in Nat
        <5>1. segments[i] \in SegmentView
          BY <2>1
        <5> QED BY <2>1, <5>1 DEF SegmentView
      <4> QED BY <4>1
    <3> QED BY <1>2, <1>4, <2>1, <3>1, <3>2
  <2>2. CASE i = n + 1
    <3>1. Len(idx[base]) = 0
      BY <1>4
    <3> QED BY <1>1, <1>2, <1>4, <2>2, <3>1
  <2> QED BY <1>3, <2>1, <2>2
<1>6. ASSUME NEW i \in 1 .. n + 1, NEW j \in 1 .. n + 1, i < j
      PROVE  more[i].base < more[j].base
  <2>1. i \in 1 .. n /\ more[i] = segments[i]
    BY <1>2, <1>6
  <2>2. CASE j \in 1 .. n
    BY <1>2, <1>6, <2>1, <2>2 DEF Fits
  <2>3. CASE j = n + 1
    BY <1>1, <1>2, <2>1, <2>3
  <2> QED BY <1>3, <2>2, <2>3
<1>7. more[1].base = 0
  <2>1. CASE segments = <<>>
    <3>1. n = 0 /\ more[1] = FreshView(base)
      BY <1>2, <2>1
    <3> QED BY <1>1, <2>1, <3>1
  <2>2. CASE segments # <<>>
    <3>1. 1 \in 1 .. n
      BY <1>2, <2>2
    <3> QED BY <1>2, <2>2, <3>1 DEF Fits
  <2> QED BY <2>1, <2>2
<1>8. Fits(more, dir, idx)
  BY <1>2, <1>5, <1>6, <1>7 DEF Fits
<1>9. more[Len(more)].base = base
  BY <1>1, <1>2
<1> QED BY <1>2, <1>8, <1>9 DEF more, dir, idx

\* A new file that starts past the others is the active one, and empty.
LEMMA CreatedActive ==
    ASSUME NEW D, D \subseteq Nat, IsFiniteSet(D), NEW base \in Nat, \A y \in D : y <= base,
           DOMAIN files' = D \union {base}, files'[base] = <<>>
    PROVE  /\ ActiveBase' = base /\ Active' = <<>> /\ FileEnd' = base
           /\ IsFiniteSet(DOMAIN files')
<1>1. ActiveBase' = base
  BY MaxAdded DEF ActiveBase
<1>2. Active' = <<>>
  BY <1>1 DEF Active
<1>3. FileEnd' = base
  BY <1>1, <1>2, EmptyCount DEF FileEnd
<1>4. IsFiniteSet(DOMAIN files')
  BY FS_AddElement
<1> QED BY <1>1, <1>2, <1>3, <1>4

\* The directory with a new file has the types of the directory.
LEMMA CreatedType ==
    ASSUME NEW S, NEW directory, NEW base, \A b \in DOMAIN directory : directory[b] \in Seq(S)
    PROVE  \A b \in DOMAIN Created(directory, base) : Created(directory, base)[b] \in Seq(S)
<1>1. <<>> \in Seq(S)
  OBVIOUS
<1> QED BY <1>1 DEF Created

LEMMA PublishStep == PartitionInv /\ PublishBatch => PartitionInv'
<1> SUFFICES ASSUME TypeOK, Laid, Ends, PublishBatch PROVE PartitionInv'
  BY DEF PartitionInv
<1> DEFINE segments == snapshot.segments
           n == Len(segments)
           leo == snapshot.leo + Count[writing.id]
           view == [base |-> ActiveBase, size |-> size, indexCount |-> Len(indexes[ActiveBase])]
           views == [segments EXCEPT ![n] = view]
           full == size >= SegmentBytes
<1>1. /\ writing # Nil
      /\ snapshot' = [segments |-> IF full THEN Append(views, FreshView(NewBase(leo))) ELSE views,
                      leo |-> leo,
                      hw |-> IF Replicas = {} THEN snapshot.hw + Count[writing.id] ELSE snapshot.hw,
                      replicas |-> snapshot.replicas]
      /\ IF full THEN OpenFresh(NewBase(leo)) ELSE UNCHANGED segmentVars
      /\ IF writing.acks = "All"
         THEN pending' = Append(pending, [hw |-> leo, id |-> writing.id]) /\ UNCHANGED client
         ELSE client' = [client EXCEPT ![writing.id] = "acked"] /\ UNCHANGED pending
      /\ writing' = Nil
      /\ UNCHANGED <<up, queue, readerVars, historyVars>>
  BY DEF PublishBatch
<1>2. writing.id \in Batches /\ Count[writing.id] \in Nat /\ Count[writing.id] > 0
  <2>1. writing \in Writing
    BY <1>1 DEF TypeOK
  <2>2. writing.id \in Batches
    BY <2>1 DEF Writing
  <2> QED BY <2>2, BatchAssumption
<1>3. /\ segments \in Seq(SegmentView)
      /\ n \in Nat \ {0}
      /\ snapshot.leo \in Nat /\ snapshot.hw \in Nat
      /\ snapshot.replicas \in [Replicas -> Nat]
  BY ViewFacts
<1>4. /\ ActiveBase \in DOMAIN files /\ ActiveBase \in Nat
      /\ \A b \in DOMAIN files : b <= ActiveBase
      /\ indexes[ActiveBase] \in Seq(IndexEntry)
  BY ActiveFacts
<1>5. leo \in Nat /\ ActiveBase < leo /\ leo = snapshot.leo + Unpublished
  BY <1>1, <1>2, <1>3, <1>4 DEF Laid, Unpublished
<1>6. view \in SegmentView
  BY <1>4 DEF SegmentView, TypeOK
<1>7. /\ view.base = ActiveBase
      /\ view.indexCount = Len(indexes[ActiveBase]) /\ Len(indexes[ActiveBase]) \in Nat
  BY <1>4
<1>8. /\ DOMAIN indexes = DOMAIN files /\ DOMAIN files \subseteq Nat
      /\ \A b \in DOMAIN files : files[b] \in Seq(Batch)
      /\ \A b \in DOMAIN indexes : indexes[b] \in Seq(IndexEntry)
      /\ IsFiniteSet(DOMAIN files) /\ 0 \in DOMAIN files
  BY DEF TypeOK, Laid
<1>9. up
  BY <1>1 DEF Ends
<1> HIDE DEF view, leo, segments, n, full
<1>10. /\ views \in Seq(SegmentView) /\ Len(views) = n /\ views # <<>>
       /\ \A i \in 1 .. n : views[i] = IF i = n THEN view ELSE segments[i]
  <2>1. n \in 1 .. Len(segments) /\ n = Len(segments)
    BY <1>3 DEF n
  <2>2. views \in Seq(SegmentView) /\ Len(views) = Len(segments)
    BY <1>3, <1>6, <2>1, ExceptSeq
  <2>3. \A i \in 1 .. n : views[i] = IF i = n THEN view ELSE segments[i]
    BY <1>3, <2>1
  <2> QED BY <1>3, <2>1, <2>2, <2>3
<1>11. Fits(segments, files, indexes) /\ segments # <<>> /\ segments[n].base = ActiveBase
  BY DEF Laid, View, n, segments
<1> HIDE DEF views
<1>12. /\ \A i \in 1 .. n : views[i].base = segments[i].base
       /\ n = Len(segments) /\ n \in 1 .. n /\ 1 \in 1 .. n
  BY <1>3, <1>7, <1>10, <1>11 DEF n
<1>13. Fits(views, files, indexes)
  <2>1. ASSUME NEW i \in 1 .. n
        PROVE  views[i].base \in DOMAIN files /\ views[i].indexCount <= Len(indexes[views[i].base])
    <3>1. CASE i = n
      BY <1>4, <1>7, <1>10, <3>1
    <3>2. CASE i # n
      BY <1>10, <1>11, <1>12, <3>2 DEF Fits
    <3> QED BY <3>1, <3>2
  <2>2. \A i, j \in 1 .. n : i < j => views[i].base < views[j].base
    BY <1>11, <1>12 DEF Fits
  <2>3. views[1].base = 0
    BY <1>11, <1>12 DEF Fits
  <2> QED BY <1>10, <2>1, <2>2, <2>3 DEF Fits
<1>14. views[n].base = ActiveBase
  BY <1>11, <1>12
<1>15. /\ pending' \in Seq([hw : Nat, id : Batches])
       /\ client' \in [Batches -> {"idle", "waiting", "acked", "failed"}]
  <2>1. CASE writing.acks = "All"
    <3>1. pending' = Append(pending, [hw |-> leo, id |-> writing.id]) /\ client' = client
      BY <1>1, <2>1
    <3>2. [hw |-> leo, id |-> writing.id] \in [hw : Nat, id : Batches]
      BY <1>2, <1>5
    <3>3. pending \in Seq([hw : Nat, id : Batches])
      BY DEF TypeOK
    <3>4. pending' \in Seq([hw : Nat, id : Batches])
      BY <3>1, <3>2, <3>3, AppendProperties
    <3> QED BY <3>1, <3>4 DEF TypeOK
  <2>2. CASE writing.acks # "All"
    BY <1>1, <2>2 DEF TypeOK
  <2> QED BY <2>1, <2>2
<1>16. snapshot'.segments = (IF full THEN Append(views, FreshView(leo)) ELSE views)
       /\ snapshot'.leo = leo
  BY <1>1 DEF NewBase
<1>17. snapshot'.segments \in Seq(SegmentView) => snapshot' \in PartitionState
  <2>1. (IF Replicas = {} THEN snapshot.hw + Count[writing.id] ELSE snapshot.hw) \in Nat
    BY <1>2, <1>3
  <2> QED BY <1>1, <1>3, <1>5, <2>1 DEF PartitionState
<1>18. /\ snapshot' \in PartitionState
       /\ DOMAIN files' \subseteq Nat /\ \A b \in DOMAIN files' : files'[b] \in Seq(Batch)
       /\ DOMAIN indexes' = DOMAIN files'
       /\ \A b \in DOMAIN indexes' : indexes'[b] \in Seq(IndexEntry)
       /\ {cursor', size', since'} \subseteq Nat
       /\ Laid'
       /\ FileEnd' = IF full THEN leo ELSE FileEnd
  <2>1. CASE full
    <3>1. /\ files' = Created(files, leo) /\ indexes' = Created(indexes, leo)
          /\ cursor' = 0 /\ size' = 0 /\ since' = IndexInterval
      BY <1>1, <2>1 DEF OpenFresh, NewBase
    <3>2. /\ DOMAIN files' = DOMAIN files \union {leo} /\ DOMAIN indexes' = DOMAIN files'
          /\ files'[leo] = <<>>
      <4>1. DOMAIN files' = DOMAIN files \union {leo} /\ files'[leo] = <<>>
        BY <3>1, CreatedFacts
      <4>2. DOMAIN indexes' = DOMAIN indexes \union {leo}
        BY <3>1, CreatedFacts
      <4> QED BY <1>8, <4>1, <4>2
    <3>3. /\ \A b \in DOMAIN files' : files'[b] \in Seq(Batch)
          /\ \A b \in DOMAIN indexes' : indexes'[b] \in Seq(IndexEntry)
      BY <1>8, <3>1, CreatedType
    <3>4. ActiveBase' = leo /\ FileEnd' = leo /\ IsFiniteSet(DOMAIN files')
      <4>1. \A b \in DOMAIN files : b <= leo
        BY <1>4, <1>5, <1>8
      <4> QED BY <1>5, <1>8, <3>2, <4>1, CreatedActive
    <3>5. \A i \in 1 .. Len(views) : views[i].base < leo
      <4> TAKE i \in 1 .. Len(views)
      <4>1. views[i].base \in DOMAIN files
        BY <1>10, <1>13 DEF Fits
      <4> QED BY <1>4, <1>5, <1>8, <4>1
    <3>6. /\ snapshot'.segments \in Seq(SegmentView)
          /\ snapshot'.segments # <<>>
          /\ snapshot'.segments[Len(snapshot'.segments)].base = leo
          /\ Fits(snapshot'.segments, files', indexes')
      <4>1. /\ Append(views, FreshView(leo)) \in Seq(SegmentView)
            /\ Append(views, FreshView(leo)) # <<>>
            /\ Append(views, FreshView(leo))[Len(Append(views, FreshView(leo)))].base = leo
            /\ Fits(Append(views, FreshView(leo)), Created(files, leo), Created(indexes, leo))
        <5>1. DOMAIN indexes = DOMAIN files /\ (views = <<>> => leo = 0)
          BY <1>8, <1>10
        <5> QED BY <1>5, <1>10, <1>13, <3>5, <5>1, FitsFresh
      <4>2. snapshot'.segments = Append(views, FreshView(leo))
        BY <1>16, <2>1
      <4> QED BY <3>1, <4>1, <4>2
    <3>7. {cursor', size', since'} \subseteq Nat
      BY <3>1, SegmentAssumption
    <3>8. Laid'
      BY <1>5, <1>8, <1>16, <3>2, <3>4, <3>6 DEF Laid, View
    <3> QED BY <1>5, <1>8, <1>17, <2>1, <3>2, <3>3, <3>4, <3>6, <3>7, <3>8
  <2>2. CASE ~ full
    <3>1. UNCHANGED <<files, indexes, cursor, size, since>> /\ snapshot'.segments = views
      BY <1>1, <1>16, <2>2 DEF segmentVars
    <3>2. UNCHANGED <<ActiveBase, Active, FileEnd>>
      BY <3>1 DEF ActiveBase, Active, FileEnd
    <3>3. Laid'
      <4>1. ActiveBase <= leo
        BY <1>4, <1>5
      <4> QED BY <1>8, <1>10, <1>13, <1>14, <1>16, <3>1, <3>2, <4>1 DEF Laid, View
    <3> QED BY <1>10, <1>17, <2>2, <3>1, <3>2, <3>3 DEF TypeOK
  <2> QED BY <2>1, <2>2
<1>19. TypeOK'
  BY <1>1, <1>15, <1>18 DEF TypeOK, readerVars, historyVars
<1>20. Ends'
  <2>1. Unpublished' = 0
    BY <1>1 DEF Unpublished
  <2>2. history' = history /\ clobbered' = clobbered /\ up'
    BY <1>1, <1>9 DEF historyVars
  <2>3. leo <= Len(history) /\ (~ clobbered => leo = Len(history))
    BY <1>5, <1>9 DEF Ends
  <2>4. FileEnd <= Len(history) /\ (~ clobbered => FileEnd = Len(history))
    BY DEF Ends
  <2>5. leo + 0 = leo
    BY <1>5
  <2> QED BY <1>16, <1>18, <2>1, <2>2, <2>3, <2>4, <2>5 DEF Ends
<1> QED BY <1>18, <1>19, <1>20 DEF PartitionInv

\* The acknowledgements a watermark releases are the first ones.
LEMMA ReleasedFirst ==
    ASSUME TypeOK, NEW hw
    PROVE  /\ Cardinality(Released(hw)) \in 0 .. Len(pending)
           /\ Released(hw) = 1 .. Cardinality(Released(hw))
           /\ Len(pending) \in Nat
<1>1. Len(pending) \in Nat
  BY DEF TypeOK
<1>2. Released(hw) \subseteq 1 .. Len(pending)
  BY DEF Released
<1>3. \A i \in Released(hw) : \A j \in 1 .. i : j \in Released(hw)
  BY <1>1 DEF Released
<1> QED BY <1>1, <1>2, <1>3, PrefixSet

\* The reports of the replicas after a command, and their least.
LEMMA LeastReport ==
    ASSUME NEW reports \in [Replicas -> Nat], Replicas # {}
    PROVE  /\ Min({reports[r] : r \in Replicas}) \in Nat
           /\ \E r \in Replicas : Min({reports[q] : q \in Replicas}) = reports[r]
           /\ \A r \in Replicas : Min({reports[q] : q \in Replicas}) <= reports[r]
<1> DEFINE T == {reports[r] : r \in Replicas}
<1>1. T \subseteq Nat /\ T # {} /\ \A r \in Replicas : reports[r] \in T
  OBVIOUS
<1>2. Min(T) \in T /\ \A y \in T : Min(T) <= y
  <2> HIDE DEF T
  <2> QED BY <1>1, MinNat
<1>3. Min(T) \in Nat /\ \A r \in Replicas : Min(T) <= reports[r]
  <2> HIDE DEF T
  <2> QED BY <1>1, <1>2
<1> DEFINE m == Min(T)
<1>4. m \in T
  BY <1>2
<1>5. \E r \in Replicas : m = reports[r]
  <2> HIDE DEF m
  <2> QED BY <1>4
<1> QED BY <1>3, <1>5

LEMMA ReportedType ==
    ASSUME NEW old \in Nat, NEW leo \in Nat
    PROVE  /\ ReplicaLeo(old, leo) \in {old, leo}
           /\ ReplicaLeo(old, leo) >= old
           /\ ReplicaLeo(old, leo) >= leo
BY MaxPair DEF ReplicaLeo

\* What UpdateReplicaLeo changes.
LEMMA UpdateParts ==
    ASSUME TypeOK, Laid, UpdateReplicaLeo
    PROVE  /\ Head(queue).replica \in Replicas /\ Head(queue).leo \in Nat
           /\ snapshot'.replicas = [snapshot.replicas EXCEPT ![Head(queue).replica] =
                 ReplicaLeo(snapshot.replicas[Head(queue).replica], Head(queue).leo)]
           /\ snapshot'.replicas \in [Replicas -> Nat]
           /\ snapshot'.hw = Min({snapshot'.replicas[r] : r \in Replicas})
           /\ snapshot'.hw \in Nat
           /\ snapshot' \in PartitionState
           /\ snapshot'.segments = snapshot.segments
           /\ snapshot'.leo = snapshot.leo
           /\ pending' = SubSeq(pending, Cardinality(Released(snapshot'.hw)) + 1, Len(pending))
           /\ client' = [id \in Batches |->
                           IF \E i \in Released(snapshot'.hw) : pending[i].id = id THEN "acked"
                                                                                 ELSE client[id]]
<1> DEFINE r == Head(queue).replica
           leo == Head(queue).leo
           reports == [snapshot.replicas EXCEPT ![r] = ReplicaLeo(@, leo)]
           hw == Min({reports[q] : q \in Replicas})
<1>1. r \in Replicas /\ leo \in Nat
  <2>1. queue # <<>> /\ Head(queue).cmd = "UpdateReplicaLeo"
    BY DEF UpdateReplicaLeo, Receive
  <2> QED BY <2>1, ReceivedType, CommandParts
<1>2. /\ snapshot.segments \in Seq(SegmentView)
      /\ snapshot.leo \in Nat /\ snapshot.hw \in Nat
      /\ snapshot.replicas \in [Replicas -> Nat]
  BY ViewFacts
<1>3. ReplicaLeo(snapshot.replicas[r], leo) \in Nat
  BY <1>1, <1>2, ReportedType
<1>4. reports \in [Replicas -> Nat]
  BY <1>1, <1>2, <1>3
<1>5. hw \in Nat
  <2> HIDE DEF reports
  <2> QED BY <1>1, <1>4, LeastReport
<1>6. /\ snapshot' = [snapshot EXCEPT !.replicas = reports, !.hw = hw]
      /\ client' = [id \in Batches |->
                      IF \E i \in Released(hw) : pending[i].id = id THEN "acked" ELSE client[id]]
      /\ pending' = SubSeq(pending, Cardinality(Released(hw)) + 1, Len(pending))
  BY DEF UpdateReplicaLeo
<1>7. snapshot \in PartitionState
  BY DEF TypeOK
<1> HIDE DEF hw, reports
<1>8. /\ snapshot'.replicas = reports /\ snapshot'.hw = hw
      /\ snapshot'.segments = snapshot.segments /\ snapshot'.leo = snapshot.leo
      /\ snapshot' \in PartitionState
  BY <1>4, <1>5, <1>6, <1>7 DEF PartitionState
<1>9. reports = [snapshot.replicas EXCEPT ![r] = ReplicaLeo(snapshot.replicas[r], leo)]
  BY DEF reports
<1>10. snapshot'.hw = Min({snapshot'.replicas[q] : q \in Replicas})
  BY <1>8 DEF hw
<1>11. /\ snapshot'.replicas = [snapshot.replicas EXCEPT ![r] = ReplicaLeo(snapshot.replicas[r], leo)]
       /\ snapshot'.replicas \in [Replicas -> Nat]
  BY <1>4, <1>8, <1>9
<1>12. /\ client' = [id \in Batches |->
                       IF \E i \in Released(snapshot'.hw) : pending[i].id = id THEN "acked"
                                                                             ELSE client[id]]
       /\ pending' = SubSeq(pending, Cardinality(Released(snapshot'.hw)) + 1, Len(pending))
       /\ snapshot'.hw \in Nat
  BY <1>5, <1>6, <1>8
<1> QED BY <1>1, <1>8, <1>10, <1>11, <1>12

LEMMA UpdateStep == PartitionInv /\ UpdateReplicaLeo => PartitionInv'
<1> SUFFICES ASSUME TypeOK, Laid, Ends, UpdateReplicaLeo PROVE PartitionInv'
  BY DEF PartitionInv
<1>1. /\ up /\ writing = Nil /\ queue # <<>>
      /\ queue' = Tail(queue)
      /\ UNCHANGED <<segmentVars, writing, up, readerVars, historyVars>>
  BY DEF UpdateReplicaLeo, Receive
<1>2. Tail(queue) \in Seq(Command) /\ Len(Tail(queue)) <= ChannelSize
  BY <1>1, ReceivedType
<1>3. pending' \in Seq([hw : Nat, id : Batches])
  <2> DEFINE k == Cardinality(Released(snapshot'.hw))
  <2>1. k \in 0 .. Len(pending) /\ Len(pending) \in Nat
    BY ReleasedFirst
  <2>2. pending' = SubSeq(pending, k + 1, Len(pending))
    BY UpdateParts
  <2>3. pending \in Seq([hw : Nat, id : Batches])
    BY DEF TypeOK
  <2> HIDE DEF k
  <2>4. k + 1 \in Nat \ {0} /\ Len(pending) \in 0 .. Len(pending)
    BY <2>1
  <2> QED BY <2>2, <2>3, <2>4, PartType
<1>4. client' \in [Batches -> {"idle", "waiting", "acked", "failed"}]
  BY UpdateParts DEF TypeOK
<1>5. snapshot' \in PartitionState
  BY UpdateParts
<1>6. TypeOK'
  BY <1>1, <1>2, <1>3, <1>4, <1>5 DEF TypeOK, segmentVars, readerVars, historyVars
<1>7. snapshot'.segments = snapshot.segments /\ snapshot'.leo = snapshot.leo
  BY UpdateParts
<1>8. UNCHANGED <<files, indexes, writing, up, history, clobbered>>
  BY <1>1 DEF segmentVars, historyVars
<1>9. UNCHANGED <<ActiveBase, Active, Unpublished, FileEnd>>
  BY <1>8 DEF ActiveBase, Active, Unpublished, FileEnd
<1>10. Laid'
  BY <1>7, <1>8, <1>9 DEF Laid, View
<1>11. Ends'
  BY <1>7, <1>8, <1>9 DEF Ends
<1> QED BY <1>6, <1>10, <1>11 DEF PartitionInv

\* A shutdown is sent only while there may be another stop, and a stop empties
\* the channel.
Stoppable ==
    \A i \in 1 .. Len(queue) : queue[i].cmd = "Shutdown" => crashes < MaxCrashes

\* The actor ends, at a command or anywhere.
LEMMA StopStep == PartitionInv /\ Stoppable /\ (HandleShutdown \/ Crash) => PartitionInv'
<1> SUFFICES ASSUME TypeOK, Laid, Ends, Stoppable, HandleShutdown \/ Crash PROVE PartitionInv'
  BY DEF PartitionInv
<1>1. Stop
  BY DEF HandleShutdown, Crash
<1>2. crashes < MaxCrashes
  <2>1. CASE HandleShutdown
    <3>1. queue # <<>> /\ queue \in Seq(Command) /\ Head(queue).cmd = "Shutdown"
      BY <2>1 DEF HandleShutdown, Receive, TypeOK
    <3>2. 1 \in 1 .. Len(queue) /\ Head(queue) = queue[1]
      BY <3>1
    <3> QED BY <3>1, <3>2 DEF Stoppable
  <2> QED BY <2>1 DEF Crash
<1>3. crashes' \in 0 .. MaxCrashes
  BY <1>1, <1>2, SizeAssumption DEF Stop, TypeOK
<1>4. /\ queue' = <<>> /\ pending' = <<>> /\ writing' = Nil /\ up' = FALSE
      /\ UNCHANGED <<segmentVars, snapshot, pos, got, history, clobbered>>
  BY <1>1 DEF Stop
<1>5. /\ client' \in [Batches -> {"idle", "waiting", "acked", "failed"}]
      /\ reply' \in [Readers -> Answer \union {Nil}]
      /\ late' \in [Replicas -> SUBSET Nat]
  <2>1. /\ client' = [id \in Batches |-> IF client[id] = "waiting" THEN "failed" ELSE client[id]]
        /\ reply' = [r \in Readers |-> Nil]
        /\ late' = [r \in Replicas |-> {}]
    BY <1>1 DEF Stop
  <2> QED BY <2>1 DEF TypeOK
<1>6. /\ queue' \in Seq(Command) /\ Len(queue') <= ChannelSize
      /\ pending' \in Seq([hw : Nat, id : Batches])
  BY <1>4, SizeAssumption
<1>7. TypeOK'
  BY <1>3, <1>4, <1>5, <1>6 DEF TypeOK, segmentVars
<1>8. UNCHANGED <<files, indexes, snapshot, history, clobbered>>
  BY <1>4 DEF segmentVars
<1>9. UNCHANGED <<ActiveBase, Active, FileEnd>>
  BY <1>8 DEF ActiveBase, Active, FileEnd
<1>10. Laid'
  BY <1>8, <1>9 DEF Laid, View
<1>11. Ends'
  <2>1. ~ up' /\ writing' = Nil
    BY <1>4
  <2> QED BY <1>8, <1>9, <2>1 DEF Ends
<1> QED BY <1>7, <1>10, <1>11 DEF PartitionInv

\* The files below an offset, and the views of them, which are the first ones.
KeptBelow(directory, offset) == {base \in DOMAIN directory : base < offset}
CountBelow(segments, offset) ==
    Cardinality({i \in 1 .. Len(segments) : segments[i].base < offset})
ViewsBelow(segments, offset) == SubSeq(segments, 1, CountBelow(segments, offset))

LEMMA FitsBelow ==
    ASSUME NEW segments \in Seq(SegmentView), NEW directory, NEW entries,
           DOMAIN entries = DOMAIN directory,
           Fits(segments, directory, entries), segments # <<>>,
           NEW offset \in Nat
    PROVE  /\ CountBelow(segments, offset) \in 0 .. Len(segments)
           /\ ViewsBelow(segments, offset) \in Seq(SegmentView)
           /\ Len(ViewsBelow(segments, offset)) = CountBelow(segments, offset)
           /\ \A i \in 1 .. CountBelow(segments, offset) :
                 ViewsBelow(segments, offset)[i] = segments[i] /\ segments[i].base < offset
           /\ \A i \in 1 .. Len(segments) :
                 segments[i].base < offset => i \in 1 .. CountBelow(segments, offset)
           /\ ViewsBelow(segments, offset) = <<>> => offset = 0
           /\ Fits(ViewsBelow(segments, offset), Restrict(directory, KeptBelow(directory, offset)),
                   Restrict(entries, KeptBelow(directory, offset)))
<1> DEFINE T == {i \in 1 .. Len(segments) : segments[i].base < offset}
           n == Len(segments)
           below == CountBelow(segments, offset)
           first == SubSeq(segments, 1, below)
           kept == KeptBelow(directory, offset)
<1>1. n \in Nat /\ 1 \in 1 .. n
  OBVIOUS
<1>2. \A i \in 1 .. n : segments[i].base \in Nat
  <2> TAKE i \in 1 .. n
  <2>1. segments[i] \in SegmentView
    OBVIOUS
  <2> QED BY <2>1 DEF SegmentView
<1>3. /\ \A i \in 1 .. n : /\ segments[i].base \in DOMAIN directory
                           /\ segments[i].indexCount <= Len(entries[segments[i].base])
      /\ \A i, j \in 1 .. n : i < j => segments[i].base < segments[j].base
      /\ segments[1].base = 0
  BY DEF Fits
<1>4. T \subseteq 1 .. n
  OBVIOUS
<1>5. \A i \in T : \A j \in 1 .. i : j \in T
  <2> TAKE i \in T
  <2> TAKE j \in 1 .. i
  <2>1. i \in 1 .. n /\ j \in 1 .. n /\ segments[i].base < offset
    BY <1>1
  <2>2. j = i \/ segments[j].base < segments[i].base
    BY <1>3, <2>1
  <2>3. segments[j].base < offset
    BY <1>2, <2>1, <2>2
  <2> QED BY <2>1, <2>3
<1>6. below \in 0 .. n /\ T = 1 .. below
  <2>1. below = Cardinality(T)
    BY DEF CountBelow
  <2> HIDE DEF T, n, below
  <2>2. Cardinality(T) \in 0 .. n /\ T = 1 .. Cardinality(T)
    BY <1>1, <1>4, <1>5, PrefixSet
  <2> QED BY <2>1, <2>2
<1>7. /\ first \in Seq(SegmentView)
      /\ Len(first) = below
      /\ \A i \in 1 .. below : first[i] = segments[i]
  <2>1. below \in Nat /\ (~ (1 <= below) => below = 0) /\ below - 1 + 1 = below
    BY <1>1, <1>6
  <2>2. \A i \in 1 .. below : 1 + i - 1 = i
    BY <2>1
  <2>3. /\ first \in Seq(SegmentView)
        /\ Len(first) = IF 1 <= below THEN below - 1 + 1 ELSE 0
        /\ \A i \in 1 .. below - 1 + 1 : first[i] = segments[1 + i - 1]
    <3>1. below \in 0 .. Len(segments) /\ 1 \in Nat \ {0}
      BY <1>6
    <3> QED BY <3>1, PartType
  <2> QED BY <2>1, <2>2, <2>3
<1>8. /\ \A i \in 1 .. below : segments[i].base < offset
      /\ \A i \in 1 .. n : segments[i].base < offset => i \in 1 .. below
  BY <1>6
<1> HIDE DEF first, T, below
<1>9. first = <<>> => offset = 0
  <2>1. SUFFICES ASSUME first = <<>> PROVE offset = 0
    OBVIOUS
  <2>2. below = 0
    BY <1>7, <2>1
  <2>3. 1 \notin 1 .. below
    BY <2>2
  <2>4. ~ (0 < offset)
    BY <1>1, <1>3, <1>8, <2>3
  <2> QED BY <2>4
<1>10. \A i \in 1 .. below : i \in 1 .. n
  BY <1>1, <1>6
<1>11. Fits(first, Restrict(directory, kept), Restrict(entries, kept))
  <2>1. \A i \in 1 .. below : /\ first[i].base \in kept
                              /\ first[i].indexCount <= Len(entries[first[i].base])
    BY <1>3, <1>7, <1>8, <1>10 DEF KeptBelow
  <2>2. DOMAIN Restrict(directory, kept) = kept
    BY DEF Restrict
  <2>3. \A b \in kept : Restrict(entries, kept)[b] = entries[b]
    BY DEF Restrict
  <2>4. \A i, j \in 1 .. below : i < j => first[i].base < first[j].base
    BY <1>3, <1>7, <1>10
  <2>5. first # <<>> => first[1].base = 0
    <3>1. first # <<>> => 1 \in 1 .. below
      BY <1>6, <1>7
    <3> QED BY <1>3, <1>7, <3>1
  <2> QED BY <1>7, <2>1, <2>2, <2>3, <2>4, <2>5 DEF Fits
<1>12. first = ViewsBelow(segments, offset)
  BY DEF first, below, ViewsBelow
<1> QED BY <1>6, <1>7, <1>8, <1>9, <1>11, <1>12 DEF below

\* A truncation that takes something away.
LEMMA TruncateParts ==
    ASSUME TypeOK, Laid, Ends, TruncateLog, Head(queue).offset < snapshot.leo
    PROVE  LET offset == Head(queue).offset
               kept == KeptBelow(files, offset)
           IN  /\ offset \in Nat
               /\ files' = Created(Restrict(files, kept), offset)
               /\ indexes' = Created(Restrict(indexes, kept), offset)
               /\ cursor' = 0 /\ size' = 0 /\ since' = IndexInterval
               /\ snapshot' = [segments |-> Append(ViewsBelow(snapshot.segments, offset),
                                                   FreshView(offset)),
                               leo |-> offset,
                               hw |-> TruncatedHw(offset),
                               replicas |-> snapshot.replicas]
               /\ history' = SubSeq(history, 1, offset)
<1>1. queue # <<>> /\ Head(queue).cmd = "Truncate"
  BY DEF TruncateLog, Receive
<1>2. Head(queue).offset \in Nat
  BY <1>1, ReceivedType, CommandParts
<1>3. ~ (Head(queue).offset >= snapshot.leo)
  BY <1>2, ViewFacts
<1> QED BY <1>2, <1>3 DEF TruncateLog, KeptBelow, ViewsBelow, CountBelow

LEMMA TruncateStep == PartitionInv /\ TruncateLog => PartitionInv'
<1> SUFFICES ASSUME TypeOK, Laid, Ends, TruncateLog PROVE PartitionInv'
  BY DEF PartitionInv
<1> DEFINE offset == Head(queue).offset
           segments == snapshot.segments
           kept == KeptBelow(files, offset)
           views == ViewsBelow(segments, offset)
<1>1. /\ up /\ writing = Nil /\ queue # <<>> /\ Head(queue).cmd = "Truncate"
      /\ queue' = Tail(queue)
      /\ UNCHANGED <<writing, pending, up, client, readerVars, clobbered, crashes>>
  BY DEF TruncateLog, Receive
<1>2. /\ offset \in Nat /\ Tail(queue) \in Seq(Command) /\ Len(Tail(queue)) <= ChannelSize
  BY <1>1, ReceivedType, CommandParts
<1>3. snapshot.leo \in Nat /\ snapshot.hw \in Nat /\ snapshot.replicas \in [Replicas -> Nat]
      /\ segments \in Seq(SegmentView)
  BY ViewFacts
<1>4. CASE offset >= snapshot.leo
  <2>1. UNCHANGED <<segmentVars, snapshot, history>>
    BY <1>4 DEF TruncateLog
  <2>2. TypeOK'
    BY <1>1, <1>2, <2>1 DEF TypeOK, segmentVars, readerVars
  <2>3. UNCHANGED <<files, indexes, snapshot, writing, up, history, clobbered>>
    BY <1>1, <2>1 DEF segmentVars
  <2> QED BY <2>2, <2>3, QuietStep DEF PartitionInv
<1>5. CASE offset < snapshot.leo
  <2>1. /\ files' = Created(Restrict(files, kept), offset)
        /\ indexes' = Created(Restrict(indexes, kept), offset)
        /\ cursor' = 0 /\ size' = 0 /\ since' = IndexInterval
        /\ snapshot' = [segments |-> Append(views, FreshView(offset)),
                        leo |-> offset,
                        hw |-> TruncatedHw(offset),
                        replicas |-> snapshot.replicas]
        /\ history' = SubSeq(history, 1, offset)
    BY <1>5, TruncateParts
  <2>2. /\ DOMAIN indexes = DOMAIN files /\ DOMAIN files \subseteq Nat
        /\ \A b \in DOMAIN files : files[b] \in Seq(Batch)
        /\ \A b \in DOMAIN indexes : indexes[b] \in Seq(IndexEntry)
        /\ IsFiniteSet(DOMAIN files) /\ 0 \in DOMAIN files
        /\ Fits(segments, files, indexes) /\ segments # <<>>
    BY DEF TypeOK, Laid
  <2>3. /\ views \in Seq(SegmentView)
        /\ views = <<>> => offset = 0
        /\ Fits(views, Restrict(files, kept), Restrict(indexes, kept))
        /\ \A i \in 1 .. Len(views) : views[i].base < offset
    <3> HIDE DEF offset, segments
    <3> QED BY <1>2, <1>3, <2>2, FitsBelow
  <2>4. /\ DOMAIN Restrict(files, kept) = kept /\ DOMAIN Restrict(indexes, kept) = kept
        /\ kept \subseteq Nat /\ IsFiniteSet(kept)
        /\ \A b \in kept : b <= offset
        /\ \A b \in kept : b \in DOMAIN files
    <3>1. DOMAIN Restrict(files, kept) = kept /\ DOMAIN Restrict(indexes, kept) = kept
      BY DEF Restrict
    <3>2. kept \in SUBSET DOMAIN files
      BY DEF KeptBelow
    <3>3. IsFiniteSet(kept)
      <4> HIDE DEF kept
      <4> QED BY <2>2, <3>2, FS_Subset
    <3>4. kept \subseteq Nat /\ \A b \in kept : b <= offset
      BY <1>2, <2>2 DEF KeptBelow
    <3> QED BY <3>1, <3>2, <3>3, <3>4
  <2>5. 0 \in kept \union {offset}
    BY <1>2, <2>2 DEF KeptBelow
  <2> HIDE DEF kept, views, offset
  <2>6. /\ snapshot'.segments \in Seq(SegmentView)
        /\ snapshot'.segments # <<>>
        /\ snapshot'.segments[Len(snapshot'.segments)].base = offset
        /\ Fits(snapshot'.segments, files', indexes')
    <3> DEFINE dir == Restrict(files, kept)
               idx == Restrict(indexes, kept)
    <3>1. DOMAIN idx = DOMAIN dir
      BY <2>4
    <3>2. Fits(views, dir, idx)
      BY <2>3
    <3>3. files' = Created(dir, offset) /\ indexes' = Created(idx, offset)
          /\ snapshot'.segments = Append(views, FreshView(offset))
      BY <2>1
    <3> HIDE DEF dir, idx
    <3>4. /\ Append(views, FreshView(offset)) \in Seq(SegmentView)
          /\ Append(views, FreshView(offset)) # <<>>
          /\ Append(views, FreshView(offset))[Len(Append(views, FreshView(offset)))].base = offset
          /\ Fits(Append(views, FreshView(offset)), Created(dir, offset), Created(idx, offset))
      BY <1>2, <2>3, <3>1, <3>2, FitsFresh
    <3> QED BY <3>3, <3>4
  <2>7. /\ DOMAIN files' = kept \union {offset} /\ DOMAIN indexes' = kept \union {offset}
        /\ files'[offset] = <<>>
    <3>1. DOMAIN files' = kept \union {offset} /\ files'[offset] = <<>>
      BY <2>1, <2>4, CreatedFacts
    <3>2. DOMAIN indexes' = kept \union {offset}
      BY <2>1, <2>4, CreatedFacts
    <3> QED BY <3>1, <3>2
  <2>8. /\ \A b \in DOMAIN files' : files'[b] \in Seq(Batch)
        /\ \A b \in DOMAIN indexes' : indexes'[b] \in Seq(IndexEntry)
    <3>1. /\ \A b \in kept : Restrict(files, kept)[b] \in Seq(Batch)
          /\ \A b \in kept : Restrict(indexes, kept)[b] \in Seq(IndexEntry)
      BY <2>2, <2>4 DEF Restrict
    <3> QED BY <2>1, <2>4, <3>1, CreatedType
  <2>9. ActiveBase' = offset /\ FileEnd' = offset /\ IsFiniteSet(DOMAIN files')
    BY <1>2, <2>4, <2>7, CreatedActive
  <2>10. /\ history' \in Seq(Record) /\ Len(history') = offset
    <3>1. history \in Seq(Record) /\ Len(history) \in Nat
      BY DEF TypeOK
    <3>2. snapshot.leo <= Len(history)
      <4>1. Unpublished = 0
        BY <1>1 DEF Unpublished
      <4> QED BY <1>1, <1>3, <4>1 DEF Ends
    <3>3. offset \in 0 .. Len(history)
      BY <1>2, <1>3, <1>5, <3>1, <3>2 DEF offset
    <3>4. /\ SubSeq(history, 1, offset) \in Seq(Record)
          /\ Len(SubSeq(history, 1, offset)) = IF 1 <= offset THEN offset - 1 + 1 ELSE 0
      BY <3>1, <3>3, PartType
    <3>5. (IF 1 <= offset THEN offset - 1 + 1 ELSE 0) = offset
      BY <3>3
    <3> QED BY <2>1, <3>4, <3>5
  <2>11. snapshot' \in PartitionState
    <3>1. TruncatedHw(offset) \in Nat
      BY <1>2, <1>3, MinPair DEF TruncatedHw
    <3> QED BY <1>2, <1>3, <2>1, <2>6, <3>1 DEF PartitionState
  <2>12. {cursor', size', since'} \subseteq Nat
    BY <2>1, SegmentAssumption
  <2>13. TypeOK'
    <3>1. DOMAIN files' \subseteq Nat /\ DOMAIN indexes' = DOMAIN files'
      BY <1>2, <2>4, <2>7
    <3> QED BY <1>1, <1>2, <2>8, <2>10, <2>11, <2>12, <3>1 DEF TypeOK, readerVars
  <2>14. snapshot'.leo = offset
    BY <2>1
  <2>15. Laid'
    <3>1. 0 \in DOMAIN files'
      BY <2>5, <2>7
    <3>2. offset <= offset
      BY <1>2
    <3> QED BY <2>6, <2>9, <2>14, <3>1, <3>2 DEF Laid, View
  <2>16. Ends'
    <3>1. Unpublished' = 0 /\ up' /\ offset <= offset /\ offset + 0 = offset
      BY <1>1, <1>2 DEF Unpublished
    <3> QED BY <2>9, <2>10, <2>14, <3>1 DEF Ends
  <2> QED BY <2>13, <2>15, <2>16 DEF PartitionInv
<1>6. offset >= snapshot.leo \/ offset < snapshot.leo
  BY <1>2, <1>3
<1> QED BY <1>4, <1>5, <1>6

\* What opening every file of the directory yields.
LEMMA OpenedType ==
    ASSUME TypeOK
    PROVE  /\ DOMAIN OpenedIndexes = DOMAIN files
           /\ \A b \in DOMAIN files : OpenedIndexes[b] \in Seq(IndexEntry)
           /\ \A b \in DOMAIN files : Opened(b) \in SegmentView
<1>1. /\ DOMAIN files \subseteq Nat /\ DOMAIN indexes = DOMAIN files
      /\ \A b \in DOMAIN files : files[b] \in Seq(Batch) /\ indexes[b] \in Seq(IndexEntry)
  BY DEF TypeOK
<1>2. \A index \in Seq(IndexEntry) : ScannedIndex(index) \in Seq(IndexEntry)
  <2>1. ZeroEntry \in IndexEntry
    BY DEF ZeroEntry, IndexEntry
  <2>2. <<ZeroEntry>> \in Seq(IndexEntry)
    BY <2>1
  <2> QED BY <2>2 DEF ScannedIndex
<1>3. <<>> \in Seq(IndexEntry)
  OBVIOUS
<1>4. /\ DOMAIN OpenedIndexes = DOMAIN files
      /\ \A b \in DOMAIN files : OpenedIndexes[b] \in Seq(IndexEntry)
  BY <1>1, <1>2, <1>3 DEF OpenedIndexes
<1>5. ASSUME NEW b \in DOMAIN files PROVE Opened(b) \in SegmentView
  <2>1. Len(files[b]) \in Nat /\ Len(OpenedIndexes[b]) \in Nat /\ b \in Nat
    BY <1>1, <1>4
  <2> QED BY <2>1 DEF Opened, SegmentView
<1> QED BY <1>4, <1>5

\* The views of the files of the directory, in order.
Reopened == [i \in 1 .. Len(Ascending(DOMAIN files)) |-> Opened(Ascending(DOMAIN files)[i])]

LEMMA ReopenedFits ==
    ASSUME TypeOK, Laid
    PROVE  /\ Reopened \in Seq(SegmentView)
           /\ Reopened # <<>>
           /\ Reopened[Len(Reopened)].base = ActiveBase
           /\ Fits(Reopened, files, OpenedIndexes)
<1> DEFINE bases == Ascending(DOMAIN files)
           n == Len(bases)
<1>1. DOMAIN files \subseteq Nat /\ IsFiniteSet(DOMAIN files) /\ 0 \in DOMAIN files
  BY DEF TypeOK, Laid
<1>2. /\ n \in Nat \ {0} /\ bases[1] = 0 /\ bases[n] = ActiveBase
      /\ \A i \in 1 .. n : bases[i] \in DOMAIN files
      /\ \A i, j \in 1 .. n : i < j => bases[i] < bases[j]
  <2>1. n \in Nat \ {0} /\ bases[1] = 0 /\ bases[n] = Max(DOMAIN files)
    BY <1>1, AscendingEnds
  <2>2. /\ \A i \in 1 .. n : bases[i] \in DOMAIN files
        /\ \A i, j \in 1 .. n : i < j => bases[i] < bases[j]
    BY <1>1, AscendingLists
  <2> QED BY <2>1, <2>2 DEF ActiveBase
<1>3. Reopened = [i \in 1 .. n |-> Opened(bases[i])]
  BY DEF Reopened
<1> HIDE DEF bases, n
<1>4. \A i \in 1 .. n : Opened(bases[i]) \in SegmentView
  BY <1>2, OpenedType
<1>5. Reopened \in Seq(SegmentView) /\ Len(Reopened) = n
  <2>1. [i \in 1 .. n |-> Opened(bases[i])] \in Seq(SegmentView)
    BY <1>2, <1>4, IsASeq
  <2>2. DOMAIN Reopened = 1 .. n
    BY <1>3
  <2> QED BY <1>2, <1>3, <2>1, <2>2, LenProperties
<1>6. \A i \in 1 .. n : /\ Reopened[i].base = bases[i]
                        /\ Reopened[i].indexCount = Len(OpenedIndexes[bases[i]])
  BY <1>3 DEF Opened
<1>7. \A i \in 1 .. n : Len(OpenedIndexes[bases[i]]) \in Nat
  BY <1>2, OpenedType
<1>8. 1 \in 1 .. n /\ n \in 1 .. n
  BY <1>2
<1>9. Fits(Reopened, files, OpenedIndexes)
  <2>1. \A i \in 1 .. n : /\ Reopened[i].base \in DOMAIN files
                          /\ Reopened[i].indexCount <= Len(OpenedIndexes[Reopened[i].base])
    BY <1>2, <1>6, <1>7
  <2>2. \A i, j \in 1 .. n : i < j => Reopened[i].base < Reopened[j].base
    BY <1>2, <1>6
  <2>3. Reopened[1].base = 0
    BY <1>2, <1>6, <1>8
  <2> QED BY <1>5, <2>1, <2>2, <2>3 DEF Fits
<1>10. Reopened # <<>> /\ Reopened[Len(Reopened)].base = ActiveBase
  BY <1>2, <1>5, <1>6, <1>8
<1> QED BY <1>5, <1>9, <1>10

LEMMA RestartStep == PartitionInv /\ Restart => PartitionInv'
<1> SUFFICES ASSUME TypeOK, Laid, Ends, Restart PROVE PartitionInv'
  BY DEF PartitionInv
<1> DEFINE leo == RecoveredEnd(ActiveBase)
           full == Len(Active) >= SegmentBytes
           reports == [r \in Replicas |-> 0]
           hw == IF Replicas = {} THEN leo ELSE 0
<1>1. /\ ~ up /\ up' = TRUE /\ cursor' = 0
      /\ files' = IF full THEN Created(files, leo) ELSE files
      /\ indexes' = IF full THEN Created(OpenedIndexes, leo) ELSE OpenedIndexes
      /\ size' = IF full THEN 0 ELSE Len(Active)
      /\ since' = IF full \/ Active = <<>> THEN IndexInterval ELSE 0
      /\ snapshot' = [segments |-> IF full THEN Append(Reopened, FreshView(leo)) ELSE Reopened,
                      leo |-> leo, hw |-> hw, replicas |-> reports]
      /\ UNCHANGED <<writing, queue, pending, client, readerVars, historyVars>>
  BY DEF Restart, Reopened
<1>2. /\ ActiveBase \in DOMAIN files /\ ActiveBase \in Nat
      /\ \A b \in DOMAIN files : b <= ActiveBase
      /\ Active \in Seq(Batch) /\ RecordsCount(Active) \in Nat
  BY ActiveFacts
<1>3. leo = FileEnd /\ leo \in Nat /\ ActiveBase <= leo
  BY <1>2 DEF RecoveredEnd, FileEnd, Active
<1>4. /\ DOMAIN indexes = DOMAIN files /\ DOMAIN files \subseteq Nat
      /\ \A b \in DOMAIN files : files[b] \in Seq(Batch)
      /\ IsFiniteSet(DOMAIN files) /\ 0 \in DOMAIN files
  BY DEF TypeOK, Laid
<1>5. /\ DOMAIN OpenedIndexes = DOMAIN files
      /\ \A b \in DOMAIN files : OpenedIndexes[b] \in Seq(IndexEntry)
  BY OpenedType
<1>6. /\ Reopened \in Seq(SegmentView) /\ Reopened # <<>>
      /\ Reopened[Len(Reopened)].base = ActiveBase
      /\ Fits(Reopened, files, OpenedIndexes)
  BY ReopenedFits
<1>7. hw \in Nat /\ reports \in [Replicas -> Nat]
  BY <1>3
<1> HIDE DEF leo, full, hw, reports
<1>8. snapshot'.segments \in Seq(SegmentView) => snapshot' \in PartitionState
  BY <1>1, <1>3, <1>7 DEF PartitionState
<1>9. /\ snapshot'.segments = (IF full THEN Append(Reopened, FreshView(leo)) ELSE Reopened)
      /\ snapshot'.leo = leo
  BY <1>1
<1>10. /\ snapshot' \in PartitionState
       /\ DOMAIN files' \subseteq Nat /\ \A b \in DOMAIN files' : files'[b] \in Seq(Batch)
       /\ DOMAIN indexes' = DOMAIN files'
       /\ \A b \in DOMAIN indexes' : indexes'[b] \in Seq(IndexEntry)
       /\ {cursor', size', since'} \subseteq Nat
       /\ Laid'
       /\ FileEnd' = leo
  <2>1. CASE full
    <3>1. /\ files' = Created(files, leo) /\ indexes' = Created(OpenedIndexes, leo)
          /\ cursor' = 0 /\ size' = 0 /\ since' = IndexInterval
      BY <1>1, <2>1
    <3>2. ActiveBase < leo
      <4>1. Active # <<>>
        <5>1. Len(Active) >= SegmentBytes /\ SegmentBytes \in Nat \ {0}
          BY <2>1, SegmentAssumption DEF full
        <5>2. Len(<<>>) = 0
          OBVIOUS
        <5> QED BY <5>1, <5>2
      <4>2. RecordsCount(Active) > 0
        BY <1>2, <4>1, CountPositive
      <4> QED BY <1>2, <1>3, <4>2 DEF FileEnd
    <3>3. /\ DOMAIN files' = DOMAIN files \union {leo} /\ DOMAIN indexes' = DOMAIN files'
          /\ files'[leo] = <<>>
      <4>1. DOMAIN files' = DOMAIN files \union {leo} /\ files'[leo] = <<>>
        BY <3>1, CreatedFacts
      <4>2. DOMAIN indexes' = DOMAIN OpenedIndexes \union {leo}
        BY <3>1, CreatedFacts
      <4> QED BY <1>5, <4>1, <4>2
    <3>4. /\ \A b \in DOMAIN files' : files'[b] \in Seq(Batch)
          /\ \A b \in DOMAIN indexes' : indexes'[b] \in Seq(IndexEntry)
      BY <1>4, <1>5, <3>1, CreatedType
    <3>5. ActiveBase' = leo /\ FileEnd' = leo /\ IsFiniteSet(DOMAIN files')
      <4>1. \A b \in DOMAIN files : b <= leo
        BY <1>2, <1>3, <1>4
      <4> QED BY <1>3, <1>4, <3>3, <4>1, CreatedActive
    <3>6. \A i \in 1 .. Len(Reopened) : Reopened[i].base < leo
      <4> TAKE i \in 1 .. Len(Reopened)
      <4>1. Reopened[i].base \in DOMAIN files
        BY <1>6 DEF Fits
      <4> QED BY <1>2, <1>3, <1>4, <3>2, <4>1
    <3>7. /\ snapshot'.segments \in Seq(SegmentView)
          /\ snapshot'.segments # <<>>
          /\ snapshot'.segments[Len(snapshot'.segments)].base = leo
          /\ Fits(snapshot'.segments, files', indexes')
      <4>1. /\ Append(Reopened, FreshView(leo)) \in Seq(SegmentView)
            /\ Append(Reopened, FreshView(leo)) # <<>>
            /\ Append(Reopened, FreshView(leo))[Len(Append(Reopened, FreshView(leo)))].base = leo
            /\ Fits(Append(Reopened, FreshView(leo)), Created(files, leo), Created(OpenedIndexes, leo))
        <5>1. Reopened = <<>> => leo = 0
          BY <1>6
        <5> QED BY <1>3, <1>5, <1>6, <3>6, <5>1, FitsFresh
      <4>2. snapshot'.segments = Append(Reopened, FreshView(leo))
        BY <1>9, <2>1
      <4> QED BY <3>1, <4>1, <4>2
    <3>8. {cursor', size', since'} \subseteq Nat
      BY <3>1, SegmentAssumption
    <3>9. Laid'
      <4>1. leo <= leo
        BY <1>3
      <4> QED BY <1>4, <1>9, <3>3, <3>5, <3>7, <4>1 DEF Laid, View
    <3> QED BY <1>3, <1>4, <1>8, <3>3, <3>4, <3>5, <3>7, <3>8, <3>9
  <2>2. CASE ~ full
    <3>1. /\ files' = files /\ indexes' = OpenedIndexes /\ snapshot'.segments = Reopened
          /\ cursor' = 0 /\ size' = Len(Active)
          /\ since' = IF Active = <<>> THEN IndexInterval ELSE 0
      BY <1>1, <1>9, <2>2
    <3>2. UNCHANGED <<ActiveBase, Active, FileEnd>>
      BY <3>1 DEF ActiveBase, Active, FileEnd
    <3>3. {cursor', size', since'} \subseteq Nat
      BY <1>2, <3>1, SegmentAssumption
    <3>4. Laid'
      BY <1>3, <1>4, <1>6, <1>9, <3>1, <3>2 DEF Laid, View
    <3> QED BY <1>3, <1>4, <1>5, <1>6, <1>8, <3>1, <3>2, <3>3, <3>4
  <2> QED BY <2>1, <2>2
<1>11. TypeOK'
  BY <1>1, <1>10 DEF TypeOK, readerVars, historyVars
<1>12. Ends'
  <2>1. Unpublished' = 0
    BY <1>1 DEF Ends, Unpublished
  <2>2. history' = history /\ clobbered' = clobbered /\ up'
    BY <1>1 DEF historyVars
  <2>3. leo <= Len(history) /\ (~ clobbered => leo = Len(history))
    BY <1>3 DEF Ends
  <2>4. leo + 0 = leo
    BY <1>3
  <2> QED BY <1>9, <1>10, <2>1, <2>2, <2>3, <2>4 DEF Ends
<1> QED BY <1>10, <1>11, <1>12 DEF PartitionInv

-----------------------------------------------------------------------------
(* The invariant of every partition *)

\* What a step puts into the channel.
Sent(command) ==
    \/ \E id \in Batches, acks \in AcksKinds : command = [cmd |-> "Append", id |-> id, acks |-> acks]
    \/ command = [cmd |-> "Shutdown"] /\ crashes < MaxCrashes /\ UNCHANGED crashes
    \/ \E r \in Replicas, leo \in Nat :
          /\ command = [cmd |-> "UpdateReplicaLeo", replica |-> r, leo |-> leo]
          /\ (reply[r] # Nil /\ leo = reply[r].leo) \/ leo \in late[r]
          /\ UNCHANGED <<snapshot, up>>

LEMMA EnqueueMoves ==
    ASSUME TypeOK, NEW command, Enqueue(command)
    PROVE  \A j \in 1 .. Len(queue') :
              (\E i \in 1 .. Len(queue) : queue'[j] = queue[i]) \/ queue'[j] = command
BY DEF Enqueue, TypeOK

\* What is in the channel was there before, or is sent in the step, unless the
\* owner of the partition sends a truncation.
LEMMA QueueMoves ==
    ASSUME TypeOK, Next
    PROVE  \A j \in 1 .. Len(queue') :
              (\E i \in 1 .. Len(queue) : queue'[j] = queue[i]) \/ Sent(queue'[j])
<1>1. ASSUME UNCHANGED queue
      PROVE  \A j \in 1 .. Len(queue') : \E i \in 1 .. Len(queue) : queue'[j] = queue[i]
  BY <1>1
<1>2. ASSUME queue # <<>>, queue' = Tail(queue)
      PROVE  \A j \in 1 .. Len(queue') : \E i \in 1 .. Len(queue) : queue'[j] = queue[i]
  <2>1. queue \in Seq(Command)
    BY DEF TypeOK
  <2>2. /\ Len(queue') = Len(queue) - 1 /\ Len(queue) \in Nat
        /\ \A j \in 1 .. Len(queue') : queue'[j] = queue[j + 1]
    BY <1>2, <2>1
  <2> QED BY <2>2, SMTT(30)
<1>3. CASE \E id \in Batches, acks \in AcksKinds : Produce(id, acks)
  <2> PICK id \in Batches, acks \in AcksKinds : Produce(id, acks)
    BY <1>3
  <2> QED BY EnqueueMoves DEF Produce, Sent
<1>4. CASE Shutdown
  <2>1. Enqueue([cmd |-> "Shutdown"]) /\ crashes < MaxCrashes /\ UNCHANGED crashes
    BY <1>4, SizeAssumption DEF Shutdown, historyVars, TypeOK
  <2>2. Sent([cmd |-> "Shutdown"])
    BY <2>1 DEF Sent
  <2> QED BY <2>1, <2>2, EnqueueMoves
<1>6. CASE \E r \in Readers : Respond(r)
  <2> PICK r \in Readers : Respond(r)
    BY <1>6
  <2>1. CASE r \in Replicas
    <3>1. Enqueue([cmd |-> "UpdateReplicaLeo", replica |-> r, leo |-> reply[r].leo])
          /\ reply[r] # Nil /\ UNCHANGED <<snapshot, up>>
      BY <2>1 DEF Respond, Report, actorVars
    <3>2. reply[r].leo \in Nat
      <4>1. reply[r] \in Answer
        BY <3>1 DEF TypeOK
      <4> QED BY <4>1 DEF Answer
    <3>3. Sent([cmd |-> "UpdateReplicaLeo", replica |-> r, leo |-> reply[r].leo])
      BY <2>1, <3>1, <3>2 DEF Sent
    <3> QED BY <3>1, <3>3, EnqueueMoves
  <2>2. CASE r \notin Replicas
    BY <1>1, <2>2 DEF Respond
  <2> QED BY <2>1, <2>2
<1>7. CASE \E r \in Replicas : LateReport(r)
  <2> PICK r \in Replicas : LateReport(r)
    BY <1>7
  <2> PICK leo \in late[r] :
          /\ Report(r, leo)
          /\ late' = [late EXCEPT ![r] = late[r] \ {leo}]
          /\ UNCHANGED <<actorVars, client, reply, pos, got, historyVars>>
    BY DEF LateReport
  <2>1. leo \in Nat
    BY DEF TypeOK
  <2>2. Enqueue([cmd |-> "UpdateReplicaLeo", replica |-> r, leo |-> leo]) /\ UNCHANGED <<snapshot, up>>
    BY DEF Report, actorVars
  <2>3. Sent([cmd |-> "UpdateReplicaLeo", replica |-> r, leo |-> leo])
    BY <2>1, <2>2 DEF Sent
  <2> QED BY <2>2, <2>3, EnqueueMoves
<1>8. CASE (\E r \in Readers, fit \in FetchSizes : Fetch(r, fit)) \/ (\E r \in Readers : Disconnect(r))
  BY <1>1, <1>8 DEF Fetch, Disconnect
<1>9. CASE WriteBatch \/ UpdateReplicaLeo \/ TruncateLog
  BY <1>2, <1>9 DEF WriteBatch, UpdateReplicaLeo, TruncateLog, Receive
<1>10. CASE IndexBatch \/ PublishBatch \/ Restart
  BY <1>1, <1>10 DEF IndexBatch, PublishBatch, Restart
<1>11. CASE HandleShutdown \/ Crash
  <2>1. queue' = <<>>
    BY <1>11 DEF HandleShutdown, Crash, Stop
  <2> QED BY <2>1
<1> QED BY <1>3, <1>4, <1>6, <1>7, <1>8, <1>9, <1>10, <1>11 DEF Next, Actor

\* Only a stop changes the number of stops, and it empties the channel.
LEMMA CrashesCounted ==
    ASSUME TruncatingNext
    PROVE  crashes' = crashes \/ queue' = <<>>
BY DEF TruncatingNext, Next, Actor, Produce, Shutdown, Truncate, Fetch, Respond, Disconnect,
       LateReport, WriteBatch, IndexBatch, PublishBatch, UpdateReplicaLeo, TruncateLog,
       HandleShutdown, Crash, Stop, Restart, historyVars

LEMMA StoppableStep == TypeOK /\ Stoppable /\ TruncatingNext => Stoppable'
<1> SUFFICES ASSUME TypeOK, Stoppable, TruncatingNext PROVE Stoppable'
  OBVIOUS
<1>1. CASE queue' = <<>>
  BY <1>1 DEF Stoppable
<1>2. CASE crashes' = crashes
  <2> SUFFICES ASSUME NEW j \in 1 .. Len(queue'), queue'[j].cmd = "Shutdown"
               PROVE  crashes < MaxCrashes
    BY <1>2 DEF Stoppable
  <2>1. \/ \E i \in 1 .. Len(queue) : queue'[j] = queue[i]
        \/ Sent(queue'[j])
        \/ \E offset \in Nat : queue'[j] = [cmd |-> "Truncate", offset |-> offset]
    <3>1. CASE Next
      BY <3>1, QueueMoves
    <3>2. CASE \E offset \in Nat : Truncate(offset)
      BY <3>2, EnqueueMoves DEF Truncate
    <3> QED BY <3>1, <3>2 DEF TruncatingNext
  <2>2. CASE \E i \in 1 .. Len(queue) : queue'[j] = queue[i]
    BY <2>2 DEF Stoppable
  <2>3. CASE Sent(queue'[j])
    <3> DEFINE sent == queue'[j]
    <3>1. /\ \A id \in Batches, acks \in AcksKinds : sent # [cmd |-> "Append", id |-> id, acks |-> acks]
          /\ \A r \in Replicas, leo \in Nat :
                sent # [cmd |-> "UpdateReplicaLeo", replica |-> r, leo |-> leo]
      <4>1. sent.cmd = "Shutdown"
        OBVIOUS
      <4> HIDE DEF sent
      <4> QED BY <4>1
    <3>2. Sent(sent)
      BY <2>3
    <3> HIDE DEF sent
    <3> QED BY <3>1, <3>2, Zenon DEF Sent
  <2>4. CASE \E offset \in Nat : queue'[j] = [cmd |-> "Truncate", offset |-> offset]
    BY <2>4
  <2> QED BY <2>1, <2>2, <2>3, <2>4
<1> QED BY <1>1, <1>2, CrashesCounted

LEMMA InvariantStep == PartitionInv /\ Stoppable /\ [TruncatingNext]_vars => PartitionInv' /\ Stoppable'
<1> SUFFICES ASSUME PartitionInv, Stoppable, [TruncatingNext]_vars
             PROVE  PartitionInv' /\ Stoppable'
  OBVIOUS
<1>0. TypeOK /\ Laid /\ Ends
  BY DEF PartitionInv
<1>1. CASE UNCHANGED vars
  <2>1. UNCHANGED <<files, indexes, cursor, size, since, snapshot, writing, pending, up, queue, client,
                    reply, late, pos, got, history, clobbered, crashes>>
    BY <1>1 DEF vars, actorVars, segmentVars, readerVars, historyVars
  <2>2. TypeOK'
    BY <1>0, <2>1 DEF TypeOK
  <2>3. Laid' /\ Ends'
    BY <1>0, <2>1, QuietStep
  <2>4. Stoppable'
    BY <2>1 DEF Stoppable
  <2> QED BY <2>2, <2>3, <2>4 DEF PartitionInv
<1>2. CASE TruncatingNext
  <2>0. Stoppable'
    BY <1>0, <1>2, StoppableStep
  <2>1. CASE \/ \E id \in Batches, acks \in AcksKinds : Produce(id, acks)
             \/ Shutdown
             \/ \E offset \in Nat : Truncate(offset)
    <3>1. TypeOK'
      BY <1>0, <2>1, SendSteps
    <3>2. UNCHANGED <<files, indexes, snapshot, writing, up, history, clobbered>>
      BY <2>1 DEF Produce, Shutdown, Truncate, actorVars, segmentVars, historyVars
    <3>3. Laid' /\ Ends'
      BY <1>0, <3>2, QuietStep
    <3> QED BY <2>0, <3>1, <3>3 DEF PartitionInv
  <2>2. CASE \/ \E r \in Readers, fit \in FetchSizes : Fetch(r, fit)
             \/ \E r \in Readers : Respond(r) \/ Disconnect(r)
             \/ \E r \in Replicas : LateReport(r)
    <3>1. TypeOK'
      BY <1>0, <2>2, ReaderSteps
    <3>2. UNCHANGED <<files, indexes, snapshot, writing, up, history, clobbered>>
      BY <2>2 DEF Fetch, Respond, Disconnect, LateReport, actorVars, segmentVars, historyVars
    <3>3. Laid' /\ Ends'
      BY <1>0, <3>2, QuietStep
    <3> QED BY <2>0, <3>1, <3>3 DEF PartitionInv
  <2>3. CASE Actor \/ Crash \/ Restart
    BY <2>0, <2>3, WriteStep, IndexStep, PublishStep, UpdateStep, TruncateStep, StopStep, RestartStep
       DEF Actor
  <2> QED BY <1>2, <2>1, <2>2, <2>3 DEF TruncatingNext, Next
<1> QED BY <1>1, <1>2

LEMMA InvariantHolds == TruncatingSpec => [](PartitionInv /\ Stoppable)
<1>1. Init => PartitionInv /\ Stoppable
  <2>1. Init => Stoppable
    BY DEF Init, Stoppable
  <2> QED BY <2>1, InitHolds
<1> QED BY <1>1, InvariantStep, PTL DEF TruncatingSpec

\* Every value has its type, in a partition whose owner truncates it anywhere.
THEOREM TypeCorrect == TruncatingSpec => []TypeOK
<1>1. PartitionInv => TypeOK
  BY DEF PartitionInv
<1> QED BY <1>1, InvariantHolds, PTL

\* A restarted partition has every batch that reached the disk, and a running one
\* publishes everything it has written.
THEOREM NothingForgottenHolds == TruncatingSpec => []NothingForgotten
<1>1. PartitionInv => NothingForgotten
  <2> SUFFICES ASSUME PartitionInv, up, writing = Nil, ~ clobbered
               PROVE  snapshot.leo = Len(history)
    BY DEF NothingForgotten
  <2>1. Unpublished = 0
    BY DEF Unpublished
  <2>2. snapshot.leo \in Nat
    BY ViewFacts DEF PartitionInv
  <2> QED BY <2>1, <2>2 DEF PartitionInv, Ends
<1> QED BY <1>1, InvariantHolds, PTL

\* A partition nobody truncates is one that may be truncated.
LEMMA SpecTruncates == Spec => TruncatingSpec
<1>1. [Next]_vars => [TruncatingNext]_vars
  BY DEF TruncatingNext
<1> QED BY <1>1, PTL DEF Spec, TruncatingSpec

-----------------------------------------------------------------------------
(* The watermark *)

\* What the step of each action does to the published offsets.
LEMMA Published ==
    ASSUME TypeOK, Laid, TruncatingNext
    PROVE  \/ UNCHANGED <<snapshot, up>>
           \/ UNCHANGED snapshot /\ ~ up' /\ pending' = <<>> /\ queue' = <<>>
                /\ reply' = [r \in Readers |-> Nil] /\ late' = [r \in Replicas |-> {}]
           \/ PublishBatch \/ UpdateReplicaLeo \/ TruncateLog \/ Restart
BY DEF TruncatingNext, Next, Actor, Produce, Shutdown, Truncate, Fetch, Respond, Disconnect,
       LateReport, WriteBatch, IndexBatch, HandleShutdown, Crash, Stop, actorVars

LEMMA PublishedEnd ==
    ASSUME TypeOK, Laid, PublishBatch
    PROVE  /\ writing # Nil /\ writing.id \in Batches
           /\ Count[writing.id] \in Nat \ {0}
           /\ snapshot.leo \in Nat /\ snapshot.hw \in Nat
           /\ snapshot'.leo = snapshot.leo + Count[writing.id]
           /\ snapshot'.hw = IF Replicas = {} THEN snapshot.hw + Count[writing.id] ELSE snapshot.hw
           /\ snapshot'.replicas = snapshot.replicas
           /\ UNCHANGED <<up, queue, reply, late>>
<1>1. writing # Nil /\ UNCHANGED <<up, queue, reply, late>>
  BY DEF PublishBatch, readerVars
<1>2. writing \in Writing
  BY <1>1 DEF TypeOK
<1>3. writing.id \in Batches
  BY <1>2 DEF Writing
<1>4. Count[writing.id] \in Nat \ {0}
  BY <1>3, BatchAssumption
<1>5. /\ snapshot'.leo = snapshot.leo + Count[writing.id]
      /\ snapshot'.hw = IF Replicas = {} THEN snapshot.hw + Count[writing.id] ELSE snapshot.hw
      /\ snapshot'.replicas = snapshot.replicas
  BY DEF PublishBatch
<1> QED BY <1>1, <1>3, <1>4, <1>5, ViewFacts

LEMMA RestartedEnd ==
    ASSUME TypeOK, Laid, Restart
    PROVE  /\ ~ up /\ UNCHANGED <<queue, pending, reply, late>>
           /\ snapshot'.leo \in Nat
           /\ snapshot'.hw = IF Replicas = {} THEN snapshot'.leo ELSE 0
           /\ \A r \in Replicas : snapshot'.replicas[r] = 0
<1>1. /\ ~ up /\ UNCHANGED <<queue, pending, reply, late>>
      /\ snapshot'.leo = RecoveredEnd(ActiveBase)
      /\ snapshot'.hw = IF Replicas = {} THEN snapshot'.leo ELSE 0
      /\ snapshot'.replicas = [r \in Replicas |-> 0]
  BY DEF Restart, readerVars
<1>2. RecoveredEnd(ActiveBase) \in Nat
  BY ActiveFacts DEF RecoveredEnd, Active
<1> QED BY <1>1, <1>2

\* A truncation that does nothing, or takes the end of the log away.
LEMMA TruncatedEnd ==
    ASSUME TypeOK, Laid, Ends, TruncateLog
    PROVE  \/ snapshot' = snapshot
           \/ /\ snapshot'.leo \in Nat /\ snapshot'.leo < snapshot.leo
              /\ snapshot'.hw = IF snapshot.hw <= snapshot'.leo THEN snapshot.hw ELSE snapshot'.leo
              /\ snapshot'.replicas = snapshot.replicas
<1>1. queue # <<>> /\ Head(queue).cmd = "Truncate"
  BY DEF TruncateLog, Receive
<1>2. Head(queue).offset \in Nat
  BY <1>1, ReceivedType, CommandParts
<1>3. snapshot.leo \in Nat /\ snapshot.hw \in Nat
  BY ViewFacts
<1>4. CASE Head(queue).offset < snapshot.leo
  <2>1. /\ snapshot'.leo = Head(queue).offset
        /\ snapshot'.hw = TruncatedHw(Head(queue).offset)
        /\ snapshot'.replicas = snapshot.replicas
    BY <1>4, TruncateParts
  <2>2. TruncatedHw(Head(queue).offset) =
           IF snapshot.hw <= Head(queue).offset THEN snapshot.hw ELSE Head(queue).offset
    BY <1>2, <1>3, MinPair DEF TruncatedHw
  <2> QED BY <1>2, <1>4, <2>1, <2>2
<1>5. CASE Head(queue).offset >= snapshot.leo
  BY <1>5 DEF TruncateLog
<1> QED BY <1>2, <1>3, <1>4, <1>5

\* No replica has reported less than the watermark, and without replicas the
\* watermark is the end of the log.
Backed ==
    /\ Replicas = {} => snapshot.hw = snapshot.leo
    /\ \A r \in Replicas : snapshot.hw <= snapshot.replicas[r]

LEMMA BackedStep == PartitionInv /\ Backed /\ [TruncatingNext]_vars => Backed'
<1> SUFFICES ASSUME TypeOK, Laid, Ends, Backed, [TruncatingNext]_vars PROVE Backed'
  BY DEF PartitionInv
<1>1. CASE UNCHANGED snapshot
  BY <1>1 DEF Backed
<1>2. CASE PublishBatch
  BY <1>2, PublishedEnd DEF Backed
<1>3. CASE UpdateReplicaLeo
  <2>1. Head(queue).replica \in Replicas
    BY <1>3, UpdateParts
  <2>2. /\ snapshot'.replicas \in [Replicas -> Nat]
        /\ snapshot'.hw = Min({snapshot'.replicas[r] : r \in Replicas})
    BY <1>3, UpdateParts
  <2>3. \A r \in Replicas : snapshot'.hw <= snapshot'.replicas[r]
    BY <2>1, <2>2, LeastReport
  <2> QED BY <2>1, <2>3 DEF Backed
<1>4. CASE TruncateLog
  <2>1. CASE snapshot' = snapshot
    BY <2>1 DEF Backed
  <2>2. CASE /\ snapshot'.leo \in Nat /\ snapshot'.leo < snapshot.leo
             /\ snapshot'.hw = IF snapshot.hw <= snapshot'.leo THEN snapshot.hw ELSE snapshot'.leo
             /\ snapshot'.replicas = snapshot.replicas
    <3>1. snapshot.leo \in Nat /\ snapshot.hw \in Nat /\ snapshot.replicas \in [Replicas -> Nat]
      BY ViewFacts
    <3> QED BY <2>2, <3>1 DEF Backed
  <2> QED BY <1>4, <2>1, <2>2, TruncatedEnd
<1>5. CASE Restart
  BY <1>5, RestartedEnd DEF Backed
<1>6. CASE UNCHANGED vars
  BY <1>6 DEF vars, actorVars, Backed
<1> QED BY <1>1, <1>2, <1>3, <1>4, <1>5, <1>6, Published

LEMMA InitBacked == Init => Backed
BY DEF Init, Backed

\* A delayed report of a replica cannot take back what was committed.
THEOREM WatermarkMonotoneHolds == TruncatingSpec => WatermarkMonotone
<1>1. PartitionInv /\ Backed /\ [TruncatingNext]_vars =>
         [up /\ up' /\ snapshot'.leo >= snapshot.leo => snapshot'.hw >= snapshot.hw]_vars
  <2> SUFFICES ASSUME TypeOK, Laid, Ends, Backed, TruncatingNext,
                      up, up', snapshot'.leo >= snapshot.leo
               PROVE  snapshot'.hw >= snapshot.hw
    BY DEF PartitionInv
  <2>0. snapshot.hw \in Nat /\ snapshot.leo \in Nat /\ snapshot.replicas \in [Replicas -> Nat]
    BY ViewFacts
  <2>1. CASE UNCHANGED snapshot
    BY <2>0, <2>1
  <2>2. CASE PublishBatch
    BY <2>2, PublishedEnd
  <2>3. CASE UpdateReplicaLeo
    <3>1. Head(queue).replica \in Replicas /\ Head(queue).leo \in Nat
      BY <2>3, UpdateParts
    <3>2. /\ snapshot'.replicas = [snapshot.replicas EXCEPT ![Head(queue).replica] =
                ReplicaLeo(snapshot.replicas[Head(queue).replica], Head(queue).leo)]
          /\ snapshot'.replicas \in [Replicas -> Nat]
          /\ snapshot'.hw = Min({snapshot'.replicas[r] : r \in Replicas})
      BY <2>3, UpdateParts
    <3>3. PICK q \in Replicas : snapshot'.hw = snapshot'.replicas[q]
      BY <3>1, <3>2, LeastReport
    <3>4. snapshot'.replicas[q] >= snapshot.replicas[q]
      <4>1. CASE q = Head(queue).replica
        <5>1. snapshot'.replicas[q] = ReplicaLeo(snapshot.replicas[q], Head(queue).leo)
          BY <2>0, <3>2, <4>1
        <5> QED BY <2>0, <3>1, <5>1, ReportedType
      <4>2. CASE q # Head(queue).replica
        <5>1. snapshot'.replicas[q] = snapshot.replicas[q]
          BY <2>0, <3>2, <4>2
        <5> QED BY <2>0, <5>1
      <4> QED BY <4>1, <4>2
    <3>5. snapshot.hw <= snapshot.replicas[q]
      BY DEF Backed
    <3> QED BY <2>0, <3>2, <3>3, <3>4, <3>5
  <2>4. CASE TruncateLog
    BY <2>0, <2>4, TruncatedEnd
  <2>5. CASE Restart
    BY <2>5, RestartedEnd
  <2> QED BY <2>1, <2>2, <2>3, <2>4, <2>5, Published
<1> QED BY <1>1, InitBacked, BackedStep, InvariantHolds, PTL DEF TruncatingSpec, WatermarkMonotone

\* What the actor has been told, or is about to be told, of a replica is within
\* the log, as long as nothing truncates it; a stopped actor is owed nothing.
Told ==
    /\ \A j \in 1 .. Len(queue) :
          /\ queue[j].cmd # "Truncate"
          /\ queue[j].cmd = "UpdateReplicaLeo" => queue[j].leo <= snapshot.leo
    /\ \A r \in Readers : reply[r] # Nil => reply[r].leo <= snapshot.leo
    /\ \A r \in Replicas : \A leo \in late[r] : leo <= snapshot.leo
    /\ \A r \in Replicas : snapshot.replicas[r] <= snapshot.leo
    /\ ~ up => /\ queue = <<>> /\ pending = <<>>
               /\ \A r \in Readers : reply[r] = Nil
               /\ \A r \in Replicas : late[r] = {}

\* What is told of a replica when the step sends it.
LEMMA SentWithin ==
    ASSUME TypeOK, Laid, Told, Next, UNCHANGED snapshot
    PROVE  \A j \in 1 .. Len(queue') :
              /\ queue'[j].cmd # "Truncate"
              /\ queue'[j].cmd = "UpdateReplicaLeo" => queue'[j].leo <= snapshot.leo
<1> TAKE j \in 1 .. Len(queue')
<1> DEFINE sent == queue'[j]
<1>1. (\E i \in 1 .. Len(queue) : sent = queue[i]) \/ Sent(sent)
  BY QueueMoves
<1> SUFFICES sent.cmd # "Truncate" /\ (sent.cmd = "UpdateReplicaLeo" => sent.leo <= snapshot.leo)
  OBVIOUS
<1> HIDE DEF sent
<1>2. CASE \E i \in 1 .. Len(queue) : sent = queue[i]
  BY <1>2 DEF Told
<1>3. CASE \E id \in Batches, acks \in AcksKinds : sent = [cmd |-> "Append", id |-> id, acks |-> acks]
  BY <1>3
<1>4. CASE sent = [cmd |-> "Shutdown"]
  BY <1>4
<1>5. CASE \E r \in Replicas, leo \in Nat :
              /\ sent = [cmd |-> "UpdateReplicaLeo", replica |-> r, leo |-> leo]
              /\ (reply[r] # Nil /\ leo = reply[r].leo) \/ leo \in late[r]
  <2> PICK r \in Replicas, leo \in Nat :
              /\ sent = [cmd |-> "UpdateReplicaLeo", replica |-> r, leo |-> leo]
              /\ (reply[r] # Nil /\ leo = reply[r].leo) \/ leo \in late[r]
    BY <1>5
  <2>1. leo <= snapshot.leo
    BY DEF Told, Readers
  <2>2. sent.cmd = "UpdateReplicaLeo" /\ sent.leo = leo
    OBVIOUS
  <2> QED BY <2>1, <2>2
<1> QED BY <1>1, <1>2, <1>3, <1>4, <1>5, Zenon DEF Sent

\* The answers readers wait for are of the snapshot of their fetch, and the late
\* reports of answers they no longer wait for.
LEMMA AnswerMoves ==
    ASSUME TypeOK, Next
    PROVE  /\ \A r \in Readers : \/ reply'[r] = reply[r] \/ reply'[r] = Nil
                                 \/ reply'[r].leo = snapshot.leo
           /\ \A r \in Replicas : \A leo \in late'[r] :
                 leo \in late[r] \/ (reply[r] # Nil /\ leo = reply[r].leo)
<1>0. reply \in [Readers -> Answer \union {Nil}] /\ late \in [Replicas -> SUBSET Nat]
  BY DEF TypeOK
<1>1. CASE UNCHANGED <<reply, late>>
  BY <1>1
<1>2. CASE \E r \in Readers, fit \in FetchSizes : Fetch(r, fit)
  <2> PICK r \in Readers, fit \in FetchSizes : Fetch(r, fit)
    BY <1>2
  <2>1. /\ reply' = [reply EXCEPT ![r] = [leo |-> snapshot.leo, records |-> FetchRecords(pos[r], fit)]]
        /\ late' = late
    BY DEF Fetch
  <2> QED BY <1>0, <2>1
<1>3. CASE \E r \in Readers : Respond(r)
  <2> PICK r \in Readers : Respond(r)
    BY <1>3
  <2>1. reply' = [reply EXCEPT ![r] = Nil] /\ late' = late
    BY DEF Respond
  <2> QED BY <1>0, <2>1
<1>4. CASE \E r \in Readers : Disconnect(r)
  <2> PICK r \in Readers : Disconnect(r)
    BY <1>4
  <2>1. /\ reply' = [reply EXCEPT ![r] = Nil] /\ reply[r] # Nil
        /\ late' = IF r \in Replicas THEN [late EXCEPT ![r] = late[r] \union {reply[r].leo}] ELSE late
    BY DEF Disconnect
  <2>2. \A q \in Readers : reply'[q] = reply[q] \/ reply'[q] = Nil
    BY <1>0, <2>1
  <2>3. ASSUME NEW q \in Replicas, NEW leo \in late'[q]
        PROVE  leo \in late[q] \/ (reply[q] # Nil /\ leo = reply[q].leo)
    <3>1. CASE r \in Replicas /\ q = r
      BY <1>0, <2>1, <2>3, <3>1
    <3>2. CASE ~ (r \in Replicas /\ q = r)
      BY <1>0, <2>1, <2>3, <3>2
    <3> QED BY <3>1, <3>2
  <2> QED BY <2>2, <2>3
<1>5. CASE \E r \in Replicas : LateReport(r)
  <2> PICK r \in Replicas : LateReport(r)
    BY <1>5
  <2> PICK leo \in late[r] :
          /\ late' = [late EXCEPT ![r] = late[r] \ {leo}]
          /\ UNCHANGED <<actorVars, client, reply, pos, got, historyVars>>
    BY DEF LateReport
  <2>1. reply' = reply /\ late' = [late EXCEPT ![r] = late[r] \ {leo}]
    OBVIOUS
  <2> QED BY <1>0, <2>1
<1>6. CASE HandleShutdown \/ Crash
  <2>1. reply' = [r \in Readers |-> Nil] /\ late' = [r \in Replicas |-> {}]
    BY <1>6 DEF HandleShutdown, Crash, Stop
  <2> QED BY <2>1
<1>7. \/ UNCHANGED <<reply, late>>
      \/ \E r \in Readers, fit \in FetchSizes : Fetch(r, fit)
      \/ \E r \in Readers : Respond(r)
      \/ \E r \in Readers : Disconnect(r)
      \/ \E r \in Replicas : LateReport(r)
      \/ HandleShutdown \/ Crash
  BY DEF Next, Actor, Produce, Shutdown, WriteBatch, IndexBatch, PublishBatch, UpdateReplicaLeo,
         TruncateLog, Restart, readerVars
<1> QED BY <1>1, <1>2, <1>3, <1>4, <1>5, <1>6, <1>7

\* A stopped actor only starts again.
LEMMA DownMoves ==
    ASSUME TypeOK, Ends, Told, ~ up, Next
    PROVE  Restart
BY DEF Next, Actor, Produce, Shutdown, Fetch, Respond, Disconnect, LateReport, Report, Enqueue,
       WriteBatch, IndexBatch, PublishBatch, UpdateReplicaLeo, TruncateLog, HandleShutdown, Crash,
       Receive, Told, Ends

LEMMA ToldStep == PartitionInv /\ Told /\ [Next]_vars => Told'
<1> SUFFICES ASSUME TypeOK, Laid, Ends, Told, [Next]_vars PROVE Told'
  BY DEF PartitionInv
<1>0. snapshot.leo \in Nat
  BY ViewFacts
<1>1. CASE UNCHANGED vars
  <2>1. UNCHANGED <<queue, snapshot, reply, late, up, pending>>
    BY <1>1 DEF vars, actorVars, readerVars
  <2> QED BY <2>1 DEF Told
<1>2. CASE Next /\ ~ up
  <2>1. Restart
    BY <1>2, DownMoves
  <2>2. /\ queue' = queue /\ pending' = pending /\ reply' = reply /\ late' = late
        /\ snapshot'.leo \in Nat /\ \A r \in Replicas : snapshot'.replicas[r] = 0
    BY <2>1, RestartedEnd
  <2>3. up'
    BY <2>1 DEF Restart
  <2>4. /\ queue = <<>> /\ \A r \in Readers : reply[r] = Nil
        /\ \A r \in Replicas : late[r] = {}
    BY <1>2 DEF Told
  <2> QED BY <2>2, <2>3, <2>4 DEF Told
<1>3. CASE Next /\ up /\ UNCHANGED <<snapshot, up>>
  <2>1. \A j \in 1 .. Len(queue') :
              /\ queue'[j].cmd # "Truncate"
              /\ queue'[j].cmd = "UpdateReplicaLeo" => queue'[j].leo <= snapshot.leo
    BY <1>3, SentWithin
  <2>2. \A r \in Readers : reply'[r] # Nil => reply'[r].leo <= snapshot.leo
    <3> TAKE r \in Readers
    <3>1. reply'[r] = reply[r] \/ reply'[r] = Nil \/ reply'[r].leo = snapshot.leo
      BY <1>3, AnswerMoves
    <3> QED BY <1>0, <3>1 DEF Told
  <2>3. \A r \in Replicas : \A leo \in late'[r] : leo <= snapshot.leo
    <3> TAKE r \in Replicas
    <3> TAKE leo \in late'[r]
    <3>1. leo \in late[r] \/ (reply[r] # Nil /\ leo = reply[r].leo)
      BY <1>3, AnswerMoves
    <3> QED BY <3>1 DEF Told, Readers
  <2>4. \A r \in Replicas : snapshot.replicas[r] <= snapshot.leo
    BY DEF Told
  <2> QED BY <1>3, <2>1, <2>2, <2>3, <2>4 DEF Told
<1>4. CASE /\ UNCHANGED snapshot /\ ~ up' /\ pending' = <<>> /\ queue' = <<>>
           /\ reply' = [r \in Readers |-> Nil] /\ late' = [r \in Replicas |-> {}]
  <2>1. \A r \in Replicas : snapshot'.replicas[r] <= snapshot'.leo
    BY <1>4 DEF Told
  <2>2. /\ \A r \in Readers : reply'[r] = Nil
        /\ \A r \in Replicas : late'[r] = {}
    BY <1>4
  <2>3. queue' = <<>> /\ pending' = <<>>
    BY <1>4
  <2> QED BY <2>1, <2>2, <2>3 DEF Told
<1>5. CASE PublishBatch
  <2>1. /\ snapshot'.leo \in Nat /\ snapshot.leo <= snapshot'.leo
        /\ snapshot'.replicas = snapshot.replicas /\ UNCHANGED <<up, queue, reply, late>>
    BY <1>0, <1>5, PublishedEnd
  <2>2. up
    BY <1>5, PublishedEnd DEF Ends
  <2>3. \A n \in Nat : n <= snapshot.leo => n <= snapshot'.leo
    BY <1>0, <2>1
  <2>4. \A j \in 1 .. Len(queue) : queue[j].cmd = "UpdateReplicaLeo" => queue[j].leo \in Nat
    <3> TAKE j \in 1 .. Len(queue)
    <3>1. queue[j] \in Command
      BY DEF TypeOK
    <3> QED BY <3>1, CommandParts
  <2>5. \A r \in Readers : reply[r] # Nil => reply[r].leo \in Nat
    <3> TAKE r \in Readers
    <3>1. reply[r] # Nil => reply[r] \in Answer
      BY DEF TypeOK
    <3> QED BY <3>1 DEF Answer
  <2>6. \A r \in Replicas : late[r] \subseteq Nat /\ snapshot.replicas[r] \in Nat
    BY ViewFacts DEF TypeOK
  <2>7. \A j \in 1 .. Len(queue') :
           /\ queue'[j].cmd # "Truncate"
           /\ queue'[j].cmd = "UpdateReplicaLeo" => queue'[j].leo <= snapshot'.leo
    BY <2>1, <2>3, <2>4 DEF Told
  <2>8. \A r \in Readers : reply'[r] # Nil => reply'[r].leo <= snapshot'.leo
    BY <2>1, <2>3, <2>5 DEF Told
  <2>9. /\ \A r \in Replicas : \A leo \in late'[r] : leo <= snapshot'.leo
        /\ \A r \in Replicas : snapshot'.replicas[r] <= snapshot'.leo
    BY <2>1, <2>3, <2>6 DEF Told
  <2>10. up'
    BY <2>1, <2>2
  <2> QED BY <2>7, <2>8, <2>9, <2>10 DEF Told
<1>6. CASE UpdateReplicaLeo
  <2>1. /\ up' /\ queue # <<>> /\ queue' = Tail(queue) /\ queue \in Seq(Command)
        /\ Head(queue).cmd = "UpdateReplicaLeo" /\ UNCHANGED <<reply, late>>
    BY <1>6 DEF UpdateReplicaLeo, Receive, readerVars, TypeOK
  <2>2. /\ \A j \in 1 .. Len(queue') : j + 1 \in 1 .. Len(queue) /\ queue'[j] = queue[j + 1]
        /\ 1 \in 1 .. Len(queue) /\ Head(queue) = queue[1]
    BY <2>1
  <2>3. Head(queue).replica \in Replicas /\ Head(queue).leo \in Nat /\ Head(queue).leo <= snapshot.leo
    <3>1. Head(queue).leo <= snapshot.leo
      BY <2>1, <2>2 DEF Told
    <3> QED BY <1>6, <3>1, UpdateParts
  <2>4. /\ snapshot'.leo = snapshot.leo
        /\ snapshot'.replicas = [snapshot.replicas EXCEPT ![Head(queue).replica] =
                ReplicaLeo(snapshot.replicas[Head(queue).replica], Head(queue).leo)]
    BY <1>6, UpdateParts
  <2>5. \A r \in Replicas : snapshot'.replicas[r] <= snapshot'.leo
    <3> TAKE r \in Replicas
    <3>0. snapshot.replicas \in [Replicas -> Nat] /\ snapshot.replicas[r] <= snapshot.leo
      BY ViewFacts DEF Told
    <3>1. CASE r = Head(queue).replica
      <4>1. snapshot'.replicas[r] = ReplicaLeo(snapshot.replicas[r], Head(queue).leo)
        BY <2>4, <3>0, <3>1
      <4>2. ReplicaLeo(snapshot.replicas[r], Head(queue).leo) \in {snapshot.replicas[r], Head(queue).leo}
        BY <2>3, <3>0, ReportedType
      <4> QED BY <2>3, <2>4, <3>0, <4>1, <4>2
    <3>2. CASE r # Head(queue).replica
      BY <2>4, <3>0, <3>2
    <3> QED BY <3>1, <3>2
  <2>6. \A j \in 1 .. Len(queue') :
           /\ queue'[j].cmd # "Truncate"
           /\ queue'[j].cmd = "UpdateReplicaLeo" => queue'[j].leo <= snapshot'.leo
    BY <2>2, <2>4 DEF Told
  <2> QED BY <2>1, <2>4, <2>5, <2>6 DEF Told
<1>7. CASE TruncateLog
  <2>1. queue # <<>> /\ queue \in Seq(Command) /\ Head(queue).cmd = "Truncate"
    BY <1>7 DEF TruncateLog, Receive, TypeOK
  <2>2. 1 \in 1 .. Len(queue) /\ Head(queue) = queue[1]
    BY <2>1
  <2> QED BY <2>1, <2>2 DEF Told
<1>8. CASE Restart /\ up
  BY <1>8 DEF Restart
<1>9. Next => TruncatingNext
  BY DEF TruncatingNext
<1> QED BY <1>1, <1>2, <1>3, <1>4, <1>5, <1>6, <1>7, <1>8, <1>9, Published

LEMMA InitTold == Init => Told
BY DEF Init, Told

\* The watermark never passes the end of the log, and without replicas it is the
\* end of the log.
THEOREM WatermarkInLogHolds == Spec => []WatermarkInLog
<1>1. PartitionInv /\ Backed /\ Told => WatermarkInLog
  <2> SUFFICES ASSUME TypeOK, Laid, Backed, Told PROVE WatermarkInLog
    BY DEF PartitionInv
  <2>1. snapshot.leo \in Nat /\ snapshot.hw \in Nat /\ snapshot.replicas \in [Replicas -> Nat]
    BY ViewFacts
  <2>2. CASE Replicas = {}
    BY <2>1, <2>2 DEF WatermarkInLog, Backed
  <2>3. CASE Replicas # {}
    <3> PICK r \in Replicas : TRUE
      BY <2>3
    <3>1. snapshot.hw <= snapshot.replicas[r] /\ snapshot.replicas[r] <= snapshot.leo
      BY DEF Backed, Told
    <3> QED BY <2>1, <2>3, <3>1 DEF WatermarkInLog
  <2> QED BY <2>2, <2>3
<1>2. [Next]_vars => [TruncatingNext]_vars
  BY DEF TruncatingNext
<1> QED BY <1>1, <1>2, InitBacked, BackedStep, InitTold, ToldStep, SpecTruncates, InvariantHolds, PTL
        DEF Spec

\* So it is where the owner truncates, as long as there are no replicas.
THEOREM WatermarkIsEnd ==
    ASSUME Replicas = {} PROVE TruncatingSpec => []WatermarkInLog
<1>1. PartitionInv /\ Backed => WatermarkInLog
  <2> SUFFICES ASSUME TypeOK, Laid, Backed PROVE WatermarkInLog
    BY DEF PartitionInv
  <2> QED BY ViewFacts DEF WatermarkInLog, Backed
<1> QED BY <1>1, InitBacked, BackedStep, InvariantHolds, PTL DEF TruncatingSpec

\* The acknowledgements still owed are for offsets within the log, in order, and
\* with replicas above the watermark.
Owed ==
    \A i \in 1 .. Len(pending) :
        /\ pending[i].hw <= snapshot.leo
        /\ Replicas # {} => pending[i].hw > snapshot.hw
        /\ \A j \in i + 1 .. Len(pending) : pending[i].hw < pending[j].hw

LEMMA PendingType ==
    ASSUME TypeOK
    PROVE  /\ pending \in Seq([hw : Nat, id : Batches]) /\ Len(pending) \in Nat
           /\ \A i \in 1 .. Len(pending) : pending[i].hw \in Nat
<1>1. pending \in Seq([hw : Nat, id : Batches]) /\ Len(pending) \in Nat
  BY DEF TypeOK
<1>2. \A i \in 1 .. Len(pending) : pending[i].hw \in Nat
  <2> TAKE i \in 1 .. Len(pending)
  <2>1. pending[i] \in [hw : Nat, id : Batches]
    BY <1>1, ElementOfSeq
  <2> QED BY <2>1
<1> QED BY <1>1, <1>2

LEMMA OwedStep == PartitionInv /\ Backed /\ Told /\ Owed /\ [Next]_vars => Owed'
<1> SUFFICES ASSUME TypeOK, Laid, Ends, Backed, Told, Owed, [Next]_vars PROVE Owed'
  BY DEF PartitionInv
<1>0. /\ snapshot.leo \in Nat /\ snapshot.hw \in Nat /\ snapshot.replicas \in [Replicas -> Nat]
      /\ pending \in Seq([hw : Nat, id : Batches]) /\ Len(pending) \in Nat
      /\ \A i \in 1 .. Len(pending) : pending[i].hw \in Nat
  BY ViewFacts, PendingType
<1>1. CASE UNCHANGED <<snapshot, pending>>
  BY <1>1 DEF Owed
<1>2. CASE pending' = <<>>
  BY <1>2 DEF Owed
<1>3. CASE PublishBatch
  <2>1. /\ Count[writing.id] \in Nat \ {0}
        /\ snapshot'.leo = snapshot.leo + Count[writing.id]
        /\ Replicas # {} => snapshot'.hw = snapshot.hw
    BY <1>3, PublishedEnd
  <2> DEFINE entry == [hw |-> snapshot.leo + Count[writing.id], id |-> writing.id]
  <2>2. pending' = pending \/ pending' = Append(pending, entry)
    BY <1>3 DEF PublishBatch
  <2>3. /\ entry.hw = snapshot'.leo /\ snapshot'.leo \in Nat /\ snapshot.leo < snapshot'.leo
    BY <1>0, <2>1
  <2>4. Replicas # {} => snapshot.hw <= snapshot.leo
    <3> SUFFICES ASSUME Replicas # {} PROVE snapshot.hw <= snapshot.leo
      OBVIOUS
    <3> PICK r \in Replicas : TRUE
      OBVIOUS
    <3>1. snapshot.hw <= snapshot.replicas[r] /\ snapshot.replicas[r] <= snapshot.leo
      BY DEF Backed, Told
    <3> QED BY <1>0, <3>1
  <2> HIDE DEF entry
  <2>5. \A i \in 1 .. Len(pending) : /\ pending[i].hw <= snapshot'.leo /\ pending[i].hw < snapshot'.leo
                                     /\ Replicas # {} => pending[i].hw > snapshot'.hw
    BY <1>0, <2>1, <2>3 DEF Owed
  <2>6. CASE pending' = pending
    BY <2>5, <2>6 DEF Owed
  <2>7. CASE pending' = Append(pending, entry)
    <3>1. /\ Len(pending') = Len(pending) + 1
          /\ \A i \in 1 .. Len(pending) : pending'[i] = pending[i]
          /\ pending'[Len(pending) + 1] = entry
      BY <1>0, <2>7
    <3>2. \A i \in 1 .. Len(pending') : i \in 1 .. Len(pending) \/ i = Len(pending) + 1
      BY <1>0, <3>1
    <3> SUFFICES ASSUME NEW i \in 1 .. Len(pending')
                 PROVE  /\ pending'[i].hw <= snapshot'.leo
                        /\ Replicas # {} => pending'[i].hw > snapshot'.hw
                        /\ \A j \in i + 1 .. Len(pending') : pending'[i].hw < pending'[j].hw
      BY DEF Owed
    <3>3. CASE i \in 1 .. Len(pending)
      <4>1. ASSUME NEW j \in i + 1 .. Len(pending') PROVE pending'[i].hw < pending'[j].hw
        <5>1. CASE j \in 1 .. Len(pending)
          <6>1. j \in i + 1 .. Len(pending)
            BY <1>0, <5>1
          <6> QED BY <3>1, <3>3, <5>1, <6>1 DEF Owed
        <5>2. CASE j = Len(pending) + 1
          BY <2>3, <2>5, <3>1, <3>3, <5>2
        <5> QED BY <1>0, <3>1, <5>1, <5>2
      <4> QED BY <2>5, <3>1, <3>3, <4>1
    <3>4. CASE i = Len(pending) + 1
      <4>1. \A j \in i + 1 .. Len(pending') : FALSE
        BY <1>0, <3>1, <3>4
      <4>2. Replicas # {} => snapshot'.hw < snapshot'.leo
        BY <1>0, <2>1, <2>3, <2>4
      <4> QED BY <1>0, <2>1, <2>3, <3>1, <3>4, <4>1, <4>2
    <3> QED BY <3>2, <3>3, <3>4
  <2> QED BY <2>2, <2>6, <2>7
<1>4. CASE UpdateReplicaLeo
  <2> DEFINE k == Cardinality(Released(snapshot'.hw))
  <2>1. k \in 0 .. Len(pending) /\ Released(snapshot'.hw) = 1 .. k
    BY ReleasedFirst
  <2>2. snapshot'.leo = snapshot.leo /\ snapshot'.hw \in Nat
        /\ pending' = SubSeq(pending, k + 1, Len(pending))
    BY <1>4, UpdateParts
  <2> HIDE DEF k
  <2>3. /\ Len(pending') = Len(pending) - k
        /\ \A i \in 1 .. Len(pending') : k + i \in 1 .. Len(pending) /\ pending'[i] = pending[k + i]
    <3>1. k + 1 \in Nat \ {0} /\ Len(pending) \in 0 .. Len(pending) /\ k \in Nat
      BY <1>0, <2>1
    <3>2. /\ Len(pending') = IF k + 1 <= Len(pending) THEN Len(pending) - (k + 1) + 1 ELSE 0
          /\ \A i \in 1 .. Len(pending) - (k + 1) + 1 : pending'[i] = pending[(k + 1) + i - 1]
      <4> DEFINE m == k + 1
      <4>1. m \in Nat \ {0} /\ pending' = SubSeq(pending, m, Len(pending))
        BY <2>2, <3>1
      <4> HIDE DEF m
      <4>2. /\ Len(pending') = IF m <= Len(pending) THEN Len(pending) - m + 1 ELSE 0
            /\ \A i \in 1 .. Len(pending) - m + 1 : pending'[i] = pending[m + i - 1]
        BY <1>0, <3>1, <4>1, PartType
      <4> QED BY <4>2 DEF m
    <3>3. Len(pending') = Len(pending) - k
      BY <1>0, <2>1, <3>1, <3>2
    <3>4. ASSUME NEW i \in 1 .. Len(pending')
          PROVE  k + i \in 1 .. Len(pending) /\ pending'[i] = pending[k + i]
      <4>1. i \in 1 .. Len(pending) - (k + 1) + 1 /\ (k + 1) + i - 1 = k + i /\ k + i \in 1 .. Len(pending)
        BY <1>0, <2>1, <3>1, <3>3
      <4> QED BY <3>2, <4>1
    <3> QED BY <3>3, <3>4
  <2>4. k + 1 \in 1 .. Len(pending) => pending[k + 1].hw > snapshot'.hw
    <3> SUFFICES ASSUME k + 1 \in 1 .. Len(pending), ~ (pending[k + 1].hw > snapshot'.hw) PROVE FALSE
      OBVIOUS
    <3>1. pending[k + 1].hw <= snapshot'.hw
      BY <1>0, <2>2
    <3>2. \A j \in 1 .. k : pending[j].hw <= snapshot'.hw
      <4> TAKE j \in 1 .. k
      <4>1. j \in Released(snapshot'.hw) /\ j \in 1 .. j
        BY <2>1
      <4> QED BY <4>1 DEF Released
    <3>3. \A j \in 1 .. k + 1 : pending[j].hw <= snapshot'.hw
      <4> TAKE j \in 1 .. k + 1
      <4>1. j \in 1 .. k \/ j = k + 1
        BY <2>1
      <4> QED BY <3>1, <3>2, <4>1
    <3>4. k + 1 \in Released(snapshot'.hw)
      BY <3>3 DEF Released
    <3>5. k + 1 \notin 1 .. k
      BY <2>1
    <3> QED BY <2>1, <3>4, <3>5
  <2> SUFFICES ASSUME NEW i \in 1 .. Len(pending')
               PROVE  /\ pending'[i].hw <= snapshot'.leo
                      /\ Replicas # {} => pending'[i].hw > snapshot'.hw
                      /\ \A j \in i + 1 .. Len(pending') : pending'[i].hw < pending'[j].hw
    BY DEF Owed
  <2>5. pending'[i].hw <= snapshot'.leo
    BY <2>2, <2>3 DEF Owed
  <2>6. pending'[i].hw > snapshot'.hw
    <3>1. k + 1 \in 1 .. Len(pending) /\ k + i \in 1 .. Len(pending) /\ k + 1 \in Nat
      BY <1>0, <2>1, <2>3
    <3>2. pending[k + i].hw >= pending[k + 1].hw
      <4>1. CASE i = 1
        BY <1>0, <3>1, <4>1
      <4>2. CASE i # 1
        <5>1. k + i \in (k + 1) + 1 .. Len(pending)
          BY <2>1, <3>1, <4>2
        <5>2. pending[k + 1].hw < pending[k + i].hw
          BY <3>1, <5>1 DEF Owed
        <5> QED BY <1>0, <3>1, <5>2, SMTT(30)
      <4> QED BY <4>1, <4>2
    <3>3. pending[k + 1].hw > snapshot'.hw
      BY <2>4, <3>1
    <3>4. pending[k + 1].hw \in Nat /\ pending[k + i].hw \in Nat /\ snapshot'.hw \in Nat
      BY <1>0, <2>2, <3>1
    <3>5. pending[k + i].hw > snapshot'.hw
      BY <3>2, <3>3, <3>4
    <3>6. pending'[i] = pending[k + i]
      BY <2>3
    <3> QED BY <3>5, <3>6
  <2>7. ASSUME NEW j \in i + 1 .. Len(pending') PROVE pending'[i].hw < pending'[j].hw
    <3>1. j \in 1 .. Len(pending') /\ k + j \in (k + i) + 1 .. Len(pending)
      BY <1>0, <2>1, <2>3
    <3> QED BY <2>3, <3>1 DEF Owed
  <2> QED BY <2>5, <2>6, <2>7
<1>5. CASE TruncateLog
  <2>1. queue # <<>> /\ queue \in Seq(Command) /\ Head(queue).cmd = "Truncate"
    BY <1>5 DEF TruncateLog, Receive, TypeOK
  <2>2. 1 \in 1 .. Len(queue) /\ Head(queue) = queue[1]
    BY <2>1
  <2> QED BY <2>1, <2>2 DEF Told
<1>6. CASE Restart
  <2>1. pending' = <<>>
    BY <1>6, RestartedEnd DEF Told
  <2> QED BY <1>2, <2>1
<1>7. \/ UNCHANGED <<snapshot, pending>> \/ pending' = <<>>
      \/ PublishBatch \/ UpdateReplicaLeo \/ TruncateLog \/ Restart
  BY DEF Next, Actor, Produce, Shutdown, Fetch, Respond, Disconnect, LateReport, WriteBatch,
         IndexBatch, HandleShutdown, Crash, Stop, vars, actorVars
<1> QED BY <1>1, <1>2, <1>3, <1>4, <1>5, <1>6, <1>7

\* No acknowledgement stays behind the watermark.
THEOREM AcksWaitHolds == Spec => []AcksWaitAboveWatermark
<1>1. Owed => AcksWaitAboveWatermark
  BY DEF Owed, AcksWaitAboveWatermark
<1>2. Init => Owed
  BY DEF Init, Owed
<1>3. [Next]_vars => [TruncatingNext]_vars
  BY DEF TruncatingNext
<1> QED BY <1>1, <1>2, <1>3, OwedStep, InitBacked, BackedStep, InitTold, ToldStep, SpecTruncates,
           InvariantHolds, PTL DEF Spec

-----------------------------------------------------------------------------
(* What the search in a segment finds *)

\* Every batch moves the count on.
LEMMA TotalRises ==
    ASSUME NEW data \in Seq(Batch), NEW i \in 0 .. Len(data), NEW j \in 0 .. Len(data), i < j
    PROVE  Total(data)[i] < Total(data)[j]
<1> DEFINE f == Total(data)
           Bad == {k \in 0 .. Len(data) : i < k /\ ~ (f[i] < f[k])}
<1>1. SUFFICES ASSUME Bad # {} PROVE FALSE
  OBVIOUS
<1>2. PICK k \in Bad : \A m \in Bad : k <= m
  <2>1. Bad \subseteq Nat
    OBVIOUS
  <2> HIDE DEF Bad
  <2> QED BY <1>1, <2>1, LeastNat
<1>3. k \in 1 .. Len(data) /\ k - 1 \in 0 .. Len(data) /\ i <= k - 1 /\ ~ (k <= k - 1)
  BY <1>2
<1>4. f[k] = f[k - 1] + Count[data[k].id]
  BY <1>3, TotalValues
<1>5. Count[data[k].id] \in Nat /\ Count[data[k].id] > 0
  BY <1>3, CountType
<1>6. f[i] \in Nat /\ f[k - 1] \in Nat
  BY <1>3, TotalType
<1>7. k - 1 \notin Bad
  <2> HIDE DEF Bad
  <2> QED BY <1>2, <1>3
<1>8. i = k - 1 \/ f[i] < f[k - 1]
  BY <1>3, <1>7
<1>9. f[i] < f[k]
  <2> HIDE DEF f, Bad
  <2> QED BY <1>4, <1>5, <1>6, <1>8
<1> QED BY <1>2, <1>9

\* Below the end of a file every record is in one of its batches.
LEMMA HolderExists ==
    ASSUME NEW data \in Seq(Batch), NEW t \in Nat, t < RecordsCount(data)
    PROVE  \E p \in 1 .. Len(data) : Total(data)[p - 1] <= t /\ t < Total(data)[p]
<1> DEFINE f == Total(data)
           T == {j \in 0 .. Len(data) : t < f[j]}
<1>1. Len(data) \in T
  BY TotalDef
<1>2. PICK p \in T : \A j \in T : p <= j
  <2>1. T \subseteq Nat
    OBVIOUS
  <2> HIDE DEF T
  <2> QED BY <1>1, <2>1, LeastNat
<1>3. p # 0
  <2>1. f[0] = 0
    BY TotalValues
  <2> QED BY <1>2, <2>1
<1>4. p \in 1 .. Len(data) /\ p - 1 \in 0 .. Len(data) /\ ~ (p <= p - 1)
  BY <1>2, <1>3
<1>5. p - 1 \notin T
  <2> HIDE DEF T
  <2> QED BY <1>2, <1>4
<1>6. f[p - 1] \in Nat /\ f[p] \in Nat
  BY <1>4, TotalType
<1>7. f[p - 1] <= t
  BY <1>4, <1>5, <1>6
<1> QED BY <1>2, <1>4, <1>7

\* From an earlier batch, counted from the right offset, linear_search arrives at
\* the batch that holds the target: a farthest start from which it does not would
\* come before one from which it does.
LEMMA WalkFinds ==
    ASSUME NEW data \in Seq(Batch), NEW length \in 0 .. Len(data), NEW base \in Nat,
           NEW target \in Nat, NEW p \in 1 .. length,
           base + Total(data)[p - 1] <= target, target < base + Total(data)[p],
           NEW q \in 0 .. p - 1
    PROVE  Walk(data, length, target)[<<base + Total(data)[q], q>>] = p - 1
<1> DEFINE f == Total(data)
           w == Walk(data, length, target)
           Bad == {m \in 0 .. p - 1 : w[<<base + f[p - 1 - m], p - 1 - m>>] # p - 1}
<1>0. length \in Nat /\ Len(data) \in Nat /\ length <= Len(data) /\ p \in Nat /\ p <= length /\ p >= 1
  OBVIOUS
<1>1. SUFFICES Bad = {}
  <2>1. p - 1 - q \notin Bad => w[<<base + f[q], q>>] = p - 1
    <3>1. p - 1 - q \in 0 .. p - 1 /\ p - 1 - (p - 1 - q) = q
      BY <1>0
    <3> HIDE DEF w, f
    <3> QED BY <3>1
  <2> HIDE DEF Bad
  <2> QED BY <2>1
<1>2. SUFFICES ASSUME Bad # {} PROVE FALSE
  OBVIOUS
<1>3. PICK m \in Bad : \A k \in Bad : m <= k
  <2>1. Bad \subseteq Nat
    OBVIOUS
  <2> HIDE DEF Bad
  <2> QED BY <1>2, <2>1, LeastNat
<1> DEFINE s == p - 1 - m
<1>4. /\ m \in 0 .. p - 1 /\ s \in Nat /\ s <= p - 1 /\ s < length
      /\ s \in 0 .. Len(data) /\ s + 1 \in 1 .. Len(data) /\ s + 1 \in 0 .. Len(data)
      /\ w[<<base + f[s], s>>] # p - 1
  BY <1>0, <1>3
<1> HIDE DEF Bad, f, w
<1>5. f[s] \in Nat /\ f[s + 1] \in Nat /\ f[p - 1] \in Nat /\ f[p] \in Nat
  <2>1. p \in 0 .. Len(data) /\ p - 1 \in 0 .. Len(data)
    BY <1>0
  <2> HIDE DEF s
  <2> QED BY <1>4, <2>1, TotalType DEF f
<1>6. CountAt(data, s) = Count[data[s + 1].id] /\ f[s + 1] = f[s] + Count[data[s + 1].id]
  <2> HIDE DEF s
  <2>1. s < Len(data)
    BY <1>0, <1>4
  <2>2. s + 1 - 1 = s
    BY <1>4
  <2>3. f[s + 1] = f[s + 1 - 1] + Count[data[s + 1].id]
    BY <1>4, TotalValues DEF f
  <2> QED BY <2>1, <2>2, <2>3 DEF CountAt
<1>7. Count[data[s + 1].id] \in Nat
  <2> HIDE DEF s
  <2> QED BY <1>4, CountType
<1>8. w[<<base + f[s], s>>] =
         IF base + f[s] >= target THEN s
         ELSE IF s >= length THEN Nil
         ELSE IF (base + f[s]) + CountAt(data, s) > target THEN s
         ELSE w[<<(base + f[s]) + CountAt(data, s), s + 1>>]
  <2>1. Walks(w, data, length, target)
    BY <1>0, WalkValues DEF w
  <2>2. base + f[s] \in Nat /\ s \in Nat
    BY <1>4, <1>5
  <2> HIDE DEF s
  <2> QED BY <2>1, <2>2 DEF Walks
<1>9. (base + f[s]) + CountAt(data, s) = base + f[s + 1]
  <2> HIDE DEF s
  <2> QED BY <1>5, <1>6, <1>7
<1>10. base + f[p - 1] <= target /\ target < base + f[p]
  BY DEF f
<1>11. CASE s = p - 1
  <2>1. base + f[s + 1] > target
    <3>1. s + 1 = p
      BY <1>0, <1>11
    <3> HIDE DEF s
    <3> QED BY <1>5, <1>10, <3>1
  <2>2. w[<<base + f[s], s>>] = s
    <3> HIDE DEF s
    <3> QED BY <1>0, <1>4, <1>8, <1>9, <2>1
  <2> HIDE DEF s
  <2> QED BY <1>4, <1>11, <2>2
<1>12. CASE s # p - 1
  <2>1. s + 1 <= p - 1 /\ s < p - 1 /\ m - 1 \in 0 .. p - 1 /\ p - 1 - (m - 1) = s + 1 /\ ~ (m <= m - 1)
    BY <1>0, <1>4, <1>12
  <2>2. f[s] < f[p - 1]
    <3>1. p - 1 \in 0 .. Len(data)
      BY <1>0
    <3> HIDE DEF s
    <3> QED BY <1>4, <2>1, <3>1, TotalRises DEF f
  <2>3. f[s + 1] <= f[p - 1]
    <3>1. p - 1 \in 0 .. Len(data)
      BY <1>0
    <3>2. s + 1 = p - 1 \/ s + 1 < p - 1
      BY <1>0, <1>4, <2>1
    <3> HIDE DEF s
    <3>3. s + 1 < p - 1 => f[s + 1] < f[p - 1]
      BY <1>4, <3>1, TotalRises DEF f
    <3> QED BY <1>5, <3>2, <3>3
  <2>4. w[<<base + f[s + 1], s + 1>>] = p - 1
    <3>1. m - 1 \notin Bad
      BY <1>3, <2>1
    <3>2. w[<<base + f[p - 1 - (m - 1)], p - 1 - (m - 1)>>] = p - 1
      BY <2>1, <3>1 DEF Bad
    <3> HIDE DEF s
    <3> QED BY <2>1, <3>2
  <2>5. ~ (base + f[s] >= target) /\ ~ (base + f[s + 1] > target)
    <3> HIDE DEF s
    <3> QED BY <1>5, <1>10, <2>2, <2>3, SMTT(30)
  <2> HIDE DEF s
  <2>6. w[<<base + f[s], s>>] = w[<<base + f[s + 1], s + 1>>]
    BY <1>0, <1>4, <1>8, <1>9, <2>5, SMTT(30)
  <2> QED BY <1>4, <2>4, <2>6
<1> QED BY <1>11, <1>12

\* The entry at which the search of the index ends is at or below the target: it is
\* where every range the loop goes on to starts.
LEMMA EntriesUpToFinds ==
    ASSUME NEW index, NEW count \in Nat, NEW target \in Nat
    PROVE  LET found == EntriesUpTo(index, count, target)
           IN  found \in 0 .. count /\ (found # 0 => index[found].offset <= target)
<1> DEFINE s == Search(index, count, target)
           At(n) == n # 0 => index[n].offset <= target
           Bad == {k \in Nat : \E lo \in 0 .. count, hi \in -1 .. count - 1 :
                      hi - lo < k /\ At(lo) /\ ~ At(s[<<lo, hi>>])}
<1>1. Searches(s, index, count, target)
  BY SearchValues
<1>2. EntriesUpTo(index, count, target) = s[<<0, count - 1>>]
  BY SearchDef
<1> HIDE DEF s, At
<1>3. Bad = {}
  <2>1. SUFFICES ASSUME Bad # {} PROVE FALSE
    OBVIOUS
  <2>2. PICK k \in Bad : \A j \in Bad : k <= j
    <3>1. Bad \subseteq Nat
      OBVIOUS
    <3> HIDE DEF Bad
    <3> QED BY <2>1, <3>1, LeastNat
  <2>3. PICK lo \in 0 .. count, hi \in -1 .. count - 1 :
            hi - lo < k /\ At(lo) /\ ~ At(s[<<lo, hi>>])
    BY <2>2
  <2> DEFINE m == Middle(lo, hi)
  <2>4. s[<<lo, hi>>] = IF lo > hi THEN lo
                        ELSE IF index[m + 1].offset <= target THEN s[<<m + 1, hi>>]
                        ELSE IF m = 0 THEN lo
                        ELSE s[<<lo, m - 1>>]
    BY <1>1 DEF Searches
  <2>5. lo <= hi /\ k \in Nat /\ k # 0 /\ k - 1 \in Nat
    <3>1. ~ (lo > hi)
      BY <2>3, <2>4
    <3> HIDE DEF Bad
    <3>2. k \in Nat
      BY <2>2 DEF Bad
    <3> QED BY <2>3, <3>1, <3>2
  <2>6. /\ m + 1 \in 0 .. count
        /\ hi - (m + 1) < hi - lo
        /\ m # 0 => m - 1 \in -1 .. count - 1
        /\ (m - 1) - lo < hi - lo
        /\ m \in Int
    <3>1. /\ m \in 0 .. count - 1
          /\ m + 1 \in 0 .. count
          /\ hi - (m + 1) < hi - lo
          /\ m # 0 => m - 1 \in -1 .. count - 1
          /\ (m - 1) - lo < hi - lo
      <4> HIDE DEF Bad
      <4> QED BY <2>5, SearchShrinks
    <3> HIDE DEF m, Bad
    <3> QED BY <3>1
  <2> HIDE DEF m
  <2>7. \/ At(m + 1) /\ ~ At(s[<<m + 1, hi>>])
        \/ m # 0 /\ ~ At(s[<<lo, m - 1>>])
    <3> HIDE DEF Bad
    <3>1. CASE index[m + 1].offset <= target
      <4>1. At(m + 1)
        BY <3>1 DEF At
      <4> QED BY <2>3, <2>4, <2>5, <3>1, <4>1
    <3>2. CASE ~ (index[m + 1].offset <= target)
      BY <2>3, <2>4, <2>5, <3>2
    <3> QED BY <3>1, <3>2
  <2>8. hi - (m + 1) < k - 1 /\ (m - 1) - lo < k - 1
    BY <2>3, <2>5, <2>6
  <2>9. k - 1 \in Bad
    BY <2>3, <2>5, <2>6, <2>7, <2>8
  <2>10. k <= k - 1
    <3> HIDE DEF Bad
    <3> QED BY <2>2, <2>9
  <2> QED BY <2>5, <2>10
<1>4. At(s[<<0, count - 1>>])
  <2>1. count \notin Bad
    BY <1>3
  <2>2. (count - 1) - 0 < count /\ 0 \in 0 .. count /\ count - 1 \in -1 .. count - 1
    OBVIOUS
  <2>3. At(0)
    BY DEF At
  <2> QED BY <2>1, <2>2, <2>3
<1>5. EntriesUpTo(index, count, target) \in 0 .. count
  BY EntriesUpToType
<1> QED BY <1>2, <1>4, <1>5 DEF At

-----------------------------------------------------------------------------
(* FetchFindsRecord *)

\* An index entry leads to a batch of the file and knows the offset it starts at.
Points(entry, data, base) ==
    entry.pos < Len(data) /\ entry.offset = base + Total(data)[entry.pos]

AllPoint(index, data, base) ==
    \A k \in 1 .. Len(index) : Points(index[k], data, base)

\* So does every entry but a first one that LogSegment::open took for one.
Indexed(index, data, base) ==
    \A k \in 1 .. Len(index) : (k = 1 /\ index[k] = ZeroEntry) \/ Points(index[k], data, base)

\* The batches of a file follow one another.
Contiguous(data, base) ==
    \A i \in 1 .. Len(data) : data[i].base = base + Total(data)[i - 1]

\* The file is the last one that starts at or below the offset.
Covers(directory, base, offset) ==
    base <= offset /\ \A c \in DOMAIN directory : base < c => offset < c

\* Where a file covers an offset, it has the record of the history there.
Recorded(directory, written) ==
    \A b \in DOMAIN directory : \A i \in 1 .. Len(directory[b]) :
        LET batch == directory[b][i]
        IN  \A k \in 0 .. Count[batch.id] - 1 :
                Covers(directory, b, batch.base + k) =>
                    /\ batch.base + k < Len(written)
                    /\ written[batch.base + k + 1] = <<batch.id, k>>

\* A file reaches the next one.
NoGap(directory) ==
    \A b, c \in DOMAIN directory : b < c =>
        \E d \in DOMAIN directory : b < d /\ d <= b + RecordsCount(directory[b])

OnDisk(directory, entries, written) ==
    /\ \A b \in DOMAIN directory : Contiguous(directory[b], b)
    /\ \A b \in DOMAIN directory : Indexed(entries[b], directory[b], b)
    /\ NoGap(directory)
    /\ Recorded(directory, written)

\* The append under way wrote the last batch of the active file, at its end, where
\* no entry that LogSegment::open made up leads.
Underway ==
    /\ cursor >= Len(Active) => AllPoint(indexes[ActiveBase], Active, ActiveBase)
    /\ writing # Nil =>
          /\ cursor >= Len(Active)
          /\ Active # <<>>
          /\ writing.pos = Len(Active) - 1
          /\ Active[Len(Active)].id = writing.id

\* The views show every file at its full length, except the batch of that append.
Shown ==
    /\ \A b \in DOMAIN files : \E i \in Views : View(i).base = b
    /\ \A i \in Views : View(i).base # ActiveBase => View(i).size = Len(files[View(i).base])
    /\ View(Len(snapshot.segments)).size + (IF writing = Nil THEN 0 ELSE 1) = Len(Active)
    /\ size + (IF writing # Nil /\ ~ writing.indexed THEN 1 ELSE 0) = Len(Active)

Sound == ~ clobbered => OnDisk(files, indexes, history) /\ Underway /\ (up => Shown)

\* Counts rise, so that an offset below the end of a batch is not past its start.
LEMMA TotalOrders ==
    ASSUME NEW data \in Seq(Batch), NEW i \in 0 .. Len(data), NEW j \in 0 .. Len(data),
           Total(data)[i] < Total(data)[j]
    PROVE  i < j
<1>1. SUFFICES ASSUME j <= i PROVE FALSE
  OBVIOUS
<1>2. Total(data)[i] \in Nat /\ Total(data)[j] \in Nat
  BY TotalType
<1>3. CASE i = j
  BY <1>2, <1>3
<1>4. CASE j < i
  <2>1. Total(data)[j] < Total(data)[i]
    BY <1>4, TotalRises
  <2> QED BY <1>2, <2>1
<1> QED BY <1>1, <1>3, <1>4

\* Where linear_search starts.
StartOf(index, view, offset) ==
    LET entry == FindPhysicalPosition(index, view.indexCount, offset)
    IN  IF entry = Nil THEN [offset |-> view.base, pos |-> 0] ELSE entry

\* It is a batch at or before the one that holds the offset.
LEMMA StartFinds ==
    ASSUME NEW data \in Seq(Batch), NEW index \in Seq(IndexEntry),
           NEW view \in SegmentView, view.indexCount <= Len(index), NEW target \in Nat,
           AllPoint(index, data, view.base),
           NEW p \in 1 .. Len(data), target < view.base + Total(data)[p]
    PROVE  LET start == StartOf(index, view, target)
           IN  start.pos \in 0 .. p - 1 /\ start.offset = view.base + Total(data)[start.pos]
<1> DEFINE count == view.indexCount
           found == EntriesUpTo(index, count, target)
           start == StartOf(index, view, target)
<1>1. count \in Nat /\ count <= Len(index) /\ view.base \in Nat
  BY DEF SegmentView
<1>2. found \in 0 .. count /\ (found # 0 => index[found].offset <= target)
  BY <1>1, EntriesUpToFinds
<1>3. start = IF found = 0 \/ index[found] = Nil THEN [offset |-> view.base, pos |-> 0]
                                                ELSE index[found]
  BY DEF StartOf, FindPhysicalPosition
<1> HIDE DEF found, count, start
<1>4. CASE found = 0
  <2>1. start.pos = 0 /\ start.offset = view.base
    BY <1>3, <1>4
  <2>2. Total(data)[0] = 0
    BY TotalValues
  <2>3. 0 \in 0 .. p - 1 /\ view.base = view.base + 0
    BY <1>1
  <2>4. start.pos \in 0 .. p - 1 /\ start.offset = view.base + Total(data)[start.pos]
    BY <2>1, <2>2, <2>3
  <2> QED BY <2>4 DEF start
<1>5. CASE found # 0
  <2>1. found \in 1 .. Len(index) /\ index[found].offset <= target
    BY <1>1, <1>2, <1>5
  <2>2. index[found] \in IndexEntry
    BY <2>1, ElementOfSeq
  <2>3. start = index[found]
    <3>1. index[found] # Nil
      BY <2>2, NilAssumption
    <3> QED BY <1>3, <1>5, <3>1
  <2>4. start.pos \in Nat /\ start.offset <= target
    BY <2>1, <2>2, <2>3 DEF IndexEntry
  <2>5. start.pos < Len(data) /\ start.offset = view.base + Total(data)[start.pos]
    BY <2>1, <2>3 DEF AllPoint, Points
  <2>6. start.pos \in 0 .. Len(data) /\ p \in 0 .. Len(data)
    BY <2>4, <2>5
  <2>7. Total(data)[start.pos] \in Nat /\ Total(data)[p] \in Nat
    BY <2>6, TotalType
  <2>8. Total(data)[start.pos] < Total(data)[p]
    BY <1>1, <2>4, <2>5, <2>7
  <2>9. start.pos < p
    BY <2>6, <2>8, TotalOrders
  <2>10. start.pos \in 0 .. p - 1
    BY <2>4, <2>9
  <2> QED BY <2>5, <2>10 DEF start
<1> QED BY <1>4, <1>5

\* A read starts at the batch that holds the offset.
LEMMA IterStarts ==
    ASSUME NEW data \in Seq(Batch), NEW index \in Seq(IndexEntry),
           NEW view \in SegmentView, view.indexCount <= Len(index), NEW target \in Nat,
           AllPoint(index, data, view.base), view.size <= Len(data),
           NEW p \in 1 .. view.size,
           view.base + Total(data)[p - 1] <= target, target < view.base + Total(data)[p]
    PROVE  BatchIterFrom(data, index, view, target) = BatchesFrom(data, view.size, p - 1)
<1> DEFINE start == StartOf(index, view, target)
           at == LinearSearch(data, view.size, target, start)
           batches == BatchIterFrom(data, index, view, target)
<1>1. view.size \in 0 .. Len(data) /\ view.size \in Nat /\ view.base \in Nat /\ p \in 1 .. Len(data)
      /\ p - 1 \in Nat /\ p - 1 # Nil /\ view.size # 0
  BY NilAssumption DEF SegmentView
<1>2. start.pos \in 0 .. p - 1 /\ start.offset = view.base + Total(data)[start.pos]
  BY <1>1, StartFinds
<1>3. batches = IF (FindPhysicalPosition(index, view.indexCount, target) = Nil /\ view.size = 0)
                     \/ at = Nil
                THEN <<>> ELSE BatchesFrom(data, view.size, at)
  BY DEF BatchIterFrom, StartOf
<1> HIDE DEF start
<1>4. at = p - 1
  <2>1. at = Walk(data, view.size, target)[<<start.offset, start.pos>>]
    <3>1. view.size \in Nat
      BY <1>1
    <3>2. ASSUME NEW entry
          PROVE  LinearSearch(data, view.size, target, entry) =
                   Walk(data, view.size, target)[<<entry.offset, entry.pos>>]
      BY <3>1, WalkDef
    <3> QED BY <3>2
  <2>2. Walk(data, view.size, target)[<<view.base + Total(data)[start.pos], start.pos>>] = p - 1
    BY <1>1, <1>2, WalkFinds
  <2> QED BY <1>2, <2>1, <2>2
<1> HIDE DEF at, batches
<1>5. batches = BatchesFrom(data, view.size, p - 1)
  BY <1>1, <1>3, <1>4
<1> QED BY <1>5 DEF batches

\* What is read starts with that batch.
LEMMA IterFinds ==
    ASSUME NEW data \in Seq(Batch), NEW index \in Seq(IndexEntry),
           NEW view \in SegmentView, view.indexCount <= Len(index), NEW target \in Nat,
           AllPoint(index, data, view.base), view.size <= Len(data),
           NEW p \in 1 .. view.size,
           view.base + Total(data)[p - 1] <= target, target < view.base + Total(data)[p]
    PROVE  LET batches == BatchIterFrom(data, index, view, target)
           IN  batches # <<>> /\ Head(batches) = data[p]
<1> DEFINE batches == BatchIterFrom(data, index, view, target)
<1>1. view.size \in 0 .. Len(data) /\ view.size \in Nat /\ p \in 1 .. Len(data)
  BY DEF SegmentView
<1>2. batches = BatchesFrom(data, view.size, p - 1)
  BY IterStarts
<1> HIDE DEF batches
<1>3. batches = SubSeq(data, p, view.size)
  <2>1. Min({view.size, Len(data)}) = view.size
    <3>1. Len(data) \in Nat
      OBVIOUS
    <3>2. Min({view.size, Len(data)}) = IF view.size <= Len(data) THEN view.size ELSE Len(data)
      BY <1>1, <3>1, MinPair
    <3> QED BY <3>2
  <2>2. p - 1 + 1 = p
    BY <1>1
  <2> QED BY <1>2, <2>1, <2>2 DEF BatchesFrom
<1>4. /\ batches \in Seq(Batch)
      /\ Len(batches) = view.size - p + 1
      /\ batches[1] = data[p]
  <2>1. p \in Nat \ {0} /\ p <= view.size /\ 1 \in 1 .. view.size - p + 1 /\ p + 1 - 1 = p
    BY <1>1
  <2>2. /\ batches \in Seq(Batch)
        /\ Len(batches) = IF p <= view.size THEN view.size - p + 1 ELSE 0
        /\ \A i \in 1 .. view.size - p + 1 : batches[i] = data[p + i - 1]
    BY <1>1, <1>3, <2>1, PartType
  <2> QED BY <2>1, <2>2
<1>5. batches # <<>> /\ Head(batches) = data[p]
  <2>1. Len(batches) # 0
    BY <1>1, <1>4
  <2>2. batches # <<>>
    BY <2>1
  <2> QED BY <1>4, <2>2
<1> QED BY <1>5 DEF batches

\* So the first record of the fetch is the one at the offset.
LEMMA SegmentFinds ==
    ASSUME NEW data \in Seq(Batch), NEW index \in Seq(IndexEntry),
           NEW view \in SegmentView, view.indexCount <= Len(index), NEW target \in Nat,
           NEW fit \in Nat,
           AllPoint(index, data, view.base), Contiguous(data, view.base), view.size <= Len(data),
           NEW p \in 1 .. view.size,
           view.base + Total(data)[p - 1] <= target, target < view.base + Total(data)[p]
    PROVE  /\ target - data[p].base \in 0 .. Count[data[p].id] - 1
           /\ SegmentFetch(data, index, view, target, fit) # <<>>
           /\ Head(SegmentFetch(data, index, view, target, fit)) =
                 <<data[p].id, target - data[p].base>>
<1> DEFINE batches == BatchIterFrom(data, index, view, target)
           first == data[p]
           rest == SubSeq(batches, 2, Min({fit, Len(batches)}))
           parts == [i \in 1 .. Len(rest) |-> RecordsFrom(rest[i].id, 0)]
           head == RecordsFrom(first.id, target - first.base)
           fetched == SegmentFetch(data, index, view, target, fit)
<1>1. batches # <<>> /\ Head(batches) = first
  BY IterFinds
<1>2. batches \in Seq(Batch)
  BY BatchIterType
<1>3. p \in 1 .. Len(data) /\ p \in 0 .. Len(data) /\ p - 1 \in 0 .. Len(data)
  BY DEF SegmentView
<1>4. first \in Batch /\ first.id \in Batches /\ first.base \in Nat /\ view.base \in Nat
  <2>1. first \in Batch
    BY <1>3, ElementOfSeq
  <2> HIDE DEF first
  <2> QED BY <2>1 DEF Batch, SegmentView
<1>5. Count[first.id] \in Nat /\ Count[first.id] > 0
  BY <1>4, CountType
<1>6. first.base = view.base + Total(data)[p - 1]
  BY <1>3 DEF Contiguous
<1>7. Total(data)[p] = Total(data)[p - 1] + Count[first.id]
  BY <1>3, TotalValues
<1>8. Total(data)[p - 1] \in Nat /\ Total(data)[p] \in Nat
  BY <1>3, TotalType
<1> HIDE DEF batches, first
<1>9. target \in first.base .. first.base + Count[first.id] - 1
      /\ target - first.base \in 0 .. Count[first.id] - 1
      /\ target - first.base \in 0 .. Count[first.id]
  <2> DEFINE lo == Total(data)[p - 1]
             hi == Total(data)[p]
             n == Count[first.id]
  <2>1. /\ lo \in Nat /\ hi = lo + n /\ n \in Nat /\ n > 0 /\ view.base \in Nat
        /\ first.base = view.base + lo
        /\ view.base + lo <= target /\ target < view.base + hi
    BY <1>4, <1>5, <1>6, <1>7, <1>8
  <2> HIDE DEF lo, hi, n
  <2>2. target \in first.base .. first.base + n - 1 /\ target - first.base \in 0 .. n - 1
        /\ target - first.base \in 0 .. n
    BY <2>1, SMTT(30)
  <2> QED BY <2>2 DEF n
<1>10. fetched = head \o FlattenSeq(parts)
  BY <1>1, <1>9 DEF SegmentFetch, batches
<1>11. rest \in Seq(Batch)
  <2>1. Len(batches) \in Nat
    BY <1>2
  <2>2. Min({fit, Len(batches)}) = IF fit <= Len(batches) THEN fit ELSE Len(batches)
    BY <2>1, MinPair
  <2>3. Min({fit, Len(batches)}) \in 0 .. Len(batches)
    BY <2>1, <2>2
  <2>4. 2 \in Nat \ {0}
    OBVIOUS
  <2> QED BY <1>2, <2>3, <2>4, PartType
<1> HIDE DEF rest
<1>12. FlattenSeq(parts) \in Seq(Record)
  <2>1. \A i \in 1 .. Len(rest) : RecordsFrom(rest[i].id, 0) \in Seq(Record)
    <3> TAKE i \in 1 .. Len(rest)
    <3>1. rest[i] \in Batch
      BY <1>11
    <3>2. rest[i].id \in Batches
      BY <3>1 DEF Batch
    <3>3. 0 \in 0 .. Count[rest[i].id]
      BY <3>2, BatchAssumption
    <3> QED BY <3>2, <3>3, RecordsFromType
  <2>2. Len(rest) \in Nat
    BY <1>11
  <2>3. parts \in Seq(Seq(Record))
    BY <2>1, <2>2, IsASeq
  <2> HIDE DEF parts
  <2> QED BY <2>3, FlattenType
<1>13. /\ head \in Seq(Record)
       /\ Len(head) = Count[first.id] - (target - first.base)
       /\ \A i \in 1 .. Count[first.id] - (target - first.base) :
             head[i] = <<first.id, target - first.base + i - 1>>
  BY <1>4, <1>9, RecordsFromType
<1>14. Len(head) \in Nat /\ Len(head) >= 1 /\ head[1] = <<first.id, target - first.base>>
  <2>1. 1 \in 1 .. Count[first.id] - (target - first.base)
    BY <1>5, <1>9
  <2>2. target - first.base + 1 - 1 = target - first.base
    BY <1>4
  <2>3. head[1] = <<first.id, target - first.base + 1 - 1>>
    BY <1>13, <2>1
  <2>4. head[1] = <<first.id, target - first.base>>
    BY <2>2, <2>3
  <2>5. Count[first.id] - (target - first.base) >= 1 /\ Count[first.id] - (target - first.base) \in Nat
    BY <1>5, <1>9
  <2> QED BY <1>13, <2>4, <2>5
<1> HIDE DEF head, parts
<1>15. fetched # <<>> /\ Head(fetched) = <<first.id, target - first.base>>
  <2>1. /\ fetched \in Seq(Record)
        /\ Len(fetched) = Len(head) + Len(FlattenSeq(parts))
        /\ fetched[1] = head[1]
    <3> DEFINE more == FlattenSeq(parts)
    <3>1. more \in Seq(Record) /\ Len(more) \in Nat /\ fetched = head \o more
      BY <1>10, <1>12
    <3> HIDE DEF fetched, more
    <3>2. /\ fetched \in Seq(Record)
          /\ Len(fetched) = Len(head) + Len(more)
          /\ \A i \in 1 .. Len(head) + Len(more) :
                fetched[i] = IF i <= Len(head) THEN head[i] ELSE more[i - Len(head)]
      BY <1>13, <3>1, ConcatProperties
    <3>3. 1 \in 1 .. Len(head) + Len(more) /\ 1 <= Len(head)
      BY <1>14, <3>1
    <3>4. fetched[1] = head[1]
      BY <3>2, <3>3
    <3> QED BY <3>2, <3>4 DEF more
  <2>2. Len(FlattenSeq(parts)) \in Nat
    BY <1>12
  <2> HIDE DEF fetched
  <2>3. Len(fetched) # 0
    BY <1>14, <2>1, <2>2
  <2> QED BY <1>14, <2>1, <2>3
<1> QED BY <1>9, <1>15 DEF fetched, first

\* A file has nothing at an index, or a batch with an id and a base.
LEMMA BatchAt ==
    ASSUME NEW data \in Seq(Batch), NEW i \in 1 .. Len(data)
    PROVE  data[i].id \in Batches /\ data[i].base \in Nat /\ Count[data[i].id] \in Nat \ {0}
<1>1. data[i] \in Batch
  BY ElementOfSeq
<1> QED BY <1>1, BatchAssumption DEF Batch

\* The directory and the history are cut at an offset, and a new file starts there:
\* a truncation, and a rotation, which cuts at the end.
CutAt(directory, entries, written, end, dir, idx, other) ==
    /\ DOMAIN directory \subseteq Nat
    /\ \A b \in DOMAIN directory : directory[b] \in Seq(Batch)
    /\ \A b \in DOMAIN directory : \/ \E c \in DOMAIN directory : b < c
                                   \/ end <= b + RecordsCount(directory[b])
    /\ DOMAIN dir = KeptBelow(directory, end) \union {end}
    /\ dir[end] = <<>> /\ idx[end] = <<>>
    /\ \A b \in KeptBelow(directory, end) : dir[b] = directory[b] /\ idx[b] = entries[b]
    /\ Len(other) = end
    /\ \A i \in 1 .. end : other[i] = written[i]

LEMMA CutOnDisk ==
    ASSUME NEW directory, NEW entries, NEW written \in Seq(Record),
           OnDisk(directory, entries, written), NEW end \in 0 .. Len(written),
           NEW dir, NEW idx, NEW other,
           CutAt(directory, entries, written, end, dir, idx, other)
    PROVE  OnDisk(dir, idx, other)
<1> USE DEF CutAt
<1>1. end \in Nat /\ end <= Len(written) /\ Len(<<>>) = 0 /\ Len(written) \in Nat
  OBVIOUS
<1>2. \A b \in DOMAIN dir : \/ b = end
                            \/ b \in DOMAIN directory /\ b \in Nat /\ b < end
                               /\ dir[b] = directory[b] /\ idx[b] = entries[b]
  BY DEF KeptBelow
<1>3. \A b \in DOMAIN directory : b < end => b \in DOMAIN dir
  BY DEF KeptBelow
<1>4. end \in DOMAIN dir
  OBVIOUS
<1>5. \A b \in DOMAIN dir : Contiguous(dir[b], b)
  BY <1>1, <1>2 DEF OnDisk, Contiguous
<1>6. \A b \in DOMAIN dir : Indexed(idx[b], dir[b], b)
  BY <1>1, <1>2 DEF OnDisk, Indexed
<1>7. NoGap(dir)
  <2> SUFFICES ASSUME NEW b \in DOMAIN dir, NEW c \in DOMAIN dir, b < c
               PROVE  \E d \in DOMAIN dir : b < d /\ d <= b + RecordsCount(dir[b])
    BY DEF NoGap
  <2>1. b \in DOMAIN directory /\ b \in Nat /\ b < end /\ dir[b] = directory[b]
    BY <1>1, <1>2
  <2>2. RecordsCount(directory[b]) \in Nat
    BY <2>1, RecordsCountType
  <2>3. CASE end <= b + RecordsCount(directory[b])
    BY <1>4, <2>1, <2>3
  <2>4. CASE \E e \in DOMAIN directory : b < e
    <3>1. PICK d \in DOMAIN directory : b < d /\ d <= b + RecordsCount(directory[b])
      BY <2>1, <2>4 DEF OnDisk, NoGap
    <3>2. CASE d < end
      BY <1>3, <2>1, <3>1, <3>2
    <3>3. CASE ~ (d < end)
      <4>1. d \in Nat
        OBVIOUS
      <4>2. end <= b + RecordsCount(directory[b])
        BY <1>1, <2>1, <2>2, <3>1, <3>3, <4>1
      <4> QED BY <2>3, <4>2
    <3> QED BY <3>2, <3>3
  <2> QED BY <2>1, <2>3, <2>4
<1>8. Recorded(dir, other)
  <2> SUFFICES ASSUME NEW b \in DOMAIN dir, NEW i \in 1 .. Len(dir[b]),
                      NEW k \in 0 .. Count[dir[b][i].id] - 1,
                      Covers(dir, b, dir[b][i].base + k)
               PROVE  /\ dir[b][i].base + k < Len(other)
                      /\ other[dir[b][i].base + k + 1] = <<dir[b][i].id, k>>
    BY DEF Recorded
  <2> DEFINE batch == dir[b][i]
             o == batch.base + k
  <2>1. b # end
    BY <1>1
  <2>2. b \in DOMAIN directory /\ b \in Nat /\ b < end /\ dir[b] = directory[b]
    BY <1>2, <2>1
  <2>3. batch.base \in Nat /\ Count[batch.id] \in Nat \ {0}
    BY <2>2, BatchAt
  <2>4. o \in Nat
    <3> HIDE DEF batch
    <3> QED BY <2>3
  <2>5. o < end /\ b <= o
    BY <1>4, <2>2 DEF Covers
  <2>6. Covers(directory, b, o)
    <3> SUFFICES ASSUME NEW c \in DOMAIN directory, b < c PROVE o < c
      BY <2>5 DEF Covers
    <3>1. CASE c < end
      BY <1>3, <3>1 DEF Covers
    <3>2. CASE ~ (c < end)
      <4>1. c \in Nat
        OBVIOUS
      <4> HIDE DEF o
      <4> QED BY <1>1, <2>4, <2>5, <3>2, <4>1
    <3> QED BY <3>1, <3>2
  <2>7. i \in 1 .. Len(directory[b]) /\ batch = directory[b][i]
    BY <2>2
  <2>8. written[o + 1] = <<batch.id, k>>
    <3> HIDE DEF batch
    <3>1. k \in 0 .. Count[batch.id] - 1
      BY DEF batch
    <3> QED BY <2>2, <2>6, <2>7, <3>1 DEF OnDisk, Recorded
  <2>9. o + 1 \in 1 .. end
    <3> HIDE DEF o
    <3> QED BY <1>1, <2>4, <2>5
  <2>10. o < Len(other) /\ other[o + 1] = <<batch.id, k>>
    <3> HIDE DEF o
    <3> QED BY <2>5, <2>8, <2>9
  <2> QED BY <2>10
<1> QED BY <1>5, <1>6, <1>7, <1>8 DEF OnDisk

\* Opening the files changes no index but an empty one.
LEMMA OpenedOnDisk ==
    ASSUME TypeOK, OnDisk(files, indexes, history)
    PROVE  OnDisk(files, OpenedIndexes, history)
<1>1. \A b \in DOMAIN files : Indexed(OpenedIndexes[b], files[b], b)
  <2> SUFFICES ASSUME NEW b \in DOMAIN files PROVE Indexed(OpenedIndexes[b], files[b], b)
    OBVIOUS
  <2>1. CASE files[b] = <<>>
    <3>1. OpenedIndexes[b] = <<>>
      BY <2>1 DEF OpenedIndexes
    <3> QED BY <3>1 DEF Indexed
  <2>2. CASE files[b] # <<>> /\ indexes[b] = <<>>
    <3>1. OpenedIndexes[b] = <<ZeroEntry>>
      BY <2>2 DEF OpenedIndexes, ScannedIndex
    <3>2. \A k \in 1 .. Len(<<ZeroEntry>>) : k = 1 /\ <<ZeroEntry>>[k] = ZeroEntry
      OBVIOUS
    <3> QED BY <3>1, <3>2 DEF Indexed
  <2>3. CASE files[b] # <<>> /\ indexes[b] # <<>>
    <3>1. OpenedIndexes[b] = indexes[b]
      BY <2>3 DEF OpenedIndexes, ScannedIndex
    <3> QED BY <3>1 DEF OnDisk
  <2> QED BY <2>1, <2>2, <2>3
<1> QED BY <1>1 DEF OnDisk

\* A file with one batch more.
LEMMA AppendedFile ==
    ASSUME NEW data \in Seq(Batch), NEW batch \in Batch, NEW base \in Nat
    PROVE  /\ Append(data, batch) \in Seq(Batch)
           /\ Len(Append(data, batch)) = Len(data) + 1
           /\ \A i \in 1 .. Len(data) : Append(data, batch)[i] = data[i]
           /\ Append(data, batch)[Len(data) + 1] = batch
           /\ Contiguous(data, base) /\ batch.base = base + RecordsCount(data) =>
                 Contiguous(Append(data, batch), base)
           /\ \A entry \in IndexEntry :
                 Points(entry, data, base) => Points(entry, Append(data, batch), base)
<1> DEFINE more == Append(data, batch)
           n == Len(data)
<1>1. /\ more \in Seq(Batch) /\ Len(more) = n + 1 /\ n \in Nat
      /\ \A i \in 1 .. n : more[i] = data[i]
      /\ more[n + 1] = batch
  BY AppendProperties
<1> HIDE DEF more
<1>2. \A i \in 0 .. n : Total(more)[i] = Total(data)[i]
  <2> TAKE i \in 0 .. n
  <2>1. i <= Len(more) /\ \A j \in 1 .. i : data[j] = more[j]
    BY <1>1
  <2> QED BY <1>1, <2>1, TotalAgrees
<1>3. Contiguous(data, base) /\ batch.base = base + RecordsCount(data) => Contiguous(more, base)
  <2> SUFFICES ASSUME Contiguous(data, base), batch.base = base + RecordsCount(data),
                      NEW i \in 1 .. n + 1
               PROVE  more[i].base = base + Total(more)[i - 1]
    BY <1>1 DEF Contiguous
  <2>1. i - 1 \in 0 .. n
    BY <1>1
  <2>2. Total(more)[i - 1] = Total(data)[i - 1]
    BY <1>2, <2>1
  <2>3. CASE i \in 1 .. n
    BY <1>1, <2>2, <2>3 DEF Contiguous
  <2>4. CASE i = n + 1
    <3>1. i - 1 = n /\ more[i] = batch
      BY <1>1, <2>4
    <3>2. RecordsCount(data) = Total(data)[n]
      BY TotalDef
    <3> QED BY <2>2, <3>1, <3>2
  <2>5. i \in 1 .. n \/ i = n + 1
    BY <1>1
  <2> QED BY <2>3, <2>4, <2>5
<1>4. ASSUME NEW entry \in IndexEntry, Points(entry, data, base)
      PROVE  Points(entry, more, base)
  <2>1. entry.pos \in Nat
    BY DEF IndexEntry
  <2>2. entry.pos < n /\ entry.offset = base + Total(data)[entry.pos]
    BY <1>4 DEF Points
  <2>3. entry.pos \in 0 .. n /\ entry.pos < n + 1
    BY <1>1, <2>1, <2>2
  <2> QED BY <1>1, <1>2, <2>2, <2>3 DEF Points
<1> QED BY <1>1, <1>3, <1>4 DEF more

\* Steps that touch no file.
LEMMA SoundQuiet ==
    ASSUME Sound, UNCHANGED <<files, indexes, cursor, size, writing, up, history, clobbered>>,
           snapshot'.segments = snapshot.segments
    PROVE  Sound'
<1>1. UNCHANGED <<ActiveBase, Active, Views>> /\ \A i : View(i)' = View(i)
  BY DEF ActiveBase, Active, Views, View
<1>2. Underway => Underway'
  BY <1>1 DEF Underway, AllPoint, Points
<1>3. Shown => Shown'
  BY <1>1 DEF Shown
<1>4. OnDisk(files, indexes, history) => OnDisk(files, indexes, history)'
  BY DEF OnDisk
<1> QED BY <1>2, <1>3, <1>4 DEF Sound

LEMMA SoundStop ==
    ASSUME Sound, Stop
    PROVE  Sound'
<1>1. /\ UNCHANGED <<files, indexes, cursor, history, clobbered>>
      /\ writing' = Nil /\ ~ up'
  BY DEF Stop, segmentVars
<1>2. UNCHANGED <<ActiveBase, Active>>
  BY <1>1 DEF ActiveBase, Active
<1>3. Underway => Underway'
  BY <1>1, <1>2 DEF Underway, AllPoint, Points
<1>4. OnDisk(files, indexes, history) => OnDisk(files, indexes, history)'
  BY <1>1 DEF OnDisk
<1> QED BY <1>1, <1>3, <1>4 DEF Sound

LEMMA SoundWrite ==
    ASSUME PartitionInv, Sound, WriteBatch
    PROVE  Sound'
<1> DEFINE id == Head(queue).id
           batch == [id |-> id, base |-> snapshot.leo]
           data == Append(Active, batch)
           n == Len(Active)
<1>0. TypeOK /\ Laid /\ Ends
  BY DEF PartitionInv
<1> SUFFICES ASSUME ~ clobbered' PROVE OnDisk(files, indexes, history)' /\ Underway' /\ Shown'
  BY DEF Sound
<1>1. up /\ writing = Nil /\ queue # <<>> /\ Head(queue).cmd = "Append"
  BY DEF WriteBatch, Receive
<1>2. id \in Batches
  BY <1>0, <1>1, ReceivedType, CommandParts
<1>3. /\ cursor \in Nat /\ Active \in Seq(Batch) /\ n \in Nat
      /\ ActiveBase \in DOMAIN files /\ ActiveBase \in Nat
      /\ \A b \in DOMAIN files : b <= ActiveBase
      /\ indexes[ActiveBase] \in Seq(IndexEntry)
      /\ RecordsCount(Active) \in Nat
  <2>1. cursor \in Nat
    BY <1>0 DEF TypeOK
  <2> QED BY <1>0, <2>1, ActiveFacts
<1>4. ~ clobbered /\ ~ (cursor < n)
  <2>1. clobbered' = (clobbered \/ cursor < Len(Active))
    BY DEF WriteBatch
  <2> QED BY <2>1, Zenon
<1>5. /\ files' = [files EXCEPT ![ActiveBase] = data]
      /\ cursor' = cursor + 1
      /\ writing' = [id |-> id, acks |-> Head(queue).acks, pos |-> n, indexed |-> FALSE]
      /\ history' = history \o RecordsFrom(id, 0)
      /\ UNCHANGED <<indexes, size, snapshot, up>>
  BY <1>4 DEF WriteBatch
<1>6. OnDisk(files, indexes, history) /\ Underway /\ Shown
  BY <1>1, <1>4 DEF Sound
<1>7. /\ snapshot.leo \in Nat /\ history \in Seq(Record) /\ Len(history) \in Nat
      /\ DOMAIN files \subseteq Nat /\ \A b \in DOMAIN files : files[b] \in Seq(Batch)
  BY <1>0, ViewFacts DEF TypeOK
<1>8. snapshot.leo = Len(history) /\ snapshot.leo = ActiveBase + RecordsCount(Active)
  <2>1. Unpublished = 0 /\ FileEnd = ActiveBase + RecordsCount(Active)
    BY <1>1 DEF Unpublished, FileEnd
  <2>2. FileEnd = Len(history) /\ snapshot.leo + Unpublished = Len(history)
    BY <1>0, <1>1, <1>4 DEF Ends
  <2> QED BY <1>7, <2>1, <2>2
<1>9. batch \in Batch /\ batch.base = snapshot.leo /\ batch.id = id
  BY <1>2, <1>7 DEF Batch
<1> HIDE DEF id, batch, data
<1>10. /\ data \in Seq(Batch) /\ Len(data) = n + 1
       /\ \A i \in 1 .. n : data[i] = Active[i]
       /\ data[n + 1] = batch
       /\ Contiguous(Active, ActiveBase) => Contiguous(data, ActiveBase)
       /\ \A entry \in IndexEntry : Points(entry, Active, ActiveBase) => Points(entry, data, ActiveBase)
  BY <1>3, <1>8, <1>9, AppendedFile DEF data
<1>11. /\ DOMAIN files' = DOMAIN files /\ ActiveBase' = ActiveBase /\ Active' = data
       /\ files'[ActiveBase] = data
       /\ \A b \in DOMAIN files : b # ActiveBase => files'[b] = files[b]
  <2>1. DOMAIN files' = DOMAIN files
    BY <1>5
  <2>2. ActiveBase' = ActiveBase
    BY <2>1, SameFiles
  <2>3. files'[ActiveBase] = data /\ \A b \in DOMAIN files : b # ActiveBase => files'[b] = files[b]
    BY <1>3, <1>5
  <2> QED BY <2>1, <2>2, <2>3 DEF Active
<1>12. files[ActiveBase] = Active
  BY DEF Active
<1>13. \A k \in 1 .. Len(indexes[ActiveBase]) : indexes[ActiveBase][k] \in IndexEntry
  BY <1>3, ElementOfSeq
<1>14. \A b \in DOMAIN files : Contiguous(files'[b], b) /\ Indexed(indexes[b], files'[b], b)
  <2> SUFFICES ASSUME NEW b \in DOMAIN files
               PROVE  Contiguous(files'[b], b) /\ Indexed(indexes[b], files'[b], b)
    OBVIOUS
  <2>1. Contiguous(files[b], b) /\ Indexed(indexes[b], files[b], b)
    BY <1>6 DEF OnDisk
  <2>2. CASE b # ActiveBase
    BY <1>11, <2>1, <2>2
  <2>3. CASE b = ActiveBase
    <3>1. Contiguous(data, ActiveBase)
      BY <1>10, <1>12, <2>1, <2>3
    <3>2. Indexed(indexes[ActiveBase], data, ActiveBase)
      <4>1. Indexed(indexes[ActiveBase], Active, ActiveBase)
        BY <1>12, <2>1, <2>3
      <4> QED BY <1>10, <1>13, <4>1 DEF Indexed
    <3> QED BY <1>11, <2>3, <3>1, <3>2
  <2> QED BY <2>2, <2>3
<1>15. NoGap(files')
  <2> SUFFICES ASSUME NEW b \in DOMAIN files, NEW c \in DOMAIN files, b < c
               PROVE  \E d \in DOMAIN files : b < d /\ d <= b + RecordsCount(files'[b])
    BY <1>11 DEF NoGap
  <2>1. b # ActiveBase
    <3>1. c <= ActiveBase /\ b \in Nat /\ c \in Nat
      BY <1>3, <1>7
    <3> QED BY <1>3, <3>1
  <2>2. files'[b] = files[b]
    BY <1>11, <2>1
  <2> QED BY <1>6, <2>2 DEF OnDisk, NoGap
<1>16. /\ Len(history') = Len(history) + Count[id] /\ Count[id] \in Nat /\ Len(history') \in Nat
       /\ Len(history) <= Len(history')
       /\ \A i \in 1 .. Len(history) : history'[i] = history[i]
       /\ \A k \in 0 .. Count[id] - 1 : history'[Len(history) + k + 1] = <<id, k>>
  <2>1. Count[id] \in Nat /\ 0 \in 0 .. Count[id] /\ Count[id] - 0 = Count[id]
    BY <1>2, BatchAssumption
  <2>2. /\ RecordsFrom(id, 0) \in Seq(Record) /\ Len(RecordsFrom(id, 0)) = Count[id]
        /\ \A i \in 1 .. Count[id] : RecordsFrom(id, 0)[i] = <<id, 0 + i - 1>>
    BY <1>2, <2>1, RecordsFromType
  <2> DEFINE more == RecordsFrom(id, 0)
  <2> HIDE DEF more
  <2>3. /\ Len(history') = Len(history) + Count[id]
        /\ \A i \in 1 .. Len(history) + Count[id] :
              history'[i] = IF i <= Len(history) THEN history[i] ELSE more[i - Len(history)]
    BY <1>5, <1>7, <2>2, ConcatProperties DEF more
  <2>4. \A i \in 1 .. Len(history) : history'[i] = history[i]
    <3>1. \A i \in 1 .. Len(history) : i \in 1 .. Len(history) + Count[id] /\ i <= Len(history)
      BY <1>7, <2>1
    <3> QED BY <2>3, <3>1
  <2>5. ASSUME NEW k \in 0 .. Count[id] - 1 PROVE history'[Len(history) + k + 1] = <<id, k>>
    <3>1. /\ Len(history) + k + 1 \in 1 .. Len(history) + Count[id]
          /\ ~ (Len(history) + k + 1 <= Len(history))
          /\ Len(history) + k + 1 - Len(history) = k + 1
          /\ k + 1 \in 1 .. Count[id] /\ 0 + (k + 1) - 1 = k
      BY <1>7, <2>1
    <3>2. history'[Len(history) + k + 1] = more[k + 1]
      BY <2>3, <3>1
    <3>3. more[k + 1] = <<id, 0 + (k + 1) - 1>>
      BY <2>2, <3>1 DEF more
    <3> QED BY <3>1, <3>2, <3>3
  <2>6. Len(history') \in Nat /\ Len(history) <= Len(history')
    BY <1>7, <2>1, <2>3
  <2> QED BY <2>1, <2>3, <2>4, <2>5, <2>6
<1>17. Recorded(files', history')
  <2> SUFFICES ASSUME NEW b \in DOMAIN files, NEW i \in 1 .. Len(files'[b]),
                      NEW k \in 0 .. Count[files'[b][i].id] - 1,
                      Covers(files', b, files'[b][i].base + k)
               PROVE  /\ files'[b][i].base + k < Len(history')
                      /\ history'[files'[b][i].base + k + 1] = <<files'[b][i].id, k>>
    BY <1>11 DEF Recorded
  <2>1. CASE i \in 1 .. Len(files[b]) /\ files'[b][i] = files[b][i]
    <3> DEFINE o == files[b][i].base + k
    <3>1. Covers(files, b, o)
      BY <1>11, <2>1 DEF Covers
    <3>2. o < Len(history) /\ history[o + 1] = <<files[b][i].id, k>>
      BY <1>6, <2>1, <3>1 DEF OnDisk, Recorded
    <3>3. o \in Nat
      <4>1. files[b][i].base \in Nat /\ Count[files[b][i].id] \in Nat
        BY <1>7, <2>1, BatchAt
      <4>2. k \in 0 .. Count[files[b][i].id] - 1
        BY <2>1
      <4> QED BY <4>1, <4>2
    <3>4. o = files'[b][i].base + k
      BY <2>1
    <3> HIDE DEF o
    <3>5. o + 1 \in 1 .. Len(history) /\ o < Len(history')
      <4>1. Len(history') \in Nat /\ Len(history) <= Len(history') /\ o < Len(history)
        BY <1>16, <3>2
      <4> QED BY <1>7, <3>3, <4>1
    <3>6. history'[o + 1] = <<files'[b][i].id, k>>
      BY <1>16, <2>1, <3>2, <3>5
    <3> QED BY <3>4, <3>5, <3>6
  <2>2. CASE b = ActiveBase /\ i = n + 1
    <3>1. files'[b][i] = batch
      BY <1>10, <1>11, <2>2
    <3>2. files'[b][i].base = Len(history) /\ files'[b][i].id = id /\ k \in 0 .. Count[id] - 1
      BY <1>8, <1>9, <3>1
    <3>3. Len(history) + k < Len(history')
      BY <1>7, <1>16, <3>2, SMTT(30)
    <3> QED BY <1>16, <3>2, <3>3
  <2>3. b # ActiveBase => i \in 1 .. Len(files[b]) /\ files'[b][i] = files[b][i]
    BY <1>11
  <2>4. b = ActiveBase => \/ i \in 1 .. Len(files[b]) /\ files'[b][i] = files[b][i]
                          \/ i = n + 1
    <3> SUFFICES ASSUME b = ActiveBase
                 PROVE  (i \in 1 .. Len(files[b]) /\ files'[b][i] = files[b][i]) \/ i = n + 1
      OBVIOUS
    <3>1. files'[b] = data /\ files[b] = Active
      BY <1>11, <1>12
    <3>2. i \in 1 .. n + 1
      BY <1>10, <3>1
    <3>3. i \in 1 .. n \/ i = n + 1
      BY <1>3, <3>2
    <3> QED BY <1>10, <3>1, <3>3
  <2> QED BY <2>1, <2>2, <2>3, <2>4
<1>18. OnDisk(files, indexes, history)'
  BY <1>5, <1>11, <1>14, <1>15, <1>17 DEF OnDisk
<1>19. Underway'
  <2>1. AllPoint(indexes[ActiveBase], Active, ActiveBase)
    BY <1>3, <1>4, <1>6 DEF Underway
  <2>2. AllPoint(indexes[ActiveBase], data, ActiveBase)
    BY <1>10, <1>13, <2>1 DEF AllPoint
  <2>3. cursor' >= Len(data) /\ data # <<>> /\ n = Len(data) - 1 /\ data[Len(data)].id = id
    BY <1>3, <1>4, <1>5, <1>9, <1>10
  <2>4. AllPoint(indexes[ActiveBase], Active, ActiveBase)'
    BY <1>5, <1>11, <2>2 DEF AllPoint, Points
  <2>5. writing'.pos = n /\ writing'.id = id
    BY <1>5
  <2> QED BY <1>11, <2>3, <2>4, <2>5 DEF Underway
<1>20. Shown'
  <2>1. UNCHANGED Views /\ \A i : View(i)' = View(i)
    BY <1>5 DEF Views, View
  <2>2. writing' # Nil /\ ~ writing'.indexed
    <3>1. Head(queue).acks \in AcksKinds
      BY <1>0, <1>1, ReceivedType, CommandParts
    <3>2. writing' \in Writing
      BY <1>2, <1>3, <1>5, <3>1 DEF Writing
    <3> QED BY <1>5, <3>2, NilIsNoRecord
  <2>3. /\ View(Len(snapshot.segments)).size + 0 = n /\ size + 0 = n
    BY <1>1, <1>6 DEF Shown
  <2>4. View(Len(snapshot.segments)).size \in Nat /\ size \in Nat
    <3>1. Len(snapshot.segments) \in Views
      BY <1>0, ViewFacts DEF Views
    <3>2. View(Len(snapshot.segments)) \in SegmentView
      BY <1>0, <3>1, ViewFacts
    <3> QED BY <1>0, <3>2 DEF SegmentView, TypeOK
  <2>5. View(Len(snapshot.segments)).size + 1 = Len(data) /\ size + 1 = Len(data)
    BY <1>3, <1>10, <2>3, <2>4
  <2>6. \A i \in Views : View(i).base # ActiveBase => View(i).size = Len(files'[View(i).base])
    <3> TAKE i \in Views
    <3>1. View(i).base \in DOMAIN files
      BY <1>0 DEF Laid, Fits, Views, View
    <3> QED BY <1>6, <1>11, <3>1 DEF Shown
  <2>7. \A b \in DOMAIN files' : \E i \in Views : View(i).base = b
    BY <1>6, <1>11 DEF Shown
  <2>8. Len(snapshot'.segments) = Len(snapshot.segments)
    BY <1>5
  <2> QED BY <1>5, <1>11, <2>1, <2>2, <2>5, <2>6, <2>7, <2>8 DEF Shown
<1> QED BY <1>18, <1>19, <1>20

\* The append under way wrote at the end of the log that is published.
LEMMA WritingEnd ==
    ASSUME PartitionInv, Underway, ~ clobbered, writing # Nil
    PROVE  /\ up /\ Len(Active) \in Nat \ {0}
           /\ snapshot.leo = ActiveBase + Total(Active)[Len(Active) - 1]
<1> DEFINE n == Len(Active)
<1>0. TypeOK /\ Laid /\ Ends
  BY DEF PartitionInv
<1>1. Active \in Seq(Batch) /\ ActiveBase \in Nat /\ snapshot.leo \in Nat
  BY <1>0, ActiveFacts, ViewFacts
<1>2. Active # <<>> /\ Active[n].id = writing.id
  BY DEF Underway
<1>3. n \in Nat \ {0} /\ n \in 1 .. n /\ n - 1 \in 0 .. n
  BY <1>1, <1>2
<1>4. RecordsCount(Active) = Total(Active)[n] /\ Total(Active)[n] = Total(Active)[n - 1] + Count[writing.id]
  BY <1>1, <1>2, <1>3, TotalDef, TotalValues
<1>5. Total(Active)[n - 1] \in Nat /\ Count[writing.id] \in Nat
  BY <1>1, <1>2, <1>3, TotalType, BatchAt
<1>6. up
  BY <1>0 DEF Ends
<1>7. /\ ActiveBase + RecordsCount(Active) = Len(history)
      /\ snapshot.leo + Count[writing.id] = Len(history)
  BY <1>0, <1>6 DEF Ends, FileEnd, Unpublished
<1>8. snapshot.leo = ActiveBase + Total(Active)[n - 1]
  <2> DEFINE t == Total(Active)[n - 1]
             c == Count[writing.id]
  <2>1. ActiveBase + (t + c) = snapshot.leo + c /\ t \in Nat /\ c \in Nat
    BY <1>4, <1>5, <1>7
  <2> HIDE DEF t, c
  <2>2. snapshot.leo = ActiveBase + t
    BY <1>1, <2>1
  <2> QED BY <2>2 DEF t
<1> QED BY <1>3, <1>6, <1>8

LEMMA SoundIndex ==
    ASSUME PartitionInv, Sound, IndexBatch
    PROVE  Sound'
<1> DEFINE index == indexes[ActiveBase]
           entry == [offset |-> snapshot.leo, pos |-> writing.pos]
           due == IndexDue(index, since + 1)
           n == Len(Active)
<1>0. TypeOK /\ Laid /\ Ends
  BY DEF PartitionInv
<1>1. /\ writing # Nil /\ ~ writing.indexed
      /\ indexes' = IF due THEN [indexes EXCEPT ![ActiveBase] = Append(index, entry)] ELSE indexes
      /\ size' = size + 1
      /\ writing' = [writing EXCEPT !.indexed = TRUE]
      /\ UNCHANGED <<files, cursor, snapshot, up, history, clobbered>>
  BY DEF IndexBatch, historyVars
<1> SUFFICES ASSUME ~ clobbered PROVE OnDisk(files, indexes, history)' /\ Underway' /\ Shown'
  BY <1>1 DEF Sound
<1>2. up /\ n \in Nat \ {0} /\ snapshot.leo = ActiveBase + Total(Active)[n - 1]
  BY <1>1, WritingEnd DEF Sound
<1>3. OnDisk(files, indexes, history) /\ Underway /\ Shown
  BY <1>2 DEF Sound
<1>4. /\ ActiveBase \in DOMAIN files /\ index \in Seq(IndexEntry)
      /\ DOMAIN indexes = DOMAIN files
  BY <1>0, ActiveFacts DEF TypeOK
<1>5. entry \in IndexEntry /\ Points(entry, Active, ActiveBase)
  <2>1. writing \in Writing
    BY <1>0, <1>1 DEF TypeOK
  <2>2. writing.pos \in Nat /\ writing.pos = n - 1
    BY <1>1, <1>3, <2>1 DEF Writing, Underway
  <2>3. snapshot.leo \in Nat
    BY <1>0, ViewFacts
  <2> QED BY <1>2, <2>2, <2>3 DEF IndexEntry, Points
<1> HIDE DEF entry, due
<1>6. /\ DOMAIN indexes' = DOMAIN indexes
      /\ \A b \in DOMAIN files : b # ActiveBase => indexes'[b] = indexes[b]
      /\ indexes'[ActiveBase] = IF due THEN Append(index, entry) ELSE index
  BY <1>1, <1>4
<1>7. \A k \in 1 .. Len(indexes'[ActiveBase]) :
         \/ k \in 1 .. Len(index) /\ indexes'[ActiveBase][k] = index[k]
         \/ indexes'[ActiveBase][k] = entry
  <2>1. CASE due
    <3>1. /\ Len(Append(index, entry)) = Len(index) + 1
          /\ \A i \in 1 .. Len(index) : Append(index, entry)[i] = index[i]
          /\ Append(index, entry)[Len(index) + 1] = entry
      BY <1>4, <1>5, AppendProperties
    <3>2. Len(index) \in Nat
      BY <1>4
    <3>3. \A k \in 1 .. Len(index) + 1 : k \in 1 .. Len(index) \/ k = Len(index) + 1
      BY <3>2
    <3> HIDE DEF index
    <3>4. indexes'[ActiveBase] = Append(index, entry)
      BY <1>6, <2>1
    <3> QED BY <3>1, <3>3, <3>4
  <2>2. CASE ~ due
    BY <1>6, <2>2
  <2> QED BY <2>1, <2>2
<1>8. UNCHANGED <<ActiveBase, Active, Views>> /\ \A i : View(i)' = View(i)
  BY <1>1 DEF ActiveBase, Active, Views, View
<1>9. Indexed(index, Active, ActiveBase) => Indexed(indexes'[ActiveBase], Active, ActiveBase)
  <2> HIDE DEF index
  <2> QED BY <1>5, <1>7 DEF Indexed
<1>10. AllPoint(index, Active, ActiveBase) => AllPoint(indexes'[ActiveBase], Active, ActiveBase)
  <2> HIDE DEF index
  <2> QED BY <1>5, <1>7 DEF AllPoint
<1>11. OnDisk(files, indexes, history)'
  <2>1. \A b \in DOMAIN files : Indexed(indexes'[b], files[b], b)
    <3> TAKE b \in DOMAIN files
    <3>1. Indexed(indexes[b], files[b], b)
      BY <1>3 DEF OnDisk
    <3>2. CASE b = ActiveBase
      BY <1>9, <3>1, <3>2 DEF Active
    <3>3. CASE b # ActiveBase
      BY <1>6, <3>1, <3>3
    <3> QED BY <3>2, <3>3
  <2> QED BY <1>1, <1>3, <2>1 DEF OnDisk
<1>12. writing' # Nil /\ writing'.indexed /\ writing'.pos = writing.pos /\ writing'.id = writing.id
  <2>1. writing \in Writing
    BY <1>0, <1>1 DEF TypeOK
  <2>2. /\ writing' \in Writing /\ writing'.indexed
        /\ writing'.pos = writing.pos /\ writing'.id = writing.id
    BY <1>1, <2>1 DEF Writing
  <2> QED BY <2>2, NilIsNoRecord
<1>13. Underway'
  <2>1. AllPoint(indexes[ActiveBase], Active, ActiveBase)'
    <3>1. AllPoint(indexes'[ActiveBase], Active, ActiveBase)
      BY <1>1, <1>3, <1>10 DEF Underway
    <3> QED BY <1>8, <3>1 DEF AllPoint, Points
  <2> QED BY <1>1, <1>3, <1>8, <1>12, <2>1 DEF Underway
<1>14. Shown'
  <2>1. size + 1 = n /\ size \in Nat
    BY <1>0, <1>1, <1>3 DEF Shown, TypeOK
  <2>2. size' + 0 = n
    BY <1>1, <2>1
  <2> QED BY <1>1, <1>3, <1>8, <1>12, <2>2 DEF Shown
<1> QED BY <1>11, <1>13, <1>14

-----------------------------------------------------------------------------
(* Directories that are shown as they are *)

AllShown(segments, directory) ==
    /\ \A b \in DOMAIN directory : \E i \in 1 .. Len(segments) : segments[i].base = b
    /\ \A i \in 1 .. Len(segments) :
          /\ segments[i].base \in DOMAIN directory
          /\ segments[i].size = Len(directory[segments[i].base])

\* A file that was not there is added.
Adds(directory, end, dir) ==
    /\ end \notin DOMAIN directory
    /\ DOMAIN dir = DOMAIN directory \union {end}
    /\ dir[end] = <<>>
    /\ \A b \in DOMAIN directory : dir[b] = directory[b]

LEMMA FreshShown ==
    ASSUME NEW segments \in Seq(SegmentView), NEW directory, AllShown(segments, directory),
           NEW end \in Nat, NEW dir, Adds(directory, end, dir)
    PROVE  AllShown(Append(segments, FreshView(end)), dir)
<1> USE DEF Adds
<1> DEFINE more == Append(segments, FreshView(end))
           n == Len(segments)
<1>1. FreshView(end) \in SegmentView /\ FreshView(end).base = end /\ FreshView(end).size = 0
  BY DEF FreshView, SegmentView
<1>2. /\ Len(more) = n + 1 /\ n \in Nat
      /\ \A i \in 1 .. n : more[i] = segments[i]
      /\ more[n + 1] = FreshView(end)
  BY <1>1, AppendProperties
<1>3. \A i \in 1 .. n + 1 : i \in 1 .. n \/ i = n + 1
  BY <1>2
<1>4. n + 1 \in 1 .. n + 1 /\ (\A i \in 1 .. n : i \in 1 .. n + 1) /\ Len(<<>>) = 0
  BY <1>2
<1> HIDE DEF more, n
<1>5. \A b \in DOMAIN dir : \E i \in 1 .. n + 1 : more[i].base = b
  <2> TAKE b \in DOMAIN dir
  <2>1. CASE b = end
    BY <1>1, <1>2, <1>4, <2>1
  <2>2. CASE b \in DOMAIN directory
    <3>1. PICK i \in 1 .. n : segments[i].base = b
      BY <2>2 DEF AllShown, n
    <3> QED BY <1>2, <1>4, <3>1
  <2> QED BY <2>1, <2>2
<1>6. ASSUME NEW i \in 1 .. n + 1
      PROVE  more[i].base \in DOMAIN dir /\ more[i].size = Len(dir[more[i].base])
  <2>1. CASE i \in 1 .. n
    BY <1>2, <2>1, SMTT(30) DEF AllShown, n
  <2>2. CASE i = n + 1
    BY <1>1, <1>2, <1>4, <2>2
  <2> QED BY <1>3, <2>1, <2>2
<1>7. AllShown(more, dir)
  BY <1>2, <1>5, <1>6 DEF AllShown
<1> QED BY <1>7 DEF more

LEMMA ShownAll ==
    ASSUME TypeOK, Laid, Shown, writing = Nil
    PROVE  AllShown(snapshot.segments, files)
<1> DEFINE n == Len(snapshot.segments)
<1>1. n \in Nat \ {0} /\ n \in Views /\ View(n) \in SegmentView
  BY ViewFacts DEF Views
<1>2. View(n).base = ActiveBase /\ View(n).size + 0 = Len(Active) /\ View(n).size \in Nat
  BY <1>1 DEF Laid, Shown, SegmentView
<1>3. ASSUME NEW i \in Views
      PROVE  View(i).base \in DOMAIN files /\ View(i).size = Len(files[View(i).base])
  <2>1. View(i).base \in DOMAIN files
    BY DEF Laid, Fits, Views, View
  <2>2. CASE View(i).base # ActiveBase
    BY <2>1, <2>2 DEF Shown
  <2>3. CASE View(i).base = ActiveBase
    <3>1. i = n
      <4>1. \A a, b \in Views : a < b => View(a).base < View(b).base
        BY DEF Laid, Fits, Views, View
      <4>2. i < n => View(i).base < View(n).base
        BY <1>1, <4>1
      <4>3. i \in Nat /\ i <= n /\ View(n).base \in Nat
        BY <1>1, ViewFacts DEF Views
      <4> QED BY <1>1, <1>2, <2>3, <4>2, <4>3
    <3> QED BY <1>2, <2>1, <2>3, <3>1 DEF Active
  <2> QED BY <2>1, <2>2, <2>3
<1> QED BY <1>3 DEF AllShown, Shown, Views, View

LEMMA AllIsShown ==
    ASSUME AllShown(snapshot'.segments, files'), PartitionInv', writing' = Nil,
           size' = Len(Active')
    PROVE  Shown'
<1> DEFINE segments == snapshot'.segments
           n == Len(segments)
<1>0. TypeOK' /\ Laid'
  BY DEF PartitionInv
<1>1. segments \in Seq(SegmentView) /\ segments # <<>> /\ segments[n].base = ActiveBase'
  BY <1>0 DEF TypeOK, PartitionState, Laid, View
<1>2. n \in 1 .. n
  BY <1>1
<1>3. segments[n].size = Len(Active')
  BY <1>1, <1>2 DEF AllShown, Active
<1>4. segments[n].size \in Nat
  <2>1. segments[n] \in SegmentView
    BY <1>1, <1>2, ElementOfSeq
  <2> QED BY <2>1 DEF SegmentView
<1>5. segments[n].size + 0 = Len(Active') /\ size' + 0 = Len(Active')
  BY <1>3, <1>4
<1> QED BY <1>5 DEF Shown, AllShown, Views, View

\* The active file reaches the end of the history, the others another file.
LEMMA LastReaches ==
    ASSUME PartitionInv, ~ clobbered, NEW end \in 0 .. Len(history)
    PROVE  \A b \in DOMAIN files : \/ \E c \in DOMAIN files : b < c
                                   \/ end <= b + RecordsCount(files[b])
<1> TAKE b \in DOMAIN files
<1>0. TypeOK /\ Laid /\ Ends
  BY DEF PartitionInv
<1>1. ActiveBase \in DOMAIN files /\ ActiveBase \in Nat /\ b \in Nat /\ b <= ActiveBase
  BY <1>0, ActiveFacts DEF TypeOK
<1>2. CASE b = ActiveBase
  <2>1. b + RecordsCount(files[b]) = Len(history)
    BY <1>0, <1>2 DEF Ends, FileEnd, Active
  <2> QED BY <2>1
<1>3. CASE b # ActiveBase
  <2>1. b < ActiveBase
    BY <1>1, <1>3
  <2> QED BY <1>1, <2>1
<1> QED BY <1>2, <1>3

\* A new file at the end of the log.
LEMMA FreshOnDisk ==
    ASSUME PartitionInv, ~ clobbered, NEW entries, DOMAIN entries = DOMAIN files,
           OnDisk(files, entries, history), ActiveBase < Len(history),
           files' = Created(files, Len(history)), indexes' = Created(entries, Len(history)),
           history' = history
    PROVE  /\ OnDisk(files, indexes, history)'
           /\ Adds(files, Len(history), files')
           /\ indexes'[Len(history)] = <<>>
<1> DEFINE end == Len(history)
<1>0. TypeOK /\ Laid /\ Ends
  BY DEF PartitionInv
<1>1. /\ history \in Seq(Record) /\ end \in Nat /\ end \in 0 .. Len(history)
      /\ DOMAIN files \subseteq Nat /\ \A b \in DOMAIN files : files[b] \in Seq(Batch)
  BY <1>0 DEF TypeOK
<1>2. \A b \in DOMAIN files : b < end
  <2> TAKE b \in DOMAIN files
  <2>1. b <= ActiveBase /\ ActiveBase \in Nat /\ b \in Nat
    BY <1>0, <1>1, ActiveFacts
  <2> QED BY <1>1, <2>1
<1>3. end \notin DOMAIN files
  BY <1>1, <1>2
<1>4. KeptBelow(files, end) = DOMAIN files
  BY <1>2 DEF KeptBelow
<1> HIDE DEF end
<1>5. /\ DOMAIN files' = DOMAIN files \union {end} /\ files'[end] = <<>>
      /\ \A b \in DOMAIN files : b # end => files'[b] = files[b]
  BY CreatedFacts DEF end
<1>6. /\ indexes'[end] = <<>>
      /\ \A b \in DOMAIN files : b # end => indexes'[b] = entries[b]
  <2>1. /\ Created(entries, end)[end] = <<>>
        /\ \A b \in DOMAIN entries : b # end => Created(entries, end)[b] = entries[b]
    BY CreatedFacts
  <2>2. indexes' = Created(entries, end)
    BY DEF end
  <2> QED BY <2>1, <2>2
<1>7. \A b \in DOMAIN files : files'[b] = files[b] /\ indexes'[b] = entries[b]
  BY <1>3, <1>5, <1>6
<1>8. \A b \in DOMAIN files : \/ \E c \in DOMAIN files : b < c
                              \/ end <= b + RecordsCount(files[b])
  BY <1>1, LastReaches
<1>9. OnDisk(files', indexes', history')
  <2>1. Len(history') = end /\ \A i \in 1 .. end : history'[i] = history[i]
    BY DEF end
  <2>2. DOMAIN files' = KeptBelow(files, end) \union {end}
    BY <1>4, <1>5
  <2>3. \A b \in KeptBelow(files, end) : files'[b] = files[b] /\ indexes'[b] = entries[b]
    BY <1>4, <1>7
  <2>4. /\ history \in Seq(Record) /\ end \in 0 .. Len(history)
        /\ DOMAIN files \subseteq Nat
        /\ files'[end] = <<>> /\ indexes'[end] = <<>>
        /\ Len(history') = end
    BY <1>1, <1>5, <1>6, <2>1 DEF end
  <2>5. CutAt(files, entries, history, end, files', indexes', history')
    BY <1>1, <1>8, <2>1, <2>2, <2>3, <2>4 DEF CutAt
  <2> QED BY <2>4, <2>5, CutOnDisk
<1>10. Adds(files, end, files')
  BY <1>3, <1>5, <1>7 DEF Adds
<1>11. OnDisk(files, indexes, history)'
  BY <1>9 DEF OnDisk
<1> QED BY <1>6, <1>10, <1>11 DEF end

\* An empty active file and no append under way.
LEMMA FreshUnderway ==
    ASSUME writing' = Nil, indexes'[ActiveBase'] = <<>>
    PROVE  Underway'
<1>1. Len(<<>>) = 0
  OBVIOUS
<1>2. AllPoint(indexes[ActiveBase], Active, ActiveBase)'
  BY <1>1 DEF AllPoint
<1> QED BY <1>2 DEF Underway

LEMMA SoundPublish ==
    ASSUME PartitionInv, Sound, PublishBatch
    PROVE  Sound'
<1> DEFINE segments == snapshot.segments
           n == Len(segments)
           leo == snapshot.leo + Count[writing.id]
           view == [base |-> ActiveBase, size |-> size, indexCount |-> Len(indexes[ActiveBase])]
           views == [segments EXCEPT ![n] = view]
           full == size >= SegmentBytes
<1>0. TypeOK /\ Laid /\ Ends /\ PartitionInv'
  BY PublishStep DEF PartitionInv
<1>1. /\ writing # Nil /\ writing.indexed
      /\ snapshot'.segments = (IF full THEN Append(views, FreshView(leo)) ELSE views)
      /\ snapshot'.leo = leo
      /\ IF full THEN OpenFresh(leo) ELSE UNCHANGED segmentVars
      /\ writing' = Nil
      /\ UNCHANGED <<up, history, clobbered>>
  BY DEF PublishBatch, NewBase, historyVars
<1> SUFFICES ASSUME ~ clobbered PROVE OnDisk(files, indexes, history)' /\ Underway' /\ Shown'
  BY <1>1 DEF Sound
<1>2. up /\ Len(Active) \in Nat \ {0}
  BY <1>1, WritingEnd DEF Sound
<1>3. OnDisk(files, indexes, history) /\ Underway /\ Shown
  BY <1>2 DEF Sound
<1>4. /\ segments \in Seq(SegmentView) /\ n \in Nat \ {0} /\ n \in 1 .. n
      /\ segments[n].base = ActiveBase
      /\ \A i \in 1 .. n : segments[i] \in SegmentView
  <2>1. segments \in Seq(SegmentView) /\ n \in Nat \ {0}
    BY <1>0, ViewFacts
  <2>2. segments[n].base = ActiveBase
    BY <1>0 DEF Laid, View
  <2>3. \A i \in 1 .. n : segments[i] \in SegmentView
    BY <2>1, ElementOfSeq
  <2> QED BY <2>1, <2>2, <2>3
<1>5. /\ ActiveBase \in DOMAIN files /\ ActiveBase \in Nat
      /\ Len(indexes[ActiveBase]) \in Nat /\ size \in Nat
      /\ DOMAIN indexes = DOMAIN files
  BY <1>0, ActiveFacts DEF TypeOK
<1>6. size = Len(Active)
  BY <1>1, <1>3, <1>5 DEF Shown
<1>7. leo = Len(history) /\ ActiveBase < leo
  <2>1. leo = Len(history) /\ Len(history) = ActiveBase + RecordsCount(Active)
    BY <1>0, <1>1, <1>2 DEF Ends, Unpublished, FileEnd
  <2>2. Active \in Seq(Batch) /\ Active # <<>> /\ RecordsCount(Active) \in Nat
    BY <1>0, <1>1, <1>3, ActiveFacts DEF Underway
  <2>3. RecordsCount(Active) > 0
    BY <2>2, CountPositive
  <2> QED BY <1>5, <2>1, <2>2, <2>3
<1>8. view \in SegmentView /\ view.base = ActiveBase /\ view.size = Len(Active)
  BY <1>5, <1>6 DEF SegmentView
<1> HIDE DEF segments, n, view, leo, full
<1>9. /\ views \in Seq(SegmentView) /\ Len(views) = n
      /\ \A i \in 1 .. n : views[i] = IF i = n THEN view ELSE segments[i]
  <2>1. n = Len(segments) /\ n \in 1 .. Len(segments)
    BY <1>4 DEF n
  <2>2. views \in Seq(SegmentView) /\ Len(views) = Len(segments)
    BY <1>4, <1>8, <2>1, ExceptSeq
  <2>3. \A i \in 1 .. n : views[i] = IF i = n THEN view ELSE segments[i]
    BY <1>4, <2>1
  <2> QED BY <2>1, <2>2, <2>3
<1> HIDE DEF views
<1>10. AllShown(views, files)
  <2>1. \A i \in 1 .. n : views[i].base = segments[i].base
    BY <1>4, <1>8, <1>9
  <2>2. \A b \in DOMAIN files : \E i \in 1 .. n : views[i].base = b
    BY <1>3, <2>1 DEF Shown, Views, View, n, segments
  <2>3. ASSUME NEW i \in 1 .. n
        PROVE  views[i].base \in DOMAIN files /\ views[i].size = Len(files[views[i].base])
    <3>1. CASE i = n
      BY <1>5, <1>8, <1>9, <3>1 DEF Active
    <3>2. CASE i # n
      <4>1. views[i] = segments[i]
        BY <1>9, <3>2
      <4>2. segments[i].base \in DOMAIN files /\ segments[i].base < ActiveBase
        <5>1. i < n
          BY <1>4, <3>2
        <5> QED BY <1>0, <1>4, <5>1 DEF Laid, Fits, segments, n
      <4>3. segments[i].base # ActiveBase
        <5>1. segments[i].base \in Nat
          BY <1>4 DEF SegmentView
        <5> QED BY <1>5, <4>2, <5>1
      <4>4. segments[i].size = Len(files[segments[i].base])
        BY <1>3, <4>3 DEF Shown, Views, View, segments, n
      <4> QED BY <4>1, <4>2, <4>4
    <3> QED BY <3>1, <3>2
  <2> QED BY <1>9, <2>2, <2>3 DEF AllShown
<1>11. CASE full
  <2>1. /\ files' = Created(files, leo) /\ indexes' = Created(indexes, leo)
        /\ cursor' = 0 /\ size' = 0 /\ history' = history
        /\ snapshot'.segments = Append(views, FreshView(leo))
    BY <1>1, <1>11 DEF OpenFresh
  <2>2. /\ OnDisk(files, indexes, history)'
        /\ Adds(files, leo, files') /\ indexes'[leo] = <<>>
    BY <1>3, <1>5, <1>7, <2>1, FreshOnDisk
  <2>3. ActiveBase' = leo /\ Active' = <<>>
    <3>1. leo \in Nat /\ DOMAIN files \subseteq Nat /\ IsFiniteSet(DOMAIN files)
      BY <1>0, <1>7 DEF TypeOK, Laid
    <3>2. \A b \in DOMAIN files : b <= leo
      <4> TAKE b \in DOMAIN files
      <4>1. b <= ActiveBase /\ b \in Nat
        BY <1>0, <3>1, ActiveFacts
      <4> QED BY <1>5, <1>7, <3>1, <4>1
    <3> QED BY <2>2, <3>1, <3>2, CreatedActive DEF Adds
  <2>4. Underway'
    BY <1>1, <2>2, <2>3, FreshUnderway
  <2>5. AllShown(snapshot'.segments, files')
    <3>1. leo \in Nat
      BY <1>0, <1>7 DEF TypeOK
    <3>2. AllShown(Append(views, FreshView(leo)), files')
      BY <1>9, <1>10, <2>2, <3>1, FreshShown
    <3> QED BY <2>1, <3>2
  <2>6. Len(<<>>) = 0
    OBVIOUS
  <2>7. Shown'
    BY <1>0, <1>1, <2>1, <2>3, <2>5, <2>6, AllIsShown
  <2> QED BY <2>2, <2>4, <2>7
<1>12. CASE ~ full
  <2>1. UNCHANGED <<files, indexes, cursor, size, history>> /\ snapshot'.segments = views
    BY <1>1, <1>12 DEF segmentVars
  <2>2. UNCHANGED <<ActiveBase, Active>>
    BY <2>1 DEF ActiveBase, Active
  <2>3. OnDisk(files, indexes, history)'
    BY <1>3, <2>1 DEF OnDisk
  <2>4. Underway'
    BY <1>1, <1>3, <2>1, <2>2 DEF Underway, AllPoint, Points
  <2>5. Shown'
    BY <1>0, <1>1, <1>6, <1>10, <2>1, <2>2, AllIsShown
  <2> QED BY <2>3, <2>4, <2>5
<1> QED BY <1>11, <1>12

\* Cutting views and files below an offset leaves views that show the files.
LEMMA CutShown ==
    ASSUME TypeOK, Laid, AllShown(snapshot.segments, files), NEW offset \in Nat
    PROVE  AllShown(ViewsBelow(snapshot.segments, offset),
                    Restrict(files, KeptBelow(files, offset)))
<1> DEFINE segments == snapshot.segments
           views == ViewsBelow(segments, offset)
           kept == KeptBelow(files, offset)
           dir == Restrict(files, kept)
           n == Len(views)
<1>1. /\ segments \in Seq(SegmentView) /\ segments # <<>>
      /\ DOMAIN indexes = DOMAIN files
      /\ Fits(segments, files, indexes)
  BY ViewFacts DEF TypeOK, Laid
<1>2. /\ n \in 0 .. Len(segments)
      /\ \A i \in 1 .. n : views[i] = segments[i] /\ segments[i].base < offset
      /\ \A i \in 1 .. Len(segments) : segments[i].base < offset => i \in 1 .. n
  <2> HIDE DEF segments
  <2> QED BY <1>1, FitsBelow
<1>3. DOMAIN dir = kept /\ \A b \in kept : dir[b] = files[b]
  BY DEF Restrict
<1>4. \A i \in 1 .. n : i \in 1 .. Len(segments)
  BY <1>1, <1>2
<1> HIDE DEF dir, views, n
<1>5. \A b \in DOMAIN dir : \E i \in 1 .. n : views[i].base = b
  <2> TAKE b \in DOMAIN dir
  <2>1. b \in DOMAIN files /\ b < offset
    BY <1>3 DEF KeptBelow
  <2>2. PICK i \in 1 .. Len(segments) : segments[i].base = b
    BY <2>1 DEF AllShown
  <2> QED BY <1>2, <2>1, <2>2
<1>6. ASSUME NEW i \in 1 .. n
      PROVE  views[i].base \in DOMAIN dir /\ views[i].size = Len(dir[views[i].base])
  <2>1. /\ segments[i].base \in DOMAIN files
        /\ segments[i].size = Len(files[segments[i].base])
    BY <1>4 DEF AllShown
  <2>2. segments[i].base \in kept
    BY <1>2, <2>1 DEF KeptBelow
  <2> QED BY <1>2, <1>3, <2>1, <2>2
<1>7. AllShown(views, dir)
  BY <1>5, <1>6 DEF AllShown, n
<1> QED BY <1>7 DEF views, dir

LEMMA SoundTruncate ==
    ASSUME PartitionInv, Sound, TruncateLog
    PROVE  Sound'
<1> DEFINE offset == Head(queue).offset
           segments == snapshot.segments
           kept == KeptBelow(files, offset)
           dir == Restrict(files, kept)
           idx == Restrict(indexes, kept)
<1>0. TypeOK /\ Laid /\ Ends /\ PartitionInv'
  BY TruncateStep DEF PartitionInv
<1>1. up /\ writing = Nil /\ UNCHANGED <<writing, up, clobbered>>
  BY DEF TruncateLog, Receive
<1>2. CASE offset >= snapshot.leo
  <2>1. UNCHANGED <<segmentVars, snapshot, history>>
    BY <1>2 DEF TruncateLog
  <2> QED BY <1>1, <2>1, SoundQuiet DEF segmentVars
<1>3. CASE ~ (offset >= snapshot.leo)
  <2> SUFFICES ASSUME ~ clobbered PROVE OnDisk(files, indexes, history)' /\ Underway' /\ Shown'
    BY <1>1 DEF Sound
  <2>1. OnDisk(files, indexes, history) /\ Shown
    BY <1>1 DEF Sound
  <2>2. offset \in Nat /\ snapshot.leo \in Nat /\ offset < snapshot.leo
    <3>1. queue # <<>> /\ Head(queue).cmd = "Truncate"
      BY DEF TruncateLog, Receive
    <3>2. offset \in Nat
      BY <1>0, <3>1, ReceivedType, CommandParts
    <3>3. snapshot.leo \in Nat
      BY <1>0, ViewFacts
    <3> QED BY <1>3, <3>2, <3>3
  <2>3. /\ files' = Created(dir, offset)
        /\ indexes' = Created(idx, offset)
        /\ cursor' = 0 /\ size' = 0
        /\ snapshot'.segments = Append(ViewsBelow(segments, offset), FreshView(offset))
        /\ history' = SubSeq(history, 1, offset)
    BY <1>0, <2>2, TruncateParts
  <2> HIDE DEF offset
  <2>4. offset \in 0 .. Len(history)
    <3>1. Unpublished = 0
      BY <1>1 DEF Unpublished
    <3>2. snapshot.leo + 0 <= Len(history) /\ Len(history) \in Nat
      BY <1>0, <1>1, <3>1 DEF Ends, TypeOK
    <3> QED BY <2>2, <3>2
  <2>5. history \in Seq(Record) /\ DOMAIN files \subseteq Nat /\ IsFiniteSet(DOMAIN files)
        /\ (\A b \in DOMAIN files : files[b] \in Seq(Batch)) /\ DOMAIN indexes = DOMAIN files
    BY <1>0 DEF TypeOK, Laid
  <2>6. Len(history') = offset /\ \A i \in 1 .. offset : history'[i] = history[i]
    <3>1. 1 \in Nat \ {0} /\ offset - 1 + 1 = offset /\ (~ (1 <= offset) => offset = 0)
      BY <2>2
    <3>2. /\ Len(history') = IF 1 <= offset THEN offset - 1 + 1 ELSE 0
          /\ \A i \in 1 .. offset - 1 + 1 : history'[i] = history[1 + i - 1]
      BY <2>3, <2>4, <2>5, <3>1, PartType
    <3>3. \A i \in 1 .. offset : 1 + i - 1 = i
      BY <2>2
    <3> QED BY <3>1, <3>2, <3>3
  <2>7. DOMAIN dir = kept /\ DOMAIN idx = kept /\ kept \subseteq DOMAIN files
    BY DEF Restrict, KeptBelow
  <2>8. \A b \in kept : dir[b] = files[b] /\ idx[b] = indexes[b] /\ b \in Nat /\ b < offset
    BY <2>5 DEF Restrict, KeptBelow
  <2>9. offset \notin kept
    BY <2>2, <2>8
  <2>10. IsFiniteSet(kept)
    <3>1. kept \in SUBSET DOMAIN files
      BY <2>7
    <3> HIDE DEF kept
    <3> QED BY <2>5, <3>1, FS_Subset
  <2> HIDE DEF dir, idx, kept
  <2>11. /\ DOMAIN files' = kept \union {offset}
         /\ files'[offset] = <<>> /\ indexes'[offset] = <<>>
         /\ \A b \in kept : files'[b] = dir[b] /\ indexes'[b] = idx[b]
    <3>1. /\ DOMAIN files' = DOMAIN dir \union {offset} /\ files'[offset] = <<>>
          /\ \A b \in DOMAIN dir : b # offset => files'[b] = dir[b]
      BY <2>3, CreatedFacts
    <3>2. /\ indexes'[offset] = <<>>
          /\ \A b \in DOMAIN idx : b # offset => indexes'[b] = idx[b]
      BY <2>3, CreatedFacts
    <3> QED BY <2>7, <2>9, <3>1, <3>2
  <2>12. OnDisk(files', indexes', history')
    <3>1. \A b \in DOMAIN files : \/ \E c \in DOMAIN files : b < c
                                  \/ offset <= b + RecordsCount(files[b])
      BY <2>4, LastReaches
    <3>2. CutAt(files, indexes, history, offset, files', indexes', history')
      BY <2>5, <2>6, <2>8, <2>11, <3>1 DEF CutAt, kept
    <3> QED BY <2>1, <2>4, <2>5, <3>2, CutOnDisk
  <2>13. ActiveBase' = offset /\ Active' = <<>>
    <3>1. kept \subseteq Nat /\ \A y \in kept : y <= offset
      BY <2>2, <2>8
    <3> QED BY <2>2, <2>10, <2>11, <3>1, CreatedActive
  <2>14. Underway'
    BY <1>1, <2>11, <2>13, FreshUnderway
  <2>15. AllShown(snapshot'.segments, files')
    <3>1. AllShown(ViewsBelow(segments, offset), dir)
      BY <1>0, <1>1, <2>1, <2>2, ShownAll, CutShown DEF dir, kept
    <3>2. Adds(dir, offset, files')
      BY <2>7, <2>9, <2>11 DEF Adds
    <3>3. ViewsBelow(segments, offset) \in Seq(SegmentView)
      <4>1. /\ segments \in Seq(SegmentView) /\ segments # <<>>
            /\ Fits(segments, files, indexes)
        BY <1>0, ViewFacts DEF Laid
      <4> HIDE DEF segments
      <4> QED BY <2>2, <2>5, <4>1, FitsBelow
    <3>4. AllShown(Append(ViewsBelow(segments, offset), FreshView(offset)), files')
      BY <2>2, <3>1, <3>2, <3>3, FreshShown
    <3> QED BY <2>3, <3>4
  <2>16. size' = Len(Active')
    BY <2>3, <2>13
  <2>17. Shown'
    BY <1>0, <1>1, <2>15, <2>16, AllIsShown
  <2>18. OnDisk(files, indexes, history)'
    BY <2>12 DEF OnDisk
  <2> QED BY <2>14, <2>17, <2>18
<1> QED BY <1>2, <1>3

\* The views of reopened files show them at their full length.
LEMMA ReopenedShown ==
    ASSUME TypeOK, Laid
    PROVE  AllShown(Reopened, files)
<1> DEFINE bases == Ascending(DOMAIN files)
           n == Len(bases)
<1>1. DOMAIN files \subseteq Nat /\ IsFiniteSet(DOMAIN files)
  BY DEF TypeOK, Laid
<1>2. /\ n \in Nat
      /\ \A i \in 1 .. n : bases[i] \in DOMAIN files
      /\ \A b \in DOMAIN files : \E i \in 1 .. n : bases[i] = b
  <2>1. /\ bases \in Seq(Nat)
        /\ \A i \in 1 .. n : bases[i] \in DOMAIN files
        /\ \A b \in DOMAIN files : \E i \in 1 .. n : bases[i] = b
    BY <1>1, AscendingLists
  <2>2. n \in Nat
    <3> HIDE DEF bases
    <3> QED BY <2>1
  <2> QED BY <2>1, <2>2
<1>3. Reopened = [i \in 1 .. n |-> Opened(bases[i])]
  BY DEF Reopened
<1> HIDE DEF bases, n
<1>4. Len(Reopened) = n
  <2>1. Reopened \in Seq(SegmentView)
    BY ReopenedFits
  <2>2. DOMAIN Reopened = 1 .. n
    BY <1>3
  <2> QED BY <1>2, <2>1, <2>2, LenProperties
<1>5. \A i \in 1 .. n : /\ Reopened[i].base = bases[i]
                        /\ Reopened[i].size = Len(files[bases[i]])
  BY <1>3 DEF Opened
<1>6. \A b \in DOMAIN files : \E i \in 1 .. n : Reopened[i].base = b
  <2> TAKE b \in DOMAIN files
  <2>1. PICK i \in 1 .. n : bases[i] = b
    BY <1>2
  <2> QED BY <1>5, <2>1
<1>7. \A i \in 1 .. n : /\ Reopened[i].base \in DOMAIN files
                        /\ Reopened[i].size = Len(files[Reopened[i].base])
  BY <1>2, <1>5
<1> QED BY <1>4, <1>6, <1>7 DEF AllShown

LEMMA SoundRestart ==
    ASSUME PartitionInv, Sound, Restart
    PROVE  Sound'
<1> DEFINE leo == RecoveredEnd(ActiveBase)
           full == Len(Active) >= SegmentBytes
<1>0. TypeOK /\ Laid /\ Ends /\ PartitionInv'
  BY RestartStep DEF PartitionInv
<1>1. /\ ~ up /\ up' = TRUE /\ cursor' = 0
      /\ files' = IF full THEN Created(files, leo) ELSE files
      /\ indexes' = IF full THEN Created(OpenedIndexes, leo) ELSE OpenedIndexes
      /\ size' = IF full THEN 0 ELSE Len(Active)
      /\ snapshot'.segments = IF full THEN Append(Reopened, FreshView(leo)) ELSE Reopened
      /\ UNCHANGED <<writing, history, clobbered>>
  BY DEF Restart, Reopened, historyVars
<1>2. writing = Nil /\ writing' = Nil
  BY <1>0, <1>1 DEF Ends
<1> SUFFICES ASSUME ~ clobbered PROVE OnDisk(files, indexes, history)' /\ Underway' /\ Shown'
  BY <1>1 DEF Sound
<1>3. OnDisk(files, OpenedIndexes, history)
  BY <1>0, OpenedOnDisk DEF Sound
<1>4. leo = Len(history) /\ leo \in Nat
  <2>1. leo = FileEnd /\ FileEnd = Len(history)
    BY <1>0 DEF RecoveredEnd, FileEnd, Active, Ends
  <2> QED BY <1>0, <2>1 DEF TypeOK
<1>5. /\ ActiveBase \in DOMAIN files /\ ActiveBase \in Nat /\ Active \in Seq(Batch)
      /\ RecordsCount(Active) \in Nat /\ leo = ActiveBase + RecordsCount(Active)
  <2>1. leo = ActiveBase + RecordsCount(Active)
    BY DEF RecoveredEnd, Active
  <2> QED BY <1>0, <2>1, ActiveFacts
<1>6. Reopened \in Seq(SegmentView) /\ AllShown(Reopened, files)
  BY <1>0, ReopenedFits, ReopenedShown
<1>7. DOMAIN OpenedIndexes = DOMAIN files
  BY <1>0, OpenedType
<1> HIDE DEF leo, full
<1>8. CASE full
  <2>1. /\ files' = Created(files, leo) /\ indexes' = Created(OpenedIndexes, leo)
        /\ cursor' = 0 /\ size' = 0 /\ history' = history
        /\ snapshot'.segments = Append(Reopened, FreshView(leo))
    BY <1>1, <1>8
  <2>2. ActiveBase < leo
    <3>1. Active # <<>>
      <4>1. Len(Active) >= SegmentBytes /\ SegmentBytes \in Nat \ {0}
        BY <1>8, SegmentAssumption DEF full
      <4>2. Len(<<>>) = 0
        OBVIOUS
      <4> QED BY <4>1, <4>2
    <3>2. RecordsCount(Active) > 0
      BY <1>5, <3>1, CountPositive
    <3> QED BY <1>5, <3>2
  <2>3. /\ OnDisk(files, indexes, history)'
        /\ Adds(files, leo, files') /\ indexes'[leo] = <<>>
    BY <1>3, <1>4, <1>7, <2>1, <2>2, FreshOnDisk
  <2>4. ActiveBase' = leo /\ Active' = <<>>
    <3>1. DOMAIN files \subseteq Nat /\ IsFiniteSet(DOMAIN files)
      BY <1>0 DEF TypeOK, Laid
    <3>2. \A b \in DOMAIN files : b <= leo
      <4> TAKE b \in DOMAIN files
      <4>1. b <= ActiveBase /\ b \in Nat
        BY <1>0, <3>1, ActiveFacts
      <4> QED BY <1>4, <1>5, <2>2, <4>1
    <3> QED BY <1>4, <2>3, <3>1, <3>2, CreatedActive DEF Adds
  <2>5. Underway'
    BY <1>2, <2>3, <2>4, FreshUnderway
  <2>6. AllShown(snapshot'.segments, files')
    <3>1. AllShown(Append(Reopened, FreshView(leo)), files')
      BY <1>4, <1>6, <2>3, FreshShown
    <3> QED BY <2>1, <3>1
  <2>7. size' = Len(Active')
    BY <2>1, <2>4
  <2>8. Shown'
    BY <1>0, <1>2, <2>6, <2>7, AllIsShown
  <2> QED BY <2>3, <2>5, <2>8
<1>9. CASE ~ full
  <2>1. /\ files' = files /\ indexes' = OpenedIndexes /\ cursor' = 0 /\ size' = Len(Active)
        /\ history' = history /\ snapshot'.segments = Reopened
    BY <1>1, <1>9
  <2>2. UNCHANGED <<ActiveBase, Active>>
    BY <2>1 DEF ActiveBase, Active
  <2>3. OnDisk(files, indexes, history)'
    BY <1>3, <2>1 DEF OnDisk
  <2>4. Underway'
    <3>1. CASE Active = <<>>
      <4>1. indexes'[ActiveBase'] = <<>>
        BY <1>5, <2>1, <2>2, <3>1 DEF OpenedIndexes, Active
      <4> QED BY <1>2, <4>1, FreshUnderway
    <3>2. CASE Active # <<>>
      <4>1. Len(Active) \in Nat /\ Len(Active) # 0
        BY <1>5, <3>2
      <4>2. ~ (cursor' >= Len(Active'))
        BY <2>1, <2>2, <4>1
      <4> QED BY <1>2, <4>2 DEF Underway
    <3> QED BY <3>1, <3>2
  <2>5. AllShown(snapshot'.segments, files') /\ size' = Len(Active')
    BY <1>6, <2>1, <2>2
  <2>6. Shown'
    BY <1>0, <1>2, <2>5, AllIsShown
  <2> QED BY <2>3, <2>4, <2>6
<1> QED BY <1>8, <1>9

LEMMA SoundStep == PartitionInv /\ Sound /\ [TruncatingNext]_vars => Sound'
<1> SUFFICES ASSUME PartitionInv, Sound, [TruncatingNext]_vars PROVE Sound'
  OBVIOUS
<1>0. TypeOK /\ Laid /\ Ends
  BY DEF PartitionInv
<1>1. CASE UNCHANGED vars
  BY <1>1, SoundQuiet DEF vars, actorVars, segmentVars, historyVars
<1>2. CASE \/ \E id \in Batches, acks \in AcksKinds : Produce(id, acks)
           \/ Shutdown
           \/ \E offset \in Nat : Truncate(offset)
  BY <1>2, SoundQuiet DEF Produce, Shutdown, Truncate, actorVars, segmentVars, historyVars
<1>3. CASE \/ \E r \in Readers, fit \in FetchSizes : Fetch(r, fit)
           \/ \E r \in Readers : Respond(r) \/ Disconnect(r)
           \/ \E r \in Replicas : LateReport(r)
  <2>1. /\ UNCHANGED <<files, indexes, cursor, size, writing, up, history, clobbered>>
        /\ snapshot' = snapshot
    BY <1>3 DEF Fetch, Respond, Disconnect, LateReport, actorVars, segmentVars, historyVars
  <2> QED BY <2>1, SoundQuiet
<1>4. CASE UpdateReplicaLeo
  <2>1. snapshot'.segments = snapshot.segments
    BY <1>0, <1>4, UpdateParts
  <2>2. UNCHANGED <<files, indexes, cursor, size, writing, up, history, clobbered>>
    BY <1>4 DEF UpdateReplicaLeo, segmentVars, historyVars
  <2> QED BY <2>1, <2>2, SoundQuiet
<1>5. CASE HandleShutdown \/ Crash
  BY <1>5, SoundStop DEF HandleShutdown, Crash
<1>6. CASE WriteBatch \/ IndexBatch \/ PublishBatch \/ TruncateLog \/ Restart
  BY <1>6, SoundWrite, SoundIndex, SoundPublish, SoundTruncate, SoundRestart
<1> QED BY <1>1, <1>2, <1>3, <1>4, <1>5, <1>6 DEF TruncatingNext, Next, Actor

LEMMA InitSound == Init => Sound
<1> SUFFICES ASSUME Init PROVE OnDisk(files, indexes, history) /\ Underway /\ Shown
  BY DEF Sound
<1>0. TypeOK /\ Laid
  BY InitHolds DEF PartitionInv
<1>1. /\ DOMAIN files = {0} /\ files[0] = <<>> /\ indexes[0] = <<>> /\ history = <<>>
      /\ writing = Nil /\ size = 0 /\ Len(<<>>) = 0
      /\ snapshot.segments = <<FreshView(0)>>
  BY DEF Init
<1>2. ActiveBase \in {0} /\ Active = <<>>
  <2>1. ActiveBase \in DOMAIN files
    BY <1>0, ActiveFacts
  <2> QED BY <1>1, <2>1 DEF Active
<1>3. OnDisk(files, indexes, history)
  <2>1. \A b \in DOMAIN files : Contiguous(files[b], b) /\ Indexed(indexes[b], files[b], b)
    BY <1>1 DEF Contiguous, Indexed
  <2>2. NoGap(files)
    BY <1>1 DEF NoGap
  <2>3. Recorded(files, history)
    BY <1>1 DEF Recorded
  <2> QED BY <2>1, <2>2, <2>3 DEF OnDisk
<1>4. Underway
  BY <1>1, <1>2 DEF Underway, AllPoint
<1>5. Shown
  <2>1. Views = {1} /\ Len(snapshot.segments) = 1 /\ View(1) = FreshView(0)
    BY <1>1 DEF Views, View
  <2>2. FreshView(0).base = 0 /\ FreshView(0).size = 0
    BY DEF FreshView
  <2> QED BY <1>1, <1>2, <2>1, <2>2 DEF Shown
<1> QED BY <1>3, <1>4, <1>5

LEMMA SoundHolds == TruncatingSpec => []Sound
BY InitSound, SoundStep, InvariantHolds, PTL DEF TruncatingSpec

\* The segment that a fetch reads holds the offset, and its view shows the batch
\* that does.
LEMMA OffsetShown ==
    ASSUME PartitionInv, OnDisk(files, indexes, history), Underway, Shown, up, ~ clobbered,
           NEW offset \in Nat, offset < snapshot.leo
    PROVE  LET n == SegmentFor(snapshot.segments, offset)
               b == View(n).base
           IN  /\ n \in Views /\ b \in DOMAIN files /\ Covers(files, b, offset)
               /\ View(n).size <= Len(files[b])
               /\ \E p \in 1 .. View(n).size :
                     /\ b + Total(files[b])[p - 1] <= offset
                     /\ offset < b + Total(files[b])[p]
<1> DEFINE n == SegmentFor(snapshot.segments, offset)
           v == View(n)
           b == v.base
           data == files[b]
           last == Len(snapshot.segments)
<1>0. TypeOK /\ Laid /\ Ends
  BY DEF PartitionInv
<1>1. /\ n \in Views /\ b <= offset
      /\ \A j \in Views : j > n => View(j).base > offset
  BY <1>0, SegmentForPicks
<1> HIDE DEF n
<1>2. /\ v \in SegmentView /\ b \in Nat /\ v.size \in Nat
      /\ b \in DOMAIN files /\ data \in Seq(Batch) /\ Len(data) \in Nat
  <2>1. v \in SegmentView /\ b \in DOMAIN files
    BY <1>0, <1>1, ViewFacts DEF Laid, Fits, Views, View
  <2>2. data \in Seq(Batch)
    BY <1>0, <2>1 DEF TypeOK
  <2> HIDE DEF v
  <2> QED BY <2>1, <2>2 DEF SegmentView
<1>3. \A i, j \in Views : i < j => View(i).base < View(j).base
  BY <1>0 DEF Laid, Fits, Views, View
<1>4. last \in Views /\ View(last).base = ActiveBase /\ ActiveBase \in Nat
      /\ Active \in Seq(Batch) /\ (\A c \in DOMAIN files : c <= ActiveBase /\ c \in Nat)
      /\ \A i \in Views : i \in Nat /\ i <= last /\ View(i).base \in Nat
  <2>1. \A i \in Views : i \in Nat /\ i <= last /\ View(i).base \in Nat
    BY <1>0, ViewFacts DEF Views
  <2>2. last \in Views /\ View(last).base = ActiveBase
    BY <1>0, ViewFacts DEF Views, Laid
  <2> QED BY <1>0, <2>1, <2>2, ActiveFacts DEF TypeOK
<1> HIDE DEF last
<1>5. Covers(files, b, offset)
  <2> SUFFICES ASSUME NEW c \in DOMAIN files, b < c PROVE offset < c
    BY <1>1 DEF Covers
  <2>1. PICK j \in Views : View(j).base = c
    BY DEF Shown
  <2>2. j > n
    <3>1. j # n /\ ~ (j < n)
      BY <1>1, <1>2, <1>3, <1>4, <2>1
    <3> QED BY <1>1, <1>4, <3>1
  <2> QED BY <1>1, <1>4, <2>1, <2>2
<1>6. offset < b + RecordsCount(data)
  <2>1. CASE b = ActiveBase
    <3>1. b + RecordsCount(data) = Len(history)
      BY <1>0, <2>1 DEF Ends, FileEnd, Active
    <3>2. Unpublished \in Nat /\ snapshot.leo + Unpublished = Len(history)
      <4>1. writing # Nil => Count[writing.id] \in Nat
        BY <1>0, BatchAssumption DEF TypeOK, Writing
      <4> QED BY <1>0, <4>1 DEF Ends, Unpublished
    <3>3. snapshot.leo \in Nat
      BY <1>0, ViewFacts
    <3> QED BY <3>1, <3>2, <3>3
  <2>2. CASE b # ActiveBase
    <3>1. b < ActiveBase /\ ActiveBase \in DOMAIN files
      BY <1>0, <1>2, <1>4, <2>2, ActiveFacts
    <3>2. PICK d \in DOMAIN files : b < d /\ d <= b + RecordsCount(data)
      BY <1>2, <3>1 DEF OnDisk, NoGap
    <3>3. offset < d /\ d \in Nat /\ RecordsCount(data) \in Nat
      BY <1>2, <1>4, <1>5, <3>2, RecordsCountType DEF Covers
    <3> QED BY <1>2, <3>2, <3>3
  <2> QED BY <2>1, <2>2
<1>7. PICK p \in 1 .. Len(data) :
         b + Total(data)[p - 1] <= offset /\ offset < b + Total(data)[p]
  <2>1. offset - b \in Nat /\ offset - b < RecordsCount(data)
    <3>1. RecordsCount(data) \in Nat
      BY <1>2, RecordsCountType
    <3> HIDE DEF data, v
    <3> QED BY <1>1, <1>2, <1>6, <3>1
  <2>2. PICK p \in 1 .. Len(data) : Total(data)[p - 1] <= offset - b /\ offset - b < Total(data)[p]
    BY <1>2, <2>1, HolderExists
  <2>3. Total(data)[p - 1] \in Nat /\ Total(data)[p] \in Nat
    <3>1. p \in 0 .. Len(data) /\ p - 1 \in 0 .. Len(data)
      BY <1>2
    <3> QED BY <1>2, <3>1, TotalType
  <2> HIDE DEF data, v
  <2>4. b + Total(data)[p - 1] <= offset /\ offset < b + Total(data)[p]
    BY <1>2, <2>2, <2>3
  <2> QED BY <2>4
<1>8. v.size <= Len(data) /\ p \in 1 .. v.size
  <2>1. CASE b # ActiveBase
    <3>1. v.size = Len(data)
      BY <1>1, <2>1 DEF Shown
    <3> HIDE DEF data, v
    <3> QED BY <1>2, <3>1
  <2>2. CASE b = ActiveBase
    <3>1. n = last
      <4>1. ~ (n < last)
        BY <1>1, <1>2, <1>3, <1>4, <2>2
      <4> QED BY <1>1, <1>4, <4>1
    <3>2. data = Active
      BY <2>2 DEF Active
    <3>3. v.size + (IF writing = Nil THEN 0 ELSE 1) = Len(data)
      BY <3>1, <3>2 DEF Shown, last
    <3>4. CASE writing = Nil
      <4> HIDE DEF data, v
      <4> QED BY <1>2, <3>3, <3>4
    <3>5. CASE writing # Nil
      <4>1. snapshot.leo = b + Total(data)[Len(data) - 1] /\ Len(data) # 0
        BY <2>2, <3>2, <3>5, WritingEnd
      <4> HIDE DEF data, v
      <4>2. /\ p - 1 \in 0 .. Len(data) /\ Len(data) - 1 \in 0 .. Len(data)
            /\ v.size = Len(data) - 1
        BY <1>2, <3>3, <3>5, <4>1
      <4>3. Total(data)[p - 1] \in Nat /\ Total(data)[Len(data) - 1] \in Nat
        BY <1>2, <4>2, TotalType
      <4>4. Total(data)[p - 1] < Total(data)[Len(data) - 1]
        BY <1>2, <1>7, <4>1, <4>3
      <4>5. p - 1 < Len(data) - 1
        BY <1>2, <4>2, <4>4, TotalOrders
      <4> QED BY <1>2, <4>2, <4>5
    <3> QED BY <3>4, <3>5
  <2> QED BY <2>1, <2>2
<1> QED BY <1>1, <1>2, <1>5, <1>7, <1>8 DEF n

\* The entries that a fetch uses lead to batches, unless an index lost its first one.
LEMMA EntriesPoint ==
    ASSUME TypeOK, Laid, OnDisk(files, indexes, history), Underway, ~ IndexLost,
           NEW b \in DOMAIN files, files[b] # <<>>
    PROVE  AllPoint(indexes[b], files[b], b)
<1> DEFINE index == indexes[b]
           data == files[b]
<1>1. /\ b \in Nat /\ data \in Seq(Batch) /\ index \in Seq(IndexEntry)
      /\ Len(data) \in Nat /\ Len(data) # 0
  <2>1. b \in Nat /\ data \in Seq(Batch) /\ index \in Seq(IndexEntry)
    BY DEF TypeOK
  <2> HIDE DEF data
  <2>2. data # <<>>
    BY DEF data
  <2> QED BY <2>1, <2>2
<1>2. SUFFICES ASSUME NEW k \in 1 .. Len(index), ~ Points(index[k], data, b) PROVE FALSE
  BY DEF AllPoint
<1>3. k = 1 /\ index[k] = ZeroEntry
  BY <1>2 DEF OnDisk, Indexed
<1>4. b # 0
  <2>1. ZeroEntry.pos = 0 /\ ZeroEntry.offset = 0
    BY DEF ZeroEntry
  <2>2. Total(data)[0] = 0
    BY <1>1, TotalValues
  <2>3. 0 < Len(data)
    BY <1>1
  <2> QED BY <1>2, <1>3, <2>1, <2>2, <2>3 DEF Points
<1>5. ScannedIndex(index)[1] = ZeroEntry
  BY <1>3 DEF ScannedIndex
<1>6. writing # Nil /\ b = ActiveBase
  BY <1>4, <1>5 DEF IndexLost, Unindexed
<1>7. AllPoint(index, data, b)
  BY <1>6 DEF Underway, Active
<1> QED BY <1>2, <1>7 DEF AllPoint

LEMMA SoundFinds == PartitionInv /\ Sound => FetchFindsRecord
<1> SUFFICES ASSUME PartitionInv, Sound, up, ~ clobbered, ~ IndexLost,
                    NEW offset \in 0 .. snapshot.leo - 1
             PROVE  /\ FetchRecords(offset, 1) # <<>>
                    /\ Head(FetchRecords(offset, 1)) = history[offset + 1]
  BY DEF FetchFindsRecord, Damaged
<1> DEFINE n == SegmentFor(snapshot.segments, offset)
           v == View(n)
           b == v.base
           data == files[b]
           index == indexes[b]
<1>0. TypeOK /\ Laid /\ Ends /\ snapshot.leo \in Nat
  BY ViewFacts DEF PartitionInv
<1>1. OnDisk(files, indexes, history) /\ Underway /\ Shown
  BY DEF Sound
<1>2. offset \in Nat /\ offset < snapshot.leo
  BY <1>0
<1>3. /\ n \in Views /\ b \in DOMAIN files /\ Covers(files, b, offset)
      /\ v.size <= Len(data)
      /\ \E p \in 1 .. v.size :
            b + Total(data)[p - 1] <= offset /\ offset < b + Total(data)[p]
  BY <1>1, <1>2, OffsetShown
<1>4. FetchRecords(offset, 1) = SegmentFetch(data, index, v, offset, 1)
  BY DEF FetchRecords, View
<1> HIDE DEF n
<1>5. PICK p \in 1 .. v.size :
         b + Total(data)[p - 1] <= offset /\ offset < b + Total(data)[p]
  BY <1>3
<1>6. /\ v \in SegmentView /\ v.indexCount <= Len(index)
      /\ data \in Seq(Batch) /\ index \in Seq(IndexEntry)
  <2>1. v \in SegmentView /\ v.indexCount <= Len(index)
    BY <1>0, <1>3, ViewFacts DEF Laid, Fits, Views, View
  <2> QED BY <1>0, <1>3, <2>1 DEF TypeOK
<1>7. p \in 1 .. Len(data)
  <2>1. v.size \in Nat /\ Len(data) \in Nat
    BY <1>6 DEF SegmentView
  <2> HIDE DEF v, data
  <2> QED BY <1>3, <2>1
<1>8. AllPoint(index, data, b) /\ Contiguous(data, b)
  <2>1. data # <<>>
    BY <1>7
  <2> QED BY <1>0, <1>1, <1>3, <2>1, EntriesPoint DEF OnDisk
<1> HIDE DEF v, data, index
<1>9. /\ offset - data[p].base \in 0 .. Count[data[p].id] - 1
      /\ SegmentFetch(data, index, v, offset, 1) # <<>>
      /\ Head(SegmentFetch(data, index, v, offset, 1)) = <<data[p].id, offset - data[p].base>>
  BY <1>2, <1>3, <1>5, <1>6, <1>8, SegmentFinds
<1>10. history[offset + 1] = <<data[p].id, offset - data[p].base>>
  <2> DEFINE k == offset - data[p].base
  <2>1. data[p].base \in Nat
    BY <1>6, <1>7, BatchAt
  <2>2. data[p].base + k = offset
    BY <1>2, <2>1
  <2>3. k \in 0 .. Count[data[p].id] - 1
    BY <1>9
  <2> HIDE DEF k
  <2>4. history[data[p].base + k + 1] = <<data[p].id, k>>
    <3>1. Covers(files, b, data[p].base + k)
      BY <1>3, <2>2
    <3>2. Recorded(files, history) /\ p \in 1 .. Len(files[b]) /\ data = files[b]
      BY <1>1, <1>7 DEF OnDisk, data
    <3> QED BY <1>3, <2>3, <3>1, <3>2 DEF Recorded
  <2> QED BY <2>2, <2>4 DEF k
<1> QED BY <1>4, <1>9, <1>10

\* Every offset below the end of an undamaged log finds its own record, wherever
\* batches, rotations, truncations, crashes and restarts have put it: segment
\* lookup, index search, scan and cut agree with what was written there.
THEOREM FetchFindsRecordHolds == TruncatingSpec => []FetchFindsRecord
BY SoundFinds, SoundHolds, InvariantHolds, PTL
=============================================================================
