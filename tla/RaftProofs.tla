----------------------------- MODULE RaftProofs -----------------------------
(***************************************************************************)
(* Theorems about the quorum of module Raft, for any finite set of voters, *)
(* any values, any files the voters start from, and any bounds: what a     *)
(* voter has said survives a crash (WriteAhead, VotesRemembered,           *)
(* DurableEpochMonotone), an epoch has one leader unless a vote of it was  *)
(* erased (OneLeaderPerEpoch), an epoch and an offset identify an entry    *)
(* (EntryIdentity), only followers copy (OnlyFollowersCopy), a majority    *)
(* stands behind a commit and an answer (CommitBacked, OkBacked), and no   *)
(* client is forgotten (ClientsTracked).                                   *)
(***************************************************************************)
EXTENDS RaftProperties, NaturalSets

-----------------------------------------------------------------------------
(* The operators of the log *)

\* Entry, for any data.
LogEntry(D) == [epoch : Nat, offset : Nat, data : D]

\* The equation the recursive function of Kept satisfies.
KeptStep(f, s, I) ==
    [i \in 0 .. Len(s) |->
        IF i = 0 THEN <<>>
        ELSE IF i \in I THEN Append(f[i - 1], s[i]) ELSE f[i - 1]]

\* The equation has a solution.
LEMMA KeptExists ==
    ASSUME NEW S, NEW s \in Seq(S), NEW I
    PROVE  \E f : f = KeptStep(f, s, I)
<1> DEFINE After(g, i) == IF i = 0 THEN <<>>
                         ELSE IF i \in I THEN Append(g[i - 1], s[i]) ELSE g[i - 1]
           Good(n) == \E f : f = [i \in 0 .. n |-> After(f, i)]
           Bad == {n \in Nat : ~ Good(n)}
<1>1. Bad = {}
  <2>1. SUFFICES ASSUME Bad # {} PROVE FALSE
    OBVIOUS
  <2>2. PICK n \in Bad : \A m \in Bad : n <= m
    <3>1. Bad \subseteq Nat
      OBVIOUS
    <3> HIDE DEF Bad
    <3> QED BY <2>1, <3>1, LeastNat
  <2>3. n # 0
    <3>1. [i \in 0 .. 0 |-> <<>>] = [i \in 0 .. 0 |-> After([j \in 0 .. 0 |-> <<>>], i)]
      OBVIOUS
    <3> QED BY <2>2, <3>1
  <2>4. n - 1 \in Nat /\ Good(n - 1)
    <3>1. n \in Nat /\ n - 1 \in Nat /\ ~ (n <= n - 1)
      BY <2>2, <2>3
    <3>2. n - 1 \notin Bad
      <4> HIDE DEF Bad
      <4> QED BY <2>2, <3>1
    <3> QED BY <3>1, <3>2
  <2>5. PICK f : f = [i \in 0 .. n - 1 |-> After(f, i)]
    BY <2>4
  <2> DEFINE g == [i \in 0 .. n |-> IF i = n THEN After(f, n) ELSE f[i]]
  <2>6. \A i \in 0 .. n : g[i] = After(g, i)
    <3> TAKE i \in 0 .. n
    <3>1. CASE i = n
      BY <3>1, <2>2, <2>3
    <3>2. CASE i # n
      <4>1. i \in 0 .. n - 1
        BY <3>2, <2>2
      <4>2. f[i] = After(f, i)
        BY <4>1, <2>5
      <4>3. i # 0 => i - 1 \in 0 .. n /\ i - 1 # n
        BY <4>1, <2>2
      <4> QED BY <4>1, <4>2, <4>3, <3>2
    <3> QED BY <3>1, <3>2
  <2>7. g = [i \in 0 .. n |-> After(g, i)]
    BY <2>6
  <2> QED BY <2>2, <2>7
<1>2. Good(Len(s))
  BY <1>1
<1> QED BY <1>2 DEF KeptStep

\* Kept satisfies its equation.
LEMMA KeptDef ==
    ASSUME NEW S, NEW s \in Seq(S), NEW I
    PROVE  Kept(s, I) = KeptStep(Kept(s, I), s, I)
<1>1. \E f : f = KeptStep(f, s, I)
  BY KeptExists
<1> QED BY <1>1 DEF Kept, KeptStep

\* Selecting from a log gives a log.
LEMMA KeptType ==
    ASSUME NEW S, NEW s \in Seq(S), NEW I, NEW n \in 0 .. Len(s)
    PROVE  Kept(s, I)[n] \in Seq(S)
<1> DEFINE k == Kept(s, I)
           Bad == {i \in 0 .. Len(s) : k[i] \notin Seq(S)}
<1>1. \A i \in 0 .. Len(s) :
         k[i] = IF i = 0 THEN <<>>
                ELSE IF i \in I THEN Append(k[i - 1], s[i]) ELSE k[i - 1]
  <2>1. k = KeptStep(k, s, I)
    BY KeptDef
  <2> HIDE DEF k
  <2> QED BY <2>1 DEF KeptStep
<1> HIDE DEF k
<1>2. SUFFICES ASSUME Bad # {} PROVE FALSE
  BY DEF k
<1>3. PICK i \in Bad : \A j \in Bad : i <= j
  <2>1. Bad \subseteq Nat
    OBVIOUS
  <2> HIDE DEF Bad
  <2> QED BY <1>2, <2>1, LeastNat
<1>4. i # 0
  <2>1. k[0] = <<>> /\ <<>> \in Seq(S)
    BY <1>1
  <2> QED BY <1>3, <2>1
<1>5. i - 1 \in 0 .. Len(s) /\ k[i - 1] \in Seq(S)
  BY <1>3, <1>4
<1>6. s[i] \in S
  BY <1>3, <1>4
<1>7. k[i] = IF i \in I THEN Append(k[i - 1], s[i]) ELSE k[i - 1]
  BY <1>1, <1>3, <1>4
<1>8. k[i] \in Seq(S)
  BY <1>5, <1>6, <1>7
<1> QED BY <1>3, <1>8

\* entries and truncate keep a log a log.
LEMMA EntriesType ==
    ASSUME NEW S, NEW s \in Seq(S), NEW start, NEW end
    PROVE  Entries(s, start, end) \in Seq(S) /\ Truncate(s, end) \in Seq(S)
BY KeptType DEF Entries, Truncate

\* The last entry gives a natural end offset and a natural epoch.
LEMMA LastType ==
    ASSUME NEW D, NEW s \in Seq(LogEntry(D))
    PROVE  LogEndOffset(s) \in Nat /\ LastEpoch(s) \in Nat
<1>1. CASE s = <<>>
  BY <1>1 DEF LogEndOffset, LastEpoch
<1>2. CASE s # <<>>
  <2>1. Len(s) \in 1 .. Len(s)
    BY <1>2
  <2>2. Last(s) \in LogEntry(D)
    BY <2>1 DEF Last
  <2> QED BY <1>2, <2>2 DEF LogEndOffset, LastEpoch, LogEntry
<1> QED BY <1>1, <1>2

\* What a search from the front of the log finds.
LEMMA SearchType ==
    ASSUME NEW D, NEW s \in Seq(LogEntry(D)), NEW offset, NEW epoch
    PROVE  EpochAt(s, offset) \in Nat \union {Nil} /\ FindEpochStart(s, epoch) \in Nat
<1>1. ASSUME NEW I, I \subseteq 1 .. Len(s), I # {}
      PROVE  s[Min(I)] \in LogEntry(D) /\ Min(I) # 0
  <2>1. I \subseteq Nat
    BY <1>1
  <2>2. Min(I) \in I
    BY <1>1, <2>1, MinNat
  <2>3. Min(I) \in 1 .. Len(s)
    BY <1>1, <2>2
  <2> QED BY <2>3
<1> DEFINE A == {i \in 1 .. Len(s) : s[i].offset = offset}
           B == {i \in 1 .. Len(s) : s[i].epoch = epoch}
<1>2. EpochAt(s, offset) \in Nat \union {Nil}
  <2>1. CASE A = {}
    BY <2>1 DEF EpochAt, SelectInSeq
  <2>2. CASE A # {}
    <3>1. s[Min(A)] \in LogEntry(D) /\ Min(A) # 0
      <4>1. A \subseteq 1 .. Len(s)
        OBVIOUS
      <4> HIDE DEF A
      <4> QED BY <2>2, <1>1, <4>1
    <3> QED BY <2>2, <3>1 DEF EpochAt, SelectInSeq, LogEntry
  <2> QED BY <2>1, <2>2
<1>3. FindEpochStart(s, epoch) \in Nat
  <2>1. CASE B = {}
    BY <2>1 DEF FindEpochStart, SelectInSeq
  <2>2. CASE B # {}
    <3>1. s[Min(B)] \in LogEntry(D) /\ Min(B) # 0
      <4>1. B \subseteq 1 .. Len(s)
        OBVIOUS
      <4> HIDE DEF B
      <4> QED BY <2>2, <1>1, <4>1
    <3> QED BY <2>2, <3>1 DEF FindEpochStart, SelectInSeq, LogEntry
  <2> QED BY <2>1, <2>2
<1> QED BY <1>2, <1>3

-----------------------------------------------------------------------------
(* Type correctness *)

\* What the fields of a received message are.
LEMMA MessageFields ==
    ASSUME NEW m \in Message
    PROVE  /\ m.from \in Voters /\ m.to \in Voters /\ m.epoch \in Nat
           /\ m.type = "VoteResponse" => m.granted \in BOOLEAN
           /\ m.type = "FetchRequest" =>
                 m.fetchOffset \in Nat /\ m.lastFetchedEpoch \in Nat
           /\ m.type = "FetchResponse" => /\ m.highWatermark \in Nat
                                          /\ m.entries \in Seq(Entry)
                                          /\ m.diverging \in Nat \union {Nil}
BY DEF Message, VoteRequest, VoteResponse, BeginQuorumEpoch, EndQuorumEpoch,
       FetchRequest, FetchResponse

\* What the handlers build is a message.
LEMMA MessageTypes ==
    ASSUME NEW a \in Voters, NEW b \in Voters, NEW e \in Nat
    PROVE  /\ \A x, y \in Nat :
                [type |-> "VoteRequest", from |-> a, to |-> b, epoch |-> e,
                 lastLogEpoch |-> x, lastLogOffset |-> y] \in Message
           /\ \A g \in BOOLEAN :
                [type |-> "VoteResponse", from |-> a, to |-> b, epoch |-> e,
                 granted |-> g] \in Message
           /\ [type |-> "BeginQuorumEpoch", from |-> a, to |-> b, epoch |-> e] \in Message
           /\ [type |-> "EndQuorumEpoch", from |-> a, to |-> b, epoch |-> e] \in Message
           /\ \A x, y \in Nat :
                [type |-> "FetchRequest", from |-> a, to |-> b, epoch |-> e,
                 fetchOffset |-> x, lastFetchedEpoch |-> y] \in Message
           /\ \A h \in Nat, s \in Seq(Entry), d \in Nat \union {Nil} :
                [type |-> "FetchResponse", from |-> a, to |-> b, epoch |-> e,
                 highWatermark |-> h, entries |-> s, diverging |-> d] \in Message
BY DEF Message, VoteRequest, VoteResponse, BeginQuorumEpoch, EndQuorumEpoch,
       FetchRequest, FetchResponse

\* The work the handlers return.
LEMMA WorkTypes ==
    /\ NoWork \in Work
    /\ \A p \in BOOLEAN, s \in SUBSET Message, c, r \in SUBSET Values :
         /\ [NoWork EXCEPT !.persist = p] \in Work
         /\ [NoWork EXCEPT !.persist = p, !.send = s] \in Work
         /\ [NoWork EXCEPT !.persist = p, !.reject = r] \in Work
         /\ [NoWork EXCEPT !.send = s] \in Work
         /\ [NoWork EXCEPT !.send = s, !.commit = c] \in Work
         /\ [NoWork EXCEPT !.reject = r] \in Work
    /\ \A a \in Seq(Entry), c \in SUBSET Values :
         /\ [NoWork EXCEPT !.append = a] \in Work
         /\ [NoWork EXCEPT !.append = a, !.commit = c] \in Work
    /\ \A t \in Nat : [NoWork EXCEPT !.truncate = t] \in Work
<1>1. /\ NoWork = [persist |-> FALSE, append |-> <<>>, truncate |-> Nil,
                   send |-> {}, commit |-> {}, reject |-> {}]
      /\ <<>> \in Seq(Entry) /\ {} \in SUBSET Message /\ {} \in SUBSET Values
      /\ Nil \in Nat \union {Nil}
  BY DEF NoWork
<1>2. \A p \in BOOLEAN, s \in SUBSET Message, c, r \in SUBSET Values :
         /\ [NoWork EXCEPT !.persist = p] \in Work
         /\ [NoWork EXCEPT !.persist = p, !.send = s] \in Work
         /\ [NoWork EXCEPT !.persist = p, !.reject = r] \in Work
         /\ [NoWork EXCEPT !.send = s] \in Work
         /\ [NoWork EXCEPT !.send = s, !.commit = c] \in Work
         /\ [NoWork EXCEPT !.reject = r] \in Work
  BY <1>1, ZenonT(30) DEF Work
<1>3. \A a \in Seq(Entry), c \in SUBSET Values :
         /\ [NoWork EXCEPT !.append = a] \in Work
         /\ [NoWork EXCEPT !.append = a, !.commit = c] \in Work
  BY <1>1 DEF Work
<1>4. \A t \in Nat : [NoWork EXCEPT !.truncate = t] \in Work
  BY <1>1 DEF Work
<1>5. NoWork \in Work
  BY <1>1 DEF Work
<1> QED BY <1>2, <1>3, <1>4, <1>5

\* The facts about a voter's log the handlers use.
LEMMA LogFacts ==
    ASSUME TypeOK, NEW n \in Voters
    PROVE  /\ LogEndOffset(log[n]) \in Nat /\ LastEpoch(log[n]) \in Nat
           /\ \A x, y : Entries(log[n], x, y) \in Seq(Entry)
           /\ \A x : Truncate(log[n], x) \in Seq(Entry)
           /\ \A x : EpochAt(log[n], x) \in Nat \union {Nil}
           /\ \A x : FindEpochStart(log[n], x) \in Nat
<1>1. log[n] \in Seq(LogEntry(Values)) /\ Entry = LogEntry(Values)
  BY DEF TypeOK, Entry, LogEntry
<1> QED BY <1>1, LastType, EntriesType, SearchType

\* The messages a voter builds.
LEMMA SendTypes ==
    ASSUME TypeOK, NEW n \in Voters
    PROVE  /\ \A e \in Nat : BeginQuorumEpochs(n, e) \subseteq Message
           /\ \A v \in Voters, e \in Nat, s \in Seq(Entry), d \in Nat \union {Nil} :
                FetchResponseMsg(n, v, e, s, d) \in Message
<1>1. highWatermark[n] \in Nat
  BY DEF TypeOK
<1> QED BY <1>1, MessageTypes DEF BeginQuorumEpochs, FetchResponseMsg, Others

\* What becomes of a voter's work when it handles an event.
LEMMA HandleType ==
    ASSUME TypeOK, NEW n \in Voters, NEW work \in Work, Handle(n, work)
    PROVE  todo' \in [Voters -> Work]
BY DEF TypeOK, Handle

\* The committed and the pending propose ids are values.
LEMMA PendingTypes ==
    ASSUME TypeOK, NEW n \in Voters
    PROVE  /\ PendingIds(n) \subseteq Values
           /\ \A hwm : /\ Committed(n, hwm) \subseteq Nat \X Values
                       /\ {p[2] : p \in Committed(n, hwm)} \subseteq Values
<1>1. pendingProposes[n] \subseteq Nat \X Values
  BY DEF TypeOK
<1> QED BY <1>1 DEF PendingIds, Committed

\* A majority is at most all of the voters.
LEMMA MajorityType ==
    /\ Cardinality(Voters) \in Nat /\ Majority \in Nat
    /\ Voters # {} => Majority <= Cardinality(Voters)
    /\ Majority + Majority > Cardinality(Voters)
<1>1. /\ Cardinality(Voters) \in Nat
      /\ Voters # {} => Cardinality(Voters) # 0
  BY VotersAssumption, FS_CardinalityType, FS_EmptySet
<1> QED BY <1>1 DEF Majority

\* try_advance_high_watermark picks an offset that some voter has reached exactly
\* and a majority has reached or passed.
LEMMA MajorityReached ==
    ASSUME TypeOK, NEW n \in Voters, NEW offsets \in [Voters -> Nat]
    PROVE  LET reached == [offsets EXCEPT ![n] = LogEndOffset(log[n])]
               hwm == MajorityOffset(n, offsets)
           IN  /\ hwm \in Nat
               /\ \E v \in Voters : reached[v] = hwm
               /\ Cardinality({v \in Voters : reached[v] >= hwm}) >= Majority
<1> DEFINE reached == [offsets EXCEPT ![n] = LogEndOffset(log[n])]
           counted(o) == Cardinality({v \in Voters : reached[v] >= o})
           all == {reached[v] : v \in Voters}
           S == {o \in all : counted(o) >= Majority}
<1>1. reached \in [Voters -> Nat]
  BY LogFacts
<1>2. all \subseteq Nat /\ all # {} /\ IsFiniteSet(all)
  <2> HIDE DEF reached
  <2>1. all \subseteq Nat /\ all # {}
    BY <1>1
  <2>2. IsFiniteSet(all)
    <3>1. reached \in Surjection(Voters, all)
      BY <1>1 DEF Surjection
    <3> HIDE DEF all
    <3> QED BY <3>1, VotersAssumption, FS_Surjection
  <2> QED BY <2>1, <2>2
<1>3. PICK o \in all : \A p \in all : o <= p
  <2> HIDE DEF all
  <2> QED BY <1>2, LeastNat
<1>4. {v \in Voters : reached[v] >= o} = Voters
  <2> HIDE DEF reached
  <2> QED BY <1>1, <1>3
<1>5. o \in S
  <2> HIDE DEF reached
  <2>1. counted(o) >= Majority
    BY <1>4, MajorityType
  <2> QED BY <1>3, <2>1
<1>6. S \subseteq Nat /\ IsFiniteSet(S) /\ S # {}
  <2>1. S \subseteq all
    OBVIOUS
  <2> HIDE DEF S, all
  <2> QED BY <1>2, <1>5, <2>1, FS_Subset
<1>7. Max(S) \in Nat /\ Max(S) \in S
  <2> HIDE DEF S
  <2> QED BY <1>6, MaxNat
<1>8. MajorityOffset(n, offsets) = Max(S)
  BY DEF MajorityOffset
<1>9. \A p : p \in S => (\E v \in Voters : reached[v] = p) /\ counted(p) >= Majority
  <2> HIDE DEF reached
  <2> QED OBVIOUS
<1> HIDE DEF S, reached
<1> QED BY <1>7, <1>8, <1>9 DEF reached

LEMMA WatermarkType ==
    ASSUME TypeOK, NEW n \in Voters, NEW offsets \in [Voters -> Nat]
    PROVE  AdvancedHighWatermark(n, offsets) \in Nat
<1>1. highWatermark[n] \in Nat
  BY DEF TypeOK
<1> QED BY <1>1, MajorityReached DEF AdvancedHighWatermark

-----------------------------------------------------------------------------
\* The initial state has the right types.
LEMMA TypeInit == Init => TypeOK
<1>1. NoWork \in Work
  BY WorkTypes
<1> SUFFICES ASSUME Init PROVE TypeOK
  OBVIOUS
<1>2. quorumState \in [Voters -> QuorumState] /\ log \in [Voters -> Seq(Entry)]
  BY InitAssumption DEF Init, QuorumState, Entry
<1>3. currentEpoch \in [Voters -> Nat] /\ votedFor \in [Voters -> Voters \union {Nil}]
  BY InitAssumption DEF Init
<1>4. replies \in [Values -> Replies]
  BY DEF Init, Replies
<1>5. /\ role \in [Voters -> {"Follower", "Candidate", "Leader"}]
      /\ leaderId \in [Voters -> Voters \union {Nil}]
      /\ votesReceived \in [Voters -> SUBSET Voters]
      /\ fetchOffsets \in [Voters -> [Voters -> Nat]]
      /\ highWatermark \in [Voters -> Nat]
  BY DEF Init
<1>6. /\ pendingProposes \in [Voters -> SUBSET (Nat \X Values)]
      /\ waiting \in [Voters -> SUBSET Values]
      /\ msgs \in SUBSET Message /\ erased \in SUBSET (Voters \X Nat)
  BY DEF Init
<1>7. todo \in [Voters -> Work]
  BY <1>1 DEF Init
<1> QED BY <1>2, <1>3, <1>4, <1>5, <1>6, <1>7 DEF TypeOK

\* Every step of an action that answers an event keeps the types.
LEMMA TypeReceive ==
    ASSUME TypeOK, NEW m \in msgs, Receive(m)
    PROVE  TypeOK'
<1> DEFINE n == m.to
<1>0. /\ m \in Message /\ n \in Voters /\ m.from \in Voters /\ m.epoch \in Nat
      /\ m.type = "FetchRequest" => m.fetchOffset \in Nat
      /\ m.type = "FetchResponse" => /\ m.highWatermark \in Nat
                                     /\ m.entries \in Seq(Entry)
                                     /\ m.diverging \in Nat \union {Nil}
  BY MessageFields DEF TypeOK
<1>a. currentEpoch[n] \in Nat /\ highWatermark[n] \in Nat
  BY <1>0 DEF TypeOK
<1>b. \A e \in Nat, g, p \in BOOLEAN : VoteWork(n, m, e, g, p) \in Work
  <2> TAKE e \in Nat, g, p \in BOOLEAN
  <2> DEFINE resp == [type |-> "VoteResponse", from |-> n, to |-> m.from, epoch |-> e,
                      granted |-> g]
  <2>1. resp \in Message
    BY <1>0, MessageTypes
  <2>2. [NoWork EXCEPT !.persist = p, !.send = {resp}] \in Work
    <3> HIDE DEF resp
    <3> QED BY <2>1, WorkTypes
  <2> QED BY <2>2 DEF VoteWork
<1>c. <<>> \in Seq(Entry) /\ Nil \in Nat \union {Nil}
  OBVIOUS
<1>1. CASE VoteRequestNewer(m)
  <2> DEFINE granted == CanVote(Nil, m.from) /\ LogUpToDate(n, m)
  <2>1. VoteWork(n, m, m.epoch, granted, TRUE) \in Work
    BY <1>0, <1>b
  <2>2. todo' \in [Voters -> Work]
    BY <1>0, <1>1, <2>1, HandleType DEF VoteRequestNewer
  <2> HIDE DEF granted
  <2> QED BY <1>0, <1>1, <2>2 DEF TypeOK, VoteRequestNewer
<1>2. CASE VoteRequestCurrent(m)
  <2> DEFINE granted == /\ m.epoch = currentEpoch[n]
                        /\ CanVote(votedFor[n], m.from)
                        /\ LogUpToDate(n, m)
  <2>1. VoteWork(n, m, currentEpoch[n], granted, granted) \in Work
    BY <1>a, <1>b
  <2>2. todo' \in [Voters -> Work]
    BY <1>0, <1>2, <2>1, HandleType DEF VoteRequestCurrent
  <2> QED BY <1>0, <1>2, <2>2 DEF TypeOK, VoteRequestCurrent
<1>3. CASE VoteResponseNewer(m)
  <2>1. todo' \in [Voters -> Work]
    BY <1>0, <1>3, WorkTypes, HandleType DEF VoteResponseNewer
  <2> QED BY <1>0, <1>3, <2>1 DEF TypeOK, VoteResponseNewer, BecomeFollower
<1>4. CASE VoteResponseGranted(m)
  <2>1. BeginQuorumEpochs(n, currentEpoch[n]) \in SUBSET Message
    BY <1>0, <1>a, SendTypes
  <2>2. todo' \in [Voters -> Work]
    <3>1. [NoWork EXCEPT !.send = BeginQuorumEpochs(n, currentEpoch[n])] \in Work
      BY <2>1, WorkTypes
    <3>2. NoWork \in Work
      BY WorkTypes
    <3> QED BY <1>0, <1>4, <3>1, <3>2, HandleType DEF VoteResponseGranted
  <2>3. votesReceived' \in [Voters -> SUBSET Voters]
    BY <1>0, <1>4 DEF TypeOK, VoteResponseGranted
  <2>4. CASE BecomeLeader(n)
    <3>1. /\ role' \in [Voters -> {"Follower", "Candidate", "Leader"}]
          /\ leaderId' \in [Voters -> Voters \union {Nil}]
          /\ fetchOffsets' \in [Voters -> [Voters -> Nat]]
      BY <1>0, <2>4 DEF TypeOK, BecomeLeader
    <3> QED BY <1>4, <2>2, <2>3, <3>1 DEF TypeOK, VoteResponseGranted
  <2>5. CASE UNCHANGED <<role, leaderId, fetchOffsets>>
    BY <1>4, <2>2, <2>3, <2>5 DEF TypeOK, VoteResponseGranted
  <2> QED BY <1>4, <2>4, <2>5 DEF VoteResponseGranted
<1>5. CASE QuorumEpoch(m)
  <2>1. todo' \in [Voters -> Work]
    <3>1. [NoWork EXCEPT !.persist = TRUE, !.reject = PendingIds(n)] \in Work
      BY <1>0, PendingTypes, WorkTypes
    <3> QED BY <1>0, <1>5, <3>1, HandleType DEF QuorumEpoch
  <2>2. erased' \in SUBSET (Voters \X Nat)
    <3>1. <<n, m.epoch>> \in Voters \X Nat
      BY <1>0
    <3>2. erased' = erased \/ erased' = erased \union {<<n, m.epoch>>}
      BY <1>5 DEF QuorumEpoch
    <3> QED BY <3>1, <3>2 DEF TypeOK
  <2>3. /\ currentEpoch' \in [Voters -> Nat]
        /\ votedFor' \in [Voters -> Voters \union {Nil}]
        /\ role' \in [Voters -> {"Follower", "Candidate", "Leader"}]
        /\ leaderId' \in [Voters -> Voters \union {Nil}]
        /\ votesReceived' \in [Voters -> SUBSET Voters]
    BY <1>0, <1>5 DEF TypeOK, QuorumEpoch, BecomeFollower
  <2>4. pendingProposes' \in [Voters -> SUBSET (Nat \X Values)]
    BY <1>0, <1>5 DEF TypeOK, QuorumEpoch
  <2> QED BY <1>5, <2>1, <2>2, <2>3, <2>4 DEF TypeOK, QuorumEpoch
<1>6. CASE FetchRequestNewer(m)
  <2>1. todo' \in [Voters -> Work]
    <3>1. FetchResponseMsg(n, m.from, m.epoch, <<>>, Nil) \in Message
      BY <1>0, <1>c, SendTypes
    <3>2. [NoWork EXCEPT !.persist = TRUE,
              !.send = {FetchResponseMsg(n, m.from, m.epoch, <<>>, Nil)}] \in Work
      BY <3>1, WorkTypes
    <3> QED BY <1>0, <1>6, <3>2, HandleType DEF FetchRequestNewer
  <2> QED BY <1>0, <1>6, <2>1 DEF TypeOK, FetchRequestNewer, BecomeFollower
<1>7. CASE FetchRequestRefused(m)
  <2> DEFINE d == IF Serves(n, m) THEN Divergence(n, m.fetchOffset, m.lastFetchedEpoch)
                                  ELSE Nil
             send == {FetchResponseMsg(n, m.from, currentEpoch[n], <<>>, d)}
  <2>1. todo' \in [Voters -> Work]
    <3>1. d \in Nat \union {Nil}
      BY <1>0, LogFacts DEF Divergence
    <3>2. send \in SUBSET Message
      <4> HIDE DEF d
      <4>1. FetchResponseMsg(n, m.from, currentEpoch[n], <<>>, d) \in Message
        BY <1>0, <1>a, <1>c, <3>1, SendTypes
      <4> QED BY <4>1
    <3>3. [NoWork EXCEPT !.send = send] \in Work
      <4> HIDE DEF send
      <4> QED BY <3>2, WorkTypes
    <3> QED BY <1>0, <1>7, <3>3, HandleType DEF FetchRequestRefused
  <2> QED BY <1>0, <1>7, <2>1 DEF TypeOK, FetchRequestRefused, nodeVars
<1>8. CASE FetchRequestServed(m)
  <2> DEFINE offsets == [fetchOffsets[n] EXCEPT ![m.from] = m.fetchOffset]
             hwm == AdvancedHighWatermark(n, offsets)
             committed == IF hwm = highWatermark[n] THEN {} ELSE Committed(n, hwm)
             entries == Entries(log[n], m.fetchOffset, LogEndOffset(log[n]))
             send == {FetchResponseMsg(n, m.from, currentEpoch[n], entries, Nil)}
             commit == {p[2] : p \in committed}
  <2>1. offsets \in [Voters -> Nat]
    BY <1>0, <1>8 DEF TypeOK, FetchRequestServed
  <2>2. hwm \in Nat
    BY <1>0, <2>1, WatermarkType
  <2>3. commit \in SUBSET Values
    BY <1>0, PendingTypes
  <2>4. send \in SUBSET Message
    <3>1. entries \in Seq(Entry)
      BY <1>0, LogFacts
    <3> HIDE DEF entries
    <3> QED BY <1>0, <1>a, <3>1, SendTypes
  <2>5. todo' \in [Voters -> Work]
    <3>1. [NoWork EXCEPT !.send = send, !.commit = commit] \in Work
      <4> HIDE DEF send, commit
      <4> QED BY <2>3, <2>4, WorkTypes
    <3> QED BY <1>0, <1>8, <3>1, HandleType DEF FetchRequestServed
  <2>6. /\ fetchOffsets' = [fetchOffsets EXCEPT ![n] = offsets]
        /\ highWatermark' = [highWatermark EXCEPT ![n] = hwm]
        /\ pendingProposes' = [pendingProposes EXCEPT ![n] = @ \ committed]
        /\ UNCHANGED <<currentEpoch, votedFor, role, leaderId, votesReceived, log,
                       quorumState, waiting, replies, msgs, erased>>
    BY <1>8 DEF FetchRequestServed
  <2> HIDE DEF offsets, hwm, committed
  <2> QED BY <1>0, <2>1, <2>2, <2>5, <2>6 DEF TypeOK
<1>9. CASE FetchResponseNewer(m)
  <2>1. todo' \in [Voters -> Work]
    <3>1. [NoWork EXCEPT !.persist = TRUE, !.reject = PendingIds(n)] \in Work
      BY <1>0, PendingTypes, WorkTypes
    <3> QED BY <1>0, <1>9, <3>1, HandleType DEF FetchResponseNewer
  <2> QED BY <1>0, <1>9, <2>1 DEF TypeOK, FetchResponseNewer, BecomeFollower
<1>10. CASE FetchResponseDiverging(m)
  <2>1. todo' \in [Voters -> Work]
    <3>1. m.diverging \in Nat
      BY <1>0, <1>10 DEF FetchResponseDiverging
    <3> QED BY <1>0, <1>10, <3>1, WorkTypes, HandleType DEF FetchResponseDiverging
  <2> QED BY <1>0, <1>10, <2>1 DEF TypeOK, FetchResponseDiverging, nodeVars
<1>11. CASE FetchResponseData(m)
  <2> DEFINE higher == m.highWatermark > highWatermark[n]
             hwm == IF higher THEN Min({m.highWatermark, LogEndOffset(log[n])})
                              ELSE highWatermark[n]
             committed == IF higher THEN Committed(n, hwm) ELSE {}
             commit == {p[2] : p \in committed}
  <2>1. hwm \in Nat
    <3>1. m.highWatermark \in Nat /\ LogEndOffset(log[n]) \in Nat
      BY <1>0, <1>11, LogFacts DEF FetchResponseData
    <3>2. {m.highWatermark, LogEndOffset(log[n])} \subseteq Nat
      BY <3>1
    <3>3. Min({m.highWatermark, LogEndOffset(log[n])})
            \in {m.highWatermark, LogEndOffset(log[n])}
      BY <3>2, MinNat
    <3> QED BY <1>a, <3>1, <3>3
  <2>2. commit \in SUBSET Values
    BY <1>0, PendingTypes
  <2>3. todo' \in [Voters -> Work]
    <3>1. m.entries \in Seq(Entry)
      BY <1>0, <1>11 DEF FetchResponseData
    <3>2. [NoWork EXCEPT !.append = m.entries, !.commit = commit] \in Work
      <4> HIDE DEF commit
      <4> QED BY <2>2, <3>1, WorkTypes
    <3> QED BY <1>0, <1>11, <3>2, HandleType DEF FetchResponseData
  <2>4. /\ highWatermark' = [highWatermark EXCEPT ![n] = hwm]
        /\ pendingProposes' = [pendingProposes EXCEPT ![n] = @ \ committed]
        /\ UNCHANGED <<currentEpoch, votedFor, role, leaderId, votesReceived,
                       fetchOffsets, log, quorumState, waiting, replies, msgs, erased>>
    BY <1>11 DEF FetchResponseData
  <2> HIDE DEF hwm, committed
  <2> QED BY <1>0, <2>1, <2>3, <2>4 DEF TypeOK
<1> QED BY <1>1, <1>2, <1>3, <1>4, <1>5, <1>6, <1>7, <1>8, <1>9, <1>10, <1>11
        DEF Receive


\* Every other step of a voter keeps the types.
LEMMA TypeVoter ==
    ASSUME TypeOK, NEW n \in Voters
    PROVE  /\ ElectionTimeout(n) => TypeOK'
           /\ HeartbeatTimeout(n) => TypeOK'
           /\ Run(n) => TypeOK'
           /\ Crash(n) => TypeOK'
           /\ SendEndQuorumEpoch(n) => TypeOK'
           /\ \A value \in Values : Propose(n, value) => TypeOK'
           /\ \A to \in Voters : SendFetchRequest(n, to) => TypeOK'
<1>0. /\ currentEpoch[n] \in Nat /\ currentEpoch[n] + 1 \in Nat
      /\ LogEndOffset(log[n]) \in Nat /\ LastEpoch(log[n]) \in Nat
      /\ todo[n] \in Work /\ log[n] \in Seq(Entry)
  <2>1. LogEndOffset(log[n]) \in Nat /\ LastEpoch(log[n]) \in Nat
    BY LogFacts
  <2> QED BY <2>1 DEF TypeOK
<1>1. ASSUME ElectionTimeout(n) PROVE TypeOK'
  <2> DEFINE epoch == currentEpoch[n] + 1
             requests == {[type |-> "VoteRequest", from |-> n, to |-> v,
                           epoch |-> epoch, lastLogEpoch |-> LastEpoch(log[n]),
                           lastLogOffset |-> LogEndOffset(log[n])] : v \in Others(n)}
  <2>1. /\ requests \in SUBSET Message
        /\ BeginQuorumEpochs(n, epoch) \in SUBSET Message
    <3>1. \A v \in Others(n) :
             [type |-> "VoteRequest", from |-> n, to |-> v, epoch |-> epoch,
              lastLogEpoch |-> LastEpoch(log[n]),
              lastLogOffset |-> LogEndOffset(log[n])] \in Message
      BY <1>0, MessageTypes DEF Others
    <3>2. BeginQuorumEpochs(n, epoch) \in SUBSET Message
      BY <1>0, SendTypes
    <3> QED BY <3>1, <3>2
  <2>2. /\ [NoWork EXCEPT !.persist = TRUE, !.send = requests] \in Work
        /\ [NoWork EXCEPT !.persist = TRUE, !.send = BeginQuorumEpochs(n, epoch)] \in Work
    <3> HIDE DEF requests
    <3> QED BY <2>1, WorkTypes
  <2>3. todo' \in [Voters -> Work]
    BY <1>1, <2>2, HandleType DEF ElectionTimeout
  <2>4. /\ currentEpoch' \in [Voters -> Nat]
        /\ votedFor' \in [Voters -> Voters \union {Nil}]
        /\ votesReceived' \in [Voters -> SUBSET Voters]
    BY <1>0, <1>1 DEF TypeOK, ElectionTimeout
  <2>5. /\ role' \in [Voters -> {"Follower", "Candidate", "Leader"}]
        /\ leaderId' \in [Voters -> Voters \union {Nil}]
        /\ fetchOffsets' \in [Voters -> [Voters -> Nat]]
    <3>1. CASE BecomeLeader(n)
      BY <3>1 DEF TypeOK, BecomeLeader
    <3>2. CASE role' = [role EXCEPT ![n] = "Candidate"] /\ UNCHANGED <<leaderId, fetchOffsets>>
      BY <3>2 DEF TypeOK
    <3> QED BY <1>1, <3>1, <3>2 DEF ElectionTimeout
  <2> QED BY <1>1, <2>3, <2>4, <2>5 DEF TypeOK, ElectionTimeout
<1>2. ASSUME HeartbeatTimeout(n) PROVE TypeOK'
  <2> DEFINE leo == LogEndOffset(log[n])
             push(v) == FetchResponseMsg(n, v, currentEpoch[n],
                                         Entries(log[n], fetchOffsets[n][v], leo), Nil)
             send == {push(v) : v \in Others(n)}
  <2>1. \A v \in Others(n) : push(v) \in Message
    BY <1>0, LogFacts, SendTypes DEF Others
  <2>2. send \in SUBSET Message
    <3> HIDE DEF push
    <3> QED BY <2>1
  <2>3. [NoWork EXCEPT !.send = send] \in Work
    <3> HIDE DEF send
    <3> QED BY <2>2, WorkTypes
  <2>4. todo' \in [Voters -> Work]
    BY <1>2, <2>3, HandleType DEF HeartbeatTimeout
  <2> QED BY <1>2, <2>4 DEF TypeOK, HeartbeatTimeout, nodeVars
<1>3. ASSUME Run(n) PROVE TypeOK'
  <2>1. CASE PersistQuorumState(n)
    <3>1. quorumState' \in [Voters -> QuorumState]
      BY <2>1 DEF TypeOK, PersistQuorumState, QuorumState
    <3>2. todo' \in [Voters -> Work]
      <4>1. [todo[n] EXCEPT !.persist = FALSE] \in Work
        BY <1>0 DEF Work
      <4> QED BY <2>1, <4>1 DEF TypeOK, PersistQuorumState
    <3> QED BY <2>1, <3>1, <3>2 DEF TypeOK, PersistQuorumState, nodeVars
  <2>2. CASE AppendToLog(n)
    <3>1. /\ todo[n].append \in Seq(Entry) /\ todo[n].append # <<>>
          /\ Head(todo[n].append) \in Entry /\ Tail(todo[n].append) \in Seq(Entry)
      <4>1. todo[n].append \in Seq(Entry) /\ todo[n].append # <<>>
        BY <1>0, <2>2 DEF Work, AppendToLog
      <4> QED BY <4>1
    <3>2. log' \in [Voters -> Seq(Entry)]
      BY <1>0, <2>2, <3>1 DEF TypeOK, AppendToLog
    <3>3. todo' \in [Voters -> Work]
      <4>1. [todo[n] EXCEPT !.append = Tail(@)] \in Work
        BY <1>0, <3>1 DEF Work
      <4> QED BY <2>2, <4>1 DEF TypeOK, AppendToLog
    <3> QED BY <2>2, <3>2, <3>3 DEF TypeOK, AppendToLog, nodeVars
  <2>3. CASE TruncateLog(n)
    <3>1. log' \in [Voters -> Seq(Entry)]
      BY <2>3, LogFacts DEF TypeOK, TruncateLog
    <3>2. todo' \in [Voters -> Work]
      <4>1. [todo[n] EXCEPT !.truncate = Nil] \in Work
        BY <1>0 DEF Work
      <4> QED BY <2>3, <4>1 DEF TypeOK, TruncateLog
    <3> QED BY <2>3, <3>1, <3>2 DEF TypeOK, TruncateLog, nodeVars
  <2>4. CASE SecondPass(n)
    <3>1. todo' \in [Voters -> Work]
      BY <2>4, WorkTypes DEF TypeOK, SecondPass
    <3>2. msgs' \in SUBSET Message
      BY <1>0, <2>4 DEF TypeOK, SecondPass, Work
    <3>3. replies' \in [Values -> Replies]
      <4>1. \A value \in Values : Answer(n, value) \in Replies
        BY DEF TypeOK, Answer, Replies
      <4> QED BY <2>4, <4>1 DEF SecondPass
    <3>4. waiting' \in [Voters -> SUBSET Values]
      BY <2>4 DEF TypeOK, SecondPass
    <3> QED BY <2>4, <3>1, <3>2, <3>3, <3>4 DEF TypeOK, SecondPass, nodeVars
  <2> QED BY <1>3, <2>1, <2>2, <2>3, <2>4 DEF Run
<1>4. ASSUME Crash(n) PROVE TypeOK'
  <2>1. todo' \in [Voters -> Work]
    BY <1>4, WorkTypes DEF TypeOK, Crash
  <2>2. replies' \in [Values -> Replies]
    BY <1>4 DEF TypeOK, Crash, Replies
  <2>3. /\ currentEpoch' \in [Voters -> Nat]
        /\ votedFor' \in [Voters -> Voters \union {Nil}]
    <3>1. quorumState[n].currentEpoch \in Nat /\ quorumState[n].votedFor \in Voters \union {Nil}
      BY DEF TypeOK, QuorumState
    <3> QED BY <1>4, <3>1 DEF TypeOK, Crash
  <2>4. /\ role' \in [Voters -> {"Follower", "Candidate", "Leader"}]
        /\ leaderId' \in [Voters -> Voters \union {Nil}]
        /\ votesReceived' \in [Voters -> SUBSET Voters]
        /\ fetchOffsets' \in [Voters -> [Voters -> Nat]]
        /\ highWatermark' \in [Voters -> Nat]
    BY <1>4 DEF TypeOK, Crash
  <2>5. /\ pendingProposes' \in [Voters -> SUBSET (Nat \X Values)]
        /\ waiting' \in [Voters -> SUBSET Values]
    BY <1>4 DEF TypeOK, Crash
  <2> QED BY <1>4, <2>1, <2>2, <2>3, <2>4, <2>5 DEF TypeOK, Crash
<1>5. ASSUME SendEndQuorumEpoch(n) PROVE TypeOK'
  <2>1. msgs' \in SUBSET Message
    <3>1. \A v \in Others(n) : [type |-> "EndQuorumEpoch", from |-> n, to |-> v,
                                epoch |-> currentEpoch[n]] \in Message
      BY <1>0, MessageTypes DEF Others
    <3> QED BY <1>5, <3>1 DEF TypeOK, SendEndQuorumEpoch
  <2> QED BY <1>5, <2>1 DEF TypeOK, SendEndQuorumEpoch, nodeVars
<1>6. ASSUME NEW value \in Values, Propose(n, value) PROVE TypeOK'
  <2> DEFINE entry == [epoch |-> currentEpoch[n], offset |-> LogEndOffset(log[n]),
                       data |-> value]
  <2>1. entry \in Entry /\ <<entry>> \in Seq(Entry) /\ {value} \in SUBSET Values
    BY <1>0 DEF Entry
  <2>2. /\ [NoWork EXCEPT !.append = <<entry>>] \in Work
        /\ [NoWork EXCEPT !.reject = {value}] \in Work
    <3> HIDE DEF entry
    <3> QED BY <2>1, WorkTypes
  <2>3. todo' \in [Voters -> Work]
    BY <1>6, <2>2, HandleType DEF Propose
  <2>4. pendingProposes' \in [Voters -> SUBSET (Nat \X Values)]
    <3> DEFINE pending == <<entry.offset, value>>
    <3>1. pending \in Nat \X Values
      BY <1>0
    <3>2. pendingProposes \in [Voters -> SUBSET (Nat \X Values)]
      BY DEF TypeOK
    <3>3. \/ pendingProposes' = pendingProposes
          \/ pendingProposes' = [pendingProposes EXCEPT ![n] = @ \union {pending}]
      BY <1>6 DEF Propose
    <3> HIDE DEF pending
    <3> QED BY <3>1, <3>2, <3>3
  <2>5. replies' \in [Values -> Replies] /\ waiting' \in [Voters -> SUBSET Values]
    BY <1>6 DEF TypeOK, Propose, Replies
  <2> QED BY <1>6, <2>3, <2>4, <2>5 DEF TypeOK, Propose
<1>7. ASSUME NEW to \in Voters, SendFetchRequest(n, to) PROVE TypeOK'
  <2>1. msgs' \in SUBSET Message
    <3>1. [type |-> "FetchRequest", from |-> n, to |-> to, epoch |-> currentEpoch[n],
           fetchOffset |-> LogEndOffset(log[n]),
           lastFetchedEpoch |-> LastEpoch(log[n])] \in Message
      BY <1>0, MessageTypes
    <3> QED BY <1>7, <3>1 DEF TypeOK, SendFetchRequest
  <2> QED BY <1>7, <2>1 DEF TypeOK, SendFetchRequest, nodeVars
<1> QED BY <1>1, <1>2, <1>3, <1>4, <1>5, <1>6, <1>7

\* Every state the quorum reaches has the right types: no handler reads a field
\* that is not there or stores an offset that is not a number, whatever arrives.
THEOREM TypeCorrect == Spec => []TypeOK
<1>1. TypeOK /\ [Next]_vars => TypeOK'
  <2> SUFFICES ASSUME TypeOK, [Next]_vars PROVE TypeOK'
    OBVIOUS
  <2>1. CASE Next
    BY <2>1, TypeReceive, TypeVoter DEF Next
  <2>2. CASE UNCHANGED vars
    BY <2>2 DEF TypeOK, vars, nodeVars
  <2> QED BY <2>1, <2>2
<1> QED BY <1>1, TypeInit, PTL DEF Spec

-----------------------------------------------------------------------------
(* Elections: every step of the quorum is one of six kinds, as far as they  *)
(* are concerned; the inductive invariant ElectionInv is shown to survive   *)
(* each kind.                                                               *)

IsGrant(m) == m.type = "VoteResponse" /\ m.granted
IsBegin(m) == m.type = "BeginQuorumEpoch"

\* v will not vote for another candidate than c in the epoch: by what it has in
\* memory, and by what it will have after a crash.
VoteHeld(v, c, epoch) ==
    \/ currentEpoch[v] > epoch
    \/ currentEpoch[v] = epoch /\ votedFor[v] = c
    \/ <<v, epoch>> \in erased
VoteStored(v, c, epoch) ==
    \/ quorumState[v].currentEpoch > epoch
    \/ quorumState[v].currentEpoch = epoch /\ quorumState[v].votedFor = c
    \/ <<v, epoch>> \in erased

\* v has voted for c in the epoch, for itself included.
Backs(v, c, epoch) ==
    \/ Granted(v, c, epoch)
    \/ v = c /\ Announced(c, epoch)
    \/ v = c /\ role[c] # "Follower" /\ currentEpoch[c] = epoch

\* The file is never ahead of the memory, and equals it unless a write is due.
DiskBehind ==
    \A n \in Voters :
        /\ quorumState[n].currentEpoch <= currentEpoch[n]
        /\ ~ todo[n].persist => /\ quorumState[n].currentEpoch = currentEpoch[n]
                                /\ quorumState[n].votedFor = votedFor[n]

\* What a voter is about to send is its own, of its own epoch, grants the vote
\* it has in memory and announces a leadership it has.
SendsOwn ==
    \A n \in Voters : \A m \in todo[n].send :
        /\ m.from = n
        /\ m.epoch = currentEpoch[n]
        /\ IsGrant(m) => votedFor[n] = m.to
        /\ IsBegin(m) => role[n] = "Leader"

\* A vote that was sent, and the one a leader that announced itself cast for
\* itself, is held in memory and on disk.
VotesKept ==
    \A m \in msgs :
        /\ IsGrant(m) => /\ VoteHeld(m.from, m.to, m.epoch)
                         /\ VoteStored(m.from, m.to, m.epoch)
        /\ IsBegin(m) => /\ VoteHeld(m.from, m.from, m.epoch)
                         /\ VoteStored(m.from, m.from, m.epoch)

\* A candidate and a leader voted for themselves, count votes they were sent,
\* and a leader counts a majority of them.
VotesCounted ==
    \A n \in Voters : role[n] # "Follower" =>
        /\ votedFor[n] = n
        /\ \A v \in votesReceived[n] : v = n \/ Granted(v, n, currentEpoch[n])
        /\ role[n] = "Leader" => Cardinality(votesReceived[n]) >= Majority

\* A leadership that was announced had a majority.
AnnouncedBacked ==
    \A m \in msgs : IsBegin(m) =>
        \E Q \in SUBSET Voters :
            /\ Cardinality(Q) >= Majority
            /\ \A v \in Q : v = m.from \/ Granted(v, m.from, m.epoch)

\* Nobody has backed two candidates in an epoch without erasing a vote.
OneVote ==
    \A v, c, d \in Voters, epoch \in Nat :
        Backs(v, c, epoch) /\ Backs(v, d, epoch) => c = d \/ <<v, epoch>> \in erased

ElectionInv ==
    /\ TypeOK
    /\ DiskBehind
    /\ SendsOwn
    /\ WriteAhead
    /\ VotesKept
    /\ VotesCounted
    /\ AnnouncedBacked
    /\ OneVote

-----------------------------------------------------------------------------
(* The kinds of steps *)

\* Nothing of this concerns the other voters.
OthersSame(n) ==
    \A k \in Voters \ {n} :
        /\ currentEpoch'[k] = currentEpoch[k] /\ votedFor'[k] = votedFor[k]
        /\ role'[k] = role[k] /\ votesReceived'[k] = votesReceived[k]
        /\ quorumState'[k] = quorumState[k] /\ todo'[k] = todo[k]

BallotSame(n) ==
    /\ currentEpoch'[n] = currentEpoch[n] /\ votedFor'[n] = votedFor[n]
    /\ role'[n] = role[n] /\ votesReceived'[n] = votesReceived[n]

\* n handles an event: memory changes, disk and network do not.
Handles(n) ==
    /\ OthersSame(n)
    /\ ~ todo[n].persist
    /\ UNCHANGED <<quorumState, msgs>>
    /\ erased \subseteq erased'
    /\ currentEpoch'[n] >= currentEpoch[n]
    /\ ~ todo'[n].persist => /\ currentEpoch'[n] = currentEpoch[n]
                             /\ votedFor'[n] = votedFor[n]
    /\ currentEpoch'[n] = currentEpoch[n] =>
          \/ votedFor[n] \in {Nil, votedFor'[n]}
          \/ <<n, currentEpoch[n]>> \in erased'
    /\ \A m \in todo'[n].send :
          /\ m.from = n
          /\ m.epoch = currentEpoch'[n]
          /\ IsGrant(m) => votedFor'[n] = m.to
          /\ IsBegin(m) => role'[n] = "Leader"
    /\ role'[n] # "Follower" =>
          /\ votedFor'[n] = n
          /\ \A v \in votesReceived'[n] : v = n \/ Granted(v, n, currentEpoch'[n])
          /\ role'[n] = "Leader" => Cardinality(votesReceived'[n]) >= Majority

\* n writes its quorum-state file.
Persists(n) ==
    /\ OthersSame(n) /\ BallotSame(n)
    /\ UNCHANGED <<msgs, erased>>
    /\ quorumState'[n].currentEpoch = currentEpoch[n]
    /\ quorumState'[n].votedFor = votedFor[n]
    /\ todo'[n].send = todo[n].send

\* n writes its log.
Logs(n) ==
    /\ OthersSame(n) /\ BallotSame(n)
    /\ UNCHANGED <<msgs, erased, quorumState>>
    /\ todo'[n].send = todo[n].send
    /\ todo'[n].persist = todo[n].persist

\* n sends what it has to send.
Flushes(n) ==
    /\ OthersSame(n) /\ BallotSame(n)
    /\ UNCHANGED <<erased, quorumState>>
    /\ ~ todo[n].persist /\ ~ todo'[n].persist
    /\ msgs' = msgs \union todo[n].send
    /\ todo'[n].send = {}

\* The embedder of n sends a message that is neither a vote nor an announcement.
Speaks(n) ==
    /\ OthersSame(n) /\ BallotSame(n)
    /\ UNCHANGED <<todo, erased, quorumState>>
    /\ ~ todo[n].persist
    /\ msgs \subseteq msgs'
    /\ \A m \in msgs' \ msgs : /\ m.from = n /\ m.epoch = currentEpoch[n]
                               /\ ~ IsGrant(m) /\ ~ IsBegin(m)

\* n crashes and comes back.
Restarts(n) ==
    /\ OthersSame(n)
    /\ UNCHANGED <<msgs, erased, quorumState>>
    /\ currentEpoch'[n] = quorumState[n].currentEpoch
    /\ votedFor'[n] = quorumState[n].votedFor
    /\ role'[n] = "Follower"
    /\ ~ todo'[n].persist /\ todo'[n].send = {}

Kind(n) == Handles(n) \/ Persists(n) \/ Logs(n) \/ Flushes(n) \/ Speaks(n) \/ Restarts(n)

-----------------------------------------------------------------------------
(* Every step is of one of the kinds. *)

\* A response without data, or with it, is neither a vote nor an announcement.
LEMMA FetchResponseKind ==
    ASSUME NEW n, NEW to, NEW e, NEW s, NEW d
    PROVE  LET m == FetchResponseMsg(n, to, e, s, d)
           IN  m.from = n /\ m.epoch = e /\ ~ IsGrant(m) /\ ~ IsBegin(m)
BY DEF FetchResponseMsg, IsGrant, IsBegin

\* An idle voter has written its file and has nothing to send.
LEMMA IdleFacts ==
    ASSUME NEW n \in Voters, NEW work, TypeOK, Handle(n, work)
    PROVE  /\ ~ todo[n].persist /\ todo[n].send = {}
           /\ todo'[n] = work
           /\ \A k \in Voters \ {n} : todo'[k] = todo[k]
BY DEF TypeOK, Handle, Idle, NoWork

\* Handlers that change nothing an election depends on.
LEMMA QuietHandles ==
    ASSUME ElectionInv, NEW n \in Voters,
           UNCHANGED <<currentEpoch, votedFor, role, votesReceived, quorumState, msgs,
                       erased>>,
           NEW work, Handle(n, work), ~ work.persist,
           \A m \in work.send : /\ m.from = n /\ m.epoch = currentEpoch[n]
                                /\ ~ IsGrant(m) /\ ~ IsBegin(m)
    PROVE  Handles(n)
<1>1. /\ ~ todo[n].persist /\ todo'[n] = work
      /\ \A k \in Voters \ {n} : todo'[k] = todo[k]
  BY IdleFacts DEF ElectionInv
<1>2. currentEpoch[n] \in Nat
  BY DEF ElectionInv, TypeOK
<1>3. role[n] # "Follower" =>
          /\ votedFor[n] = n
          /\ \A v \in votesReceived[n] : v = n \/ Granted(v, n, currentEpoch[n])
          /\ role[n] = "Leader" => Cardinality(votesReceived[n]) >= Majority
  BY DEF ElectionInv, VotesCounted
<1>4. OthersSame(n)
  BY <1>1 DEF OthersSame
<1> QED BY <1>1, <1>2, <1>3, <1>4 DEF Handles

\* Handlers that make the voter a follower of a newer epoch, or of its own epoch
\* when it erases the vote it has in it.
LEMMA StepDownHandles ==
    ASSUME ElectionInv, NEW n \in Voters, NEW epoch \in Nat, NEW leader,
           BecomeFollower(n, epoch, leader),
           UNCHANGED <<quorumState, msgs>>, erased \subseteq erased',
           \/ epoch > currentEpoch[n]
           \/ epoch = currentEpoch[n]
                /\ (votedFor[n] = Nil \/ <<n, currentEpoch[n]>> \in erased'),
           NEW work, Handle(n, work), work.persist,
           \A m \in work.send : /\ m.from = n /\ m.epoch = epoch
                                /\ ~ IsGrant(m) /\ ~ IsBegin(m)
    PROVE  Handles(n)
<1>1. /\ ~ todo[n].persist /\ todo'[n] = work
      /\ \A k \in Voters \ {n} : todo'[k] = todo[k]
  BY IdleFacts DEF ElectionInv
<1>2. /\ currentEpoch \in [Voters -> Nat] /\ DOMAIN votedFor = Voters
      /\ DOMAIN role = Voters /\ DOMAIN votesReceived = Voters
  BY DEF ElectionInv, TypeOK
<1>3. /\ currentEpoch'[n] = epoch /\ votedFor'[n] = Nil /\ role'[n] = "Follower"
      /\ OthersSame(n)
  BY <1>1, <1>2 DEF BecomeFollower, OthersSame
<1> QED BY <1>1, <1>2, <1>3 DEF Handles


\* The steps that handle a message.
LEMMA ReceiveKind ==
    ASSUME ElectionInv, NEW m \in msgs, Receive(m)
    PROVE  Handles(m.to)
<1> DEFINE n == m.to
<1>0. /\ n \in Voters /\ m.from \in Voters /\ m.epoch \in Nat
      /\ currentEpoch \in [Voters -> Nat] /\ votedFor \in [Voters -> Voters \union {Nil}]
      /\ DOMAIN role = Voters /\ votesReceived \in [Voters -> SUBSET Voters]
      /\ TypeOK
  BY MessageFields DEF ElectionInv, TypeOK
<1>a. role[n] # "Follower" =>
          /\ votedFor[n] = n
          /\ \A v \in votesReceived[n] : v = n \/ Granted(v, n, currentEpoch[n])
          /\ role[n] = "Leader" => Cardinality(votesReceived[n]) >= Majority
  BY <1>0 DEF ElectionInv, VotesCounted
<1>1. CASE VoteRequestNewer(m)
  <2> DEFINE granted == CanVote(Nil, m.from) /\ LogUpToDate(n, m)
             work == VoteWork(n, m, m.epoch, granted, TRUE)
  <2>1. Handle(n, work)
    BY <1>1 DEF VoteRequestNewer
  <2>2. /\ ~ todo[n].persist /\ todo'[n] = work
        /\ \A k \in Voters \ {n} : todo'[k] = todo[k]
    <3> HIDE DEF work
    <3> QED BY <1>0, <2>1, IdleFacts
  <2>3. /\ todo'[n].persist
        /\ \A x \in todo'[n].send :
              /\ x.from = n /\ x.to = m.from /\ x.epoch = m.epoch
              /\ IsGrant(x) => granted
              /\ ~ IsBegin(x)
    <3>1. /\ work.persist = TRUE
          /\ \A x \in work.send : /\ x.from = n /\ x.to = m.from /\ x.epoch = m.epoch
                                  /\ x.granted = granted /\ ~ IsBegin(x)
      <4> HIDE DEF granted
      <4> QED BY DEF VoteWork, NoWork, IsBegin
    <3> HIDE DEF granted, work
    <3> QED BY <2>2, <3>1, Zenon DEF IsGrant
  <2>4. /\ currentEpoch'[n] = m.epoch /\ m.epoch > currentEpoch[n]
        /\ role'[n] = "Follower"
        /\ granted => votedFor'[n] = m.from
        /\ UNCHANGED <<quorumState, msgs, erased>>
    BY <1>0, <1>1 DEF VoteRequestNewer
  <2>5. OthersSame(n)
    BY <1>0, <1>1, <2>2 DEF VoteRequestNewer, OthersSame
  <2> HIDE DEF granted
  <2>6. \A x \in todo'[n].send :
          /\ x.from = n /\ x.epoch = currentEpoch'[n]
          /\ IsGrant(x) => votedFor'[n] = x.to
          /\ ~ IsBegin(x)
    BY <2>3, <2>4
  <2>7. currentEpoch'[n] > currentEpoch[n] /\ currentEpoch[n] \in Nat /\ currentEpoch'[n] \in Nat
    BY <1>0, <2>4
  <2> HIDE DEF work
  <2> QED BY <2>2, <2>3, <2>4, <2>5, <2>6, <2>7 DEF Handles
<1>2. CASE VoteRequestCurrent(m)
  <2> DEFINE granted == /\ m.epoch = currentEpoch[n]
                        /\ CanVote(votedFor[n], m.from)
                        /\ LogUpToDate(n, m)
             work == VoteWork(n, m, currentEpoch[n], granted, granted)
  <2>1. Handle(n, work)
    BY <1>2 DEF VoteRequestCurrent
  <2>2. /\ ~ todo[n].persist /\ todo'[n] = work
        /\ \A k \in Voters \ {n} : todo'[k] = todo[k]
    <3> HIDE DEF work
    <3> QED BY <1>0, <2>1, IdleFacts
  <2>3. /\ todo'[n].persist <=> granted
        /\ \A x \in todo'[n].send :
              /\ x.from = n /\ x.to = m.from /\ x.epoch = currentEpoch[n]
              /\ IsGrant(x) => granted
              /\ ~ IsBegin(x)
    <3>1. /\ work.persist = granted
          /\ \A x \in work.send : /\ x.from = n /\ x.to = m.from
                                  /\ x.epoch = currentEpoch[n]
                                  /\ x.granted = granted /\ ~ IsBegin(x)
      <4> HIDE DEF granted
      <4> QED BY DEF VoteWork, NoWork, IsBegin
    <3> HIDE DEF granted, work
    <3> QED BY <2>2, <3>1, Zenon DEF IsGrant
  <2>4. /\ votedFor'[n] = IF granted THEN m.from ELSE votedFor[n]
        /\ UNCHANGED <<currentEpoch, role, votesReceived, quorumState, msgs, erased>>
    BY <1>0, <1>2 DEF VoteRequestCurrent
  <2>5. granted => votedFor[n] \in {Nil, m.from}
    BY DEF CanVote
  <2>6. OthersSame(n)
    BY <1>0, <1>2, <2>2 DEF VoteRequestCurrent, OthersSame
  <2>7. role[n] # "Follower" => votedFor'[n] = n
    BY <1>0, <1>a, <2>4, <2>5, VotersAssumption
  <2> HIDE DEF granted
  <2> QED BY <1>0, <1>a, <2>2, <2>3, <2>4, <2>5, <2>6, <2>7 DEF Handles
<1>3. CASE VoteResponseNewer(m)
  <2> DEFINE work == [NoWork EXCEPT !.persist = TRUE]
  <2>1. work.persist /\ work.send = {} /\ Handle(n, work)
    BY <1>3 DEF VoteResponseNewer, NoWork
  <2>2. /\ m.epoch > currentEpoch[n] /\ UNCHANGED <<quorumState, msgs, erased>>
        /\ BecomeFollower(n, m.epoch, Nil)
    BY <1>3 DEF VoteResponseNewer
  <2> HIDE DEF work
  <2> QED BY <1>0, <2>1, <2>2, StepDownHandles
<1>4. CASE VoteResponseGranted(m)
  <2> DEFINE votes == votesReceived[n] \union {m.from}
             begins == [NoWork EXCEPT !.send = BeginQuorumEpochs(n, currentEpoch[n])]
  <2>1. Granted(m.from, n, currentEpoch[n])
    <3>1. m = [type |-> "VoteResponse", from |-> m.from, to |-> n,
               epoch |-> currentEpoch[n], granted |-> TRUE]
      <4>1. m \in VoteResponse
        BY <1>0, <1>4 DEF TypeOK, VoteResponseGranted, Message, VoteRequest, VoteResponse,
           BeginQuorumEpoch, EndQuorumEpoch, FetchRequest, FetchResponse
      <4>2. m.type = "VoteResponse" /\ m.granted /\ m.epoch = currentEpoch[n]
        BY <1>4 DEF VoteResponseGranted, CountsVote
      <4> QED BY <4>1, <4>2 DEF VoteResponse
    <3> QED BY <3>1 DEF Granted
  <2>2. /\ votesReceived'[n] = votes
        /\ UNCHANGED <<currentEpoch, votedFor, quorumState, msgs, erased>>
        /\ role[n] = "Candidate"
    BY <1>0, <1>4 DEF VoteResponseGranted, CountsVote
  <2>3. \A v \in votes : v = n \/ Granted(v, n, currentEpoch[n])
    BY <1>a, <2>1, <2>2
  <2>4. CASE Cardinality(votes) >= Majority
    <3>1. Handle(n, begins) /\ role' = [role EXCEPT ![n] = "Leader"]
      BY <1>4, <2>4 DEF VoteResponseGranted, BecomeLeader
    <3>2. /\ ~ todo[n].persist /\ todo'[n] = begins
          /\ \A k \in Voters \ {n} : todo'[k] = todo[k]
      <4> HIDE DEF begins
      <4> QED BY <1>0, <3>1, IdleFacts
    <3>3. /\ ~ todo'[n].persist
          /\ \A r \in todo'[n].send : r.from = n /\ r.epoch = currentEpoch[n] /\ ~ IsGrant(r)
      BY <3>2 DEF NoWork, BeginQuorumEpochs, IsGrant
    <3>4. OthersSame(n)
      BY <1>0, <1>4, <3>1, <3>2 DEF VoteResponseGranted, OthersSame
    <3>5. role'[n] = "Leader"
      BY <1>0, <3>1
    <3> QED BY <1>0, <1>a, <2>2, <2>3, <2>4, <3>2, <3>3, <3>4, <3>5 DEF Handles
  <2>5. CASE ~ (Cardinality(votes) >= Majority)
    <3>1. Handle(n, NoWork) /\ UNCHANGED role
      BY <1>4, <2>5 DEF VoteResponseGranted
    <3>2. /\ ~ todo[n].persist /\ todo'[n] = NoWork
          /\ \A k \in Voters \ {n} : todo'[k] = todo[k]
      BY <1>0, <3>1, IdleFacts
    <3>3. ~ todo'[n].persist /\ todo'[n].send = {}
      BY <3>2 DEF NoWork
    <3>4. OthersSame(n)
      BY <1>0, <1>4, <3>1, <3>2 DEF VoteResponseGranted, OthersSame
    <3> QED BY <1>0, <1>a, <2>2, <2>3, <3>1, <3>2, <3>3, <3>4 DEF Handles
  <2> QED BY <2>4, <2>5
<1>5. CASE QuorumEpoch(m)
  <2> DEFINE work == [NoWork EXCEPT !.persist = TRUE, !.reject = PendingIds(n)]
  <2>1. work.persist /\ work.send = {} /\ Handle(n, work)
    BY <1>5 DEF QuorumEpoch, NoWork
  <2>2. /\ m.epoch >= currentEpoch[n] /\ UNCHANGED <<quorumState, msgs>>
        /\ erased \subseteq erased'
        /\ m.epoch = currentEpoch[n] =>
               votedFor[n] = Nil \/ <<n, currentEpoch[n]>> \in erased'
    BY <1>5 DEF QuorumEpoch, AcceptsEpoch
  <2>3. \E leader : BecomeFollower(n, m.epoch, leader)
    BY <1>5 DEF QuorumEpoch
  <2>4. m.epoch > currentEpoch[n] \/ m.epoch = currentEpoch[n]
    BY <1>0, <2>2
  <2> HIDE DEF work
  <2> QED BY <1>0, <2>1, <2>2, <2>3, <2>4, StepDownHandles
<1>6. CASE FetchRequestNewer(m)
  <2> DEFINE resp == FetchResponseMsg(n, m.from, m.epoch, <<>>, Nil)
             work == [NoWork EXCEPT !.persist = TRUE, !.send = {resp}]
  <2>1. work.persist /\ work.send = {resp} /\ Handle(n, work)
    BY <1>6 DEF FetchRequestNewer, NoWork
  <2>2. resp.from = n /\ resp.epoch = m.epoch /\ ~ IsGrant(resp) /\ ~ IsBegin(resp)
    BY FetchResponseKind
  <2>3. /\ m.epoch > currentEpoch[n] /\ UNCHANGED <<quorumState, msgs, erased>>
        /\ BecomeFollower(n, m.epoch, Nil)
    BY <1>6 DEF FetchRequestNewer
  <2> HIDE DEF work, resp
  <2> QED BY <1>0, <2>1, <2>2, <2>3, StepDownHandles, ZenonT(30)
<1>7. CASE FetchRequestRefused(m)
  <2> DEFINE d == IF Serves(n, m) THEN Divergence(n, m.fetchOffset, m.lastFetchedEpoch)
                                  ELSE Nil
             resp == FetchResponseMsg(n, m.from, currentEpoch[n], <<>>, d)
             work == [NoWork EXCEPT !.send = {resp}]
  <2>1. ~ work.persist /\ work.send = {resp} /\ Handle(n, work)
    BY <1>7 DEF FetchRequestRefused, NoWork
  <2>2. resp.from = n /\ resp.epoch = currentEpoch[n] /\ ~ IsGrant(resp) /\ ~ IsBegin(resp)
    BY FetchResponseKind
  <2>3. UNCHANGED <<currentEpoch, votedFor, role, votesReceived, quorumState, msgs, erased>>
    BY <1>7 DEF FetchRequestRefused, nodeVars
  <2> HIDE DEF work, resp
  <2> QED BY <1>0, <2>1, <2>2, <2>3, QuietHandles
<1>8. CASE FetchRequestServed(m)
  <2>1. PICK s, c : Handle(n, [NoWork EXCEPT
              !.send = {FetchResponseMsg(n, m.from, currentEpoch[n], s, Nil)}, !.commit = c])
    BY <1>8 DEF FetchRequestServed
  <2> DEFINE resp == FetchResponseMsg(n, m.from, currentEpoch[n], s, Nil)
             work == [NoWork EXCEPT !.send = {resp}, !.commit = c]
  <2>2. ~ work.persist /\ work.send = {resp} /\ Handle(n, work)
    BY <2>1 DEF NoWork
  <2>3. resp.from = n /\ resp.epoch = currentEpoch[n] /\ ~ IsGrant(resp) /\ ~ IsBegin(resp)
    BY FetchResponseKind
  <2>4. UNCHANGED <<currentEpoch, votedFor, role, votesReceived, quorumState, msgs, erased>>
    BY <1>8 DEF FetchRequestServed
  <2> HIDE DEF work, resp
  <2> QED BY <1>0, <2>2, <2>3, <2>4, QuietHandles
<1>9. CASE FetchResponseNewer(m)
  <2> DEFINE work == [NoWork EXCEPT !.persist = TRUE, !.reject = PendingIds(n)]
  <2>1. work.persist /\ work.send = {} /\ Handle(n, work)
    BY <1>9 DEF FetchResponseNewer, NoWork
  <2>2. /\ m.epoch > currentEpoch[n] /\ UNCHANGED <<quorumState, msgs, erased>>
        /\ BecomeFollower(n, m.epoch, Nil)
    BY <1>9 DEF FetchResponseNewer
  <2> HIDE DEF work
  <2> QED BY <1>0, <2>1, <2>2, StepDownHandles
<1>10. CASE FetchResponseDiverging(m)
  <2> DEFINE work == [NoWork EXCEPT !.truncate = m.diverging]
  <2>1. ~ work.persist /\ work.send = {} /\ Handle(n, work)
    BY <1>10 DEF FetchResponseDiverging, NoWork
  <2>2. UNCHANGED <<currentEpoch, votedFor, role, votesReceived, quorumState, msgs, erased>>
    BY <1>10 DEF FetchResponseDiverging, nodeVars
  <2> HIDE DEF work
  <2> QED BY <1>0, <2>1, <2>2, QuietHandles
<1>11. CASE FetchResponseData(m)
  <2>1. PICK c : Handle(n, [NoWork EXCEPT !.append = m.entries, !.commit = c])
    BY <1>11 DEF FetchResponseData
  <2> DEFINE work == [NoWork EXCEPT !.append = m.entries, !.commit = c]
  <2>2. ~ work.persist /\ work.send = {} /\ Handle(n, work)
    BY <2>1 DEF NoWork
  <2>3. UNCHANGED <<currentEpoch, votedFor, role, votesReceived, quorumState, msgs, erased>>
    BY <1>11 DEF FetchResponseData
  <2> HIDE DEF work
  <2> QED BY <1>0, <2>2, <2>3, QuietHandles
<1> QED BY <1>1, <1>2, <1>3, <1>4, <1>5, <1>6, <1>7, <1>8, <1>9, <1>10, <1>11
        DEF Receive


\* The other steps of a voter.
LEMMA VoterKind ==
    ASSUME ElectionInv, NEW n \in Voters
    PROVE  /\ ElectionTimeout(n) => Kind(n)
           /\ HeartbeatTimeout(n) => Kind(n)
           /\ Run(n) => Kind(n)
           /\ Crash(n) => Kind(n)
           /\ SendEndQuorumEpoch(n) => Kind(n)
           /\ \A value \in Values : Propose(n, value) => Kind(n)
           /\ \A to \in Voters : SendFetchRequest(n, to) => Kind(n)
<1>0. /\ TypeOK
      /\ currentEpoch \in [Voters -> Nat] /\ DOMAIN votedFor = Voters
      /\ DOMAIN role = Voters /\ DOMAIN votesReceived = Voters
      /\ quorumState \in [Voters -> QuorumState]
      /\ todo \in [Voters -> Work]
  BY DEF ElectionInv, TypeOK
<1>1. ASSUME ElectionTimeout(n) PROVE Handles(n)
  <2> DEFINE epoch == currentEpoch[n] + 1
  <2>1. PICK send : /\ Handle(n, [NoWork EXCEPT !.persist = TRUE, !.send = send])
                    /\ \/ /\ send = BeginQuorumEpochs(n, epoch)
                          /\ Majority <= 1
                          /\ role' = [role EXCEPT ![n] = "Leader"]
                       \/ /\ \A m \in send : /\ m.from = n /\ m.epoch = epoch
                                             /\ m.type = "VoteRequest"
                          /\ role' = [role EXCEPT ![n] = "Candidate"]
    <3>1. CASE Majority <= 1
      BY <1>1, <3>1 DEF ElectionTimeout, BecomeLeader
    <3>2. CASE ~ (Majority <= 1)
      <4> DEFINE requests == {[type |-> "VoteRequest", from |-> n, to |-> v,
                               epoch |-> epoch, lastLogEpoch |-> LastEpoch(log[n]),
                               lastLogOffset |-> LogEndOffset(log[n])] : v \in Others(n)}
      <4>1. \A m \in requests : m.from = n /\ m.epoch = epoch /\ m.type = "VoteRequest"
        OBVIOUS
      <4>2. /\ role' = [role EXCEPT ![n] = "Candidate"]
            /\ Handle(n, [NoWork EXCEPT !.persist = TRUE, !.send = requests])
        BY <1>1, <3>2 DEF ElectionTimeout
      <4> HIDE DEF requests
      <4> QED BY <4>1, <4>2
    <3> QED BY <3>1, <3>2
  <2> DEFINE work == [NoWork EXCEPT !.persist = TRUE, !.send = send]
  <2>2. work.persist /\ work.send = send
    BY DEF NoWork
  <2>3. /\ ~ todo[n].persist /\ todo'[n] = work
        /\ \A k \in Voters \ {n} : todo'[k] = todo[k]
    <3>1. Handle(n, work)
      BY <2>1
    <3> HIDE DEF work
    <3> QED BY <1>0, <3>1, IdleFacts
  <2>4. /\ currentEpoch'[n] = epoch /\ votedFor'[n] = n /\ votesReceived'[n] = {n}
        /\ UNCHANGED <<quorumState, msgs, erased>>
    BY <1>0, <1>1 DEF ElectionTimeout
  <2>5. \A m \in send : /\ m.from = n /\ m.epoch = epoch /\ ~ IsGrant(m)
                        /\ IsBegin(m) => role'[n] = "Leader"
    BY <1>0, <2>1 DEF BeginQuorumEpochs, IsGrant, IsBegin
  <2>6. role'[n] = "Leader" => Cardinality({n}) >= Majority
    BY <1>0, <2>1, FS_Singleton, MajorityType
  <2>7. OthersSame(n)
    BY <1>0, <1>1, <2>1, <2>3 DEF ElectionTimeout, OthersSame
  <2>8. currentEpoch[n] \in Nat /\ epoch \in Nat /\ epoch > currentEpoch[n]
    BY <1>0
  <2>9. todo'[n].persist /\ todo'[n].send = send
    BY <2>2, <2>3
  <2>10. /\ \A v \in votesReceived'[n] : v = n
         /\ role'[n] = "Leader" => Cardinality(votesReceived'[n]) >= Majority
    BY <2>4, <2>6
  <2>11. /\ currentEpoch'[n] >= currentEpoch[n] /\ currentEpoch'[n] # currentEpoch[n]
         /\ \A m \in todo'[n].send : /\ m.from = n /\ m.epoch = currentEpoch'[n]
                                     /\ ~ IsGrant(m)
                                     /\ IsBegin(m) => role'[n] = "Leader"
    BY <2>4, <2>5, <2>8, <2>9
  <2>12. ~ todo[n].persist /\ votedFor'[n] = n /\ UNCHANGED <<quorumState, msgs, erased>>
    BY <2>3, <2>4
  <2> QED BY <2>7, <2>9, <2>10, <2>11, <2>12 DEF Handles
<1>2. ASSUME HeartbeatTimeout(n) PROVE Handles(n)
  <2> DEFINE leo == LogEndOffset(log[n])
             push(v) == FetchResponseMsg(n, v, currentEpoch[n],
                                         Entries(log[n], fetchOffsets[n][v], leo), Nil)
             send == {push(v) : v \in Others(n)}
             work == [NoWork EXCEPT !.send = send]
  <2>1. ~ work.persist /\ work.send = send /\ Handle(n, work)
    BY <1>2 DEF HeartbeatTimeout, NoWork
  <2>2. \A m \in send : m.from = n /\ m.epoch = currentEpoch[n] /\ ~ IsGrant(m) /\ ~ IsBegin(m)
    <3>1. \A v : LET m == push(v)
                 IN  m.from = n /\ m.epoch = currentEpoch[n] /\ ~ IsGrant(m) /\ ~ IsBegin(m)
      BY FetchResponseKind
    <3> HIDE DEF push
    <3> QED BY <3>1
  <2>3. UNCHANGED <<currentEpoch, votedFor, role, votesReceived, quorumState, msgs, erased>>
    BY <1>2 DEF HeartbeatTimeout, nodeVars
  <2> HIDE DEF work, send
  <2> QED BY <2>1, <2>2, <2>3, QuietHandles
<1>3. ASSUME Run(n) PROVE Kind(n)
  <2>1. CASE PersistQuorumState(n)
    BY <1>0, <2>1 DEF PersistQuorumState, nodeVars, Kind, Persists, OthersSame, BallotSame, Work
  <2>2. CASE AppendToLog(n)
    BY <1>0, <2>2 DEF AppendToLog, nodeVars, Kind, Logs, OthersSame, BallotSame, Work
  <2>3. CASE TruncateLog(n)
    BY <1>0, <2>3 DEF TruncateLog, nodeVars, Kind, Logs, OthersSame, BallotSame, Work
  <2>4. CASE SecondPass(n)
    <3>1. OthersSame(n) /\ BallotSame(n) /\ todo'[n] = NoWork
      BY <1>0, <2>4 DEF SecondPass, nodeVars, OthersSame, BallotSame
    <3>2. ~ todo'[n].persist /\ todo'[n].send = {}
      BY <3>1 DEF NoWork
    <3> QED BY <2>4, <3>1, <3>2 DEF SecondPass, FirstPassDone, Kind, Flushes
  <2> QED BY <1>3, <2>1, <2>2, <2>3, <2>4 DEF Run
<1>4. ASSUME Crash(n) PROVE Restarts(n)
  <2>1. OthersSame(n) /\ todo'[n] = NoWork
    BY <1>0, <1>4 DEF Crash, OthersSame
  <2>2. ~ todo'[n].persist /\ todo'[n].send = {}
    BY <2>1 DEF NoWork
  <2> QED BY <1>0, <1>4, <2>1, <2>2 DEF Crash, Restarts
<1>5. ASSUME SendEndQuorumEpoch(n) PROVE Speaks(n)
  <2>1. ~ todo[n].persist
    BY <1>5 DEF SendEndQuorumEpoch, Idle, NoWork
  <2>2. \A m \in msgs' \ msgs : /\ m.from = n /\ m.epoch = currentEpoch[n]
                                /\ ~ IsGrant(m) /\ ~ IsBegin(m)
    BY <1>5 DEF SendEndQuorumEpoch, IsGrant, IsBegin
  <2> QED BY <1>5, <2>1, <2>2
          DEF SendEndQuorumEpoch, Speaks, OthersSame, BallotSame, nodeVars
<1>6. ASSUME NEW value \in Values, Propose(n, value) PROVE Handles(n)
  <2>1. PICK work : /\ Handle(n, work) /\ ~ work.persist /\ work.send = {}
    BY <1>6 DEF Propose, NoWork
  <2>2. UNCHANGED <<currentEpoch, votedFor, role, votesReceived, quorumState, msgs, erased>>
    BY <1>6 DEF Propose
  <2>3. \A m \in work.send : /\ m.from = n /\ m.epoch = currentEpoch[n]
                             /\ ~ IsGrant(m) /\ ~ IsBegin(m)
    BY <2>1
  <2> QED BY <2>1, <2>2, <2>3, QuietHandles
<1>7. ASSUME NEW to \in Voters, SendFetchRequest(n, to) PROVE Speaks(n)
  <2>1. ~ todo[n].persist
    BY <1>7 DEF SendFetchRequest, Idle, NoWork
  <2>2. \A m \in msgs' \ msgs : /\ m.from = n /\ m.epoch = currentEpoch[n]
                                /\ ~ IsGrant(m) /\ ~ IsBegin(m)
    BY <1>7 DEF SendFetchRequest, IsGrant, IsBegin
  <2> QED BY <1>7, <2>1, <2>2
          DEF SendFetchRequest, Speaks, OthersSame, BallotSame, nodeVars
<1> QED BY <1>1, <1>2, <1>3, <1>4, <1>5, <1>6, <1>7 DEF Kind

\* Every step, a stuttering one apart, is of one of the kinds.
LEMMA NextKind ==
    ASSUME ElectionInv, Next
    PROVE  \E n \in Voters : Kind(n)
<1>1. \A m \in msgs : m.to \in Voters
  BY MessageFields DEF ElectionInv, TypeOK
<1>2. CASE \E m \in msgs : Receive(m)
  BY <1>1, <1>2, ReceiveKind DEF Kind
<1> QED BY <1>2, VoterKind DEF Next


-----------------------------------------------------------------------------
(* The invariant survives every kind of step. *)

\* What the types say about the state an election depends on.
LEMMA ElectionTypes ==
    ASSUME TypeOK
    PROVE  /\ \A v \in Voters : /\ currentEpoch[v] \in Nat
                                /\ quorumState[v].currentEpoch \in Nat
                                /\ votesReceived[v] \subseteq Voters
           /\ \A m \in msgs : m.from \in Voters /\ m.epoch \in Nat
           /\ \A m \in msgs : IsGrant(m) =>
                 m = [type |-> "VoteResponse", from |-> m.from, to |-> m.to,
                      epoch |-> m.epoch, granted |-> TRUE]
<1>1. /\ \A v \in Voters : /\ currentEpoch[v] \in Nat
                           /\ quorumState[v].currentEpoch \in Nat
                           /\ votesReceived[v] \subseteq Voters
      /\ \A m \in msgs : m.from \in Voters /\ m.epoch \in Nat
  BY MessageFields DEF TypeOK, QuorumState
<1>2. ASSUME NEW m \in msgs, IsGrant(m)
      PROVE  m = [type |-> "VoteResponse", from |-> m.from, to |-> m.to,
                  epoch |-> m.epoch, granted |-> TRUE]
  <2>1. m \in VoteResponse /\ m.granted = TRUE
    BY <1>2 DEF TypeOK, IsGrant, Message, VoteRequest, VoteResponse, BeginQuorumEpoch,
       EndQuorumEpoch, FetchRequest, FetchResponse
  <2> QED BY <2>1 DEF VoteResponse
<1> QED BY <1>1, <1>2

\* The file stays behind the memory.
LEMMA DiskBehindKept ==
    ASSUME ElectionInv, NEW n \in Voters, Kind(n), TypeOK'
    PROVE  DiskBehind'
<1>0. /\ \A v \in Voters : /\ quorumState[v].currentEpoch <= currentEpoch[v]
                           /\ ~ todo[v].persist =>
                                /\ quorumState[v].currentEpoch = currentEpoch[v]
                                /\ quorumState[v].votedFor = votedFor[v]
      /\ \A v \in Voters : currentEpoch[v] \in Nat /\ quorumState[v].currentEpoch \in Nat
      /\ \A v \in Voters : currentEpoch'[v] \in Nat /\ quorumState'[v].currentEpoch \in Nat
  BY DEF ElectionInv, DiskBehind, TypeOK, QuorumState
<1> SUFFICES ASSUME NEW v \in Voters
             PROVE  /\ quorumState'[v].currentEpoch <= currentEpoch'[v]
                    /\ ~ todo'[v].persist =>
                         /\ quorumState'[v].currentEpoch = currentEpoch'[v]
                         /\ quorumState'[v].votedFor = votedFor'[v]
  BY DEF DiskBehind
<1>1. CASE v # n
  <2>1. OthersSame(n)
    BY DEF Kind, Handles, Persists, Logs, Flushes, Speaks, Restarts
  <2> QED BY <1>0, <1>1, <2>1 DEF OthersSame
<1>2. CASE v = n
  <2>1. CASE Handles(n)
    BY <1>0, <1>2, <2>1 DEF Handles
  <2>2. CASE Persists(n)
    BY <1>0, <1>2, <2>2 DEF Persists, BallotSame
  <2>3. CASE Logs(n) \/ Flushes(n) \/ Speaks(n)
    BY <1>0, <1>2, <2>3 DEF Logs, Flushes, Speaks, BallotSame
  <2>4. CASE Restarts(n)
    BY <1>0, <1>2, <2>4 DEF Restarts
  <2> QED BY <2>1, <2>2, <2>3, <2>4 DEF Kind
<1> QED BY <1>1, <1>2

\* What is about to be sent stays a voter's own.
LEMMA SendsOwnKept ==
    ASSUME ElectionInv, NEW n \in Voters, Kind(n)
    PROVE  SendsOwn'
<1> SUFFICES ASSUME NEW v \in Voters, NEW m \in todo'[v].send
             PROVE  /\ m.from = v
                    /\ m.epoch = currentEpoch'[v]
                    /\ IsGrant(m) => votedFor'[v] = m.to
                    /\ IsBegin(m) => role'[v] = "Leader"
  BY DEF SendsOwn, IsGrant, IsBegin
<1>0. m \in todo[v].send => /\ m.from = v
                            /\ m.epoch = currentEpoch[v]
                            /\ IsGrant(m) => votedFor[v] = m.to
                            /\ IsBegin(m) => role[v] = "Leader"
  BY DEF ElectionInv, SendsOwn
<1>1. CASE v # n
  <2>1. OthersSame(n)
    BY DEF Kind, Handles, Persists, Logs, Flushes, Speaks, Restarts
  <2> QED BY <1>0, <1>1, <2>1 DEF OthersSame
<1>2. CASE v = n
  <2>1. CASE Handles(n)
    BY <1>2, <2>1 DEF Handles
  <2>2. CASE Persists(n) \/ Logs(n) \/ Flushes(n) \/ Speaks(n)
    BY <1>0, <1>2, <2>2 DEF Persists, Logs, Flushes, Speaks, BallotSame
  <2>3. CASE Restarts(n)
    BY <1>2, <2>3 DEF Restarts
  <2> QED BY <2>1, <2>2, <2>3 DEF Kind
<1> QED BY <1>1, <1>2

\* A file never goes back, and what a step sends is on the disk of its sender.
LEMMA DiskFacts ==
    ASSUME ElectionInv, NEW n \in Voters, Kind(n), TypeOK'
    PROVE  /\ msgs \subseteq msgs' /\ erased \subseteq erased'
           /\ \A v \in Voters : quorumState'[v].currentEpoch >= quorumState[v].currentEpoch
           /\ \A m \in msgs' \ msgs :
                 /\ m.from = n
                 /\ m.epoch = currentEpoch[n] /\ BallotSame(n)
                 /\ quorumState'[n].currentEpoch = currentEpoch[n]
                 /\ quorumState'[n].votedFor = votedFor[n]
                 /\ IsGrant(m) => votedFor[n] = m.to
                 /\ IsBegin(m) => role[n] = "Leader"
<1>0. /\ \A v \in Voters : /\ quorumState[v].currentEpoch <= currentEpoch[v]
                           /\ ~ todo[v].persist =>
                                /\ quorumState[v].currentEpoch = currentEpoch[v]
                                /\ quorumState[v].votedFor = votedFor[v]
      /\ \A v \in Voters : currentEpoch[v] \in Nat /\ quorumState[v].currentEpoch \in Nat
  BY DEF ElectionInv, DiskBehind, TypeOK, QuorumState
<1>1. \A m \in todo[n].send : /\ m.from = n
                              /\ m.epoch = currentEpoch[n]
                              /\ IsGrant(m) => votedFor[n] = m.to
                              /\ IsBegin(m) => role[n] = "Leader"
  BY DEF ElectionInv, SendsOwn
<1>2. OthersSame(n)
  BY DEF Kind, Handles, Persists, Logs, Flushes, Speaks, Restarts
<1>3. \A v \in Voters \ {n} : quorumState'[v].currentEpoch >= quorumState[v].currentEpoch
  BY <1>0, <1>2 DEF OthersSame
<1>4. CASE Handles(n) \/ Logs(n) \/ Restarts(n)
  BY <1>0, <1>3, <1>4 DEF Handles, Logs, Restarts
<1>5. CASE Persists(n)
  BY <1>0, <1>3, <1>5 DEF Persists
<1>6. CASE Flushes(n)
  BY <1>0, <1>1, <1>3, <1>6 DEF Flushes
<1>7. CASE Speaks(n)
  BY <1>0, <1>3, <1>7 DEF Speaks
<1> QED BY <1>4, <1>5, <1>6, <1>7 DEF Kind

\* A voter speaks only in epochs its file has reached.
LEMMA WriteAheadKept ==
    ASSUME ElectionInv, NEW n \in Voters, Kind(n), TypeOK'
    PROVE  WriteAhead'
<1> SUFFICES ASSUME NEW m \in msgs' PROVE m.epoch <= quorumState'[m.from].currentEpoch
  BY DEF WriteAhead
<1>1. /\ m.from \in Voters /\ m.epoch \in Nat
      /\ quorumState[m.from].currentEpoch \in Nat /\ quorumState'[m.from].currentEpoch \in Nat
  <2>1. m \in Message
    BY DEF TypeOK
  <2>2. m.from \in Voters /\ m.epoch \in Nat
    BY <2>1, MessageFields
  <2> QED BY <2>2 DEF ElectionInv, TypeOK, QuorumState
<1>2. CASE m \in msgs
  <2>1. m.epoch <= quorumState[m.from].currentEpoch
    BY <1>2 DEF ElectionInv, WriteAhead
  <2>2. quorumState'[m.from].currentEpoch >= quorumState[m.from].currentEpoch
    BY <1>1, DiskFacts
  <2> QED BY <1>1, <2>1, <2>2
<1>3. CASE m \notin msgs
  <2>1. m.epoch = quorumState'[m.from].currentEpoch
    BY <1>3, DiskFacts
  <2> QED BY <1>1, <2>1
<1> QED BY <1>2, <1>3


\* A vote that is held in memory and on disk stays so.
LEMMA HeldKept ==
    ASSUME ElectionInv, NEW n \in Voters, Kind(n), TypeOK',
           NEW v \in Voters, NEW c \in Voters, NEW epoch \in Nat,
           VoteHeld(v, c, epoch), VoteStored(v, c, epoch)
    PROVE  VoteHeld(v, c, epoch)' /\ VoteStored(v, c, epoch)'
<1>0. /\ erased \subseteq erased'
      /\ currentEpoch[v] \in Nat /\ currentEpoch'[v] \in Nat
      /\ c # Nil
  BY DiskFacts, VotersAssumption DEF ElectionInv, TypeOK
<1>1. CASE v # n
  <2>1. OthersSame(n)
    BY DEF Kind, Handles, Persists, Logs, Flushes, Speaks, Restarts
  <2> QED BY <1>0, <1>1, <2>1 DEF OthersSame, VoteHeld, VoteStored
<1>2. CASE v = n
  <2>1. CASE Handles(n)
    BY <1>0, <1>2, <2>1 DEF Handles, VoteHeld, VoteStored
  <2>2. CASE Persists(n)
    BY <1>0, <1>2, <2>2 DEF Persists, BallotSame, VoteHeld, VoteStored
  <2>3. CASE Logs(n) \/ Flushes(n) \/ Speaks(n)
    BY <1>0, <1>2, <2>3 DEF Logs, Flushes, Speaks, BallotSame, VoteHeld, VoteStored
  <2>4. CASE Restarts(n)
    BY <1>0, <1>2, <2>4 DEF Restarts, VoteHeld, VoteStored
  <2> QED BY <2>1, <2>2, <2>3, <2>4 DEF Kind
<1> QED BY <1>1, <1>2

\* Votes that were sent stay in memory and on disk.
LEMMA VotesKeptKept ==
    ASSUME ElectionInv, NEW n \in Voters, Kind(n), TypeOK'
    PROVE  VotesKept'
<1> SUFFICES ASSUME NEW m \in msgs'
             PROVE  /\ IsGrant(m) => /\ VoteHeld(m.from, m.to, m.epoch)'
                                     /\ VoteStored(m.from, m.to, m.epoch)'
                    /\ IsBegin(m) => /\ VoteHeld(m.from, m.from, m.epoch)'
                                     /\ VoteStored(m.from, m.from, m.epoch)'
  BY DEF VotesKept, IsGrant, IsBegin
<1>1. m.from \in Voters /\ m.to \in Voters /\ m.epoch \in Nat
  <2>1. m \in Message
    BY DEF TypeOK
  <2> QED BY <2>1, MessageFields
<1>2. CASE m \in msgs
  <2>1. /\ IsGrant(m) => /\ VoteHeld(m.from, m.to, m.epoch)
                         /\ VoteStored(m.from, m.to, m.epoch)
        /\ IsBegin(m) => /\ VoteHeld(m.from, m.from, m.epoch)
                         /\ VoteStored(m.from, m.from, m.epoch)
    BY <1>2 DEF ElectionInv, VotesKept
  <2> QED BY <1>1, <2>1, HeldKept
<1>3. CASE m \notin msgs
  <2>1. /\ m.from = n
        /\ m.epoch = currentEpoch[n] /\ BallotSame(n)
        /\ quorumState'[n].currentEpoch = currentEpoch[n]
        /\ quorumState'[n].votedFor = votedFor[n]
        /\ IsGrant(m) => votedFor[n] = m.to
        /\ IsBegin(m) => role[n] = "Leader"
    BY <1>3, DiskFacts
  <2>2. role[n] = "Leader" => votedFor[n] = n
    BY DEF ElectionInv, VotesCounted
  <2> QED BY <2>1, <2>2 DEF BallotSame, VoteHeld, VoteStored
<1> QED BY <1>2, <1>3

\* Candidates and leaders go on counting votes they were sent.
LEMMA VotesCountedKept ==
    ASSUME ElectionInv, NEW n \in Voters, Kind(n), TypeOK'
    PROVE  VotesCounted'
<1> SUFFICES ASSUME NEW k \in Voters, role'[k] # "Follower"
             PROVE  /\ votedFor'[k] = k
                    /\ \A v \in votesReceived'[k] : v = k \/ Granted(v, k, currentEpoch[k])'
                    /\ role'[k] = "Leader" => Cardinality(votesReceived'[k]) >= Majority
  BY DEF VotesCounted, Granted, Majority
<1>0. role[k] # "Follower" =>
         /\ votedFor[k] = k
         /\ \A v \in votesReceived[k] : v = k \/ Granted(v, k, currentEpoch[k])
         /\ role[k] = "Leader" => Cardinality(votesReceived[k]) >= Majority
  BY DEF ElectionInv, VotesCounted
<1>1. msgs \subseteq msgs'
  BY DiskFacts
<1>2. CASE k # n
  <2>1. OthersSame(n)
    BY DEF Kind, Handles, Persists, Logs, Flushes, Speaks, Restarts
  <2> QED BY <1>0, <1>1, <1>2, <2>1 DEF OthersSame, Granted
<1>3. CASE k = n
  <2>1. CASE Handles(n)
    BY <1>3, <2>1 DEF Handles, Granted
  <2>2. CASE Persists(n) \/ Logs(n) \/ Flushes(n) \/ Speaks(n)
    <3>1. BallotSame(n)
      BY <2>2 DEF Persists, Logs, Flushes, Speaks
    <3> QED BY <1>0, <1>1, <1>3, <3>1 DEF BallotSame, Granted
  <2>3. CASE Restarts(n)
    BY <1>3, <2>3 DEF Restarts
  <2> QED BY <2>1, <2>2, <2>3 DEF Kind
<1> QED BY <1>2, <1>3

\* An announced leadership goes on being backed.
LEMMA AnnouncedBackedKept ==
    ASSUME ElectionInv, NEW n \in Voters, Kind(n), TypeOK'
    PROVE  AnnouncedBacked'
<1> SUFFICES ASSUME NEW m \in msgs', IsBegin(m)
             PROVE  \E Q \in SUBSET Voters :
                       /\ Cardinality(Q) >= Majority
                       /\ \A v \in Q : v = m.from \/ Granted(v, m.from, m.epoch)'
  BY DEF AnnouncedBacked, IsBegin, Granted, Majority
<1>1. msgs \subseteq msgs'
  BY DiskFacts
<1>2. CASE m \in msgs
  <2>1. PICK Q \in SUBSET Voters :
              /\ Cardinality(Q) >= Majority
              /\ \A v \in Q : v = m.from \/ Granted(v, m.from, m.epoch)
    BY <1>2 DEF ElectionInv, AnnouncedBacked
  <2> QED BY <1>1, <2>1 DEF Granted
<1>3. CASE m \notin msgs
  <2>1. m.from = n /\ m.epoch = currentEpoch[n] /\ role[n] = "Leader"
    BY <1>3, DiskFacts
  <2>2. /\ Cardinality(votesReceived[n]) >= Majority
        /\ \A v \in votesReceived[n] : v = n \/ Granted(v, n, currentEpoch[n])
    BY <2>1 DEF ElectionInv, VotesCounted
  <2>3. votesReceived[n] \in SUBSET Voters
    BY DEF ElectionInv, TypeOK
  <2> QED BY <1>1, <2>1, <2>2, <2>3 DEF Granted
<1> QED BY <1>2, <1>3

\* Whoever backs a candidate holds the vote.
BackersHold ==
    \A v, c \in Voters, epoch \in Nat : Backs(v, c, epoch) => VoteHeld(v, c, epoch)

LEMMA BacksHeld == VotesKept /\ VotesCounted => BackersHold
<1> SUFFICES ASSUME VotesKept, VotesCounted,
                    NEW v \in Voters, NEW c \in Voters, NEW epoch \in Nat,
                    Backs(v, c, epoch)
             PROVE  VoteHeld(v, c, epoch)
  BY DEF BackersHold
<1>1. CASE Granted(v, c, epoch)
  <2> DEFINE m == [type |-> "VoteResponse", from |-> v, to |-> c, epoch |-> epoch,
                   granted |-> TRUE]
  <2>1. m \in msgs /\ IsGrant(m) /\ m.from = v /\ m.to = c /\ m.epoch = epoch
    BY <1>1 DEF Granted, IsGrant
  <2> HIDE DEF m
  <2> QED BY <2>1 DEF VotesKept
<1>2. CASE v = c /\ Announced(c, epoch)
  BY <1>2 DEF Announced, VotesKept, IsBegin
<1>3. CASE v = c /\ role[c] # "Follower" /\ currentEpoch[c] = epoch
  BY <1>3 DEF VotesCounted, VoteHeld
<1> QED BY <1>1, <1>2, <1>3 DEF Backs

\* A step makes a voter back a candidate only as the vote it then holds.
LEMMA NewBacks ==
    ASSUME ElectionInv, NEW n \in Voters, Kind(n), TypeOK',
           NEW v \in Voters, NEW c \in Voters, NEW epoch \in Nat, Backs(v, c, epoch)'
    PROVE  Backs(v, c, epoch) \/ (currentEpoch'[v] = epoch /\ votedFor'[v] = c)
<1>1. \A m \in msgs' \ msgs :
         /\ m.from = n
         /\ m.epoch = currentEpoch[n] /\ BallotSame(n)
         /\ IsGrant(m) => votedFor[n] = m.to
         /\ IsBegin(m) => role[n] = "Leader"
  BY DiskFacts
<1>2. CASE Granted(v, c, epoch)'
  <2> DEFINE m == [type |-> "VoteResponse", from |-> v, to |-> c, epoch |-> epoch,
                   granted |-> TRUE]
  <2>1. m \in msgs' /\ IsGrant(m) /\ m.from = v /\ m.to = c /\ m.epoch = epoch
    BY <1>2 DEF Granted, IsGrant
  <2>2. m \in msgs => Backs(v, c, epoch)
    BY DEF Backs, Granted
  <2> HIDE DEF m
  <2> QED BY <1>1, <2>1, <2>2 DEF BallotSame
<1>3. CASE v = c /\ Announced(c, epoch)'
  <2>1. PICK m \in msgs' : IsBegin(m) /\ m.from = c /\ m.epoch = epoch
    BY <1>3 DEF Announced, IsBegin
  <2>2. CASE m \in msgs
    BY <1>3, <2>1, <2>2 DEF Backs, Announced, IsBegin
  <2>3. CASE m \notin msgs
    BY <1>1, <1>3, <2>1, <2>3 DEF Backs
  <2> QED BY <2>2, <2>3
<1>4. CASE v = c /\ role'[c] # "Follower" /\ currentEpoch'[c] = epoch
  <2>1. VotesCounted'
    BY VotesCountedKept
  <2>2. votedFor'[c] = c
    BY <1>4, <2>1 DEF VotesCounted
  <2> QED BY <1>4, <2>2
<1> QED BY <1>2, <1>3, <1>4 DEF Backs

\* Nobody comes to back two candidates.
LEMMA OneVoteKept ==
    ASSUME ElectionInv, NEW n \in Voters, Kind(n), TypeOK'
    PROVE  OneVote'
<1> SUFFICES ASSUME NEW v \in Voters, NEW c \in Voters, NEW d \in Voters,
                    NEW epoch \in Nat,
                    Backs(v, c, epoch)', Backs(v, d, epoch)'
             PROVE  c = d \/ <<v, epoch>> \in erased'
  BY DEF OneVote, Backs, Granted, Announced
<1>1. VotesKept' /\ VotesCounted'
  BY VotesKeptKept, VotesCountedKept
<1>2. VoteHeld(v, c, epoch)' /\ VoteHeld(v, d, epoch)'
  <2>1. BackersHold'
    BY <1>1, BacksHeld, PTL
  <2> QED BY <2>1 DEF BackersHold
<1>3. /\ Backs(v, c, epoch) \/ (currentEpoch'[v] = epoch /\ votedFor'[v] = c)
      /\ Backs(v, d, epoch) \/ (currentEpoch'[v] = epoch /\ votedFor'[v] = d)
  BY NewBacks
<1>4. CASE Backs(v, c, epoch) /\ Backs(v, d, epoch)
  <2>1. erased \subseteq erased'
    BY DiskFacts
  <2> QED BY <1>4, <2>1 DEF ElectionInv, OneVote
<1>5. CASE currentEpoch'[v] = epoch /\ (votedFor'[v] = c \/ votedFor'[v] = d)
  <2>1. currentEpoch'[v] \in Nat
    BY DEF TypeOK
  <2> QED BY <1>2, <1>5, <2>1 DEF VoteHeld
<1> QED BY <1>3, <1>4, <1>5


-----------------------------------------------------------------------------
(* The theorems *)

\* The invariant holds at first: no message was sent and no vote counted.
LEMMA ElectionInit == Init => ElectionInv
<1> SUFFICES ASSUME Init PROVE ElectionInv
  OBVIOUS
<1>1. TypeOK
  BY TypeInit
<1>2. \A n \in Voters : /\ role[n] = "Follower" /\ todo[n] = NoWork
                        /\ currentEpoch[n] = quorumState[n].currentEpoch
                        /\ votedFor[n] = quorumState[n].votedFor
                        /\ currentEpoch[n] \in Nat
  BY InitAssumption DEF Init
<1>3. msgs = {}
  BY DEF Init
<1>4. \A n \in Voters : ~ todo[n].persist /\ todo[n].send = {}
  BY <1>2 DEF NoWork
<1>5. DiskBehind
  BY <1>2 DEF DiskBehind
<1>6. SendsOwn
  BY <1>4 DEF SendsOwn
<1>7. WriteAhead /\ VotesKept /\ AnnouncedBacked
  BY <1>3 DEF WriteAhead, VotesKept, AnnouncedBacked
<1>8. VotesCounted
  BY <1>2 DEF VotesCounted
<1>9. OneVote
  BY <1>2, <1>3 DEF OneVote, Backs, Granted, Announced
<1> QED BY <1>1, <1>5, <1>6, <1>7, <1>8, <1>9 DEF ElectionInv

\* Every step keeps the invariant.
LEMMA ElectionStep == ElectionInv /\ TypeOK' /\ [Next]_vars => ElectionInv'
<1> SUFFICES ASSUME ElectionInv, TypeOK', [Next]_vars PROVE ElectionInv'
  OBVIOUS
<1>1. CASE Next
  <2>1. PICK n \in Voters : Kind(n)
    BY <1>1, NextKind
  <2> QED BY <2>1, DiskBehindKept, SendsOwnKept, WriteAheadKept, VotesKeptKept,
             VotesCountedKept, AnnouncedBackedKept, OneVoteKept DEF ElectionInv
<1>2. CASE UNCHANGED vars
  <2>1. UNCHANGED <<currentEpoch, votedFor, role, votesReceived, quorumState, todo, msgs,
                    erased>>
    BY <1>2 DEF vars, nodeVars
  <2>2. DiskBehind' /\ SendsOwn' /\ WriteAhead'
    BY <2>1 DEF ElectionInv, DiskBehind, SendsOwn, WriteAhead, IsGrant, IsBegin
  <2>3. VotesKept' /\ VotesCounted' /\ AnnouncedBacked'
    BY <2>1 DEF ElectionInv, VotesKept, VoteHeld, VoteStored, VotesCounted,
                AnnouncedBacked, Granted, IsGrant, IsBegin, Majority
  <2>4. OneVote'
    BY <2>1 DEF ElectionInv, OneVote, Backs, Granted, Announced
  <2> QED BY <2>2, <2>3, <2>4 DEF ElectionInv
<1> QED BY <1>1, <1>2

\* The inductive invariant of the election theorems.
THEOREM ElectionInvariant == Spec => []ElectionInv
<1>1. Spec => []TypeOK
  BY TypeCorrect
<1> QED BY <1>1, ElectionInit, ElectionStep, PTL DEF Spec

\* A voter never speaks in an epoch that a crash could make it forget: the runner
\* executes the persistence actions before the sends.
THEOREM SpeaksAfterWriting == Spec => []WriteAhead
<1>1. ElectionInv => WriteAhead
  BY DEF ElectionInv
<1> QED BY <1>1, ElectionInvariant, PTL

\* A vote that was answered is on disk until its epoch is over: no restart makes
\* a voter vote twice.
THEOREM VotesSurvive == Spec => []VotesRemembered
<1>1. ElectionInv => VotesRemembered
  BY DEF ElectionInv, VotesKept, VoteStored, VotesRemembered, IsGrant
<1> QED BY <1>1, ElectionInvariant, PTL

\* The epoch in a quorum-state file never decreases, whatever a voter receives
\* and whenever it crashes.
THEOREM EpochsSurvive == Spec => DurableEpochMonotone
<1>1. ElectionInv /\ TypeOK' /\ [Next]_vars =>
        [\A n \in Voters :
            quorumState'[n].currentEpoch >= quorumState[n].currentEpoch]_quorumState
  <2> SUFFICES ASSUME ElectionInv, TypeOK', [Next]_vars, quorumState' # quorumState,
                      NEW k \in Voters
               PROVE  quorumState'[k].currentEpoch >= quorumState[k].currentEpoch
    OBVIOUS
  <2>1. Next
    BY DEF vars
  <2>2. PICK n \in Voters : Kind(n)
    BY <2>1, NextKind
  <2> QED BY <2>2, DiskFacts
<1> QED BY <1>1, ElectionInvariant, TypeCorrect, PTL DEF Spec, DurableEpochMonotone

\* Whoever leads an epoch, or announced that it did, had a majority for it.
LEMMA LedBacked ==
    ASSUME ElectionInv, NEW a \in Voters, NEW epoch \in Nat, Led(a, epoch)
    PROVE  \E Q \in SUBSET Voters : /\ Cardinality(Q) >= Majority
                                    /\ \A v \in Q : Backs(v, a, epoch)
<1>1. CASE role[a] = "Leader" /\ currentEpoch[a] = epoch
  <2>1. /\ Cardinality(votesReceived[a]) >= Majority
        /\ \A v \in votesReceived[a] : v = a \/ Granted(v, a, currentEpoch[a])
    BY <1>1 DEF ElectionInv, VotesCounted
  <2>2. votesReceived[a] \in SUBSET Voters
    BY DEF ElectionInv, TypeOK
  <2> QED BY <1>1, <2>1, <2>2 DEF Backs
<1>2. CASE Announced(a, epoch)
  <2>1. PICK m \in msgs : IsBegin(m) /\ m.from = a /\ m.epoch = epoch
    BY <1>2 DEF Announced, IsBegin
  <2>2. PICK Q \in SUBSET Voters :
              /\ Cardinality(Q) >= Majority
              /\ \A v \in Q : v = a \/ Granted(v, a, epoch)
    BY <2>1 DEF ElectionInv, AnnouncedBacked
  <2> QED BY <1>2, <2>2 DEF Backs
<1> QED BY <1>1, <1>2 DEF Led

\* Election safety: an epoch has one leader, ever, unless a voter erased a vote it
\* had cast in that epoch (become_follower on BeginQuorumEpoch or EndQuorumEpoch of
\* the voter's own epoch).
THEOREM ElectionSafety == Spec => []OneLeaderPerEpoch
<1>1. ElectionInv => OneLeaderPerEpoch
  <2> SUFFICES ASSUME ElectionInv, NEW a \in Voters, NEW b \in Voters,
                      NEW epoch \in {currentEpoch[n] : n \in Voters}
                                      \union {m.epoch : m \in msgs},
                      Led(a, epoch), Led(b, epoch)
               PROVE  a = b \/ VoteErased(epoch)
    BY DEF OneLeaderPerEpoch
  <2>1. epoch \in Nat
    BY ElectionTypes DEF ElectionInv
  <2>2. PICK A \in SUBSET Voters : /\ Cardinality(A) >= Majority
                                   /\ \A v \in A : Backs(v, a, epoch)
    BY <2>1, LedBacked
  <2>3. PICK B \in SUBSET Voters : /\ Cardinality(B) >= Majority
                                   /\ \A v \in B : Backs(v, b, epoch)
    BY <2>1, LedBacked
  <2>4. PICK v : v \in A /\ v \in B
    <3>1. Cardinality(A) \in Nat /\ Cardinality(B) \in Nat
      BY VotersAssumption, FS_Subset, FS_CardinalityType
    <3>2. Cardinality(A) + Cardinality(B) > Cardinality(Voters)
      BY <2>2, <2>3, <3>1, MajorityType
    <3> QED BY <3>2, VotersAssumption, FS_MajoritiesIntersect
  <2>5. a = b \/ <<v, epoch>> \in erased
    BY <2>1, <2>2, <2>3, <2>4 DEF ElectionInv, OneVote
  <2> QED BY <2>2, <2>4, <2>5 DEF VoteErased
<1> QED BY <1>1, ElectionInvariant, PTL

-----------------------------------------------------------------------------
(* Clients *)

\* Every waiting client waits at one runner, for a proposal that its node still
\* tracks or is about to answer.
Tracked(n) == PendingIds(n) \union todo[n].commit \union todo[n].reject

ClientInv ==
    /\ TypeOK
    /\ \A n \in Voters : waiting[n] \subseteq Tracked(n)
    /\ \A n, k \in Voters : n # k => waiting[n] \intersect waiting[k] = {}
    /\ \A value \in Values :
          replies[value] = "waiting" <=> \E n \in Voters : value \in waiting[n]

\* A handler that answers, or goes on tracking, what its voter tracked.
LEMMA HandleTracks ==
    ASSUME TypeOK, NEW n \in Voters, NEW work, Handle(n, work),
           pendingProposes' = [pendingProposes EXCEPT ![n] = pendingProposes'[n]],
           PendingIds(n) \subseteq PendingIds(n)' \union work.commit \union work.reject
    PROVE  \A k \in Voters : Tracked(k) \subseteq Tracked(k)'
<1>1. todo[n].commit = {} /\ todo[n].reject = {}
  BY DEF Handle, Idle, NoWork
<1>2. todo'[n] = work /\ \A k \in Voters \ {n} : todo'[k] = todo[k]
  BY IdleFacts
<1>3. \A k \in Voters \ {n} : pendingProposes'[k] = pendingProposes[k]
  BY DEF TypeOK
<1>4. Tracked(n) \subseteq Tracked(n)'
  BY <1>1, <1>2 DEF Tracked
<1>5. \A k \in Voters \ {n} : Tracked(k) \subseteq Tracked(k)'
  BY <1>2, <1>3 DEF Tracked, PendingIds
<1> QED BY <1>4, <1>5

\* What is taken from the pending proposals is answered, the rest stays pending.
LEMMA PendingSplit ==
    ASSUME TypeOK, NEW n \in Voters, NEW committed,
           pendingProposes' = [pendingProposes EXCEPT ![n] = @ \ committed]
    PROVE  /\ pendingProposes' = [pendingProposes EXCEPT ![n] = pendingProposes'[n]]
           /\ PendingIds(n) \subseteq PendingIds(n)' \union {p[2] : p \in committed}
<1>1. pendingProposes'[n] = pendingProposes[n] \ committed
  BY DEF TypeOK
<1> QED BY <1>1 DEF PendingIds

\* Handling a message forgets no client.
LEMMA ReceiveTracks ==
    ASSUME TypeOK, NEW m \in msgs, Receive(m)
    PROVE  /\ \A k \in Voters : Tracked(k) \subseteq Tracked(k)'
           /\ UNCHANGED <<waiting, replies>>
<1> DEFINE n == m.to
<1>0. n \in Voters
  BY MessageFields DEF TypeOK
<1>1. UNCHANGED <<waiting, replies>>
  BY DEF Receive, VoteRequestNewer, VoteRequestCurrent, VoteResponseNewer,
     VoteResponseGranted, QuorumEpoch, FetchRequestNewer, FetchRequestRefused,
     FetchRequestServed, FetchResponseNewer, FetchResponseDiverging, FetchResponseData
<1>2. ASSUME UNCHANGED pendingProposes, NEW work, Handle(n, work)
      PROVE  \A k \in Voters : Tracked(k) \subseteq Tracked(k)'
  <2>1. pendingProposes' = [pendingProposes EXCEPT ![n] = pendingProposes'[n]]
    BY <1>0, <1>2 DEF TypeOK
  <2>2. PendingIds(n) = PendingIds(n)'
    BY <1>2 DEF PendingIds
  <2> QED BY <1>0, <1>2, <2>1, <2>2, HandleTracks
<1>3. ASSUME NEW w, w = [NoWork EXCEPT !.persist = TRUE, !.reject = PendingIds(n)],
             Handle(n, w), pendingProposes' = [pendingProposes EXCEPT ![n] = {}]
      PROVE  \A k \in Voters : Tracked(k) \subseteq Tracked(k)'
  <2>1. w.reject = PendingIds(n)
    BY <1>3 DEF NoWork
  <2>2. pendingProposes' = [pendingProposes EXCEPT ![n] = pendingProposes'[n]]
    BY <1>0, <1>3 DEF TypeOK
  <2> QED BY <1>0, <1>3, <2>1, <2>2, HandleTracks
<1>4. ASSUME NEW committed, NEW w, w.commit = {p[2] : p \in committed}, Handle(n, w),
             pendingProposes' = [pendingProposes EXCEPT ![n] = @ \ committed]
      PROVE  \A k \in Voters : Tracked(k) \subseteq Tracked(k)'
  BY <1>0, <1>4, PendingSplit, HandleTracks
<1>5. CASE VoteRequestNewer(m) \/ VoteRequestCurrent(m)
  BY <1>2, <1>5 DEF VoteRequestNewer, VoteRequestCurrent
<1>6. CASE VoteResponseNewer(m) \/ VoteResponseGranted(m)
  BY <1>2, <1>6 DEF VoteResponseNewer, VoteResponseGranted
<1>7. CASE QuorumEpoch(m) \/ FetchResponseNewer(m)
  BY <1>3, <1>7 DEF QuorumEpoch, FetchResponseNewer
<1>8. CASE FetchRequestNewer(m) \/ FetchRequestRefused(m) \/ FetchResponseDiverging(m)
  BY <1>2, <1>8 DEF FetchRequestNewer, FetchRequestRefused, FetchResponseDiverging, nodeVars
<1>9. CASE FetchRequestServed(m)
  <2>1. PICK committed, s :
          /\ pendingProposes' = [pendingProposes EXCEPT ![n] = @ \ committed]
          /\ Handle(n, [NoWork EXCEPT !.send = s, !.commit = {p[2] : p \in committed}])
    BY <1>9 DEF FetchRequestServed
  <2> DEFINE w == [NoWork EXCEPT !.send = s, !.commit = {p[2] : p \in committed}]
  <2>2. w.commit = {p[2] : p \in committed} /\ Handle(n, w)
    BY <2>1 DEF NoWork
  <2> HIDE DEF w
  <2> QED BY <1>1, <1>4, <2>1, <2>2
<1>10. CASE FetchResponseData(m)
  <2>1. PICK committed :
          /\ pendingProposes' = [pendingProposes EXCEPT ![n] = @ \ committed]
          /\ Handle(n, [NoWork EXCEPT !.append = m.entries,
                                      !.commit = {p[2] : p \in committed}])
    BY <1>10 DEF FetchResponseData
  <2> DEFINE w == [NoWork EXCEPT !.append = m.entries, !.commit = {p[2] : p \in committed}]
  <2>2. w.commit = {p[2] : p \in committed} /\ Handle(n, w)
    BY <2>1 DEF NoWork
  <2> HIDE DEF w
  <2> QED BY <1>1, <1>4, <2>1, <2>2
<1> QED BY <1>1, <1>5, <1>6, <1>7, <1>8, <1>9, <1>10 DEF Receive

\* A step that concerns no client keeps the invariant.
LEMMA QuietClients ==
    ASSUME ClientInv, TypeOK', UNCHANGED <<waiting, replies>>,
           \A k \in Voters : Tracked(k) \subseteq Tracked(k)'
    PROVE  ClientInv'
<1>1. \A k \in Voters : waiting'[k] \subseteq Tracked(k)'
  BY DEF ClientInv
<1> QED BY <1>1 DEF ClientInv

\* Every other step of a voter keeps the invariant.
LEMMA VoterClients ==
    ASSUME ClientInv, TypeOK', NEW n \in Voters
    PROVE  /\ ElectionTimeout(n) => ClientInv'
           /\ HeartbeatTimeout(n) => ClientInv'
           /\ Run(n) => ClientInv'
           /\ Crash(n) => ClientInv'
           /\ SendEndQuorumEpoch(n) => ClientInv'
           /\ \A value \in Values : Propose(n, value) => ClientInv'
           /\ \A to \in Voters : SendFetchRequest(n, to) => ClientInv'
<1>0. /\ TypeOK /\ todo \in [Voters -> Work]
      /\ waiting \in [Voters -> SUBSET Values] /\ replies \in [Values -> Replies]
      /\ pendingProposes \in [Voters -> SUBSET (Nat \X Values)]
  BY DEF ClientInv, TypeOK
<1>a. ASSUME UNCHANGED <<waiting, replies, pendingProposes>>, NEW work, Handle(n, work)
      PROVE  ClientInv'
  <2>1. pendingProposes' = [pendingProposes EXCEPT ![n] = pendingProposes'[n]]
    BY <1>0, <1>a
  <2>2. PendingIds(n) = PendingIds(n)'
    BY <1>a DEF PendingIds
  <2> QED BY <1>0, <1>a, <2>1, <2>2, HandleTracks, QuietClients
<1>b. ASSUME UNCHANGED <<waiting, replies, pendingProposes>>,
             \A k \in Voters : todo'[k].commit = todo[k].commit /\ todo'[k].reject = todo[k].reject
      PROVE  ClientInv'
  <2>1. \A k \in Voters : Tracked(k) \subseteq Tracked(k)'
    BY <1>b DEF Tracked, PendingIds
  <2> QED BY <1>b, <2>1, QuietClients
<1>1. ASSUME ElectionTimeout(n) PROVE ClientInv'
  BY <1>1, <1>a DEF ElectionTimeout
<1>2. ASSUME HeartbeatTimeout(n) PROVE ClientInv'
  BY <1>2, <1>a DEF HeartbeatTimeout, nodeVars
<1>3. ASSUME Run(n) PROVE ClientInv'
  <2>1. CASE PersistQuorumState(n) \/ AppendToLog(n) \/ TruncateLog(n)
    <3>1. PICK work : /\ todo' = [todo EXCEPT ![n] = work]
                      /\ work.commit = todo[n].commit /\ work.reject = todo[n].reject
      <4> DEFINE same(work) == /\ work.commit = todo[n].commit
                               /\ work.reject = todo[n].reject
      <4>1. /\ same([todo[n] EXCEPT !.persist = FALSE])
            /\ same([todo[n] EXCEPT !.append = Tail(@)])
            /\ same([todo[n] EXCEPT !.truncate = Nil])
        BY <1>0 DEF Work
      <4>2. \E work : todo' = [todo EXCEPT ![n] = work] /\ same(work)
        <5> HIDE DEF same
        <5> QED BY <2>1, <4>1 DEF PersistQuorumState, AppendToLog, TruncateLog
      <4> QED BY <4>2
    <3>2. \A k \in Voters : /\ todo'[k].commit = todo[k].commit
                            /\ todo'[k].reject = todo[k].reject
      BY <1>0, <3>1
    <3> QED BY <2>1, <3>2, <1>b DEF PersistQuorumState, AppendToLog, TruncateLog, nodeVars
  <2>2. CASE SecondPass(n)
    <3> DEFINE told == todo[n].commit \union todo[n].reject
    <3>1. /\ waiting'[n] = waiting[n] \ told
          /\ \A k \in Voters \ {n} : waiting'[k] = waiting[k] /\ todo'[k] = todo[k]
          /\ UNCHANGED pendingProposes
          /\ \A value \in Values : replies'[value] = Answer(n, value)
      BY <1>0, <2>2 DEF SecondPass, nodeVars
    <3>2. \A k \in Voters : waiting'[k] \subseteq Tracked(k)'
      <4>1. waiting'[n] \subseteq Tracked(n)'
        BY <3>1 DEF ClientInv, Tracked, PendingIds
      <4>2. \A k \in Voters \ {n} : waiting'[k] \subseteq Tracked(k)'
        BY <3>1 DEF ClientInv, Tracked, PendingIds
      <4> QED BY <4>1, <4>2
    <3>3. \A k, j \in Voters : k # j => waiting'[k] \intersect waiting'[j] = {}
      <4>1. \A k \in Voters : waiting'[k] \subseteq waiting[k]
        BY <3>1
      <4> QED BY <4>1 DEF ClientInv
    <3>4. ASSUME NEW value \in Values
          PROVE  replies'[value] = "waiting" <=> \E k \in Voters : value \in waiting'[k]
      <4>1. CASE value \in waiting[n] /\ value \in told
        <5>1. replies'[value] # "waiting"
          BY <3>1, <4>1 DEF Answer
        <5>2. \A k \in Voters : value \notin waiting'[k]
          BY <3>1, <4>1 DEF ClientInv
        <5> QED BY <5>1, <5>2
      <4>2. CASE ~ (value \in waiting[n] /\ value \in told)
        <5>1. replies'[value] = replies[value]
          BY <3>1, <4>2 DEF Answer
        <5>2. \A k \in Voters : value \in waiting'[k] <=> value \in waiting[k]
          BY <3>1, <4>2
        <5> QED BY <5>1, <5>2 DEF ClientInv
      <4> QED BY <4>1, <4>2
    <3> QED BY <3>2, <3>3, <3>4 DEF ClientInv
  <2> QED BY <1>3, <2>1, <2>2 DEF Run
<1>4. ASSUME Crash(n) PROVE ClientInv'
  <2>1. /\ waiting'[n] = {}
        /\ \A k \in Voters \ {n} : /\ waiting'[k] = waiting[k] /\ todo'[k] = todo[k]
                                   /\ pendingProposes'[k] = pendingProposes[k]
        /\ \A value \in Values :
              replies'[value] = IF value \in waiting[n] THEN "closed" ELSE replies[value]
    BY <1>0, <1>4 DEF Crash
  <2>2. \A k \in Voters : waiting'[k] \subseteq Tracked(k)'
    <3>1. \A k \in Voters \ {n} : waiting'[k] \subseteq Tracked(k)'
      BY <2>1 DEF ClientInv, Tracked, PendingIds
    <3> QED BY <2>1, <3>1
  <2>3. \A k, j \in Voters : k # j => waiting'[k] \intersect waiting'[j] = {}
    BY <2>1 DEF ClientInv
  <2>4. ASSUME NEW value \in Values
        PROVE  replies'[value] = "waiting" <=> \E k \in Voters : value \in waiting'[k]
    <3>1. CASE value \in waiting[n]
      <4>1. \A k \in Voters : value \notin waiting'[k]
        BY <2>1, <3>1 DEF ClientInv
      <4> QED BY <2>1, <3>1, <4>1
    <3>2. CASE value \notin waiting[n]
      <4>1. \A k \in Voters : value \in waiting'[k] <=> value \in waiting[k]
        BY <2>1, <3>2
      <4> QED BY <2>1, <3>2, <4>1 DEF ClientInv
    <3> QED BY <3>1, <3>2
  <2> QED BY <2>2, <2>3, <2>4 DEF ClientInv
<1>5. ASSUME SendEndQuorumEpoch(n) PROVE ClientInv'
  BY <1>5, <1>b DEF SendEndQuorumEpoch, nodeVars
<1>6. ASSUME NEW value \in Values, Propose(n, value) PROVE ClientInv'
  <2> DEFINE entry == [epoch |-> currentEpoch[n], offset |-> LogEndOffset(log[n]),
                       data |-> value]
  <2>1. /\ replies[value] = "unsent" /\ replies'[value] = "waiting"
        /\ waiting'[n] = waiting[n] \union {value}
        /\ \A k \in Voters \ {n} : waiting'[k] = waiting[k]
        /\ \A other \in Values \ {value} : replies'[other] = replies[other]
    BY <1>0, <1>6 DEF Propose
  <2>2. \A k \in Voters : value \notin waiting[k]
    BY <2>1 DEF ClientInv
  <2>3. (\A k \in Voters : Tracked(k) \subseteq Tracked(k)') /\ value \in Tracked(n)'
    <3>1. CASE role[n] = "Leader"
      <4>1. /\ Handle(n, [NoWork EXCEPT !.append = <<entry>>])
            /\ pendingProposes' = [pendingProposes EXCEPT ![n] = @ \union {<<entry.offset, value>>}]
        BY <1>6, <3>1 DEF Propose
      <4>2. /\ pendingProposes'[n] = pendingProposes[n] \union {<<LogEndOffset(log[n]), value>>}
            /\ pendingProposes' = [pendingProposes EXCEPT ![n] = pendingProposes'[n]]
        BY <1>0, <4>1
      <4>3. PendingIds(n) \subseteq PendingIds(n)' /\ value \in PendingIds(n)'
        <5> DEFINE pending == <<LogEndOffset(log[n]), value>>
        <5>1. pending[2] = value /\ pending \in pendingProposes'[n]
          BY <4>2
        <5>2. pendingProposes[n] \subseteq pendingProposes'[n]
          BY <4>2
        <5> HIDE DEF pending
        <5> QED BY <5>1, <5>2 DEF PendingIds
      <4> HIDE DEF entry
      <4>4. \A k \in Voters : Tracked(k) \subseteq Tracked(k)'
        BY <1>0, <4>1, <4>2, <4>3, HandleTracks
      <4> QED BY <4>3, <4>4 DEF Tracked
    <3>2. CASE role[n] # "Leader"
      <4> DEFINE work == [NoWork EXCEPT !.reject = {value}]
      <4>1. Handle(n, work) /\ UNCHANGED pendingProposes /\ work.reject = {value}
        BY <1>6, <3>2 DEF Propose, NoWork
      <4>2. /\ pendingProposes' = [pendingProposes EXCEPT ![n] = pendingProposes'[n]]
            /\ PendingIds(n)' = PendingIds(n)
        BY <1>0, <4>1 DEF PendingIds
      <4> HIDE DEF work
      <4>3. \A k \in Voters : Tracked(k) \subseteq Tracked(k)'
        BY <1>0, <4>1, <4>2, HandleTracks
      <4>4. todo'[n] = work
        BY <1>0, <4>1, IdleFacts
      <4> QED BY <4>1, <4>3, <4>4 DEF Tracked
    <3> QED BY <3>1, <3>2
  <2>4. \A k \in Voters : waiting'[k] \subseteq Tracked(k)'
    <3>1. \A k \in Voters : waiting[k] \subseteq Tracked(k)
      BY DEF ClientInv
    <3> QED BY <2>1, <2>3, <3>1
  <2>5. \A k, j \in Voters : k # j => waiting'[k] \intersect waiting'[j] = {}
    BY <2>1, <2>2 DEF ClientInv
  <2>6. \A other \in Values :
           replies'[other] = "waiting" <=> \E k \in Voters : other \in waiting'[k]
    BY <2>1 DEF ClientInv
  <2> QED BY <2>4, <2>5, <2>6 DEF ClientInv
<1>7. ASSUME NEW to \in Voters, SendFetchRequest(n, to) PROVE ClientInv'
  BY <1>7, <1>b DEF SendFetchRequest, nodeVars
<1> QED BY <1>1, <1>2, <1>3, <1>4, <1>5, <1>6, <1>7

LEMMA ClientInvariant == Spec => []ClientInv
<1>1. Init => ClientInv
  <2> SUFFICES ASSUME Init PROVE ClientInv
    OBVIOUS
  <2>1. TypeOK
    BY TypeInit
  <2>2. /\ \A n \in Voters : waiting[n] = {}
        /\ \A value \in Values : replies[value] # "waiting"
    BY DEF Init
  <2> QED BY <2>1, <2>2 DEF ClientInv
<1>2. ClientInv /\ TypeOK' /\ [Next]_vars => ClientInv'
  <2> SUFFICES ASSUME ClientInv, TypeOK', [Next]_vars PROVE ClientInv'
    OBVIOUS
  <2>0. TypeOK
    BY DEF ClientInv
  <2>1. CASE \E m \in msgs : Receive(m)
    BY <2>0, <2>1, ReceiveTracks, QuietClients
  <2>2. CASE Next /\ ~ \E m \in msgs : Receive(m)
    BY <2>2, VoterClients DEF Next
  <2>3. CASE UNCHANGED vars
    BY <2>3 DEF vars, nodeVars, ClientInv, Tracked, PendingIds
  <2> QED BY <2>1, <2>2, <2>3
<1> QED BY <1>1, <1>2, TypeCorrect, PTL DEF Spec

\* No client is forgotten, by no interleaving of step-downs, commits and crashes:
\* a client that waits at a runner waits for a proposal its node tracks or is about
\* to answer, and it waits at one runner only.
THEOREM ClientsTrackedHolds == Spec => []ClientsTracked
<1>1. ClientInv => ClientsTracked
  <2> SUFFICES ASSUME ClientInv PROVE ClientsTracked
    OBVIOUS
  <2>1. \A n \in Voters : waiting[n] \subseteq Tracked(n)
    BY DEF ClientInv
  <2>2. ASSUME NEW value \in Values
        PROVE  replies[value] = "waiting" <=>
                 \E n \in Voters : /\ value \in waiting[n]
                                   /\ \A k \in Others(n) : value \notin waiting[k]
    BY DEF ClientInv, Others
  <2> QED BY <2>1, <2>2 DEF ClientsTracked, Tracked
<1> QED BY <1>1, ClientInvariant, PTL

-----------------------------------------------------------------------------
(* Logs *)

\* What a voter that is not a follower still has to append: a candidate nothing,
\* a leader at most one entry, of its own epoch, at the end of its log.
Shaped(n) ==
    /\ todo[n].truncate = Nil
    /\ todo[n].append = <<>> \/ role[n] = "Leader"
    /\ \A entry \in ToSet(todo[n].append) :
          /\ todo[n].append = <<entry>>
          /\ entry.epoch = currentEpoch[n]
          /\ entry.offset = LogEndOffset(log[n])
WorkShape == \A n \in Voters : role[n] # "Follower" => Shaped(n)

\* The entries of a response, none for another message.
Carried(m) == IF m.type = "FetchResponse" THEN ToSet(m.entries) ELSE {}

\* Every entry a voter has, is about to append or is about to send, and every
\* entry on the way.
HeldBy(n) == ToSet(log[n]) \union ToSet(todo[n].append)
               \union (UNION {Carried(m) : m \in todo[n].send})
Everywhere == (UNION {HeldBy(n) : n \in Voters}) \union (UNION {Carried(m) : m \in msgs})

\* v has voted for a in the epoch and for nobody else, in memory and on disk.
Pledged(v, a, epoch) ==
    /\ VoteHeld(v, a, epoch) /\ VoteStored(v, a, epoch)
    /\ \A c \in Voters : Backs(v, c, epoch) => c = a \/ <<v, epoch>> \in erased

\* a won the epoch, and is not about to win it again.
Won(a, epoch) ==
    /\ quorumState[a].currentEpoch >= epoch
    /\ ~ (role[a] = "Candidate" /\ currentEpoch[a] = epoch)
    /\ \E Q \in SUBSET Voters : /\ Cardinality(Q) >= Majority
                                /\ \A v \in Q : Pledged(v, a, epoch)

\* One past the last offset a leader has given out.
GivenOut(n) == IF todo[n].append = <<>> THEN LogEndOffset(log[n])
               ELSE LogEndOffset(todo[n].append)

\* The voter that created an entry won the epoch of the entry.
Created == \A x \in Everywhere : \E a \in Voters : Won(a, x.epoch)

\* A leader gives the next entry of its epoch an offset no other entry of it has.
Fresh ==
    \A n \in Voters : role[n] = "Leader" =>
        \A x \in Everywhere :
            x.epoch = currentEpoch[n] => x.offset < GivenOut(n) \/ VoteErased(x.epoch)

Identified ==
    \A x, y \in Everywhere :
        x.epoch = y.epoch /\ x.offset = y.offset =>
            x.data = y.data \/ VoteErased(x.epoch)

ReplicationInv == ElectionInv /\ WorkShape /\ Created /\ Fresh /\ Identified

-----------------------------------------------------------------------------
(* The steps, as far as entries are concerned *)

\* The sets of elements of the sequences the steps build.
LEMMA ElementsAppended ==
    ASSUME NEW S, NEW s \in Seq(S), NEW e \in S
    PROVE  ToSet(Append(s, e)) = ToSet(s) \union {e}
<1>1. ToSet(Append(s, e)) \subseteq ToSet(s) \union {e}
  BY DEF ToSet
<1>2. \A i \in DOMAIN s : i \in DOMAIN Append(s, e) /\ Append(s, e)[i] = s[i]
  OBVIOUS
<1>3. Len(s) + 1 \in DOMAIN Append(s, e) /\ Append(s, e)[Len(s) + 1] = e
  OBVIOUS
<1>4. ToSet(s) \subseteq ToSet(Append(s, e))
  BY <1>2 DEF ToSet
<1>5. e \in ToSet(Append(s, e))
  BY <1>3, Zenon DEF ToSet
<1> QED BY <1>1, <1>4, <1>5

LEMMA SoleElement == ASSUME NEW e PROVE ToSet(<<e>>) = {e}
BY DEF ToSet

LEMMA Elements ==
    /\ ToSet(<<>>) = {}
    /\ \A S : \A s \in Seq(S) : ToSet(s) \subseteq S /\ s \in Seq(ToSet(s))
    /\ \A S : \A s \in Seq(S) : s # <<>> =>
          ToSet(Tail(s)) \subseteq ToSet(s) /\ Head(s) \in ToSet(s)
<1>1. ToSet(<<>>) = {}
  BY DEF ToSet
<1>2. ASSUME NEW S, NEW s \in Seq(S)
      PROVE  ToSet(s) \subseteq S /\ s \in Seq(ToSet(s))
  BY DEF ToSet
<1>3. ASSUME NEW S, NEW s \in Seq(S), s # <<>>
      PROVE  ToSet(Tail(s)) \subseteq ToSet(s) /\ Head(s) \in ToSet(s)
  <2>1. /\ \A i \in DOMAIN Tail(s) : i + 1 \in DOMAIN s /\ Tail(s)[i] = s[i + 1]
        /\ 1 \in DOMAIN s /\ Head(s) = s[1]
    BY <1>3
  <2> QED BY <2>1 DEF ToSet
<1> QED BY <1>1, <1>2, <1>3

\* What is read from a log is in the log.
LEMMA ReadFromLog ==
    ASSUME TypeOK, NEW n \in Voters
    PROVE  \A x, y : /\ ToSet(Entries(log[n], x, y)) \subseteq ToSet(log[n])
                     /\ ToSet(Truncate(log[n], x)) \subseteq ToSet(log[n])
<1>1. log[n] \in Seq(ToSet(log[n]))
  BY Elements DEF TypeOK
<1> QED BY <1>1, EntriesType, Elements

\* Whatever is somewhere is an entry, and what a message carries is somewhere.
LEMMA EverywhereType ==
    TypeOK => /\ Everywhere \subseteq Entry
              /\ \A m \in msgs : Carried(m) \subseteq Everywhere
              /\ \A n \in Voters : HeldBy(n) \subseteq Everywhere
<1>a. /\ \A m \in msgs : Carried(m) \subseteq Everywhere
      /\ \A n \in Voters : HeldBy(n) \subseteq Everywhere
  BY Zenon DEF Everywhere
<1> SUFFICES ASSUME TypeOK PROVE Everywhere \subseteq Entry
  BY <1>a
<1>1. \A m \in Message : Carried(m) \subseteq Entry
  BY MessageFields, Elements DEF Carried
<1>2. ASSUME NEW n \in Voters PROVE HeldBy(n) \subseteq Entry
  <2>1. /\ log[n] \in Seq(Entry) /\ todo[n].append \in Seq(Entry)
        /\ todo[n].send \subseteq Message
    BY DEF TypeOK, Work
  <2>2. ToSet(log[n]) \subseteq Entry /\ ToSet(todo[n].append) \subseteq Entry
    BY <2>1, Elements
  <2> QED BY <1>1, <2>1, <2>2 DEF HeldBy
<1>3. \A m \in msgs : Carried(m) \subseteq Entry
  BY <1>1 DEF TypeOK
<1> QED BY <1>2, <1>3, Zenon DEF Everywhere

\* How the role and the epoch of a voter change: it enters a campaign only in a
\* newer epoch, and comes out of it as leader or as follower.
Campaigns(n) ==
    \/ role'[n] = "Follower"
    \/ /\ role[n] # "Follower"
       /\ currentEpoch'[n] = currentEpoch[n]
       /\ role[n] = "Leader" => role'[n] = "Leader"
    \/ role[n] # "Leader" /\ currentEpoch'[n] > currentEpoch[n]

\* Nothing of this concerns the other voters.
OthersIdle(n) ==
    \A k \in Voters \ {n} :
        /\ log'[k] = log[k] /\ todo'[k] = todo[k]
        /\ role'[k] = role[k] /\ currentEpoch'[k] = currentEpoch[k]

\* A step of n that creates no entry.
Moves(n) ==
    /\ OthersIdle(n)
    /\ Campaigns(n)
    /\ Everywhere' \subseteq Everywhere
    /\ role'[n] # "Follower" => Shaped(n)'
    /\ role[n] = "Leader" /\ role'[n] = "Leader" => GivenOut(n)' = GivenOut(n)

\* A step of n, a leader, that creates an entry.
Creates(n, entry) ==
    /\ OthersIdle(n)
    /\ Idle(n)
    /\ role[n] = "Leader" /\ role'[n] = "Leader" /\ currentEpoch'[n] = currentEpoch[n]
    /\ entry \in Entry
    /\ entry.epoch = currentEpoch[n] /\ entry.offset = LogEndOffset(log[n])
    /\ Everywhere' \subseteq Everywhere \union {entry}
    /\ Shaped(n)'
    /\ GivenOut(n)' = entry.offset + 1

\* Where the entries of the next state come from.
LEMMA Whence ==
    ASSUME NEW n \in Voters, OthersIdle(n), NEW S, Everywhere \subseteq S,
           HeldBy(n)' \subseteq S, \A m \in msgs' : Carried(m) \subseteq S
    PROVE  Everywhere' \subseteq S
<1>1. \A k \in Voters \ {n} : HeldBy(k)' = HeldBy(k)
  BY DEF OthersIdle, HeldBy
<1>2. \A k \in Voters : HeldBy(k)' \subseteq S
  <2>1. \A k \in Voters : HeldBy(k) \subseteq S
    BY Zenon DEF Everywhere
  <2> QED BY <1>1, <2>1
<1>3. \A m : Carried(m)' = Carried(m)
  BY DEF Carried
<1> QED BY <1>2, <1>3, Zenon DEF Everywhere

\* What becomes of the work of a voter that handles an event.
LEMMA HandleWork ==
    ASSUME TypeOK, NEW n \in Voters, NEW work, Handle(n, work), UNCHANGED log,
           \A k \in Voters \ {n} : role'[k] = role[k] /\ currentEpoch'[k] = currentEpoch[k]
    PROVE  /\ OthersIdle(n)
           /\ todo[n].append = <<>>
           /\ todo'[n] = work
           /\ HeldBy(n)' = ToSet(log[n]) \union ToSet(work.append)
                             \union (UNION {Carried(m) : m \in work.send})
<1>1. todo'[n] = work /\ \A k \in Voters \ {n} : todo'[k] = todo[k]
  BY IdleFacts
<1>2. todo[n].append = <<>>
  BY DEF Handle, Idle, NoWork
<1> QED BY <1>1, <1>2 DEF OthersIdle, HeldBy, Carried

\* A handler that creates no entry.
LEMMA HandleMoves ==
    ASSUME TypeOK, NEW n \in Voters, NEW work, Handle(n, work), UNCHANGED <<log, msgs>>,
           \A k \in Voters \ {n} : role'[k] = role[k] /\ currentEpoch'[k] = currentEpoch[k],
           Campaigns(n),
           ToSet(work.append) \subseteq Everywhere,
           \A m \in work.send : Carried(m) \subseteq Everywhere,
           role'[n] # "Follower" => work.append = <<>> /\ work.truncate = Nil
    PROVE  Moves(n)
<1>1. /\ OthersIdle(n) /\ todo[n].append = <<>> /\ todo'[n] = work
      /\ HeldBy(n)' = ToSet(log[n]) \union ToSet(work.append)
                        \union (UNION {Carried(m) : m \in work.send})
  BY HandleWork
<1>2. Everywhere' \subseteq Everywhere
  <2>1. HeldBy(n)' \subseteq Everywhere
    BY <1>1, EverywhereType DEF HeldBy
  <2> QED BY <1>1, <2>1, EverywhereType, Whence
<1>3. role'[n] # "Follower" => Shaped(n)' /\ GivenOut(n)' = GivenOut(n)
  BY <1>1, Elements DEF Shaped, GivenOut
<1> QED BY <1>1, <1>2, <1>3 DEF Moves

\* A voter that becomes a follower.
LEMMA StepDownMoves ==
    ASSUME TypeOK, NEW n \in Voters, NEW epoch, NEW leader, BecomeFollower(n, epoch, leader),
           NEW work, Handle(n, work), UNCHANGED <<log, msgs>>,
           ToSet(work.append) \subseteq Everywhere,
           \A m \in work.send : Carried(m) \subseteq Everywhere
    PROVE  Moves(n)
<1>1. /\ role'[n] = "Follower"
      /\ \A k \in Voters \ {n} : role'[k] = role[k] /\ currentEpoch'[k] = currentEpoch[k]
  BY DEF TypeOK, BecomeFollower
<1> QED BY <1>1, HandleMoves DEF Campaigns

\* A voter whose role and epoch stay.
LEMMA SteadyMoves ==
    ASSUME TypeOK, NEW n \in Voters, UNCHANGED <<role, currentEpoch>>,
           NEW work, Handle(n, work), UNCHANGED <<log, msgs>>,
           ToSet(work.append) \subseteq Everywhere,
           \A m \in work.send : Carried(m) \subseteq Everywhere,
           role[n] # "Follower" => work.append = <<>> /\ work.truncate = Nil
    PROVE  Moves(n)
BY HandleMoves DEF Campaigns

\* Handling a message creates no entry.
LEMMA ReceiveMoves ==
    ASSUME TypeOK, NEW m \in msgs, Receive(m)
    PROVE  Moves(m.to)
<1> DEFINE n == m.to
<1>0. /\ n \in Voters /\ m.from \in Voters /\ m.epoch \in Nat
      /\ currentEpoch \in [Voters -> Nat]
      /\ role \in [Voters -> {"Follower", "Candidate", "Leader"}]
      /\ ToSet(<<>>) = {}
  BY MessageFields, Elements DEF TypeOK
<1>a. Carried(m) \subseteq Everywhere
  BY EverywhereType
<1>b. ASSUME NEW e, NEW s, NEW d, ToSet(s) \subseteq Everywhere
      PROVE  Carried(FetchResponseMsg(n, m.from, e, s, d)) \subseteq Everywhere
  BY <1>b DEF Carried, FetchResponseMsg
<1>1. CASE VoteRequestNewer(m)
  <2> DEFINE granted == CanVote(Nil, m.from) /\ LogUpToDate(n, m)
             work == VoteWork(n, m, m.epoch, granted, TRUE)
  <2>1. /\ Handle(n, work) /\ UNCHANGED <<log, msgs>>
        /\ role'[n] = "Follower"
        /\ \A k \in Voters \ {n} : role'[k] = role[k] /\ currentEpoch'[k] = currentEpoch[k]
    BY <1>0, <1>1 DEF VoteRequestNewer
  <2>2. work.append = <<>> /\ work.truncate = Nil /\ \A x \in work.send : Carried(x) = {}
    <3> HIDE DEF granted
    <3> QED BY DEF VoteWork, NoWork, Carried
  <2> HIDE DEF work
  <2> QED BY <1>0, <2>1, <2>2, HandleMoves DEF Campaigns
<1>2. CASE VoteRequestCurrent(m)
  <2> DEFINE granted == /\ m.epoch = currentEpoch[n]
                        /\ CanVote(votedFor[n], m.from)
                        /\ LogUpToDate(n, m)
             work == VoteWork(n, m, currentEpoch[n], granted, granted)
  <2>1. Handle(n, work) /\ UNCHANGED <<log, msgs, role, currentEpoch>>
    BY <1>0, <1>2 DEF VoteRequestCurrent
  <2>2. work.append = <<>> /\ work.truncate = Nil /\ \A x \in work.send : Carried(x) = {}
    <3> HIDE DEF granted
    <3> QED BY DEF VoteWork, NoWork, Carried
  <2> HIDE DEF work
  <2> QED BY <1>0, <2>1, <2>2, SteadyMoves
<1>3. CASE VoteResponseNewer(m)
  <2> DEFINE work == [NoWork EXCEPT !.persist = TRUE]
  <2>1. work.append = <<>> /\ work.send = {} /\ Handle(n, work)
    BY <1>3 DEF VoteResponseNewer, NoWork
  <2>2. BecomeFollower(n, m.epoch, Nil) /\ UNCHANGED <<log, msgs>>
    BY <1>3 DEF VoteResponseNewer
  <2> HIDE DEF work
  <2> QED BY <1>0, <2>1, <2>2, StepDownMoves
<1>4. CASE VoteResponseGranted(m)
  <2>1. /\ UNCHANGED <<currentEpoch, log, msgs>> /\ role[n] = "Candidate"
        /\ \A k \in Voters \ {n} : role'[k] = role[k]
    BY <1>0, <1>4 DEF VoteResponseGranted, CountsVote, BecomeLeader
  <2>2. PICK work : /\ Handle(n, work) /\ work.append = <<>> /\ work.truncate = Nil
                    /\ \A x \in work.send : Carried(x) = {}
    <3> DEFINE begins == [NoWork EXCEPT !.send = BeginQuorumEpochs(n, currentEpoch[n])]
    <3>1. \A w \in {begins, NoWork} : /\ w.append = <<>> /\ w.truncate = Nil
                                      /\ \A x \in w.send : Carried(x) = {}
      BY DEF NoWork, BeginQuorumEpochs, Carried
    <3>2. Handle(n, begins) \/ Handle(n, NoWork)
      BY <1>4 DEF VoteResponseGranted
    <3> HIDE DEF begins
    <3> QED BY <3>1, <3>2
  <2> QED BY <1>0, <2>1, <2>2, HandleMoves DEF Campaigns
<1>5. CASE QuorumEpoch(m)
  <2> DEFINE work == [NoWork EXCEPT !.persist = TRUE, !.reject = PendingIds(n)]
  <2>1. work.append = <<>> /\ work.send = {} /\ Handle(n, work)
    BY <1>5 DEF QuorumEpoch, NoWork
  <2>2. (\E leader : BecomeFollower(n, m.epoch, leader)) /\ UNCHANGED <<log, msgs>>
    BY <1>5 DEF QuorumEpoch
  <2> HIDE DEF work
  <2> QED BY <1>0, <2>1, <2>2, StepDownMoves
<1>6. CASE FetchRequestNewer(m)
  <2> DEFINE resp == FetchResponseMsg(n, m.from, m.epoch, <<>>, Nil)
             work == [NoWork EXCEPT !.persist = TRUE, !.send = {resp}]
  <2>1. work.append = <<>> /\ work.send = {resp} /\ Handle(n, work)
    BY <1>6 DEF FetchRequestNewer, NoWork
  <2>2. Carried(resp) \subseteq Everywhere
    BY <1>0, <1>b
  <2>3. BecomeFollower(n, m.epoch, Nil) /\ UNCHANGED <<log, msgs>>
    BY <1>6 DEF FetchRequestNewer
  <2> HIDE DEF work, resp
  <2> QED BY <1>0, <2>1, <2>2, <2>3, StepDownMoves
<1>7. CASE FetchRequestRefused(m)
  <2> DEFINE d == IF Serves(n, m) THEN Divergence(n, m.fetchOffset, m.lastFetchedEpoch)
                                  ELSE Nil
             resp == FetchResponseMsg(n, m.from, currentEpoch[n], <<>>, d)
             work == [NoWork EXCEPT !.send = {resp}]
  <2>1. work.append = <<>> /\ work.truncate = Nil /\ work.send = {resp} /\ Handle(n, work)
    BY <1>7 DEF FetchRequestRefused, NoWork
  <2>2. Carried(resp) \subseteq Everywhere
    BY <1>0, <1>b
  <2>3. UNCHANGED <<role, currentEpoch, log, msgs>>
    BY <1>7 DEF FetchRequestRefused, nodeVars
  <2> HIDE DEF work, resp
  <2> QED BY <1>0, <2>1, <2>2, <2>3, SteadyMoves
<1>8. CASE FetchRequestServed(m)
  <2> DEFINE entries == Entries(log[n], m.fetchOffset, LogEndOffset(log[n]))
             resp == FetchResponseMsg(n, m.from, currentEpoch[n], entries, Nil)
  <2>1. PICK c : Handle(n, [NoWork EXCEPT !.send = {resp}, !.commit = c])
    BY <1>8 DEF FetchRequestServed
  <2> DEFINE work == [NoWork EXCEPT !.send = {resp}, !.commit = c]
  <2>2. work.append = <<>> /\ work.truncate = Nil /\ work.send = {resp} /\ Handle(n, work)
    BY <2>1 DEF NoWork
  <2>3. Carried(resp) \subseteq Everywhere
    <3>1. ToSet(entries) \subseteq Everywhere
      BY <1>0, ReadFromLog, EverywhereType DEF HeldBy
    <3> HIDE DEF entries
    <3> QED BY <3>1, <1>b
  <2>4. UNCHANGED <<role, currentEpoch, log, msgs>>
    BY <1>8 DEF FetchRequestServed
  <2> HIDE DEF work, resp
  <2> QED BY <1>0, <2>2, <2>3, <2>4, SteadyMoves
<1>9. CASE FetchResponseNewer(m)
  <2> DEFINE work == [NoWork EXCEPT !.persist = TRUE, !.reject = PendingIds(n)]
  <2>1. work.append = <<>> /\ work.send = {} /\ Handle(n, work)
    BY <1>9 DEF FetchResponseNewer, NoWork
  <2>2. BecomeFollower(n, m.epoch, Nil) /\ UNCHANGED <<log, msgs>>
    BY <1>9 DEF FetchResponseNewer
  <2> HIDE DEF work
  <2> QED BY <1>0, <2>1, <2>2, StepDownMoves
<1>10. CASE FetchResponseDiverging(m)
  <2> DEFINE work == [NoWork EXCEPT !.truncate = m.diverging]
  <2>1. work.append = <<>> /\ work.send = {} /\ Handle(n, work)
    BY <1>10 DEF FetchResponseDiverging, NoWork
  <2>2. UNCHANGED <<role, currentEpoch, log, msgs>> /\ role[n] = "Follower"
    BY <1>10 DEF FetchResponseDiverging, Applies, nodeVars
  <2> HIDE DEF work
  <2> QED BY <1>0, <2>1, <2>2, SteadyMoves
<1>11. CASE FetchResponseData(m)
  <2>1. PICK c : Handle(n, [NoWork EXCEPT !.append = m.entries, !.commit = c])
    BY <1>11 DEF FetchResponseData
  <2> DEFINE work == [NoWork EXCEPT !.append = m.entries, !.commit = c]
  <2>2. work.append = m.entries /\ work.send = {} /\ Handle(n, work)
    BY <2>1 DEF NoWork
  <2>3. /\ UNCHANGED <<role, currentEpoch, log, msgs>> /\ role[n] = "Follower"
        /\ Carried(m) = ToSet(m.entries)
    BY <1>11 DEF FetchResponseData, Applies, Carried
  <2> HIDE DEF work
  <2> QED BY <1>0, <1>a, <2>2, <2>3, SteadyMoves
<1> QED BY <1>1, <1>2, <1>3, <1>4, <1>5, <1>6, <1>7, <1>8, <1>9, <1>10, <1>11
        DEF Receive

\* The end offset of a log after an append.
LEMMA EndAfterAppend ==
    ASSUME NEW s \in Seq(Entry), NEW entry \in Entry
    PROVE  /\ LogEndOffset(Append(s, entry)) = entry.offset + 1
           /\ LogEndOffset(<<entry>>) = entry.offset + 1
<1>1. /\ Append(s, entry) # <<>> /\ Last(Append(s, entry)) = entry
      /\ <<entry>> # <<>> /\ Last(<<entry>>) = entry
  BY DEF Last
<1> QED BY <1>1 DEF LogEndOffset

\* A step of the runner creates no entry.
LEMMA RunMoves ==
    ASSUME TypeOK, WorkShape, NEW n \in Voters, Run(n)
    PROVE  Moves(n)
<1>0. /\ todo \in [Voters -> Work] /\ log \in [Voters -> Seq(Entry)]
      /\ log[n] \in Seq(Entry) /\ todo[n].append \in Seq(Entry)
      /\ role[n] # "Follower" => Shaped(n)
  BY DEF TypeOK, Work, WorkShape
<1>1. UNCHANGED <<role, currentEpoch>>
  BY DEF Run, PersistQuorumState, AppendToLog, TruncateLog, SecondPass, nodeVars
<1>2. OthersIdle(n)
  BY <1>0, <1>1 DEF Run, PersistQuorumState, AppendToLog, TruncateLog, SecondPass, OthersIdle
<1>3. Campaigns(n)
  BY <1>1 DEF Campaigns
<1>4. ASSUME HeldBy(n)' \subseteq HeldBy(n), \A m \in msgs' : Carried(m) \subseteq Everywhere
      PROVE  Everywhere' \subseteq Everywhere
  BY <1>2, <1>4, EverywhereType, Whence
<1>5. \A m \in msgs : Carried(m) \subseteq Everywhere
  BY EverywhereType
<1>6. CASE PersistQuorumState(n)
  <2>1. /\ todo'[n].append = todo[n].append /\ todo'[n].truncate = todo[n].truncate
        /\ todo'[n].send = todo[n].send
        /\ UNCHANGED <<log, msgs>>
    BY <1>0, <1>6 DEF PersistQuorumState, Work
  <2>2. HeldBy(n)' = HeldBy(n) /\ GivenOut(n)' = GivenOut(n) /\ (Shaped(n) => Shaped(n)')
    BY <1>1, <2>1 DEF HeldBy, Carried, GivenOut, Shaped
  <2> QED BY <1>0, <1>1, <1>2, <1>3, <1>4, <1>5, <2>1, <2>2 DEF Moves
<1>7. CASE AppendToLog(n)
  <2> DEFINE entry == Head(todo[n].append)
  <2>1. /\ todo[n].append # <<>> /\ todo'[n].append = Tail(todo[n].append)
        /\ todo'[n].truncate = todo[n].truncate
        /\ todo'[n].send = todo[n].send
        /\ log'[n] = Append(log[n], entry)
        /\ UNCHANGED msgs
    BY <1>0, <1>7 DEF AppendToLog, Work
  <2>2. /\ entry \in Entry /\ entry \in ToSet(todo[n].append)
        /\ ToSet(Tail(todo[n].append)) \subseteq ToSet(todo[n].append)
        /\ ToSet(Append(log[n], entry)) = ToSet(log[n]) \union {entry}
    <3>1. entry \in Entry
      BY <1>0, <2>1
    <3>2. entry \in ToSet(todo[n].append) /\ ToSet(Tail(todo[n].append)) \subseteq ToSet(todo[n].append)
      BY <1>0, <2>1, Elements
    <3>3. ToSet(Append(log[n], entry)) = ToSet(log[n]) \union {entry}
      <4> HIDE DEF entry
      <4> QED BY <1>0, <3>1, ElementsAppended
    <3> QED BY <3>1, <3>2, <3>3
  <2>3. HeldBy(n)' \subseteq HeldBy(n)
    <3> HIDE DEF entry
    <3> QED BY <2>1, <2>2 DEF HeldBy, Carried
  <2>4. ASSUME role[n] # "Follower"
        PROVE  Shaped(n)' /\ GivenOut(n)' = GivenOut(n)
    <3>1. todo[n].append = <<entry>>
      BY <1>0, <2>2, <2>4 DEF Shaped
    <3>2. todo'[n].append = <<>> /\ todo'[n].truncate = Nil
      <4>1. Tail(<<entry>>) = <<>>
        OBVIOUS
      <4>2. todo[n].truncate = Nil
        BY <1>0, <2>4 DEF Shaped
      <4> HIDE DEF entry
      <4> QED BY <2>1, <3>1, <4>1, <4>2
    <3>3. Shaped(n)'
      BY <3>2, Elements DEF Shaped
    <3>4. GivenOut(n)' = entry.offset + 1 /\ GivenOut(n) = entry.offset + 1
      <4> HIDE DEF entry
      <4>1. /\ LogEndOffset(log'[n]) = entry.offset + 1
            /\ LogEndOffset(todo[n].append) = entry.offset + 1
        BY <1>0, <2>1, <2>2, <3>1, EndAfterAppend
      <4>2. GivenOut(n) = LogEndOffset(todo[n].append)
        BY <2>1 DEF GivenOut
      <4>3. GivenOut(n)' = LogEndOffset(log'[n])
        BY <3>2 DEF GivenOut
      <4> QED BY <4>1, <4>2, <4>3
    <3> QED BY <3>3, <3>4
  <2> HIDE DEF entry
  <2> QED BY <1>1, <1>2, <1>3, <1>4, <1>5, <2>1, <2>3, <2>4 DEF Moves
<1>8. CASE TruncateLog(n)
  <2>1. role[n] = "Follower"
    BY <1>0, <1>8 DEF TruncateLog, Shaped
  <2>2. /\ log'[n] = Truncate(log[n], todo[n].truncate)
        /\ todo'[n].append = todo[n].append /\ todo'[n].send = todo[n].send
        /\ UNCHANGED msgs
    BY <1>0, <1>8 DEF TruncateLog, Work
  <2>3. HeldBy(n)' \subseteq HeldBy(n)
    <3>1. ToSet(log'[n]) \subseteq ToSet(log[n])
      BY <2>2, ReadFromLog
    <3> QED BY <2>2, <3>1 DEF HeldBy, Carried
  <2> QED BY <1>1, <1>2, <1>3, <1>4, <1>5, <2>1, <2>2, <2>3 DEF Moves
<1>9. CASE SecondPass(n)
  <2>1. /\ todo'[n] = NoWork /\ UNCHANGED log
        /\ todo[n].append = <<>> /\ todo[n].truncate = Nil
        /\ msgs' = msgs \union todo[n].send
    BY <1>0, <1>9 DEF SecondPass, FirstPassDone
  <2>2. todo'[n].append = <<>> /\ todo'[n].truncate = Nil /\ todo'[n].send = {}
    BY <2>1 DEF NoWork
  <2>3. HeldBy(n)' \subseteq HeldBy(n)
    BY <2>1, <2>2, Elements DEF HeldBy, Carried
  <2>4. \A m \in msgs' : Carried(m) \subseteq Everywhere
    <3>1. \A m \in todo[n].send : Carried(m) \subseteq HeldBy(n)
      BY DEF HeldBy
    <3> QED BY <1>5, <2>1, <3>1, EverywhereType
  <2>5. Shaped(n)' /\ GivenOut(n)' = GivenOut(n)
    BY <2>1, <2>2, Elements DEF Shaped, GivenOut
  <2> QED BY <1>1, <1>2, <1>3, <1>4, <2>3, <2>4, <2>5 DEF Moves
<1> QED BY <1>6, <1>7, <1>8, <1>9 DEF Run

\* A proposal creates an entry on a leader, and nothing elsewhere.
LEMMA ProposeCreates ==
    ASSUME TypeOK, NEW n \in Voters, NEW value \in Values, Propose(n, value)
    PROVE  Moves(n) \/ \E entry : Creates(n, entry) /\ entry.data = value
<1>0. /\ UNCHANGED <<role, currentEpoch, log, msgs>>
      /\ LogEndOffset(log[n]) \in Nat /\ currentEpoch[n] \in Nat
  BY LogFacts DEF Propose, TypeOK
<1>1. CASE role[n] # "Leader"
  <2> DEFINE work == [NoWork EXCEPT !.reject = {value}]
  <2>1. work.append = <<>> /\ work.truncate = Nil /\ work.send = {} /\ Handle(n, work)
    BY <1>1 DEF Propose, NoWork
  <2> HIDE DEF work
  <2> QED BY <1>0, <2>1, Elements, SteadyMoves
<1>2. CASE role[n] = "Leader"
  <2> DEFINE entry == [epoch |-> currentEpoch[n], offset |-> LogEndOffset(log[n]),
                       data |-> value]
             work == [NoWork EXCEPT !.append = <<entry>>]
  <2>1. /\ work.append = <<entry>> /\ work.truncate = Nil /\ work.send = {}
        /\ Handle(n, work)
    BY <1>2 DEF Propose, NoWork
  <2>2. /\ entry \in Entry
        /\ entry.epoch = currentEpoch[n] /\ entry.offset = LogEndOffset(log[n])
        /\ entry.data = value
    BY <1>0 DEF Entry
  <2> HIDE DEF entry, work
  <2>3. ToSet(<<entry>>) = {entry} /\ LogEndOffset(<<entry>>) = entry.offset + 1
    <3>1. <<>> \in Seq(Entry)
      OBVIOUS
    <3> QED BY <2>2, <3>1, SoleElement, EndAfterAppend
  <2>4. /\ OthersIdle(n) /\ todo'[n] = work
        /\ HeldBy(n)' = ToSet(log[n]) \union {entry}
    <3>1. /\ OthersIdle(n) /\ todo'[n] = work
          /\ HeldBy(n)' = ToSet(log[n]) \union ToSet(work.append)
                            \union (UNION {Carried(m) : m \in work.send})
      BY <1>0, <2>1, HandleWork
    <3> QED BY <2>1, <2>3, <3>1
  <2>5. Everywhere' \subseteq Everywhere \union {entry}
    <3>1. HeldBy(n)' \subseteq Everywhere \union {entry}
      BY <2>4, EverywhereType DEF HeldBy
    <3>2. \A m \in msgs' : Carried(m) \subseteq Everywhere \union {entry}
      BY <1>0, EverywhereType
    <3>3. Everywhere \subseteq Everywhere \union {entry}
      OBVIOUS
    <3> QED BY <2>4, <3>1, <3>2, <3>3, Whence
  <2>6. Shaped(n)'
    BY <1>0, <1>2, <2>1, <2>2, <2>3, <2>4 DEF Shaped
  <2>7. GivenOut(n)' = entry.offset + 1
    BY <2>1, <2>3, <2>4 DEF GivenOut
  <2>8. Idle(n)
    BY <2>1 DEF Handle
  <2>9. Creates(n, entry)
    BY <1>0, <1>2, <2>2, <2>4, <2>5, <2>6, <2>7, <2>8 DEF Creates
  <2> QED BY <2>2, <2>9
<1> QED BY <1>1, <1>2

\* Of the other steps of a voter, only a proposal creates an entry.
LEMMA VoterMoves ==
    ASSUME TypeOK, WorkShape, DiskBehind, NEW n \in Voters
    PROVE  /\ ElectionTimeout(n) => Moves(n)
           /\ HeartbeatTimeout(n) => Moves(n)
           /\ Crash(n) => Moves(n)
           /\ SendEndQuorumEpoch(n) => Moves(n)
           /\ \A to \in Voters : SendFetchRequest(n, to) => Moves(n)
<1>0. /\ currentEpoch \in [Voters -> Nat] /\ todo \in [Voters -> Work]
      /\ role \in [Voters -> {"Follower", "Candidate", "Leader"}]
      /\ ToSet(<<>>) = {}
  BY Elements DEF TypeOK
<1>1. ASSUME ElectionTimeout(n) PROVE Moves(n)
  <2>1. PICK send : /\ Handle(n, [NoWork EXCEPT !.persist = TRUE, !.send = send])
                    /\ \A m \in send : Carried(m) = {}
    <3> DEFINE epoch == currentEpoch[n] + 1
               requests == {[type |-> "VoteRequest", from |-> n, to |-> v,
                             epoch |-> epoch, lastLogEpoch |-> LastEpoch(log[n]),
                             lastLogOffset |-> LogEndOffset(log[n])] : v \in Others(n)}
    <3>1. \A m \in requests \union BeginQuorumEpochs(n, epoch) : Carried(m) = {}
      BY DEF BeginQuorumEpochs, Carried
    <3>2. \/ Handle(n, [NoWork EXCEPT !.persist = TRUE, !.send = requests])
          \/ Handle(n, [NoWork EXCEPT !.persist = TRUE, !.send = BeginQuorumEpochs(n, epoch)])
      BY <1>1 DEF ElectionTimeout
    <3> HIDE DEF requests, epoch
    <3> QED BY <3>1, <3>2
  <2> DEFINE work == [NoWork EXCEPT !.persist = TRUE, !.send = send]
  <2>2. work.append = <<>> /\ work.truncate = Nil /\ work.send = send /\ Handle(n, work)
    BY <2>1 DEF NoWork
  <2>3. /\ UNCHANGED <<log, msgs>> /\ role[n] # "Leader"
        /\ currentEpoch'[n] > currentEpoch[n]
        /\ \A k \in Voters \ {n} : role'[k] = role[k] /\ currentEpoch'[k] = currentEpoch[k]
    BY <1>0, <1>1 DEF ElectionTimeout, BecomeLeader
  <2> HIDE DEF work
  <2> QED BY <1>0, <2>1, <2>2, <2>3, HandleMoves DEF Campaigns
<1>2. ASSUME HeartbeatTimeout(n) PROVE Moves(n)
  <2> DEFINE leo == LogEndOffset(log[n])
             entries(v) == Entries(log[n], fetchOffsets[n][v], leo)
             push(v) == FetchResponseMsg(n, v, currentEpoch[n], entries(v), Nil)
             send == {push(v) : v \in Others(n)}
             work == [NoWork EXCEPT !.send = send]
  <2>1. work.append = <<>> /\ work.truncate = Nil /\ work.send = send /\ Handle(n, work)
    BY <1>2 DEF HeartbeatTimeout, NoWork
  <2>2. \A v : Carried(push(v)) \subseteq Everywhere
    <3> TAKE v
    <3>1. ToSet(entries(v)) \subseteq Everywhere
      BY ReadFromLog, EverywhereType DEF HeldBy
    <3> HIDE DEF entries
    <3> QED BY <3>1 DEF Carried, FetchResponseMsg
  <2>3. \A m \in send : Carried(m) \subseteq Everywhere
    <3> HIDE DEF push
    <3> QED BY <2>2
  <2>4. UNCHANGED <<role, currentEpoch, log, msgs>>
    BY <1>2 DEF HeartbeatTimeout, nodeVars
  <2> HIDE DEF work, send
  <2> QED BY <1>0, <2>1, <2>3, <2>4, SteadyMoves
<1>3. ASSUME Crash(n) PROVE Moves(n)
  <2>1. /\ UNCHANGED <<log, msgs>> /\ todo'[n] = NoWork /\ role'[n] = "Follower"
        /\ OthersIdle(n)
    BY <1>0, <1>3 DEF Crash, OthersIdle
  <2>2. HeldBy(n)' \subseteq Everywhere
    <3>1. todo'[n].append = <<>> /\ todo'[n].send = {}
      BY <2>1 DEF NoWork
    <3>2. HeldBy(n)' = ToSet(log[n])
      BY <1>0, <2>1, <3>1 DEF HeldBy
    <3> QED BY <3>2, EverywhereType DEF HeldBy
  <2>3. Everywhere' \subseteq Everywhere
    BY <2>1, <2>2, EverywhereType, Whence
  <2> QED BY <2>1, <2>3 DEF Moves, Campaigns
<1>4. ASSUME UNCHANGED <<nodeVars, log, todo>>, \A m \in msgs' : Carried(m) \subseteq Everywhere
      PROVE  Moves(n)
  <2>1. OthersIdle(n) /\ Campaigns(n)
    BY <1>4 DEF OthersIdle, Campaigns, nodeVars
  <2>2. /\ HeldBy(n)' = HeldBy(n) /\ GivenOut(n)' = GivenOut(n)
        /\ role[n] # "Follower" => Shaped(n)'
    BY <1>4 DEF HeldBy, Carried, GivenOut, WorkShape, Shaped, nodeVars
  <2>3. Everywhere' \subseteq Everywhere
    BY <1>4, <2>1, <2>2, EverywhereType, Whence
  <2> QED BY <1>4, <2>1, <2>2, <2>3 DEF Moves, nodeVars
<1>5. ASSUME SendEndQuorumEpoch(n) PROVE Moves(n)
  <2>1. \A m \in msgs' : Carried(m) \subseteq Everywhere
    BY <1>5, EverywhereType DEF SendEndQuorumEpoch, Carried
  <2> QED BY <1>4, <1>5, <2>1 DEF SendEndQuorumEpoch
<1>6. ASSUME NEW to \in Voters, SendFetchRequest(n, to) PROVE Moves(n)
  <2>1. \A m \in msgs' : Carried(m) \subseteq Everywhere
    BY <1>6, EverywhereType DEF SendFetchRequest, Carried
  <2> QED BY <1>4, <1>6, <2>1 DEF SendFetchRequest
<1> QED BY <1>1, <1>2, <1>3, <1>5, <1>6

-----------------------------------------------------------------------------
(* Who created the entries *)

\* A pledge is kept.
LEMMA PledgedKept ==
    ASSUME ElectionInv, NEW n \in Voters, Kind(n), TypeOK',
           NEW v \in Voters, NEW a \in Voters, NEW epoch \in Nat, Pledged(v, a, epoch)
    PROVE  Pledged(v, a, epoch)'
<1>1. VoteHeld(v, a, epoch)' /\ VoteStored(v, a, epoch)'
  BY HeldKept DEF Pledged
<1>2. ASSUME NEW c \in Voters, Backs(v, c, epoch)'
      PROVE  c = a \/ <<v, epoch>> \in erased'
  <2>1. Backs(v, c, epoch) \/ (currentEpoch'[v] = epoch /\ votedFor'[v] = c)
    BY <1>2, NewBacks
  <2>2. CASE Backs(v, c, epoch)
    <3>1. erased \subseteq erased'
      BY DiskFacts
    <3> QED BY <2>2, <3>1 DEF Pledged
  <2>3. CASE currentEpoch'[v] = epoch /\ votedFor'[v] = c
    BY <1>1, <2>3 DEF VoteHeld
  <2> QED BY <2>1, <2>2, <2>3
<1>3. \A c \in Voters : Backs(v, c, epoch)' => (c = a \/ <<v, epoch>> \in erased')
  BY <1>2
<1> QED BY <1>1, <1>3 DEF Pledged

\* An epoch that was won stays won.
LEMMA WonKept ==
    ASSUME ElectionInv, NEW n \in Voters, Kind(n), TypeOK', OthersIdle(n), Campaigns(n),
           NEW a \in Voters, NEW epoch \in Nat, Won(a, epoch)
    PROVE  Won(a, epoch)'
<1>0. /\ quorumState[a].currentEpoch \in Nat /\ quorumState'[a].currentEpoch \in Nat
      /\ currentEpoch[a] \in Nat /\ currentEpoch'[a] \in Nat
      /\ quorumState[a].currentEpoch <= currentEpoch[a]
      /\ quorumState[a].currentEpoch >= epoch
      /\ role[a] \in {"Follower", "Candidate", "Leader"}
  BY DEF ElectionInv, TypeOK, DiskBehind, QuorumState, Won
<1>1. quorumState'[a].currentEpoch >= epoch
  <2>1. quorumState'[a].currentEpoch >= quorumState[a].currentEpoch
    BY DiskFacts
  <2> QED BY <1>0, <2>1
<1>2. ~ (role'[a] = "Candidate" /\ currentEpoch'[a] = epoch)
  <2>1. ~ (role[a] = "Candidate" /\ currentEpoch[a] = epoch)
    BY DEF Won
  <2>2. CASE a # n
    BY <2>1, <2>2 DEF OthersIdle
  <2>3. CASE a = n
    BY <1>0, <2>1, <2>3 DEF Campaigns
  <2> QED BY <2>2, <2>3
<1>3. PICK Q \in SUBSET Voters : /\ Cardinality(Q) >= Majority
                                 /\ \A v \in Q : Pledged(v, a, epoch)
  BY DEF Won
<1>4. \A v \in Q : Pledged(v, a, epoch)'
  BY <1>3, PledgedKept
<1> QED BY <1>1, <1>2, <1>3, <1>4 DEF Won, Majority

\* A leader that is about to handle an event has won its epoch.
LEMMA LeaderWon ==
    ASSUME ElectionInv, NEW n \in Voters, role[n] = "Leader", Idle(n)
    PROVE  Won(n, currentEpoch[n])
<1> DEFINE epoch == currentEpoch[n]
<1>0. /\ epoch \in Nat /\ votedFor[n] = n
      /\ quorumState[n].currentEpoch = epoch /\ quorumState[n].votedFor = n
  <2>1. ~ todo[n].persist
    BY DEF Idle, NoWork
  <2> QED BY <2>1 DEF ElectionInv, TypeOK, DiskBehind, VotesCounted
<1>1. PICK Q \in SUBSET Voters : /\ Cardinality(Q) >= Majority
                                 /\ \A v \in Q : Backs(v, n, epoch)
  BY <1>0, LedBacked DEF Led
<1>2. ASSUME NEW v \in Q PROVE Pledged(v, n, epoch)
  <2>1. VoteHeld(v, n, epoch) /\ VoteStored(v, n, epoch)
    <3>1. CASE Granted(v, n, epoch)
      <4> DEFINE m == [type |-> "VoteResponse", from |-> v, to |-> n, epoch |-> epoch,
                       granted |-> TRUE]
      <4>1. m \in msgs /\ IsGrant(m) /\ m.from = v /\ m.to = n /\ m.epoch = epoch
        BY <3>1 DEF Granted, IsGrant
      <4> HIDE DEF m
      <4> QED BY <4>1 DEF ElectionInv, VotesKept
    <3>2. CASE v = n
      BY <1>0, <3>2 DEF VoteHeld, VoteStored
    <3> QED BY <1>1, <3>1, <3>2 DEF Backs
  <2>2. \A c \in Voters : Backs(v, c, epoch) => c = n \/ <<v, epoch>> \in erased
    BY <1>0, <1>1 DEF ElectionInv, OneVote
  <2> QED BY <2>1, <2>2 DEF Pledged
<1>3. quorumState[n].currentEpoch >= epoch
  BY <1>0
<1> QED BY <1>1, <1>2, <1>3 DEF Won

\* Who leads an epoch that was won, or has led it, is who won it.
WinnerLeads ==
    \A a, c \in Voters, epoch \in Nat :
        Won(a, epoch) /\ Led(c, epoch) => c = a \/ VoteErased(epoch)

LEMMA WonLed == ElectionInv => WinnerLeads
<1> SUFFICES ASSUME ElectionInv, NEW a \in Voters, NEW c \in Voters, NEW epoch \in Nat,
                    Won(a, epoch), Led(c, epoch)
             PROVE  c = a \/ VoteErased(epoch)
  BY DEF WinnerLeads
<1>1. PICK A \in SUBSET Voters : /\ Cardinality(A) >= Majority
                                 /\ \A v \in A : Pledged(v, a, epoch)
  BY DEF Won
<1>2. PICK C \in SUBSET Voters : /\ Cardinality(C) >= Majority
                                 /\ \A v \in C : Backs(v, c, epoch)
  BY LedBacked
<1>3. PICK v : v \in A /\ v \in C
  <2>1. Cardinality(A) \in Nat /\ Cardinality(C) \in Nat
    BY VotersAssumption, FS_Subset, FS_CardinalityType
  <2>2. Cardinality(A) + Cardinality(C) > Cardinality(Voters)
    BY <1>1, <1>2, <2>1, MajorityType
  <2> QED BY <2>2, VotersAssumption, FS_MajoritiesIntersect
<1>4. v \in Voters /\ Pledged(v, a, epoch) /\ Backs(v, c, epoch)
  BY <1>1, <1>2, <1>3
<1> QED BY <1>4 DEF Pledged, VoteErased

-----------------------------------------------------------------------------
(* The invariant survives both kinds of steps *)

\* What the steps of either kind leave as it was.
LEMMA StepFacts ==
    ASSUME ElectionInv, NEW n \in Voters, Kind(n), TypeOK'
    PROVE  /\ \A epoch : VoteErased(epoch) => VoteErased(epoch)'
           /\ \A k \in Voters : currentEpoch[k] \in Nat
           /\ \A x \in Everywhere : x.epoch \in Nat /\ x.offset \in Nat
           /\ \A k \in Voters : GivenOut(k) \in Nat
<1>1. \A epoch : VoteErased(epoch) => VoteErased(epoch)'
  <2>1. erased \subseteq erased'
    BY DiskFacts
  <2> QED BY <2>1 DEF VoteErased
<1>2. \A k \in Voters : currentEpoch[k] \in Nat
  BY DEF ElectionInv, TypeOK
<1>3. \A x \in Everywhere : x.epoch \in Nat /\ x.offset \in Nat
  BY EverywhereType DEF ElectionInv, Entry
<1>4. ASSUME NEW k \in Voters PROVE GivenOut(k) \in Nat
  <2>1. log[k] \in Seq(LogEntry(Values)) /\ todo[k].append \in Seq(LogEntry(Values))
    BY DEF ElectionInv, TypeOK, Work, Entry, LogEntry
  <2> QED BY <2>1, LastType DEF GivenOut
<1> QED BY <1>1, <1>2, <1>3, <1>4

\* A step that creates no entry keeps the invariant.
LEMMA MovesKeeps ==
    ASSUME ReplicationInv, NEW n \in Voters, Kind(n), Moves(n), ElectionInv'
    PROVE  ReplicationInv'
<1>0. ElectionInv /\ TypeOK' /\ OthersIdle(n) /\ Campaigns(n) /\ Everywhere' \subseteq Everywhere
  BY DEF ReplicationInv, ElectionInv, Moves
<1>1. WorkShape'
  <2>1. \A k \in Voters \ {n} : role'[k] # "Follower" => Shaped(k)'
    BY <1>0 DEF ReplicationInv, WorkShape, Shaped, OthersIdle
  <2>2. role'[n] # "Follower" => Shaped(n)'
    BY DEF Moves
  <2> QED BY <2>1, <2>2 DEF WorkShape
<1>2. Created'
  <2> SUFFICES ASSUME NEW x \in Everywhere' PROVE \E a \in Voters : Won(a, x.epoch)'
    BY DEF Created
  <2>1. PICK a \in Voters : Won(a, x.epoch)
    BY <1>0 DEF ReplicationInv, Created
  <2>2. x.epoch \in Nat
    BY <1>0, StepFacts
  <2> QED BY <1>0, <2>1, <2>2, WonKept
<1>3. Fresh'
  <2> SUFFICES ASSUME NEW k \in Voters, role'[k] = "Leader",
                      NEW x \in Everywhere', x.epoch = currentEpoch'[k]
               PROVE  x.offset < GivenOut(k)' \/ VoteErased(x.epoch)'
    BY DEF Fresh
  <2>1. x \in Everywhere /\ x.epoch \in Nat
    BY <1>0, StepFacts
  <2>2. \A j \in Voters : role[j] = "Leader" /\ x.epoch = currentEpoch[j] =>
             x.offset < GivenOut(j) \/ VoteErased(x.epoch)'
    BY <1>0, <2>1, StepFacts DEF ReplicationInv, Fresh
  <2>3. CASE k # n
    <3>1. role[k] = "Leader" /\ currentEpoch[k] = x.epoch /\ GivenOut(k)' = GivenOut(k)
      BY <1>0, <2>3 DEF OthersIdle, GivenOut
    <3> QED BY <2>2, <3>1
  <2>4. CASE k = n /\ role[n] = "Leader"
    <3>1. currentEpoch[n] = x.epoch /\ GivenOut(n)' = GivenOut(n)
      BY <1>0, <2>4 DEF Campaigns, Moves
    <3> QED BY <2>2, <2>4, <3>1
  <2>5. CASE k = n /\ role[n] # "Leader"
    <3>1. PICK a \in Voters : Won(a, x.epoch)
      BY <2>1 DEF ReplicationInv, Created
    <3>2. Won(a, x.epoch)'
      BY <1>0, <2>1, <3>1, WonKept
    <3>3. Led(n, x.epoch)'
      BY <2>5 DEF Led
    <3>4. WinnerLeads'
      BY WonLed, PTL
    <3>5. n = a \/ VoteErased(x.epoch)'
      BY <2>1, <3>2, <3>3, <3>4 DEF WinnerLeads
    <3>6. n # a
      <4> SUFFICES ASSUME n = a PROVE FALSE
        OBVIOUS
      <4>1. /\ quorumState[n].currentEpoch >= x.epoch
            /\ ~ (role[n] = "Candidate" /\ currentEpoch[n] = x.epoch)
        BY <3>1 DEF Won
      <4>2. /\ quorumState[n].currentEpoch <= currentEpoch[n]
            /\ quorumState[n].currentEpoch \in Nat /\ currentEpoch[n] \in Nat
            /\ currentEpoch'[n] \in Nat
            /\ role[n] \in {"Follower", "Candidate", "Leader"}
        BY <1>0 DEF ElectionInv, DiskBehind, TypeOK, QuorumState
      <4> QED BY <1>0, <2>5, <4>1, <4>2 DEF Campaigns
    <3> QED BY <3>5, <3>6
  <2> QED BY <2>3, <2>4, <2>5
<1>4. Identified'
  <2> SUFFICES ASSUME NEW x \in Everywhere', NEW y \in Everywhere',
                      x.epoch = y.epoch, x.offset = y.offset
               PROVE  x.data = y.data \/ VoteErased(x.epoch)'
    BY DEF Identified
  <2>1. x.data = y.data \/ VoteErased(x.epoch)
    BY <1>0 DEF ReplicationInv, Identified
  <2> QED BY <1>0, <2>1, StepFacts
<1> QED BY <1>1, <1>2, <1>3, <1>4 DEF ReplicationInv

\* A step that creates an entry keeps it.
LEMMA CreatesKeeps ==
    ASSUME ReplicationInv, NEW n \in Voters, Kind(n), NEW entry, Creates(n, entry),
           ElectionInv'
    PROVE  ReplicationInv'
<1>0. /\ ElectionInv /\ TypeOK' /\ OthersIdle(n) /\ Campaigns(n)
      /\ Everywhere' \subseteq Everywhere \union {entry}
      /\ entry.epoch = currentEpoch[n] /\ entry.offset = LogEndOffset(log[n])
      /\ entry.epoch \in Nat /\ entry.offset \in Nat
      /\ role[n] = "Leader"
  BY DEF ReplicationInv, ElectionInv, Creates, Campaigns, Entry
<1>a. GivenOut(n) = entry.offset
  BY <1>0 DEF Creates, Idle, NoWork, GivenOut
<1>b. \A k \in Voters : GivenOut(k) \in Nat
  BY <1>0, StepFacts
<1>1. WorkShape'
  <2>1. \A k \in Voters \ {n} : role'[k] # "Follower" => Shaped(k)'
    BY <1>0 DEF ReplicationInv, WorkShape, Shaped, OthersIdle
  <2>2. Shaped(n)'
    BY DEF Creates
  <2> QED BY <2>1, <2>2 DEF WorkShape
<1>2. Won(n, entry.epoch)
  BY <1>0, LeaderWon DEF Creates
<1>3. Created'
  <2> SUFFICES ASSUME NEW x \in Everywhere' PROVE \E a \in Voters : Won(a, x.epoch)'
    BY DEF Created
  <2>1. PICK a \in Voters : Won(a, x.epoch) /\ x.epoch \in Nat
    <3>1. CASE x = entry
      BY <1>0, <1>2, <3>1
    <3>2. CASE x # entry
      BY <1>0, <3>2, StepFacts DEF ReplicationInv, Created
    <3> QED BY <3>1, <3>2
  <2> QED BY <1>0, <2>1, WonKept
<1>4. Fresh'
  <2> SUFFICES ASSUME NEW k \in Voters, role'[k] = "Leader",
                      NEW x \in Everywhere', x.epoch = currentEpoch'[k]
               PROVE  x.offset < GivenOut(k)' \/ VoteErased(x.epoch)'
    BY DEF Fresh
  <2>1. CASE x # entry
    <3>1. role[k] = "Leader" /\ currentEpoch[k] = x.epoch
      BY <1>0 DEF Creates, OthersIdle
    <3>2. x \in Everywhere /\ x.offset \in Nat
      BY <1>0, <2>1, StepFacts
    <3>3. x.offset < GivenOut(k) \/ VoteErased(x.epoch)'
      BY <1>0, <3>1, <3>2, StepFacts DEF ReplicationInv, Fresh
    <3>4. GivenOut(k) <= GivenOut(k)' /\ GivenOut(k)' \in Nat
      <4>1. CASE k = n
        BY <1>0, <1>a, <4>1 DEF Creates
      <4>2. CASE k # n
        <5>1. GivenOut(k)' = GivenOut(k)
          BY <1>0, <4>2 DEF OthersIdle, GivenOut
        <5> QED BY <1>b, <5>1
      <4> QED BY <4>1, <4>2
    <3> QED BY <1>b, <3>2, <3>3, <3>4
  <2>2. CASE x = entry /\ k = n
    BY <1>0, <2>2 DEF Creates
  <2>3. CASE x = entry /\ k # n
    <3>1. Led(k, x.epoch)
      BY <1>0, <2>3 DEF Led, OthersIdle
    <3>2. k = n \/ VoteErased(x.epoch)
      BY <1>0, <1>2, <2>3, <3>1, WonLed DEF WinnerLeads
    <3> QED BY <1>0, <2>3, <3>2, StepFacts
  <2> QED BY <2>1, <2>2, <2>3
<1>5. Identified'
  <2>1. ASSUME NEW y \in Everywhere, y.epoch = entry.epoch, y.offset = entry.offset
        PROVE  VoteErased(entry.epoch)'
    <3>1. y.offset < GivenOut(n) \/ VoteErased(y.epoch)
      BY <1>0, <2>1 DEF ReplicationInv, Fresh
    <3> QED BY <1>0, <1>a, <2>1, <3>1, StepFacts
  <2> SUFFICES ASSUME NEW x \in Everywhere', NEW y \in Everywhere',
                      x.epoch = y.epoch, x.offset = y.offset
               PROVE  x.data = y.data \/ VoteErased(x.epoch)'
    BY DEF Identified
  <2>2. CASE x \in Everywhere /\ y \in Everywhere
    <3>1. x.data = y.data \/ VoteErased(x.epoch)
      BY <2>2 DEF ReplicationInv, Identified
    <3> QED BY <1>0, <3>1, StepFacts
  <2>3. CASE x = entry \/ y = entry
    BY <1>0, <2>1, <2>3
  <2> QED BY <1>0, <2>2, <2>3
<1> QED BY <1>1, <1>3, <1>4, <1>5 DEF ReplicationInv

\* Every step, a stuttering one apart, is of one of the kinds.
LEMMA StepKind ==
    ASSUME ElectionInv, WorkShape, Next
    PROVE  \E n \in Voters : Kind(n) /\ (Moves(n) \/ \E entry : Creates(n, entry))
<1>0. TypeOK /\ DiskBehind /\ \A m \in msgs : m.to \in Voters
  BY MessageFields DEF ElectionInv, TypeOK
<1>1. CASE \E m \in msgs : Receive(m)
  <2>1. PICK m \in msgs : Receive(m)
    BY <1>1
  <2>2. Kind(m.to) /\ Moves(m.to)
    BY <1>0, <2>1, ReceiveKind, ReceiveMoves DEF Kind
  <2> QED BY <1>0, <2>2
<1>2. CASE ~ \E m \in msgs : Receive(m)
  <2>1. PICK n \in Voters : \/ ElectionTimeout(n) \/ HeartbeatTimeout(n) \/ Run(n)
                            \/ Crash(n) \/ SendEndQuorumEpoch(n)
                            \/ \E value \in Values : Propose(n, value)
                            \/ \E to \in Voters : SendFetchRequest(n, to)
    BY <1>2 DEF Next
  <2>2. Kind(n)
    BY <2>1, VoterKind
  <2>3. Moves(n) \/ \E entry : Creates(n, entry)
    BY <1>0, <2>1, VoterMoves, RunMoves, ProposeCreates
  <2> QED BY <2>2, <2>3
<1> QED BY <1>1, <1>2

\* Nothing changes while the variables do not.
LEMMA StutterKeeps ==
    UNCHANGED vars => /\ Everywhere' = Everywhere
                      /\ WorkShape => WorkShape'
                      /\ ReplicationInv /\ ElectionInv' => ReplicationInv'
<1> SUFFICES ASSUME UNCHANGED vars
             PROVE  /\ Everywhere' = Everywhere
                    /\ WorkShape => WorkShape'
                    /\ ReplicationInv /\ ElectionInv' => ReplicationInv'
  OBVIOUS
<1>0. UNCHANGED <<currentEpoch, votedFor, role, log, quorumState, todo, msgs, erased>>
  BY DEF vars, nodeVars
<1>1. Everywhere' = Everywhere
  <2>1. \A n : HeldBy(n)' = HeldBy(n)
    BY <1>0 DEF HeldBy, Carried
  <2>2. \A m : Carried(m)' = Carried(m)
    BY DEF Carried
  <2> QED BY <1>0, <2>1, <2>2 DEF Everywhere
<1>2. WorkShape => WorkShape'
  BY <1>0 DEF WorkShape, Shaped
<1>3. /\ \A epoch : VoteErased(epoch)' = VoteErased(epoch)
      /\ \A n : GivenOut(n)' = GivenOut(n)
  BY <1>0 DEF VoteErased, GivenOut
<1>4. \A a, epoch : Won(a, epoch) => Won(a, epoch)'
  BY <1>0 DEF Won, Pledged, VoteHeld, VoteStored, Backs, Granted, Announced, Majority
<1>5. Created => Created'
  BY <1>1, <1>4 DEF Created
<1>6. Fresh => Fresh'
  BY <1>0, <1>1, <1>3 DEF Fresh
<1>7. Identified => Identified'
  BY <1>1, <1>3 DEF Identified
<1> QED BY <1>1, <1>2, <1>5, <1>6, <1>7 DEF ReplicationInv

\* The work of a candidate and of a leader keeps its shape, whatever the files the
\* voters started from.
LEMMA ShapeHolds == Spec => []WorkShape
<1>1. Init => WorkShape
  BY DEF Init, WorkShape
<1>2. ElectionInv /\ WorkShape /\ [Next]_vars => WorkShape'
  <2> SUFFICES ASSUME ElectionInv, WorkShape, [Next]_vars PROVE WorkShape'
    OBVIOUS
  <2>1. CASE Next
    <3>1. PICK n \in Voters : Moves(n) \/ \E entry : Creates(n, entry)
      BY <2>1, StepKind
    <3>2. OthersIdle(n) /\ (role'[n] # "Follower" => Shaped(n)')
      BY <3>1 DEF Moves, Creates
    <3>3. \A k \in Voters \ {n} : role'[k] # "Follower" => Shaped(k)'
      BY <3>2 DEF WorkShape, Shaped, OthersIdle
    <3> QED BY <3>2, <3>3 DEF WorkShape
  <2>2. CASE UNCHANGED vars
    BY <2>2, StutterKeeps
  <2> QED BY <2>1, <2>2
<1> QED BY <1>1, <1>2, ElectionInvariant, PTL DEF Spec

\* Files that fit satisfy the invariant.
LEMMA ReplicationInit == Init /\ InitFits => ReplicationInv
<1> SUFFICES ASSUME Init, InitFits PROVE ReplicationInv
  OBVIOUS
<1> DEFINE all == UNION {ToSet(InitLog[n]) : n \in Voters}
<1>0. ElectionInv
  BY ElectionInit
<1>1. \A n \in Voters : /\ role[n] = "Follower" /\ todo[n] = NoWork
                        /\ currentEpoch[n] = InitQuorumState[n].currentEpoch
                        /\ votedFor[n] = InitQuorumState[n].votedFor
                        /\ quorumState[n] = InitQuorumState[n]
                        /\ log[n] = InitLog[n]
  BY DEF Init
<1>2. msgs = {} /\ erased = {}
  BY DEF Init
<1>3. Everywhere = all
  <2>1. \A n \in Voters : HeldBy(n) = ToSet(InitLog[n])
    <3> TAKE n \in Voters
    <3>1. todo[n].append = <<>> /\ todo[n].send = {}
      BY <1>1 DEF NoWork
    <3> QED BY <1>1, <3>1, Elements DEF HeldBy
  <2> QED BY <1>2, <2>1 DEF Everywhere
<1>4. WorkShape /\ Fresh
  BY <1>1 DEF WorkShape, Fresh
<1>5. Identified
  BY <1>3 DEF Identified, InitFits
<1>6. Created
  <2> SUFFICES ASSUME NEW x \in all PROVE \E a \in Voters : Won(a, x.epoch)
    BY <1>3 DEF Created
  <2>1. PICK a \in Voters :
           /\ InitQuorumState[a].currentEpoch >= x.epoch
           /\ \E Q \in SUBSET Voters :
                 /\ Cardinality(Q) >= Majority
                 /\ \A v \in Q : \/ InitQuorumState[v].currentEpoch > x.epoch
                                 \/ InitQuorumState[v] = [currentEpoch |-> x.epoch,
                                                          votedFor |-> a]
    BY DEF InitFits
  <2>2. PICK Q \in SUBSET Voters :
           /\ Cardinality(Q) >= Majority
           /\ \A v \in Q : \/ InitQuorumState[v].currentEpoch > x.epoch
                           \/ InitQuorumState[v] = [currentEpoch |-> x.epoch,
                                                    votedFor |-> a]
    BY <2>1
  <2>3. ASSUME NEW v \in Q PROVE Pledged(v, a, x.epoch)
    <3>1. VoteHeld(v, a, x.epoch) /\ VoteStored(v, a, x.epoch)
      BY <1>1, <2>2 DEF VoteHeld, VoteStored
    <3>2. \A c \in Voters : ~ Backs(v, c, x.epoch)
      BY <1>1, <1>2 DEF Backs, Granted, Announced
    <3> QED BY <3>1, <3>2 DEF Pledged
  <2>4. Won(a, x.epoch)
    BY <1>1, <2>1, <2>2, <2>3 DEF Won
  <2> QED BY <2>4
<1> QED BY <1>0, <1>4, <1>5, <1>6 DEF ReplicationInv

-----------------------------------------------------------------------------
(* The theorems about logs *)

\* The inductive invariant of EntryIdentity, for a quorum that starts from files
\* a quorum can have left behind (a new quorum's, for one).
THEOREM ReplicationInvariant == InitFits /\ Spec => []ReplicationInv
<1>1. ReplicationInv /\ ElectionInv' /\ [Next]_vars => ReplicationInv'
  <2> SUFFICES ASSUME ReplicationInv, ElectionInv', [Next]_vars PROVE ReplicationInv'
    OBVIOUS
  <2>1. CASE Next
    <3>1. PICK n \in Voters : Kind(n) /\ (Moves(n) \/ \E entry : Creates(n, entry))
      BY <2>1, StepKind DEF ReplicationInv
    <3> QED BY <3>1, MovesKeeps, CreatesKeeps
  <2>2. CASE UNCHANGED vars
    BY <2>2, StutterKeeps
  <2> QED BY <2>1, <2>2
<1> QED BY <1>1, ReplicationInit, ElectionInvariant, PTL DEF Spec

\* A new quorum, without files, has files that fit.
LEMMA NewQuorumFits ==
    (\A n \in Voters : InitLog[n] = <<>>) => InitFits
<1>1. (\A n \in Voters : InitLog[n] = <<>>) => UNION {ToSet(InitLog[n]) : n \in Voters} = {}
  BY Elements
<1> QED BY <1>1 DEF InitFits

\* An epoch and an offset identify an entry, in every log and on the way, although
\* followers append whatever arrives without looking at offsets; only an erased vote
\* breaks it.
THEOREM EntryIdentityHolds == InitFits /\ Spec => []EntryIdentity
<1>1. ReplicationInv => EntryIdentity
  <2> SUFFICES ASSUME ReplicationInv, NEW x \in AllEntries, NEW y \in AllEntries,
                      x.epoch = y.epoch, x.offset = y.offset
               PROVE  x.data = y.data \/ VoteErased(x.epoch)
    BY DEF EntryIdentity
  <2>1. AllEntries \subseteq Everywhere
    <3>1. TypeOK
      BY DEF ReplicationInv, ElectionInv
    <3>2. \A n \in Voters : /\ ToSet(log[n]) \subseteq Everywhere
                            /\ ToSet(todo[n].append) \subseteq Everywhere
      BY <3>1, EverywhereType DEF HeldBy
    <3>3. \A m \in msgs : m.type = "FetchResponse" => ToSet(m.entries) \subseteq Everywhere
      BY <3>1, EverywhereType DEF Carried
    <3> QED BY <3>2, <3>3 DEF AllEntries
  <2> QED BY <2>1 DEF ReplicationInv, Identified
<1> QED BY <1>1, ReplicationInvariant, PTL

\* A candidate's log does not change and a leader's only grows, by entries of its own
\* epoch, whatever responses of other leaders are still on the way.
THEOREM OnlyFollowersCopyHolds == Spec => OnlyFollowersCopy
<1>1. TypeOK /\ WorkShape /\ [Next]_vars =>
        [\A n \in Voters :
            role[n] # "Follower" /\ log'[n] # log[n] =>
              /\ role[n] = "Leader"
              /\ \E entry \in ToSet(log'[n]) : /\ log'[n] = Append(log[n], entry)
                                               /\ entry.epoch = currentEpoch[n]]_vars
  <2> SUFFICES ASSUME TypeOK, WorkShape, Next, NEW n \in Voters,
                      role[n] # "Follower", log'[n] # log[n]
               PROVE  /\ role[n] = "Leader"
                      /\ \E entry \in ToSet(log'[n]) : /\ log'[n] = Append(log[n], entry)
                                                       /\ entry.epoch = currentEpoch[n]
    OBVIOUS
  <2>0. /\ Shaped(n) /\ log \in [Voters -> Seq(Entry)] /\ log[n] \in Seq(Entry)
        /\ todo[n].append \in Seq(Entry)
    BY DEF WorkShape, TypeOK, Work
  <2>1. \E k \in Voters : Run(k)
    BY ZenonT(30) DEF Next, Receive, VoteRequestNewer, VoteRequestCurrent, VoteResponseNewer,
       VoteResponseGranted, QuorumEpoch, FetchRequestNewer, FetchRequestRefused,
       FetchRequestServed, FetchResponseNewer, FetchResponseDiverging, FetchResponseData,
       ElectionTimeout, HeartbeatTimeout, Crash, SendEndQuorumEpoch, Propose, SendFetchRequest
  <2>2. AppendToLog(n) \/ TruncateLog(n)
    BY <2>0, <2>1 DEF Run, PersistQuorumState, AppendToLog, TruncateLog, SecondPass
  <2>3. AppendToLog(n)
    BY <2>0, <2>2 DEF TruncateLog, Shaped
  <2> DEFINE entry == Head(todo[n].append)
  <2>4. /\ todo[n].append # <<>> /\ log'[n] = Append(log[n], entry)
        /\ entry \in Entry /\ entry \in ToSet(todo[n].append)
    <3>1. todo[n].append # <<>> /\ log'[n] = Append(log[n], entry)
      BY <2>0, <2>3 DEF AppendToLog
    <3> QED BY <2>0, <3>1, Elements
  <2>5. role[n] = "Leader" /\ entry.epoch = currentEpoch[n]
    BY <2>0, <2>4 DEF Shaped
  <2>6. entry \in ToSet(log'[n])
    <3> HIDE DEF entry
    <3>1. ToSet(Append(log[n], entry)) = ToSet(log[n]) \union {entry}
      BY <2>0, <2>4, ElementsAppended
    <3> QED BY <2>4, <3>1
  <2> QED BY <2>4, <2>5, <2>6
<1> QED BY <1>1, ShapeHolds, TypeCorrect, PTL DEF Spec, OnlyFollowersCopy

-----------------------------------------------------------------------------
(* Commits *)

\* An entry that is found in a log by its offset is still found after an append.
LEMMA EpochAtFound ==
    ASSUME NEW s \in Seq(Entry), NEW offset
    PROVE  /\ \A entry \in Entry : EpochAt(s, offset) # Nil =>
                 EpochAt(Append(s, entry), offset) = EpochAt(s, offset)
           /\ (\E i \in 1 .. Len(s) : s[i].offset = offset) => EpochAt(s, offset) # Nil
<1> DEFINE A(t) == {i \in 1 .. Len(t) : t[i].offset = offset}
<1>1. ASSUME NEW t \in Seq(Entry), A(t) # {}
      PROVE  /\ Min(A(t)) \in A(t) /\ \A i \in A(t) : Min(A(t)) <= i
             /\ EpochAt(t, offset) = t[Min(A(t))].epoch /\ EpochAt(t, offset) \in Nat
  <2>1. A(t) \subseteq Nat /\ \A i \in A(t) : i # 0 /\ t[i] \in Entry
    OBVIOUS
  <2>2. EpochAt(t, offset) = IF A(t) = {} THEN Nil
                             ELSE IF Min(A(t)) = 0 THEN Nil ELSE t[Min(A(t))].epoch
    BY DEF EpochAt, SelectInSeq
  <2> HIDE DEF A
  <2>3. Min(A(t)) \in A(t) /\ \A i \in A(t) : Min(A(t)) <= i
    BY <1>1, <2>1, MinNat
  <2> QED BY <1>1, <2>1, <2>2, <2>3 DEF Entry
<1>2. A(s) = {} => EpochAt(s, offset) = Nil
  BY DEF EpochAt, SelectInSeq
<1>3. ASSUME NEW entry \in Entry, EpochAt(s, offset) # Nil
      PROVE  EpochAt(Append(s, entry), offset) = EpochAt(s, offset)
  <2> DEFINE t == Append(s, entry)
  <2>1. t \in Seq(Entry) /\ A(s) # {}
    BY <1>2, <1>3
  <2>2. /\ A(s) \subseteq A(t) /\ \A i \in A(t) : i \in A(s) \/ i = Len(s) + 1
        /\ \A i \in A(s) : i \in Nat /\ i <= Len(s) /\ t[i] = s[i]
        /\ Len(s) \in Nat
    OBVIOUS
  <2> HIDE DEF A, t
  <2>3. /\ Min(A(s)) \in A(s) /\ \A i \in A(s) : Min(A(s)) <= i
        /\ Min(A(t)) \in A(t) /\ \A i \in A(t) : Min(A(t)) <= i
        /\ EpochAt(s, offset) = s[Min(A(s))].epoch
        /\ EpochAt(t, offset) = t[Min(A(t))].epoch
    BY <1>1, <2>1, <2>2
  <2>4. Min(A(t)) = Min(A(s))
    BY <2>2, <2>3
  <2> QED BY <2>2, <2>3, <2>4 DEF t
<1>4. ASSUME NEW i \in 1 .. Len(s), s[i].offset = offset
      PROVE  EpochAt(s, offset) # Nil
  <2>1. A(s) # {}
    BY <1>4
  <2> HIDE DEF A
  <2> QED BY <1>1, <2>1, NilAssumption
<1> QED BY <1>3, <1>4

\* A log that does not diverge from a request has the entry the request ends with.
LEMMA NoDivergence ==
    ASSUME TypeOK, NEW n \in Voters, NEW offset \in Nat, NEW epoch \in Nat
    PROVE  Divergence(n, offset, epoch) = Nil <=>
              offset = 0 \/ EpochAt(log[n], offset - 1) = epoch
BY LogFacts, NilAssumption DEF Divergence

\* v asked leader n, in its epoch, for an offset at which the logs agree.
Asked(n, v, offset) ==
    \E m \in msgs : /\ m.type = "FetchRequest"
                    /\ m.from = v /\ m.to = n
                    /\ m.epoch = currentEpoch[n]
                    /\ m.fetchOffset = offset
                    /\ Divergence(n, m.fetchOffset, m.lastFetchedEpoch) = Nil

\* What a leader knows of the others' logs it learned from their requests.
OffsetsAsked ==
    \A n \in Voters : role[n] = "Leader" =>
        \A v \in Voters \ {n} :
            fetchOffsets[n][v] = 0 \/ Asked(n, v, fetchOffsets[n][v])

\* What a step may do to leader k: make it leader, extend its log, or record
\* the offset of a request that does not diverge from its log.
Learns(k) ==
    \/ fetchOffsets'[k] = [v \in Voters |-> 0]
    \/ /\ role[k] = "Leader" /\ currentEpoch'[k] = currentEpoch[k]
       /\ fetchOffsets'[k] = fetchOffsets[k]
       /\ log'[k] = log[k] \/ \E entry \in Entry : log'[k] = Append(log[k], entry)
    \/ /\ role[k] = "Leader" /\ currentEpoch'[k] = currentEpoch[k]
       /\ log'[k] = log[k]
       /\ \E m \in msgs :
             /\ m.type = "FetchRequest" /\ m.to = k /\ m.epoch = currentEpoch[k]
             /\ Divergence(k, m.fetchOffset, m.lastFetchedEpoch) = Nil
             /\ fetchOffsets'[k] = [fetchOffsets[k] EXCEPT ![m.from] = m.fetchOffset]

\* Handling a message.
LEMMA ReceiveLearns ==
    ASSUME TypeOK, NEW m \in msgs, Receive(m)
    PROVE  msgs' = msgs /\ \A k \in Voters : role'[k] = "Leader" => Learns(k)
<1> DEFINE n == m.to
<1>0. /\ n \in Voters /\ m.from \in Voters
      /\ role \in [Voters -> {"Follower", "Candidate", "Leader"}]
      /\ currentEpoch \in [Voters -> Nat] /\ log \in [Voters -> Seq(Entry)]
      /\ fetchOffsets \in [Voters -> [Voters -> Nat]]
  BY MessageFields DEF TypeOK
<1>1. msgs' = msgs /\ log' = log
  BY DEF Receive, VoteRequestNewer, VoteRequestCurrent, VoteResponseNewer,
     VoteResponseGranted, QuorumEpoch, FetchRequestNewer, FetchRequestRefused,
     FetchRequestServed, FetchResponseNewer, FetchResponseDiverging, FetchResponseData
<1>2. ASSUME UNCHANGED <<role, currentEpoch, fetchOffsets>>
      PROVE  \A k \in Voters : role'[k] = "Leader" => Learns(k)
  BY <1>1, <1>2 DEF Learns
<1>3. ASSUME UNCHANGED fetchOffsets, role' = [role EXCEPT ![n] = "Follower"],
             \E epoch : currentEpoch' = [currentEpoch EXCEPT ![n] = epoch]
      PROVE  \A k \in Voters : role'[k] = "Leader" => Learns(k)
  BY <1>0, <1>1, <1>3 DEF Learns
<1>4. CASE \/ VoteRequestNewer(m) \/ VoteResponseNewer(m) \/ QuorumEpoch(m)
           \/ FetchRequestNewer(m) \/ FetchResponseNewer(m)
  BY <1>1, <1>3, <1>4 DEF VoteRequestNewer, VoteResponseNewer, QuorumEpoch,
     FetchRequestNewer, FetchResponseNewer, BecomeFollower
<1>5. CASE \/ VoteRequestCurrent(m) \/ FetchRequestRefused(m)
           \/ FetchResponseDiverging(m) \/ FetchResponseData(m)
  BY <1>1, <1>2, <1>5 DEF VoteRequestCurrent, FetchRequestRefused,
     FetchResponseDiverging, FetchResponseData, nodeVars
<1>6. CASE VoteResponseGranted(m)
  <2>1. CASE UNCHANGED <<role, fetchOffsets>>
    BY <1>1, <1>2, <1>6, <2>1 DEF VoteResponseGranted
  <2>2. CASE BecomeLeader(n)
    BY <1>0, <1>1, <1>6, <2>2 DEF VoteResponseGranted, BecomeLeader, Learns
  <2> QED BY <1>6, <2>1, <2>2 DEF VoteResponseGranted
<1>7. CASE FetchRequestServed(m)
  <2>1. /\ m.type = "FetchRequest" /\ role[n] = "Leader" /\ m.epoch = currentEpoch[n]
        /\ Divergence(n, m.fetchOffset, m.lastFetchedEpoch) = Nil
        /\ fetchOffsets'[n] = [fetchOffsets[n] EXCEPT ![m.from] = m.fetchOffset]
        /\ UNCHANGED <<role, currentEpoch>>
        /\ \A k \in Voters \ {n} : fetchOffsets'[k] = fetchOffsets[k]
    BY <1>0, <1>7 DEF FetchRequestServed, Serves
  <2>2. Learns(n)
    BY <1>1, <2>1 DEF Learns
  <2>3. \A k \in Voters \ {n} : role'[k] = "Leader" => Learns(k)
    BY <1>1, <2>1 DEF Learns
  <2> QED BY <1>1, <2>2, <2>3
<1> QED BY <1>4, <1>5, <1>6, <1>7 DEF Receive

\* Every step.
LEMMA StepLearns ==
    ASSUME TypeOK, WorkShape, [Next]_vars
    PROVE  /\ msgs \subseteq msgs'
           /\ \A k \in Voters : role'[k] = "Leader" => Learns(k)
<1>0. /\ role \in [Voters -> {"Follower", "Candidate", "Leader"}]
      /\ currentEpoch \in [Voters -> Nat] /\ log \in [Voters -> Seq(Entry)]
      /\ fetchOffsets \in [Voters -> [Voters -> Nat]] /\ todo \in [Voters -> Work]
  BY DEF TypeOK
<1>1. ASSUME UNCHANGED <<role, currentEpoch, fetchOffsets, log>>
      PROVE  \A k \in Voters : role'[k] = "Leader" => Learns(k)
  BY <1>1 DEF Learns
<1>2. CASE \E m \in msgs : Receive(m)
  BY <1>2, ReceiveLearns
<1>3. ASSUME NEW n \in Voters, ElectionTimeout(n)
      PROVE  msgs' = msgs /\ \A k \in Voters : role'[k] = "Leader" => Learns(k)
  <2>1. /\ msgs' = msgs /\ log' = log
        /\ currentEpoch' = [currentEpoch EXCEPT ![n] = currentEpoch[n] + 1]
        /\ \/ BecomeLeader(n)
           \/ role' = [role EXCEPT ![n] = "Candidate"] /\ UNCHANGED fetchOffsets
    BY <1>3 DEF ElectionTimeout
  <2>2. Learns(n) \/ role'[n] # "Leader"
    BY <1>0, <2>1 DEF BecomeLeader, Learns
  <2>3. \A k \in Voters \ {n} : role'[k] = "Leader" => Learns(k)
    BY <1>0, <2>1 DEF BecomeLeader, Learns
  <2> QED BY <2>1, <2>2, <2>3
<1>4. ASSUME NEW n \in Voters, HeartbeatTimeout(n) \/ SendEndQuorumEpoch(n)
                \/ PersistQuorumState(n) \/ SecondPass(n)
                \/ (\E value \in Values : Propose(n, value))
                \/ \E to \in Voters : SendFetchRequest(n, to)
      PROVE  msgs \subseteq msgs' /\ UNCHANGED <<role, currentEpoch, fetchOffsets, log>>
  BY <1>4 DEF HeartbeatTimeout, SendEndQuorumEpoch, PersistQuorumState, SecondPass,
     Propose, SendFetchRequest, nodeVars
<1>5. ASSUME NEW n \in Voters, AppendToLog(n)
      PROVE  msgs' = msgs /\ \A k \in Voters : role'[k] = "Leader" => Learns(k)
  <2> DEFINE entry == Head(todo[n].append)
  <2>1. /\ UNCHANGED <<role, currentEpoch, fetchOffsets, msgs>>
        /\ log'[n] = Append(log[n], entry)
        /\ \A k \in Voters \ {n} : log'[k] = log[k]
        /\ entry \in Entry
    BY <1>0, <1>5 DEF AppendToLog, nodeVars, Work
  <2> HIDE DEF entry
  <2> QED BY <2>1 DEF Learns
<1>6. ASSUME NEW n \in Voters, TruncateLog(n)
      PROVE  msgs' = msgs /\ \A k \in Voters : role'[k] = "Leader" => Learns(k)
  <2>1. role[n] = "Follower"
    BY <1>6 DEF TruncateLog, WorkShape, Shaped
  <2>2. /\ UNCHANGED <<role, currentEpoch, fetchOffsets, msgs>>
        /\ \A k \in Voters \ {n} : log'[k] = log[k]
    BY <1>0, <1>6 DEF TruncateLog, nodeVars
  <2> QED BY <2>1, <2>2 DEF Learns
<1>7. ASSUME NEW n \in Voters, Crash(n)
      PROVE  msgs' = msgs /\ \A k \in Voters : role'[k] = "Leader" => Learns(k)
  BY <1>0, <1>7 DEF Crash, Learns
<1>8. CASE UNCHANGED vars
  BY <1>1, <1>8 DEF vars, nodeVars
<1>9. CASE \E n \in Voters : Run(n)
  BY <1>1, <1>4, <1>5, <1>6, <1>9 DEF Run
<1> QED BY <1>1, <1>2, <1>3, <1>4, <1>7, <1>8, <1>9 DEF Next

\* A request that did not diverge from a log does not after an append to it.
LEMMA AskedKept ==
    ASSUME TypeOK, TypeOK', msgs \subseteq msgs',
           NEW n \in Voters, NEW v \in Voters, NEW offset,
           currentEpoch'[n] = currentEpoch[n],
           log'[n] = log[n] \/ \E entry \in Entry : log'[n] = Append(log[n], entry),
           Asked(n, v, offset)
    PROVE  Asked(n, v, offset)'
<1>1. PICK m \in msgs :
         /\ m.type = "FetchRequest" /\ m.from = v /\ m.to = n
         /\ m.epoch = currentEpoch[n] /\ m.fetchOffset = offset
         /\ Divergence(n, m.fetchOffset, m.lastFetchedEpoch) = Nil
  BY DEF Asked
<1>2. m.fetchOffset \in Nat /\ m.lastFetchedEpoch \in Nat /\ log[n] \in Seq(Entry)
  BY <1>1, MessageFields DEF TypeOK
<1>3. m.fetchOffset = 0 \/ EpochAt(log[n], m.fetchOffset - 1) = m.lastFetchedEpoch
  BY <1>1, <1>2, NoDivergence
<1>4. m.fetchOffset = 0 \/ EpochAt(log'[n], m.fetchOffset - 1) = m.lastFetchedEpoch
  <2>1. CASE log'[n] = log[n]
    BY <1>3, <2>1
  <2>2. CASE \E entry \in Entry : log'[n] = Append(log[n], entry)
    <3>1. PICK entry \in Entry : log'[n] = Append(log[n], entry)
      BY <2>2
    <3>2. EpochAt(log[n], m.fetchOffset - 1) # Nil =>
             EpochAt(Append(log[n], entry), m.fetchOffset - 1)
               = EpochAt(log[n], m.fetchOffset - 1)
      BY <1>2, EpochAtFound
    <3> QED BY <1>2, <1>3, <3>1, <3>2, NilAssumption
  <2> QED BY <2>1, <2>2
<1>5. Divergence(n, m.fetchOffset, m.lastFetchedEpoch)' = Nil
  BY <1>4 DEF Divergence
<1> QED BY <1>1, <1>5 DEF Asked

LEMMA OffsetsAskedHolds == Spec => []OffsetsAsked
<1>1. Init => OffsetsAsked
  BY DEF Init, OffsetsAsked
<1>2. TypeOK /\ TypeOK' /\ WorkShape /\ OffsetsAsked /\ [Next]_vars => OffsetsAsked'
  <2> SUFFICES ASSUME TypeOK, TypeOK', WorkShape, OffsetsAsked, [Next]_vars,
                      NEW n \in Voters, role'[n] = "Leader", NEW v \in Voters \ {n}
               PROVE  fetchOffsets'[n][v] = 0 \/ Asked(n, v, fetchOffsets[n][v])'
    BY DEF OffsetsAsked
  <2>0. msgs \subseteq msgs' /\ Learns(n) /\ fetchOffsets \in [Voters -> [Voters -> Nat]]
    BY StepLearns DEF TypeOK
  <2>1. CASE fetchOffsets'[n] = [k \in Voters |-> 0]
    BY <2>1
  <2>2. ASSUME role[n] = "Leader", currentEpoch'[n] = currentEpoch[n],
               log'[n] = log[n] \/ \E entry \in Entry : log'[n] = Append(log[n], entry),
               fetchOffsets'[n][v] = fetchOffsets[n][v]
        PROVE  fetchOffsets'[n][v] = 0 \/ Asked(n, v, fetchOffsets[n][v])'
    <3>1. CASE fetchOffsets[n][v] = 0
      BY <2>2, <3>1
    <3>2. CASE fetchOffsets[n][v] # 0
      <4>1. Asked(n, v, fetchOffsets[n][v])
        BY <2>2, <3>2 DEF OffsetsAsked
      <4>2. \A offset : Asked(n, v, offset) => Asked(n, v, offset)'
        <5>1. SUFFICES ASSUME NEW offset, Asked(n, v, offset)
                       PROVE  Asked(n, v, offset)'
          OBVIOUS
        <5> QED BY <2>0, <2>2, <5>1, AskedKept
      <4>3. PICK offset : offset = fetchOffsets[n][v]
        OBVIOUS
      <4>4. Asked(n, v, offset)
        BY <4>1, <4>3
      <4>5. Asked(n, v, offset)'
        BY <4>2, <4>4
      <4>6. offset = fetchOffsets'[n][v]
        BY <2>2, <4>3
      <4> QED BY <4>5, <4>6 DEF Asked
    <3> QED BY <3>1, <3>2
  <2>3. ASSUME NEW m \in msgs,
               role[n] = "Leader", currentEpoch'[n] = currentEpoch[n], log'[n] = log[n],
               m.type = "FetchRequest", m.to = n, m.epoch = currentEpoch[n],
               Divergence(n, m.fetchOffset, m.lastFetchedEpoch) = Nil,
               fetchOffsets'[n] = [fetchOffsets[n] EXCEPT ![m.from] = m.fetchOffset]
        PROVE  fetchOffsets'[n][v] = 0 \/ Asked(n, v, fetchOffsets[n][v])'
    <3>1. CASE m.from = v
      <4>1. fetchOffsets'[n][v] = m.fetchOffset
        BY <2>0, <2>3, <3>1
      <4>2. Divergence(n, m.fetchOffset, m.lastFetchedEpoch)' = Nil
        BY <2>3 DEF Divergence
      <4> QED BY <2>0, <2>3, <3>1, <4>1, <4>2 DEF Asked
    <3>2. CASE m.from # v
      <4>1. fetchOffsets'[n][v] = fetchOffsets[n][v]
        BY <2>0, <2>3, <3>2
      <4> QED BY <2>2, <2>3, <4>1
    <3> QED BY <3>1, <3>2
  <2> QED BY <2>0, <2>1, <2>2, <2>3 DEF Learns
<1> QED BY <1>1, <1>2, TypeCorrect, ShapeHolds, PTL DEF Spec

\* An offset a leader's log ends at, or that a voter has asked for, is one past
\* an entry of the leader's log.
LEMMA ReachedFound ==
    ASSUME TypeOK, NEW n \in Voters, NEW hwm \in Nat \ {0}
    PROVE  /\ LogEndOffset(log[n]) = hwm => EpochAt(log[n], hwm - 1) # Nil
           /\ \A v \in Voters : Asked(n, v, hwm) => EpochAt(log[n], hwm - 1) # Nil
<1>0. log[n] \in Seq(Entry)
  BY DEF TypeOK
<1>1. ASSUME LogEndOffset(log[n]) = hwm
      PROVE  EpochAt(log[n], hwm - 1) # Nil
  <2>1. /\ log[n] # <<>> /\ Len(log[n]) \in 1 .. Len(log[n])
        /\ log[n][Len(log[n])].offset + 1 = hwm
        /\ log[n][Len(log[n])].offset \in Nat
    <3>1. log[n] # <<>> /\ Len(log[n]) \in 1 .. Len(log[n])
      BY <1>0, <1>1 DEF LogEndOffset
    <3>2. log[n][Len(log[n])] \in Entry
      BY <1>0, <3>1
    <3>3. log[n][Len(log[n])].offset + 1 = hwm
      BY <1>1, <3>1 DEF LogEndOffset, Last
    <3> QED BY <3>1, <3>2, <3>3 DEF Entry
  <2>2. \E i \in 1 .. Len(log[n]) : log[n][i].offset = hwm - 1
    BY <2>1
  <2> QED BY <1>0, <2>2, EpochAtFound
<1>2. ASSUME NEW v \in Voters, Asked(n, v, hwm)
      PROVE  EpochAt(log[n], hwm - 1) # Nil
  <2>1. PICK m \in msgs : /\ m.type = "FetchRequest" /\ m.fetchOffset = hwm
                          /\ Divergence(n, m.fetchOffset, m.lastFetchedEpoch) = Nil
    BY <1>2 DEF Asked
  <2>2. m.fetchOffset \in Nat /\ m.lastFetchedEpoch \in Nat
    BY <2>1, MessageFields DEF TypeOK
  <2> QED BY <2>1, <2>2, NoDivergence, NilAssumption
<1> QED BY <1>1, <1>2

\* Serving a request, the only way a leader's high watermark rises.
LEMMA ServedBacked ==
    ASSUME TypeOK, OffsetsAsked, NEW m \in msgs, FetchRequestServed(m),
           NEW n \in Voters, highWatermark'[n] > highWatermark[n]
    PROVE  LET hwm == highWatermark'[n]
               self(v) == v = n /\ LogEndOffset(log[n]) >= hwm
           IN  /\ Cardinality({v \in Voters : HasAsked(n, v, hwm) \/ self(v)}) >= Majority
               /\ EpochAt(log[n], hwm - 1) = currentEpoch[n]
<1> DEFINE offsets == [fetchOffsets[n] EXCEPT ![m.from] = m.fetchOffset]
           reached == [offsets EXCEPT ![n] = LogEndOffset(log[n])]
           hwm == highWatermark'[n]
           asked(v) == HasAsked(n, v, hwm)
           self(v) == v = n /\ LogEndOffset(log[n]) >= hwm
           counted == {v \in Voters : reached[v] >= hwm}
<1>0. /\ m.to \in Voters /\ m.from \in Voters /\ highWatermark \in [Voters -> Nat]
      /\ fetchOffsets \in [Voters -> [Voters -> Nat]]
  BY MessageFields DEF TypeOK
<1>1. /\ n = m.to /\ m.type = "FetchRequest"
      /\ role[n] = "Leader" /\ m.epoch = currentEpoch[n]
      /\ Divergence(n, m.fetchOffset, m.lastFetchedEpoch) = Nil
      /\ hwm = AdvancedHighWatermark(n, offsets)
  <2>1. /\ m.type = "FetchRequest" /\ role[m.to] = "Leader"
        /\ m.epoch = currentEpoch[m.to]
        /\ Divergence(m.to, m.fetchOffset, m.lastFetchedEpoch) = Nil
    BY DEF FetchRequestServed, Serves
  <2>2. \E h : /\ highWatermark' = [highWatermark EXCEPT ![m.to] = h]
               /\ h = AdvancedHighWatermark(m.to, [fetchOffsets[m.to]
                                                     EXCEPT ![m.from] = m.fetchOffset])
    BY DEF FetchRequestServed
  <2>3. n = m.to
    BY <1>0, <2>2
  <2> QED BY <1>0, <2>1, <2>2, <2>3
<1>2. m.fetchOffset \in Nat
  BY <1>1, MessageFields DEF TypeOK
<1>3. offsets \in [Voters -> Nat] /\ LogEndOffset(log[n]) \in Nat
  BY <1>0, <1>2, LogFacts
<1>4. /\ hwm = MajorityOffset(n, offsets) /\ hwm > highWatermark[n]
      /\ EpochAt(log[n], hwm - 1) \in {Nil, currentEpoch[n]}
  <2> HIDE DEF offsets, hwm
  <2>1. hwm > highWatermark[n]
    BY DEF hwm
  <2>2. highWatermark[n] \in Nat
    BY <1>0
  <2>3. hwm # highWatermark[n]
    BY <1>0, <1>1, <1>3, <2>1, <2>2, WatermarkType
  <2> QED BY <1>1, <2>1, <2>3 DEF AdvancedHighWatermark
<1>5. /\ hwm \in Nat \ {0}
      /\ \E v \in Voters : reached[v] = hwm
      /\ Cardinality(counted) >= Majority
  <2>1. /\ MajorityOffset(n, offsets) \in Nat
        /\ \E v \in Voters : reached[v] = MajorityOffset(n, offsets)
        /\ Cardinality({v \in Voters : reached[v] >= MajorityOffset(n, offsets)}) >= Majority
    <3> HIDE DEF offsets
    <3> QED BY <1>3, MajorityReached
  <2> HIDE DEF offsets
  <2> QED BY <1>0, <1>4, <2>1
<1>6. ASSUME NEW v \in Voters \ {n}
      PROVE  reached[v] = offsets[v] /\ offsets[v] \in Nat
             /\ (offsets[v] = 0 \/ Asked(n, v, offsets[v]))
  <2>1. reached[v] = offsets[v] /\ offsets[v] \in Nat
    <3> HIDE DEF offsets
    <3> QED BY <1>3
  <2>2. CASE v = m.from
    <3>1. offsets[v] = m.fetchOffset
      BY <1>0, <2>2
    <3> HIDE DEF offsets
    <3> QED BY <1>1, <2>1, <2>2, <3>1 DEF Asked
  <2>3. CASE v # m.from
    <3>1. offsets[v] = fetchOffsets[n][v]
      BY <1>0, <2>3
    <3> HIDE DEF offsets
    <3> QED BY <1>1, <2>1, <3>1 DEF OffsetsAsked
  <2> QED BY <2>1, <2>2, <2>3
<1>7. reached[n] = LogEndOffset(log[n])
  <2> HIDE DEF offsets
  <2> QED BY <1>3
<1> HIDE DEF offsets, reached, hwm
<1>8. EpochAt(log[n], hwm - 1) # Nil
  <2>1. PICK v \in Voters : reached[v] = hwm
    BY <1>5
  <2>2. CASE v = n
    BY <1>5, <1>7, <2>1, <2>2, ReachedFound
  <2>3. CASE v # n
    <3>1. Asked(n, v, hwm)
      BY <1>5, <1>6, <2>1, <2>3
    <3> QED BY <1>5, <3>1, ReachedFound
  <2> QED BY <2>2, <2>3
<1>9. counted \subseteq {v \in Voters : asked(v) \/ self(v)}
  <2> SUFFICES ASSUME NEW v \in Voters, reached[v] >= hwm
               PROVE  asked(v) \/ self(v)
    OBVIOUS
  <2>1. CASE v = n
    BY <1>7, <2>1
  <2>2. CASE v # n
    BY <1>5, <1>6, <2>2 DEF Asked, HasAsked
  <2> QED BY <2>1, <2>2
<1>10. Cardinality({v \in Voters : asked(v) \/ self(v)}) >= Majority
  <2> DEFINE behind == {v \in Voters : asked(v) \/ self(v)}
  <2>1. counted \subseteq behind /\ behind \subseteq Voters
    BY <1>9
  <2> HIDE DEF behind, counted
  <2>2. IsFiniteSet(behind) /\ IsFiniteSet(counted)
    BY <2>1, VotersAssumption, FS_Subset
  <2>3. Cardinality(counted) <= Cardinality(behind)
        /\ Cardinality(counted) \in Nat /\ Cardinality(behind) \in Nat
    BY <2>1, <2>2, FS_Subset, FS_CardinalityType
  <2>4. Cardinality(behind) >= Majority
    BY <1>5, <2>3, MajorityType
  <2> QED BY <2>4 DEF behind
<1> QED BY <1>4, <1>8, <1>10 DEF hwm

LEMMA RaisedByServing ==
    ASSUME TypeOK, [Next]_vars, NEW n \in Voters, role[n] = "Leader", role'[n] = "Leader",
           highWatermark'[n] > highWatermark[n]
    PROVE  \E m \in msgs : FetchRequestServed(m)
<1>0. /\ role \in [Voters -> {"Follower", "Candidate", "Leader"}]
      /\ highWatermark \in [Voters -> Nat]
  BY DEF TypeOK
<1>1. highWatermark'[n] # highWatermark[n]
  BY <1>0
<1>2. ASSUME NEW k \in Voters, Crash(k) PROVE FALSE
  BY <1>0, <1>1, <1>2 DEF Crash
<1>3. ASSUME NEW m \in msgs, FetchResponseData(m) PROVE FALSE
  <2>1. m.to \in Voters
    BY MessageFields DEF TypeOK
  <2>2. role[m.to] = "Follower" /\ \A k \in Voters \ {m.to} : highWatermark'[k] = highWatermark[k]
    BY <1>0, <1>3, <2>1 DEF FetchResponseData, Applies
  <2> QED BY <1>1, <2>1, <2>2
<1>4. ASSUME NEW m \in msgs, Receive(m) PROVE FetchRequestServed(m)
  BY <1>1, <1>3, <1>4 DEF Receive, VoteRequestNewer, VoteRequestCurrent,
     VoteResponseNewer, VoteResponseGranted, QuorumEpoch, FetchRequestNewer,
     FetchRequestRefused, FetchResponseNewer, FetchResponseDiverging, nodeVars
<1>5. CASE Next
  BY <1>1, <1>2, <1>4, <1>5, ZenonT(30) DEF Next, ElectionTimeout, HeartbeatTimeout, Run,
     PersistQuorumState, AppendToLog, TruncateLog, SecondPass, SendEndQuorumEpoch,
     Propose, SendFetchRequest, nodeVars
<1>6. CASE UNCHANGED vars
  BY <1>1, <1>6 DEF vars, nodeVars
<1> QED BY <1>5, <1>6

\* A leader's high watermark rises only over an entry of its own epoch, and only
\* when a majority asked, in that epoch and with a log that does not diverge, for
\* what follows it: whatever the leader knew of the others from an earlier epoch,
\* from a log since truncated or from a repeated request counts for nothing.
THEOREM CommitBackedHolds == Spec => CommitBacked
<1>1. TypeOK /\ OffsetsAsked /\ [Next]_vars =>
        \A n \in Voters :
          role[n] = "Leader" /\ role'[n] = "Leader"
            /\ highWatermark'[n] > highWatermark[n] =>
          LET hwm == highWatermark'[n]
              self(v) == v = n /\ LogEndOffset(log[n]) >= hwm
          IN  /\ Cardinality({v \in Voters : HasAsked(n, v, hwm) \/ self(v)}) >= Majority
              /\ EpochAt(log[n], hwm - 1) = currentEpoch[n]
  BY RaisedByServing, ServedBacked
<1> QED BY <1>1, TypeCorrect, OffsetsAskedHolds, PTL DEF Spec, CommitBacked

-----------------------------------------------------------------------------
(* Answers *)

\* Wherever the value is, it is at this offset.
Located(value, offset) == \A x \in Everywhere : x.data = value => x.offset = offset

\* A value nobody proposed is nowhere.
Unproposed == \A value \in Values :
                 replies[value] = "unsent" => \A x \in Everywhere : x.data # value

\* A voter looks for a pending proposal where its entry is.
PendingLocated ==
    \A n \in Voters : \A p \in pendingProposes[n] :
        replies[p[2]] # "unsent" /\ Located(p[2], p[1])

\* The voters that stand behind leader n up to an offset.
Behind(n, offset) == {v \in Voters : v = n \/ HasAsked(n, v, offset)}

\* A majority asked for what follows a value that a leader is about to confirm.
CommitAsked ==
    \A n \in Voters : role[n] = "Leader" =>
        \A value \in todo[n].commit :
            /\ replies[value] # "unsent"
            /\ \E offset \in Nat :
                  /\ Located(value, offset)
                  /\ 2 * Cardinality(Behind(n, offset + 1)) > Cardinality(Voters)

AnswerInv == Unproposed /\ PendingLocated /\ CommitAsked

\* A step in which a client proposes a value.
Proposes(value, offset) ==
    /\ replies[value] = "unsent" /\ replies'[value] # "unsent"
    /\ \E entry : /\ entry.data = value /\ entry.offset = offset
                  /\ Everywhere' \subseteq Everywhere \union {entry}
    /\ \A k \in Voters : pendingProposes'[k] \subseteq pendingProposes[k] \union {<<offset, value>>}

\* Any other step, as far as the proposals are concerned.
Proceeds ==
    /\ Everywhere' \subseteq Everywhere
    /\ \A k \in Voters : pendingProposes'[k] \subseteq pendingProposes[k]

\* The clients and the entries in a step.
LEMMA StepProposals ==
    ASSUME TypeOK, WorkShape, DiskBehind, Next
    PROVE  /\ \A value \in Values : replies'[value] = "unsent" => replies[value] = "unsent"
           /\ Proceeds \/ \E value \in Values, offset \in Nat : Proposes(value, offset)
<1>0. /\ pendingProposes \in [Voters -> SUBSET (Nat \X Values)]
      /\ replies \in [Values -> Replies] /\ todo \in [Voters -> Work]
      /\ \A m \in msgs : m.to \in Voters
  BY MessageFields DEF TypeOK
<1>1. ASSUME NEW m \in msgs, Receive(m)
      PROVE  UNCHANGED replies /\ \A k \in Voters : pendingProposes'[k] \subseteq pendingProposes[k]
  <2>1. CASE \/ VoteRequestNewer(m) \/ VoteRequestCurrent(m) \/ VoteResponseNewer(m)
             \/ VoteResponseGranted(m) \/ FetchRequestNewer(m) \/ FetchRequestRefused(m)
             \/ FetchResponseDiverging(m)
    BY <2>1 DEF VoteRequestNewer, VoteRequestCurrent, VoteResponseNewer,
       VoteResponseGranted, FetchRequestNewer, FetchRequestRefused,
       FetchResponseDiverging, nodeVars
  <2>2. CASE QuorumEpoch(m) \/ FetchResponseNewer(m)
    BY <1>0, <2>2 DEF QuorumEpoch, FetchResponseNewer
  <2>3. CASE FetchRequestServed(m) \/ FetchResponseData(m)
    <3>1. PICK committed : pendingProposes' = [pendingProposes EXCEPT ![m.to] = @ \ committed]
      BY <2>3 DEF FetchRequestServed, FetchResponseData
    <3>2. UNCHANGED replies
      BY <2>3 DEF FetchRequestServed, FetchResponseData
    <3> QED BY <1>0, <3>1, <3>2
  <2> QED BY <1>1, <2>1, <2>2, <2>3 DEF Receive
<1>2. ASSUME NEW n \in Voters, NEW value \in Values, Propose(n, value)
      PROVE  /\ \A other \in Values : replies'[other] = "unsent" => replies[other] = "unsent"
             /\ Proceeds \/ \E offset \in Nat : Proposes(value, offset)
  <2>1. /\ replies[value] = "unsent" /\ replies'[value] = "waiting"
        /\ \A other \in Values \ {value} : replies'[other] = replies[other]
    BY <1>0, <1>2 DEF Propose
  <2> DEFINE offset == LogEndOffset(log[n])
  <2>2. offset \in Nat
    BY LogFacts
  <2>3. \A k \in Voters : pendingProposes'[k] \subseteq pendingProposes[k] \union {<<offset, value>>}
    BY <1>0, <1>2 DEF Propose
  <2>4. \E entry : /\ entry.data = value /\ entry.offset = offset
                   /\ Everywhere' \subseteq Everywhere \union {entry}
    <3>1. CASE Moves(n)
      <4> DEFINE entry == [data |-> value, offset |-> offset]
      <4>1. /\ entry.data = value /\ entry.offset = offset
            /\ Everywhere' \subseteq Everywhere \union {entry}
        BY <3>1 DEF Moves
      <4> QED BY <4>1
    <3>2. ASSUME NEW entry, Creates(n, entry), entry.data = value
          PROVE  \E x : /\ x.data = value /\ x.offset = offset
                        /\ Everywhere' \subseteq Everywhere \union {x}
      <4>1. entry.offset = offset /\ Everywhere' \subseteq Everywhere \union {entry}
        BY <3>2 DEF Creates
      <4> QED BY <3>2, <4>1
    <3> QED BY <1>2, <3>1, <3>2, ProposeCreates
  <2> HIDE DEF offset
  <2>5. Proposes(value, offset)
    BY <2>1, <2>3, <2>4 DEF Proposes
  <2> QED BY <2>1, <2>2, <2>5
<1>3. ASSUME NEW n \in Voters, Run(n) \/ Crash(n)
      PROVE  /\ \A value \in Values : replies'[value] = "unsent" => replies[value] = "unsent"
             /\ \A k \in Voters : pendingProposes'[k] \subseteq pendingProposes[k]
  <2>1. CASE PersistQuorumState(n) \/ AppendToLog(n) \/ TruncateLog(n)
    BY <2>1 DEF PersistQuorumState, AppendToLog, TruncateLog, nodeVars
  <2>2. CASE SecondPass(n)
    BY <1>0, <2>2 DEF SecondPass, Answer, nodeVars
  <2>3. CASE Crash(n)
    BY <1>0, <2>3 DEF Crash
  <2> QED BY <1>3, <2>1, <2>2, <2>3 DEF Run
<1>4. ASSUME NEW n \in Voters, \/ ElectionTimeout(n) \/ HeartbeatTimeout(n)
                               \/ SendEndQuorumEpoch(n)
                               \/ \E to \in Voters : SendFetchRequest(n, to)
      PROVE  UNCHANGED <<replies, pendingProposes>>
  BY <1>4 DEF ElectionTimeout, HeartbeatTimeout, SendEndQuorumEpoch, SendFetchRequest, nodeVars
<1>5. CASE \E m \in msgs : Receive(m)
  <2>1. PICK m \in msgs : Receive(m)
    BY <1>5
  <2>2. Everywhere' \subseteq Everywhere
    BY <1>0, <2>1, ReceiveMoves DEF Moves
  <2> QED BY <1>1, <2>1, <2>2 DEF Proceeds
<1>6. CASE \E n \in Voters : \E value \in Values : Propose(n, value)
  BY <1>2, <1>6
<1>7. CASE \E n \in Voters : Run(n) \/ Crash(n)
  <2>1. PICK n \in Voters : Run(n) \/ Crash(n)
    BY <1>7
  <2>2. Everywhere' \subseteq Everywhere
    BY <2>1, RunMoves, VoterMoves DEF Moves
  <2> QED BY <1>3, <2>1, <2>2 DEF Proceeds
<1>8. CASE \E n \in Voters : \/ ElectionTimeout(n) \/ HeartbeatTimeout(n)
                             \/ SendEndQuorumEpoch(n)
                             \/ \E to \in Voters : SendFetchRequest(n, to)
  <2>1. PICK n \in Voters : \/ ElectionTimeout(n) \/ HeartbeatTimeout(n)
                            \/ SendEndQuorumEpoch(n)
                            \/ \E to \in Voters : SendFetchRequest(n, to)
    BY <1>8
  <2>2. Everywhere' \subseteq Everywhere
    BY <2>1, VoterMoves DEF Moves
  <2> QED BY <1>4, <2>1, <2>2 DEF Proceeds
<1> QED BY <1>5, <1>6, <1>7, <1>8 DEF Next

\* A value stays where it is, a proposal where its entry is.
LEMMA ProposalsKept ==
    ASSUME TypeOK, TypeOK', Unproposed, PendingLocated,
           \A value \in Values : replies'[value] = "unsent" => replies[value] = "unsent",
           Proceeds \/ \E value \in Values, offset \in Nat : Proposes(value, offset)
    PROVE  /\ Unproposed' /\ PendingLocated'
           /\ \A value \in Values, offset \in Nat :
                 replies[value] # "unsent" /\ Located(value, offset) =>
                    replies'[value] # "unsent" /\ Located(value, offset)'
<1>0. \A n \in Voters : \A p \in pendingProposes'[n] : p[1] \in Nat /\ p[2] \in Values
  BY DEF TypeOK
<1>1. \A n \in Voters : \A p \in pendingProposes[n] : p[1] \in Nat /\ p[2] \in Values
  BY DEF TypeOK
<1>2. CASE Proceeds
  <2>1. Unproposed'
    BY <1>2 DEF Proceeds, Unproposed
  <2>2. \A value \in Values : \A offset :
           replies[value] # "unsent" /\ Located(value, offset) =>
              replies'[value] # "unsent" /\ Located(value, offset)'
    BY <1>2 DEF Proceeds, Located
  <2>3. PendingLocated'
    BY <1>0, <1>2, <2>2 DEF Proceeds, PendingLocated
  <2> QED BY <2>1, <2>2, <2>3
<1>3. ASSUME NEW new \in Values, NEW at \in Nat, Proposes(new, at)
      PROVE  /\ Unproposed' /\ PendingLocated'
             /\ \A value \in Values, offset \in Nat :
                   replies[value] # "unsent" /\ Located(value, offset) =>
                      replies'[value] # "unsent" /\ Located(value, offset)'
  <2>1. PICK entry : /\ entry.data = new /\ entry.offset = at
                     /\ Everywhere' \subseteq Everywhere \union {entry}
    BY <1>3 DEF Proposes
  <2>2. replies[new] = "unsent" /\ replies'[new] # "unsent"
    BY <1>3 DEF Proposes
  <2>3. Unproposed'
    BY <2>1, <2>2 DEF Unproposed
  <2>4. \A value \in Values : \A offset :
           replies[value] # "unsent" /\ Located(value, offset) =>
              replies'[value] # "unsent" /\ Located(value, offset)'
    BY <2>1, <2>2 DEF Located
  <2>5. Located(new, at)'
    BY <2>1, <2>2 DEF Located, Unproposed
  <2>6. ASSUME NEW n \in Voters, NEW p \in pendingProposes'[n]
        PROVE  replies'[p[2]] # "unsent" /\ Located(p[2], p[1])'
    <3>1. CASE p \in pendingProposes[n]
      BY <1>1, <2>4, <3>1 DEF PendingLocated
    <3>2. CASE p = <<at, new>>
      <4>1. p[1] = at /\ p[2] = new
        BY <3>2
      <4> QED BY <2>2, <2>5, <4>1
    <3> QED BY <1>3, <3>1, <3>2 DEF Proposes
  <2> QED BY <2>3, <2>4, <2>6 DEF PendingLocated
<1> QED BY <1>2, <1>3

\* Whoever stands behind a leader goes on doing so.
LEMMA BehindKept ==
    ASSUME TypeOK, TypeOK', msgs \subseteq msgs', NEW n \in Voters, NEW offset \in Nat,
           currentEpoch'[n] = currentEpoch[n],
           log'[n] = log[n] \/ \E entry \in Entry : log'[n] = Append(log[n], entry),
           2 * Cardinality(Behind(n, offset)) > Cardinality(Voters)
    PROVE  2 * Cardinality(Behind(n, offset)') > Cardinality(Voters)
<1>1. ASSUME NEW v \in Voters, HasAsked(n, v, offset)
      PROVE  HasAsked(n, v, offset)'
  <2>1. PICK at : at >= offset /\ Asked(n, v, at)
    BY <1>1 DEF HasAsked, Asked
  <2>2. Asked(n, v, at)'
    BY <2>1, AskedKept
  <2> QED BY <2>1, <2>2 DEF HasAsked, Asked
<1>2. Behind(n, offset) \subseteq Behind(n, offset)' /\ Behind(n, offset)' \subseteq Voters
  BY <1>1 DEF Behind
<1>3. IsFiniteSet(Behind(n, offset)')
  BY <1>2, VotersAssumption, FS_Subset
<1>4. /\ Cardinality(Behind(n, offset)) <= Cardinality(Behind(n, offset)')
      /\ IsFiniteSet(Behind(n, offset))
  BY <1>2, <1>3, FS_Subset
<1>5. /\ Cardinality(Behind(n, offset)) \in Nat
      /\ Cardinality(Behind(n, offset)') \in Nat /\ Cardinality(Voters) \in Nat
  BY <1>3, <1>4, VotersAssumption, FS_CardinalityType
<1> QED BY <1>4, <1>5

\* The commits of a leader k are those it had, or those of a request it serves.
StillCommits(k, value) ==
    /\ role[k] = "Leader" /\ currentEpoch'[k] = currentEpoch[k]
    /\ log'[k] = log[k] \/ \E entry \in Entry : log'[k] = Append(log[k], entry)
    /\ value \in todo[k].commit
NowCommits(k, value) ==
    /\ \E m \in msgs : FetchRequestServed(m) /\ m.to = k
    /\ highWatermark'[k] > highWatermark[k]
    /\ \E p \in pendingProposes[k] : p[2] = value /\ p[1] < highWatermark'[k]

LEMMA CommitsKept ==
    ASSUME TypeOK, WorkShape, DiskBehind, Next, NEW k \in Voters, role'[k] = "Leader",
           NEW value \in todo'[k].commit
    PROVE  StillCommits(k, value) \/ NowCommits(k, value)
<1>0. /\ todo \in [Voters -> Work] /\ log \in [Voters -> Seq(Entry)]
      /\ role \in [Voters -> {"Follower", "Candidate", "Leader"}]
      /\ highWatermark \in [Voters -> Nat]
  BY DEF TypeOK
<1>a. ASSUME NEW n \in Voters, OthersIdle(n), k # n
      PROVE  StillCommits(k, value)
  BY <1>a DEF OthersIdle, StillCommits
<1>b. ASSUME NEW work, work.commit = {}, Handle(k, work)
      PROVE  FALSE
  BY <1>0, <1>b, IdleFacts
<1>c. ASSUME NEW n \in Voters, NEW work, work.commit = {}, Handle(n, work), OthersIdle(n)
      PROVE  StillCommits(k, value)
  BY <1>a, <1>b, <1>c
<1>1. ASSUME NEW m \in msgs, Receive(m)
      PROVE  StillCommits(k, value) \/ NowCommits(k, value)
  <2> DEFINE n == m.to
  <2>0. n \in Voters /\ OthersIdle(n)
    BY <1>1, MessageFields, ReceiveMoves DEF TypeOK, Moves
  <2>1. ASSUME NEW work, work.commit = {}, Handle(n, work)
        PROVE  StillCommits(k, value)
    BY <1>c, <2>0, <2>1
  <2>2. CASE \/ VoteRequestNewer(m) \/ VoteRequestCurrent(m)
    <3>1. \A e, g, q : VoteWork(n, m, e, g, q).commit = {}
      BY DEF VoteWork, NoWork
    <3> QED BY <2>1, <2>2, <3>1 DEF VoteRequestNewer, VoteRequestCurrent
  <2>3. \A p, r, s, t :
          /\ NoWork.commit = {}
          /\ [NoWork EXCEPT !.persist = p].commit = {}
          /\ [NoWork EXCEPT !.persist = p, !.reject = r].commit = {}
          /\ [NoWork EXCEPT !.persist = p, !.send = s].commit = {}
          /\ [NoWork EXCEPT !.send = s].commit = {}
          /\ [NoWork EXCEPT !.truncate = t].commit = {}
    BY DEF NoWork
  <2>4. CASE VoteResponseNewer(m) \/ VoteResponseGranted(m) \/ QuorumEpoch(m)
    BY <2>1, <2>3, <2>4 DEF VoteResponseNewer, VoteResponseGranted, QuorumEpoch
  <2>5. CASE FetchRequestNewer(m) \/ FetchRequestRefused(m) \/ FetchResponseNewer(m)
             \/ FetchResponseDiverging(m)
    BY <2>1, <2>3, <2>5 DEF FetchRequestNewer, FetchRequestRefused, FetchResponseNewer,
       FetchResponseDiverging
  <2>6. CASE FetchResponseData(m)
    <3>1. role'[n] # "Leader"
      BY <2>0, <2>6 DEF FetchResponseData, Applies
    <3> QED BY <1>a, <2>0, <3>1
  <2>7. CASE FetchRequestServed(m) /\ k = n
    <3>1. PICK hwm, s, committed :
            /\ highWatermark' = [highWatermark EXCEPT ![n] = hwm]
            /\ hwm = AdvancedHighWatermark(n, [fetchOffsets[n] EXCEPT ![m.from] = m.fetchOffset])
            /\ committed = IF hwm = highWatermark[n] THEN {} ELSE Committed(n, hwm)
            /\ Handle(n, [NoWork EXCEPT !.send = s, !.commit = {p[2] : p \in committed}])
      BY <2>7 DEF FetchRequestServed
    <3> DEFINE work == [NoWork EXCEPT !.send = s, !.commit = {p[2] : p \in committed}]
    <3>2. work.commit = {p[2] : p \in committed} /\ Handle(n, work)
      BY <3>1 DEF NoWork
    <3> HIDE DEF work
    <3>3. todo'[n].commit = {p[2] : p \in committed}
      BY <2>0, <3>2, IdleFacts
    <3>4. PICK p \in committed : p[2] = value
      BY <2>7, <3>3
    <3>5. /\ hwm # highWatermark[n] /\ highWatermark'[n] = hwm
          /\ p \in pendingProposes[n] /\ p[1] < hwm
      BY <1>0, <2>0, <3>1, <3>4 DEF Committed
    <3>6. hwm > highWatermark[n]
      BY <3>1, <3>5 DEF AdvancedHighWatermark
    <3> QED BY <2>7, <3>4, <3>5, <3>6 DEF NowCommits
  <2>8. CASE FetchRequestServed(m) /\ k # n
    BY <1>a, <2>0, <2>8
  <2> QED BY <1>1, <2>2, <2>4, <2>5, <2>6, <2>7, <2>8 DEF Receive
<1>2. ASSUME NEW n \in Voters, \/ ElectionTimeout(n) \/ HeartbeatTimeout(n)
                               \/ \E new \in Values : Propose(n, new)
      PROVE  StillCommits(k, value)
  <2>1. OthersIdle(n)
    BY <1>2, VoterMoves, ProposeCreates DEF Moves, Creates
  <2>2. \A p, s, a, r :
          /\ [NoWork EXCEPT !.persist = p, !.send = s].commit = {}
          /\ [NoWork EXCEPT !.send = s].commit = {}
          /\ [NoWork EXCEPT !.append = a].commit = {}
          /\ [NoWork EXCEPT !.reject = r].commit = {}
    BY DEF NoWork
  <2> QED BY <1>2, <1>c, <2>1, <2>2 DEF ElectionTimeout, HeartbeatTimeout, Propose
<1>3. ASSUME NEW n \in Voters, Run(n)
      PROVE  StillCommits(k, value)
  <2>0. OthersIdle(n) /\ UNCHANGED <<role, currentEpoch>>
    <3>1. OthersIdle(n)
      BY <1>3, RunMoves DEF Moves
    <3> QED BY <1>3, <3>1 DEF Run, PersistQuorumState, AppendToLog, TruncateLog,
            SecondPass, nodeVars
  <2>1. CASE k # n
    BY <1>a, <2>0, <2>1
  <2>2. CASE k = n /\ PersistQuorumState(n)
    BY <1>0, <2>0, <2>2 DEF PersistQuorumState, Work, StillCommits
  <2>3. CASE k = n /\ AppendToLog(n)
    <3> DEFINE entry == Head(todo[n].append)
    <3>1. entry \in Entry /\ log'[n] = Append(log[n], entry)
          /\ todo'[n].commit = todo[n].commit
      BY <1>0, <2>3 DEF AppendToLog, Work
    <3> HIDE DEF entry
    <3> QED BY <2>0, <2>3, <3>1 DEF StillCommits
  <2>4. CASE k = n /\ TruncateLog(n)
    BY <2>0, <2>4 DEF TruncateLog, WorkShape, Shaped
  <2>5. CASE k = n /\ SecondPass(n)
    BY <1>0, <2>5 DEF SecondPass, NoWork
  <2> QED BY <1>3, <2>1, <2>2, <2>3, <2>4, <2>5 DEF Run
<1>4. ASSUME NEW n \in Voters, Crash(n)
      PROVE  StillCommits(k, value)
  <2>1. OthersIdle(n)
    BY <1>4, VoterMoves DEF Moves
  <2>2. role'[n] = "Follower"
    BY <1>0, <1>4 DEF Crash
  <2> QED BY <1>a, <2>1, <2>2
<1>5. ASSUME NEW n \in Voters, \/ SendEndQuorumEpoch(n)
                               \/ \E to \in Voters : SendFetchRequest(n, to)
      PROVE  StillCommits(k, value)
  BY <1>5 DEF SendEndQuorumEpoch, SendFetchRequest, StillCommits, nodeVars
<1> QED BY <1>1, <1>2, <1>3, <1>4, <1>5 DEF Next

\* A leader that raises its high watermark has a majority behind what it commits.
LEMMA NowBehind ==
    ASSUME TypeOK, TypeOK', OffsetsAsked, NEW k \in Voters, NEW value, NowCommits(k, value)
    PROVE  \E p \in pendingProposes[k] :
              /\ p[2] = value /\ p[1] \in Nat
              /\ 2 * Cardinality(Behind(k, p[1] + 1)') > Cardinality(Voters)
<1>1. PICK m \in msgs : FetchRequestServed(m) /\ m.to = k
  BY DEF NowCommits
<1>2. PICK p \in pendingProposes[k] : p[2] = value /\ p[1] < highWatermark'[k]
  BY DEF NowCommits
<1>3. p[1] \in Nat /\ highWatermark'[k] \in Nat
  BY DEF TypeOK
<1> DEFINE hwm == highWatermark'[k]
           counted == {v \in Voters : HasAsked(k, v, hwm)
                                        \/ (v = k /\ LogEndOffset(log[k]) >= hwm)}
<1>4. Cardinality(counted) >= Majority
  BY <1>1, ServedBacked DEF NowCommits
<1>5. UNCHANGED <<currentEpoch, log, msgs>>
  BY <1>1 DEF FetchRequestServed
<1>6. \A v \in Voters : HasAsked(k, v, hwm) => HasAsked(k, v, p[1] + 1)'
  <2> SUFFICES ASSUME NEW v \in Voters, HasAsked(k, v, hwm)
               PROVE  HasAsked(k, v, p[1] + 1)'
    OBVIOUS
  <2>1. PICK r \in msgs : /\ r.type = "FetchRequest" /\ r.from = v /\ r.to = k
                          /\ r.epoch = currentEpoch[k] /\ r.fetchOffset >= hwm
                          /\ Divergence(k, r.fetchOffset, r.lastFetchedEpoch) = Nil
    BY DEF HasAsked
  <2>2. r.fetchOffset \in Nat
    BY <2>1, MessageFields DEF TypeOK
  <2>3. r.fetchOffset >= p[1] + 1
    BY <1>2, <1>3, <2>1, <2>2
  <2>4. Divergence(k, r.fetchOffset, r.lastFetchedEpoch)' = Nil
    BY <1>5, <2>1 DEF Divergence
  <2> QED BY <1>5, <2>1, <2>3, <2>4 DEF HasAsked
<1>7. counted \subseteq Behind(k, p[1] + 1)' /\ Behind(k, p[1] + 1)' \subseteq Voters
  BY <1>6 DEF Behind
<1> HIDE DEF counted
<1>8. IsFiniteSet(Behind(k, p[1] + 1)') /\ IsFiniteSet(counted)
  BY <1>7, VotersAssumption, FS_Subset
<1>9. /\ Cardinality(counted) <= Cardinality(Behind(k, p[1] + 1)')
      /\ Cardinality(counted) \in Nat /\ Cardinality(Behind(k, p[1] + 1)') \in Nat
  BY <1>7, <1>8, FS_Subset, FS_CardinalityType
<1>10. 2 * Cardinality(Behind(k, p[1] + 1)') > Cardinality(Voters)
  <2> DEFINE c == Cardinality(counted)
             b == Cardinality(Behind(k, p[1] + 1)')
  <2>1. c >= Majority /\ c <= b /\ c \in Nat /\ b \in Nat
    BY <1>4, <1>9
  <2> HIDE DEF c, b
  <2>2. 2 * b > Cardinality(Voters)
    BY <2>1, MajorityType
  <2> QED BY <2>2 DEF b
<1> QED BY <1>2, <1>3, <1>10

LEMMA AnswerStep ==
    ASSUME TypeOK, TypeOK', WorkShape, DiskBehind, OffsetsAsked, AnswerInv, Next
    PROVE  AnswerInv'
<1>1. /\ \A value \in Values : replies'[value] = "unsent" => replies[value] = "unsent"
      /\ Proceeds \/ \E value \in Values, offset \in Nat : Proposes(value, offset)
  BY StepProposals
<1>2. /\ Unproposed' /\ PendingLocated'
      /\ \A value \in Values, offset \in Nat :
            replies[value] # "unsent" /\ Located(value, offset) =>
               replies'[value] # "unsent" /\ Located(value, offset)'
  BY <1>1, ProposalsKept DEF AnswerInv
<1>3. ASSUME NEW k \in Voters, role'[k] = "Leader", NEW value \in todo'[k].commit
      PROVE  /\ replies'[value] # "unsent"
             /\ \E offset \in Nat :
                   /\ Located(value, offset)'
                   /\ 2 * Cardinality(Behind(k, offset + 1)') > Cardinality(Voters)
  <2>0. value \in Values
    BY <1>3 DEF TypeOK, Work
  <2>1. CASE StillCommits(k, value)
    <3>1. PICK offset \in Nat :
            /\ replies[value] # "unsent" /\ Located(value, offset)
            /\ 2 * Cardinality(Behind(k, offset + 1)) > Cardinality(Voters)
      BY <2>1 DEF StillCommits, AnswerInv, CommitAsked
    <3>2. replies'[value] # "unsent" /\ Located(value, offset)'
      BY <1>2, <2>0, <3>1
    <3>3. msgs \subseteq msgs'
      BY StepLearns
    <3> DEFINE next == offset + 1
    <3>4. next \in Nat /\ 2 * Cardinality(Behind(k, next)) > Cardinality(Voters)
      BY <3>1
    <3> HIDE DEF next
    <3>5. 2 * Cardinality(Behind(k, next)') > Cardinality(Voters)
      BY <2>1, <3>3, <3>4, BehindKept DEF StillCommits
    <3> QED BY <3>2, <3>5 DEF next
  <2>2. CASE NowCommits(k, value)
    <3>1. PICK p \in pendingProposes[k] :
            /\ p[2] = value /\ p[1] \in Nat
            /\ 2 * Cardinality(Behind(k, p[1] + 1)') > Cardinality(Voters)
      BY <2>2, NowBehind
    <3>2. replies[value] # "unsent" /\ Located(value, p[1])
      BY <3>1 DEF AnswerInv, PendingLocated
    <3>3. replies'[value] # "unsent" /\ Located(value, p[1])'
      BY <1>2, <2>0, <3>1, <3>2
    <3> QED BY <3>1, <3>3
  <2> QED BY <1>3, <2>1, <2>2, CommitsKept
<1>4. CommitAsked'
  BY <1>3 DEF CommitAsked
<1> QED BY <1>2, <1>4 DEF AnswerInv

\* What a runner answers with ok is a commit of its node.
LEMMA AnsweredCommits ==
    ASSUME TypeOK, ClientInv, [Next]_vars, NEW n \in Voters, NEW value \in waiting[n],
           replies[value] = "waiting", replies'[value] = "ok"
    PROVE  value \in todo[n].commit
<1>0. /\ value \in Values /\ replies \in [Values -> Replies]
      /\ waiting \in [Voters -> SUBSET Values]
  BY DEF TypeOK
<1>1. ASSUME NEW k \in Voters, SecondPass(k)
      PROVE  value \in todo[n].commit
  <2>1. value \in waiting[k] /\ value \in todo[k].commit
    BY <1>0, <1>1 DEF SecondPass, Answer
  <2>2. k = n
    BY <2>1 DEF ClientInv
  <2> QED BY <2>1, <2>2
<1>2. ASSUME NEW k \in Voters, Crash(k)
      PROVE  FALSE
  BY <1>0, <1>2 DEF Crash
<1>3. ASSUME NEW k \in Voters, NEW new \in Values, Propose(k, new)
      PROVE  FALSE
  BY <1>0, <1>3 DEF Propose
<1>4. ASSUME NEW m \in msgs, Receive(m)
      PROVE  FALSE
  BY <1>4, ReceiveTracks
<1>5. ASSUME NEW k \in Voters, \/ ElectionTimeout(k) \/ HeartbeatTimeout(k)
                               \/ PersistQuorumState(k) \/ AppendToLog(k) \/ TruncateLog(k)
                               \/ SendEndQuorumEpoch(k)
                               \/ \E to \in Voters : SendFetchRequest(k, to)
      PROVE  FALSE
  BY <1>5 DEF ElectionTimeout, HeartbeatTimeout, PersistQuorumState, AppendToLog,
     TruncateLog, SendEndQuorumEpoch, SendFetchRequest
<1>6. CASE UNCHANGED vars
  BY <1>6 DEF vars
<1> QED BY <1>1, <1>2, <1>3, <1>4, <1>5, <1>6 DEF Next, Run

\* The answer invariant holds whatever the voters start from.
LEMMA AnswersHold == Spec => []AnswerInv
<1>1. Init => AnswerInv
  <2> SUFFICES ASSUME Init PROVE AnswerInv
    OBVIOUS
  <2>1. \A n \in Voters : /\ todo[n] = NoWork /\ todo[n].append = <<>>
                          /\ todo[n].send = {} /\ todo[n].commit = {}
    BY DEF Init, NoWork
  <2>2. \A x \in Everywhere : \E n \in Voters : x \in ToSet(log[n])
    <3>1. \A n \in Voters : HeldBy(n) = ToSet(log[n])
      BY <2>1, Elements DEF HeldBy
    <3>2. msgs = {}
      BY DEF Init
    <3> QED BY <3>1, <3>2 DEF Everywhere
  <2>3. Unproposed
    <3> SUFFICES ASSUME NEW value \in Values, replies[value] = "unsent",
                        NEW x \in Everywhere, x.data = value
                 PROVE  FALSE
      BY DEF Unproposed
    <3>1. PICK n \in Voters : x \in ToSet(log[n])
      BY <2>2
    <3>2. log[n] \in Seq(Entry) /\ log = InitLog
      BY TypeInit DEF TypeOK, Init
    <3>3. PICK i \in 1 .. Len(InitLog[n]) : x = InitLog[n][i]
      BY <3>1, <3>2 DEF ToSet
    <3> QED BY <3>3 DEF Init
  <2>4. PendingLocated
    BY DEF Init, PendingLocated
  <2>5. CommitAsked
    BY <2>1 DEF CommitAsked
  <2> QED BY <2>3, <2>4, <2>5 DEF AnswerInv
<1>2. TypeOK /\ TypeOK' /\ ElectionInv /\ WorkShape /\ OffsetsAsked /\ AnswerInv
        /\ [Next]_vars => AnswerInv'
  <2> SUFFICES ASSUME TypeOK, TypeOK', ElectionInv, WorkShape, OffsetsAsked, AnswerInv,
                      [Next]_vars
               PROVE  AnswerInv'
    OBVIOUS
  <2>1. CASE Next
    BY <2>1, AnswerStep DEF ElectionInv
  <2>2. CASE UNCHANGED vars
    <3>1. Everywhere' = Everywhere
      BY <2>2, StutterKeeps
    <3>2. UNCHANGED <<role, replies, pendingProposes, todo, currentEpoch, log, msgs>>
      BY <2>2 DEF vars, nodeVars
    <3>3. \A value, offset : Located(value, offset)' = Located(value, offset)
      BY <3>1 DEF Located
    <3>4. \A n, offset : Behind(n, offset)' = Behind(n, offset)
      BY <3>2 DEF Behind, HasAsked, Divergence
    <3> QED BY <3>1, <3>2, <3>3, <3>4 DEF AnswerInv, Unproposed, PendingLocated, CommitAsked
  <2> QED BY <2>1, <2>2
<1> QED BY <1>1, <1>2, TypeCorrect, ElectionInvariant, ShapeHolds, OffsetsAskedHolds, PTL DEF Spec

\* Whoever is told ok by a leader has its entry, if the leader has it in its own
\* epoch, below what a majority asked for: no commit is left over from another
\* epoch, and no proposal is taken for another's.
THEOREM OkBackedHolds == Spec => OkBacked
<1>1. /\ TypeOK /\ ClientInv /\ AnswerInv /\ [Next]_vars
      => \A n \in Voters : \A value \in waiting[n] : \A entry \in ToSet(log[n]) :
           LET answered == /\ replies[value] = "waiting"
                           /\ replies'[value] = "ok"
                           /\ role[n] = "Leader"
               own == entry.data = value /\ entry.epoch = currentEpoch[n]
           IN  answered /\ own =>
                 2 * Cardinality({v \in Voters : v = n \/ HasAsked(n, v, entry.offset + 1)})
                   > Cardinality(Voters)
  <2> SUFFICES ASSUME TypeOK, ClientInv, AnswerInv, [Next]_vars,
                      NEW n \in Voters, NEW value \in waiting[n],
                      NEW entry \in ToSet(log[n]), entry.data = value,
                      replies[value] = "waiting", replies'[value] = "ok", role[n] = "Leader"
               PROVE  2 * Cardinality(Behind(n, entry.offset + 1)) > Cardinality(Voters)
    BY DEF Behind
  <2>1. value \in todo[n].commit
    BY AnsweredCommits
  <2>2. PICK offset \in Nat :
          /\ Located(value, offset)
          /\ 2 * Cardinality(Behind(n, offset + 1)) > Cardinality(Voters)
    BY <2>1 DEF AnswerInv, CommitAsked
  <2>3. entry \in Everywhere
    BY EverywhereType DEF HeldBy
  <2>4. entry.offset = offset
    BY <2>2, <2>3 DEF Located
  <2> QED BY <2>2, <2>4
<1> QED BY <1>1, TypeCorrect, ClientInvariant, AnswersHold, PTL DEF Spec, OkBacked

=============================================================================
