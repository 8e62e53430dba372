------------------------- MODULE Partitioners_proofs -------------------------
(***************************************************************************)
(* Theorems about Partitioners, for any strategy, any numbers of callers   *)
(* and partitions, any switch threshold and any width of the counter.      *)
(***************************************************************************)
EXTENDS Partitioners, FiniteSetTheorems, TLAPS

\* The part of TypeOK that the theorems rest on.
Types ==
    /\ counter \in Int /\ wrapped \in BOOLEAN
    /\ messageCount \in Nat /\ currentPartition \in Nat /\ stickyFor \in Nat /\ kept \in Nat
    /\ pc \in [Caller -> {"out", "counted"}]
    /\ count \in [Caller -> Nat] /\ asked \in [Caller -> Nat]
    /\ \A p \in Caller : pc[p] = "counted" => asked[p] > 0
    /\ SwitchThreshold > 0 => messageCount < SwitchThreshold
    /\ ranges \in RangeLists /\ weights \in WeightLists

\* A negative counter has overflowed, and the sticky partition was one of those
\* that there were when it was chosen.
PartitionInv ==
    /\ counter < 0 => wrapped
    /\ currentPartition < stickyFor
    /\ PartitionExists

LEMMA CountsType == Counts \subseteq Nat /\ \A n \in Counts : n > 0
BY PartitionersAssumption DEF PartitionersAssumption

LEMMA NextCountType ==
    ASSUME messageCount \in Nat
    PROVE  NextCount \in Nat /\ (SwitchThreshold > 0 => NextCount < SwitchThreshold)
BY PartitionersAssumption DEF PartitionersAssumption, NextCount

LEMMA InitTypes == Init => Types
<1>1. SwitchThreshold \in Nat
    BY PartitionersAssumption DEF PartitionersAssumption
<1>2. ASSUME Init PROVE wrapped \in BOOLEAN
    BY <1>2 DEF Init
<1>3. ASSUME Init PROVE Types
  <2>1. pc \in [Caller -> {"out", "counted"}] /\ \A p \in Caller : pc[p] = "out"
    BY <1>3 DEF Init
  <2>2. count \in [Caller -> Nat] /\ asked \in [Caller -> Nat]
    BY <1>3 DEF Init
  <2>3. /\ counter = 0 /\ messageCount = 0 /\ currentPartition = 0 /\ stickyFor = 1 /\ kept = 0
        /\ ranges \in RangeLists /\ weights \in WeightLists
    BY <1>3 DEF Init
  <2> QED BY <1>1, <1>2, <1>3, <2>1, <2>2, <2>3 DEF Types
<1> QED BY <1>3

LEMMA TypesStep == Types /\ [Next]_vars => Types'
<1> SUFFICES ASSUME Types, [Next]_vars PROVE Types'
    OBVIOUS
<1> USE CountsType DEF Types, roundRobin, sticky
<1>0. HalfRange \in Nat /\ SwitchThreshold \in Nat
    BY PartitionersAssumption DEF PartitionersAssumption
<1>1. ASSUME NEW n \in Counts, RoundRobin(n) PROVE Types'
    BY <1>0, <1>1 DEF RoundRobin, Advance, Wrap
<1>2. ASSUME NEW n \in Counts, Stateless(n) PROVE Types'
    BY <1>2 DEF Stateless
<1>3. ASSUME NEW n \in Counts, NEW p \in Caller, StickyCount(p, n) PROVE Types'
    BY <1>3, NextCountType DEF StickyCount
<1>4. ASSUME NEW p \in Caller, StickyChoose(p) PROVE Types'
  <2>1. /\ pc' = [pc EXCEPT ![p] = "out"]
        /\ count' = [count EXCEPT ![p] = 0] /\ asked' = [asked EXCEPT ![p] = 0]
        /\ UNCHANGED <<counter, wrapped, messageCount, ranges, weights>>
    BY <1>4 DEF StickyChoose
  <2>2. currentPartition' \in Nat /\ stickyFor' \in Nat /\ kept' \in Nat
    <3>1. CASE shouldSwitch(p)
      BY <1>4, <3>1 DEF StickyChoose, Drawn
    <3>2. CASE ~shouldSwitch(p)
      BY <1>4, <3>2 DEF StickyChoose
    <3> QED BY <3>1, <3>2
  <2> QED BY <2>1, <2>2
<1>5. ASSUME Tick PROVE Types'
    BY <1>5 DEF Tick
<1>6. ASSUME UpdateRanges \/ UpdateWeights PROVE Types'
    BY <1>6 DEF UpdateRanges, UpdateWeights
<1>7. ASSUME UNCHANGED vars PROVE Types'
    BY <1>7 DEF vars
<1> QED BY <1>1, <1>2, <1>3, <1>4, <1>5, <1>6, <1>7 DEF Next

-----------------------------------------------------------------------------
\* A remainder of Go is nearer to zero than the divisor, on the dividend's side.
LEMMA RemRange ==
    ASSUME NEW a \in Int, NEW n \in Nat, n > 0
    PROVE  IF a >= 0 THEN Rem(a, n) \in 0..(n - 1) ELSE -Rem(a, n) \in 0..(n - 1)
<1>1. CASE a >= 0
    BY <1>1 DEF Rem
<1>2. CASE a < 0
  <2>1. (-a) % n \in 0..(n - 1)
    BY <1>2
  <2> QED BY <1>2, <2>1 DEF Rem
<1> QED BY <1>1, <1>2

\* What the strategies without state may answer exists, or is the negative
\* partition of a range.
LEMMA StatelessExists ==
    ASSUME Types, NEW n \in Counts, Stateless(n)
    PROVE  /\ answer' \in [by : Simple, n : {n}, partition : Int]
           /\ \/ answer'.partition \in 0..(n - 1)
              \/ /\ answer'.by = "key_range" /\ answer'.partition < 0
                 /\ answer'.partition \in RangePartitions
<1> USE CountsType
<1> DEFINE Odd(i) == i \in Int /\ i < 0 /\ i \in RangePartitions
<1>1. ASSUME NEW k \in Key PROVE HashPartition(k, n) \in 0..(n - 1)
    BY PartitionersAssumption DEF HashPartition, PartitionersAssumption
<1>2. ASSUME NEW k \in Key, NEW i \in KeyRangeOf(k, n) PROVE i \in 0..(n - 1) \/ Odd(i)
  <2>1. CASE Fits(k, n) = {}
    BY <1>1, <1>2, <2>1 DEF KeyRangeOf
  <2>2. CASE Fits(k, n) # {}
    <3>1. PICK j \in Fits(k, n) : i = ranges[j].Partition
      BY <1>2, <2>2 DEF KeyRangeOf
    <3>2. ranges \in Seq([keys : SUBSET Key, Partition : Int]) /\ ranges \in RangeLists
      BY PartitionersAssumption DEF PartitionersAssumption, Types
    <3>3. j \in DOMAIN ranges /\ ranges[j].Partition < n
      BY DEF Fits
    <3>4. ranges[j] \in [keys : SUBSET Key, Partition : Int]
      <4> DEFINE R == [keys : SUBSET Key, Partition : Int]
      <4>1. ranges \in Seq(R)
        BY <3>2
      <4> HIDE DEF R
      <4>2. ranges[j] \in R
        BY <3>3, <4>1
      <4> QED BY <4>2 DEF R
    <3>5. i \in RangePartitions
      BY <3>1, <3>2, <3>3 DEF RangePartitions
    <3> QED BY <3>1, <3>3, <3>4, <3>5
  <2> QED BY <2>1, <2>2
<1>3. ManualOf(n) \in 0..(n - 1)
    BY PartitionersAssumption DEF ManualOf, PartitionersAssumption
<1>4. WeightedOf(n) \subseteq 0..(n - 1)
    BY DEF WeightedOf
<1>5. \E s \in Simple, j \in Int :
          /\ answer' = Answer(s, n, j)
          /\ j \in 0..(n - 1) \/ (s = "key_range" /\ Odd(j))
  <2>1. PICK by \in Simple :
          \/ by = "hash" /\ \E k \in Key : answer' = Answer(by, n, HashPartition(k, n))
          \/ by = "key_range" /\ \E k \in Key : \E i \in KeyRangeOf(k, n) : answer' = Answer(by, n, i)
          \/ by = "random" /\ \E i \in Drawn(n) : answer' = Answer(by, n, i)
          \/ by = "manual" /\ answer' = Answer(by, n, ManualOf(n))
          \/ by = "weighted_random" /\ \E i \in WeightedOf(n) : answer' = Answer(by, n, i)
    BY Zenon DEF Stateless
  <2>2. CASE by = "key_range" /\ \E k \in Key : \E i \in KeyRangeOf(k, n) : answer' = Answer(by, n, i)
    <3>1. PICK k \in Key : \E i \in KeyRangeOf(k, n) : answer' = Answer(by, n, i)
      BY <2>2
    <3>2. PICK i \in KeyRangeOf(k, n) : answer' = Answer(by, n, i)
      BY <3>1
    <3>3. (i \in 0..(n - 1) \/ Odd(i)) /\ i \in Int
      BY <1>2
    <3> QED BY <2>2, <3>2, <3>3
  \* The others answer a partition that exists.
  <2> SUFFICES ASSUME ~(by = "key_range" /\ \E k \in Key : \E i \in KeyRangeOf(k, n) : answer' = Answer(by, n, i))
               PROVE  \E i \in 0..(n - 1) : answer' = Answer(by, n, i)
    <3>1. 0..(n - 1) \subseteq Int
      OBVIOUS
    <3> QED BY <2>2, <3>1, Zenon
  <2>3. ASSUME NEW k \in Key, answer' = Answer(by, n, HashPartition(k, n))
        PROVE  \E i \in 0..(n - 1) : answer' = Answer(by, n, i)
    BY <1>1, <2>3, Zenon
  <2>4. ASSUME NEW i \in Drawn(n) \cup WeightedOf(n), answer' = Answer(by, n, i)
        PROVE  \E j \in 0..(n - 1) : answer' = Answer(by, n, j)
    BY <1>4, <2>4, Zenon DEF Drawn
  <2>5. answer' = Answer(by, n, ManualOf(n)) => \E j \in 0..(n - 1) : answer' = Answer(by, n, j)
    BY <1>3, Zenon
  <2> QED BY <2>1, <2>3, <2>4, <2>5, Zenon
<1> QED BY <1>5 DEF Answer

LEMMA PartitionStep == Types /\ PartitionInv /\ [Next]_vars => PartitionInv'
<1> SUFFICES ASSUME Types, PartitionInv, [Next]_vars PROVE PartitionInv'
    OBVIOUS
<1> USE CountsType DEF PartitionInv, roundRobin, sticky
<1>0. HalfRange \in Nat /\ HalfRange > 0
    BY PartitionersAssumption DEF PartitionersAssumption
<1>1. ASSUME NEW n \in Counts, RoundRobin(n) PROVE PartitionInv'
  <2>1. /\ answer' = Answer("round_robin", n, Rem(counter, n))
        /\ counter' = IF counter + 1 = HalfRange THEN -HalfRange ELSE counter + 1
        /\ UNCHANGED <<currentPartition, stickyFor>>
    BY <1>1 DEF RoundRobin, Advance, Wrap
  <2>w. wrapped' = (wrapped \/ counter + 1 = HalfRange)
    BY <1>1 DEF RoundRobin
  <2>2. counter' < 0 => wrapped'
    <3>1. counter' < 0 => counter < 0 \/ counter + 1 = HalfRange
      BY <1>0, <2>1 DEF Types
    <3> QED BY <2>w, <3>1, Zenon
  <2>3. PartitionExists'
    <3>1. IF counter >= 0 THEN Rem(counter, n) \in 0..(n - 1) ELSE -Rem(counter, n) \in 0..(n - 1)
      BY RemRange DEF Types
    <3>2. counter < 0 => wrapped'
      BY <2>w, Zenon
    <3> QED BY <2>1, <3>1, <3>2 DEF PartitionExists, Answer, Types
  <2> QED BY <2>1, <2>2, <2>3
<1>2. ASSUME NEW n \in Counts, Stateless(n) PROVE PartitionInv'
  <2>1. UNCHANGED <<counter, wrapped, currentPartition, stickyFor>>
    BY <1>2 DEF Stateless
  <2>2. PartitionExists'
    BY <1>2, StatelessExists DEF PartitionExists, RangePartitions
  <2> QED BY <2>1, <2>2
<1>3. ASSUME NEW n \in Counts, NEW p \in Caller, StickyCount(p, n) PROVE PartitionInv'
    BY <1>3 DEF StickyCount, PartitionExists
<1>4. ASSUME NEW p \in Caller, StickyChoose(p) PROVE PartitionInv'
  <2>1. /\ pc[p] = "counted" /\ answer' = Answer("sticky", asked[p], currentPartition')
        /\ UNCHANGED <<counter, wrapped>>
    BY <1>4 DEF StickyChoose
  <2>2. currentPartition' < stickyFor' /\ currentPartition' \in Nat /\ stickyFor' \in Nat
    <3>1. CASE shouldSwitch(p)
      <4>1. currentPartition' \in 0..(asked[p] - 1) /\ stickyFor' = asked[p]
        BY <1>4, <3>1 DEF StickyChoose, Drawn
      <4> QED BY <4>1 DEF Types
    <3>2. CASE ~shouldSwitch(p)
      BY <1>4, <3>2 DEF StickyChoose, Types
    <3> QED BY <3>1, <3>2
  <2>3. asked[p] \in Nat /\ asked[p] > 0
    BY <2>1 DEF Types
  <2>4. answer'.by = "sticky" /\ answer'.n = asked[p] /\ answer'.partition = currentPartition'
    BY <2>1 DEF Answer
  <2>5. \/ answer'.partition \in 0..(answer'.n - 1)
        \/ answer'.partition \in answer'.n..(stickyFor' - 1)
    <3>1. /\ answer'.n \in Nat /\ answer'.partition \in Nat
          /\ answer'.partition < stickyFor' /\ stickyFor' \in Nat
      BY <2>2, <2>3, <2>4
    <3> QED BY <3>1
  <2>6. PartitionExists'
    BY <2>4, <2>5 DEF PartitionExists
  <2> QED BY <2>1, <2>2, <2>6
<1>5. ASSUME Tick \/ UpdateRanges \/ UpdateWeights \/ UNCHANGED vars PROVE PartitionInv'
    BY <1>5 DEF Tick, UpdateRanges, UpdateWeights, vars, PartitionExists
<1> QED BY <1>1, <1>2, <1>3, <1>4, <1>5 DEF Next

\* For any strategy, any ranges and weights and any numbers of partitions, the
\* partition that GetPartition answers exists, but for an overflowed
\* round-robin counter, a sticky partition of a larger topic and the negative
\* partition of a range.
THEOREM PartitionsExist == Spec => []PartitionExists
<1>1. Init => PartitionInv
    BY DEF Init, PartitionInv, PartitionExists, Answer
<1>2. PartitionInv => PartitionExists
    BY DEF PartitionInv
<1> QED BY <1>1, <1>2, InitTypes, TypesStep, PartitionStep, PTL DEF Spec
-----------------------------------------------------------------------------
(* A caller with a count that switches may be overtaken, so that the others *)
(* go on to the next such count.  How many answers can still come before a  *)
(* switch is bounded by the callers that have another count, the counts     *)
(* left before the next one that switches, and a round of such counts for   *)
(* each caller that does not yet sit on one that switches.                  *)

Switchers == {p \in Caller : pc[p] = "counted" /\ count[p] = 0}
Keepers == {p \in Caller : pc[p] = "counted" /\ count[p] # 0}

T == SwitchThreshold
K == Cardinality(Caller)
S == Cardinality(Keepers)
Z == Cardinality(Switchers)

StickyInv ==
    SwitchThreshold > 0 =>
        kept + S + (IF Z < K THEN (T - 1 - messageCount) + (K - Z - 1) * (T - 1) ELSE 0) <= K * T

Sized ==
    /\ IsFiniteSet(Switchers) /\ IsFiniteSet(Keepers)
    /\ S \in Nat /\ Z \in Nat /\ K \in Nat /\ S + Z <= K

LEMMA Sizes == Sized
<1>1. IsFiniteSet(Caller) /\ Switchers \subseteq Caller /\ Keepers \subseteq Caller
    BY PartitionersAssumption DEF PartitionersAssumption, Switchers, Keepers
<1>2. IsFiniteSet(Switchers) /\ IsFiniteSet(Keepers) /\ K \in Nat
    BY <1>1, FS_Subset, FS_CardinalityType DEF K
<1>3. S \in Nat /\ Z \in Nat
    BY <1>2, FS_CardinalityType DEF S, Z
<1>4. IsFiniteSet(Keepers \cup Switchers)
      /\ Cardinality(Keepers \cup Switchers) = S + Z - Cardinality(Keepers \cap Switchers)
    BY <1>2, FS_Union DEF S, Z
<1>5. Keepers \cap Switchers = {}
    BY DEF Keepers, Switchers
<1>6. Cardinality(Keepers \cup Switchers) = S + Z
    BY <1>3, <1>4, <1>5, FS_EmptySet
<1>7. Keepers \cup Switchers \subseteq Caller
    BY <1>1
<1>8. Cardinality(Keepers \cup Switchers) <= K
    BY <1>1, <1>7, FS_Subset DEF K
<1> QED BY <1>2, <1>3, <1>6, <1>8 DEF Sized

LEMMA SizesNext == Sized'
BY Sizes, PTL

LEMMA AfterSwitch ==
    ASSUME NEW k \in Nat, NEW t \in Nat, NEW s \in Nat, NEW c \in Nat, NEW d \in Nat,
           t > 0, s <= d, d + 1 <= k
    PROVE  1 + s + (t - 1 - c) + d * (t - 1) <= k * t
<1>1. d * (t - 1) = d * t - d
    OBVIOUS
<1>2. (d + 1) * t = d * t + t
    OBVIOUS
<1>3. (d + 1) * t <= k * t
  <2>1. \A x \in Nat : x * t >= 0
    OBVIOUS
  <2>2. (k - (d + 1)) * t >= 0
    BY <2>1
  <2>3. (k - (d + 1)) * t = k * t - (d + 1) * t
    OBVIOUS
  <2> QED BY <2>2, <2>3
<1> QED BY <1>1, <1>2, <1>3

LEMMA OneRoundLess ==
    ASSUME NEW k \in Nat, NEW t \in Nat, NEW z \in Nat
    PROVE  (k - z - 1) * (t - 1) = (k - (z + 1) - 1) * (t - 1) + (t - 1)
OBVIOUS

LEMMA OneAnswerUsed ==
    ASSUME NEW k0 \in Nat, NEW k1 \in Nat, NEW s0 \in Nat, NEW s1 \in Nat,
           NEW t \in Nat, NEW m \in Nat, NEW p \in Int, NEW b \in Nat,
           k1 <= k0 + 1, s1 + 1 = s0, k0 + s0 + ((t - 1 - m) + p) <= b
    PROVE  k1 + s1 + ((t - 1 - m) + p) <= b
OBVIOUS

LEMMA StickyStep == Types /\ StickyInv /\ [Next]_vars => StickyInv'
<1> SUFFICES ASSUME Types, StickyInv, [Next]_vars, T > 0 PROVE StickyInv'
    BY DEF StickyInv, T
<1>t. T \in Nat /\ messageCount \in Nat /\ messageCount < T /\ kept \in Nat
    BY PartitionersAssumption DEF PartitionersAssumption, T, Types
<1>s. /\ S \in Nat /\ Z \in Nat /\ K \in Nat /\ S + Z <= K
      /\ IsFiniteSet(Switchers) /\ IsFiniteSet(Keepers)
    BY Sizes DEF Sized
<1>k. K' = K /\ T' = T
    BY DEF K, T
<1>n. S' \in Nat /\ Z' \in Nat /\ S' + Z' <= K
    BY SizesNext, <1>k DEF Sized
<1>p. K * T \in Nat /\ (K - Z - 1) * (T - 1) \in Int
    BY <1>t, <1>s
<1>i. kept + S + (IF Z < K THEN (T - 1 - messageCount) + (K - Z - 1) * (T - 1) ELSE 0) <= K * T
    BY DEF StickyInv, T
<1>g. SUFFICES kept' + S' + (IF Z' < K THEN (T - 1 - messageCount') + (K - Z' - 1) * (T - 1) ELSE 0)
               <= K * T
    BY <1>k DEF StickyInv, T
\* Steps that change nothing of the sticky partitioner but the age.
<1>u. ASSUME UNCHANGED <<messageCount, kept, pc, count>> PROVE <1>g!1
  <2>1. S' = S /\ Z' = Z
    BY <1>u DEF S, Z, Keepers, Switchers
  <2> QED BY <1>u, <2>1, <1>i
<1>1. ASSUME NEW n \in Counts, NEW p \in Caller, StickyCount(p, n) PROVE <1>g!1
  <2>1. /\ pc[p] = "out" /\ pc' = [pc EXCEPT ![p] = "counted"]
        /\ count' = [count EXCEPT ![p] = NextCount] /\ messageCount' = NextCount
        /\ kept' = kept
    BY <1>1 DEF StickyCount
  <2>2. CASE messageCount + 1 = T
    <3>1. NextCount = 0
      BY <1>t, <2>2 DEF NextCount, T
    <3>2. Switchers' = Switchers \cup {p} /\ Keepers' = Keepers /\ p \notin Switchers
      BY <2>1, <3>1 DEF Switchers, Keepers, Types
    <3>3. Z' = Z + 1 /\ S' = S
      BY <1>s, <3>2, FS_AddElement DEF Z, S
    <3>4. (K - Z - 1) * (T - 1) = (K - Z' - 1) * (T - 1) + (T - 1)
      BY <1>s, <1>t, <3>3, OneRoundLess
    <3>5. CASE Z' < K
      <4> DEFINE P == (K - Z - 1) * (T - 1)
                 Q == (K - Z' - 1) * (T - 1)
      <4>1. P = Q + (T - 1) /\ Q \in Int /\ P \in Int
        <5>1. K - Z' - 1 \in Int /\ T - 1 \in Int
          BY <1>t, <1>s, <1>n
        <5>2. Q \in Int
          BY <5>1
        <5> QED BY <1>p, <3>4, <5>2
      <4>2. kept + S + ((T - 1 - messageCount) + P) <= K * T
        BY <1>i, <3>3, <3>5, <1>s
      <4> SUFFICES kept' + S' + ((T - 1 - messageCount') + Q) <= K * T
        BY <3>5
      <4> HIDE DEF P, Q
      <4> QED BY <1>s, <1>t, <1>p, <2>1, <2>2, <3>1, <3>3, <4>1, <4>2
    <3>6. CASE ~(Z' < K)
      <4>1. Z + 1 = K
        BY <1>s, <1>n, <3>3, <3>6
      <4>2. (K - Z - 1) * (T - 1) = 0
        BY <1>s, <1>t, <4>1
      <4>3. kept + S <= K * T
        BY <1>i, <1>s, <1>t, <4>1, <4>2, <2>2
      <4> QED BY <2>1, <3>3, <3>6, <4>3, <1>t, <1>s, <1>p
    <3> QED BY <3>5, <3>6
  <2>3. CASE messageCount + 1 # T
    <3>1. NextCount = messageCount + 1
      BY <1>t, <2>3 DEF NextCount, T
    <3>2. Keepers' = Keepers \cup {p} /\ Switchers' = Switchers /\ p \notin Keepers
      BY <1>t, <2>1, <3>1 DEF Switchers, Keepers, Types
    <3>3. Z' = Z /\ S' = S + 1
      BY <1>s, <3>2, FS_AddElement DEF Z, S
    <3>4. Z < K
      BY <1>s, <1>n, <3>3
    <3> DEFINE P == (K - Z - 1) * (T - 1)
    <3>5. kept + S + ((T - 1 - messageCount) + P) <= K * T
      BY <1>i, <3>4
    <3>6. P \in Int
      BY <1>p
    <3> SUFFICES kept' + S' + ((T - 1 - messageCount') + P) <= K * T
      BY <3>3, <3>4
    <3> HIDE DEF P
    <3> QED BY <1>s, <1>t, <1>p, <2>1, <3>1, <3>3, <3>5, <3>6
  <2> QED BY <2>2, <2>3
<1>2. ASSUME NEW p \in Caller, StickyChoose(p) PROVE <1>g!1
  <2>1. /\ pc[p] = "counted" /\ pc' = [pc EXCEPT ![p] = "out"]
        /\ count' = [count EXCEPT ![p] = 0] /\ messageCount' = messageCount
    BY <1>2 DEF StickyChoose
  <2>2. CASE p \in Switchers
    <3>1. Switchers' = Switchers \ {p} /\ Keepers' = Keepers
      BY <2>1, <2>2 DEF Switchers, Keepers, Types
    <3>2. Z' = Z - 1 /\ S' = S
      BY <1>s, <2>2, <3>1, FS_RemoveElement DEF Z, S
    <3>3. kept' = 1
      BY <1>2, <2>2 DEF StickyChoose, shouldSwitch, Switchers, T
    <3>4. K - Z \in Nat /\ S <= K - Z /\ (K - Z) + 1 <= K /\ K - Z' - 1 = K - Z /\ Z' < K
      BY <1>s, <1>n, <3>2
    <3>5. 1 + S + (T - 1 - messageCount) + (K - Z) * (T - 1) <= K * T
      BY <1>s, <1>t, <3>4, AfterSwitch
    <3> QED BY <2>1, <3>2, <3>3, <3>4, <3>5, <1>s, <1>t
  <2>3. CASE p \in Keepers
    <3>1. Keepers' = Keepers \ {p} /\ Switchers' = Switchers
      BY <2>1, <2>3 DEF Switchers, Keepers, Types
    <3>2. Z' = Z /\ S' = S - 1
      BY <1>s, <2>3, <3>1, FS_RemoveElement DEF Z, S
    <3>3. Z < K
      BY <1>s, <1>n, <3>2
    <3>4. CASE kept' = 1
      <4>1. K - Z - 1 \in Nat /\ S' <= K - Z - 1 /\ (K - Z - 1) + 1 <= K
        BY <1>s, <1>n, <3>2, <3>3
      <4>2. 1 + S' + (T - 1 - messageCount) + (K - Z - 1) * (T - 1) <= K * T
        BY <1>s, <1>t, <1>n, <4>1, AfterSwitch
      <4> QED BY <2>1, <3>2, <3>3, <3>4, <4>2, <1>s, <1>t, <1>n
    <3>5. CASE kept' \in Nat /\ kept' <= kept + 1
      <4> DEFINE P == (K - Z - 1) * (T - 1)
                 B == K * T
      <4>1. kept + S + ((T - 1 - messageCount) + P) <= B
        BY <1>i, <3>3
      <4>2. P \in Int /\ B \in Nat /\ T \in Nat /\ messageCount \in Nat
        BY <1>p, <1>t
      <4>3. S' \in Nat /\ S' + 1 = S
        BY <1>s, <1>n, <3>2
      <4>4. kept \in Nat /\ S \in Nat
        BY <1>t, <1>s
      <4> SUFFICES kept' + S' + ((T - 1 - messageCount') + P) <= B
        BY <3>2, <3>3
      <4>5. messageCount' = messageCount
        BY <2>1
      <4> HIDE DEF P, B
      <4>6. kept' + S' + ((T - 1 - messageCount) + P) <= B
        BY <3>5, <4>1, <4>2, <4>3, <4>4, OneAnswerUsed
      <4> QED BY <4>5, <4>6
    <3>6. kept' = 1 \/ (kept' \in Nat /\ kept' <= kept + 1)
      BY <1>2, <1>t DEF StickyChoose
    <3> QED BY <3>4, <3>5, <3>6
  <2>4. p \in Switchers \cup Keepers
    BY <2>1 DEF Switchers, Keepers
  <2> QED BY <2>2, <2>3, <2>4
<1>3. ASSUME (\E n \in Counts : RoundRobin(n) \/ Stateless(n)) \/ Tick \/ UpdateRanges \/ UpdateWeights
             \/ UNCHANGED vars
      PROVE  <1>g!1
    BY <1>3, <1>u DEF RoundRobin, Stateless, Tick, UpdateRanges, UpdateWeights, vars, sticky
<1> QED BY <1>1, <1>2, <1>3 DEF Next

\* For any number of callers and any switch threshold, a partition is kept for
\* at most the threshold times the callers.
THEOREM StickinessBounded == Spec => []StickinessIsBounded
<1>1. Init => StickyInv
  <2> SUFFICES ASSUME Init, T > 0 PROVE StickyInv
    BY DEF StickyInv, T
  <2>1. Keepers = {} /\ Switchers = {} /\ kept = 0 /\ messageCount = 0
    BY DEF Init, Keepers, Switchers
  <2>2. S = 0 /\ Z = 0
    BY <2>1, FS_EmptySet DEF S, Z
  <2>3. K \in Nat /\ T \in Nat
    BY Sizes, PartitionersAssumption DEF Sized, PartitionersAssumption, T
  <2>4. (K - 1) * (T - 1) = K * T - K - T + 1 /\ K * T \in Nat
    BY <2>3
  <2> QED BY <2>1, <2>2, <2>3, <2>4 DEF StickyInv, T
<1>2. Types /\ StickyInv => StickinessIsBounded
  <2> SUFFICES ASSUME Types, StickyInv, T > 0 PROVE kept <= T * K
    BY DEF StickinessIsBounded, MostKept, T, K
  <2>1. S \in Nat /\ Z \in Nat /\ K \in Nat
    BY Sizes DEF Sized
  <2>2. T \in Nat /\ messageCount \in Nat /\ messageCount < T /\ kept \in Nat
    BY PartitionersAssumption DEF PartitionersAssumption, T, Types
  <2>3. Z < K => (K - Z - 1) * (T - 1) \in Nat
    BY <2>1, <2>2
  <2>4. K * T = T * K /\ K * T \in Nat
    BY <2>1, <2>2
  <2> QED BY <2>1, <2>2, <2>3, <2>4 DEF StickyInv, T
<1> QED BY <1>1, <1>2, InitTypes, TypesStep, StickyStep, PTL DEF Spec
-----------------------------------------------------------------------------
(* The rest of TypeOK, which the other theorems do not need. *)

ChoiceType == [by : Simple, n : Counts, partition : Int]

LEMMA StatelessType ==
    ASSUME Types, NEW n \in Counts, Stateless(n)
    PROVE  answer' \in ChoiceType
BY StatelessExists DEF ChoiceType

LEMMA TypeStep == Types /\ TypeOK /\ [Next]_vars => TypeOK'
<1> SUFFICES ASSUME Types, TypeOK, [Next]_vars PROVE TypeOK'
    OBVIOUS
<1> USE CountsType DEF roundRobin, sticky
<1>0. /\ HalfRange \in Nat /\ HalfRange > 0
      /\ SwitchThreshold \in Nat /\ SwitchInterval \in Nat
    BY PartitionersAssumption DEF PartitionersAssumption
<1>1. ASSUME NEW n \in Counts, RoundRobin(n) PROVE TypeOK'
  <2>1. counter' \in (-HalfRange)..(HalfRange - 1)
    BY <1>0, <1>1 DEF RoundRobin, Advance, Wrap, TypeOK
  <2>2. wrapped' \in BOOLEAN
    BY <1>1 DEF RoundRobin
  <2>3. answer' \in ChoiceType
    <3>1. Rem(counter, n) \in Int
      <4>1. counter \in Int /\ n \in Nat /\ n > 0
        BY DEF Types
      <4>2. counter % n \in Int /\ (-counter) % n \in Int
        BY <4>1
      <4> QED BY <4>1, <4>2 DEF Rem
    <3> QED BY <1>1, <3>1 DEF RoundRobin, Answer, ChoiceType, Simple
  <2>4. recent' \in Seq(ChoiceType)
    <3> DEFINE latest == Append(recent, answer')
    <3>1. latest \in Seq(ChoiceType) /\ latest # <<>>
      <4>1. recent \in Seq(ChoiceType)
        BY DEF TypeOK, ChoiceType
      <4> HIDE DEF ChoiceType
      <4> QED BY <2>3, <4>1
    <3>2. Tail(latest) \in Seq(ChoiceType)
      <4> HIDE DEF latest
      <4> QED BY <3>1
    <3>3. recent' = latest \/ recent' = Tail(latest)
      BY <1>1 DEF RoundRobin
    <3> QED BY <3>1, <3>2, <3>3
  <2> QED BY <1>1, <2>1, <2>2, <2>3, <2>4 DEF RoundRobin, TypeOK, ChoiceType
<1>2. ASSUME NEW n \in Counts, Stateless(n) PROVE TypeOK'
    BY <1>2, StatelessType DEF Stateless, TypeOK, ChoiceType
<1>3. ASSUME NEW n \in Counts, NEW p \in Caller, StickyCount(p, n) PROVE TypeOK'
  <2>1. NextCount \in 0..SwitchThreshold
    BY <1>0 DEF NextCount, TypeOK
  <2> QED BY <1>3, <2>1 DEF StickyCount, TypeOK
<1>4. ASSUME NEW p \in Caller, StickyChoose(p) PROVE TypeOK'
  <2>1. asked[p] \in Counts
    BY <1>4 DEF StickyChoose, TypeOK, Types
  <2>2. /\ stickyFor' \in {1} \cup Counts /\ currentPartition' \in 0..(stickyFor' - 1)
        /\ age' \in 0..SwitchInterval
    <3>1. CASE shouldSwitch(p)
      BY <1>0, <1>4, <2>1, <3>1 DEF StickyChoose, Drawn
    <3>2. CASE ~shouldSwitch(p)
      BY <1>4, <3>2 DEF StickyChoose, TypeOK
    <3> QED BY <3>1, <3>2
  <2>3. kept' \in Nat
    BY <1>4, TypesStep DEF Types
  <2>4. answer' \in ChoiceType
    BY <1>4, <2>1, <2>2 DEF StickyChoose, Answer, ChoiceType, Simple
  <2>5. count' \in [Caller -> 0..SwitchThreshold] /\ asked' \in [Caller -> {0} \cup Counts]
        /\ pc' \in [Caller -> {"out", "counted"}]
    BY <1>0, <1>4 DEF StickyChoose, TypeOK
  <2> QED BY <1>4, <2>2, <2>3, <2>4, <2>5 DEF StickyChoose, TypeOK, ChoiceType
<1>5. ASSUME Tick \/ UpdateRanges \/ UpdateWeights \/ UNCHANGED vars PROVE TypeOK'
    BY <1>0, <1>5, SMTT(40) DEF Tick, UpdateRanges, UpdateWeights, vars, TypeOK
<1> QED BY <1>1, <1>2, <1>3, <1>4, <1>5 DEF Next

\* The partitioner's state is well typed for any strategy, callers and bounds.
THEOREM TypeCorrect == Spec => []TypeOK
<1>0. HalfRange \in Nat \ {0} /\ SwitchThreshold \in Nat /\ SwitchInterval \in Nat
    BY PartitionersAssumption DEF PartitionersAssumption
<1>1. ASSUME Init PROVE TypeOK
  <2>1. wrapped \in BOOLEAN
    BY <1>1 DEF Init
  <2>2. answer \in [by : Simple \cup {"none"}, n : {1} \cup Counts, partition : Int]
    BY <1>1 DEF Init, Answer
  <2>3. recent \in Seq([by : Simple, n : Counts, partition : Int])
    BY <1>1 DEF Init
  <2>4. /\ pc \in [Caller -> {"out", "counted"}]
        /\ count \in [Caller -> 0..SwitchThreshold] /\ asked \in [Caller -> {0} \cup Counts]
    BY <1>0, <1>1 DEF Init
  <2>5. /\ counter \in (-HalfRange)..(HalfRange - 1)
        /\ messageCount \in 0..SwitchThreshold /\ currentPartition \in 0..(stickyFor - 1)
        /\ age \in 0..SwitchInterval /\ stickyFor = 1 /\ kept \in Nat
    BY <1>0, <1>1 DEF Init
  <2>6. strategy \in Simple \cup {"composite"} /\ ranges \in RangeLists /\ weights \in WeightLists
    BY <1>1 DEF Init
  <2> QED BY <2>1, <2>2, <2>3, <2>4, <2>5, <2>6 DEF TypeOK
<1> QED BY <1>1, InitTypes, TypesStep, TypeStep, PTL DEF Spec
-----------------------------------------------------------------------------
\* Numbers less than n apart have different remainders.
LEMMA RemaindersDiffer ==
    ASSUME NEW a \in Nat, NEW b \in Nat, NEW n \in Nat, a < b, b - a < n
    PROVE  a % n # b % n
<1> DEFINE q == a \div n  r == b \div n
<1>1. /\ a = n * q + (a % n) /\ b = n * r + (b % n)
      /\ q \in Int /\ r \in Int /\ a % n \in Int /\ b % n \in Int
    OBVIOUS
<1> HIDE DEF q, r
<1> SUFFICES ASSUME a % n = b % n PROVE FALSE
    OBVIOUS
<1>2. n * r - n * q = b - a
    BY <1>1
<1>3. n * (r - q) = b - a /\ r - q \in Int
    BY <1>1, <1>2
<1>4. r - q >= 1
    BY <1>1, <1>3
<1>5. ASSUME NEW k \in Int, k >= 1 PROVE n * k >= n
    BY <1>5
<1> QED BY <1>3, <1>4, <1>5

\* What the counter was when the i-th of the latest answers was given.
CounterOf(i) == counter - Len(recent) + i - 1

\* The strengthening of RoundRobinSpreads: until the counter overflows, each of
\* the latest answers is the remainder of a count of its own.
RoundsInv ==
    /\ recent \in Seq([by : Simple, n : Counts, partition : Int])
    /\ ~wrapped => \A i \in DOMAIN recent :
         CounterOf(i) \in Nat /\ recent[i].partition = CounterOf(i) % recent[i].n

LEMMA RoundsStep == Types /\ PartitionInv /\ RoundsInv /\ [Next]_vars => RoundsInv'
<1> SUFFICES ASSUME Types, PartitionInv, RoundsInv, [Next]_vars PROVE RoundsInv'
    OBVIOUS
<1> DEFINE Answers == [by : Simple, n : Counts, partition : Int]
<1>1. ASSUME UNCHANGED roundRobin PROVE RoundsInv'
    BY <1>1 DEF RoundsInv, roundRobin, CounterOf
<1>2. ASSUME NEW n \in Counts, RoundRobin(n) PROVE RoundsInv'
  <2> DEFINE e == Answer("round_robin", n, Rem(counter, n))
             latest == Append(recent, e)
  <2>0. recent \in Seq(Answers) /\ counter \in Int /\ n \in Nat /\ n > 0 /\ HalfRange \in Nat
    BY CountsType, PartitionersAssumption DEF Types, RoundsInv, PartitionersAssumption
  <2>1. Rem(counter, n) \in Int
    BY <2>0 DEF Rem
  <2>2. e \in Answers
    BY <2>1 DEF Answer, Simple
  <2>3. /\ e.n = n /\ e.partition = Rem(counter, n)
        /\ recent' = latest \/ recent' = Tail(latest)
    BY <1>2 DEF RoundRobin, Answer
  <2> HIDE DEF e
  <2>4. /\ latest \in Seq(Answers) /\ Len(latest) = Len(recent) + 1 /\ Len(recent) \in Nat
        /\ \A i \in 1..Len(recent) : latest[i] = recent[i]
        /\ latest[Len(recent) + 1] = e
    BY <2>0, <2>2
  <2>5. /\ Tail(latest) \in Seq(Answers) /\ Len(Tail(latest)) = Len(recent)
        /\ \A i \in 1..Len(recent) : Tail(latest)[i] = latest[i + 1]
    BY <2>4
  <2> HIDE DEF latest
  <2>6. CASE wrapped'
    BY <2>3, <2>4, <2>5, <2>6 DEF RoundsInv
  <2>7. CASE ~wrapped'
    <3>1. ~wrapped /\ counter' = counter + 1
      BY <1>2, <2>0, <2>7 DEF RoundRobin, Advance, Wrap
    \* The count of the answer that is at i in latest.
    <3> DEFINE Was(i) == counter - Len(recent) + i - 1
    <3>2. ASSUME NEW i \in 1..Len(latest)
          PROVE  Was(i) \in Nat /\ latest[i].partition = Was(i) % latest[i].n
      <4>1. CASE i <= Len(recent)
        <5>1. i \in 1..Len(recent) /\ i \in DOMAIN recent /\ latest[i] = recent[i]
          BY <2>0, <2>4, <4>1, SMTT(40)
        <5>2. CounterOf(i) \in Nat /\ recent[i].partition = CounterOf(i) % recent[i].n
          BY <3>1, <5>1 DEF RoundsInv
        <5>3. CounterOf(i) = Was(i)
          BY DEF CounterOf
        <5> QED BY <5>1, <5>2, <5>3
      <4>2. CASE i = Len(recent) + 1
        <5>1. Was(i) = counter /\ latest[i] = e
          BY <2>0, <2>4, <4>2
        <5>2. counter \in Nat
          BY <2>0, <3>1 DEF PartitionInv
        <5> QED BY <2>3, <2>0, <5>1, <5>2, SMTT(40) DEF Rem
      <4> QED BY <2>4, <4>1, <4>2
    <3> SUFFICES \A i \in 1..Len(recent') :
                   LET was == counter' - Len(recent') + i - 1
                   IN was \in Nat /\ recent'[i].partition = was % recent'[i].n
      <4>1. recent' \in Seq(Answers) /\ DOMAIN recent' = 1..Len(recent')
        <5> HIDE DEF Answers
        <5>1. recent' \in Seq(Answers)
          BY <2>3, <2>4, <2>5
        <5> QED BY <5>1
      <4> QED BY <4>1 DEF RoundsInv, CounterOf
    <3>3. CASE recent' = latest
      <4>1. Len(recent') = Len(latest) /\ \A i \in 1..Len(latest) : recent'[i] = latest[i]
        BY <3>3
      <4> SUFFICES ASSUME NEW i \in 1..Len(latest)
                   PROVE  LET was == counter' - Len(recent') + i - 1
                          IN was \in Nat /\ recent'[i].partition = was % recent'[i].n
        BY <4>1
      <4>2. counter' - Len(recent') + i - 1 = Was(i)
        BY <2>0, <2>4, <3>1, <4>1
      <4> HIDE DEF Was
      <4> QED BY <3>2, <4>1, <4>2
    <3>4. CASE recent' = Tail(latest)
      <4>1. /\ Len(recent') = Len(recent)
            /\ \A i \in 1..Len(recent) : recent'[i] = latest[i + 1]
        BY <2>5, <3>4
      <4> SUFFICES ASSUME NEW i \in 1..Len(recent)
                   PROVE  LET was == counter' - Len(recent') + i - 1
                          IN was \in Nat /\ recent'[i].partition = was % recent'[i].n
        BY <4>1
      <4>2. counter' - Len(recent') + i - 1 = Was(i + 1) /\ i + 1 \in 1..Len(latest)
        BY <2>0, <2>4, <3>1, <4>1
      <4> HIDE DEF Was
      <4> QED BY <3>2, <4>1, <4>2
    <3> QED BY <2>3, <3>3, <3>4
  <2> QED BY <2>6, <2>7
<1>3. ASSUME NEW n \in Counts, Stateless(n) \/ \E p \in Caller : StickyCount(p, n)
      PROVE  RoundsInv'
    BY <1>1, <1>3 DEF Stateless, StickyCount
<1>4. ASSUME (\E p \in Caller : StickyChoose(p)) \/ Tick \/ UpdateRanges \/ UpdateWeights
             \/ UNCHANGED vars
      PROVE  RoundsInv'
    BY <1>1, <1>4 DEF StickyChoose, Tick, UpdateRanges, UpdateWeights, vars
<1> QED BY <1>2, <1>3, <1>4 DEF Next

\* As long as the counter has not overflowed, round robin uses all partitions:
\* of any n answers in a row, two that were asked for n partitions differ, for
\* any callers and whatever the callers between them asked for
\* (strategies.go:57 GetPartition, one atomic addition).
THEOREM RoundRobinUsesAll == Spec => []RoundRobinSpreads
<1>1. Init => RoundsInv
  <2> SUFFICES ASSUME Init PROVE RoundsInv
    OBVIOUS
  <2>1. recent = <<>>
    BY DEF Init
  <2> QED BY <2>1 DEF RoundsInv
<1>2. Init => PartitionInv
    BY DEF Init, PartitionInv, PartitionExists, Answer
<1>3. Types /\ RoundsInv => RoundRobinSpreads
  <2> SUFFICES ASSUME Types, RoundsInv, ~wrapped, NEW i \in DOMAIN recent, NEW j \in DOMAIN recent,
                      i < j, recent[i].n = recent[j].n, j - i < recent[i].n
               PROVE  recent[i].partition # recent[j].partition
    BY DEF RoundRobinSpreads
  <2> DEFINE n == recent[i].n  a == CounterOf(i)  b == CounterOf(j)
  <2>1. /\ a \in Nat /\ recent[i].partition = a % n
        /\ b \in Nat /\ recent[j].partition = b % n
    BY DEF RoundsInv
  <2>2. Len(recent) \in Nat /\ i \in 1..Len(recent) /\ j \in 1..Len(recent) /\ counter \in Int
    BY SMTT(40) DEF RoundsInv, Types
  <2>3. n \in Nat
    <3>1. recent[i] \in [by : Simple, n : Counts, partition : Int]
      <4> DEFINE Answers == [by : Simple, n : Counts, partition : Int]
      <4>1. recent \in Seq(Answers)
        BY DEF RoundsInv
      <4> HIDE DEF Answers
      <4>2. recent[i] \in Answers
        BY <2>2, <4>1
      <4> QED BY <4>2 DEF Answers
    <3> QED BY <3>1, CountsType
  <2>4. a < b /\ b - a < n
    BY <2>2, <2>3 DEF CounterOf
  <2> HIDE DEF n, a, b
  <2> QED BY <2>1, <2>3, <2>4, RemaindersDiffer
<1> QED BY <1>1, <1>2, <1>3, InitTypes, TypesStep, PartitionStep, RoundsStep, PTL DEF Spec
=============================================================================
