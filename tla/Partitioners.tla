----------------------------- MODULE Partitioners -----------------------------
(***************************************************************************)
(* A partitioner of internal/partitioner/strategies.go, of any strategy,   *)
(* shared by concurrent callers of GetPartition that ask for different     *)
(* numbers of partitions: topics differ, and grow.                         *)
(*                                                                         *)
(* A key is a model value with a given hash, a range is the set of its     *)
(* keys, a weight is a natural number, and random numbers are any.  The    *)
(* round-robin counter runs from -HalfRange to HalfRange - 1 (HalfRange is *)
(* 2^63 in the code).  Of the sticky message count only the remainder by   *)
(* the switch threshold is kept, which is all that the code looks at; its  *)
(* overflow after 2^63 messages, which shifts the remainder, is left out.  *)
(* Nothing checks the ranges, so their partitions are any integers.        *)
(***************************************************************************)
EXTENDS Integers, Sequences, FiniteSets, FiniteSetsExt

CONSTANTS Caller, Key,
          Hash,            \* FNV-1a of each key
          Counts,          \* numbers of partitions asked for
          HalfRange,       \* one more than the largest value of the round-robin counter
          ManualPartition,
          Composed,        \* strategies that a composite partitioner chooses from
          SwitchThreshold, SwitchInterval,  \* of the sticky partitioner; 0 is off
          RangeLists,      \* ranges that UpdateRanges may install
          WeightLists      \* weights that UpdateWeights may install

Simple == {"hash", "round_robin", "random", "manual", "sticky", "key_range", "weighted_random"}

ASSUME PartitionersAssumption ==
    /\ IsFiniteSet(Caller)
    /\ Hash \in [Key -> Nat]
    /\ Counts \subseteq Nat \ {0} /\ IsFiniteSet(Counts) /\ Counts # {}
    /\ HalfRange \in Nat \ {0} /\ ManualPartition \in Int
    /\ SwitchThreshold \in Nat /\ SwitchInterval \in Nat
    /\ RangeLists \subseteq Seq([keys : SUBSET Key, Partition : Int]) /\ RangeLists # {}
    /\ WeightLists \subseteq Seq(Nat) /\ WeightLists # {}
    /\ Composed \subseteq Simple /\ IsFiniteSet(Composed)

VARIABLES
    strategy,
    answer,            \* the latest one: who chose, of how many partitions, which
    counter,           \* of the round-robin partitioner
    wrapped,           \* history: it has overflowed
    recent,            \* history: its latest answers, the newest last
    messageCount, currentPartition, age, \* of the sticky one; age is since lastSwitch
    stickyFor,         \* history: the number of partitions it switched for
    kept,              \* history: how often it has answered since it switched
    pc, count, asked,  \* of each caller inside the sticky partitioner
    ranges, weights

roundRobin == <<counter, wrapped, recent>>
sticky == <<messageCount, currentPartition, age, stickyFor, kept, pc, count, asked>>
vars == <<strategy, answer, roundRobin, sticky, ranges, weights>>

Answer(by, n, partition) == [by |-> by, n |-> n, partition |-> partition]

MaxCount == Max(Counts)

\* A composite partitioner holds its mutex while another strategy chooses,
\* unless it has no choice; with nothing to choose from it hashes.
Uses(s) ==
    \/ strategy = s
    \/ strategy = "composite" /\ s \in Composed
    \/ strategy = "composite" /\ Composed = {} /\ s = "hash"

Unlocked ==
    strategy = "composite" /\ Cardinality(Composed) > 1 => \A p \in Caller : pc[p] = "out"

Init ==
    /\ strategy \in Simple \cup {"composite"}
    /\ answer = Answer("none", 1, 0)
    /\ counter = 0 /\ wrapped = FALSE /\ recent = <<>>
    /\ messageCount = 0 /\ currentPartition = 0 /\ age = 0
    /\ stickyFor = 1 /\ kept = 0
    /\ pc = [p \in Caller |-> "out"]
    /\ count = [p \in Caller |-> 0]
    /\ asked = [p \in Caller |-> 0]
    /\ ranges \in RangeLists /\ weights \in WeightLists

-----------------------------------------------------------------------------
(* RoundRobinPartitioner: one atomic addition, whose result is the caller's. *)

\* Go's remainder has the sign of the dividend.
Rem(a, n) == IF a >= 0 THEN a % n ELSE -((-a) % n)

Wrap(a) == IF a = HalfRange THEN -HalfRange ELSE a

\* Mutant: the counter is kept below the number of partitions.
Advance_OfRemainder(n) == (counter + 1) % n

Advance(n) == Wrap(counter + 1)

RoundRobin(n) ==
    /\ Uses("round_robin") /\ Unlocked
    /\ answer' = Answer("round_robin", n, Rem(counter, n))
    /\ counter' = Advance(n)
    /\ wrapped' = (wrapped \/ counter + 1 = HalfRange)
    /\ LET latest == Append(recent, answer')
       IN recent' = IF Len(latest) > MaxCount THEN Tail(latest) ELSE latest
    /\ UNCHANGED <<strategy, sticky, ranges, weights>>

-----------------------------------------------------------------------------
(* StickyPartitioner: the count is taken before the lock.                  *)

\* The next count's remainder by the threshold.
NextCount == IF messageCount + 1 >= SwitchThreshold THEN 0 ELSE messageCount + 1

StickyCount(p, n) ==
    /\ Uses("sticky") /\ Unlocked /\ pc[p] = "out"
    /\ messageCount' = NextCount
    /\ count' = [count EXCEPT ![p] = NextCount]
    /\ asked' = [asked EXCEPT ![p] = n]
    /\ pc' = [pc EXCEPT ![p] = "counted"]
    /\ UNCHANGED <<strategy, answer, roundRobin, currentPartition, age, stickyFor, kept,
                   ranges, weights>>

\* Mutant: the shared count is read again under the lock.
shouldSwitch_Recount(p) ==
    \/ SwitchThreshold > 0 /\ messageCount = 0
    \/ SwitchInterval > 0 /\ age >= SwitchInterval

shouldSwitch(p) ==
    \/ SwitchThreshold > 0 /\ count[p] = 0
    \/ SwitchInterval > 0 /\ age >= SwitchInterval

Drawn(n) == 0..(n - 1)

\* How long the threshold and its racing callers keep a partition at most.
MostKept == SwitchThreshold * Cardinality(Caller)

StickyChoose(p) ==
    /\ pc[p] = "counted"
    /\ IF shouldSwitch(p)
         THEN /\ currentPartition' \in Drawn(asked[p])
              /\ age' = 0 /\ stickyFor' = asked[p] /\ kept' = 1
         ELSE /\ kept' = IF kept <= MostKept THEN kept + 1 ELSE kept
              /\ UNCHANGED <<currentPartition, age, stickyFor>>
    /\ answer' = Answer("sticky", asked[p], currentPartition')
    /\ pc' = [pc EXCEPT ![p] = "out"]
    /\ count' = [count EXCEPT ![p] = 0]
    /\ asked' = [asked EXCEPT ![p] = 0]
    /\ UNCHANGED <<strategy, roundRobin, messageCount, ranges, weights>>

Tick ==
    /\ Uses("sticky") /\ age < SwitchInterval
    /\ age' = age + 1
    /\ UNCHANGED <<strategy, answer, roundRobin, messageCount, currentPartition, stickyFor, kept,
                   pc, count, asked, ranges, weights>>

-----------------------------------------------------------------------------
(* The strategies whose answer depends on nothing that they change.        *)

HashPartition(k, n) == Hash[k] % n

ManualOf(n) == IF ManualPartition >= n THEN n - 1
               ELSE IF ManualPartition < 0 THEN 0 ELSE ManualPartition

\* Mutant: the first range that has the key decides.
Fits_Unchecked(k, n) == {i \in DOMAIN ranges : k \in ranges[i].keys}

\* The ranges that have the key and a partition that is not too large; the code
\* does not ask whether it is negative.
Fits(k, n) == {i \in DOMAIN ranges : k \in ranges[i].keys /\ ranges[i].Partition < n}

\* The partition of the first of them decides, without any the hash.
KeyRangeOf(k, n) ==
    IF Fits(k, n) = {}
      THEN {HashPartition(k, n)}
      ELSE {ranges[i].Partition : i \in {i \in Fits(k, n) : \A j \in Fits(k, n) : i <= j}}

\* With too few weights all partitions; else those that have a weight, the
\* first (for a draw of zero), and the last (for the weight of the surplus).
WeightedOf(n) ==
    IF Len(weights) < n THEN 0..(n - 1)
    ELSE {i \in 0..(n - 1) : weights[i + 1] > 0} \cup {0}
         \cup {i \in {n - 1} : \E j \in n + 1..Len(weights) : weights[j] > 0}

Stateless(n) ==
    /\ Unlocked
    /\ \E by \in Simple :
         /\ Uses(by)
         /\ \/ by = "hash" /\ \E k \in Key : answer' = Answer(by, n, HashPartition(k, n))
            \/ by = "key_range" /\ \E k \in Key : \E i \in KeyRangeOf(k, n) : answer' = Answer(by, n, i)
            \/ by = "random" /\ \E i \in Drawn(n) : answer' = Answer(by, n, i)
            \/ by = "manual" /\ answer' = Answer(by, n, ManualOf(n))
            \/ by = "weighted_random" /\ \E i \in WeightedOf(n) : answer' = Answer(by, n, i)
    /\ UNCHANGED <<strategy, roundRobin, sticky, ranges, weights>>

UpdateRanges ==
    /\ Uses("key_range")
    /\ ranges' \in RangeLists
    /\ UNCHANGED <<strategy, answer, roundRobin, sticky, weights>>

UpdateWeights ==
    /\ Uses("weighted_random")
    /\ weights' \in WeightLists
    /\ UNCHANGED <<strategy, answer, roundRobin, sticky, ranges>>

Next ==
    \/ \E n \in Counts : RoundRobin(n) \/ Stateless(n) \/ \E p \in Caller : StickyCount(p, n)
    \/ \E p \in Caller : StickyChoose(p)
    \/ Tick \/ UpdateRanges \/ UpdateWeights

Spec == Init /\ [][Next]_vars

-----------------------------------------------------------------------------
\* The state is well typed: the sticky partition in particular is one of those
\* that there were when it was chosen.
TypeOK ==
    /\ strategy \in Simple \cup {"composite"}
    /\ answer \in [by : Simple \cup {"none"}, n : {1} \cup Counts, partition : Int]
    /\ counter \in (-HalfRange)..(HalfRange - 1) /\ wrapped \in BOOLEAN
    /\ recent \in Seq([by : Simple, n : Counts, partition : Int])
    /\ messageCount \in 0..SwitchThreshold /\ currentPartition \in 0..(stickyFor - 1)
    /\ age \in 0..SwitchInterval
    /\ stickyFor \in {1} \cup Counts /\ kept \in Nat
    /\ pc \in [Caller -> {"out", "counted"}]
    /\ count \in [Caller -> 0..SwitchThreshold] /\ asked \in [Caller -> {0} \cup Counts]
    /\ ranges \in RangeLists /\ weights \in WeightLists

RangePartitions == UNION {{list[i].Partition : i \in DOMAIN list} : list \in RangeLists}

\* The producer can use the answer: it is one of the partitions asked for, with
\* the three exceptions that the code has: the round-robin counter after it has
\* overflowed, a sticky partition chosen among more than there are now, and the
\* negative partition of a range (strategies.go:200 looks at the upper bound
\* only).
PartitionExists ==
    \/ answer.partition \in 0..(answer.n - 1)
    \/ answer.by = "round_robin" /\ wrapped /\ -answer.partition \in 0..(answer.n - 1)
    \/ answer.by = "sticky" /\ answer.partition \in answer.n..(stickyFor - 1)
    \/ answer.by = "key_range" /\ answer.partition < 0 /\ answer.partition \in RangePartitions

\* partitioner_test.go:156 "All partitions should be used in concurrent access":
\* of any n answers in a row, two that were asked for n partitions differ,
\* whatever the callers between them asked for.
RoundRobinSpreads ==
    ~wrapped => \A i, j \in DOMAIN recent :
        i < j /\ recent[i].n = recent[j].n /\ j - i < recent[i].n =>
            recent[i].partition # recent[j].partition

\* The switch threshold works although the counts are taken before the lock:
\* a caller may sit on the count that switches while the others go on to the
\* next one, so a partition is kept for the threshold times the callers, and
\* no longer.
StickinessIsBounded ==
    SwitchThreshold > 0 => kept <= MostKept
=============================================================================
