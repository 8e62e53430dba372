----------------------------- MODULE RateLimiter -----------------------------
(***************************************************************************)
(* The rate limiter of internal/security/ratelimit.go.  Handler goroutines *)
(* call Allow; a step is a section under the limiter's mutex or under a    *)
(* bucket's.  Between its steps a call holds pointers that SetLimit and    *)
(* cleanup may have replaced meanwhile.                                    *)
(*                                                                         *)
(* An endpoint stands for the entry of the limits map that a path matches; *)
(* a path without one is let through and changes nothing.  The limiter is  *)
(* enabled.  Buckets are numbered in the order of their creation.          *)
(***************************************************************************)
EXTENDS Integers, FiniteSets, FiniteSetsExt, Functions

CONSTANTS Handler,        \* goroutines that call Allow
          Client, Endpoint,
          StartLimits,    \* the limit of each endpoint (setDefaultLimits)
          Limits,         \* limits that SetLimit may install
          MaxInt,         \* the largest value of an int
          TicksPerSecond, \* ticks of the clock per second
          ClientTimeout,  \* in ticks (30 minutes in the code)
          MaxClock, MaxBuckets  \* bounds: on time and on the buckets created

Limit == [RequestsPerSecond : 0..MaxInt, BurstSize : 0..MaxInt]

ASSUME LimiterAssumption ==
    /\ IsFiniteSet(Handler) /\ IsFiniteSet(Client)
    /\ MaxInt \in Nat /\ Endpoint # {}
    /\ StartLimits \in [Endpoint -> Limit]
    /\ Limits \subseteq Limit
    /\ TicksPerSecond \in Nat \ {0}
    /\ ClientTimeout \in Nat /\ MaxClock \in Nat /\ MaxBuckets \in Nat

VARIABLES
    limits,
    clients,     \* the bucket of each client in the map, 0 for none
    created,     \* how many buckets have been created
    tokens, lastRefill, \* of each bucket
    clock,
    pc,          \* where each handler's call of Allow is
    client, limit, bucket, \* its arguments and the pointers it holds
    allowed      \* history: requests of each client let through

calls == <<pc, client, limit, bucket>>
buckets == <<clients, created, tokens, lastRefill>>
vars == <<limits, buckets, clock, calls, allowed>>

Bucket == 1..MaxBuckets
NoLimit == [RequestsPerSecond |-> 0, BurstSize |-> 0]

Init ==
    /\ limits = StartLimits
    /\ clients = [c \in Client |-> 0]
    /\ created = 0
    /\ tokens = [b \in Bucket |-> 0]
    /\ lastRefill = [b \in Bucket |-> 0]
    /\ clock = 0
    /\ pc = [h \in Handler |-> "idle"]
    /\ client \in [Handler -> Client]
    /\ limit = [h \in Handler |-> NoLimit]
    /\ bucket = [h \in Handler |-> 0]
    /\ allowed = [c \in Client |-> 0]

Goto(h, step) == pc' = [pc EXCEPT ![h] = step]

-----------------------------------------------------------------------------
getLimitForEndpoint(h) ==
    /\ pc[h] = "idle"
    /\ \E c \in Client : client' = [client EXCEPT ![h] = c]
    /\ \E e \in Endpoint : limit' = [limit EXCEPT ![h] = limits[e]]
    /\ Goto(h, "looking")
    /\ UNCHANGED <<limits, buckets, clock, bucket, allowed>>

Finds(h) ==
    /\ clients[client[h]] # 0
    /\ bucket' = [bucket EXCEPT ![h] = clients[client[h]]]
    /\ Goto(h, "checking")

\* getOrCreateBucket under the read lock.
LookUpBucket(h) ==
    /\ pc[h] = "looking"
    /\ \/ Finds(h)
       \/ clients[client[h]] = 0 /\ Goto(h, "creating") /\ UNCHANGED bucket
    /\ UNCHANGED <<limits, buckets, clock, client, limit, allowed>>

\* Mutant: a new client may burst at once.
NewTokens_Burst(h) == limit[h].BurstSize

\* A new bucket is empty.
NewTokens(h) == 0

Creates(h) ==
    LET b == created + 1
    IN /\ b \in Bucket
       /\ created' = b
       /\ clients' = [clients EXCEPT ![client[h]] = b]
       /\ tokens' = [tokens EXCEPT ![b] = NewTokens(h)]
       /\ lastRefill' = [lastRefill EXCEPT ![b] = clock]
       /\ bucket' = [bucket EXCEPT ![h] = b]
       /\ Goto(h, "checking")

\* Mutant: no second look-up.
CreateBucket_NoRecheck(h) ==
    /\ pc[h] = "creating"
    /\ Creates(h)
    /\ UNCHANGED <<limits, clock, client, limit, allowed>>

\* getOrCreateBucket under the write lock, where it looks again first.
CreateBucket(h) ==
    /\ pc[h] = "creating"
    /\ \/ Finds(h) /\ UNCHANGED buckets
       \/ clients[client[h]] = 0 /\ Creates(h)
    /\ UNCHANGED <<limits, clock, client, limit, allowed>>

Elapsed(b) == clock - lastRefill[b]

TokensToAdd(h) == (Elapsed(bucket[h]) * limit[h].RequestsPerSecond) \div TicksPerSecond

\* What is in the bucket after the refill.  Its fraction of a token is lost,
\* and only a refill that adds a token cuts it to this limit's burst size.
Refilled(h) ==
    IF TokensToAdd(h) > 0
      THEN Min({tokens[bucket[h]] + TokensToAdd(h), limit[h].BurstSize})
      ELSE tokens[bucket[h]]

checkLimit(h) ==
    LET b == bucket[h]
    IN /\ pc[h] = "checking"
       /\ Goto(h, "idle")
       /\ lastRefill' = IF TokensToAdd(h) > 0 THEN [lastRefill EXCEPT ![b] = clock] ELSE lastRefill
       /\ \/ /\ Refilled(h) > 0
             /\ tokens' = [tokens EXCEPT ![b] = Refilled(h) - 1]
             /\ allowed' = [allowed EXCEPT ![client[h]] = @ + 1]
          \/ /\ Refilled(h) = 0
             /\ tokens' = [tokens EXCEPT ![b] = 0]
             /\ UNCHANGED allowed
       /\ UNCHANGED <<limits, clients, created, clock, client, limit, bucket>>

Allow(h) == getLimitForEndpoint(h) \/ LookUpBucket(h) \/ CreateBucket(h) \/ checkLimit(h)

-----------------------------------------------------------------------------
\* SetLimit, and one entry of UpdateConfiguration.
SetLimit ==
    /\ \E e \in Endpoint, l \in Limits : limits' = [limits EXCEPT ![e] = l]
    /\ UNCHANGED <<buckets, clock, calls, allowed>>

Idle(c) == clients[c] # 0 /\ Elapsed(clients[c]) > ClientTimeout

\* The ages of two buckets are read one after the other, under locks that let
\* a checkLimit pass in between; it concerns one of the buckets only.
cleanup ==
    /\ \E c \in Client : Idle(c)
    /\ clients' = [c \in Client |-> IF Idle(c) THEN 0 ELSE clients[c]]
    /\ UNCHANGED <<limits, created, tokens, lastRefill, clock, calls, allowed>>

Tick ==
    /\ clock < MaxClock
    /\ clock' = clock + 1
    /\ UNCHANGED <<limits, buckets, calls, allowed>>

Next == (\E h \in Handler : Allow(h)) \/ SetLimit \/ cleanup \/ Tick

Spec == Init /\ [][Next]_vars

-----------------------------------------------------------------------------
AllLimits == Range(StartLimits) \cup Limits
MaxRate == Max({l.RequestsPerSecond : l \in AllLimits})

\* The state is well typed: a bucket in particular never holds more than some
\* limit's burst.
TypeOK ==
    /\ limits \in [Endpoint -> AllLimits]
    /\ clients \in [Client -> {0} \cup Bucket] /\ created \in {0} \cup Bucket
    /\ tokens \in [Bucket -> Nat]
    /\ \A b \in Bucket : tokens[b] > 0 => \E l \in AllLimits : tokens[b] <= l.BurstSize
    /\ lastRefill \in [Bucket -> 0..clock]
    /\ clock \in 0..MaxClock
    /\ pc \in [Handler -> {"idle", "looking", "creating", "checking"}]
    /\ client \in [Handler -> Client]
    /\ limit \in [Handler -> AllLimits \cup {NoLimit}]
    /\ bucket \in [Handler -> {0} \cup Bucket]
    /\ allowed \in [Client -> Nat]

\* What a bucket earns until cleanup may drop it covers one request of each
\* handler (1800 s at 5 to 1000 tokens per second in the code).
FewHandlers == Cardinality(Handler) * TicksPerSecond <= MaxRate * (ClientTimeout + 1)

\* A client is never let through more often than the highest rate allows for
\* the time that has passed, however its requests race for its bucket, change
\* endpoints, and meet a cleanup that drops the bucket under them.  (With more
\* handlers than that, those left with a dropped bucket share a full burst.)
RateBound ==
    FewHandlers => \A c \in Client : allowed[c] * TicksPerSecond <= MaxRate * clock

\* The first requests of a client never replace each other's bucket, and a
\* bucket is dropped only when nothing has been added to it for ClientTimeout.
BucketsAreKept ==
    [][\A c \in Client : clients[c] # 0 /\ clients'[c] # clients[c] =>
           /\ clients'[c] = 0
           /\ clock - lastRefill[clients[c]] > ClientTimeout]_vars
=============================================================================
