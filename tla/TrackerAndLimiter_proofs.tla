----------------------- MODULE TrackerAndLimiter_proofs -----------------------
(***************************************************************************)
(* Theorems about MessageTracker and RateLimiter, the two stores that      *)
(* handlers share and a clean-up goroutine prunes.  They do not interact:  *)
(* each theorem is about the specification it names.                       *)
(***************************************************************************)
EXTENDS MessageTracker, RateLimiter, FiniteSetTheorems, WellFoundedInduction, TLAPS

-----------------------------------------------------------------------------
(* MessageTracker, for any messages, history size and retention time, and  *)
(* any states reported in any order.                                       *)

LEMMA HistorySize == MaxHistory \in Nat /\ MaxHistory > 0
BY TrackerAssumption DEF TrackerAssumption

\* What Trim returns is the end of its argument.
LEMMA TrimIsEnd ==
    ASSUME NEW h \in Seq(DeliveryStatus), Len(h) \in 1..(MaxHistory + 1)
    PROVE  /\ Trim(h) \in Seq(DeliveryStatus)
           /\ Len(Trim(h)) = IF Len(h) > MaxHistory THEN MaxHistory ELSE Len(h)
           /\ EndOf(Trim(h), h)
<1>1. CASE Len(h) > MaxHistory
  <2>1. Len(h) = MaxHistory + 1
    BY <1>1, HistorySize
  <2>2. Trim(h) = SubSeq(h, 2, MaxHistory + 1)
    BY <1>1, <2>1, HistorySize DEF Trim
  <2>3. /\ Trim(h) \in Seq(DeliveryStatus) /\ Len(Trim(h)) = MaxHistory
        /\ \A i \in 1..MaxHistory : Trim(h)[i] = h[i + 1]
    BY <2>1, <2>2, HistorySize
  <2>4. \A i \in 1..MaxHistory : Len(h) - MaxHistory + i = i + 1
    BY <2>1, HistorySize
  <2> QED BY <1>1, <2>1, <2>3, <2>4, HistorySize DEF EndOf
<1>2. CASE ~(Len(h) > MaxHistory)
  <2>1. Trim(h) = h
    BY <1>2 DEF Trim
  <2>2. Len(h) \in Nat /\ \A i \in 1..Len(h) : Len(h) - Len(h) + i = i
    OBVIOUS
  <2> QED BY <1>2, <2>1, <2>2 DEF EndOf
<1> QED BY <1>1, <1>2

LEMMA EmptyLog == <<>> \in Seq(DeliveryStatus)
OBVIOUS

\* Ends stay ends when the same entry is added to both.
LEMMA AppendToEnd ==
    ASSUME NEW h \in Seq(DeliveryStatus), NEW full \in Seq(DeliveryStatus), EndOf(h, full),
           NEW s \in DeliveryStatus
    PROVE  EndOf(Append(h, s), Append(full, s))
<1>1. /\ Len(Append(h, s)) = Len(h) + 1 /\ Len(Append(full, s)) = Len(full) + 1
      /\ Len(h) \in Nat /\ Len(full) \in Nat
    OBVIOUS
<1>2. ASSUME NEW i \in 1..(Len(h) + 1)
      PROVE  Append(h, s)[i] = Append(full, s)[Len(full) - Len(h) + i]
  <2>1. CASE i = Len(h) + 1
    <3>1. Len(full) - Len(h) + i = Len(full) + 1
      BY <1>1, <2>1
    <3> QED BY <2>1, <3>1
  <2>2. CASE i # Len(h) + 1
    <3>1. i \in 1..Len(h) /\ Len(full) - Len(h) + i \in 1..Len(full)
      BY <1>1, <1>2, <2>2 DEF EndOf
    <3>2. Append(h, s)[i] = h[i]
          /\ Append(full, s)[Len(full) - Len(h) + i] = full[Len(full) - Len(h) + i]
      BY <3>1
    <3> QED BY <3>1, <3>2 DEF EndOf
  <2> QED BY <2>1, <2>2
<1>3. Len(full) + 1 - (Len(h) + 1) = Len(full) - Len(h)
    BY <1>1
<1>4. Len(h) + 1 <= Len(full) + 1
    BY <1>1 DEF EndOf
<1>5. \A i \in 1..(Len(h) + 1) :
        Append(h, s)[i] = Append(full, s)[Len(full) + 1 - (Len(h) + 1) + i]
    BY <1>2, <1>3
<1> DEFINE a == Append(h, s)
           b == Append(full, s)
<1>6. /\ Len(a) = Len(h) + 1 /\ Len(b) = Len(full) + 1
      /\ \A i \in 1..(Len(h) + 1) : a[i] = b[Len(full) + 1 - (Len(h) + 1) + i]
    BY <1>1, <1>5
<1> HIDE DEF a, b
<1>7. EndOf(a, b)
    BY <1>4, <1>6 DEF EndOf
<1> QED BY <1>7 DEF a, b

LEMMA EndOfEnd ==
    ASSUME NEW a \in Seq(DeliveryStatus), NEW b \in Seq(DeliveryStatus),
           NEW c \in Seq(DeliveryStatus), EndOf(a, b), EndOf(b, c)
    PROVE  EndOf(a, c)
<1>1. Len(a) \in Nat /\ Len(b) \in Nat /\ Len(c) \in Nat /\ Len(a) <= Len(b) /\ Len(b) <= Len(c)
    BY DEF EndOf
<1>2. ASSUME NEW i \in 1..Len(a) PROVE a[i] = c[Len(c) - Len(a) + i]
  <2>1. Len(b) - Len(a) + i \in 1..Len(b)
    BY <1>1
  <2>2. a[i] = b[Len(b) - Len(a) + i]
    BY DEF EndOf
  <2>3. b[Len(b) - Len(a) + i] = c[Len(c) - Len(b) + (Len(b) - Len(a) + i)]
    BY <2>1 DEF EndOf
  <2>4. Len(c) - Len(b) + (Len(b) - Len(a) + i) = Len(c) - Len(a) + i
    BY <1>1
  <2> QED BY <2>2, <2>3, <2>4
<1>3. Len(a) <= Len(c)
    BY <1>1
<1> QED BY <1>2, <1>3 DEF EndOf

\* One more report keeps a status and its log together.
LEMMA RecordStep ==
    ASSUME NEW h \in Seq(DeliveryStatus), NEW full \in Seq(DeliveryStatus),
           Len(h) \in 1..MaxHistory, Len(h) < Len(full) => Len(h) = MaxHistory, EndOf(h, full),
           NEW s \in DeliveryStatus
    PROVE  /\ Trim(Append(h, s)) \in Seq(DeliveryStatus)
           /\ \A r \in DeliveryStatus \cup {NoReceipt} :
                Recent([CurrentState |-> s, Receipt |-> r, Age |-> 0,
                        History |-> Trim(Append(h, s))],
                       Append(full, s))
<1>1. /\ Append(h, s) \in Seq(DeliveryStatus) /\ Append(full, s) \in Seq(DeliveryStatus)
      /\ Len(Append(h, s)) = Len(h) + 1 /\ Append(h, s)[Len(h) + 1] = s
      /\ Len(Append(full, s)) = Len(full) + 1 /\ Append(full, s)[Len(full) + 1] = s
      /\ Len(h) \in Nat /\ Len(full) \in Nat /\ Len(h) <= Len(full)
    BY DEF EndOf
<1>2. /\ Trim(Append(h, s)) \in Seq(DeliveryStatus)
      /\ Len(Trim(Append(h, s))) = IF Len(h) + 1 > MaxHistory THEN MaxHistory ELSE Len(h) + 1
      /\ EndOf(Trim(Append(h, s)), Append(h, s))
  <2>1. Len(Append(h, s)) \in 1..(MaxHistory + 1)
    BY <1>1, HistorySize
  <2> QED BY <1>1, <2>1, TrimIsEnd
<1>3. EndOf(Trim(Append(h, s)), Append(full, s))
    BY <1>1, <1>2, AppendToEnd, EndOfEnd
<1> DEFINE t == Trim(Append(h, s))
<1> HIDE DEF t
<1>4. /\ Len(t) \in 1..MaxHistory
      /\ Len(t) < Len(Append(full, s)) => Len(t) = MaxHistory
    BY <1>1, <1>2, HistorySize DEF t
<1>5. t[Len(t)] = s
  <2>1. t[Len(t)] = Append(full, s)[Len(full) + 1 - Len(t) + Len(t)]
    BY <1>1, <1>3, <1>4 DEF EndOf, t
  <2>2. Len(full) + 1 - Len(t) + Len(t) = Len(full) + 1
    BY <1>1, <1>4, HistorySize
  <2> QED BY <1>1, <2>1, <2>2
<1> QED BY <1>2, <1>3, <1>4, <1>5 DEF Recent, t

\* Only the history and the state count.
LEMMA RecentOf ==
    ASSUME NEW a, NEW b, NEW full, Recent(a, full), b.History = a.History,
           b.CurrentState = a.CurrentState
    PROVE  Recent(b, full)
BY DEF Recent

LEMMA TrackerStarts == TrackerInit => TrackerTypeOK /\ HistoryIsRecent
<1> SUFFICES ASSUME TrackerInit PROVE TrackerTypeOK /\ HistoryIsRecent
    OBVIOUS
<1>1. Tracked = {}
    BY DEF TrackerInit, Tracked
<1>2. TrackerTypeOK
    BY EmptyLog DEF TrackerInit, TrackerTypeOK
<1> QED BY <1>1, <1>2 DEF HistoryIsRecent

LEMMA TrackerStep == TrackerTypeOK /\ HistoryIsRecent /\ [TrackerNext]_trackerVars => TrackerTypeOK' /\ HistoryIsRecent'
<1> SUFFICES ASSUME TrackerTypeOK, \A m \in Tracked : Recent(statuses[m], log[m]), [TrackerNext]_trackerVars
             PROVE  TrackerTypeOK' /\ \A m \in Tracked' : Recent(statuses'[m], log'[m])
    BY DEF HistoryIsRecent, Recent, EndOf
<1>a. RetentionTime \in Nat /\ MaxHistory \in Nat \ {0}
      /\ Updates \subseteq DeliveryStatus /\ Receipts \subseteq DeliveryStatus
    BY TrackerAssumption DEF TrackerAssumption
\* A step that gives one message a status and a log that fit, or none.
<1>b. ASSUME NEW m \in Message, NEW new, NEW full,
             statuses' = [statuses EXCEPT ![m] = new], log' = [log EXCEPT ![m] = full],
             UNCHANGED cleaning, full \in Seq(DeliveryStatus),
             new = Untracked \/ (new \in MessageStatus /\ Recent(new, full))
      PROVE  TrackerTypeOK' /\ \A q \in Tracked' : Recent(statuses'[q], log'[q])
  <2>1. /\ statuses'[m] = new /\ log'[m] = full
        /\ \A q \in Message \ {m} : statuses'[q] = statuses[q] /\ log'[q] = log[q]
    BY <1>b DEF TrackerTypeOK
  <2>2. TrackerTypeOK'
    BY <1>b DEF TrackerTypeOK, cleaning
  <2> QED BY <1>b, <2>1, <2>2 DEF Tracked
\* A step that forgets some messages and leaves the others.
<1>c. ASSUME \A q \in Message : \/ statuses'[q] = Untracked
                                \/ statuses'[q] = statuses[q] /\ log'[q] = log[q]
      PROVE  \A q \in Tracked' : Recent(statuses'[q], log'[q])
    BY <1>c DEF Tracked
<1>1. ASSUME NEW m \in Message, TrackMessage(m)
      PROVE  TrackerTypeOK' /\ \A q \in Tracked' : Recent(statuses'[q], log'[q])
  <2> DEFINE new == [CurrentState |-> "pending", Receipt |-> NoReceipt, Age |-> 0,
                     History |-> <<"pending">>]
  <2>1. <<"pending">> \in Seq(DeliveryStatus) /\ new \in MessageStatus
    BY <1>a DEF MessageStatus, DeliveryStatus
  <2>2. Recent(new, <<"pending">>)
    <3>1. /\ Len(<<"pending">>) = 1 /\ <<"pending">>[1] = "pending"
          /\ \A i \in 1..1 : 1 - 1 + i = i
      OBVIOUS
    <3>2. EndOf(<<"pending">>, <<"pending">>)
      BY <3>1 DEF EndOf
    <3> QED BY <1>a, <3>1, <3>2 DEF Recent
  <2>3. statuses' = [statuses EXCEPT ![m] = new] /\ log' = [log EXCEPT ![m] = <<"pending">>]
        /\ UNCHANGED cleaning
    BY <1>1 DEF TrackMessage
  <2> HIDE DEF new
  <2> QED BY <1>b, <2>1, <2>2, <2>3
<1>2. ASSUME NEW m \in Message, UpdateStatus(m) \/ SetReceipt(m)
      PROVE  TrackerTypeOK' /\ \A q \in Tracked' : Recent(statuses'[q], log'[q])
  <2>1. PICK s \in DeliveryStatus, receipt \in DeliveryStatus \cup {NoReceipt} : Record(m, s, receipt)
    <3>1. CASE UpdateStatus(m)
      <4>1. PICK s \in Updates : Record(m, s, statuses[m].Receipt)
        BY <3>1 DEF UpdateStatus
      <4>2. statuses[m] \in MessageStatus
        BY <4>1 DEF Record, Tracked, TrackerTypeOK
      <4> QED BY <1>a, <4>1, <4>2 DEF MessageStatus
    <3>2. CASE SetReceipt(m)
      BY <1>a, <3>2 DEF SetReceipt
    <3> QED BY <1>2, <3>1, <3>2
  <2> DEFINE new == [CurrentState |-> s, Receipt |-> receipt, Age |-> 0,
                     History |-> Trim(Append(statuses[m].History, s))]
  <2>2. m \in Tracked
    BY <2>1 DEF Record
  <2>3. new \in MessageStatus /\ Recent(new, Append(log[m], s))
    <3>1. /\ statuses[m].History \in Seq(DeliveryStatus) /\ log[m] \in Seq(DeliveryStatus)
          /\ Recent(statuses[m], log[m])
      BY <2>2 DEF Tracked, TrackerTypeOK, MessageStatus
    <3>2. /\ Trim(Append(statuses[m].History, s)) \in Seq(DeliveryStatus)
          /\ Recent(new, Append(log[m], s))
      BY <3>1, RecordStep DEF Recent
    <3> QED BY <1>a, <3>2 DEF MessageStatus
  <2>4. Append(log[m], s) \in Seq(DeliveryStatus)
    BY DEF TrackerTypeOK
  <2>5. /\ statuses' = [statuses EXCEPT ![m] = new] /\ UNCHANGED cleaning
        /\ log' = [log EXCEPT ![m] = Append(log[m], s)]
    BY <2>1 DEF Record
  <2> HIDE DEF new
  <2> QED BY <1>b, <2>3, <2>4, <2>5
<1>3. ASSUME NEW m \in Message, RemoveMessage(m)
      PROVE  TrackerTypeOK' /\ \A q \in Tracked' : Recent(statuses'[q], log'[q])
  <2>1. /\ statuses' = [statuses EXCEPT ![m] = Untracked] /\ log' = [log EXCEPT ![m] = <<>>]
        /\ UNCHANGED cleaning /\ <<>> \in Seq(DeliveryStatus)
    BY <1>3 DEF RemoveMessage
  <2> QED BY <1>b, <2>1
<1>4. ASSUME Clear \/ cleanupOldStatuses
      PROVE  TrackerTypeOK' /\ \A q \in Tracked' : Recent(statuses'[q], log'[q])
  <2>1. TrackerTypeOK'
    BY <1>4, EmptyLog DEF Clear, cleanupOldStatuses, TrackerTypeOK, cleaning
  <2> QED BY <1>4, <1>c, <2>1 DEF Clear, cleanupOldStatuses
<1>5. ASSUME StopCleaner \/ Fire \/ Close \/ StopTicker \/ UNCHANGED trackerVars
      PROVE  TrackerTypeOK' /\ \A q \in Tracked' : Recent(statuses'[q], log'[q])
  <2>1. UNCHANGED <<statuses, log>>
    BY <1>5 DEF StopCleaner, Fire, Close, StopTicker, trackerVars
  <2>2. TrackerTypeOK'
    BY <1>5 DEF StopCleaner, Fire, Close, StopTicker, trackerVars, cleaning, TrackerTypeOK
  <2> QED BY <1>c, <2>1, <2>2
<1>6. ASSUME TimePasses
      PROVE  TrackerTypeOK' /\ \A q \in Tracked' : Recent(statuses'[q], log'[q])
  <2>1. ASSUME NEW q \in Message
        PROVE  \/ statuses'[q] = statuses[q]
               \/ /\ q \in Tracked /\ statuses'[q] \in MessageStatus
                  /\ statuses'[q].History = statuses[q].History
                  /\ statuses'[q].CurrentState = statuses[q].CurrentState
    <3>1. CASE q \in Tracked /\ statuses[q].Age <= RetentionTime
      <4>1. statuses[q] \in MessageStatus
        BY <3>1 DEF Tracked, TrackerTypeOK
      <4>2. statuses'[q] = [statuses[q] EXCEPT !.Age = statuses[q].Age + 1]
        BY <1>6, <3>1 DEF TimePasses
      <4>3. statuses[q].Age + 1 \in 0..(RetentionTime + 1)
        BY <1>a, <3>1, <4>1 DEF MessageStatus
      <4> QED BY <3>1, <4>1, <4>2, <4>3 DEF MessageStatus
    <3>2. CASE ~(q \in Tracked /\ statuses[q].Age <= RetentionTime)
      BY <1>6, <3>2 DEF TimePasses
    <3> QED BY <3>1, <3>2
  <2>2. UNCHANGED <<log, cleaning>> /\ statuses' = [q \in Message |-> statuses'[q]]
    BY <1>6 DEF TimePasses
  <2>3. TrackerTypeOK'
    BY <2>1, <2>2 DEF TrackerTypeOK, cleaning
  <2>4. \A q \in Tracked' : Recent(statuses'[q], log'[q])
    BY <2>1, <2>2 DEF Tracked, Recent
  <2> QED BY <2>3, <2>4
<1>7. ASSUME NEW m \in Message, OwnerChangesReceipt(m)
      PROVE  TrackerTypeOK' /\ \A q \in Tracked' : Recent(statuses'[q], log'[q])
  <2>1. PICK s \in DeliveryStatus :
            statuses' = [statuses EXCEPT ![m] = [statuses[m] EXCEPT !.Receipt = s]]
    BY <1>7 DEF OwnerChangesReceipt, SetError, SetTimeout, SetCancelled, DeliveryStatus
  <2> DEFINE new == [statuses[m] EXCEPT !.Receipt = s]
  <2>2. m \in Tracked /\ statuses[m] \in MessageStatus /\ Recent(statuses[m], log[m])
    BY <1>7 DEF OwnerChangesReceipt, Tracked, TrackerTypeOK
  <2>3. new \in MessageStatus
    BY <2>2 DEF MessageStatus
  <2>4. new.History = statuses[m].History /\ new.CurrentState = statuses[m].CurrentState
    BY <2>2 DEF MessageStatus
  <2>5. statuses' = [statuses EXCEPT ![m] = new] /\ UNCHANGED <<log, cleaning>>
    BY <1>7, <2>1 DEF OwnerChangesReceipt
  <2> HIDE DEF new
  <2>6. Recent(new, log[m])
    BY <2>2, <2>4, RecentOf
  <2>7. log' = [log EXCEPT ![m] = log[m]] /\ log[m] \in Seq(DeliveryStatus)
    BY <2>5 DEF TrackerTypeOK
  <2> QED BY <1>b, <2>3, <2>5, <2>6, <2>7
<1> QED BY <1>1, <1>2, <1>3, <1>4, <1>5, <1>6, <1>7 DEF TrackerNext, Cleaner

\* The tracker's state is well typed, for any calls in any order.
THEOREM TrackerTypeCorrect == TrackerSpec => []TrackerTypeOK
BY TrackerStarts, TrackerStep, PTL DEF TrackerSpec

\* For any history size and any calls, a tracked message shows the latest of
\* what was reported for it, and no older entry in place of a newer one.
THEOREM HistoriesAreRecent == TrackerSpec => []HistoryIsRecent
BY TrackerStarts, TrackerStep, PTL DEF TrackerSpec

-----------------------------------------------------------------------------
(* RateLimiter, for any handlers, clients, endpoints and limits, any clock *)
(* and any number of buckets.                                              *)

\* The part of TypeOK that the argument needs.
MapType ==
    /\ clients \in [Client -> {0} \cup Bucket]
    /\ client \in [Handler -> Client]

\* What getOrCreateBucket does to the map: nothing, or an entry where none was.
LEMMA OnlyNewEntries ==
    ASSUME MapType, NEW h \in Handler, LookUpBucket(h) \/ CreateBucket(h)
    PROVE  /\ clients' \in [Client -> {0} \cup Bucket]
           /\ \A c \in Client : clients[c] # 0 => clients'[c] = clients[c]
<1>1. CASE UNCHANGED clients
    BY <1>1 DEF MapType
<1>2. CASE clients[client[h]] = 0 /\ Creates(h)
  <2>1. clients' = [clients EXCEPT ![client[h]] = created + 1] /\ created + 1 \in Bucket
    BY <1>2 DEF Creates
  <2> QED BY <1>2, <2>1 DEF MapType
<1> QED BY <1>1, <1>2 DEF LookUpBucket, CreateBucket, buckets

LEMMA MapStep ==
    MapType /\ [Next]_vars =>
        /\ MapType'
        /\ \A c \in Client : clients[c] # 0 /\ clients'[c] # clients[c] =>
               /\ clients'[c] = 0
               /\ clock - lastRefill[clients[c]] > ClientTimeout
<1> SUFFICES ASSUME MapType, [Next]_vars
             PROVE  /\ MapType'
                    /\ \A c \in Client : clients[c] # 0 /\ clients'[c] # clients[c] =>
                           /\ clients'[c] = 0
                           /\ clock - lastRefill[clients[c]] > ClientTimeout
    OBVIOUS
<1>1. ASSUME NEW h \in Handler, getLimitForEndpoint(h) PROVE UNCHANGED clients /\ MapType'
    BY <1>1 DEF getLimitForEndpoint, buckets, MapType
<1>2. ASSUME NEW h \in Handler, LookUpBucket(h) \/ CreateBucket(h)
      PROVE  MapType' /\ \A c \in Client : clients[c] # 0 => clients'[c] = clients[c]
  <2>1. UNCHANGED client
    BY <1>2 DEF LookUpBucket, CreateBucket
  <2> QED BY <1>2, <2>1, OnlyNewEntries DEF MapType
<1>3. ASSUME NEW h \in Handler, checkLimit(h) PROVE UNCHANGED clients /\ MapType'
    BY <1>3 DEF checkLimit, MapType
<1>4. ASSUME SetLimit \/ Tick \/ UNCHANGED vars PROVE UNCHANGED clients /\ MapType'
    BY <1>4 DEF SetLimit, Tick, vars, buckets, calls, MapType
\* cleanup removes an entry only when its bucket's time is up.
<1>5. ASSUME cleanup
      PROVE  /\ MapType'
             /\ \A c \in Client : clients'[c] # clients[c] => Idle(c) /\ clients'[c] = 0
    BY <1>5 DEF cleanup, calls, MapType
<1> QED BY <1>1, <1>2, <1>3, <1>4, <1>5 DEF Next, Allow, Idle, Elapsed

\* The bucket of a client is not replaced under it, however many first requests
\* race to create it, and is dropped only after ClientTimeout without a refill.
THEOREM OneBucketPerClient == Spec => BucketsAreKept
<1>1. Init => MapType
    BY DEF Init, MapType
<1>2. MapType /\ [Next]_vars => MapType'
    BY MapStep
<1>3. MapType /\ [Next]_vars =>
        [\A c \in Client : clients[c] # 0 /\ clients'[c] # clients[c] =>
             /\ clients'[c] = 0
             /\ clock - lastRefill[clients[c]] > ClientTimeout]_vars
    BY MapStep
<1> QED BY <1>1, <1>2, <1>3, PTL DEF Spec, BucketsAreKept
-----------------------------------------------------------------------------
(* Types.  A call that is past the lookup of its limit holds one of the     *)
(* limits, and one that checks a bucket has a bucket.                       *)

Holds ==
    \A h \in Handler :
        /\ pc[h] # "idle" => limit[h] \in AllLimits
        /\ pc[h] = "checking" => bucket[h] \in Bucket

Typed == TypeOK /\ Holds

LEMMA LimiterConstants ==
    /\ AllLimits \subseteq Limit /\ StartLimits \in [Endpoint -> AllLimits]
    /\ MaxBuckets \in Nat /\ MaxClock \in Nat
    /\ TicksPerSecond \in Nat /\ TicksPerSecond > 0
BY LimiterAssumption DEF LimiterAssumption, AllLimits, Range

LEMMA MinOfTwo ==
    ASSUME NEW a \in Nat, NEW b \in Nat
    PROVE  Min({a, b}) \in Nat /\ Min({a, b}) <= a /\ Min({a, b}) <= b
<1>1. PICK m \in {a, b} : \A y \in {a, b} : m <= y
  <2>1. CASE a <= b
    BY <2>1
  <2>2. CASE b <= a
    BY <2>2
  <2> QED BY <2>1, <2>2
<1>2. Min({a, b}) \in {a, b} /\ \A y \in {a, b} : Min({a, b}) <= y
    BY <1>1 DEF Min
<1> QED BY <1>2

LEMMA Quotient ==
    ASSUME NEW a \in Nat, NEW r \in Nat, NEW t \in Nat, t > 0
    PROVE  (a * r) \div t \in Nat
<1>1. a * r \in Nat
    OBVIOUS
<1>2. ASSUME NEW x \in Nat PROVE x \div t \in Nat
    OBVIOUS
<1> QED BY <1>1, <1>2

\* A refill leaves no more than this limit's burst, or what there was.
LEMMA RefilledType ==
    ASSUME Typed, NEW h \in Handler, pc[h] = "checking"
    PROVE  /\ Refilled(h) \in Nat
           /\ Refilled(h) > 0 => \E l \in AllLimits : Refilled(h) <= l.BurstSize
<1> DEFINE b == bucket[h]
<1>1. b \in Bucket /\ limit[h] \in AllLimits
    BY DEF Typed, Holds
<1>2. /\ limit[h].RequestsPerSecond \in Nat /\ limit[h].BurstSize \in Nat
      /\ tokens[b] \in Nat /\ Elapsed(b) \in Nat
    BY <1>1, LimiterConstants DEF Typed, TypeOK, Limit, Elapsed
<1>3. TokensToAdd(h) \in Nat
    BY <1>2, LimiterConstants, Quotient DEF TokensToAdd
<1>4. CASE TokensToAdd(h) > 0
  <2>1. tokens[b] + TokensToAdd(h) \in Nat
    BY <1>2, <1>3
  <2>2. Refilled(h) \in Nat /\ Refilled(h) <= limit[h].BurstSize
    BY <1>2, <1>4, <2>1, MinOfTwo DEF Refilled
  <2> QED BY <1>1, <2>2
<1>5. CASE ~(TokensToAdd(h) > 0)
    BY <1>1, <1>2, <1>5 DEF Refilled, Typed, TypeOK
<1> QED BY <1>4, <1>5

LEMMA TypedStep == Typed /\ [Next]_vars => Typed'
<1> SUFFICES ASSUME Typed, [Next]_vars PROVE Typed'
    OBVIOUS
<1> USE DEF Goto, buckets, calls
<1>1. ASSUME NEW h \in Handler, getLimitForEndpoint(h) PROVE Typed'
    BY <1>1 DEF getLimitForEndpoint, Typed, TypeOK, Holds
<1>2. ASSUME NEW h \in Handler, Finds(h), client[h] \in Client, pc[h] # "idle",
             UNCHANGED <<limits, buckets, clock, client, limit, allowed>>
      PROVE  Typed'
    BY <1>2 DEF Finds, Typed, TypeOK, Holds
<1>3. ASSUME NEW h \in Handler, LookUpBucket(h) PROVE Typed'
  <2>1. CASE Finds(h)
    BY <1>2, <1>3, <2>1 DEF LookUpBucket, Typed, TypeOK
  <2>2. CASE Goto(h, "creating") /\ UNCHANGED bucket
    BY <1>3, <2>2 DEF LookUpBucket, Typed, TypeOK, Holds
  <2> QED BY <1>3, <2>1, <2>2 DEF LookUpBucket
<1>4. ASSUME NEW h \in Handler, CreateBucket(h) PROVE Typed'
  <2>1. CASE Finds(h) /\ UNCHANGED buckets
    BY <1>2, <1>4, <2>1 DEF CreateBucket, Typed, TypeOK
  <2>2. CASE Creates(h)
    <3> DEFINE b == created + 1
    <3>1. /\ b \in Bucket /\ created' = b /\ clients' = [clients EXCEPT ![client[h]] = b]
          /\ tokens' = [tokens EXCEPT ![b] = 0] /\ lastRefill' = [lastRefill EXCEPT ![b] = clock]
          /\ bucket' = [bucket EXCEPT ![h] = b] /\ pc' = [pc EXCEPT ![h] = "checking"]
          /\ UNCHANGED <<limits, clock, client, limit, allowed>> /\ pc[h] = "creating"
      BY <1>4, <2>2 DEF CreateBucket, Creates, NewTokens
    <3> HIDE DEF b
    <3>2. /\ tokens' \in [Bucket -> Nat] /\ lastRefill' \in [Bucket -> 0..clock']
          /\ \A c \in Bucket : tokens'[c] > 0 => \E l \in AllLimits : tokens'[c] <= l.BurstSize
      BY <3>1 DEF Typed, TypeOK
    <3>3. Holds'
      BY <3>1 DEF Typed, TypeOK, Holds, Bucket
    <3> QED BY <3>1, <3>2, <3>3 DEF Typed, TypeOK, Bucket
  <2> QED BY <1>4, <2>1, <2>2 DEF CreateBucket
<1>5. ASSUME NEW h \in Handler, checkLimit(h) PROVE Typed'
  <2>1. /\ pc[h] = "checking" /\ pc' = [pc EXCEPT ![h] = "idle"]
        /\ lastRefill' = [lastRefill EXCEPT ![bucket[h]] = clock] \/ lastRefill' = lastRefill
        /\ UNCHANGED <<limits, clients, created, clock, client, limit, bucket>>
    BY <1>5 DEF checkLimit
  <2>2. lastRefill' \in [Bucket -> 0..clock]
    BY <2>1 DEF Typed, TypeOK
  <2>3. /\ tokens' \in [Bucket -> Nat] /\ allowed' \in [Client -> Nat]
        /\ \A c \in Bucket : tokens'[c] > 0 => \E l \in AllLimits : tokens'[c] <= l.BurstSize
    <3>1. /\ Refilled(h) \in Nat
          /\ Refilled(h) > 0 => \E l \in AllLimits : Refilled(h) <= l.BurstSize
      BY <2>1, RefilledType
    <3>2. CASE Refilled(h) > 0
      <4> DEFINE left == Refilled(h) - 1
      <4>1. /\ tokens' = [tokens EXCEPT ![bucket[h]] = left]
            /\ allowed' = [allowed EXCEPT ![client[h]] = @ + 1]
        BY <1>5, <3>2 DEF checkLimit
      <4>2. left \in Nat /\ left < Refilled(h)
        BY <3>1, <3>2
      <4>3. PICK l \in AllLimits : Refilled(h) <= l.BurstSize
        BY <3>1, <3>2
      <4>4. left <= l.BurstSize
        <5>1. l.BurstSize \in Nat
          BY LimiterConstants DEF Limit
        <5> QED BY <3>1, <4>2, <4>3, <5>1
      <4> HIDE DEF left
      <4>5. /\ tokens' \in [Bucket -> Nat]
            /\ \A c \in Bucket : tokens'[c] = tokens[c] \/ tokens'[c] = left
        BY <4>1, <4>2 DEF Typed, TypeOK
      <4>6. allowed' \in [Client -> Nat]
        BY <4>1 DEF Typed, TypeOK
      <4> QED BY <4>4, <4>5, <4>6 DEF Typed, TypeOK
    <3>3. CASE Refilled(h) = 0
      <4>1. tokens' = [tokens EXCEPT ![bucket[h]] = 0] /\ allowed' = allowed
        BY <1>5, <3>3 DEF checkLimit
      <4>2. /\ tokens' \in [Bucket -> Nat]
            /\ \A c \in Bucket : tokens'[c] = tokens[c] \/ tokens'[c] = 0
        BY <4>1 DEF Typed, TypeOK
      <4> QED BY <4>1, <4>2 DEF Typed, TypeOK
    <3> QED BY <3>1, <3>2, <3>3
  <2>4. Holds' /\ pc' \in [Handler -> {"idle", "looking", "creating", "checking"}]
    BY <2>1 DEF Typed, TypeOK, Holds
  <2> QED BY <2>1, <2>2, <2>3, <2>4 DEF Typed, TypeOK
<1>6. ASSUME SetLimit PROVE Typed'
    BY <1>6 DEF SetLimit, Typed, TypeOK, Holds, AllLimits
<1>7. ASSUME cleanup PROVE Typed'
    BY <1>7 DEF cleanup, Typed, TypeOK, Holds
<1>8. ASSUME Tick PROVE Typed'
  <2>1. clock \in Nat /\ clock' = clock + 1 /\ clock' \in 0..MaxClock
    BY <1>8, LimiterConstants DEF Tick, Typed, TypeOK
  <2>2. lastRefill' \in [Bucket -> 0..clock']
    BY <1>8, <2>1 DEF Tick, Typed, TypeOK
  <2> QED BY <1>8, <2>1, <2>2 DEF Tick, Typed, TypeOK, Holds
<1>9. ASSUME UNCHANGED vars PROVE Typed'
    BY <1>9 DEF vars, Typed, TypeOK, Holds
<1> QED BY <1>1, <1>3, <1>4, <1>5, <1>6, <1>7, <1>8, <1>9 DEF Next, Allow

\* The state is well typed for any limits, also ones that SetLimit installs
\* during a call: a bucket never holds more than some limit's burst.
THEOREM LimiterTypeCorrect == Spec => []TypeOK
<1>1. Init => Typed
    BY LimiterConstants DEF Init, Typed, TypeOK, Holds, Bucket
<1>2. Typed => TypeOK
    BY DEF Typed
<1> QED BY <1>1, <1>2, TypedStep, PTL DEF Spec

-----------------------------------------------------------------------------
(* The rate.  What a client has been let through, and may still be through  *)
(* a bucket that cleanup has dropped, is paid for by the time until its     *)
(* bucket's last refill; the time without a refill after which cleanup may  *)
(* drop the bucket pays for the handlers that are left with it.             *)

\* Every non-empty set of numbers has a least one.
LEMMA LeastNumber ==
    ASSUME NEW N, N \subseteq Nat, N # {}
    PROVE  \E m \in N : \A n \in N : m <= n
<1> DEFINE Less == {p \in Nat \X Nat : p[1] < p[2]}
<1>1. IsWellFoundedOn(Less, Nat)
    BY NatLessThanWellFounded DEF OpToRel
<1>2. PICK m \in N : \A n \in N : <<n, m>> \notin Less
  <2> HIDE DEF Less
  <2> QED BY <1>1, WFMin
<1>3. ASSUME NEW n \in N PROVE m <= n
  <2>1. <<n, m>> \in Nat \X Nat /\ ~(n < m)
    BY <1>2
  <2>2. m \in Nat /\ n \in Nat
    OBVIOUS
  <2> HIDE DEF Less
  <2> QED BY <2>1, <2>2
<1> QED BY <1>3, Zenon

LEMMA Rates ==
    /\ MaxRate \in Nat
    /\ \A l \in AllLimits : l.RequestsPerSecond \in Nat /\ l.RequestsPerSecond <= MaxRate
<1> DEFINE Rate == {l.RequestsPerSecond : l \in AllLimits}
           Bound == {n \in Nat : \A r \in Rate : r <= n}
<1>1. MaxInt \in Nat /\ AllLimits \subseteq Limit /\ AllLimits # {}
    BY LimiterConstants, LimiterAssumption DEF LimiterAssumption
<1>2. Rate \subseteq 0..MaxInt /\ Rate # {}
    BY <1>1 DEF Limit
<1> HIDE DEF Rate
<1>3. PICK m \in Bound : \A n \in Bound : m <= n
  <2>1. Bound \subseteq Nat /\ MaxInt \in Bound
    BY <1>1, <1>2
  <2> HIDE DEF Bound
  <2> QED BY <2>1, LeastNumber
<1>4. m \in Rate
  <2> SUFFICES ASSUME m \notin Rate PROVE FALSE
    OBVIOUS
  <2>1. \A r \in Rate : r \in Nat /\ r <= m /\ r # m
    BY <1>2, <1>3
  <2>2. m \in Nat
    BY <1>3
  <2>r. PICK r \in Rate : r \in Nat /\ r < m
    <3>1. PICK r \in Rate : TRUE
      BY <1>2
    <3>2. r \in Nat /\ r <= m /\ r # m
      BY <2>1
    <3>3. r < m
      BY <2>2, <3>2
    <3> QED BY <3>2, <3>3
  <2>3. m - 1 \in Nat /\ \A q \in Rate : q <= m - 1
    <3>1. m - 1 \in Nat
      BY <2>2, <2>r
    <3>2. ASSUME NEW q \in Rate PROVE q <= m - 1
      BY <2>1, <2>2
    <3> QED BY <3>1, <3>2
  <2>4. m <= m - 1
    BY <1>3, <2>3
  <2> QED BY <2>2, <2>4
<1>5. MaxRate \in Rate /\ \A r \in Rate : MaxRate >= r
  <2>1. m \in Rate /\ \A r \in Rate : m >= r
    BY <1>2, <1>3, <1>4
  <2>2. MaxRate = CHOOSE x \in Rate : \A r \in Rate : x >= r
    BY DEF MaxRate, Max, Rate
  <2> QED BY <2>1, <2>2
<1>6. \A l \in AllLimits : l.RequestsPerSecond \in Rate
    BY DEF Rate
<1>7. Rate \subseteq Nat
    BY <1>1, <1>2
<1>8. MaxRate \in Nat
    BY <1>5, <1>7
<1>9. \A r \in Rate : r \in Nat /\ r <= MaxRate
    BY <1>5, <1>7
<1> QED BY <1>6, <1>8, <1>9, Zenon

\* A sum that a rate pays for until some time, with the tokens that a refill
\* adds for the time after it, is paid for until the refill.
LEMMA PaidByRefill ==
    ASSUME NEW s \in Nat, NEW t \in Nat, NEW n \in Nat, NEW from \in Nat, NEW to \in Nat, from <= to,
           NEW r \in Nat, NEW R \in Nat, r <= R, NEW T \in Nat, T > 0,
           (s + t) * T <= R * from, n <= t + ((to - from) * r) \div T
    PROVE  (s + n) * T <= R * to
<1> DEFINE d == to - from  k == (d * r) \div T
<1>1. d \in Nat /\ from + d = to
    OBVIOUS
<1>2. k \in Nat
    BY <1>1, Quotient
<1>3. T * k <= d * r
  <2>1. ASSUME NEW x \in Nat PROVE T * (x \div T) <= x
    OBVIOUS
  <2>2. d * r \in Nat
    BY <1>1
  <2> QED BY <2>1, <2>2
<1> HIDE DEF d, k
<1>4. d * r <= d * R
    BY <1>1
<1>5. (s + n) * T <= (s + t + k) * T
  <2>1. s + n <= s + t + k
    BY <1>2 DEF d, k
  <2>2. ASSUME NEW x \in Nat, NEW y \in Nat, x <= y PROVE x * T <= y * T
    BY <2>2
  <2> QED BY <1>2, <2>1, <2>2
<1>6. (s + t + k) * T = (s + t) * T + T * k
    BY <1>2
<1>7. R * to = R * from + d * R
  <2>1. R * (from + d) = R * from + d * R
    BY <1>1
  <2> QED BY <1>1, <2>1
<1>8. /\ (s + n) * T \in Nat /\ (s + t) * T \in Nat /\ T * k \in Nat /\ d * r \in Nat
      /\ d * R \in Nat /\ R * from \in Nat
    BY <1>1, <1>2
<1> QED BY <1>3, <1>4, <1>5, <1>6, <1>7, <1>8

LEMMA Monotone ==
    ASSUME NEW x \in Nat, NEW y \in Nat, NEW z \in Nat, x <= y
    PROVE  x * z <= y * z /\ z * x <= z * y /\ x * z \in Nat /\ y * z \in Nat
OBVIOUS

-----------------------------------------------------------------------------
\* A bucket is one client's, also for the handlers that hold it, and new ones
\* get new numbers.
Owners ==
    /\ \A c \in Client : clients[c] <= created
    /\ \A c, d \in Client : clients[c] = clients[d] /\ clients[c] # 0 => c = d
    /\ \A h \in Handler : pc[h] = "checking" =>
         /\ bucket[h] \in 1..created
         /\ \A d \in Client : clients[d] = bucket[h] => d = client[h]

\* Handlers that are left with a dropped bucket of the client.
Stale(c) == {h \in Handler : pc[h] = "checking" /\ client[h] = c /\ bucket[h] # clients[c]}

\* What the client has been let through, and may still be by those.
Spent(c) == allowed[c] + Cardinality(Stale(c))

Account(c) ==
    IF clients[c] = 0
      THEN Spent(c) * TicksPerSecond <= MaxRate * clock
      ELSE (Spent(c) + tokens[clients[c]]) * TicksPerSecond <= MaxRate * lastRefill[clients[c]]

RateInv == Owners /\ (FewHandlers => \A c \in Client : Account(c))

LEMMA FewStale ==
    ASSUME NEW c \in Client
    PROVE  /\ IsFiniteSet(Stale(c)) /\ Cardinality(Stale(c)) \in Nat
           /\ Cardinality(Stale(c)) <= Cardinality(Handler) /\ Cardinality(Handler) \in Nat
<1>1. IsFiniteSet(Handler) /\ Stale(c) \subseteq Handler
    BY LimiterAssumption DEF LimiterAssumption, Stale
<1> QED BY <1>1, FS_Subset, FS_CardinalityType

\* The account of a client for which nothing changes but the time.
LEMMA AccountKept ==
    ASSUME Typed, NEW c \in Client, Account(c), clock' \in Nat, clock <= clock',
           clients'[c] = clients[c], allowed'[c] = allowed[c], Stale(c)' = Stale(c),
           clients[c] # 0 => /\ tokens'[clients[c]] = tokens[clients[c]]
                             /\ lastRefill'[clients[c]] = lastRefill[clients[c]]
    PROVE  Account(c)'
<1>1. Spent(c)' = Spent(c)
    BY DEF Spent
<1>2. CASE clients[c] # 0
    BY <1>1, <1>2 DEF Account
<1>3. CASE clients[c] = 0
  <2>1. Spent(c) * TicksPerSecond <= MaxRate * clock
    BY <1>3 DEF Account
  <2>0. clock \in Nat /\ MaxRate \in Nat
    BY Rates, LimiterConstants DEF Typed, TypeOK
  <2>2. MaxRate * clock <= MaxRate * clock'
    BY <2>0, Monotone
  <2>3. Spent(c) * TicksPerSecond \in Nat /\ MaxRate * clock \in Nat /\ MaxRate * clock' \in Nat
    <3>1. allowed[c] \in Nat /\ Cardinality(Stale(c)) \in Nat
      BY FewStale DEF Typed, TypeOK
    <3>2. Spent(c) \in Nat
      BY <3>1 DEF Spent
    <3>3. ASSUME NEW x \in Nat, NEW y \in Nat PROVE x * y \in Nat
      OBVIOUS
    <3> QED BY <2>0, <3>2, <3>3, LimiterConstants
  <2>4. Spent(c) * TicksPerSecond <= MaxRate * clock'
    BY <2>1, <2>2, <2>3
  <2> QED BY <1>1, <1>3, <2>4 DEF Account
<1> QED BY <1>2, <1>3

\* The steps of a call before it has a bucket, and SetLimit and Tick.
LEMMA AccountsWait ==
    ASSUME Typed, RateInv, clock' \in Nat, clock <= clock',
           UNCHANGED <<clients, created, tokens, lastRefill, allowed>>,
           \A h \in Handler : pc'[h] = "checking" =>
              /\ client'[h] = client[h]
              /\ \/ pc[h] = "checking" /\ bucket'[h] = bucket[h]
                 \/ /\ pc[h] # "checking"
                    /\ bucket'[h] = clients[client[h]] /\ bucket'[h] # 0,
           \A h \in Handler : pc[h] = "checking" => pc'[h] = "checking"
    PROVE  RateInv'
<1>1. Owners'
  <2>1. /\ \A c \in Client : clients[c] \in Nat /\ clients[c] <= created
        /\ created \in Nat /\ \A h \in Handler : client[h] \in Client
    BY LimiterConstants DEF Typed, TypeOK, RateInv, Owners, Bucket
  <2>2. ASSUME NEW h \in Handler, pc'[h] = "checking"
        PROVE  bucket'[h] \in 1..created' /\ \A d \in Client : clients'[d] = bucket'[h] => d = client'[h]
    <3>1. CASE pc[h] = "checking" /\ bucket'[h] = bucket[h]
      BY <2>2, <3>1 DEF RateInv, Owners
    <3>2. CASE bucket'[h] = clients[client[h]] /\ bucket'[h] # 0
      <4>1. bucket'[h] \in 1..created
        BY <2>1, <3>2
      <4>2. \A d \in Client : clients[d] = clients[client[h]] => d = client[h]
        BY <2>1, <3>2 DEF RateInv, Owners
      <4> QED BY <2>2, <3>2, <4>1, <4>2
    <3> QED BY <2>2, <3>1, <3>2
  <2> QED BY <2>2 DEF RateInv, Owners
<1>2. ASSUME NEW c \in Client PROVE Stale(c)' = Stale(c)
  <2>1. ASSUME NEW h \in Handler
        PROVE  pc'[h] = "checking" /\ client'[h] = c /\ bucket'[h] # clients[c] <=>
               pc[h] = "checking" /\ client[h] = c /\ bucket[h] # clients[c]
    OBVIOUS
  <2> QED BY <2>1 DEF Stale
<1>3. FewHandlers' = FewHandlers
    BY DEF FewHandlers
<1>4. ASSUME FewHandlers, NEW c \in Client PROVE Account(c)'
    BY <1>2, <1>4, AccountKept DEF RateInv
<1> QED BY <1>1, <1>3, <1>4 DEF RateInv

\* A check spends one token at most, and of the client's own bucket or of one
\* that cleanup has dropped.
LEMMA CheckPays ==
    ASSUME Typed, Owners, FewHandlers, \A c \in Client : Account(c), NEW h \in Handler, checkLimit(h)
    PROVE  \A c \in Client : Account(c)'
<1>0. PICK me \in Client, b \in Bucket : me = client[h] /\ b = bucket[h]
    BY DEF checkLimit, Typed, TypeOK, Holds
<1>1. /\ pc[h] = "checking" /\ pc'[h] = "idle" /\ limit[h] \in AllLimits
      /\ \A g \in Handler \ {h} : pc'[g] = pc[g]
      /\ \A c \in Client : clients[c] = b => c = me
      /\ \A c \in Client : clients[c] \in {0} \cup Bucket
      /\ UNCHANGED <<clients, clock, client, bucket>>
    BY <1>0 DEF checkLimit, Goto, Typed, TypeOK, Holds, Owners
<1>2. /\ Refilled(h) \in Nat /\ clock \in Nat /\ lastRefill[b] \in 0..clock /\ tokens[b] \in Nat
      /\ MaxRate \in Nat /\ TicksPerSecond \in Nat /\ TicksPerSecond > 0
    BY <1>0, <1>1, RefilledType, Rates, LimiterConstants DEF Typed, TypeOK
<1>3. /\ tokens' \in [Bucket -> Nat] /\ lastRefill' \in [Bucket -> 0..clock]
      /\ \A k \in Bucket \ {b} : tokens'[k] = tokens[k] /\ lastRefill'[k] = lastRefill[k]
      /\ lastRefill'[b] = IF TokensToAdd(h) > 0 THEN clock ELSE lastRefill[b]
  <2>1. lastRefill' = [lastRefill EXCEPT ![b] = IF TokensToAdd(h) > 0 THEN clock ELSE lastRefill[b]]
    BY <1>0, <1>1 DEF checkLimit, Typed, TypeOK
  <2>2. PICK n \in Nat : tokens' = [tokens EXCEPT ![b] = n]
    BY <1>0, <1>2 DEF checkLimit
  <2> QED BY <1>1, <1>2, <2>1, <2>2 DEF Typed, TypeOK
<1>4. /\ \A c \in Client \ {me} : allowed'[c] = allowed[c] /\ Stale(c)' = Stale(c)
      /\ \/ Refilled(h) > 0 /\ tokens'[b] = Refilled(h) - 1 /\ allowed'[me] = allowed[me] + 1
         \/ Refilled(h) = 0 /\ tokens'[b] = 0 /\ allowed'[me] = allowed[me]
  <2>1. \A c \in Client \ {me} : Stale(c)' = Stale(c)
    BY <1>0, <1>1 DEF Stale
  <2> QED BY <1>0, <1>1, <2>1 DEF checkLimit, Typed, TypeOK
\* Other clients have other buckets.
<1>5. ASSUME NEW c \in Client, c # me PROVE Account(c)'
  <2>1. clients[c] # 0 => clients[c] \in Bucket \ {b}
    BY <1>1, <1>5
  <2> QED BY <1>1, <1>2, <1>3, <1>4, <1>5, <2>1, AccountKept
<1>6. allowed[me] \in Nat /\ IsFiniteSet(Stale(me)) /\ Cardinality(Stale(me)) \in Nat
    BY FewStale DEF Typed, TypeOK
<1> SUFFICES Account(me)'
    BY <1>5
\* From a dropped bucket: the call is stale no more.
<1>7. CASE b # clients[me]
  <2>1. h \in Stale(me) /\ Stale(me)' = Stale(me) \ {h}
    BY <1>0, <1>1, <1>7 DEF Stale
  <2>2. Cardinality(Stale(me)') = Cardinality(Stale(me)) - 1
    BY <1>6, <2>1, FS_RemoveElement
  <2>3. Spent(me)' \in Nat /\ Spent(me) \in Nat /\ Spent(me)' <= Spent(me)
    <3>1. Cardinality(Stale(me)') \in Nat
      BY <1>6, <2>1, FS_RemoveElement, FS_CardinalityType
    <3>2. Spent(me)' = allowed'[me] + Cardinality(Stale(me)')
      BY DEF Spent
    <3>3. allowed'[me] \in Nat /\ allowed'[me] <= allowed[me] + 1
      BY <1>4, <1>6
    <3> QED BY <1>6, <2>2, <3>1, <3>2, <3>3 DEF Spent
  <2>4. CASE clients[me] = 0
    <3>1. Spent(me) * TicksPerSecond <= MaxRate * clock
      BY <1>1, <2>4 DEF Account
    <3>2. Spent(me)' * TicksPerSecond <= MaxRate * clock
      <4>1. Spent(me)' * TicksPerSecond <= Spent(me) * TicksPerSecond
        BY <1>2, <2>3, Monotone
      <4>2. /\ Spent(me)' * TicksPerSecond \in Nat /\ Spent(me) * TicksPerSecond \in Nat
            /\ MaxRate * clock \in Nat
        BY <1>2, <2>3, Monotone
      <4> QED BY <3>1, <4>1, <4>2
    <3> QED BY <1>1, <2>4, <3>2 DEF Account
  <2>5. CASE clients[me] # 0
    <3>0. PICK k \in Bucket : k = clients[me]
      BY <1>1, <2>5
    <3>1. tokens'[k] = tokens[k] /\ lastRefill'[k] = lastRefill[k]
      BY <1>3, <1>7, <3>0
    <3>2. (Spent(me) + tokens[k]) * TicksPerSecond <= MaxRate * lastRefill[k]
      BY <2>5, <3>0 DEF Account
    <3>3. tokens[k] \in Nat /\ lastRefill[k] \in Nat
      BY <1>2, <3>1 DEF Typed, TypeOK
    <3>4. (Spent(me)' + tokens[k]) * TicksPerSecond <= MaxRate * lastRefill[k]
      <4>1. Spent(me)' + tokens[k] <= Spent(me) + tokens[k]
        BY <2>3, <3>3
      <4>2. Spent(me)' + tokens[k] \in Nat /\ Spent(me) + tokens[k] \in Nat
        BY <2>3, <3>3
      <4>3. (Spent(me)' + tokens[k]) * TicksPerSecond <= (Spent(me) + tokens[k]) * TicksPerSecond
        BY <1>2, <4>1, <4>2, Monotone
      <4>4. /\ (Spent(me)' + tokens[k]) * TicksPerSecond \in Nat
            /\ (Spent(me) + tokens[k]) * TicksPerSecond \in Nat /\ MaxRate * lastRefill[k] \in Nat
        BY <1>2, <3>3, <4>2, Monotone
      <4> QED BY <3>2, <4>3, <4>4
    <3> QED BY <1>1, <2>5, <3>0, <3>1, <3>4 DEF Account
  <2> QED BY <2>4, <2>5
\* From its own: what is left and the request are tokens it had or has earned.
<1>8. CASE b = clients[me]
  <2>1. Stale(me)' = Stale(me)
    BY <1>0, <1>1, <1>8 DEF Stale
  <2>2. b # 0
    BY <1>1 DEF Bucket
  <2>3. Spent(me) \in Nat /\ (Spent(me) + tokens[b]) * TicksPerSecond <= MaxRate * lastRefill[b]
    BY <1>1, <1>6, <1>8, <2>2 DEF Account, Spent
  <2>4. Spent(me)' + tokens'[b] = Spent(me) + Refilled(h)
    BY <1>2, <1>4, <1>6, <2>1 DEF Spent
  <2>5. (Spent(me) + Refilled(h)) * TicksPerSecond <= MaxRate * lastRefill'[b]
    <3> DEFINE r == limit[h].RequestsPerSecond
    <3>1. r \in Nat /\ r <= MaxRate /\ limit[h].BurstSize \in Nat
      BY <1>1, Rates, LimiterConstants DEF Limit
    <3>2. TokensToAdd(h) = ((clock - lastRefill[b]) * r) \div TicksPerSecond
      BY <1>0 DEF TokensToAdd, Elapsed
    <3>3. CASE TokensToAdd(h) > 0
      <4>1. TokensToAdd(h) \in Nat
        <5>1. clock - lastRefill[b] \in Nat
          BY <1>2
        <5> QED BY <1>2, <3>1, <3>2, <5>1, Quotient, ZenonT(40)
      <4>2. tokens[b] + TokensToAdd(h) \in Nat
        BY <1>2, <4>1
      <4>3. Refilled(h) <= tokens[b] + TokensToAdd(h)
        BY <1>0, <3>1, <3>3, <4>2, MinOfTwo DEF Refilled
      <4>4. lastRefill'[b] = clock
        BY <1>3, <3>3
      <4>5. lastRefill[b] \in Nat /\ lastRefill[b] <= clock
        BY <1>2
      <4> HIDE DEF r
      <4> QED BY <1>2, <2>3, <3>1, <3>2, <4>3, <4>4, <4>5, PaidByRefill
    <3>4. CASE ~(TokensToAdd(h) > 0)
      BY <1>0, <1>3, <2>3, <3>4 DEF Refilled
    <3> QED BY <3>3, <3>4
  <2> QED BY <1>1, <1>8, <2>2, <2>4, <2>5 DEF Account
<1> QED BY <1>7, <1>8

\* A new bucket is empty, and nobody else has it.
LEMMA CreationPays ==
    ASSUME Typed, RateInv, NEW h \in Handler, CreateBucket(h), clients[client[h]] = 0, Creates(h)
    PROVE  RateInv'
<1>0. PICK me \in Client, b \in Bucket : me = client[h] /\ b = created + 1
    BY DEF Creates, Typed, TypeOK
<1>1. /\ created' = b /\ clients' = [clients EXCEPT ![me] = b] /\ tokens' = [tokens EXCEPT ![b] = 0]
      /\ lastRefill' = [lastRefill EXCEPT ![b] = clock] /\ bucket' = [bucket EXCEPT ![h] = b]
      /\ pc' = [pc EXCEPT ![h] = "checking"] /\ pc[h] = "creating" /\ clients[me] = 0
      /\ UNCHANGED <<clock, client, allowed>>
    BY <1>0 DEF CreateBucket, Creates, NewTokens, Goto
<1>2. /\ clients \in [Client -> {0} \cup Bucket] /\ created \in Nat /\ b \in Nat /\ b > 0 /\ created < b
      /\ clock \in Nat /\ pc[h] # "checking" /\ bucket \in [Handler -> {0} \cup Bucket]
      /\ client \in [Handler -> Client]
      /\ \A g \in Handler : pc[g] = "checking" => bucket[g] \in 1..created
    BY <1>0, <1>1, LimiterConstants DEF Typed, TypeOK, Bucket, RateInv, Owners
<1>3. /\ clients'[me] = b /\ \A c \in Client \ {me} : clients'[c] = clients[c] /\ clients[c] <= created
      /\ bucket'[h] = b /\ pc'[h] = "checking" /\ client'[h] = me
      /\ \A g \in Handler \ {h} : bucket'[g] = bucket[g] /\ pc'[g] = pc[g]
    BY <1>0, <1>1, <1>2 DEF Typed, TypeOK, RateInv, Owners
<1>4. \A c \in Client : clients[c] # b /\ clients[c] \in Nat
    BY <1>0, <1>1, <1>2, LimiterConstants DEF RateInv, Owners, Bucket
<1>5. Owners'
  <2>1. \A c \in Client : clients'[c] <= created'
    BY <1>1, <1>2, <1>3, <1>4
  <2>2. \A c, d \in Client : clients'[c] = clients'[d] /\ clients'[c] # 0 => c = d
    BY <1>3, <1>4 DEF RateInv, Owners
  <2>3. ASSUME NEW g \in Handler, pc'[g] = "checking"
        PROVE  bucket'[g] \in 1..created' /\ \A d \in Client : clients'[d] = bucket'[g] => d = client'[g]
    <3>1. CASE g = h
      <4>1. bucket'[g] \in 1..created'
        BY <1>1, <1>2, <1>3, <3>1
      <4> QED BY <1>3, <1>4, <3>1, <4>1
    <3>2. CASE g # h
      <4>1. bucket'[g] = bucket[g] /\ bucket[g] \in 1..created /\ bucket[g] # b
        BY <1>2, <1>3, <2>3, <3>2
      <4>2. \A d \in Client : clients[d] = bucket[g] => d = client[g]
        BY <1>3, <2>3, <3>2 DEF RateInv, Owners
      <4>3. bucket'[g] \in 1..created'
        BY <1>1, <1>2, <4>1
      <4> QED BY <1>1, <1>3, <4>1, <4>2, <4>3
    <3> QED BY <3>1, <3>2
  <2> QED BY <2>1, <2>2, <2>3 DEF Owners
<1>6. ASSUME NEW c \in Client PROVE Stale(c)' = Stale(c)
  <2>1. ASSUME NEW g \in Handler
        PROVE  pc'[g] = "checking" /\ client'[g] = c /\ bucket'[g] # clients'[c] <=>
               pc[g] = "checking" /\ client[g] = c /\ bucket[g] # clients[c]
    <3>1. CASE g = h
      BY <1>1, <1>2, <1>3, <3>1
    <3>2. CASE g # h /\ c # me
      BY <1>1, <1>3, <3>2
    <3>3. CASE g # h /\ c = me /\ pc[g] = "checking"
      <4>1. bucket[g] # 0 /\ bucket[g] # b
        BY <1>2, <3>3
      <4> QED BY <1>1, <1>3, <3>3, <4>1
    <3>4. CASE g # h /\ pc[g] # "checking"
      BY <1>3, <3>4
    <3> QED BY <3>1, <3>2, <3>3, <3>4
  <2> QED BY <2>1 DEF Stale
<1>7. ASSUME FewHandlers, NEW c \in Client PROVE Account(c)'
  <2>1. CASE c # me
    <3>1. clients'[c] = clients[c] /\ clients[c] \in {0} \cup Bucket /\ clients[c] # b
      BY <1>2, <1>3, <1>4, <2>1
    <3>2. clients[c] # 0 => /\ tokens'[clients[c]] = tokens[clients[c]]
                            /\ lastRefill'[clients[c]] = lastRefill[clients[c]]
      BY <1>1, <3>1 DEF Typed, TypeOK
    <3>3. clock' \in Nat /\ clock <= clock' /\ allowed'[c] = allowed[c]
      BY <1>1, <1>2
    <3> QED BY <1>6, <1>7, <3>1, <3>2, <3>3, AccountKept DEF RateInv
  <2>2. CASE c = me
    <3>1. Spent(me) * TicksPerSecond <= MaxRate * clock /\ Spent(me)' = Spent(me)
      BY <1>1, <1>6, <1>7 DEF RateInv, Account, Spent
    <3>2. tokens'[b] = 0 /\ lastRefill'[b] = clock
      BY <1>1 DEF Typed, TypeOK
    <3>3. Spent(me) \in Nat
      BY FewStale DEF Spent, Typed, TypeOK
    <3>4. Spent(me)' + tokens'[b] = Spent(me)
      BY <3>1, <3>2, <3>3
    <3> QED BY <1>2, <1>3, <2>2, <3>1, <3>2, <3>4 DEF Account
  <2> QED BY <2>1, <2>2
<1>8. FewHandlers' = FewHandlers
    BY DEF FewHandlers
<1> QED BY <1>5, <1>7, <1>8 DEF RateInv

\* The time without a refill pays for the handlers that hold the bucket.
LEMMA CleanupPays ==
    ASSUME Typed, RateInv, cleanup
    PROVE  RateInv'
<1>1. /\ \A c \in Client : clients'[c] = IF Idle(c) THEN 0 ELSE clients[c]
      /\ UNCHANGED <<created, tokens, lastRefill, clock, pc, client, bucket, allowed>>
    BY DEF cleanup, calls
<1>2. /\ clock \in Nat /\ created \in Nat /\ ClientTimeout \in Nat
      /\ MaxRate \in Nat /\ TicksPerSecond \in Nat /\ TicksPerSecond > 0
    BY Rates, LimiterConstants, LimiterAssumption DEF LimiterAssumption, Typed, TypeOK, Bucket
<1>3. Owners'
  <2>1. \A c \in Client : clients'[c] <= created'
    BY <1>1, <1>2 DEF RateInv, Owners
  <2>2. \A c, d \in Client : clients'[c] = clients'[d] /\ clients'[c] # 0 => c = d
    BY <1>1 DEF RateInv, Owners
  <2>3. ASSUME NEW g \in Handler, pc'[g] = "checking"
        PROVE  bucket'[g] \in 1..created' /\ \A d \in Client : clients'[d] = bucket'[g] => d = client'[g]
    <3>1. /\ bucket[g] \in 1..created
          /\ \A d \in Client : clients[d] = bucket[g] => d = client[g]
      BY <1>1, <2>3 DEF RateInv, Owners
    <3>2. bucket[g] # 0
      BY <1>2, <3>1
    <3> QED BY <1>1, <3>1, <3>2
  <2> QED BY <2>1, <2>2, <2>3 DEF Owners
<1>4. ASSUME FewHandlers, NEW c \in Client PROVE Account(c)'
  <2>1. CASE ~Idle(c)
    <3>1. Stale(c)' = Stale(c)
      BY <1>1, <2>1 DEF Stale
    <3> QED BY <1>1, <1>2, <1>4, <2>1, <3>1, AccountKept DEF RateInv
  <2>2. CASE Idle(c)
    <3>0. PICK k \in Bucket : k = clients[c] /\ k # 0
      BY <2>2 DEF Idle, Typed, TypeOK
    <3>1. /\ tokens[k] \in Nat /\ lastRefill[k] \in Nat /\ allowed[c] \in Nat
          /\ lastRefill[k] + (ClientTimeout + 1) <= clock
      <4>1. lastRefill[k] \in 0..clock /\ clock - lastRefill[k] > ClientTimeout
        BY <2>2, <3>0 DEF Idle, Elapsed, Typed, TypeOK
      <4>2. lastRefill[k] \in Nat
        BY <1>2, <4>1
      <4>3. lastRefill[k] + (ClientTimeout + 1) <= clock
        BY <1>2, <4>1, <4>2
      <4> QED BY <4>2, <4>3 DEF Typed, TypeOK
    <3>2. /\ Cardinality(Stale(c)) \in Nat /\ Cardinality(Handler) \in Nat
          /\ Cardinality(Stale(c)') \in Nat /\ Cardinality(Stale(c)') <= Cardinality(Handler)
      <4>1. IsFiniteSet(Handler) /\ Stale(c)' \subseteq Handler
        BY LimiterAssumption DEF LimiterAssumption, Stale
      <4> QED BY <4>1, FewStale, FS_Subset, FS_CardinalityType
    <3>3. (Spent(c) + tokens[k]) * TicksPerSecond <= MaxRate * lastRefill[k]
      BY <1>4, <3>0 DEF RateInv, Account
    <3>4. Cardinality(Handler) * TicksPerSecond <= MaxRate * (ClientTimeout + 1)
      BY <1>4 DEF FewHandlers
    <3>5. Spent(c)' * TicksPerSecond <= MaxRate * clock
      <4> DEFINE a == allowed[c]  H == Cardinality(Handler)  T == TicksPerSecond  s == Spent(c) + tokens[k]
                 idle == ClientTimeout + 1  from == lastRefill[k]  R == MaxRate
      <4>1. /\ a \in Nat /\ H \in Nat /\ T \in Nat /\ s \in Nat /\ a <= s
            /\ idle \in Nat /\ from \in Nat /\ R \in Nat /\ from + idle <= clock
        BY <1>2, <3>1, <3>2 DEF Spent
      <4>2. Spent(c)' <= a + H /\ Spent(c)' \in Nat
        BY <1>1, <3>1, <3>2 DEF Spent
      <4>3. s * T <= R * from /\ H * T <= R * idle
        BY <3>3, <3>4
      <4> HIDE DEF a, H, T, s, idle, from, R
      <4>4. Spent(c)' * T <= (a + H) * T /\ (a + H) * T = a * T + H * T /\ a * T <= s * T
        <5>1. a + H \in Nat
          BY <4>1
        <5>2. Spent(c)' * T <= (a + H) * T /\ a * T <= s * T
          BY <4>1, <4>2, <5>1, Monotone
        <5>3. (a + H) * T = a * T + H * T
          BY <4>1
        <5> QED BY <5>2, <5>3
      <4>5. R * (from + idle) = R * from + R * idle /\ R * (from + idle) <= R * clock
        <5>1. from + idle \in Nat
          BY <4>1
        <5>2. R * (from + idle) <= R * clock
          BY <1>2, <4>1, <5>1, Monotone
        <5>3. R * (from + idle) = R * from + R * idle
          BY <4>1
        <5> QED BY <5>2, <5>3
      <4>6. /\ Spent(c)' * T \in Nat /\ a * T \in Nat /\ H * T \in Nat /\ s * T \in Nat
            /\ R * from \in Nat /\ R * idle \in Nat /\ R * clock \in Nat
        <5>1. ASSUME NEW x \in Nat, NEW y \in Nat PROVE x * y \in Nat
          OBVIOUS
        <5> QED BY <1>2, <4>1, <4>2, <5>1
      <4>7. Spent(c)' * T <= R * clock
        BY <4>3, <4>4, <4>5, <4>6
      <4> QED BY <4>7 DEF T, R
    <3> QED BY <1>1, <2>2, <3>5 DEF Account
  <2> QED BY <2>1, <2>2
<1>5. FewHandlers' = FewHandlers
    BY DEF FewHandlers
<1> QED BY <1>3, <1>4, <1>5 DEF RateInv

LEMMA RateStep == Typed /\ RateInv /\ [Next]_vars => RateInv'
<1> SUFFICES ASSUME Typed, RateInv, [Next]_vars PROVE RateInv'
    OBVIOUS
<1>0. /\ clock \in Nat /\ clock <= clock /\ pc \in [Handler -> {"idle", "looking", "creating", "checking"}]
      /\ client \in [Handler -> Client] /\ bucket \in [Handler -> {0} \cup Bucket]
    BY LimiterConstants DEF Typed, TypeOK
<1>1. ASSUME NEW h \in Handler, getLimitForEndpoint(h) PROVE RateInv'
  <2>1. /\ UNCHANGED <<clients, created, tokens, lastRefill, clock, allowed, bucket>>
        /\ pc[h] = "idle" /\ pc'[h] = "looking"
        /\ \A g \in Handler \ {h} : pc'[g] = pc[g] /\ client'[g] = client[g]
    BY <1>0, <1>1 DEF getLimitForEndpoint, Goto, buckets
  <2> QED BY <1>0, <2>1, AccountsWait
<1>2. ASSUME NEW h \in Handler, Finds(h), pc[h] # "checking",
             UNCHANGED <<clients, created, tokens, lastRefill, clock, client, allowed>>
      PROVE  RateInv'
  <2>1. /\ bucket'[h] = clients[client[h]] /\ bucket'[h] # 0
        /\ \A g \in Handler \ {h} : pc'[g] = pc[g] /\ bucket'[g] = bucket[g]
    BY <1>0, <1>2 DEF Finds, Goto
  <2> QED BY <1>0, <1>2, <2>1, AccountsWait
<1>3. ASSUME NEW h \in Handler, LookUpBucket(h) PROVE RateInv'
  <2>1. CASE Finds(h)
    BY <1>2, <1>3, <2>1 DEF LookUpBucket, buckets
  <2>2. CASE Goto(h, "creating") /\ UNCHANGED bucket
    <3>1. /\ UNCHANGED <<clients, created, tokens, lastRefill, clock, client, allowed, bucket>>
          /\ pc[h] = "looking" /\ pc'[h] = "creating" /\ \A g \in Handler \ {h} : pc'[g] = pc[g]
      BY <1>0, <1>3, <2>2 DEF LookUpBucket, Goto, buckets
    <3> QED BY <1>0, <3>1, AccountsWait
  <2> QED BY <1>3, <2>1, <2>2 DEF LookUpBucket
<1>4. ASSUME NEW h \in Handler, CreateBucket(h) PROVE RateInv'
  <2>1. CASE Finds(h) /\ UNCHANGED buckets
    BY <1>2, <1>4, <2>1 DEF CreateBucket, buckets
  <2>2. CASE clients[client[h]] = 0 /\ Creates(h)
    BY <1>4, <2>2, CreationPays
  <2> QED BY <1>4, <2>1, <2>2 DEF CreateBucket
<1>5. ASSUME NEW h \in Handler, checkLimit(h) PROVE RateInv'
  <2>1. /\ UNCHANGED <<clients, created, client, bucket>>
        /\ \A g \in Handler : pc'[g] = "checking" => pc[g] = "checking"
    BY <1>0, <1>5 DEF checkLimit, Goto
  <2>2. Owners'
    BY <2>1 DEF RateInv, Owners
  <2> QED BY <1>5, <2>2, CheckPays DEF RateInv, FewHandlers
<1>6. ASSUME Tick PROVE RateInv'
  <2>1. clock' \in Nat /\ clock <= clock'
    BY <1>0, <1>6 DEF Tick
  <2> QED BY <1>6, <2>1, AccountsWait DEF Tick, buckets, calls
<1>7. ASSUME SetLimit \/ UNCHANGED vars PROVE RateInv'
    BY <1>0, <1>7, AccountsWait DEF SetLimit, vars, buckets, calls
<1> QED BY <1>1, <1>3, <1>4, <1>5, <1>6, <1>7, CleanupPays DEF Next, Allow

\* For any handlers, clients, limits and clocks, a client is let through no more
\* often than the highest rate allows for the time that has passed, also when
\* its first requests race for its bucket, its limit changes and cleanup drops
\* its bucket under its requests (ratelimit.go:117 Allow, :364 cleanup).
THEOREM RateIsBounded == Spec => []RateBound
<1>1. Init => Typed
    BY LimiterConstants DEF Init, Typed, TypeOK, Holds, Bucket
<1>2. Init => RateInv
  <2> SUFFICES ASSUME Init PROVE RateInv
    OBVIOUS
  <2>1. /\ \A c \in Client : clients[c] = 0 /\ allowed[c] = 0
        /\ \A h \in Handler : pc[h] = "idle"
        /\ created = 0 /\ clock = 0
    BY DEF Init
  <2>2. Owners
    BY <2>1 DEF Owners
  <2>3. ASSUME NEW c \in Client PROVE Account(c)
    <3>1. Stale(c) = {}
      BY <2>1 DEF Stale
    <3>2. Spent(c) = 0
      BY <2>1, <3>1, FS_EmptySet DEF Spent
    <3> QED BY <2>1, <3>2, Rates, LimiterConstants DEF Account
  <2> QED BY <2>2, <2>3 DEF RateInv
<1>3. Typed /\ RateInv => RateBound
  <2> SUFFICES ASSUME Typed, RateInv, FewHandlers, NEW c \in Client
               PROVE  allowed[c] * TicksPerSecond <= MaxRate * clock
    BY DEF RateBound
  <2> DEFINE T == TicksPerSecond  R == MaxRate  a == allowed[c]
  <2>1. clock \in Nat /\ a \in Nat /\ Spent(c) \in Nat /\ a <= Spent(c) /\ T \in Nat /\ R \in Nat
    BY FewStale, Rates, LimiterConstants DEF Spent, Typed, TypeOK
  <2>2. CASE clients[c] = 0
    <3>1. Spent(c) * T <= R * clock
      BY <2>2 DEF RateInv, Account
    <3> HIDE DEF T, R, a
    <3>2. a * T <= Spent(c) * T /\ a * T \in Nat /\ Spent(c) * T \in Nat /\ R * clock \in Nat
      BY <2>1, Monotone
    <3>3. a * T <= R * clock
      BY <3>1, <3>2
    <3> QED BY <3>3 DEF T, R, a
  <2>3. CASE clients[c] # 0
    <3>0. PICK k \in Bucket : k = clients[c]
      BY <2>3 DEF Typed, TypeOK
    <3> DEFINE s == Spent(c) + tokens[k]
    <3>1. s \in Nat /\ a <= s /\ lastRefill[k] \in Nat /\ lastRefill[k] <= clock
      <4>1. tokens[k] \in Nat /\ lastRefill[k] \in 0..clock
        BY DEF Typed, TypeOK
      <4> QED BY <2>1, <4>1
    <3>2. s * T <= R * lastRefill[k]
      BY <2>3, <3>0 DEF RateInv, Account
    <3> HIDE DEF T, R, a, s
    <3>3. /\ a * T <= s * T /\ a * T \in Nat /\ s * T \in Nat
          /\ R * lastRefill[k] <= R * clock /\ R * lastRefill[k] \in Nat /\ R * clock \in Nat
      BY <2>1, <3>1, Monotone
    <3>4. a * T <= R * clock
      BY <3>2, <3>3
    <3> QED BY <3>4 DEF T, R, a
  <2> QED BY <2>2, <2>3
<1> QED BY <1>1, <1>2, <1>3, TypedStep, RateStep, PTL DEF Spec
===============================================================================
