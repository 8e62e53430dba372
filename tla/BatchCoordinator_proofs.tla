----------------------- MODULE BatchCoordinator_proofs -----------------------
(***************************************************************************)
(* Theorems about BatchCoordinator, for any messages, topics and sizes,    *)
(* any limits and capacities, any number of workers and of restarts, and   *)
(* whatever the environment does.                                          *)
(***************************************************************************)
EXTENDS BatchCoordinator, FiniteSetTheorems, FunctionTheorems, TLAPS

Started == 1..starts

\* Where a goroutine is tells whether it holds a message or a topic, and the
\* goroutines of a Start that is still to come are not born.
InStep ==
    /\ \A w \in Goroutine : at[w] \in {"placing", "arming", "answering"} <=> job[w] # NoMessage
    /\ \A g \in Start_ : manager[g] = "flushing" <=> flushing[g] # NoTopic
    /\ \A w \in Goroutine : w[1] \notin Started => at[w] = "unborn"
    /\ \A g \in Start_ : g \notin Started => manager[g] = "unborn"

Typed == TypeOK /\ InStep

LEMMA Limits ==
    /\ MaxMessages \in Nat /\ MaxMessages > 0 /\ MaxBytes \in Nat
    /\ QueueSize \in Nat /\ FlushCap \in Nat /\ MaxStarts \in Nat
    /\ TopicOf \in [Message -> Topic] /\ Size \in [Message -> Nat]
    /\ NoMessage \notin Message /\ NoTopic \notin Topic /\ NoBatch \notin Batch
BY BatchAssumption DEF BatchAssumption

-----------------------------------------------------------------------------
(* Lemmas about the operators on batches.                                  *)

LEMMA NewBatchType ==
    ASSUME NEW m \in Message PROVE NewBatch(m) \in Batch /\ NewBatch(m) # NoBatch
<1>1. <<>> \in Seq(Message)
    OBVIOUS
<1>2. NewBatch(m) \in Batch
    BY <1>1 DEF NewBatch, Batch
<1> QED BY <1>2, Limits

LEMMA WithMessageType ==
    ASSUME NEW b \in Batch, NEW m \in Message
    PROVE  /\ WithMessage(b, m) \in Batch /\ WithMessage(b, m) # NoBatch
           /\ WithMessage(b, m).id = b.id
           /\ WithMessage(b, m).msgs = Append(b.msgs, m)
           /\ WithMessage(b, m).bytes = b.bytes + Size[m]
<1>1. Append(b.msgs, m) \in Seq(Message) /\ b.bytes + Size[m] \in Nat
    BY Limits DEF Batch
<1> QED BY <1>1, Limits DEF WithMessage, Batch

\* The batch that PlaceMessage leaves in the map.
Result(w) ==
    LET m == job[w]
        current == batches[TopicOf[m]]
        keep == current # NoBatch /\ CanAccept(current, m)
        target == IF keep THEN current ELSE NewBatch(m)
    IN IF CanAccept(target, m) THEN WithMessage(target, m) ELSE target

LEMMA ResultType ==
    ASSUME Typed, NEW w \in Goroutine, job[w] \in Message
    PROVE  Result(w) \in Batch /\ Result(w) # NoBatch
<1> DEFINE m == job[w]
           current == batches[TopicOf[m]]
           keep == current # NoBatch /\ CanAccept(current, m)
           target == IF keep THEN current ELSE NewBatch(m)
<1>1. target \in Batch
  <2>1. current \in Batch \cup {NoBatch}
    BY Limits DEF Typed, TypeOK
  <2> QED BY <2>1, NewBatchType
<1> HIDE DEF target
<1>2. WithMessage(target, m) \in Batch
    BY <1>1, WithMessageType
<1>3. Result(w) \in {target, WithMessage(target, m)}
    BY DEF Result, target
<1> QED BY <1>1, <1>2, <1>3, Limits

-----------------------------------------------------------------------------
(* Types.                                                                  *)

LEMMA Goroutines == \A w \in Goroutine : w[1] \in Start_
BY DEF Goroutine

LEMMA FlushTopicType ==
    ASSUME NEW t \in Topic, flushRequest \in Seq(Topic), Len(flushRequest) <= FlushCap,
           FlushTopic(t)
    PROVE  flushRequest' \in Seq(Topic) /\ Len(flushRequest') <= FlushCap
<1>1. CASE Len(flushRequest) < FlushCap
  <2>1. flushRequest' = Append(flushRequest, t)
    BY <1>1 DEF FlushTopic
  <2> QED BY <1>1, <2>1, Limits
<1>2. CASE ~(Len(flushRequest) < FlushCap)
    BY <1>2 DEF FlushTopic
<1> QED BY <1>1, <1>2

LEMMA CollectAllType ==
    ASSUME TypeOK, NEW f \in Flusher, CollectAll(f)
    PROVE  /\ batches' \in [Topic -> Batch \cup {NoBatch}]
           /\ armed' \subseteq Topic
           /\ toSend' \in [Flusher -> SUBSET Batch]
<1>1. {b \in Current : HasMessages(b)} \subseteq Batch
    BY DEF TypeOK, Current
<1> QED BY <1>1 DEF TypeOK, CollectAll

LEMMA TypedStep == Typed /\ [Next]_vars => Typed'
<1> SUFFICES ASSUME Typed, [Next]_vars PROVE Typed'
    OBVIOUS
<1> USE DEF Typed, TypeOK, InStep
<1> USE Limits
<1>0. UNCHANGED starts => UNCHANGED Started
    BY DEF Started
<1> USE <1>0
<1>1. ASSUME Start PROVE Typed'
  <2>1. starts' \in 0..MaxStarts /\ starts + 1 \in Start_
    BY <1>1 DEF Start, Start_
  <2>2. at' \in [Goroutine -> {"unborn", "idle", "placing", "arming", "answering", "done"}]
    BY <1>1 DEF Start
  <2>3. \A w \in Goroutine : at'[w] = at[w] \/ (at'[w] = "idle" /\ w[1] = starts + 1)
    BY <1>1 DEF Start
  <2>4. /\ manager' \in [Start_ -> {"unborn", "idle", "flushing", "done"}]
        /\ \A g \in Start_ : manager'[g] = manager[g] \/ (manager'[g] = "idle" /\ g = starts + 1)
    BY <1>1 DEF Start
  <2>5. UNCHANGED <<stopped, cancelled, panicked, stopStep, call, response, messageQueue, job,
                    full, batches, armed, expired, flushRequest, dropped, flushing, sending,
                    toSend, handed>> /\ running' = TRUE
    BY <1>1 DEF Start, callers, timers, requests
  <2>6. TypeOK'
    BY <2>1, <2>2, <2>4, <2>5
  <2>7. Started' = Started \cup {starts + 1} /\ starts + 1 \notin Started
    BY <1>1 DEF Start, Started
  <2>8. InStep'
    <3>1. \A w \in Goroutine : at'[w] \in {"placing", "arming", "answering"} <=> job'[w] # NoMessage
      <4> SUFFICES ASSUME NEW w \in Goroutine
                   PROVE  at'[w] \in {"placing", "arming", "answering"} <=> job[w] # NoMessage
        BY <2>5
      <4>1. at[w] \in {"placing", "arming", "answering"} <=> job[w] # NoMessage
        OBVIOUS
      <4>2. w[1] = starts + 1 => at[w] = "unborn"
        BY <2>7
      <4> QED BY <2>3, <4>1, <4>2
    <3>2. \A g \in Start_ : manager'[g] = "flushing" <=> flushing'[g] # NoTopic
      BY <2>4, <2>5, <2>7
    <3>3. \A w \in Goroutine : w[1] \notin Started' => at'[w] = "unborn"
      BY <2>3, <2>7
    <3>4. \A g \in Start_ : g \notin Started' => manager'[g] = "unborn"
      BY <2>4, <2>7
    <3> QED BY <3>1, <3>2, <3>3, <3>4
  <2> QED BY <2>6, <2>8
<1>2. ASSUME NEW m \in Message, AddMessage(m) \/ GiveUp(m) \/ ReceiveResponse(m) PROVE Typed'
  <2>1. UNCHANGED <<lifecycle, response, messageQueue, workers, batches, timers, requests,
                    managers, sending, toSend, handed>>
    BY <1>2 DEF AddMessage, GiveUp, ReceiveResponse
  <2>2. call' \in [Message -> {"new", "queueing", "waiting", "accepted", "refused", "failed"}]
    BY <1>2 DEF AddMessage, GiveUp, ReceiveResponse, Caller
  <2>3. TypeOK'
    BY <2>1, <2>2 DEF lifecycle, workers, timers, requests, managers
  <2>4. InStep'
    BY <2>1 DEF lifecycle, workers, managers, Started
  <2> QED BY <2>3, <2>4
<1>3. ASSUME NEW m \in Message, Enqueue(m) PROVE Typed'
  <2>1. messageQueue' \in Seq(Message) /\ Len(messageQueue') <= QueueSize
    BY <1>3 DEF Enqueue
  <2> QED BY <1>3, <2>1 DEF Enqueue, Caller, lifecycle, callers, workers, timers, requests,
                           managers
<1>4. ASSUME NEW t \in Topic, CallFlushTopic(t) PROVE Typed'
  <2>1. flushRequest' \in Seq(Topic) /\ Len(flushRequest') <= FlushCap
    BY <1>4, FlushTopicType DEF CallFlushTopic
  <2> QED BY <1>4, <2>1 DEF CallFlushTopic, lifecycle, callers, workers, timers, managers
<1>5. ASSUME NEW t \in Topic, TimerExpires(t) PROVE Typed'
    BY <1>5 DEF TimerExpires, lifecycle, callers, workers, requests, managers
<1>6. ASSUME NEW t \in Topic, TimerCallback(t) PROVE Typed'
  <2>1. flushRequest' \in Seq(Topic) /\ Len(flushRequest') <= FlushCap
    BY <1>6, FlushTopicType DEF TimerCallback
  <2> QED BY <1>6, <2>1 DEF TimerCallback, lifecycle, callers, workers, managers
<1>7. ASSUME NEW w \in Goroutine, TakeMessage(w) PROVE Typed'
  <2>1. /\ Head(messageQueue) \in Message /\ messageQueue' \in Seq(Message)
        /\ Len(messageQueue') <= QueueSize
    BY <1>7 DEF TakeMessage
  <2> QED BY <1>7, <2>1, ZenonT(40) DEF TakeMessage, lifecycle, callers, timers, requests, managers
<1>8. ASSUME NEW w \in Goroutine, WorkerExits(w) PROVE Typed'
    BY <1>8 DEF WorkerExits, lifecycle, callers, timers, requests, managers
<1>9. ASSUME NEW w \in Goroutine, PlaceMessage(w) PROVE Typed'
  <2>1. at[w] = "placing" /\ job[w] \in Message /\ TopicOf[job[w]] \in Topic
    BY <1>9 DEF PlaceMessage
  <2>2. batches' = [batches EXCEPT ![TopicOf[job[w]]] = Result(w)]
    BY <1>9 DEF PlaceMessage, Result
  <2>3. Result(w) \in Batch
    BY <2>1, ResultType
  <2>4. batches' \in [Topic -> Batch \cup {NoBatch}]
    BY <2>1, <2>2, <2>3
  <2>5. sending' \subseteq Batch /\ armed' \subseteq Topic /\ dropped' \subseteq Topic
    BY <1>9, <2>1 DEF PlaceMessage
  <2>6. /\ full' \in [Goroutine -> BOOLEAN]
        /\ response' \in [Message -> {"none", "ok", "error"}]
        /\ \/ at' = [at EXCEPT ![w] = "arming"] /\ job' = job
           \/ at' = [at EXCEPT ![w] = "idle"] /\ job' = [job EXCEPT ![w] = NoMessage]
    BY <1>9, <2>1, ZenonT(40) DEF PlaceMessage, IsFull
  <2>7. UNCHANGED <<lifecycle, call, messageQueue, expired, flushRequest, managers, toSend, handed>>
    BY <1>9 DEF PlaceMessage
  <2>8. TypeOK'
    BY <2>4, <2>5, <2>6, <2>7, ZenonT(40) DEF lifecycle, managers
  <2>9. InStep'
    <3>1. \A v \in Goroutine : at'[v] \in {"placing", "arming", "answering"} <=> job'[v] # NoMessage
      BY <2>1, <2>6
    <3>2. \A v \in Goroutine : v[1] \notin Started => at'[v] = "unborn"
      BY <2>1, <2>6
    <3>3. UNCHANGED <<Started, manager, flushing>>
      BY <2>7 DEF managers, lifecycle, Started
    <3> QED BY <3>1, <3>2, <3>3
  <2> QED BY <2>8, <2>9
<1>10. ASSUME NEW w \in Goroutine, startFlushTimer(w) PROVE Typed'
    BY <1>10 DEF startFlushTimer, lifecycle, callers, timers, requests, managers
<1>11. ASSUME NEW w \in Goroutine, Answer(w) PROVE Typed'
  <2>1. job[w] \in Message /\ TopicOf[job[w]] \in Topic
    BY <1>11 DEF Answer
  <2>2. flushRequest' \in Seq(Topic) /\ Len(flushRequest') <= FlushCap
    BY <1>11, <2>1, FlushTopicType DEF Answer
  <2> QED BY <1>11, <2>1, <2>2 DEF Answer, lifecycle, timers, managers
<1>12. ASSUME NEW g \in Start_, TakeFlushRequest(g) PROVE Typed'
  <2>1. /\ Head(flushRequest) \in Topic /\ flushRequest' \in Seq(Topic)
        /\ Len(flushRequest') <= FlushCap
    BY <1>12 DEF TakeFlushRequest
  <2> QED BY <1>12, <2>1 DEF TakeFlushRequest, lifecycle, callers, workers, timers
<1>13. ASSUME NEW g \in Start_, flushTopicBatch(g) PROVE Typed'
  <2>1. flushing[g] \in Topic
    BY <1>13 DEF flushTopicBatch
  <2>2. sending' \subseteq Batch
    BY <1>13, <2>1 DEF flushTopicBatch, HasMessages
  <2> QED BY <1>13, <2>1, <2>2 DEF flushTopicBatch, lifecycle, callers, workers, requests
<1>14. ASSUME NEW g \in Start_, ManagerExits(g) PROVE Typed'
    BY <1>14 DEF ManagerExits, lifecycle, callers, workers, timers, requests
<1>15. ASSUME sendBatch PROVE Typed'
    BY <1>15 DEF sendBatch, lifecycle, callers, workers, timers, requests, managers
<1>16. ASSUME NEW f \in Flusher, SendCollected(f) PROVE Typed'
    BY <1>16 DEF SendCollected, lifecycle, callers, workers, timers, requests, managers
<1>17. ASSUME StopWins \/ StopCloses \/ StopReturns \/ CancelContext PROVE Typed'
  <2>1. UNCHANGED <<starts, callers, messageQueue, workers, batches, timers, requests,
                    managers, sending, toSend, handed>>
    BY <1>17 DEF StopWins, StopCloses, StopReturns, CancelContext
  <2>2. /\ running' \in BOOLEAN /\ stopped' \in BOOLEAN
        /\ cancelled' \in BOOLEAN /\ panicked' \in BOOLEAN
        /\ stopStep' \in {"idle", "closing", "flushing", "sending"}
    BY <1>17 DEF StopWins, StopCloses, StopReturns, CancelContext
  <2>3. TypeOK'
    BY <2>1, <2>2 DEF callers, workers, timers, requests, managers
  <2>4. InStep'
    BY <2>1 DEF workers, managers, Started
  <2> QED BY <2>3, <2>4
<1>18. ASSUME StopFlushes PROVE Typed'
  <2>1. "Stop" \in Flusher /\ CollectAll("Stop")
    BY <1>18 DEF StopFlushes, Flusher
  <2>2. /\ batches' \in [Topic -> Batch \cup {NoBatch}] /\ armed' \subseteq Topic
        /\ toSend' \in [Flusher -> SUBSET Batch]
    BY <2>1, CollectAllType
  <2> QED BY <1>18, <2>1, <2>2 DEF StopFlushes, CollectAll, callers, workers, requests, managers
<1>19. ASSUME FlushAll PROVE Typed'
  <2>1. "FlushAll" \in Flusher /\ CollectAll("FlushAll")
    BY <1>19 DEF FlushAll, Flusher
  <2>2. /\ batches' \in [Topic -> Batch \cup {NoBatch}] /\ armed' \subseteq Topic
        /\ toSend' \in [Flusher -> SUBSET Batch]
    BY <2>1, CollectAllType
  <2> QED BY <1>19, <2>1, <2>2 DEF FlushAll, CollectAll, lifecycle, callers, workers, requests,
                                   managers
<1>20. ASSUME UNCHANGED vars PROVE Typed'
    BY <1>20 DEF vars, lifecycle, callers, workers, timers, requests, managers
<1> QED BY <1>1, <1>2, <1>3, <1>4, <1>5, <1>6, <1>7, <1>8, <1>9, <1>10, <1>11, <1>12, <1>13,
           <1>14, <1>15, <1>16, <1>17, <1>18, <1>19, <1>20
        DEF Next, CallerStep, WorkerStep, ManagerStep, TimerStep, StopStep

LEMMA TypedAtStart == Init => Typed
<1> SUFFICES ASSUME Init PROVE Typed
    OBVIOUS
<1>1. <<>> \in Seq(Message) /\ <<>> \in Seq(Topic) /\ Len(<<>>) = 0
    OBVIOUS
<1>2. /\ messageQueue \in Seq(Message) /\ Len(messageQueue) <= QueueSize
      /\ flushRequest \in Seq(Topic) /\ Len(flushRequest) <= FlushCap
      /\ starts \in 0..MaxStarts
    BY <1>1, Limits DEF Init
<1>3. TypeOK
    BY <1>2 DEF Init, TypeOK
<1>4. InStep
  <2>1. \A w \in Goroutine : at[w] = "unborn" /\ job[w] = NoMessage
    BY DEF Init
  <2>2. \A g \in Start_ : manager[g] = "unborn" /\ flushing[g] = NoTopic
    BY DEF Init
  <2> QED BY <2>1, <2>2 DEF InStep
<1> QED BY <1>3, <1>4 DEF Typed

LEMMA AlwaysTyped == Spec => []Typed
BY TypedAtStart, TypedStep, PTL DEF Spec

\* Every variable keeps its type, every queue its capacity.
THEOREM BatchTypeCorrect == Spec => []TypeOK
BY AlwaysTyped, PTL DEF Typed

-----------------------------------------------------------------------------
(* Ranges of sequences.                                                    *)

LEMMA RangeOfAppend ==
    ASSUME NEW S, NEW s \in Seq(S), NEW x \in S
    PROVE  Range(Append(s, x)) = Range(s) \cup {x}
<1>1. /\ Append(s, x) \in Seq(S) /\ Len(Append(s, x)) = Len(s) + 1
      /\ \A i \in 1..Len(s) : Append(s, x)[i] = s[i]
      /\ Append(s, x)[Len(s) + 1] = x
    OBVIOUS
<1>2. DOMAIN s = 1..Len(s) /\ DOMAIN Append(s, x) = 1..(Len(s) + 1) /\ Len(s) \in Nat
    BY <1>1
<1>3. ASSUME NEW y PROVE y \in Range(Append(s, x)) <=> y \in Range(s) \/ y = x
  <2>1. y \in Range(Append(s, x)) <=> \E i \in 1..(Len(s) + 1) : Append(s, x)[i] = y
    BY <1>2 DEF Range
  <2>2. y \in Range(s) <=> \E i \in 1..Len(s) : s[i] = y
    BY <1>2 DEF Range
  <2> QED BY <1>1, <1>2, <2>1, <2>2
<1> QED BY <1>3

LEMMA RangeOfTail ==
    ASSUME NEW S, NEW s \in Seq(S), s # <<>>
    PROVE  Range(s) = {Head(s)} \cup Range(Tail(s))
<1>1. /\ Len(s) \in Nat /\ Len(s) > 0
      /\ Tail(s) \in Seq(S) /\ Len(Tail(s)) = Len(s) - 1
      /\ Head(s) = s[1]
      /\ \A i \in 1..Len(Tail(s)) : Tail(s)[i] = s[i + 1]
    OBVIOUS
<1>2. DOMAIN s = 1..Len(s) /\ DOMAIN Tail(s) = 1..(Len(s) - 1)
    BY <1>1
<1>3. ASSUME NEW y PROVE y \in Range(s) <=> y = Head(s) \/ y \in Range(Tail(s))
  <2>1. y \in Range(s) <=> \E i \in 1..Len(s) : s[i] = y
    BY <1>2 DEF Range
  <2>2. y \in Range(Tail(s)) <=> \E i \in 1..(Len(s) - 1) : s[i + 1] = y
    BY <1>1, <1>2 DEF Range
  <2>3. ASSUME NEW i \in 1..Len(s), s[i] = y, i # 1
        PROVE \E k \in 1..(Len(s) - 1) : s[k + 1] = y
    <3>1. i - 1 \in 1..(Len(s) - 1) /\ (i - 1) + 1 = i
      BY <1>1, <2>3
    <3> QED BY <2>3, <3>1
  <2>4. \A k \in 1..(Len(s) - 1) : k + 1 \in 1..Len(s)
    BY <1>1
  <2> QED BY <1>1, <2>1, <2>2, <2>3, <2>4
<1> QED BY <1>3

LEMMA EmptyRange == Range(<<>>) = {}
BY DEF Range

-----------------------------------------------------------------------------
(* A batch with messages has a flush on its way.                           *)

OnItsWay(t) ==
    \/ t \in dropped
    \/ t \in armed
    \/ expired[t] > 0
    \/ t \in Range(flushRequest)
    \/ \E g \in Start_ : flushing[g] = t
    \/ \E w \in Goroutine : at[w] = "arming" /\ TopicOf[job[w]] = t

LEMMA RequestsStay ==
    ASSUME Typed, NEW t \in Topic, FlushTopic(t)
    PROVE  /\ Range(flushRequest) \subseteq Range(flushRequest')
           /\ Len(flushRequest) < FlushCap => t \in Range(flushRequest')
<1>1. flushRequest \in Seq(Topic)
    BY DEF Typed, TypeOK
<1>2. Range(Append(flushRequest, t)) = Range(flushRequest) \cup {t}
    BY <1>1, RangeOfAppend
<1> QED BY <1>2 DEF FlushTopic

\* What a step that leaves the batches alone must keep.
LEMMA StaysOnItsWay ==
    ASSUME Typed, NEW t \in Topic, OnItsWay(t), dropped \subseteq dropped', armed \subseteq armed',
           expired[t] > 0 => expired'[t] > 0,
           Range(flushRequest) \subseteq Range(flushRequest'),
           UNCHANGED flushing,
           \A w \in Goroutine : at[w] = "arming" => at'[w] = "arming" /\ job'[w] = job[w]
    PROVE  OnItsWay(t)'
BY DEF OnItsWay

LEMMA FlushStep == Typed /\ FlushOnItsWay /\ [Next]_vars => FlushOnItsWay'
<1> SUFFICES ASSUME Typed, FlushOnItsWay, [Next]_vars, NEW t \in Topic, HasMessages(batches'[t])
             PROVE  OnItsWay(t)'
    BY DEF FlushOnItsWay, OnItsWay
<1> USE Limits
<1>0. HasMessages(batches[t]) => OnItsWay(t)
    BY DEF FlushOnItsWay, OnItsWay
<1>a. flushRequest \in Seq(Topic) /\ expired \in [Topic -> Nat]
    BY DEF Typed, TypeOK
\* The steps that leave all of it alone.
<1>1. ASSUME UNCHANGED <<batches, timers, requests, flushing>>,
             \A w \in Goroutine : at[w] = "arming" => at'[w] = "arming" /\ job'[w] = job[w]
      PROVE  OnItsWay(t)'
    BY <1>0, <1>a, <1>1, StaysOnItsWay DEF timers, requests
<1>2. ASSUME NEW m \in Message, CallerStep(m) PROVE OnItsWay(t)'
  <2>1. UNCHANGED <<batches, timers, requests, managers, workers>>
    BY <1>2 DEF CallerStep, AddMessage, Enqueue, GiveUp, ReceiveResponse
  <2> QED BY <1>1, <2>1 DEF workers, managers
<1>3. ASSUME Start PROVE OnItsWay(t)'
  <2>0. starts + 1 \notin Started
    BY DEF Typed, TypeOK, Started
  <2>1. \A w \in Goroutine : at[w] = "arming" => w[1] # starts + 1
    BY <2>0 DEF Typed, InStep
  <2>2. \A w \in Goroutine : at[w] = "arming" => at'[w] = "arming" /\ job'[w] = job[w]
    BY <1>3, <2>1 DEF Start
  <2>3. UNCHANGED <<batches, timers, requests, flushing>>
    BY <1>3 DEF Start
  <2> QED BY <1>1, <2>2, <2>3
<1>4. ASSUME NEW u \in Topic, CallFlushTopic(u) PROVE OnItsWay(t)'
  <2>1. Range(flushRequest) \subseteq Range(flushRequest')
    BY <1>4, RequestsStay DEF CallFlushTopic
  <2>2. UNCHANGED <<batches, timers, dropped, managers, workers>>
    BY <1>4 DEF CallFlushTopic
  <2> QED BY <1>0, <1>a, <2>1, <2>2, StaysOnItsWay DEF timers, managers, workers
<1>5. ASSUME NEW u \in Topic, TimerExpires(u) PROVE OnItsWay(t)'
  <2>1. UNCHANGED <<batches, requests, managers, workers>>
    BY <1>5 DEF TimerExpires
  <2>2. CASE t = u
    <3>1. expired'[t] = expired[t] + 1
      BY <1>5, <1>a, <2>2 DEF TimerExpires
    <3> QED BY <1>a, <3>1 DEF OnItsWay
  <2>3. CASE t # u
    <3>1. armed' = armed \ {u} /\ expired'[t] = expired[t]
      BY <1>5, <1>a, <2>3 DEF TimerExpires
    <3> QED BY <1>0, <2>1, <2>3, <3>1 DEF OnItsWay, requests, managers, workers
  <2> QED BY <2>2, <2>3
<1>6. ASSUME NEW u \in Topic, TimerCallback(u) PROVE OnItsWay(t)'
  <2>1. UNCHANGED <<batches, armed, managers, workers>>
    BY <1>6 DEF TimerCallback
  <2>2. Range(flushRequest) \subseteq Range(flushRequest') /\ dropped \subseteq dropped'
    BY <1>6, RequestsStay DEF TimerCallback
  <2>3. CASE t = u
    <3>1. t \in Range(flushRequest') \/ t \in dropped'
      BY <1>6, <2>3, RequestsStay DEF TimerCallback
    <3> QED BY <3>1 DEF OnItsWay
  <2>4. CASE t # u
    <3>1. expired'[t] = expired[t]
      BY <1>6, <1>a, <2>4 DEF TimerCallback
    <3>2. OnItsWay(t) /\ UNCHANGED <<armed, flushing, at, job>>
      BY <1>0, <2>1 DEF managers, workers
    <3> QED BY <2>2, <3>1, <3>2, StaysOnItsWay
  <2> QED BY <2>3, <2>4
<1>7. ASSUME NEW w \in Goroutine, TakeMessage(w) \/ WorkerExits(w) PROVE OnItsWay(t)'
  <2>1. /\ UNCHANGED <<batches, timers, requests, managers>>
        /\ at[w] = "idle"
    BY <1>7 DEF TakeMessage, WorkerExits
  <2>2. \A v \in Goroutine : v # w => at'[v] = at[v] /\ job'[v] = job[v]
    BY <1>7 DEF TakeMessage, WorkerExits, Typed, TypeOK
  <2> QED BY <1>1, <2>1, <2>2 DEF managers
<1>8. ASSUME NEW w \in Goroutine, PlaceMessage(w) PROVE OnItsWay(t)'
  <2> DEFINE u == TopicOf[job[w]]
             keep == batches[u] # NoBatch /\ CanAccept(batches[u], job[w])
             target == IF keep THEN batches[u] ELSE NewBatch(job[w])
             fits == CanAccept(target, job[w])
  <2>1. at[w] = "placing" /\ u \in Topic
    BY <1>8 DEF PlaceMessage, Typed, TypeOK, InStep
  <2>2. CASE t = u /\ fits
    <3>1. at'[w] = "arming" /\ job'[w] = job[w]
      BY <1>8, <2>2 DEF PlaceMessage, Typed, TypeOK
    <3> QED BY <2>2, <3>1 DEF OnItsWay
  <2>3. CASE t = u /\ ~fits
    <3>1. target = NewBatch(job[w])
      BY <2>3
    <3>2. batches'[t] = target
      BY <1>8, <2>1, <2>3 DEF PlaceMessage, Typed, TypeOK
    <3> QED BY <3>1, <3>2 DEF HasMessages, NewBatch
  <2>4. CASE t # u
    <3>1. batches'[t] = batches[t]
      BY <1>8, <2>1, <2>4 DEF PlaceMessage, Typed, TypeOK
    <3>2. /\ UNCHANGED <<expired, flushRequest, managers>>
          /\ t \in dropped => t \in dropped'
          /\ t \in armed => t \in armed'
      BY <1>8, <2>4 DEF PlaceMessage
    <3>3. \A v \in Goroutine : v # w => at'[v] = at[v] /\ job'[v] = job[v]
      BY <1>8 DEF PlaceMessage, Typed, TypeOK
    <3> QED BY <1>0, <2>1, <3>1, <3>2, <3>3 DEF OnItsWay, managers
  <2> QED BY <2>2, <2>3, <2>4
<1>9. ASSUME NEW w \in Goroutine, startFlushTimer(w) PROVE OnItsWay(t)'
  <2>1. /\ UNCHANGED <<batches, job, expired, requests, managers>>
        /\ armed' = armed \cup {TopicOf[job[w]]}
        /\ \A v \in Goroutine : v # w => at'[v] = at[v]
    BY <1>9 DEF startFlushTimer, Typed, TypeOK
  <2> QED BY <1>0, <2>1 DEF OnItsWay, requests, managers
<1>10. ASSUME NEW w \in Goroutine, Answer(w) PROVE OnItsWay(t)'
  <2>1. /\ UNCHANGED <<batches, timers, dropped, managers>>
        /\ at[w] = "answering"
        /\ \A v \in Goroutine : v # w => at'[v] = at[v] /\ job'[v] = job[v]
    BY <1>10 DEF Answer, Typed, TypeOK
  <2>2. TopicOf[job[w]] \in Topic
    BY <2>1 DEF Typed, TypeOK, InStep
  <2>3. Range(flushRequest) \subseteq Range(flushRequest')
    BY <1>10, <2>2, RequestsStay DEF Answer
  <2>4. OnItsWay(t) /\ UNCHANGED <<armed, expired, dropped, flushing>>
    BY <1>0, <2>1 DEF timers, managers
  <2>5. \A v \in Goroutine : at[v] = "arming" => at'[v] = "arming" /\ job'[v] = job[v]
    BY <2>1
  <2> QED BY <2>3, <2>4, <2>5, StaysOnItsWay
<1>11. ASSUME NEW g \in Start_, TakeFlushRequest(g) PROVE OnItsWay(t)'
  <2>1. UNCHANGED <<batches, timers, dropped, workers>>
    BY <1>11 DEF TakeFlushRequest
  <2>2. /\ Range(flushRequest) = {flushing'[g]} \cup Range(flushRequest')
        /\ \A k \in Start_ : k # g => flushing'[k] = flushing[k]
        /\ flushing[g] # t
    <3>1. /\ flushRequest \in Seq(Topic) /\ flushRequest # <<>>
          /\ flushing' = [flushing EXCEPT ![g] = Head(flushRequest)]
          /\ flushRequest' = Tail(flushRequest)
          /\ manager[g] = "idle" /\ flushing \in [Start_ -> Topic \cup {NoTopic}]
      BY <1>11 DEF TakeFlushRequest, Typed, TypeOK
    <3>2. flushing[g] = NoTopic
      BY <3>1 DEF Typed, InStep
    <3>3. Range(flushRequest) = {Head(flushRequest)} \cup Range(Tail(flushRequest))
      BY <3>1, RangeOfTail
    <3> QED BY <1>a, <3>1, <3>2, <3>3
  <2> QED BY <1>0, <2>1, <2>2 DEF OnItsWay, timers, workers
<1>12. ASSUME NEW g \in Start_, flushTopicBatch(g) PROVE OnItsWay(t)'
  <2>1. flushing[g] # t
    BY <1>12 DEF flushTopicBatch, HasMessages, Typed, TypeOK
  <2>2. /\ UNCHANGED <<workers, expired, requests>>
        /\ batches'[t] = batches[t]
        /\ t \in armed => t \in armed'
        /\ \A k \in Start_ : k # g => flushing'[k] = flushing[k]
    BY <1>12, <2>1 DEF flushTopicBatch, Typed, TypeOK
  <2> QED BY <1>0, <2>1, <2>2 DEF OnItsWay, workers, requests
<1>13. ASSUME NEW g \in Start_, ManagerExits(g) PROVE OnItsWay(t)'
    BY <1>1, <1>13 DEF ManagerExits, workers
<1>14. ASSUME sendBatch \/ StopWins \/ StopCloses \/ StopReturns \/ CancelContext
              \/ (\E f \in Flusher : SendCollected(f)) \/ UNCHANGED vars
       PROVE OnItsWay(t)'
  <2>1. UNCHANGED <<batches, timers, requests, managers, workers>>
    BY <1>14 DEF sendBatch, StopWins, StopCloses, StopReturns, CancelContext, SendCollected, vars
  <2> QED BY <1>1, <2>1 DEF workers, managers
<1>15. ASSUME StopFlushes \/ FlushAll PROVE OnItsWay(t)'
  <2>1. batches'[t] = NoBatch
    BY <1>15 DEF StopFlushes, FlushAll, CollectAll
  <2> QED BY <2>1 DEF HasMessages
<1> QED BY <1>2, <1>3, <1>4, <1>5, <1>6, <1>7, <1>8, <1>9, <1>10, <1>11, <1>12, <1>13, <1>14, <1>15
        DEF Next, WorkerStep, ManagerStep, TimerStep, StopStep

\* coordinator.go:361 startFlushTimer: whatever interleaving of workers, timers,
\* flush manager and Stop, messages never lie in a batch that nothing will
\* flush, unless a timer found the request channel full.
THEOREM FlushIsOnItsWay == Spec => []FlushOnItsWay
<1>1. Init => FlushOnItsWay
    BY DEF Init, FlushOnItsWay, HasMessages
<1> QED BY <1>1, FlushStep, AlwaysTyped, PTL DEF Spec

-----------------------------------------------------------------------------
(* The inductive invariant about batches and messages.                     *)

\* The batch of a topic is of that topic.
Stored == \A t \in Topic : batches[t] # NoBatch => TopicOf[batches[t].id] = t

Sound(b) ==
    /\ IsInjective(b.msgs)
    /\ Len(b.msgs) <= MaxMessages
    /\ CountsItsBytes(b) /\ b.bytes <= MaxBytes
    /\ \A m \in Range(b.msgs) : TopicOf[m] = TopicOf[b.id]

\* Two batches share no message, and a batch is in one place.
Apart ==
    /\ \A i, j \in DOMAIN Places : i # j => Places[i] \cap Places[j] = {}
    /\ \A b, c \in AllBatches : b # c => Range(b.msgs) \cap Range(c.msgs) = {}

\* No worker has placed m.
Untouched(m) ==
    /\ response[m] = "none"
    /\ \A b \in AllBatches : b.id # m /\ m \notin Range(b.msgs)

Held(m) == \E w \in Goroutine : job[w] = m

\* A message goes one way: caller, queue, one worker, batch, answer.
OneWay ==
    /\ \A m \in Message : call[m] \in {"new", "queueing"} =>
           Untouched(m) /\ ~Held(m) /\ m \notin Range(messageQueue)
    /\ \A m \in Range(messageQueue) : Untouched(m) /\ ~Held(m)
    /\ IsInjective(messageQueue)
    /\ \A w \in Goroutine, m \in Message : at[w] = "placing" /\ job[w] = m => Untouched(m)
    /\ \A v, w \in Goroutine : job[v] = job[w] /\ job[v] # NoMessage => v = w
    /\ \A w \in Goroutine, m \in Message :
           at[w] \in {"arming", "answering"} /\ job[w] = m => IsBatched(m)

BatchInv ==
    /\ Stored /\ Apart
    /\ \A b \in AllBatches : Sound(b)
    /\ OneWay /\ AnswersAreTrue

-----------------------------------------------------------------------------
(* What the steps do to the batches.                                       *)

LEMMA UnionOfFive ==
    ASSUME NEW a, NEW b, NEW c, NEW d, NEW e
    PROVE  UNION Range(<<a, b, c, d, e>>) = a \cup b \cup c \cup d \cup e
<1> DEFINE s == <<a, b, c, d, e>>
<1>1. DOMAIN s = 1..5 /\ s[1] = a /\ s[2] = b /\ s[3] = c /\ s[4] = d /\ s[5] = e
    OBVIOUS
<1> HIDE DEF s
<1>2. Range(s) = {s[i] : i \in 1..5}
    BY <1>1 DEF Range
<1>3. 1..5 = {1, 2, 3, 4, 5}
    OBVIOUS
<1>4. Range(s) = {a, b, c, d, e}
    BY <1>1, <1>2, <1>3
<1> QED BY <1>4 DEF s

LEMMA AllBatchesAre ==
    /\ AllBatches = Current \cup sending \cup toSend["Stop"] \cup toSend["FlushAll"] \cup handed
    /\ AllBatches' = Current' \cup sending' \cup toSend'["Stop"] \cup toSend'["FlushAll"] \cup handed'
BY UnionOfFive DEF AllBatches, Places

\* Disjoint places, spelled out.
LEMMA PlacesApart ==
    ASSUME NEW a, NEW b, NEW c, NEW d, NEW e
    PROVE  (\A i, j \in DOMAIN <<a, b, c, d, e>> : i # j =>
               <<a, b, c, d, e>>[i] \cap <<a, b, c, d, e>>[j] = {})
           <=> /\ a \cap b = {} /\ a \cap c = {} /\ a \cap d = {} /\ a \cap e = {}
               /\ b \cap c = {} /\ b \cap d = {} /\ b \cap e = {}
               /\ c \cap d = {} /\ c \cap e = {} /\ d \cap e = {}
<1> DEFINE s == <<a, b, c, d, e>>
<1>1. DOMAIN s = 1..5 /\ s[1] = a /\ s[2] = b /\ s[3] = c /\ s[4] = d /\ s[5] = e
    OBVIOUS
<1> HIDE DEF s
<1>2. 1..5 = {1, 2, 3, 4, 5}
    OBVIOUS
<1>3. (\A i, j \in DOMAIN s : i # j => s[i] \cap s[j] = {})
      <=> /\ a \cap b = {} /\ a \cap c = {} /\ a \cap d = {} /\ a \cap e = {}
          /\ b \cap c = {} /\ b \cap d = {} /\ b \cap e = {}
          /\ c \cap d = {} /\ c \cap e = {} /\ d \cap e = {}
  <2>1. (\A i, j \in DOMAIN s : i # j => s[i] \cap s[j] = {})
        <=> \A i, j \in {1, 2, 3, 4, 5} : i # j => s[i] \cap s[j] = {}
    BY <1>1, <1>2
  <2>2. (\A i, j \in {1, 2, 3, 4, 5} : i # j => s[i] \cap s[j] = {})
        => /\ s[1] \cap s[2] = {} /\ s[1] \cap s[3] = {} /\ s[1] \cap s[4] = {} /\ s[1] \cap s[5] = {}
           /\ s[2] \cap s[3] = {} /\ s[2] \cap s[4] = {} /\ s[2] \cap s[5] = {}
           /\ s[3] \cap s[4] = {} /\ s[3] \cap s[5] = {} /\ s[4] \cap s[5] = {}
    OBVIOUS
  <2>3. /\ s[1] \cap s[2] = {} /\ s[1] \cap s[3] = {} /\ s[1] \cap s[4] = {} /\ s[1] \cap s[5] = {}
        /\ s[2] \cap s[3] = {} /\ s[2] \cap s[4] = {} /\ s[2] \cap s[5] = {}
        /\ s[3] \cap s[4] = {} /\ s[3] \cap s[5] = {} /\ s[4] \cap s[5] = {}
        => \A i, j \in {1, 2, 3, 4, 5} : i # j => s[i] \cap s[j] = {}
    OBVIOUS
  <2> QED BY <1>1, <2>1, <2>2, <2>3
<1> QED BY <1>3 DEF s

InOnePlace ==
    /\ Current \cap sending = {} /\ Current \cap toSend["Stop"] = {}
    /\ Current \cap toSend["FlushAll"] = {} /\ Current \cap handed = {}
    /\ sending \cap toSend["Stop"] = {} /\ sending \cap toSend["FlushAll"] = {}
    /\ sending \cap handed = {}
    /\ toSend["Stop"] \cap toSend["FlushAll"] = {} /\ toSend["Stop"] \cap handed = {}
    /\ toSend["FlushAll"] \cap handed = {}

LEMMA PlacesAre ==
    /\ (\A i, j \in DOMAIN Places : i # j => Places[i] \cap Places[j] = {}) <=> InOnePlace
    /\ (\A i, j \in DOMAIN Places : i # j => Places[i] \cap Places[j] = {})' <=> InOnePlace'
BY PlacesApart DEF Places, InOnePlace

\* Every batch is one, and has a message for its name.
LEMMA BatchesAreBatches ==
    /\ Typed => AllBatches \subseteq Batch
    /\ Typed' => AllBatches' \subseteq Batch
<1> USE DEF Typed, TypeOK, Flusher, Current
<1>1. Typed => AllBatches \subseteq Batch
    BY AllBatchesAre
<1>2. Typed' => AllBatches' \subseteq Batch
    BY AllBatchesAre
<1> QED BY <1>1, <1>2

LEMMA PlaceIsSeen ==
    ASSUME Typed, NEW w \in Goroutine, PlaceMessage(w)
    PROVE  at[w] = "placing" /\ at'[w] \in {"arming", "idle"} /\ UNCHANGED running
BY DEF PlaceMessage, lifecycle, Typed, TypeOK

\* The steps that move batches.
LEMMA MovingSteps ==
    ASSUME [Next]_vars
    PROVE  \/ UNCHANGED <<batches, sending, toSend, handed>>
           \/ \E w \in Goroutine : PlaceMessage(w)
           \/ \E g \in Start_ : flushTopicBatch(g)
           \/ sendBatch
           \/ \E f \in Flusher : CollectAll(f) \/ SendCollected(f)
<1>1. ASSUME NEW m \in Message, CallerStep(m) PROVE UNCHANGED <<batches, sending, toSend, handed>>
    BY <1>1 DEF CallerStep, AddMessage, Enqueue, GiveUp, ReceiveResponse
<1>2. ASSUME NEW w \in Goroutine, WorkerStep(w), ~PlaceMessage(w)
      PROVE UNCHANGED <<batches, sending, toSend, handed>>
    BY <1>2 DEF WorkerStep, TakeMessage, startFlushTimer, Answer, WorkerExits
<1>3. ASSUME NEW g \in Start_, ManagerStep(g), ~flushTopicBatch(g)
      PROVE UNCHANGED <<batches, sending, toSend, handed>>
    BY <1>3 DEF ManagerStep, TakeFlushRequest, ManagerExits
<1>4. ASSUME NEW t \in Topic, TimerStep(t) \/ CallFlushTopic(t)
      PROVE UNCHANGED <<batches, sending, toSend, handed>>
    BY <1>4 DEF TimerStep, TimerExpires, TimerCallback, CallFlushTopic
<1>5. ASSUME Start \/ StopWins \/ StopCloses \/ StopReturns \/ CancelContext \/ UNCHANGED vars
      PROVE UNCHANGED <<batches, sending, toSend, handed>>
    BY <1>5 DEF Start, StopWins, StopCloses, StopReturns, CancelContext, vars
<1>6. ASSUME StopFlushes \/ FlushAll PROVE \E f \in Flusher : CollectAll(f)
    BY <1>6 DEF StopFlushes, FlushAll, Flusher
<1> QED BY <1>1, <1>2, <1>3, <1>4, <1>5, <1>6 DEF Next, StopStep

\* All but PlaceMessage only move batches on, and lose none but empty ones.
LEMMA MovesOn ==
    ASSUME Typed, Stored, InOnePlace, [Next]_vars, \A w \in Goroutine : ~PlaceMessage(w)
    PROVE  /\ AllBatches' \subseteq AllBatches
           /\ \A b \in AllBatches \ AllBatches' : b.msgs = <<>>
           /\ handed \subseteq handed'
           /\ InOnePlace' /\ Stored'
<1> USE AllBatchesAre
<1>1. CASE UNCHANGED <<batches, sending, toSend, handed>>
    BY <1>1 DEF Current, InOnePlace, Stored
<1>2. ASSUME NEW g \in Start_, flushTopicBatch(g)
      PROVE  /\ AllBatches' \subseteq AllBatches
             /\ \A b \in AllBatches \ AllBatches' : b.msgs = <<>>
             /\ handed \subseteq handed'
             /\ InOnePlace' /\ Stored'
  <2> DEFINE t == flushing[g]
             b == batches[t]
  <2>1. /\ t \in Topic /\ batches' = [batches EXCEPT ![t] = NoBatch]
        /\ sending' = IF HasMessages(b) THEN sending \cup {b} ELSE sending
        /\ UNCHANGED <<toSend, handed>>
    BY <1>2 DEF flushTopicBatch, Typed, TypeOK, InStep
  <2>2. Current' = Current \ {b}
    <3>1. batches'[t] = NoBatch /\ \A u \in Topic : u # t => batches'[u] = batches[u]
      BY <2>1 DEF Typed, TypeOK
    <3>2. \A u \in Topic : batches[u] = b /\ b # NoBatch => u = t
      BY <2>1 DEF Stored
    <3>3. \A c : c \in Current' <=> \E u \in Topic : c = batches'[u] /\ c # NoBatch
      BY DEF Current
    <3>4. \A c : c \in Current <=> \E u \in Topic : c = batches[u] /\ c # NoBatch
      BY DEF Current
    <3> QED BY <2>1, <3>1, <3>2, <3>3, <3>4
  <2>3. HasMessages(b) => b \in Current
    BY <2>1 DEF HasMessages, Current
  <2>4. ~HasMessages(b) => b = NoBatch \/ b.msgs = <<>>
    BY DEF HasMessages
  <2>5. Stored'
    BY <2>1 DEF Stored, Typed, TypeOK
  <2> HIDE DEF b
  <2>6. NoBatch \notin Current
    BY DEF Current
  <2>7. InOnePlace'
    BY <2>1, <2>2, <2>3 DEF InOnePlace
  <2> QED BY <2>1, <2>2, <2>3, <2>4, <2>5, <2>6, <2>7
<1>3. CASE sendBatch
  <2>1. PICK b \in sending : sending' = sending \ {b} /\ handed' = handed \cup {b}
                             /\ UNCHANGED <<batches, toSend>>
    BY <1>3 DEF sendBatch
  <2>2. Current' = Current
    BY <2>1 DEF Current
  <2>3. InOnePlace' /\ Stored'
    BY <2>1, <2>2 DEF InOnePlace, Stored
  <2> QED BY <2>1, <2>2, <2>3
<1>4. ASSUME NEW f \in Flusher, CollectAll(f)
      PROVE  /\ AllBatches' \subseteq AllBatches
             /\ \A b \in AllBatches \ AllBatches' : b.msgs = <<>>
             /\ handed \subseteq handed'
             /\ InOnePlace' /\ Stored'
  <2>1. /\ toSend[f] = {} /\ UNCHANGED <<sending, handed>>
        /\ toSend' = [toSend EXCEPT ![f] = {b \in Current : HasMessages(b)}]
        /\ batches' = [t \in Topic |-> NoBatch]
    BY <1>4 DEF CollectAll
  <2>2. Current' = {}
    BY <2>1 DEF Current
  <2>3. \A b \in Current : ~HasMessages(b) => b.msgs = <<>>
    BY DEF HasMessages, Current
  <2>4. /\ toSend'[f] = {b \in Current : HasMessages(b)}
        /\ \A h \in Flusher : h # f => toSend'[h] = toSend[h]
        /\ f = "Stop" \/ f = "FlushAll"
    BY <2>1 DEF Typed, TypeOK, Flusher
  <2>5. Stored'
    BY <2>1 DEF Stored
  <2>6. InOnePlace'
    BY <2>1, <2>2, <2>4 DEF InOnePlace, Flusher
  <2> QED BY <2>1, <2>2, <2>3, <2>4, <2>5, <2>6 DEF Flusher
<1>5. ASSUME NEW f \in Flusher, SendCollected(f)
      PROVE  /\ AllBatches' \subseteq AllBatches
             /\ \A b \in AllBatches \ AllBatches' : b.msgs = <<>>
             /\ handed \subseteq handed'
             /\ InOnePlace' /\ Stored'
  <2>1. PICK b \in toSend[f] : /\ toSend' = [toSend EXCEPT ![f] = @ \ {b}]
                               /\ handed' = handed \cup {b}
                               /\ UNCHANGED <<batches, sending>>
    BY <1>5 DEF SendCollected
  <2>2. /\ toSend'[f] = toSend[f] \ {b}
        /\ \A h \in Flusher : h # f => toSend'[h] = toSend[h]
        /\ f = "Stop" \/ f = "FlushAll"
    BY <2>1 DEF Typed, TypeOK, Flusher
  <2>3. Current' = Current
    BY <2>1 DEF Current
  <2>4. InOnePlace' /\ Stored'
    BY <2>1, <2>2, <2>3 DEF InOnePlace, Stored, Flusher
  <2> QED BY <2>1, <2>2, <2>3, <2>4 DEF Flusher
<1> QED BY <1>1, <1>2, <1>3, <1>4, <1>5, MovingSteps

-----------------------------------------------------------------------------
(* The batch that PlaceMessage leaves behind.                              *)

LEMMA NewBatchSound ==
    ASSUME NEW m \in Message PROVE Sound(NewBatch(m))
<1>1. /\ NewBatch(m).msgs = <<>> /\ NewBatch(m).bytes = 0 /\ NewBatch(m).id = m
      /\ Len(<<>>) = 0 /\ DOMAIN <<>> = {}
    BY DEF NewBatch
<1>2. IsInjective(<<>>) /\ Range(<<>>) = {}
    BY <1>1 DEF IsInjective, Range
<1>3. CountsItsBytes(NewBatch(m))
  <2> DEFINE total == [i \in 0..0 |-> 0]
  <2>1. total \in [0..0 -> 0..0] /\ total[0] = 0
    OBVIOUS
  <2>2. \A i \in 1..0 : total[i] = total[i - 1] + Size[NewBatch(m).msgs[i]]
    OBVIOUS
  <2> HIDE DEF total
  <2> QED BY <1>1, <2>1, <2>2 DEF CountsItsBytes
<1> QED BY <1>1, <1>2, <1>3, Limits DEF Sound

LEMMA WithMessageSound ==
    ASSUME NEW b \in Batch, Sound(b), NEW m \in Message, m \notin Range(b.msgs), CanAccept(b, m)
    PROVE  /\ Sound(WithMessage(b, m))
           /\ Range(WithMessage(b, m).msgs) = Range(b.msgs) \cup {m}
<1> DEFINE c == WithMessage(b, m)
           n == Len(b.msgs)
<1>1. /\ b.msgs \in Seq(Message) /\ n \in Nat /\ b.bytes \in Nat /\ Size[m] \in Nat
      /\ DOMAIN b.msgs = 1..n
    BY Limits DEF Batch
<1>2. c.id = b.id /\ c.msgs = Append(b.msgs, m) /\ c.bytes = b.bytes + Size[m]
    BY WithMessageType
<1>3. /\ Len(c.msgs) = n + 1 /\ c.msgs[n + 1] = m /\ DOMAIN c.msgs = 1..(n + 1)
      /\ \A i \in 1..n : c.msgs[i] = b.msgs[i]
    BY <1>1, <1>2
<1>4. Range(c.msgs) = Range(b.msgs) \cup {m}
    BY <1>1, <1>2, RangeOfAppend
<1>5. IsInjective(c.msgs)
  <2>1. \A i \in 1..n : b.msgs[i] # m
    BY <1>1 DEF Range
  <2>2. \A i, j \in 1..n : b.msgs[i] = b.msgs[j] => i = j
    BY <1>1 DEF Sound, IsInjective
  <2>3. \A i \in 1..(n + 1) : i = n + 1 \/ i \in 1..n
    BY <1>1
  <2>4. ASSUME NEW i \in 1..(n + 1), NEW j \in 1..(n + 1), c.msgs[i] = c.msgs[j] PROVE i = j
    BY <1>3, <2>1, <2>2, <2>3, <2>4
  <2> HIDE DEF c, n
  <2> QED BY <1>3, <2>4 DEF IsInjective
<1>6. Len(c.msgs) <= MaxMessages /\ c.bytes <= MaxBytes
    BY <1>1, <1>2, <1>3, Limits DEF CanAccept
<1>7. CountsItsBytes(c)
  <2>1. PICK total \in [0..n -> 0..b.bytes] :
            /\ total[0] = 0 /\ total[n] = b.bytes
            /\ \A i \in 1..n : total[i] = total[i - 1] + Size[b.msgs[i]]
    BY DEF Sound, CountsItsBytes
  <2> DEFINE more == [i \in 0..(n + 1) |-> IF i = n + 1 THEN c.bytes ELSE total[i]]
  <2>2. /\ \A i \in 0..(n + 1) : i = n + 1 \/ i \in 0..n
        /\ 0..b.bytes \subseteq 0..c.bytes /\ c.bytes \in 0..c.bytes
    BY <1>1, <1>2
  <2>3. more \in [0..(n + 1) -> 0..c.bytes]
    BY <2>1, <2>2
  <2>4. more[n + 1] = c.bytes /\ \A i \in 0..n : more[i] = total[i]
    BY <1>1
  <2>5. \A i \in 1..n : i \in 0..n /\ i - 1 \in 0..n
    BY <1>1
  <2>6. \A i \in 1..n : more[i] = more[i - 1] + Size[c.msgs[i]]
    BY <1>3, <2>1, <2>4, <2>5
  <2>7. more[n + 1] = more[(n + 1) - 1] + Size[c.msgs[n + 1]]
    <3>1. (n + 1) - 1 = n /\ n \in 0..n
      BY <1>1
    <3>2. more[n] = b.bytes
      BY <2>1, <2>4, <3>1
    <3> QED BY <1>2, <1>3, <2>4, <3>1, <3>2
  <2>8. \A i \in 1..(n + 1) : i = n + 1 \/ i \in 1..n
    BY <1>1
  <2>9. more[0] = 0 /\ more[n + 1] = c.bytes
    BY <1>1, <2>1, <2>4
  <2> HIDE DEF more, c, n
  <2> QED BY <1>3, <2>3, <2>6, <2>7, <2>8, <2>9 DEF CountsItsBytes
<1>8. \A k \in Range(c.msgs) : TopicOf[k] = TopicOf[c.id]
    BY <1>2, <1>4 DEF Sound, CanAccept
<1> HIDE DEF c
<1>9. Sound(c)
    BY <1>5, <1>6, <1>7, <1>8 DEF Sound
<1> QED BY <1>4, <1>9 DEF c

BatchFor(w) == batches[TopicOf[job[w]]]

Keeps(w) == BatchFor(w) # NoBatch /\ CanAccept(BatchFor(w), job[w])

Fits(w) == CanAccept(IF Keeps(w) THEN BatchFor(w) ELSE NewBatch(job[w]), job[w])

LEMMA ResultIs ==
    ASSUME NEW w \in Goroutine
    PROVE  /\ Keeps(w) => Fits(w) /\ Result(w) = WithMessage(BatchFor(w), job[w])
           /\ ~Keeps(w) /\ Fits(w) => Result(w) = WithMessage(NewBatch(job[w]), job[w])
           /\ ~Fits(w) => ~Keeps(w) /\ Result(w) = NewBatch(job[w])
BY DEF Keeps, Fits, Result, BatchFor

\* The batch is sound, is new, and holds the message if that fits.
LEMMA ResultSound ==
    ASSUME Typed, \A b \in AllBatches : Sound(b), NEW w \in Goroutine, job[w] \in Message,
           Untouched(job[w])
    PROVE  /\ Sound(Result(w)) /\ Result(w) \in Batch \ AllBatches
           /\ Keeps(w) => /\ BatchFor(w) \in AllBatches
                          /\ Result(w).id = BatchFor(w).id
                          /\ Range(Result(w).msgs) = Range(BatchFor(w).msgs) \cup {job[w]}
           /\ ~Keeps(w) => /\ Result(w).id = job[w]
                           /\ Range(Result(w).msgs) = IF Fits(w) THEN {job[w]} ELSE {}
<1> DEFINE m == job[w]
<1>1. Result(w) \in Batch
    BY ResultType
<1>2. NewBatch(m) \in Batch /\ Sound(NewBatch(m)) /\ NewBatch(m).id = m /\ NewBatch(m).msgs = <<>>
    BY NewBatchType, NewBatchSound DEF NewBatch
<1>3. CASE Keeps(w)
  <2>1. TopicOf[m] \in Topic
    BY Limits
  <2>2. BatchFor(w) \in AllBatches
    BY <1>3, <2>1, AllBatchesAre DEF Keeps, BatchFor, Current
  <2>3. BatchFor(w) \in Batch /\ Sound(BatchFor(w)) /\ m \notin Range(BatchFor(w).msgs)
    BY <2>2, BatchesAreBatches DEF Untouched
  <2>4. CanAccept(BatchFor(w), m) /\ Result(w) = WithMessage(BatchFor(w), m)
    BY <1>3, ResultIs DEF Keeps
  <2>5. Sound(Result(w)) /\ Range(Result(w).msgs) = Range(BatchFor(w).msgs) \cup {m}
    BY <2>3, <2>4, WithMessageSound
  <2>6. Result(w) \notin AllBatches
    BY <2>5 DEF Untouched
  <2>7. Result(w).id = BatchFor(w).id
    BY <2>3, <2>4, WithMessageType
  <2> QED BY <1>1, <1>3, <2>2, <2>5, <2>6, <2>7
<1>4. CASE ~Keeps(w) /\ Fits(w)
  <2>1. CanAccept(NewBatch(m), m) /\ Result(w) = WithMessage(NewBatch(m), m)
    BY <1>4, ResultIs DEF Fits
  <2>2. m \notin Range(NewBatch(m).msgs) /\ Range(NewBatch(m).msgs) = {}
    BY <1>2, EmptyRange
  <2>3. Sound(Result(w)) /\ Range(Result(w).msgs) = {m}
    BY <1>2, <2>1, <2>2, WithMessageSound
  <2>4. Result(w).id = m /\ Result(w) \notin AllBatches
    BY <1>2, <2>1, <2>3, WithMessageType DEF Untouched
  <2> QED BY <1>1, <1>4, <2>3, <2>4
<1>5. CASE ~Fits(w)
  <2>1. ~Keeps(w) /\ Result(w) = NewBatch(m)
    BY <1>5, ResultIs
  <2>2. Result(w) \notin AllBatches
    BY <1>2, <2>1 DEF Untouched
  <2> QED BY <1>1, <1>2, <1>5, <2>1, <2>2, EmptyRange
<1> QED BY <1>3, <1>4, <1>5

\* What PlaceMessage does to the batches.
LEMMA Placing ==
    ASSUME Typed, Stored, InOnePlace, \A b \in AllBatches : Sound(b),
           NEW w \in Goroutine, PlaceMessage(w), Untouched(job[w])
    PROVE  /\ job[w] \in Message
           /\ AllBatches' = (AllBatches \ IF Keeps(w) THEN {BatchFor(w)} ELSE {}) \cup {Result(w)}
           /\ handed' = handed
           /\ InOnePlace' /\ Stored'
<1> DEFINE m == job[w]
           t == TopicOf[m]
           old == BatchFor(w)
           r == Result(w)
<1>1. m \in Message /\ t \in Topic
    BY Limits DEF PlaceMessage, Typed, TypeOK, InStep
<1>2. /\ batches' = [batches EXCEPT ![t] = r]
      /\ sending' = IF ~Keeps(w) /\ old # NoBatch THEN sending \cup {old} ELSE sending
      /\ UNCHANGED <<toSend, handed>>
    BY DEF PlaceMessage, Result, Keeps, BatchFor
<1>3. r \in Batch \ AllBatches /\ r # NoBatch
    BY <1>1, ResultSound, Limits
<1>4. Keeps(w) => old # NoBatch
    BY DEF Keeps
<1>5. old # NoBatch => old \in Current
    BY <1>1 DEF Current, BatchFor
<1>6. TopicOf[r.id] = t
  <2>1. CASE Keeps(w)
    <3>1. TopicOf[old.id] = t
      BY <1>1, <2>1 DEF Stored, Keeps, BatchFor
    <3> QED BY <1>1, <2>1, <3>1, ResultSound
  <2>2. CASE ~Keeps(w)
    BY <1>1, <2>2, ResultSound
  <2> QED BY <2>1, <2>2
<1>7. batches'[t] = r /\ \A u \in Topic : u # t => batches'[u] = batches[u]
    BY <1>1, <1>2 DEF Typed, TypeOK
<1>8. Stored'
    BY <1>6, <1>7 DEF Stored
<1>9. Current' = (Current \ {old}) \cup {r}
  <2>1. \A u \in Topic : batches[u] = old /\ old # NoBatch => u = t
    BY <1>1 DEF Stored, BatchFor
  <2>2. \A c : c \in Current' <=> \E u \in Topic : c = batches'[u] /\ c # NoBatch
    BY DEF Current
  <2>3. \A c : c \in Current <=> \E u \in Topic : c = batches[u] /\ c # NoBatch
    BY DEF Current
  <2>4. old = batches[t]
    BY DEF BatchFor
  <2> HIDE DEF old, r, t
  <2> QED BY <1>1, <1>3, <1>7, <2>1, <2>2, <2>3, <2>4
<1> HIDE DEF old, r, t
<1>10. NoBatch \notin Current
    BY DEF Current
<1>11. InOnePlace'
    BY <1>2, <1>3, <1>4, <1>5, <1>9, <1>10, AllBatchesAre DEF InOnePlace
<1>12. Keeps(w) => old \notin sending \cup toSend["Stop"] \cup toSend["FlushAll"] \cup handed
    BY <1>4, <1>5 DEF InOnePlace
<1>13. AllBatches' = (AllBatches \ IF Keeps(w) THEN {old} ELSE {}) \cup {r}
  <2>1. CASE Keeps(w)
    BY <1>2, <1>9, <1>12, <2>1, AllBatchesAre
  <2>2. CASE ~Keeps(w)
    BY <1>2, <1>5, <1>9, <1>10, <2>2, AllBatchesAre
  <2> QED BY <2>1, <2>2
<1> QED BY <1>1, <1>2, <1>8, <1>11, <1>13 DEF old, r

-----------------------------------------------------------------------------
(* Messages: which are in a batch, and which no worker has placed.         *)

LEMMA ApartIs ==
    /\ Apart <=> InOnePlace /\ \A b, c \in AllBatches : b # c => Range(b.msgs) \cap Range(c.msgs) = {}
    /\ Apart' <=> InOnePlace' /\ \A b, c \in AllBatches' : b # c => Range(b.msgs) \cap Range(c.msgs) = {}
BY PlacesAre DEF Apart

\* What a step that places nothing keeps.
LEMMA MovingKeeps ==
    ASSUME Typed, Stored, Apart, \A b \in AllBatches : Sound(b), [Next]_vars,
           \A w \in Goroutine : ~PlaceMessage(w)
    PROVE  /\ Stored' /\ Apart' /\ \A b \in AllBatches' : Sound(b)
           /\ \A m : IsBatched(m)' <=> IsBatched(m)
           /\ \A m : Untouched(m) /\ response'[m] = response[m] => Untouched(m)'
<1>1. /\ AllBatches' \subseteq AllBatches /\ \A b \in AllBatches \ AllBatches' : b.msgs = <<>>
      /\ InOnePlace' /\ Stored'
    BY ApartIs, MovesOn
<1>2. Apart'
    BY <1>1, ApartIs
<1>3. \A m : IsBatched(m)' <=> IsBatched(m)
    BY <1>1, EmptyRange DEF IsBatched
<1>4. \A m : Untouched(m) /\ response'[m] = response[m] => Untouched(m)'
    BY <1>1 DEF Untouched
<1> QED BY <1>1, <1>2, <1>3, <1>4

\* What PlaceMessage keeps and adds.
LEMMA PlacingKeeps ==
    ASSUME Typed, Stored, Apart, \A b \in AllBatches : Sound(b),
           NEW w \in Goroutine, PlaceMessage(w), Untouched(job[w])
    PROVE  /\ Stored' /\ Apart' /\ \A b \in AllBatches' : Sound(b)
           /\ \A m : IsBatched(m)' <=> IsBatched(m) \/ (Fits(w) /\ m = job[w])
           /\ \A m : m # job[w] /\ Untouched(m) /\ response'[m] = response[m] => Untouched(m)'
<1> DEFINE old == BatchFor(w)
           r == Result(w)
<1>1. /\ job[w] \in Message /\ InOnePlace' /\ Stored'
      /\ AllBatches' = (AllBatches \ IF Keeps(w) THEN {old} ELSE {}) \cup {r}
    BY ApartIs, Placing
<1>2. /\ Sound(r) /\ r \notin AllBatches
      /\ Keeps(w) => /\ old \in AllBatches /\ r.id = old.id
                     /\ Range(r.msgs) = Range(old.msgs) \cup {job[w]}
      /\ ~Keeps(w) => /\ r.id = job[w]
                      /\ Range(r.msgs) = IF Fits(w) THEN {job[w]} ELSE {}
      /\ Keeps(w) => Fits(w)
    BY <1>1, ResultSound, ResultIs
<1>3. \A b \in AllBatches : b.id # job[w] /\ job[w] \notin Range(b.msgs)
    BY DEF Untouched
<1> HIDE DEF old, r
<1>4. \A b, c \in AllBatches : b # c => Range(b.msgs) \cap Range(c.msgs) = {}
    BY ApartIs
<1>5. \A b, c \in AllBatches' : b # c => Range(b.msgs) \cap Range(c.msgs) = {}
  <2>1. ASSUME NEW b \in AllBatches', b # r PROVE Range(b.msgs) \cap Range(r.msgs) = {}
    <3>1. b \in AllBatches /\ (Keeps(w) => b # old)
      BY <1>1, <2>1
    <3> QED BY <1>2, <1>3, <1>4, <3>1
  <2>2. ASSUME NEW b \in AllBatches', NEW c \in AllBatches', b # c, b # r, c # r
        PROVE  Range(b.msgs) \cap Range(c.msgs) = {}
    BY <1>1, <1>4, <2>2
  <2> QED BY <2>1, <2>2
<1>6. Apart'
    BY <1>1, <1>5, ApartIs
<1>7. ASSUME NEW m PROVE IsBatched(m)' <=> IsBatched(m) \/ (Fits(w) /\ m = job[w])
  <2>1. IsBatched(m)' <=> \E b \in AllBatches' : m \in Range(b.msgs)
    BY DEF IsBatched
  <2>2. CASE Keeps(w)
    BY <1>1, <1>2, <2>1, <2>2 DEF IsBatched
  <2>3. CASE ~Keeps(w)
    BY <1>1, <1>2, <2>1, <2>3 DEF IsBatched
  <2> QED BY <2>2, <2>3
<1>8. ASSUME NEW m, m # job[w], Untouched(m), response'[m] = response[m] PROVE Untouched(m)'
  <2>1. m # r.id /\ m \notin Range(r.msgs)
    BY <1>2, <1>8 DEF Untouched
  <2> QED BY <1>1, <1>8, <2>1 DEF Untouched
<1> QED BY <1>1, <1>2, <1>6, <1>7, <1>8

-----------------------------------------------------------------------------
(* The invariant is inductive.                                             *)

LEMMA QueueTail ==
    ASSUME NEW q \in Seq(Message), q # <<>>, IsInjective(q)
    PROVE  IsInjective(Tail(q)) /\ Head(q) \notin Range(Tail(q))
<1>1. /\ Len(q) \in Nat /\ Len(q) > 0 /\ DOMAIN q = 1..Len(q)
      /\ Tail(q) \in Seq(Message) /\ DOMAIN Tail(q) = 1..(Len(q) - 1)
      /\ Head(q) = q[1] /\ \A i \in 1..(Len(q) - 1) : Tail(q)[i] = q[i + 1]
    OBVIOUS
<1>2. \A i \in 1..(Len(q) - 1) : i + 1 \in 1..Len(q) /\ i + 1 # 1 /\ 1 \in 1..Len(q)
    BY <1>1
<1>3. \A i, j \in 1..Len(q) : q[i] = q[j] => i = j
    BY <1>1 DEF IsInjective
<1>4. \A i, j \in 1..(Len(q) - 1) : Tail(q)[i] = Tail(q)[j] => i = j
    BY <1>1, <1>2, <1>3
<1>5. \A i \in 1..(Len(q) - 1) : Tail(q)[i] # Head(q)
    BY <1>1, <1>2, <1>3
<1> QED BY <1>1, <1>4, <1>5 DEF IsInjective, Range

LEMMA QueueAppend ==
    ASSUME NEW q \in Seq(Message), NEW m \in Message, IsInjective(q), m \notin Range(q)
    PROVE  IsInjective(Append(q, m))
<1>1. /\ Len(q) \in Nat /\ DOMAIN q = 1..Len(q) /\ DOMAIN Append(q, m) = 1..(Len(q) + 1)
      /\ Append(q, m)[Len(q) + 1] = m /\ \A i \in 1..Len(q) : Append(q, m)[i] = q[i]
    OBVIOUS
<1>2. \A i \in 1..(Len(q) + 1) : i = Len(q) + 1 \/ i \in 1..Len(q)
    BY <1>1
<1>3. \A i, j \in 1..Len(q) : q[i] = q[j] => i = j
    BY <1>1 DEF IsInjective
<1>4. \A i \in 1..Len(q) : q[i] # m
    BY <1>1 DEF Range
<1>5. \A i, j \in 1..(Len(q) + 1) : Append(q, m)[i] = Append(q, m)[j] => i = j
    BY <1>1, <1>2, <1>3, <1>4
<1> QED BY <1>1, <1>5 DEF IsInjective

LEMMA BatchStep == Typed /\ Typed' /\ BatchInv /\ [Next]_vars => BatchInv'
<1> SUFFICES ASSUME Typed, Typed', BatchInv, [Next]_vars PROVE BatchInv'
    OBVIOUS
<1> USE DEF BatchInv
<1>a. /\ job \in [Goroutine -> Message \cup {NoMessage}]
      /\ response \in [Message -> {"none", "ok", "error"}]
      /\ messageQueue \in Seq(Message)
      /\ NoMessage \notin Message
    BY Limits DEF Typed, TypeOK
<1>b. Range(messageQueue) \subseteq Message
    BY <1>a DEF Range
<1>c. \A w \in Goroutine : at[w] \in {"placing", "arming", "answering"} <=> job[w] # NoMessage
    BY DEF Typed, InStep
<1>1. ASSUME \A w \in Goroutine : ~PlaceMessage(w)
      PROVE  /\ Stored' /\ Apart' /\ \A b \in AllBatches' : Sound(b)
             /\ \A m : IsBatched(m)' <=> IsBatched(m)
             /\ \A m : Untouched(m) /\ response'[m] = response[m] => Untouched(m)'
    BY <1>1, MovingKeeps
\* Steps that place nothing, answer nobody and do not touch queue and workers.
<1>2. ASSUME \A w \in Goroutine : ~PlaceMessage(w),
             UNCHANGED <<response, messageQueue, job>>,
             \A m \in Message : call'[m] \in {"new", "queueing"} => call[m] \in {"new", "queueing"},
             \A w \in Goroutine : at'[w] = at[w] \/ at'[w] \notin {"placing", "arming", "answering"}
                                  \/ (at[w] = "arming" /\ at'[w] = "answering")
      PROVE  BatchInv'
  <2>1. /\ Stored' /\ Apart' /\ \A b \in AllBatches' : Sound(b)
        /\ \A m : IsBatched(m)' <=> IsBatched(m)
        /\ \A m : Untouched(m) => Untouched(m)'
    BY <1>1, <1>2
  <2>2. AnswersAreTrue'
    BY <1>2, <2>1 DEF AnswersAreTrue, IsBatched
  <2>3. \A m : Held(m)' <=> Held(m)
    BY <1>2 DEF Held
  <2>4. OneWay'
    BY <1>2, <2>1, <2>3 DEF OneWay
  <2> QED BY <2>1, <2>2, <2>4
<1>3. ASSUME NEW m \in Message, CallerStep(m), ~Enqueue(m) PROVE BatchInv'
  <2>1. UNCHANGED <<response, messageQueue, workers>>
    BY <1>3 DEF CallerStep, AddMessage, GiveUp, ReceiveResponse
  <2>2. \A k \in Message : call'[k] \in {"new", "queueing"} => call[k] \in {"new", "queueing"}
    BY <1>3 DEF CallerStep, AddMessage, GiveUp, ReceiveResponse, Caller, Typed, TypeOK
  <2>3. \A w \in Goroutine : ~PlaceMessage(w)
    BY <2>1, PlaceIsSeen DEF workers
  <2> QED BY <1>2, <2>1, <2>2, <2>3 DEF workers
<1>4. ASSUME NEW m \in Message, Enqueue(m) PROVE BatchInv'
  <2>1. /\ call[m] = "queueing" /\ call' = [call EXCEPT ![m] = "waiting"]
        /\ messageQueue' = Append(messageQueue, m)
        /\ UNCHANGED <<response, at, job>>
    BY <1>4 DEF Enqueue, Caller, workers
  <2>2. \A w \in Goroutine : ~PlaceMessage(w)
    BY <2>1, PlaceIsSeen DEF Typed, TypeOK
  <2>3. /\ Stored' /\ Apart' /\ \A b \in AllBatches' : Sound(b)
        /\ \A k : IsBatched(k)' <=> IsBatched(k)
        /\ \A k : Untouched(k) => Untouched(k)'
    BY <1>1, <2>1, <2>2
  <2>4. AnswersAreTrue'
    BY <2>1, <2>3 DEF AnswersAreTrue, IsBatched
  <2>5. Untouched(m) /\ ~Held(m) /\ m \notin Range(messageQueue)
    BY <2>1 DEF OneWay
  <2>6. Range(messageQueue') = Range(messageQueue) \cup {m} /\ IsInjective(messageQueue')
    BY <1>a, <2>1, <2>5, RangeOfAppend, QueueAppend DEF OneWay
  <2>7. \A k : Held(k)' <=> Held(k)
    BY <2>1 DEF Held
  <2>8. \A k \in Message : call'[k] \in {"new", "queueing"} =>
            k # m /\ call[k] \in {"new", "queueing"}
    BY <2>1 DEF Typed, TypeOK
  <2>9. OneWay'
    BY <2>1, <2>3, <2>5, <2>6, <2>7, <2>8 DEF OneWay
  <2> QED BY <2>3, <2>4, <2>9
<1>5. ASSUME NEW w \in Goroutine, TakeMessage(w) PROVE BatchInv'
  <2> DEFINE m == Head(messageQueue)
  <2>1. /\ at[w] = "idle" /\ messageQueue # <<>>
        /\ at' = [at EXCEPT ![w] = "placing"] /\ job' = [job EXCEPT ![w] = m]
        /\ messageQueue' = Tail(messageQueue)
        /\ UNCHANGED <<call, response>>
    BY <1>5 DEF TakeMessage, callers
  <2>2. \A v \in Goroutine : ~PlaceMessage(v)
    <3>1. at'[w] = "placing" /\ \A v \in Goroutine \ {w} : at'[v] = at[v]
      BY <2>1 DEF Typed, TypeOK
    <3> SUFFICES ASSUME NEW v \in Goroutine, PlaceMessage(v) PROVE FALSE
      OBVIOUS
    <3>2. at[v] = "placing" /\ at'[v] \in {"arming", "idle"}
      BY PlaceIsSeen
    <3> QED BY <3>1, <3>2
  <2>3. /\ Stored' /\ Apart' /\ \A b \in AllBatches' : Sound(b)
        /\ \A k : IsBatched(k)' <=> IsBatched(k)
        /\ \A k : Untouched(k) => Untouched(k)'
    BY <1>1, <2>1, <2>2
  <2>4. AnswersAreTrue'
    BY <2>1, <2>3 DEF AnswersAreTrue, IsBatched
  <2>5. /\ Range(messageQueue) = {m} \cup Range(messageQueue')
        /\ IsInjective(messageQueue') /\ m \notin Range(messageQueue')
    BY <1>a, <2>1, RangeOfTail, QueueTail DEF OneWay
  <2>6. m \in Message /\ Untouched(m) /\ ~Held(m)
    BY <1>b, <2>5 DEF OneWay
  <2>7. job'[w] = m /\ at'[w] = "placing"
        /\ \A v \in Goroutine : v # w => job'[v] = job[v] /\ at'[v] = at[v]
    BY <2>1 DEF Typed, TypeOK
  <2> HIDE DEF m
  <2>8. \A k : Held(k)' => Held(k) \/ k = m
    BY <2>7 DEF Held
  <2>9. \A k \in Message : call[k] \in {"new", "queueing"} => k # m
    BY <2>5 DEF OneWay
  <2>10. OneWay'
    <3>1. \A k \in Message : call'[k] \in {"new", "queueing"} =>
              Untouched(k)' /\ ~Held(k)' /\ k \notin Range(messageQueue')
      BY <2>1, <2>3, <2>5, <2>8, <2>9 DEF OneWay
    <3>2. \A k \in Range(messageQueue') : Untouched(k)' /\ ~Held(k)'
      BY <2>3, <2>5, <2>8 DEF OneWay
    <3>3. \A v \in Goroutine, k \in Message : at'[v] = "placing" /\ job'[v] = k => Untouched(k)'
      BY <2>3, <2>6, <2>7 DEF OneWay
    <3>4. \A u, v \in Goroutine : job'[u] = job'[v] /\ job'[u] # NoMessage => u = v
      BY <2>6, <2>7 DEF OneWay, Held
    <3>5. \A v \in Goroutine, k \in Message :
              at'[v] \in {"arming", "answering"} /\ job'[v] = k => IsBatched(k)'
      BY <2>3, <2>7 DEF OneWay
    <3> QED BY <2>5, <3>1, <3>2, <3>3, <3>4, <3>5 DEF OneWay
  <2> QED BY <2>3, <2>4, <2>10
<1>6. ASSUME NEW w \in Goroutine, PlaceMessage(w) PROVE BatchInv'
  <2> DEFINE m == job[w]
  <2>1. at[w] = "placing" /\ m \in Message /\ Untouched(m) /\ Held(m)
    BY <1>6, <1>a, <1>c DEF PlaceMessage, OneWay, Held
  <2>2. /\ Stored' /\ Apart' /\ \A b \in AllBatches' : Sound(b)
        /\ \A k : IsBatched(k)' <=> IsBatched(k) \/ (Fits(w) /\ k = m)
        /\ \A k : k # m /\ Untouched(k) /\ response'[k] = response[k] => Untouched(k)'
    BY <1>6, <2>1, PlacingKeeps
  <2>3. /\ UNCHANGED <<call, messageQueue>>
        /\ Fits(w) => at' = [at EXCEPT ![w] = "arming"] /\ UNCHANGED <<response, job>>
        /\ ~Fits(w) => /\ at' = [at EXCEPT ![w] = "idle"]
                       /\ job' = [job EXCEPT ![w] = NoMessage]
                       /\ response' = [response EXCEPT ![m] = "error"]
    BY <1>6 DEF PlaceMessage, Fits, Keeps, BatchFor
  <2>4. /\ \A k \in Message : k # m => response'[k] = response[k]
        /\ \A v \in Goroutine : v # w => job'[v] = job[v] /\ at'[v] = at[v]
        /\ Fits(w) => at'[w] = "arming" /\ job'[w] = m /\ response'[m] = response[m]
        /\ ~Fits(w) => at'[w] = "idle" /\ job'[w] = NoMessage /\ response'[m] = "error"
    BY <1>a, <2>1, <2>3 DEF Typed, TypeOK
  <2>5. response[m] = "none" /\ ~IsBatched(m)
    BY <2>1 DEF Untouched, IsBatched
  <2>6. AnswersAreTrue'
    <3>1. \A k \in Message : /\ response'[k] = "ok" => IsBatched(k)'
                             /\ response'[k] = "error" => ~IsBatched(k)'
      BY <2>2, <2>4, <2>5 DEF AnswersAreTrue, IsBatched
    <3> QED BY <3>1 DEF AnswersAreTrue, IsBatched
  <2>7. \A v \in Goroutine : v # w => job[v] # m
    BY <1>a, <2>1 DEF OneWay
  <2>8. \A k : Held(k)' => Held(k) \/ k = NoMessage
    BY <2>4 DEF Held
  <2> HIDE DEF m
  <2>9. OneWay'
    <3>1. \A k \in Message : call'[k] \in {"new", "queueing"} =>
              Untouched(k)' /\ ~Held(k)' /\ k \notin Range(messageQueue')
      BY <1>a, <2>1, <2>2, <2>3, <2>4, <2>8 DEF OneWay
    <3>2. \A k \in Range(messageQueue') : Untouched(k)' /\ ~Held(k)'
      BY <1>a, <1>b, <2>1, <2>2, <2>3, <2>4, <2>8 DEF OneWay
    <3>3. \A v \in Goroutine, k \in Message : at'[v] = "placing" /\ job'[v] = k => Untouched(k)'
      <4>1. ASSUME NEW v \in Goroutine, NEW k \in Message, at'[v] = "placing", job'[v] = k
            PROVE  Untouched(k)'
        <5>1. v # w /\ at[v] = "placing" /\ job[v] = k /\ k # m
          BY <2>4, <2>7, <4>1
        <5>2. Untouched(k)
          BY <5>1 DEF OneWay
        <5> QED BY <2>2, <2>4, <5>1, <5>2
      <4> QED BY <4>1
    <3>4. \A u, v \in Goroutine : job'[u] = job'[v] /\ job'[u] # NoMessage => u = v
      BY <2>1, <2>4, <2>7 DEF OneWay
    <3>5. \A v \in Goroutine, k \in Message :
              at'[v] \in {"arming", "answering"} /\ job'[v] = k => IsBatched(k)'
      BY <2>2, <2>4 DEF OneWay
    <3> QED BY <2>3, <3>1, <3>2, <3>3, <3>4, <3>5 DEF OneWay
  <2> QED BY <2>2, <2>6, <2>9
<1>7. ASSUME NEW w \in Goroutine, Answer(w) PROVE BatchInv'
  <2> DEFINE m == job[w]
  <2>1. /\ at[w] = "answering"
        /\ at' = [at EXCEPT ![w] = "idle"] /\ job' = [job EXCEPT ![w] = NoMessage]
        /\ response' = [response EXCEPT ![m] = "ok"]
        /\ UNCHANGED <<call, messageQueue>>
    BY <1>7 DEF Answer
  <2>2. ASSUME NEW v \in Goroutine, PlaceMessage(v) PROVE FALSE
    <3>1. at[v] = "placing" /\ at'[v] # "placing" /\ v # w
      BY <2>1, <2>2, PlaceIsSeen
    <3> QED BY <2>1, <3>1 DEF Typed, TypeOK
  <2>3. /\ Stored' /\ Apart' /\ \A b \in AllBatches' : Sound(b)
        /\ \A k : IsBatched(k)' <=> IsBatched(k)
        /\ \A k : Untouched(k) /\ response'[k] = response[k] => Untouched(k)'
    BY <1>1, <2>2
  <2>4. m \in Message /\ IsBatched(m) /\ ~Untouched(m) /\ Held(m)
    BY <1>a, <1>c, <2>1 DEF OneWay, IsBatched, Untouched, Held
  <2>5. /\ response'[m] = "ok" /\ \A k \in Message : k # m => response'[k] = response[k]
        /\ at'[w] = "idle" /\ job'[w] = NoMessage
        /\ \A v \in Goroutine : v # w => job'[v] = job[v] /\ at'[v] = at[v]
    BY <1>a, <2>1, <2>4 DEF Typed, TypeOK
  <2>6. AnswersAreTrue'
    <3>1. \A k \in Message : /\ response'[k] = "ok" => IsBatched(k)'
                             /\ response'[k] = "error" => ~IsBatched(k)'
      BY <2>3, <2>4, <2>5 DEF AnswersAreTrue, IsBatched
    <3> QED BY <3>1 DEF AnswersAreTrue, IsBatched
  <2>7. \A k \in Message : Untouched(k) => Untouched(k)'
    BY <2>3, <2>4, <2>5
  <2>8. \A k \in Message : Held(k)' => Held(k)
    BY <1>a, <2>5 DEF Held
  <2> HIDE DEF m
  <2>9. OneWay'
    <3>1. \A v \in Goroutine, k \in Message : at'[v] = "placing" /\ job'[v] = k => Untouched(k)'
      BY <1>a, <1>c, <2>5, <2>7 DEF OneWay
    <3>2. \A u, v \in Goroutine : job'[u] = job'[v] /\ job'[u] # NoMessage => u = v
      BY <2>5 DEF OneWay
    <3>3. \A v \in Goroutine, k \in Message :
              at'[v] \in {"arming", "answering"} /\ job'[v] = k => IsBatched(k)'
      BY <2>3, <2>5 DEF OneWay
    <3>4. \A k \in Range(messageQueue') : Untouched(k)' /\ ~Held(k)'
      BY <1>b, <2>1, <2>7, <2>8 DEF OneWay
    <3>5. \A k \in Message : call'[k] \in {"new", "queueing"} =>
              Untouched(k)' /\ ~Held(k)' /\ k \notin Range(messageQueue')
      BY <2>1, <2>7, <2>8 DEF OneWay
    <3> QED BY <2>1, <3>1, <3>2, <3>3, <3>4, <3>5 DEF OneWay
  <2> QED BY <2>3, <2>6, <2>9
<1>8. ASSUME NEW w \in Goroutine, startFlushTimer(w) \/ WorkerExits(w) PROVE BatchInv'
  <2>1. UNCHANGED <<response, messageQueue, job, call>>
    BY <1>8 DEF startFlushTimer, WorkerExits, callers
  <2>2. \A v \in Goroutine : at'[v] = at[v] \/ at'[v] \notin {"placing", "arming", "answering"}
                             \/ (at[v] = "arming" /\ at'[v] = "answering")
    BY <1>8 DEF startFlushTimer, WorkerExits, Typed, TypeOK
  <2>3. \A v \in Goroutine : ~PlaceMessage(v)
    <3>1. at[w] # "placing" /\ at'[w] # at[w] /\ \A v \in Goroutine \ {w} : at'[v] = at[v]
      BY <1>8 DEF startFlushTimer, WorkerExits, Typed, TypeOK
    <3> SUFFICES ASSUME NEW v \in Goroutine, PlaceMessage(v) PROVE FALSE
      OBVIOUS
    <3>2. at[v] = "placing" /\ at'[v] \in {"arming", "idle"}
      BY PlaceIsSeen
    <3> QED BY <3>1, <3>2
  <2> QED BY <1>2, <2>1, <2>2, <2>3
<1>9. ASSUME Start PROVE BatchInv'
  <2>1. UNCHANGED <<response, messageQueue, job, call>>
    BY <1>9 DEF Start, callers
  <2>2. \A v \in Goroutine : at'[v] = at[v] \/ at'[v] = "idle"
    BY <1>9 DEF Start
  <2>3. \A v \in Goroutine : ~PlaceMessage(v)
    BY <1>9, PlaceIsSeen DEF Start
  <2> QED BY <1>2, <2>1, <2>2, <2>3
<1>10. ASSUME UNCHANGED <<callers, messageQueue, workers>> PROVE BatchInv'
  <2>1. \A v \in Goroutine : ~PlaceMessage(v)
    BY <1>10, PlaceIsSeen DEF workers
  <2> QED BY <1>2, <1>10, <2>1 DEF callers, workers
<1>11. ASSUME NEW g \in Start_, ManagerStep(g) PROVE BatchInv'
    BY <1>10, <1>11 DEF ManagerStep, TakeFlushRequest, flushTopicBatch, ManagerExits
<1>12. ASSUME NEW t \in Topic, TimerStep(t) \/ CallFlushTopic(t) PROVE BatchInv'
    BY <1>10, <1>12 DEF TimerStep, TimerExpires, TimerCallback, CallFlushTopic
<1>13. ASSUME StopWins \/ StopStep \/ FlushAll \/ CancelContext \/ sendBatch
              \/ (\E f \in Flusher : SendCollected(f)) \/ UNCHANGED vars
       PROVE BatchInv'
    BY <1>10, <1>13 DEF StopWins, StopStep, StopCloses, StopFlushes, StopReturns, FlushAll,
       CollectAll, CancelContext, sendBatch, SendCollected, vars
<1> QED BY <1>3, <1>4, <1>5, <1>6, <1>7, <1>8, <1>9, <1>11, <1>12, <1>13
        DEF Next, WorkerStep

LEMMA BatchAtStart == Init => BatchInv
<1> SUFFICES ASSUME Init PROVE BatchInv
    OBVIOUS
<1>1. Current = {} /\ sending = {} /\ handed = {} /\ toSend["Stop"] = {} /\ toSend["FlushAll"] = {}
    BY DEF Init, Current, Flusher
<1>2. AllBatches = {}
    BY <1>1, AllBatchesAre
<1>3. InOnePlace
    BY <1>1 DEF InOnePlace
<1>4. Apart /\ Stored
    BY <1>2, <1>3, ApartIs DEF Init, Stored
<1>5. AnswersAreTrue
    BY DEF Init, AnswersAreTrue
<1>6. OneWay
  <2>1. messageQueue = <<>> /\ Range(<<>>) = {} /\ IsInjective(<<>>)
    BY EmptyRange DEF Init, IsInjective
  <2>2. \A m \in Message : response[m] = "none"
    BY DEF Init
  <2>3. \A w \in Goroutine : at[w] = "unborn" /\ job[w] = NoMessage
    BY DEF Init
  <2> QED BY <1>2, <2>1, <2>2, <2>3, Limits DEF OneWay, Untouched, Held
<1> QED BY <1>2, <1>4, <1>5, <1>6 DEF BatchInv

LEMMA AlwaysBatchInv == Spec => []BatchInv
BY BatchAtStart, BatchStep, AlwaysTyped, PTL DEF Spec

\* coordinator.go:220, :299 and :320 processMessageRequest, flushTopicBatch and
\* flushAllBatches: however the workers, the flush manager, Stop and FlushAll
\* interleave, no message is handed to the batch handler twice.
THEOREM HandedOnce == Spec => []HandedAtMostOnce
<1>1. BatchInv => HandedAtMostOnce
  <2> SUFFICES ASSUME BatchInv PROVE HandedAtMostOnce
    OBVIOUS
  <2>1. \A b \in AllBatches : Range(b.msgs) \cap Elsewhere(b) = {}
    BY DEF BatchInv, Apart, Elsewhere
  <2> QED BY <2>1 DEF HandedAtMostOnce, BatchInv, Apart, Sound
<1> QED BY <1>1, AlwaysBatchInv, PTL

\* coordinator.go:143 AddMessage: the answer a caller reads from its Response
\* channel is true at every later time, also after flushes and a Stop.
THEOREM AnswersStayTrue == Spec => []AnswersAreTrue
BY AlwaysBatchInv, PTL DEF BatchInv

\* models/batch.go:66 CanAccept: no batch exceeds its limits, mixes topics
\* or miscounts its bytes, whatever the sizes and the interleaving.
THEOREM BatchesAreWithinLimits == Spec => []WithinLimits
<1>1. BatchInv => WithinLimits
    BY DEF BatchInv, Sound, WithinLimits
<1> QED BY <1>1, AlwaysBatchInv, PTL

-----------------------------------------------------------------------------
(* The coordinator implements BatchContract.                               *)

LEMMA BatchSize ==
    ASSUME NEW b \in Batch, Sound(b)
    PROVE  /\ Cardinality(Range(b.msgs)) <= MaxMessages
           /\ Range(b.msgs) \subseteq Message
<1> DEFINE n == Len(b.msgs)
<1>1. n \in Nat /\ DOMAIN b.msgs = 1..n /\ b.msgs \in [1..n -> Message] /\ n <= MaxMessages
    BY DEF Batch, Sound
<1>2. b.msgs \in Surjection(1..n, Range(b.msgs))
    BY <1>1 DEF Surjection, Range
<1>3. IsFiniteSet(1..n) /\ Cardinality(1..n) = n
    BY <1>1, FS_Interval
<1> HIDE DEF n
<1>4. Cardinality(Range(b.msgs)) <= n /\ IsFiniteSet(Range(b.msgs))
    BY <1>2, <1>3, FS_Surjection
<1>5. Cardinality(Range(b.msgs)) \in Nat
    BY <1>4, FS_CardinalityType
<1>6. Range(b.msgs) \subseteq Message
    BY <1>1 DEF Range
<1> QED BY <1>1, <1>4, <1>5, <1>6, Limits

LEMMA HandedAreBatched == \A m : IsHanded(m) => IsBatched(m)
BY AllBatchesAre DEF IsHanded, IsBatched

LEMMA StageIs ==
    /\ \A m \in Message : Stage[m] = IF IsHanded(m) THEN "handed"
                                     ELSE IF IsBatched(m) THEN "batched" ELSE "outside"
    /\ \A m \in Message : Stage'[m] = IF IsHanded(m)' THEN "handed"
                                      ELSE IF IsBatched(m)' THEN "batched" ELSE "outside"
    /\ DOMAIN Stage = Message /\ DOMAIN Stage' = Message
BY DEF Stage

LEMMA SameStage ==
    ASSUME \A m \in Message : IsHanded(m)' <=> IsHanded(m),
           \A m \in Message : IsBatched(m)' <=> IsBatched(m)
    PROVE  Stage' = Stage
<1>1. Stage' = [m \in Message |-> IF IsHanded(m)' THEN "handed"
                                  ELSE IF IsBatched(m)' THEN "batched" ELSE "outside"]
    BY DEF Stage
<1>2. [m \in Message |-> IF IsHanded(m)' THEN "handed"
                         ELSE IF IsBatched(m)' THEN "batched" ELSE "outside"]
      = [m \in Message |-> IF IsHanded(m) THEN "handed"
                           ELSE IF IsBatched(m) THEN "batched" ELSE "outside"]
    OBVIOUS
<1> QED BY <1>1, <1>2 DEF Stage

LEMMA SendingHandsOver ==
    ASSUME Typed, BatchInv, NEW b \in AllBatches, b \notin handed, handed' = handed \cup {b},
           \A m \in Message : IsBatched(m)' <=> IsBatched(m)
    PROVE  [Contract!Next]_Stage
<1> DEFINE S == Range(b.msgs)
<1>1. b \in Batch /\ Sound(b)
    BY BatchesAreBatches DEF BatchInv
<1>2. Cardinality(S) <= MaxMessages /\ S \subseteq Message
    BY <1>1, BatchSize
<1>3. \A m \in Message : IsHanded(m)' <=> IsHanded(m) \/ m \in S
    BY DEF IsHanded
<1>4. CASE S = {}
    BY <1>3, <1>4, SameStage
<1>5. CASE S # {}
  <2>1. ASSUME NEW m \in S PROVE Stage[m] = "batched"
    <3>1. IsBatched(m)
      BY DEF IsBatched
    <3>2. ~IsHanded(m)
      BY AllBatchesAre, <2>1 DEF IsHanded, BatchInv, Apart
    <3> QED BY <1>2, <3>1, <3>2, StageIs
  <2>2. \A m, n \in S : TopicOf[m] = TopicOf[n]
    BY <1>1 DEF Sound
  <2>3. Stage' = [m \in Message |-> IF m \in S THEN "handed" ELSE Stage[m]]
    <3>1. \A m \in Message : Stage'[m] = IF m \in S THEN "handed" ELSE Stage[m]
      BY <1>3, StageIs
    <3>2. Stage' = [m \in Message |-> Stage'[m]]
      BY DEF Stage
    <3> HIDE DEF S
    <3> QED BY <3>1, <3>2
  <2> HIDE DEF S
  <2>4. Contract!Cardinality(S) = Cardinality(S)
    BY DEF Contract!Cardinality, Cardinality
  <2>5. Contract!HandOver(S)
    BY <1>2, <1>5, <2>1, <2>2, <2>3, <2>4 DEF Contract!HandOver
  <2> QED BY <1>2, <2>5 DEF Contract!Next
<1> QED BY <1>4, <1>5

LEMMA ContractStep == Typed /\ BatchInv /\ [Next]_vars => [Contract!Next]_Stage
<1> SUFFICES ASSUME Typed, BatchInv, [Next]_vars PROVE [Contract!Next]_Stage
    OBVIOUS
<1>0. Stored /\ Apart /\ InOnePlace /\ \A b \in AllBatches : Sound(b)
    BY ApartIs DEF BatchInv
<1>1. ASSUME NEW w \in Goroutine, PlaceMessage(w) PROVE [Contract!Next]_Stage
  <2> DEFINE m == job[w]
  <2>1. m \in Message /\ Untouched(m)
    BY <1>1, Limits DEF PlaceMessage, BatchInv, OneWay, Typed, TypeOK, InStep
  <2>2. \A k : IsBatched(k)' <=> IsBatched(k) \/ (Fits(w) /\ k = m)
    BY <1>0, <1>1, <2>1, PlacingKeeps
  <2>3. \A k : IsHanded(k)' <=> IsHanded(k)
    BY <1>1 DEF PlaceMessage, IsHanded
  <2>4. ~IsBatched(m) /\ ~IsHanded(m)
    BY <2>1, HandedAreBatched DEF Untouched, IsBatched
  <2>5. CASE ~Fits(w)
    BY <2>2, <2>3, <2>5, SameStage
  <2>6. CASE Fits(w)
    <3> HIDE DEF m
    <3>1. Stage[m] = "outside"
      BY <2>1, <2>4, StageIs
    <3>2. \A k \in Message : Stage'[k] = IF k = m THEN "batched" ELSE Stage[k]
      BY <2>2, <2>3, <2>4, <2>6, StageIs
    <3>3. Stage' = [k \in Message |-> Stage'[k]] /\ Stage = [k \in Message |-> Stage[k]]
      BY DEF Stage
    <3>4. Stage' = [Stage EXCEPT ![m] = "batched"]
      BY <2>1, <3>2, <3>3
    <3>5. Contract!Take(m)
      BY <3>1, <3>4 DEF Contract!Take
    <3> QED BY <2>1, <3>5 DEF Contract!Next
  <2> QED BY <2>5, <2>6
<1>2. ASSUME \A w \in Goroutine : ~PlaceMessage(w) PROVE [Contract!Next]_Stage
  <2>1. \A k : IsBatched(k)' <=> IsBatched(k)
    BY <1>0, <1>2, MovingKeeps
  <2>2. ASSUME handed' = handed PROVE [Contract!Next]_Stage
    <3>1. \A k : IsHanded(k)' <=> IsHanded(k)
      BY <2>2 DEF IsHanded
    <3> QED BY <2>1, <3>1, SameStage
  <2>3. CASE sendBatch
    <3>1. PICK b \in sending : handed' = handed \cup {b}
      BY <2>3 DEF sendBatch
    <3>2. b \in AllBatches /\ b \notin handed
      BY <1>0, AllBatchesAre DEF InOnePlace
    <3> QED BY <2>1, <3>1, <3>2, SendingHandsOver
  <2>4. ASSUME NEW f \in Flusher, SendCollected(f) PROVE [Contract!Next]_Stage
    <3>1. PICK b \in toSend[f] : handed' = handed \cup {b}
      BY <2>4 DEF SendCollected
    <3>2. b \in AllBatches /\ b \notin handed
      BY <1>0, AllBatchesAre DEF InOnePlace, Flusher
    <3> QED BY <2>1, <3>1, <3>2, SendingHandsOver
  <2>5. ASSUME NEW f \in Flusher, CollectAll(f) PROVE [Contract!Next]_Stage
    BY <2>2, <2>5 DEF CollectAll
  <2>6. ASSUME NEW g \in Start_, flushTopicBatch(g) PROVE [Contract!Next]_Stage
    BY <2>2, <2>6 DEF flushTopicBatch
  <2> QED BY <1>2, <2>2, <2>3, <2>4, <2>5, <2>6, MovingSteps
<1> QED BY <1>1, <1>2

\* The coordinator implements its contract: a message is taken into a batch
\* once, by PlaceMessage, and leaves it at most once, when sendBatch or the
\* caller of Stop or FlushAll hands the whole batch over.
THEOREM CoordinatorImplementsContract == Spec => ImplementsContract
<1>1. Init => Contract!Init
  <2> SUFFICES ASSUME Init PROVE Contract!Init
    OBVIOUS
  <2>1. AllBatches = {} /\ handed = {}
    <3>1. Current = {}
      BY DEF Init, Current
    <3> QED BY <3>1, AllBatchesAre DEF Init, Flusher
  <2>2. \A m : ~IsBatched(m) /\ ~IsHanded(m)
    BY <2>1 DEF IsBatched, IsHanded
  <2> QED BY <2>2 DEF Contract!Init, Stage
<1>2. Typed /\ BatchInv /\ [Next]_vars => [Contract!Next]_Stage
    BY ContractStep
<1> QED BY <1>1, <1>2, AlwaysTyped, AlwaysBatchInv, PTL DEF Spec, ImplementsContract, Contract!Spec
==============================================================================
