-------------------------- MODULE BatchCoordinator --------------------------
(***************************************************************************)
(* The batch coordinator of internal/batch/coordinator.go with the Batch   *)
(* of internal/models/batch.go.  Goroutines: the callers of AddMessage (a  *)
(* caller is named by the message it submits), the workers and the flush   *)
(* manager of each Start, the timer callbacks, one sendBatch per batch     *)
(* flushed, and the callers of Stop and FlushAll.  A step is a channel     *)
(* operation or one section under the coordinator's mutex.                 *)
(*                                                                         *)
(* A batch is named by the message for which it was created (the code      *)
(* names it by topic and creation time).  A call of the batch handler is   *)
(* one step: its outcome is only logged, so it changes nothing here.       *)
(***************************************************************************)
EXTENDS Integers, Sequences, FiniteSets, Functions

CONSTANTS Message, Topic,
          TopicOf,      \* the topic of each message
          Size,         \* its size in bytes (calculateMessageSize)
          MaxMessages, MaxBytes,  \* the limits of BatchConfig
          QueueSize,    \* capacity of messageQueue
          FlushCap,     \* capacity of flushRequest (100 in the code)
          Worker,       \* the workers of one Start (4 in the code)
          MaxStarts,    \* bound: how often Start succeeds
          Env,          \* what the environment may do, of AllEnv
          NoBatch, NoMessage, NoTopic

AllEnv == {"stop",     \* call Stop
           "cancel",   \* cancel the context given to Start
           "giveup",   \* cancel the context of an AddMessage call
           "flush"}    \* call FlushTopic and FlushAll

Batch == [id : Message, msgs : Seq(Message), bytes : Nat]

ASSUME BatchAssumption ==
    /\ IsFiniteSet(Message) /\ IsFiniteSet(Topic)
    /\ TopicOf \in [Message -> Topic]
    /\ Size \in [Message -> Nat]
    /\ MaxMessages \in Nat \ {0} /\ MaxBytes \in Nat
    /\ QueueSize \in Nat \ {0} /\ FlushCap \in Nat \ {0}
    /\ MaxStarts \in Nat
    /\ Env \subseteq AllEnv
    /\ NoMessage \notin Message /\ NoTopic \notin Topic /\ NoBatch \notin Batch

VARIABLES
    running,       \* the CAS flag
    stopped,       \* stopChan is closed
    cancelled,     \* the context given to Start is done
    panicked,      \* a call of Stop closed stopChan a second time
    starts,        \* Start calls that succeeded
    call,          \* where the AddMessage of each message is
    response,      \* its Response channel (buffered, used once)
    messageQueue,
    at, job, full, \* each worker: where it is, its message, shouldFlush
    batches,       \* c.batches
    armed,         \* topics with a running flush timer
    expired,       \* timer callbacks that have not run FlushTopic yet
    flushRequest,
    dropped,       \* history: topics whose batch has lost the request of its timer
    manager, flushing, \* each flush manager: where it is, its topic
    sending,       \* batches with a sendBatch goroutine that has not called the handler
    stopStep,      \* where the call of Stop is
    toSend,        \* batches Stop and FlushAll have collected and not sent yet
    handed         \* batches given to the batch handler

callers == <<call, response>>
workers == <<at, job, full>>
managers == <<manager, flushing>>
timers == <<armed, expired>>
requests == <<flushRequest, dropped>>
lifecycle == <<running, stopped, cancelled, panicked, starts, stopStep>>
vars == <<lifecycle, callers, messageQueue, workers, batches, timers, requests,
          managers, sending, toSend, handed>>

Start_ == 1..MaxStarts
Goroutine == Start_ \X Worker
Flusher == {"Stop", "FlushAll"}

Init ==
    /\ running = FALSE /\ stopped = FALSE /\ cancelled = FALSE /\ panicked = FALSE
    /\ starts = 0
    /\ call = [m \in Message |-> "new"]
    /\ response = [m \in Message |-> "none"]
    /\ messageQueue = <<>>
    /\ at = [w \in Goroutine |-> "unborn"]
    /\ job = [w \in Goroutine |-> NoMessage]
    /\ full = [w \in Goroutine |-> FALSE]
    /\ batches = [t \in Topic |-> NoBatch]
    /\ armed = {}
    /\ expired = [t \in Topic |-> 0]
    /\ flushRequest = <<>> /\ dropped = {}
    /\ manager = [g \in Start_ |-> "unborn"]
    /\ flushing = [g \in Start_ |-> NoTopic]
    /\ sending = {}
    /\ stopStep = "idle"
    /\ toSend = [f \in Flusher |-> {}]
    /\ handed = {}

-----------------------------------------------------------------------------
(* models/batch.go                                                         *)

NewBatch(m) == [id |-> m, msgs |-> <<>>, bytes |-> 0]

\* Mutant: the byte limit is not checked.
CanAccept_ByCount(b, m) == TopicOf[m] = TopicOf[b.id] /\ Len(b.msgs) < MaxMessages

CanAccept(b, m) == /\ TopicOf[m] = TopicOf[b.id]
                   /\ Len(b.msgs) < MaxMessages
                   /\ b.bytes + Size[m] <= MaxBytes

WithMessage(b, m) == [b EXCEPT !.msgs = Append(@, m), !.bytes = @ + Size[m]]

\* Mutant: a batch of one message is taken for empty.
HasMessages_OffByOne(b) == b # NoBatch /\ Len(b.msgs) > 1

HasMessages(b) == b # NoBatch /\ b.msgs # <<>>

IsFull(b) == Len(b.msgs) >= MaxMessages \/ b.bytes >= MaxBytes

-----------------------------------------------------------------------------
(* Start and the callers of AddMessage.                                    *)

Start ==
    /\ ~running /\ starts < MaxStarts
    /\ running' = TRUE
    /\ starts' = starts + 1
    /\ at' = [w \in Goroutine |-> IF w[1] = starts + 1 THEN "idle" ELSE at[w]]
    /\ manager' = [manager EXCEPT ![starts + 1] = "idle"]
    /\ UNCHANGED <<stopped, cancelled, panicked, stopStep, callers, messageQueue, job, full,
                   batches, timers, requests, flushing, sending, toSend, handed>>

Caller(m, from, to) == call[m] = from /\ call' = [call EXCEPT ![m] = to]

AddMessage(m) ==
    /\ Caller(m, "new", IF running THEN "queueing" ELSE "failed")
    /\ UNCHANGED <<lifecycle, response, messageQueue, workers, batches, timers,
                   requests, managers, sending, toSend, handed>>

Enqueue(m) ==
    /\ Caller(m, "queueing", "waiting")
    /\ Len(messageQueue) < QueueSize
    /\ messageQueue' = Append(messageQueue, m)
    /\ UNCHANGED <<lifecycle, response, workers, batches, timers, requests,
                   managers, sending, toSend, handed>>

\* Either select of AddMessage may take ctx.Done or stopChan.
GiveUp(m) ==
    /\ stopped \/ "giveup" \in Env
    /\ Caller(m, "queueing", "failed") \/ Caller(m, "waiting", "failed")
    /\ UNCHANGED <<lifecycle, response, messageQueue, workers, batches, timers,
                   requests, managers, sending, toSend, handed>>

ReceiveResponse(m) ==
    /\ response[m] # "none"
    /\ Caller(m, "waiting", IF response[m] = "ok" THEN "accepted" ELSE "refused")
    /\ UNCHANGED <<lifecycle, response, messageQueue, workers, batches, timers,
                   requests, managers, sending, toSend, handed>>

-----------------------------------------------------------------------------
(* Flush requests and timers.                                              *)

\* A request that finds the channel full is dropped.
FlushTopic(t) ==
    flushRequest' = IF Len(flushRequest) < FlushCap THEN Append(flushRequest, t)
                                                     ELSE flushRequest

CallFlushTopic(t) ==
    /\ "flush" \in Env
    /\ FlushTopic(t)
    /\ UNCHANGED <<lifecycle, callers, messageQueue, workers, batches, timers,
                   dropped, managers, sending, toSend, handed>>

TimerExpires(t) ==
    /\ t \in armed
    /\ armed' = armed \ {t}
    /\ expired' = [expired EXCEPT ![t] = @ + 1]
    /\ UNCHANGED <<lifecycle, callers, messageQueue, workers, batches, requests,
                   managers, sending, toSend, handed>>

\* The callback of an expired timer runs in a goroutine of its own: stopping
\* the timer no longer reaches it.
TimerCallback(t) ==
    /\ expired[t] > 0
    /\ expired' = [expired EXCEPT ![t] = @ - 1]
    /\ FlushTopic(t)
    /\ dropped' = IF Len(flushRequest) < FlushCap THEN dropped ELSE dropped \cup {t}
    /\ UNCHANGED <<lifecycle, callers, messageQueue, workers, batches, armed,
                   managers, sending, toSend, handed>>

-----------------------------------------------------------------------------
(* The workers: worker and processMessageRequest.                          *)

TakeMessage(w) ==
    /\ at[w] = "idle" /\ messageQueue # <<>>
    /\ at' = [at EXCEPT ![w] = "placing"]
    /\ job' = [job EXCEPT ![w] = Head(messageQueue)]
    /\ messageQueue' = Tail(messageQueue)
    /\ UNCHANGED <<lifecycle, callers, full, batches, timers, requests,
                   managers, sending, toSend, handed>>

WorkerExits(w) ==
    /\ at[w] = "idle" /\ (stopped \/ cancelled)
    /\ at' = [at EXCEPT ![w] = "done"]
    /\ UNCHANGED <<lifecycle, callers, messageQueue, job, full, batches, timers,
                   requests, managers, sending, toSend, handed>>

\* The section under the mutex.  A batch that cannot take the message is sent
\* as it is and replaced; the new batch stays in the map even when the message
\* is too large for it and the caller gets an error.
PlaceMessage(w) ==
    LET m == job[w]
        t == TopicOf[m]
        current == batches[t]
        keep == current # NoBatch /\ CanAccept(current, m)
        target == IF keep THEN current ELSE NewBatch(m)
        fits == CanAccept(target, m)
        result == IF fits THEN WithMessage(target, m) ELSE target
    IN /\ at[w] = "placing"
       /\ batches' = [batches EXCEPT ![t] = result]
       /\ IF ~keep /\ current # NoBatch
            THEN sending' = sending \cup {current} /\ armed' = armed \ {t}
            ELSE UNCHANGED <<sending, armed>>
       /\ dropped' = IF keep THEN dropped ELSE dropped \ {t}
       /\ IF fits
            THEN /\ at' = [at EXCEPT ![w] = "arming"]
                 /\ full' = [full EXCEPT ![w] = IsFull(result)]
                 /\ UNCHANGED <<response, job>>
            ELSE /\ at' = [at EXCEPT ![w] = "idle"]
                 /\ job' = [job EXCEPT ![w] = NoMessage]
                 /\ response' = [response EXCEPT ![m] = "error"]
                 /\ UNCHANGED full
       /\ UNCHANGED <<lifecycle, call, messageQueue, expired, flushRequest,
                      managers, toSend, handed>>

\* Mutant: only the first message of a batch starts the timer.
startFlushTimer_FirstOnly(w) ==
    LET t == TopicOf[job[w]]
    IN /\ at[w] = "arming"
       /\ at' = [at EXCEPT ![w] = "answering"]
       /\ armed' = IF HasMessages(batches[t]) /\ Len(batches[t].msgs) = 1
                     THEN armed \cup {t} ELSE armed
       /\ UNCHANGED <<lifecycle, callers, messageQueue, job, full, batches, expired,
                      requests, managers, sending, toSend, handed>>

\* A section of its own: the batch may be gone by now.
startFlushTimer(w) ==
    /\ at[w] = "arming"
    /\ at' = [at EXCEPT ![w] = "answering"]
    /\ armed' = armed \cup {TopicOf[job[w]]}
    /\ UNCHANGED <<lifecycle, callers, messageQueue, job, full, batches, expired,
                   requests, managers, sending, toSend, handed>>

Answer(w) ==
    /\ at[w] = "answering"
    /\ at' = [at EXCEPT ![w] = "idle"]
    /\ IF full[w] THEN FlushTopic(TopicOf[job[w]]) ELSE UNCHANGED flushRequest
    /\ response' = [response EXCEPT ![job[w]] = "ok"]
    /\ job' = [job EXCEPT ![w] = NoMessage]
    /\ full' = [full EXCEPT ![w] = FALSE]
    /\ UNCHANGED <<lifecycle, call, messageQueue, batches, timers, dropped, managers,
                   sending, toSend, handed>>

WorkerStep(w) == \/ TakeMessage(w) \/ PlaceMessage(w) \/ startFlushTimer(w)
                 \/ Answer(w) \/ WorkerExits(w)

-----------------------------------------------------------------------------
(* The flush manager and sendBatch.                                        *)

TakeFlushRequest(g) ==
    /\ manager[g] = "idle" /\ flushRequest # <<>>
    /\ manager' = [manager EXCEPT ![g] = "flushing"]
    /\ flushing' = [flushing EXCEPT ![g] = Head(flushRequest)]
    /\ flushRequest' = Tail(flushRequest)
    /\ UNCHANGED <<lifecycle, callers, messageQueue, workers, batches, timers, dropped,
                   sending, toSend, handed>>

ManagerExits(g) ==
    /\ manager[g] = "idle" /\ (stopped \/ cancelled)
    /\ manager' = [manager EXCEPT ![g] = "done"]
    /\ UNCHANGED <<lifecycle, callers, messageQueue, workers, batches, timers,
                   requests, flushing, sending, toSend, handed>>

flushTopicBatch(g) ==
    LET t == flushing[g]
        b == batches[t]
    IN /\ manager[g] = "flushing"
       /\ manager' = [manager EXCEPT ![g] = "idle"]
       /\ flushing' = [flushing EXCEPT ![g] = NoTopic]
       /\ batches' = [batches EXCEPT ![t] = NoBatch]
       /\ armed' = IF b # NoBatch THEN armed \ {t} ELSE armed
       /\ sending' = IF HasMessages(b) THEN sending \cup {b} ELSE sending
       /\ UNCHANGED <<lifecycle, callers, messageQueue, workers, expired,
                      requests, toSend, handed>>

ManagerStep(g) == TakeFlushRequest(g) \/ flushTopicBatch(g) \/ ManagerExits(g)

sendBatch ==
    \E b \in sending :
        /\ sending' = sending \ {b}
        /\ handed' = handed \cup {b}
        /\ UNCHANGED <<lifecycle, callers, messageQueue, workers, batches, timers,
                       requests, managers, toSend>>

-----------------------------------------------------------------------------
(* Stop and FlushAll.                                                      *)

Current == {batches[t] : t \in Topic} \ {NoBatch}

\* Mutant: the collected batches stay in the map.
CollectAll_KeepsBatches(f) ==
    /\ toSend[f] = {}
    /\ toSend' = [toSend EXCEPT ![f] = {b \in Current : HasMessages(b)}]
    /\ armed' = {t \in armed : batches[t] = NoBatch}
    /\ UNCHANGED <<callers, messageQueue, workers, batches, expired, requests,
                   managers, sending, handed>>

\* The section of flushAllBatches under the mutex.
CollectAll(f) ==
    /\ toSend[f] = {}
    /\ toSend' = [toSend EXCEPT ![f] = {b \in Current : HasMessages(b)}]
    /\ batches' = [t \in Topic |-> NoBatch]
    /\ armed' = {t \in armed : batches[t] = NoBatch}
    /\ UNCHANGED <<callers, messageQueue, workers, expired, requests, managers,
                   sending, handed>>

\* The collected batches are sent one after another by the caller itself.
SendCollected(f) ==
    \E b \in toSend[f] :
        /\ toSend' = [toSend EXCEPT ![f] = @ \ {b}]
        /\ handed' = handed \cup {b}
        /\ UNCHANGED <<lifecycle, callers, messageQueue, workers, batches, timers,
                       requests, managers, sending>>

StopWins ==
    /\ "stop" \in Env
    /\ stopStep = "idle" /\ running
    /\ running' = FALSE
    /\ stopStep' = "closing"
    /\ UNCHANGED <<stopped, cancelled, panicked, starts, callers, messageQueue, workers,
                   batches, timers, requests, managers, sending, toSend, handed>>

\* Nothing makes a new stopChan, so closing it a second time panics.  The
\* panic ends the call of Stop before it flushes; the process may survive it
\* (a caller may recover), and goes on here: stopping is a stutter.
StopCloses ==
    /\ stopStep = "closing"
    /\ stopStep' = IF stopped THEN "idle" ELSE "flushing"
    /\ stopped' = TRUE
    /\ panicked' = (panicked \/ stopped)
    /\ UNCHANGED <<running, cancelled, starts, callers, messageQueue, workers,
                   batches, timers, requests, managers, sending, toSend, handed>>

StopFlushes ==
    /\ stopStep = "flushing"
    /\ stopStep' = "sending"
    /\ CollectAll("Stop")
    /\ UNCHANGED <<running, stopped, cancelled, panicked, starts>>

StopReturns ==
    /\ stopStep = "sending" /\ toSend["Stop"] = {}
    /\ stopStep' = "idle"
    /\ UNCHANGED <<running, stopped, cancelled, panicked, starts, callers, messageQueue,
                   workers, batches, timers, requests, managers, sending, toSend, handed>>

FlushAll ==
    /\ "flush" \in Env
    /\ CollectAll("FlushAll")
    /\ UNCHANGED lifecycle

CancelContext ==
    /\ "cancel" \in Env /\ ~cancelled
    /\ cancelled' = TRUE
    /\ UNCHANGED <<running, stopped, panicked, starts, stopStep, callers, messageQueue,
                   workers, batches, timers, requests, managers, sending, toSend, handed>>

-----------------------------------------------------------------------------
CallerStep(m) == AddMessage(m) \/ Enqueue(m) \/ GiveUp(m) \/ ReceiveResponse(m)
TimerStep(t) == TimerExpires(t) \/ TimerCallback(t)
StopStep == StopCloses \/ StopFlushes \/ StopReturns

Next ==
    \/ Start \/ StopWins \/ StopStep \/ FlushAll \/ CancelContext
    \/ \E m \in Message : CallerStep(m)
    \/ \E w \in Goroutine : WorkerStep(w)
    \/ \E g \in Start_ : ManagerStep(g)
    \/ \E t \in Topic : TimerStep(t) \/ CallFlushTopic(t)
    \/ sendBatch
    \/ \E f \in Flusher : SendCollected(f)

Spec == Init /\ [][Next]_vars

\* The scheduler runs every goroutine that can run, and timers expire.
FairSpec ==
    /\ Spec
    /\ WF_vars(Start) /\ WF_vars(StopStep)
    /\ \A m \in Message : WF_vars(Enqueue(m)) /\ WF_vars(ReceiveResponse(m))
    /\ \A w \in Goroutine : WF_vars(WorkerStep(w))
    /\ \A g \in Start_ : WF_vars(ManagerStep(g))
    /\ \A t \in Topic : WF_vars(TimerExpires(t)) /\ WF_vars(TimerCallback(t))
    /\ WF_vars(sendBatch)
    /\ \A f \in Flusher : WF_vars(SendCollected(f))

-----------------------------------------------------------------------------
TypeOK ==
    /\ running \in BOOLEAN /\ stopped \in BOOLEAN
    /\ cancelled \in BOOLEAN /\ panicked \in BOOLEAN
    /\ starts \in 0..MaxStarts
    /\ stopStep \in {"idle", "closing", "flushing", "sending"}
    /\ call \in [Message -> {"new", "queueing", "waiting", "accepted", "refused", "failed"}]
    /\ response \in [Message -> {"none", "ok", "error"}]
    /\ messageQueue \in Seq(Message) /\ Len(messageQueue) <= QueueSize
    /\ at \in [Goroutine -> {"unborn", "idle", "placing", "arming", "answering", "done"}]
    /\ job \in [Goroutine -> Message \cup {NoMessage}]
    /\ full \in [Goroutine -> BOOLEAN]
    /\ batches \in [Topic -> Batch \cup {NoBatch}]
    /\ armed \subseteq Topic /\ expired \in [Topic -> Nat]
    /\ flushRequest \in Seq(Topic) /\ Len(flushRequest) <= FlushCap
    /\ dropped \subseteq Topic
    /\ manager \in [Start_ -> {"unborn", "idle", "flushing", "done"}]
    /\ flushing \in [Start_ -> Topic \cup {NoTopic}]
    /\ sending \subseteq Batch /\ handed \subseteq Batch
    /\ toSend \in [Flusher -> SUBSET Batch]

\* Where a batch can be.
Places == <<Current, sending, toSend["Stop"], toSend["FlushAll"], handed>>
AllBatches == UNION Range(Places)

Elsewhere(b) == UNION {Range(c.msgs) : c \in AllBatches \ {b}}

\* A message is in at most one batch and once in it, and a batch is in one
\* place: with the channel and mutex hand-overs between AddMessage, the
\* workers, the flush manager, Stop and FlushAll, no message is handed to the
\* batch handler twice.
HandedAtMostOnce ==
    /\ \A i, j \in DOMAIN Places : i # j => Places[i] \cap Places[j] = {}
    /\ \A b \in AllBatches :
         /\ Range(b.msgs) \cap Elsewhere(b) = {}
         /\ IsInjective(b.msgs)

\* The answer on the Response channel tells what became of the message: after
\* a nil error it is in a batch, after an error it is in none and never will be.
AnswersAreTrue ==
    \A m \in Message :
      LET batched == \E b \in AllBatches : m \in Range(b.msgs)
      IN /\ response[m] = "ok" => batched
         /\ response[m] = "error" => ~batched

\* Whether the byte count of a batch is the sum of its messages' sizes: there
\* are running totals that lead up to it.
CountsItsBytes(b) ==
    \E total \in [0..Len(b.msgs) -> 0..b.bytes] :
        /\ total[0] = 0 /\ total[Len(b.msgs)] = b.bytes
        /\ \A i \in 1..Len(b.msgs) : total[i] = total[i - 1] + Size[b.msgs[i]]

\* A batch never exceeds its limits, holds messages of its topic only, and its
\* byte count is the sum of its messages' sizes, however many workers add to it.
WithinLimits ==
    \A b \in AllBatches :
        /\ Len(b.msgs) <= MaxMessages
        /\ CountsItsBytes(b) /\ b.bytes <= MaxBytes
        /\ \A m \in Range(b.msgs) : TopicOf[m] = TopicOf[b.id]

\* A batch that holds messages has a flush on its way: a running timer, an
\* expired one, a request in the channel or with the flush manager, or a worker
\* that has yet to start the timer.  The exception is a batch whose timer found
\* the channel full.
FlushOnItsWay ==
    \A t \in Topic : HasMessages(batches[t]) =>
        \/ t \in dropped
        \/ t \in armed
        \/ expired[t] > 0
        \/ t \in Range(flushRequest)
        \/ \E g \in Start_ : flushing[g] = t
        \/ \E w \in Goroutine : at[w] = "arming" /\ TopicOf[job[w]] = t

IsHanded(m) == \E b \in handed : m \in Range(b.msgs)

\* Every message whose caller was told it is accepted reaches the batch handler.
AcceptedIsHanded == \A m \in Message : call[m] = "accepted" ~> IsHanded(m)

\* Every queued message is answered, and handed over unless it was refused.
QueuedIsSettled ==
    \A m \in Message : call[m] = "waiting" ~> call[m] = "refused" \/ IsHanded(m)

IsBatched(m) == \E b \in AllBatches : m \in Range(b.msgs)

Stage == [m \in Message |-> IF IsHanded(m) THEN "handed"
                            ELSE IF IsBatched(m) THEN "batched" ELSE "outside"]

Contract == INSTANCE BatchContract WITH stage <- Stage

\* The coordinator implements BatchContract: whatever callers, workers, flush
\* manager, Stop and FlushAll do, no message leaves its batch except by being
\* handed over with the rest of it, once.
ImplementsContract == Contract!Spec
=============================================================================
