--------------------------- MODULE PublishService ---------------------------
(***************************************************************************)
(* The service process of cmd/kafka-producer/main.go: the handlers of      *)
(* POST /api/v1/messages and /messages/batch (internal/server/handlers.go),*)
(* the producer they publish with (internal/producer/producer.go) and the  *)
(* shutdown sequence of main.  One goroutine per request, one per call of  *)
(* SendMessage, and main; they share the producer's closed flag.           *)
(*                                                                         *)
(* A message is named by its request and its position.  MessageRules says  *)
(* what the two validations make of its content.  The broker and the Sarama*)
(* client behind SendMessage are external: a send ends in success, or in   *)
(* an error that leaves open whether the broker has the message.           *)
(***************************************************************************)
EXTENDS MessageRules, Functions

CONSTANTS Request,
          Single,      \* the requests to /api/v1/messages; the others are batches
          Content,     \* the messages of each request, in order
          MaxBatch,    \* 100 in the code
          Producers,   \* implementations of the Producer interface to run with
          ContextEnds  \* how a request's context may end

\* The kinds of each request's messages.
Body == [r \in Request |-> [i \in DOMAIN Content[r] |-> Kind(Content[r][i])]]

ASSUME PublishAssumption ==
    /\ Single \subseteq Request
    /\ Content \in [Request -> Seq(MessageRequest)]
    /\ \A r \in Single : Len(Content[r]) = 1
    /\ MaxBatch \in Nat
    /\ Producers \subseteq {"mock", "sarama"}
    /\ ContextEnds \subseteq {"cancelled", "deadline"}

VARIABLES
    producer,      \* which producer the handlers were given
    closed,        \* p.closed
    handler,       \* where the handler of each request is
    ctx,           \* its context
    outcomes,      \* results of its messages so far
    status,        \* the HTTP status written
    sender,        \* the SendMessage goroutine of each message
    delivered,     \* messages the broker has
    main,          \* where main is
    expired,       \* shutdownCtx is done
    shutdownError, \* server.Shutdown returned an error
    metricsUp      \* the metrics server got its port

handlers == <<handler, ctx, outcomes, status>>
process == <<producer, metricsUp>>
shutdown == <<main, expired, shutdownError, closed>>
vars == <<process, shutdown, handlers, sender, delivered>>

Message == UNION {{r} \X DOMAIN Body[r] : r \in Request}

Init ==
    /\ producer \in Producers /\ metricsUp \in BOOLEAN
    /\ closed = FALSE
    /\ handler = [r \in Request |-> "new"]
    /\ ctx = [r \in Request |-> "live"]
    /\ outcomes = [r \in Request |-> <<>>]
    /\ status = [r \in Request |-> 0]
    /\ sender = [m \in Message |-> "none"]
    /\ delivered = {}
    /\ main = "serving" /\ expired = FALSE /\ shutdownError = FALSE

\* When main returns the process ends, with every goroutine in it.
Alive == main # "exited"

-----------------------------------------------------------------------------
(* The handlers.                                                           *)

Faults(r) == {i \in DOMAIN Body[r] : Body[r][i] \in {"bad", "large"}}

\* validateMessageRequest, validateBatchRequest and, for a single message,
\* requestToMessage: 0, or the status a request is refused with.  The first
\* fault of a batch decides.
Refusal(r) ==
    LET fault == Body[r][Min(Faults(r))]
    IN IF r \notin Single /\ Body[r] = <<>> THEN 400
       ELSE IF r \notin Single /\ Len(Body[r]) > MaxBatch THEN 413
       ELSE IF Faults(r) # {} THEN IF fault = "large" THEN 413 ELSE 400
       ELSE IF r \in Single /\ Body[r][1] = "unfit" THEN 400
       ELSE 0

Writes(r, code) ==
    /\ handler' = [handler EXCEPT ![r] = "answered"]
    /\ status' = [status EXCEPT ![r] = code]

\* Mutant: a refusal is written and the handler goes on, for want of a return.
Receive_NoReturn(r) ==
    /\ Alive /\ handler[r] = "new" /\ main = "serving"
    /\ handler' = [handler EXCEPT ![r] = "looping"]
    /\ status' = [status EXCEPT ![r] = Refusal(r)]
    /\ UNCHANGED <<process, shutdown, ctx, outcomes, sender, delivered>>

\* The listener is open until main calls Shutdown.
Receive(r) ==
    /\ Alive /\ handler[r] = "new" /\ main = "serving"
    /\ IF Refusal(r) # 0
         THEN Writes(r, Refusal(r))
         ELSE handler' = [handler EXCEPT ![r] = "looping"] /\ UNCHANGED status
    /\ UNCHANGED <<process, shutdown, ctx, outcomes, sender, delivered>>

At(r) == Len(outcomes[r]) + 1
InLoop(r) == Alive /\ handler[r] = "looping" /\ At(r) <= Len(Body[r])
Current(r) == <<r, At(r)>>

Outcome(r, o) ==
    /\ handler' = [handler EXCEPT ![r] = "looping"]
    /\ outcomes' = [outcomes EXCEPT ![r] = Append(@, o)]

\* requestToMessage refuses one message of a batch; the loop goes on.
RefuseMessage(r) ==
    /\ InLoop(r) /\ Body[r][At(r)] = "unfit"
    /\ Outcome(r, "failed")
    /\ UNCHANGED <<process, shutdown, ctx, status, sender, delivered>>

\* MockProducer.PublishMessage: under its mutex throughout, and whatever the
\* context says.
PublishMock(r) ==
    /\ InLoop(r) /\ Body[r][At(r)] = "good" /\ producer = "mock"
    /\ IF closed
         THEN Outcome(r, "failed") /\ UNCHANGED delivered
         ELSE Outcome(r, "success") /\ delivered' = delivered \cup {Current(r)}
    /\ UNCHANGED <<process, shutdown, ctx, status, sender>>

\* SaramaProducer.PublishMessage as far as its select: the lock under which it
\* reads closed, which Close holds while it flushes, is released before the
\* goroutine that calls SendMessage runs.
PublishMessage(r) ==
    /\ InLoop(r) /\ Body[r][At(r)] = "good" /\ producer = "sarama"
    /\ main # "flushing"
    /\ IF closed
         THEN Outcome(r, "failed") /\ UNCHANGED sender
         ELSE /\ handler' = [handler EXCEPT ![r] = "waiting"]
              /\ sender' = [sender EXCEPT ![Current(r)] = "starting"]
              /\ UNCHANGED outcomes
    /\ UNCHANGED <<process, shutdown, ctx, status, delivered>>

\* Mutant: the select has no case for errorChan.
ReceiveResult_OkOnly(r) ==
    /\ Alive /\ handler[r] = "waiting"
    /\ sender[Current(r)] = "ok" /\ Outcome(r, "success")
    /\ UNCHANGED <<process, shutdown, ctx, status, sender, delivered>>

ReceiveResult(r) ==
    /\ Alive /\ handler[r] = "waiting"
    /\ \/ sender[Current(r)] = "ok" /\ Outcome(r, "success")
       \/ sender[Current(r)] = "error" /\ Outcome(r, "failed")
    /\ UNCHANGED <<process, shutdown, ctx, status, sender, delivered>>

\* Mutant: the receipt of a timed-out delivery comes without an error.
ContextDone_ReceiptOnly(r) ==
    /\ Alive /\ handler[r] = "waiting" /\ ctx[r] # "live"
    /\ Outcome(r, IF ctx[r] = "deadline" THEN "success" ELSE "failed")
    /\ UNCHANGED <<process, shutdown, ctx, status, sender, delivered>>

\* A done context ends the wait with an error; the send goes on.
ContextDone(r) ==
    /\ Alive /\ handler[r] = "waiting" /\ ctx[r] # "live"
    /\ Outcome(r, "failed")
    /\ UNCHANGED <<process, shutdown, ctx, status, sender, delivered>>

Count(r, o) == Cardinality({i \in DOMAIN outcomes[r] : outcomes[r][i] = o})

\* Mutant: every batch with a success in it is a success.
BatchStatus_AnySuccess(r) == IF Count(r, "success") > 0 THEN 201 ELSE 400

BatchStatus(r) == IF Count(r, "failed") = 0 THEN 201
                  ELSE IF Count(r, "success") = 0 THEN 400 ELSE 207

\* postMessage asks the context only now, after the publish has failed.
SingleStatus(r) == IF Count(r, "failed") = 0 THEN 201
                   ELSE IF ctx[r] = "deadline" THEN 408
                   ELSE IF ctx[r] = "cancelled" THEN 400 ELSE 500

Respond(r) ==
    /\ Alive /\ handler[r] = "looping" /\ At(r) > Len(Body[r])
    /\ Writes(r, IF r \in Single THEN SingleStatus(r) ELSE BatchStatus(r))
    /\ UNCHANGED <<process, shutdown, ctx, outcomes, sender, delivered>>

HandlerStep(r) == \/ Receive(r) \/ RefuseMessage(r) \/ PublishMock(r) \/ PublishMessage(r)
                  \/ ReceiveResult(r) \/ ContextDone(r) \/ Respond(r)

Active == {r \in Request : handler[r] \in {"looping", "waiting"}}

EndContext(r) ==
    /\ Alive /\ r \in Active /\ ctx[r] = "live"
    /\ \E e \in ContextEnds : ctx' = [ctx EXCEPT ![r] = e]
    /\ UNCHANGED <<process, shutdown, handler, outcomes, status, sender, delivered>>

-----------------------------------------------------------------------------
(* The goroutine around SendMessage, and the external client behind it.    *)

\* Nothing keeps Close from coming before the call: a client that is closing
\* refuses the message, one that is closed panics and takes the process along.
SendMessage(m) ==
    /\ Alive /\ sender[m] = "starting"
    /\ \/ /\ sender' = [sender EXCEPT ![m] = IF closed THEN "error" ELSE "sending"]
          /\ UNCHANGED main
       \/ main = "waiting" /\ main' = "exited" /\ UNCHANGED sender
    /\ UNCHANGED <<process, closed, expired, shutdownError, handlers, delivered>>

SendReturns(m) ==
    /\ Alive /\ sender[m] = "sending"
    /\ \/ /\ sender' = [sender EXCEPT ![m] = "ok"]
          /\ delivered' = delivered \cup {m}
       \/ /\ sender' = [sender EXCEPT ![m] = "error"]
          /\ delivered' \in {delivered, delivered \cup {m}}
    /\ UNCHANGED <<process, shutdown, handlers>>

SenderStep(m) == SendMessage(m) \/ SendReturns(m)

-----------------------------------------------------------------------------
(* main: shutdownServices, then the wait for the goroutines.               *)

Signal ==
    /\ main = "serving"
    /\ main' = "draining"
    /\ UNCHANGED <<process, closed, expired, shutdownError, handlers, sender, delivered>>

TimeoutExpires ==
    /\ main \notin {"serving", "exited"} /\ ~expired
    /\ expired' = TRUE
    /\ UNCHANGED <<process, main, closed, shutdownError, handlers, sender, delivered>>

\* Mutant: the server is told to shut down, and not waited for.
Shutdown_NoWait ==
    /\ main = "draining"
    /\ main' = "closing"
    /\ UNCHANGED <<process, closed, expired, shutdownError, handlers, sender, delivered>>

\* server.Shutdown returns when no handler is running, or with an error when
\* its context is done.  Stopping the profiler changes nothing here.
Shutdown ==
    /\ main = "draining"
    /\ \/ Active = {} /\ UNCHANGED shutdownError
       \/ Active # {} /\ expired /\ shutdownError' = TRUE
    /\ main' = "closing"
    /\ UNCHANGED <<process, closed, expired, handlers, sender, delivered>>

Sending == {m \in Message : sender[m] = "sending"}

Close ==
    /\ main = "closing"
    /\ closed' = TRUE
    /\ main' = IF producer = "mock" THEN "waiting" ELSE "flushing"
    /\ UNCHANGED <<process, expired, shutdownError, handlers, sender, delivered>>

\* Sarama's Close returns when what it has taken is answered; then the
\* producer's lock is released.
CloseReturns ==
    /\ main = "flushing" /\ Sending = {}
    /\ main' = "waiting"
    /\ UNCHANGED <<process, closed, expired, shutdownError, handlers, sender, delivered>>

\* Mutant: main waits for its goroutines without a timeout.
Exit_NoTimeout ==
    /\ main = "waiting" /\ ~metricsUp
    /\ main' = "exited"
    /\ UNCHANGED <<process, closed, expired, shutdownError, handlers, sender, delivered>>

\* The metrics server is never told to stop: unless it never ran, main waits
\* for the timeout, whatever the rest does.
Exit ==
    /\ main = "waiting"
    /\ expired \/ ~metricsUp
    /\ main' = "exited"
    /\ UNCHANGED <<process, closed, expired, shutdownError, handlers, sender, delivered>>

MainStep == Shutdown \/ Close \/ CloseReturns \/ Exit

Next == \/ \E r \in Request : HandlerStep(r) \/ EndContext(r)
        \/ \E m \in Message : SenderStep(m)
        \/ Signal \/ TimeoutExpires \/ MainStep

Spec == Init /\ [][Next]_vars

\* Goroutines run, the broker client answers in the end, timers expire.
FairSpec ==
    /\ Spec
    /\ \A r \in Request : WF_vars(HandlerStep(r))
    /\ \A m \in Message : WF_vars(SenderStep(m))
    /\ WF_vars(TimeoutExpires) /\ WF_vars(MainStep)

-----------------------------------------------------------------------------
TypeOK ==
    /\ producer \in Producers
    /\ metricsUp \in BOOLEAN /\ closed \in BOOLEAN
    /\ expired \in BOOLEAN /\ shutdownError \in BOOLEAN
    /\ handler \in [Request -> {"new", "looping", "waiting", "answered"}]
    /\ ctx \in [Request -> {"live"} \cup ContextEnds]
    /\ outcomes \in [Request -> Seq({"success", "failed"})]
    /\ \A r \in Request : Len(outcomes[r]) <= Len(Body[r])
    /\ status \in [Request -> {0, 201, 207, 400, 408, 413, 500}]
    /\ sender \in [Message -> {"none", "starting", "sending", "ok", "error"}]
    /\ delivered \subseteq Message
    /\ main \in {"serving", "draining", "closing", "flushing", "waiting", "exited"}

Answered == {r \in Request : handler[r] = "answered"}
MessagesOf(r) == {m \in Message : m[1] = r}

\* The broker has every message that a client is told was published, through
\* timeouts, cancellations and a producer closed under the handlers.
SuccessIsDelivered ==
    \A r \in Request : \A i \in DOMAIN outcomes[r] :
        outcomes[r][i] = "success" => <<r, i>> \in delivered

\* The status tells what became of the request's messages: 201 that the broker
\* has them all, 207 that it has some and that another one failed, and a
\* refusal of the whole request that none of them was sent.
StatusTellsOutcome ==
    \A r \in Answered :
        /\ status[r] = 201 => MessagesOf(r) \subseteq delivered
        /\ status[r] = 207 => /\ MessagesOf(r) \cap delivered # {}
                              /\ Len(outcomes[r]) = Len(Body[r])
                              /\ "failed" \in Range(outcomes[r])
        /\ Refusal(r) # 0 => \A m \in MessagesOf(r) :
                                sender[m] = "none" /\ m \notin delivered

\* As long as the shutdown timeout has not cut the drain short, the producer is
\* closed only when every request taken has its answer, and no request ever
\* fails because the producer is closed.
DrainedBeforeClose == closed /\ ~shutdownError => Active = {}

\* Every request taken is answered, or the process ends.
RequestsAnswered ==
    \A r \in Request : handler[r] # "new" ~> handler[r] = "answered" \/ ~Alive

\* main.go:133 "Wait for all goroutines to finish with timeout": after a signal
\* the process ends, whatever the requests, the broker and the servers do.
ShutdownEnds == main = "draining" ~> ~Alive

-----------------------------------------------------------------------------
(* What all of this amounts to for a client: PublishContract.              *)

Phase == CASE main = "serving"  -> "open"
           [] main = "draining" -> "draining"
           [] main = "exited"   -> "over"
           [] OTHER             -> "drained"

\* The results of a request that came out well, by message.
Successes(r) == {<<r, i>> : i \in {j \in DOMAIN outcomes[r] : outcomes[r][j] = "success"}}

Published == [r \in Request |-> IF r \in Answered THEN Successes(r) ELSE {}]

Refused == {r \in Request : Refusal(r) # 0}
Fit == {m \in Message : Body[m[1]][m[2]] = "good"}
Taken == {r \in Request : handler[r] # "new"}

Contract == INSTANCE PublishContract WITH
    phase <- Phase,
    taken <- Taken,
    answer <- status,
    published <- Published,
    stored <- delivered,
    cutShort <- shutdownError

\* The service implements PublishContract: whatever contexts, sends and main do
\* between them, a request is answered once, by an answer that never turns out
\* false, and nothing is stored of a request not taken, nor of what was refused.
ImplementsContract == Contract!Spec
=============================================================================
