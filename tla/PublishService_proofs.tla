------------------------ MODULE PublishService_proofs ------------------------
(***************************************************************************)
(* Theorems about PublishService, for any requests and bodies, either      *)
(* producer, and contexts, broker and shutdown doing what they may; and    *)
(* about MessageRules and Serializers, for any message.                    *)
(***************************************************************************)
EXTENDS PublishService, Serializers, TLAPS, FiniteSetTheorems

LEMMA MessageIs ==
    \A r, i : <<r, i>> \in Message <=> r \in Request /\ i \in DOMAIN Body[r]
BY DEF Message

LEMMA BodyIs ==
    ASSUME NEW r \in Request
    PROVE  /\ Body[r] \in Seq(Kinds) /\ Len(Body[r]) \in Nat
           /\ DOMAIN Body[r] = 1..Len(Body[r])
<1>1. Content[r] \in Seq(MessageRequest) /\ Len(Content[r]) \in Nat
  <2> HIDE DEF MessageRequest
  <2> QED BY PublishAssumption DEF PublishAssumption
<1>2. \A q : Kind(q) \in Kinds
    BY DEF Kind, Kinds, validateMessageRequest
<1>3. Body[r] = [i \in 1..Len(Content[r]) |-> Kind(Content[r][i])]
    BY <1>1 DEF Body
<1> HIDE DEF Kinds
<1> QED BY <1>1, <1>2, <1>3

\* A handler that waits is at a message of its request, and what a send has
\* reported to be stored is.
Progress ==
    /\ \A r \in Request :
        /\ handler[r] = "new" => outcomes[r] = <<>>
        /\ handler[r] = "waiting" => Len(outcomes[r]) < Len(Body[r])
    /\ \A m \in Message : sender[m] = "ok" => m \in delivered

LEMMA InitType == Init => TypeOK /\ Progress
<1> SUFFICES ASSUME Init PROVE TypeOK /\ Progress
    OBVIOUS
<1>1. /\ outcomes \in [Request -> Seq({"success", "failed"})]
      /\ \A r \in Request : outcomes[r] = <<>> /\ Len(outcomes[r]) <= Len(Body[r])
    BY BodyIs DEF Init
<1>2. TypeOK
    BY <1>1, ZenonT(40) DEF Init, TypeOK
<1> QED BY <1>1, <1>2 DEF Init, Progress

\* One more result, at a message of the request.
LEMMA OutcomeType ==
    ASSUME TypeOK, NEW r \in Request, NEW o \in {"success", "failed"}, Outcome(r, o),
           Len(outcomes[r]) < Len(Body[r])
    PROVE  /\ outcomes' \in [Request -> Seq({"success", "failed"})]
           /\ \A q \in Request : Len(outcomes'[q]) <= Len(Body[q])
           /\ handler' \in [Request -> {"new", "looping", "waiting", "answered"}]
           /\ handler'[r] = "looping" /\ outcomes'[r] = Append(outcomes[r], o)
           /\ \A q \in Request \ {r} : handler'[q] = handler[q] /\ outcomes'[q] = outcomes[q]
<1>1. /\ outcomes'[r] = Append(outcomes[r], o)
      /\ \A q \in Request \ {r} : outcomes'[q] = outcomes[q]
    BY DEF Outcome, TypeOK
<1>2. Append(outcomes[r], o) \in Seq({"success", "failed"})
      /\ Len(Append(outcomes[r], o)) = Len(outcomes[r]) + 1
    BY DEF TypeOK
<1>3. outcomes' \in [Request -> Seq({"success", "failed"})]
    BY <1>2 DEF Outcome, TypeOK
<1>4. /\ handler' \in [Request -> {"new", "looping", "waiting", "answered"}]
      /\ handler'[r] = "looping" /\ \A q \in Request \ {r} : handler'[q] = handler[q]
    BY DEF Outcome, TypeOK
<1>5. \A q \in Request : Len(outcomes'[q]) <= Len(Body[q])
  <2>1. Len(outcomes[r]) \in Nat /\ Len(Body[r]) \in Nat
    BY BodyIs DEF TypeOK
  <2>2. Len(outcomes'[r]) <= Len(Body[r])
    BY <1>1, <1>2, <2>1
  <2> QED BY <1>1, <2>2, ZenonT(40) DEF TypeOK
<1> QED BY <1>1, <1>3, <1>4, <1>5

LEMMA NextType == TypeOK /\ Progress /\ [Next]_vars => TypeOK' /\ Progress'
<1> SUFFICES ASSUME TypeOK, Progress, [Next]_vars PROVE TypeOK' /\ Progress'
    OBVIOUS
<1>l. \A r \in Request : Len(outcomes[r]) \in Nat /\ Len(Body[r]) \in Nat
    BY BodyIs DEF TypeOK
\* A handler that writes its answer.
<1>w. ASSUME NEW r \in Request, NEW code \in {201, 207, 400, 408, 413, 500}, Writes(r, code)
      PROVE  /\ status' \in [Request -> {0, 201, 207, 400, 408, 413, 500}]
             /\ handler' \in [Request -> {"new", "looping", "waiting", "answered"}]
             /\ handler'[r] = "answered" /\ \A q \in Request \ {r} : handler'[q] = handler[q]
    BY <1>w DEF Writes, TypeOK
\* A step of a handler that writes its answer, or adds a result, and no more.
<1>W. ASSUME NEW r \in Request, NEW code \in {201, 207, 400, 408, 413, 500}, Writes(r, code),
             UNCHANGED <<process, shutdown, ctx, outcomes, sender, delivered>>
      PROVE  TypeOK' /\ Progress'
    BY <1>w, <1>W DEF TypeOK, Progress, shutdown, process
\* A handler that has one more result.
<1>o. ASSUME NEW r \in Request, NEW o \in {"success", "failed"}, Outcome(r, o),
             InLoop(r) \/ handler[r] = "waiting"
      PROVE  /\ outcomes' \in [Request -> Seq({"success", "failed"})]
             /\ \A q \in Request : Len(outcomes'[q]) <= Len(Body[q])
             /\ handler' \in [Request -> {"new", "looping", "waiting", "answered"}]
             /\ handler'[r] = "looping"
             /\ \A q \in Request \ {r} : handler'[q] = handler[q] /\ outcomes'[q] = outcomes[q]
  <2>1. Len(outcomes[r]) < Len(Body[r])
    BY <1>l, <1>o DEF Progress, InLoop, At
  <2> QED BY <1>o, <2>1, OutcomeType
<1>1. ASSUME NEW r \in Request, Receive(r) PROVE TypeOK' /\ Progress'
  <2>1. CASE Refusal(r) # 0
    <3>1. Refusal(r) \in {400, 413} /\ Writes(r, Refusal(r))
      BY <1>1, <2>1 DEF Receive, Refusal
    <3> QED BY <1>1, <1>W, <3>1 DEF Receive
  <2>2. CASE Refusal(r) = 0
    <3>1. /\ handler' = [handler EXCEPT ![r] = "looping"]
          /\ UNCHANGED <<status, process, shutdown, ctx, outcomes, sender, delivered>>
      BY <1>1, <2>2 DEF Receive
    <3> QED BY <3>1 DEF TypeOK, Progress, shutdown, process
  <2> QED BY <2>1, <2>2
<1>2. ASSUME NEW r \in Request, RefuseMessage(r) PROVE TypeOK' /\ Progress'
    BY <1>2, <1>o DEF RefuseMessage, TypeOK, Progress, shutdown, process
<1>3. ASSUME NEW r \in Request, PublishMock(r) PROVE TypeOK' /\ Progress'
  <2>1. Current(r) \in Message
    BY <1>l, <1>3, MessageIs, BodyIs DEF PublishMock, InLoop, Current, At
  <2>2. delivered \subseteq delivered' /\ delivered' \subseteq Message
        /\ \E o \in {"success", "failed"} : Outcome(r, o)
    BY <1>3, <2>1 DEF PublishMock, TypeOK
  <2> QED BY <1>3, <1>o, <2>2 DEF PublishMock, TypeOK, Progress, shutdown, process
<1>4. ASSUME NEW r \in Request, PublishMessage(r) PROVE TypeOK' /\ Progress'
  <2>1. CASE closed
    BY <1>4, <1>o, <2>1 DEF PublishMessage, TypeOK, Progress, shutdown, process
  <2>2. CASE ~closed
    <3>1. /\ handler' = [handler EXCEPT ![r] = "waiting"]
          /\ sender' = [sender EXCEPT ![Current(r)] = "starting"]
          /\ UNCHANGED <<outcomes, process, shutdown, ctx, status, delivered>>
      BY <1>4, <2>2 DEF PublishMessage
    <3>2. Len(outcomes[r]) < Len(Body[r])
      BY <1>4, <1>l DEF PublishMessage, InLoop, At
    <3>3. TypeOK'
      BY <3>1, ZenonT(40) DEF TypeOK, shutdown, process
    <3>4. \A m \in Message : sender'[m] = "ok" => m \in delivered'
      BY <3>1 DEF TypeOK, Progress
    <3>5. \A q \in Request : /\ handler'[q] = "new" => outcomes'[q] = <<>>
                             /\ handler'[q] = "waiting" => Len(outcomes'[q]) < Len(Body[q])
      BY <3>1, <3>2 DEF TypeOK, Progress
    <3> QED BY <3>3, <3>4, <3>5 DEF Progress
  <2> QED BY <2>1, <2>2
<1>5. ASSUME NEW r \in Request, ReceiveResult(r) \/ ContextDone(r) PROVE TypeOK' /\ Progress'
  <2>1. PICK o \in {"success", "failed"} : handler[r] = "waiting" /\ Outcome(r, o)
    BY <1>5 DEF ReceiveResult, ContextDone
  <2>2. UNCHANGED <<process, shutdown, ctx, status, sender, delivered>>
    BY <1>5 DEF ReceiveResult, ContextDone
  <2>3. /\ outcomes' \in [Request -> Seq({"success", "failed"})]
        /\ \A q \in Request : Len(outcomes'[q]) <= Len(Body[q])
        /\ handler' \in [Request -> {"new", "looping", "waiting", "answered"}]
        /\ handler'[r] = "looping"
        /\ \A q \in Request \ {r} : handler'[q] = handler[q] /\ outcomes'[q] = outcomes[q]
    BY <1>o, <2>1
  <2> QED BY <2>2, <2>3 DEF TypeOK, Progress, shutdown, process
<1>6. ASSUME NEW r \in Request, Respond(r) PROVE TypeOK' /\ Progress'
  <2>1. \E code \in {201, 207, 400, 408, 413, 500} : Writes(r, code)
    BY <1>6 DEF Respond, SingleStatus, BatchStatus
  <2> QED BY <1>6, <1>W, <2>1 DEF Respond
<1>7. ASSUME NEW r \in Request, EndContext(r) PROVE TypeOK' /\ Progress'
    BY <1>7 DEF EndContext, TypeOK, Progress, shutdown, process
<1>8. ASSUME NEW m \in Message, SendMessage(m) PROVE TypeOK' /\ Progress'
    BY <1>8 DEF SendMessage, TypeOK, Progress, handlers, process
<1>9. ASSUME NEW m \in Message, SendReturns(m) PROVE TypeOK' /\ Progress'
    BY <1>9 DEF SendReturns, TypeOK, Progress, handlers, process, shutdown
<1>10. ASSUME Signal \/ TimeoutExpires \/ MainStep PROVE TypeOK' /\ Progress'
  <2> USE DEF TypeOK, Progress, handlers, process
  <2>1. CASE Signal
    BY <2>1 DEF Signal
  <2>2. CASE TimeoutExpires
    BY <2>2 DEF TimeoutExpires
  <2>3. CASE Shutdown
    BY <2>3, ZenonT(40) DEF Shutdown
  <2>4. CASE Close
    BY <2>4 DEF Close
  <2>5. CASE CloseReturns \/ Exit
    BY <2>5 DEF CloseReturns, Exit
  <2> QED BY <1>10, <2>1, <2>2, <2>3, <2>4, <2>5 DEF MainStep
<1>11. ASSUME UNCHANGED vars PROVE TypeOK' /\ Progress'
    BY <1>11 DEF vars, TypeOK, Progress, handlers, process, shutdown
<1> QED BY <1>1, <1>2, <1>3, <1>4, <1>5, <1>6, <1>7, <1>8, <1>9, <1>10, <1>11
        DEF Next, HandlerStep, SenderStep

\* The service's state is well typed for any requests; in particular no request
\* has more results than messages, so indexing results in the loop is safe.
THEOREM TypeCorrect == Spec => []TypeOK
BY InitType, NextType, PTL DEF Spec

LEMMA ProgressCorrect == Spec => [](TypeOK /\ Progress)
BY InitType, NextType, PTL DEF Spec

-----------------------------------------------------------------------------
LEMMA DeliveredStep == TypeOK /\ Progress /\ SuccessIsDelivered /\ [Next]_vars => SuccessIsDelivered'
<1> SUFFICES ASSUME TypeOK, Progress, SuccessIsDelivered, [Next]_vars PROVE SuccessIsDelivered'
    OBVIOUS
\* The broker keeps what it has, so only a new result can be wrong.
<1>o. ASSUME NEW r \in Request, NEW o \in {"success", "failed"}, Outcome(r, o),
             delivered \subseteq delivered', o = "success" => Current(r) \in delivered'
      PROVE  SuccessIsDelivered'
  <2> SUFFICES ASSUME NEW q \in Request, NEW i \in DOMAIN outcomes'[q], outcomes'[q][i] = "success"
               PROVE  <<q, i>> \in delivered'
    BY DEF SuccessIsDelivered
  <2>1. CASE q # r
    <3>1. outcomes'[q] = outcomes[q]
      BY <1>o, <2>1 DEF Outcome, TypeOK
    <3> QED BY <1>o, <3>1 DEF SuccessIsDelivered
  <2>2. CASE q = r
    <3>1. outcomes[r] \in Seq({"success", "failed"}) /\ outcomes'[r] = Append(outcomes[r], o)
      BY <1>o DEF Outcome, TypeOK
    <3>2. CASE i = Len(outcomes[r]) + 1
      <4>1. o = "success"
        BY <2>2, <3>1, <3>2
      <4> QED BY <1>o, <2>2, <3>2, <4>1 DEF Current, At
    <3>3. CASE i # Len(outcomes[r]) + 1
      <4>1. i \in DOMAIN outcomes[r] /\ outcomes[r][i] = "success"
        BY <2>2, <3>1, <3>3
      <4> QED BY <1>o, <2>2, <4>1 DEF SuccessIsDelivered
    <3> QED BY <3>2, <3>3
  <2> QED BY <2>1, <2>2
<1>u. ASSUME UNCHANGED outcomes, delivered \subseteq delivered' PROVE SuccessIsDelivered'
    BY <1>u DEF SuccessIsDelivered
<1>1. ASSUME NEW r \in Request, Receive(r) \/ Respond(r) \/ EndContext(r) PROVE SuccessIsDelivered'
    BY <1>1, <1>u DEF Receive, Respond, EndContext
<1>2. ASSUME NEW r \in Request, RefuseMessage(r) PROVE SuccessIsDelivered'
    BY <1>2, <1>o DEF RefuseMessage
<1>3. ASSUME NEW r \in Request, PublishMock(r) PROVE SuccessIsDelivered'
    BY <1>3, <1>o DEF PublishMock
<1>4. ASSUME NEW r \in Request, PublishMessage(r) PROVE SuccessIsDelivered'
    BY <1>4, <1>o, <1>u DEF PublishMessage
<1>5. ASSUME NEW r \in Request, ReceiveResult(r) PROVE SuccessIsDelivered'
  <2>1. CASE sender[Current(r)] = "ok" /\ Outcome(r, "success")
    <3>1. Current(r) \in Message
      <4>1. handler[r] = "waiting" /\ Len(outcomes[r]) \in Nat /\ Len(Body[r]) \in Nat
        BY <1>5, BodyIs DEF ReceiveResult, TypeOK
      <4>2. At(r) \in 1..Len(Body[r])
        BY <4>1 DEF At, Progress
      <4> QED BY <4>2, BodyIs, MessageIs DEF Current
    <3> QED BY <1>5, <1>o, <2>1, <3>1 DEF ReceiveResult, Progress
  <2>2. CASE Outcome(r, "failed")
    BY <1>5, <1>o, <2>2 DEF ReceiveResult
  <2> QED BY <1>5, <2>1, <2>2 DEF ReceiveResult
<1>6. ASSUME NEW r \in Request, ContextDone(r) PROVE SuccessIsDelivered'
    BY <1>6, <1>o DEF ContextDone
<1>7. ASSUME NEW m \in Message, SendMessage(m) \/ SendReturns(m) PROVE SuccessIsDelivered'
    BY <1>7, <1>u DEF SendMessage, SendReturns, handlers
<1>8. ASSUME Signal \/ TimeoutExpires \/ MainStep \/ UNCHANGED vars PROVE SuccessIsDelivered'
    BY <1>8, <1>u DEF Signal, TimeoutExpires, MainStep, Shutdown, Close, CloseReturns, Exit,
                      handlers, vars
<1> QED BY <1>1, <1>2, <1>3, <1>4, <1>5, <1>6, <1>7, <1>8 DEF Next, HandlerStep, SenderStep

LEMMA InitDelivered == Init => SuccessIsDelivered
BY DEF Init, SuccessIsDelivered

\* No client is ever told that a message was published which the broker does
\* not have, for any requests, with either producer, whatever the contexts, the
\* broker and the shutdown do.
THEOREM PublishedIsDelivered == Spec => []SuccessIsDelivered
BY InitDelivered, DeliveredStep, ProgressCorrect, PTL DEF Spec

-----------------------------------------------------------------------------
\* The strengthening of DrainedBeforeClose: the drain is over when main leaves
\* it, and the producer is closed only after that.
ShutdownInv ==
    /\ closed => main \notin {"serving", "draining"}
    /\ main \notin {"serving", "draining"} /\ ~shutdownError => Active = {}

LEMMA ShutdownStep == TypeOK /\ ShutdownInv /\ [Next]_vars => ShutdownInv'
<1> SUFFICES ASSUME TypeOK, ShutdownInv, [Next]_vars PROVE ShutdownInv'
    OBVIOUS
<1> USE DEF ShutdownInv, Active
\* A handler whose request is taken is active; so after the drain none runs.
<1>1. ASSUME NEW r \in Request, HandlerStep(r) \/ EndContext(r) PROVE ShutdownInv'
  <2>1. UNCHANGED shutdown
    BY <1>1 DEF HandlerStep, EndContext, Receive, RefuseMessage, PublishMock, PublishMessage,
                ReceiveResult, ContextDone, Respond
  <2>2. r \in Active \/ main = "serving"
    BY <1>1 DEF HandlerStep, EndContext, Receive, RefuseMessage, PublishMock, PublishMessage,
                ReceiveResult, ContextDone, Respond, InLoop
  <2> QED BY <2>1, <2>2 DEF shutdown
<1>2. ASSUME NEW m \in Message, SenderStep(m) PROVE ShutdownInv'
    BY <1>2 DEF SenderStep, SendMessage, SendReturns, handlers, shutdown
<1>3. ASSUME Signal \/ TimeoutExpires \/ MainStep PROVE ShutdownInv'
    BY <1>3 DEF Signal, TimeoutExpires, MainStep, Shutdown, Close, CloseReturns, Exit, handlers
<1>4. ASSUME UNCHANGED vars PROVE ShutdownInv'
    BY <1>4 DEF vars, handlers, shutdown
<1> QED BY <1>1, <1>2, <1>3, <1>4 DEF Next

\* The producer is closed only after every request taken has been answered, for
\* any requests, as long as the drain was not cut short.
THEOREM ClosedAfterDrain == Spec => []DrainedBeforeClose
<1>1. Init => ShutdownInv
    BY DEF Init, ShutdownInv
<1>2. ShutdownInv => DrainedBeforeClose
    BY DEF ShutdownInv, DrainedBeforeClose
<1> QED BY <1>1, <1>2, ShutdownStep, TypeCorrect, PTL DEF Spec

-----------------------------------------------------------------------------
\* The strengthening of StatusTellsOutcome: a refused request is answered at
\* once and sends nothing; another is answered when each message has a result,
\* and its status is read off the results.
StatusInv ==
    /\ \A r \in Request : Refusal(r) # 0 =>
        /\ handler[r] \in {"new", "answered"} /\ status[r] \notin {201, 207}
        /\ \A m \in MessagesOf(r) : sender[m] = "none" /\ m \notin delivered
    /\ \A r \in Answered : Refusal(r) = 0 =>
        /\ DOMAIN outcomes[r] = DOMAIN Body[r]
        /\ status[r] = 201 => "failed" \notin Range(outcomes[r])
        /\ status[r] = 207 => {"success", "failed"} \subseteq Range(outcomes[r])

\* A count of zero says that there is no such result.
LEMMA NoneCounted ==
    ASSUME TypeOK, NEW r \in Request, NEW o
    PROVE  Count(r, o) = 0 <=> o \notin Range(outcomes[r])
<1> DEFINE S == {i \in DOMAIN outcomes[r] : outcomes[r][i] = o}
<1>1. Len(outcomes[r]) \in Nat /\ DOMAIN outcomes[r] = 1..Len(outcomes[r])
    BY DEF TypeOK
<1>2. IsFiniteSet(1..Len(outcomes[r]))
    BY <1>1, FS_Interval
<1>3. S \subseteq 1..Len(outcomes[r])
    BY <1>1
<1>4. IsFiniteSet(S)
    BY <1>2, <1>3, FS_Subset
<1>5. Cardinality(S) = 0 <=> S = {}
    BY <1>4, FS_EmptySet
<1> QED BY <1>5 DEF Count, Range

LEMMA StatusStep == TypeOK /\ Progress /\ StatusInv /\ [Next]_vars => StatusInv'
<1> SUFFICES ASSUME TypeOK, Progress, StatusInv, [Next]_vars PROVE StatusInv'
    OBVIOUS
\* The refused requests do not move, nor do their messages.
<1>k. ASSUME NEW r \in Request, Refusal(r) = 0, UNCHANGED status, handler'[r] # "answered",
             \A q \in Request \ {r} : handler'[q] = handler[q] /\ outcomes'[q] = outcomes[q],
             \A m \in Message : m[1] # r => /\ sender'[m] = sender[m]
                                            /\ m \in delivered' => m \in delivered
      PROVE  StatusInv'
    BY <1>k DEF StatusInv, Answered, MessagesOf, Refusal, Faults
\* A handler in its loop is not the handler of a refused request.
<1>h. \A r \in Request : handler[r] \in {"looping", "waiting"} => Refusal(r) = 0
    BY DEF StatusInv
<1>c. \A r \in Request : \A m \in Message : m[1] # r => m # Current(r)
    BY DEF Current
<1>1. ASSUME NEW r \in Request, Receive(r) PROVE StatusInv'
  <2>1. CASE Refusal(r) # 0
    <3>1. /\ handler' = [handler EXCEPT ![r] = "answered"]
          /\ status' = [status EXCEPT ![r] = Refusal(r)] /\ Refusal(r) \in {400, 413}
          /\ UNCHANGED <<outcomes, sender, delivered>>
      BY <1>1, <2>1 DEF Receive, Refusal, Writes
    <3> QED BY <2>1, <3>1 DEF TypeOK, StatusInv, Answered
  <2>2. CASE Refusal(r) = 0
    <3>1. handler' = [handler EXCEPT ![r] = "looping"]
          /\ UNCHANGED <<status, outcomes, sender, delivered>>
      BY <1>1, <2>2 DEF Receive
    <3> QED BY <1>k, <2>2, <3>1 DEF TypeOK
  <2> QED BY <2>1, <2>2
<1>2. ASSUME NEW r \in Request,
             RefuseMessage(r) \/ PublishMock(r) \/ PublishMessage(r) \/ ReceiveResult(r)
               \/ ContextDone(r)
      PROVE  StatusInv'
  <2>1. Refusal(r) = 0
    BY <1>2, <1>h DEF RefuseMessage, PublishMock, PublishMessage, ReceiveResult, ContextDone, InLoop
  <2>2. UNCHANGED status
    BY <1>2 DEF RefuseMessage, PublishMock, PublishMessage, ReceiveResult, ContextDone
  <2>3. /\ handler'[r] # "answered"
        /\ \A q \in Request \ {r} : handler'[q] = handler[q] /\ outcomes'[q] = outcomes[q]
    BY <1>2 DEF RefuseMessage, PublishMock, PublishMessage, ReceiveResult, ContextDone, Outcome,
                TypeOK
  <2>4. \A m \in Message : m[1] # r => /\ sender'[m] = sender[m]
                                       /\ m \in delivered' => m \in delivered
    BY <1>2, <1>c DEF RefuseMessage, PublishMock, PublishMessage, ReceiveResult, ContextDone, TypeOK
  <2> QED BY <1>k, <2>1, <2>2, <2>3, <2>4
<1>3. ASSUME NEW r \in Request, Respond(r) PROVE StatusInv'
  <2>1. Refusal(r) = 0
    BY <1>3, <1>h DEF Respond
  <2>2. DOMAIN outcomes[r] = DOMAIN Body[r]
    <3>1. /\ Len(outcomes[r]) \in Nat /\ Len(Body[r]) \in Nat
          /\ DOMAIN outcomes[r] = 1..Len(outcomes[r]) /\ DOMAIN Body[r] = 1..Len(Body[r])
          /\ Len(outcomes[r]) <= Len(Body[r])
      BY BodyIs DEF TypeOK
    <3> QED BY <1>3, <3>1 DEF Respond, At
  <2> DEFINE code == IF r \in Single THEN SingleStatus(r) ELSE BatchStatus(r)
  <2>3. code = 201 => "failed" \notin Range(outcomes[r])
    BY NoneCounted DEF SingleStatus, BatchStatus
  <2>4. code = 207 => {"success", "failed"} \subseteq Range(outcomes[r])
    BY NoneCounted DEF SingleStatus, BatchStatus
  <2>5. /\ handler' = [handler EXCEPT ![r] = "answered"]
        /\ status' = [status EXCEPT ![r] = code]
        /\ UNCHANGED <<outcomes, sender, delivered>>
    BY <1>3 DEF Respond, Writes
  <2> HIDE DEF code
  <2> QED BY <2>1, <2>2, <2>3, <2>4, <2>5 DEF TypeOK, StatusInv, Answered
<1>4. ASSUME NEW r \in Request, EndContext(r) PROVE StatusInv'
    BY <1>4 DEF EndContext, StatusInv, Answered
\* A send of a refused request was never started.
<1>5. ASSUME NEW m \in Message, SendMessage(m) \/ SendReturns(m) PROVE StatusInv'
  <2>1. UNCHANGED handlers /\ sender[m] # "none"
    BY <1>5 DEF SendMessage, SendReturns
  <2>2. \A n \in Message : n # m => sender'[n] = sender[n] /\ (n \in delivered' => n \in delivered)
    BY <1>5 DEF SendMessage, SendReturns, TypeOK
  <2> QED BY <2>1, <2>2 DEF StatusInv, Answered, MessagesOf, handlers
<1>6. ASSUME Signal \/ TimeoutExpires \/ MainStep \/ UNCHANGED vars PROVE StatusInv'
    BY <1>6 DEF Signal, TimeoutExpires, MainStep, Shutdown, Close, CloseReturns, Exit, handlers,
                vars, StatusInv, Answered
<1> QED BY <1>1, <1>2, <1>3, <1>4, <1>5, <1>6 DEF Next, HandlerStep, SenderStep

LEMMA InitStatus == Init => StatusInv
<1> SUFFICES ASSUME Init PROVE StatusInv
    OBVIOUS
<1>1. \A m \in Message : sender[m] = "none" /\ m \notin delivered
    BY DEF Init
<1>2. \A r \in Request : handler[r] = "new" /\ status[r] = 0
    BY DEF Init
<1> QED BY <1>1, <1>2 DEF StatusInv, Answered, MessagesOf

\* The HTTP status never claims more, or denies more, than what became of the
\* request's messages, for requests of any length and any mix of messages.
THEOREM StatusIsHonest == Spec => []StatusTellsOutcome
<1>1. Init => StatusInv
    BY InitStatus
<1>2. TypeOK /\ SuccessIsDelivered /\ StatusInv => StatusTellsOutcome
  <2> SUFFICES ASSUME TypeOK, SuccessIsDelivered, StatusInv, NEW r \in Answered
               PROVE  /\ status[r] = 201 => MessagesOf(r) \subseteq delivered
                      /\ status[r] = 207 => /\ MessagesOf(r) \cap delivered # {}
                                            /\ Len(outcomes[r]) = Len(Body[r])
                                            /\ "failed" \in Range(outcomes[r])
                      /\ Refusal(r) # 0 => \A m \in MessagesOf(r) :
                                              sender[m] = "none" /\ m \notin delivered
    BY DEF StatusTellsOutcome
  <2>0. r \in Request
    BY DEF Answered
  <2>1. CASE Refusal(r) # 0
    BY <2>0, <2>1 DEF StatusInv
  <2>2. CASE Refusal(r) = 0
    <3>1. /\ DOMAIN outcomes[r] = DOMAIN Body[r]
          /\ status[r] = 201 => "failed" \notin Range(outcomes[r])
          /\ status[r] = 207 => {"success", "failed"} \subseteq Range(outcomes[r])
      BY <2>2 DEF StatusInv
    <3>2. \A i \in DOMAIN Body[r] : <<r, i>> \in Message /\ <<r, i>> \in MessagesOf(r)
      BY <2>0, MessageIs DEF MessagesOf
    <3>3. \A i \in DOMAIN outcomes[r] : outcomes[r][i] \in {"success", "failed"}
      BY <2>0 DEF TypeOK
    <3>4. ASSUME status[r] = 201 PROVE MessagesOf(r) \subseteq delivered
      <4>1. \A i \in DOMAIN Body[r] : <<r, i>> \in delivered
        BY <2>0, <3>1, <3>3, <3>4 DEF SuccessIsDelivered, Range
      <4>2. \A m \in MessagesOf(r) : \E i \in DOMAIN Body[r] : m = <<r, i>>
        BY DEF MessagesOf, Message
      <4> QED BY <4>1, <4>2
    <3>5. ASSUME status[r] = 207 PROVE MessagesOf(r) \cap delivered # {}
      <4>1. PICK i \in DOMAIN outcomes[r] : outcomes[r][i] = "success"
        BY <3>1, <3>5 DEF Range
      <4> QED BY <2>0, <3>1, <3>2, <4>1 DEF SuccessIsDelivered
    <3>6. Len(outcomes[r]) = Len(Body[r])
      <4>1. /\ Len(outcomes[r]) \in Nat /\ Len(Body[r]) \in Nat
            /\ DOMAIN outcomes[r] = 1..Len(outcomes[r]) /\ DOMAIN Body[r] = 1..Len(Body[r])
            /\ Len(outcomes[r]) <= Len(Body[r])
        BY <2>0, BodyIs DEF TypeOK
      <4>2. Len(Body[r]) \in 1..Len(Body[r]) => Len(Body[r]) \in 1..Len(outcomes[r])
        BY <3>1, <4>1
      <4> QED BY <4>1, <4>2
    <3> QED BY <2>2, <3>1, <3>4, <3>5, <3>6
  <2> QED BY <2>1, <2>2
<1> QED BY <1>1, <1>2, StatusStep, ProgressCorrect, PublishedIsDelivered, PTL DEF Spec
-----------------------------------------------------------------------------
(* The service implements PublishContract.                                 *)

\* An answer is what writes a status, a send is of a message that is fit and
\* whose request was taken, and only the end of the drain can cut it short.
ContractInv ==
    /\ \A r \in Request : handler[r] = "answered" <=> status[r] # 0
    /\ \A m \in Message : sender[m] # "none" => m \in Fit /\ m[1] \in Taken
    /\ main \in {"serving", "draining"} => ~shutdownError

LEMMA CurrentIs ==
    ASSUME TypeOK, Progress, NEW r \in Request, InLoop(r) \/ handler[r] = "waiting"
    PROVE  Current(r) \in Message /\ Current(r)[1] = r /\ Current(r)[2] = At(r)
<1>1. Len(outcomes[r]) \in Nat /\ Len(Body[r]) \in Nat
    BY BodyIs DEF TypeOK
<1>2. At(r) \in 1..Len(Body[r])
    BY <1>1 DEF InLoop, At, Progress
<1> QED BY <1>2, BodyIs, MessageIs DEF Current

LEMMA InitContract == Init => ContractInv
BY DEF Init, ContractInv

LEMMA ContractInvStep == TypeOK /\ Progress /\ ContractInv /\ [Next]_vars => ContractInv'
<1> SUFFICES ASSUME TypeOK, Progress, ContractInv, [Next]_vars PROVE ContractInv'
    OBVIOUS
\* A handler that answers, with a status.
<1>w. ASSUME NEW r \in Request, NEW code, code # 0, Writes(r, code),
             UNCHANGED <<sender, shutdown>>
      PROVE  ContractInv'
    BY <1>w DEF Writes, TypeOK, ContractInv, Taken, shutdown
\* A handler that goes on, without one.
<1>g. ASSUME NEW r \in Request, handler[r] # "answered", UNCHANGED status,
             NEW h \in {"looping", "waiting"}, handler' = [handler EXCEPT ![r] = h],
             UNCHANGED shutdown,
             \A m \in Message : sender'[m] # "none" =>
                sender[m] # "none" \/ (m \in Fit /\ m[1] = r)
      PROVE  ContractInv'
    BY <1>g DEF TypeOK, ContractInv, Taken, shutdown
<1>1. ASSUME NEW r \in Request, Receive(r) PROVE ContractInv'
  <2>1. CASE Refusal(r) # 0
    BY <1>1, <1>w, <2>1 DEF Receive
  <2>2. CASE Refusal(r) = 0
    BY <1>1, <1>g, <2>2 DEF Receive
  <2> QED BY <2>1, <2>2
<1>2. ASSUME NEW r \in Request,
             RefuseMessage(r) \/ PublishMock(r) \/ ReceiveResult(r) \/ ContextDone(r)
      PROVE  ContractInv'
  <2>1. handler[r] # "answered" /\ handler' = [handler EXCEPT ![r] = "looping"]
        /\ UNCHANGED <<status, sender, shutdown>>
    BY <1>2 DEF RefuseMessage, PublishMock, ReceiveResult, ContextDone, InLoop, Outcome
  <2> QED BY <1>g, <2>1
<1>3. ASSUME NEW r \in Request, PublishMessage(r) PROVE ContractInv'
  <2>1. handler[r] = "looping" /\ UNCHANGED <<status, shutdown>>
    BY <1>3 DEF PublishMessage, InLoop
  <2>2. CASE closed
    BY <1>3, <1>g, <2>1, <2>2 DEF PublishMessage, Outcome
  <2>3. CASE ~closed
    <3>1. handler' = [handler EXCEPT ![r] = "waiting"]
          /\ sender' = [sender EXCEPT ![Current(r)] = "starting"]
      BY <1>3, <2>3 DEF PublishMessage
    <3>2. Current(r) \in Fit /\ Current(r)[1] = r
      BY <1>3, CurrentIs DEF PublishMessage, Fit
    <3>3. \A m \in Message : sender'[m] # "none" =>
              sender[m] # "none" \/ (m \in Fit /\ m[1] = r)
      BY <3>1, <3>2 DEF TypeOK
    <3> QED BY <1>g, <2>1, <3>1, <3>3
  <2> QED BY <2>2, <2>3
<1>4. ASSUME NEW r \in Request, Respond(r) PROVE ContractInv'
  <2>1. \E code : code # 0 /\ Writes(r, code)
    BY <1>4 DEF Respond, SingleStatus, BatchStatus
  <2> QED BY <1>4, <1>w, <2>1 DEF Respond
<1>5. ASSUME NEW m \in Message, SendMessage(m) \/ SendReturns(m) PROVE ContractInv'
  <2>1. UNCHANGED handlers /\ sender[m] # "none"
        /\ \A n \in Message : n # m => sender'[n] = sender[n]
    BY <1>5 DEF SendMessage, SendReturns, TypeOK
  <2>2. shutdownError' = shutdownError /\ (main' = main \/ main' = "exited")
    BY <1>5 DEF SendMessage, SendReturns, shutdown
  <2> QED BY <2>1, <2>2 DEF handlers, ContractInv, Taken
<1>6. ASSUME UNCHANGED <<handler, status, sender>>,
             main' \in {"serving", "draining"} =>
                main \in {"serving", "draining"} /\ shutdownError' = shutdownError
      PROVE  ContractInv'
    BY <1>6 DEF ContractInv, Taken
<1>7. ASSUME NEW r \in Request, EndContext(r) PROVE ContractInv'
    BY <1>6, <1>7 DEF EndContext, shutdown
<1>8. ASSUME Signal \/ TimeoutExpires \/ MainStep \/ UNCHANGED vars PROVE ContractInv'
    BY <1>6, <1>8 DEF Signal, TimeoutExpires, MainStep, Shutdown, Close, CloseReturns, Exit, vars,
                      handlers, shutdown
<1> QED BY <1>1, <1>2, <1>3, <1>4, <1>5, <1>7, <1>8 DEF Next, HandlerStep, SenderStep

LEMMA AlwaysContractInv ==
    Spec => [](TypeOK /\ Progress /\ SuccessIsDelivered /\ StatusInv /\ ContractInv)
<1>1. Init => StatusInv
    BY InitStatus
<1> QED BY <1>1, InitType, NextType, InitDelivered, DeliveredStep, StatusStep, InitContract,
           ContractInvStep, PTL DEF Spec

\* What a step that answers no request leaves as it is.
LEMMA NothingNamed ==
    ASSUME TypeOK, NEW r \in Request, handler[r] # "answered", handler'[r] # "answered",
           \A q \in Request \ {r} : handler'[q] = handler[q] /\ outcomes'[q] = outcomes[q]
    PROVE  /\ Published' = Published
           /\ handler[r] # "new" /\ handler'[r] # "new" => Taken' = Taken
<1>1. \A q \in Request : Published'[q] = Published[q]
    BY DEF Published, Answered, Successes
<1>2. Published' = Published
    BY <1>1 DEF Published
<1> QED BY <1>2 DEF Taken

\* What the messages and results of a request that ends its loop say together.
LEMMA SuccessesAre ==
    ASSUME TypeOK, SuccessIsDelivered, NEW r \in Request, DOMAIN outcomes[r] = DOMAIN Body[r]
    PROVE  /\ Successes(r) \subseteq MessagesOf(r) \cap delivered
           /\ Successes(r) = MessagesOf(r) <=> "failed" \notin Range(outcomes[r])
           /\ Successes(r) = {} <=> "success" \notin Range(outcomes[r])
<1>1. \A i \in DOMAIN outcomes[r] : outcomes[r][i] \in {"success", "failed"}
    BY DEF TypeOK
<1>2. \A i \in DOMAIN outcomes[r] : <<r, i>> \in MessagesOf(r)
    BY MessageIs DEF MessagesOf
<1>3. \A m \in MessagesOf(r) : \E i \in DOMAIN outcomes[r] : m = <<r, i>>
    BY DEF MessagesOf, Message
<1>4. \A i \in DOMAIN outcomes[r] : <<r, i>> \in Successes(r) <=> outcomes[r][i] = "success"
    BY DEF Successes
<1>5. Successes(r) \subseteq MessagesOf(r) \cap delivered
    BY <1>2 DEF Successes, SuccessIsDelivered
<1>6. Successes(r) = MessagesOf(r) <=> \A i \in DOMAIN outcomes[r] : outcomes[r][i] = "success"
    BY <1>2, <1>3, <1>4, <1>5
<1>7. Successes(r) = {} <=> \A i \in DOMAIN outcomes[r] : outcomes[r][i] # "success"
    BY DEF Successes
<1> QED BY <1>1, <1>5, <1>6, <1>7 DEF Range

LEMMA EmptySeqIs == \A S : \A s \in Seq(S) : Len(s) = 0 => s = <<>>
OBVIOUS

\* Answering at the end of the loop is the contract's answer.
LEMMA RespondAnswers ==
    ASSUME TypeOK, Progress, SuccessIsDelivered, StatusInv, ContractInv,
           NEW r \in Request, Respond(r)
    PROVE  Contract!Answer(r)
<1> DEFINE code == IF r \in Single THEN SingleStatus(r) ELSE BatchStatus(r)
<1>1. handler[r] = "looping" /\ Refusal(r) = 0 /\ Phase # "over"
    BY DEF Respond, StatusInv, Alive, Phase
<1>2. DOMAIN outcomes[r] = DOMAIN Body[r] /\ DOMAIN Body[r] # {}
  <2>1. /\ Len(outcomes[r]) \in Nat /\ Len(Body[r]) \in Nat
        /\ DOMAIN outcomes[r] = 1..Len(outcomes[r]) /\ DOMAIN Body[r] = 1..Len(Body[r])
        /\ Len(outcomes[r]) <= Len(Body[r])
    BY BodyIs DEF TypeOK
  <2>2. Len(Body[r]) # 0
    <3>1. ASSUME r \in Single PROVE Len(Body[r]) = 1
      <4>1. Body[r] = [i \in 1..Len(Content[r]) |-> Kind(Content[r][i])] /\ Len(Content[r]) = 1
        BY <3>1, PublishAssumption DEF PublishAssumption, Body
      <4> QED BY <4>1
    <3>2. r \notin Single => Body[r] # <<>>
      BY <1>1 DEF Refusal
    <3>3. Len(Body[r]) = 0 => Body[r] = <<>>
      <4> HIDE DEF Body
      <4> QED BY BodyIs, EmptySeqIs
    <3> QED BY <3>1, <3>2, <3>3
  <2> QED BY <2>1, <2>2 DEF Respond, At
<1>3. r \in Contract!Unanswered \ Refused
    BY <1>1 DEF Contract!Unanswered, Taken, Refused, ContractInv
<1>4. Contract!MessagesOf(r) = MessagesOf(r)
    BY DEF Contract!MessagesOf, MessagesOf
<1>5. Successes(r) \in SUBSET Contract!MessagesOf(r) /\ Successes(r) \subseteq delivered
    BY <1>2, <1>4, SuccessesAre
<1>6. code \in {201, 207, 400, 408, 500}
    BY DEF SingleStatus, BatchStatus
<1>7. Contract!Says(r, code, Successes(r))
  <2>1. "success" \notin Range(outcomes[r]) => "failed" \in Range(outcomes[r])
    <3>1. \E i \in DOMAIN outcomes[r] : outcomes[r][i] \in {"success", "failed"}
      BY <1>2 DEF TypeOK
    <3> QED BY <3>1 DEF Range
  <2>2. r \in Single => ~({"failed", "success"} \subseteq Range(outcomes[r]))
    <3>1. ASSUME r \in Single PROVE DOMAIN outcomes[r] = {1}
      <4>1. Body[r] = [i \in DOMAIN Content[r] |-> Kind(Content[r][i])] /\ Len(Content[r]) = 1
        BY <3>1, PublishAssumption DEF PublishAssumption, Body
      <4>2. DOMAIN Content[r] = 1..1
        BY <4>1, PublishAssumption DEF PublishAssumption
      <4> QED BY <1>2, <4>1, <4>2
    <3> QED BY <3>1 DEF Range
  <2>3. code = 201 <=> "failed" \notin Range(outcomes[r])
    BY NoneCounted DEF SingleStatus, BatchStatus
  <2>4. code = 207 <=> r \notin Single /\ "failed" \in Range(outcomes[r])
                                       /\ "success" \in Range(outcomes[r])
    BY NoneCounted DEF SingleStatus, BatchStatus
  <2> HIDE DEF code
  <2> QED BY <1>2, <1>4, <1>5, <2>1, <2>2, <2>3, <2>4, SuccessesAre DEF Contract!Says
<1>8. handler' = [handler EXCEPT ![r] = "answered"] /\ status' = [status EXCEPT ![r] = code]
      /\ UNCHANGED <<process, shutdown, ctx, outcomes, sender, delivered>>
    BY DEF Respond, Writes
<1>9. Published' = [Published EXCEPT ![r] = Successes(r)]
  <2>1. Published'[r] = Successes(r)
    BY <1>8 DEF Published, Answered, Successes, TypeOK
  <2>2. \A q \in Request \ {r} : Published'[q] = Published[q]
    BY <1>8 DEF Published, Answered, Successes, TypeOK
  <2>3. Published = [q \in Request |-> Published[q]] /\ Published' = [q \in Request |-> Published'[q]]
    BY DEF Published
  <2> QED BY <2>1, <2>2, <2>3
<1>10. Taken' = Taken /\ Phase' = Phase /\ shutdownError' = shutdownError
    BY <1>1, <1>8 DEF Taken, Phase, shutdown, TypeOK
<1> HIDE DEF code
<1>11. Contract!Writes(r, code, Successes(r))
    BY <1>8, <1>9 DEF Contract!Writes
<1>12. \E c \in {201, 207, 400, 408, 500} : \E S \in SUBSET Contract!MessagesOf(r) :
          Contract!Says(r, c, S) /\ Contract!Writes(r, c, S)
    BY <1>5, <1>6, <1>7, <1>11
<1> QED BY <1>1, <1>3, <1>8, <1>10, <1>12, Zenon DEF Contract!Answer

LEMMA ServiceStep ==
    TypeOK /\ Progress /\ SuccessIsDelivered /\ StatusInv /\ ContractInv /\ [Next]_vars
        => [Contract!Next]_(Contract!vars)
<1> SUFFICES ASSUME TypeOK, Progress, SuccessIsDelivered, StatusInv, ContractInv, [Next]_vars
             PROVE  Contract!Next \/ UNCHANGED Contract!vars
    OBVIOUS
<1>a. \A r \in Request : handler[r] \in {"looping", "waiting"} => r \in Taken \ Refused
    BY DEF StatusInv, Taken, Refused
\* A step that changes nothing a client can tell.
<1>u. ASSUME UNCHANGED <<Phase, Taken, status, Published, delivered, shutdownError>>
      PROVE  UNCHANGED Contract!vars
    BY <1>u DEF Contract!vars
<1>1. ASSUME NEW r \in Request, Receive(r) PROVE Contract!Next
  <2>1. /\ handler[r] = "new" /\ main = "serving" /\ Phase = "open" /\ r \notin Taken
        /\ UNCHANGED <<Phase, delivered, shutdownError, outcomes>>
    BY <1>1 DEF Receive, Phase, shutdown, Taken
  <2>2. CASE Refusal(r) # 0
    <3>1. handler' = [handler EXCEPT ![r] = "answered"]
          /\ status' = [status EXCEPT ![r] = Refusal(r)] /\ Refusal(r) \in {400, 413}
      BY <1>1, <2>2 DEF Receive, Writes, Refusal
    <3>2. Taken' = Taken \cup {r}
      BY <3>1 DEF Taken, TypeOK
    <3>3. Published' = Published
      <4>1. outcomes[r] = <<>>
        BY <2>1 DEF Progress
      <4>2. Published[r] = {} /\ Published'[r] = {}
        BY <2>1, <3>1, <4>1 DEF Published, Answered, Successes, TypeOK
      <4>3. \A q \in Request \ {r} : Published'[q] = Published[q]
        <5>1. \A q \in Request \ {r} : handler'[q] = handler[q] /\ outcomes'[q] = outcomes[q]
          BY <2>1, <3>1 DEF TypeOK
        <5> QED BY <5>1 DEF Published, Answered, Successes
      <4>4. Published = [q \in Request |-> Published[q]]
            /\ Published' = [q \in Request |-> Published'[q]]
        BY DEF Published
      <4> QED BY <4>2, <4>3, <4>4
    <3>4. Contract!Writes(r, Refusal(r), {})
      <4>1. Published[r] = {} /\ Published = [q \in Request |-> Published[q]]
        BY <2>1 DEF Published, Answered
      <4> QED BY <3>1, <3>3, <4>1 DEF Contract!Writes
    <3>5. r \in Refused \ Taken
      BY <2>1, <2>2 DEF Refused
    <3>6. Contract!Refuse(r)
      BY <2>1, <3>1, <3>2, <3>4, <3>5 DEF Contract!Refuse
    <3> QED BY <3>6 DEF Contract!Next
  <2>3. CASE Refusal(r) = 0
    <3>1. handler' = [handler EXCEPT ![r] = "looping"] /\ UNCHANGED status
      BY <1>1, <2>3 DEF Receive
    <3>2. Taken' = Taken \cup {r}
      BY <3>1 DEF Taken, TypeOK
    <3>3. Published' = Published
      BY <2>1, <3>1, NothingNamed DEF TypeOK
    <3>4. Contract!Take(r)
      BY <2>1, <2>3, <3>1, <3>2, <3>3 DEF Contract!Take, Refused
    <3> QED BY <3>4 DEF Contract!Next
  <2> QED BY <2>2, <2>3
<1>2. ASSUME NEW r \in Request,
             RefuseMessage(r) \/ PublishMessage(r) \/ ReceiveResult(r) \/ ContextDone(r)
      PROVE  UNCHANGED Contract!vars
  <2>1. handler[r] \in {"looping", "waiting"} /\ UNCHANGED <<shutdown, status, delivered>>
    BY <1>2 DEF RefuseMessage, PublishMessage, ReceiveResult, ContextDone, InLoop
  <2>2. handler'[r] \in {"looping", "waiting"}
        /\ \A q \in Request \ {r} : handler'[q] = handler[q] /\ outcomes'[q] = outcomes[q]
    BY <1>2 DEF RefuseMessage, PublishMessage, ReceiveResult, ContextDone, Outcome, TypeOK
  <2>3. UNCHANGED <<Published, Taken>>
    BY <2>1, <2>2, NothingNamed
  <2> QED BY <1>u, <2>1, <2>3 DEF shutdown, Phase
<1>3. ASSUME NEW r \in Request, PublishMock(r) PROVE Contract!Next \/ UNCHANGED Contract!vars
  <2>1. handler[r] = "looping" /\ handler'[r] = "looping" /\ main # "exited"
        /\ UNCHANGED <<shutdown, status>>
        /\ \A q \in Request \ {r} : handler'[q] = handler[q] /\ outcomes'[q] = outcomes[q]
    BY <1>3 DEF PublishMock, InLoop, Outcome, Alive, TypeOK
  <2>2. UNCHANGED <<Published, Taken, Phase, shutdownError>>
    BY <2>1, NothingNamed DEF Phase, shutdown
  <2>3. CASE closed
    BY <1>3, <1>u, <2>1, <2>2, <2>3 DEF PublishMock
  <2>4. CASE ~closed
    <3>1. delivered' = delivered \cup {Current(r)}
      BY <1>3, <2>4 DEF PublishMock
    <3>2. Current(r) \in Message /\ Current(r) \in Fit /\ Current(r)[1] = r
      BY <1>3, CurrentIs DEF PublishMock, Fit
    <3>3. Contract!Store(Current(r))
      BY <1>a, <2>1, <2>2, <3>1, <3>2 DEF Contract!Store, Phase
    <3> QED BY <3>2, <3>3 DEF Contract!Next
  <2> QED BY <2>3, <2>4
<1>4. ASSUME NEW r \in Request, Respond(r) PROVE Contract!Next
    BY <1>4, RespondAnswers DEF Contract!Next
<1>5. ASSUME NEW r \in Request, EndContext(r) PROVE UNCHANGED Contract!vars
    BY <1>5, <1>u DEF EndContext, Phase, Taken, Published, Answered, Successes, shutdown
\* Who sends for a handler stays what it was when the handler has gone on.
<1>s. ASSUME UNCHANGED handlers PROVE UNCHANGED <<Taken, status, Published>>
    BY <1>s DEF handlers, Taken, Published, Answered, Successes
<1>6. ASSUME NEW m \in Message, SendMessage(m) PROVE Contract!Next \/ UNCHANGED Contract!vars
  <2>1. UNCHANGED <<Taken, status, Published, delivered, shutdownError>>
    BY <1>6, <1>s DEF SendMessage
  <2>2. CASE UNCHANGED main
    BY <1>u, <2>1, <2>2 DEF Phase
  <2>3. CASE main = "waiting" /\ main' = "exited"
    <3>1. Contract!End
      BY <2>1, <2>3 DEF Contract!End, Phase
    <3> QED BY <3>1 DEF Contract!Next
  <2> QED BY <1>6, <2>2, <2>3 DEF SendMessage
<1>7. ASSUME NEW m \in Message, SendReturns(m) PROVE Contract!Next \/ UNCHANGED Contract!vars
  <2>1. UNCHANGED <<Taken, status, Published, Phase, shutdownError>>
    BY <1>7, <1>s DEF SendReturns, shutdown, Phase
  <2>2. CASE UNCHANGED delivered
    BY <1>u, <2>1, <2>2
  <2>3. CASE delivered' = delivered \cup {m}
    <3>1. sender[m] # "none" /\ Phase # "over"
      BY <1>7 DEF SendReturns, Alive, Phase
    <3>2. m \in Fit /\ m[1] \in Taken
      BY <3>1 DEF ContractInv
    <3>3. m[1] \notin Refused
      BY <3>1 DEF StatusInv, MessagesOf, Refused
    <3>4. Contract!Store(m)
      BY <2>1, <2>3, <3>1, <3>2, <3>3 DEF Contract!Store
    <3> QED BY <3>4 DEF Contract!Next
  <2> QED BY <1>7, <2>2, <2>3 DEF SendReturns
<1>8. ASSUME Signal PROVE Contract!Next
  <2>1. UNCHANGED <<Taken, status, Published>>
    BY <1>8, <1>s DEF Signal
  <2>2. Contract!Drain
    BY <1>8, <2>1 DEF Signal, Contract!Drain, Phase
  <2> QED BY <2>2 DEF Contract!Next
<1>9. ASSUME Shutdown PROVE Contract!Next
  <2>1. UNCHANGED <<Taken, status, Published>>
    BY <1>9, <1>s DEF Shutdown
  <2>2. Contract!Unanswered = Active
    BY DEF Contract!Unanswered, Active, Taken, ContractInv, TypeOK
  <2>3. shutdownError' = (Contract!Unanswered # {})
    BY <1>9, <2>2 DEF Shutdown, ContractInv, TypeOK
  <2>4. Contract!Drained
    BY <1>9, <2>1, <2>3 DEF Shutdown, Contract!Drained, Phase
  <2> QED BY <2>4 DEF Contract!Next
<1>10. ASSUME TimeoutExpires \/ Close \/ CloseReturns PROVE UNCHANGED Contract!vars
  <2>1. UNCHANGED <<Taken, status, Published>>
    BY <1>10, <1>s DEF TimeoutExpires, Close, CloseReturns
  <2>2. UNCHANGED <<delivered, shutdownError>> /\ Phase' = Phase
    BY <1>10 DEF TimeoutExpires, Close, CloseReturns, Phase
  <2> QED BY <1>u, <2>1, <2>2
<1>11. ASSUME Exit PROVE Contract!Next
  <2>1. UNCHANGED <<Taken, status, Published>>
    BY <1>11, <1>s DEF Exit
  <2>2. Contract!End
    BY <1>11, <2>1 DEF Exit, Contract!End, Phase
  <2> QED BY <2>2 DEF Contract!Next
<1>12. ASSUME UNCHANGED vars PROVE UNCHANGED Contract!vars
  <2>1. UNCHANGED <<Taken, status, Published>>
    BY <1>12, <1>s DEF vars
  <2> QED BY <1>12, <1>u, <2>1 DEF vars, shutdown, Phase
<1> QED BY <1>1, <1>2, <1>3, <1>4, <1>5, <1>6, <1>7, <1>8, <1>9, <1>10, <1>11, <1>12
        DEF Next, HandlerStep, SenderStep, MainStep

\* The service implements its contract, for any requests and with either
\* producer: a refusal is the contract's Refuse, a send that stores its message,
\* before or after the answer, its Store, the end of a handler's loop its Answer.
THEOREM ServiceImplementsContract == Spec => ImplementsContract
<1>1. Init => Contract!Init
  <2> SUFFICES ASSUME Init PROVE Contract!Init
    OBVIOUS
  <2>1. Phase = "open" /\ Taken = {}
    BY DEF Init, Phase, Taken
  <2>2. Published = [r \in Request |-> {}]
    BY DEF Init, Published, Answered
  <2> QED BY <2>1, <2>2 DEF Init, Contract!Init
<1> QED BY <1>1, ServiceStep, AlwaysContractInv, PTL DEF Spec, ImplementsContract, Contract!Spec

-----------------------------------------------------------------------------
(* The four places that judge a message (validateMessageRequest, Message.  *)
(* Validate, the producer's validator and the security middleware) have    *)
(* limits of their own.  What follows says how they compare.               *)

LEMMA WiderRange ==
    ASSUME NEW x \in Nat, NEW y \in Nat, NEW z \in Nat, y <= z, NEW t \in (-x)..y
    PROVE  t \in (-365 * x)..z /\ t \in (-7 * x)..y
OBVIOUS

LEMMA Lengths == Day \in Nat /\ 5 * Minute \in Nat /\ Hour \in Nat /\ 5 * Minute <= Hour
<1>1. Minute = 60
    BY DEF Minute
<1>2. Hour = 3600
    BY <1>1 DEF Hour
<1>3. Day = 86400
    BY <1>2 DEF Day
<1> QED BY <1>1, <1>2, <1>3

LEMMA RecentIsEnough ==
    ASSUME NEW t, t \in (-Day)..5 * Minute
    PROVE  t \in (-365 * Day)..Hour /\ t \in (-7 * Day)..5 * Minute
BY Lengths, WiderRange, ZenonT(40)

\* What passes validateMessageRequest is refused by Message.Validate, in a
\* batch after the messages before it were sent, for four reasons: a dot in
\* the topic (which handlers.go:231 calls allowed), an underscore in front, a
\* header without a key, or a size that is too large only with the overhead.
THEOREM UnfitMessages ==
    ASSUME NEW q \in MessageRequest, validateMessageRequest(q) = "ok"
    PROVE  Kind(q) = "unfit" <=> \/ q.topic.chars = "dotted"
                                 \/ q.topic.first # "other"
                                 \/ \E h \in q.headers : h.key = 0
                                 \/ ~(Size(q) <= MB)
<1>1. /\ q.topic.length \in 1..255 /\ q.topic.chars # "other" /\ q.value > 0
      /\ \A h \in q.headers : h.key <= 256 /\ h.value <= KB
      /\ q.timestamp \in (-Day)..5 * Minute
    BY DEF validateMessageRequest, WellNamed, FewShortHeaders
<1>2. q.topic \in Topic /\ q.topic.chars \in {"plain", "dotted", "other"}
    BY DEF MessageRequest, Topic
<1>3. \A h \in q.headers : h.key \in Nat
    BY DEF MessageRequest, Header
<1>4. q.timestamp \in (-365 * Day)..Hour
    BY <1>1, RecentIsEnough
<1>5. validateTopic(q) <=> q.topic.chars # "dotted" /\ q.topic.first = "other"
    BY <1>1, <1>2 DEF validateTopic
<1>6. validateHeaders(q) <=> ~ \E h \in q.headers : h.key = 0
    BY <1>1, <1>3, SMTT(40) DEF validateHeaders
<1> QED BY <1>1, <1>4, <1>5, <1>6 DEF Kind, Validate

\* The validator that no code constructs would, as DefaultValidator makes it,
\* refuse nothing that the service accepts.
THEOREM ServicePassesValidator ==
    ASSUME NEW q \in MessageRequest, Kind(q) = "good"
    PROVE  ValidateMessage(DefaultValidator, q)
<1>1. validateMessageRequest(q) = "ok" /\ Validate(q)
    BY DEF Kind, validateMessageRequest
<1>2. q.timestamp \in (-Day)..5 * Minute
    BY <1>1 DEF validateMessageRequest
<1>3. q.timestamp \in (-7 * Day)..5 * Minute
    BY <1>2, RecentIsEnough
<1>4. validateTopicAccess(DefaultValidator, q.topic)
    BY DEF validateTopicAccess, DefaultValidator
<1>5. validateMessageSize(DefaultValidator, q)
    BY <1>1 DEF validateMessageSize, DefaultValidator, Validate
<1>6. /\ validateRequiredHeaders(DefaultValidator, q)
      /\ q.content \cap DefaultValidator.forbiddenPatterns = {}
    BY DEF validateRequiredHeaders, DefaultValidator
<1> QED BY <1>1, <1>3, <1>4, <1>5, <1>6 DEF ValidateMessage

\* RemoveAllowedTopic of the last topic opens every topic: an empty list and
\* no list are the same to a validator without patterns.
THEOREM LastTopicOpensAll ==
    ASSUME NEW v \in Validator, NEW name, v.allowedTopics = {name},
           v.topicPatterns = {}, NEW t \in Topic
    PROVE  /\ validateTopicAccess(RemoveAllowedTopic(v, name), t)
           /\ IsTopicAllowed(RemoveAllowedTopic(v, name), t.name)
<1>1. /\ RemoveAllowedTopic(v, name).allowedTopics = {}
      /\ RemoveAllowedTopic(v, name).topicPatterns = {}
    BY DEF RemoveAllowedTopic, Validator
<1> QED BY <1>1 DEF validateTopicAccess, IsTopicAllowed

\* IsTopicAllowed and validateTopicAccess agree unless only patterns are
\* configured: then IsTopicAllowed names every topic allowed.
THEOREM PatternsGoUnasked ==
    ASSUME NEW v \in Validator, NEW t \in Topic
    PROVE  (IsTopicAllowed(v, t.name) # validateTopicAccess(v, t))
             <=> /\ v.allowedTopics = {} /\ v.topicPatterns # {}
                 /\ t.matches \cap v.topicPatterns = {}
BY DEF validateTopicAccess, IsTopicAllowed

\* A body that the middleware would pass, in strict mode, and whose payload
\* and partition key are what the handler reads, is refused by the service
\* for its size (10 MB against 1 MB), its timestamp or a dot in its topic.
THEOREM LimitsDisagree ==
    ASSUME NEW b \in JsonBody, b.payload = b.request.value,
           b.partitionKey = b.request.key, validateSingleMessageRequest(TRUE, b)
    PROVE  Kind(b.request) # "good" <=> \/ b.request.value > MB
                                        \/ b.request.timestamp \notin (-Day)..5 * Minute
                                        \/ b.request.topic.chars = "dotted"
                                        \/ ~(Size(b.request) <= MB)
<1> DEFINE q == b.request
<1>1. /\ q \in MessageRequest /\ q.topic \in Topic
      /\ q.topic.chars \in {"plain", "dotted", "other"} /\ q.value \in Nat
    BY DEF JsonBody, MessageRequest, Topic
<1>2. /\ q.topic.length \in 1..255 /\ q.topic.chars # "other" /\ q.topic.first = "other"
      /\ q.key.length <= KB /\ q.value > 0
      /\ Cardinality(q.headers) <= 50
      /\ \A h \in q.headers : h.key \in 1..256 /\ h.value <= KB
  <2>1. /\ ValidateTopicName(TRUE, q.topic) /\ ValidatePartitionKey(TRUE, q.key)
        /\ ValidateMessagePayload(q.value) /\ ValidateHeaders(q.headers)
    BY DEF validateSingleMessageRequest
  <2>2. q.topic.length \in 1..255 /\ q.topic.chars # "other" /\ q.topic.first = "other"
    BY <2>1 DEF ValidateTopicName
  <2>3. q.key.length <= KB
    BY <2>1 DEF ValidatePartitionKey
  <2>4. q.value > 0
    BY <2>1 DEF ValidateMessagePayload
  <2>5. Cardinality(q.headers) <= 50 /\ \A h \in q.headers : h.key \in 1..256 /\ h.value <= KB
    BY <2>1 DEF ValidateHeaders
  <2> QED BY <2>2, <2>3, <2>4, <2>5
<1>3. WellNamed(q) /\ FewShortHeaders(q)
  <2>1. WellNamed(q)
    BY <1>2 DEF WellNamed
  <2>2. FewShortHeaders(q)
    BY <1>2, SMTT(40) DEF FewShortHeaders
  <2> QED BY <2>1, <2>2
<1>4. validateMessageRequest(q) = "ok"
        <=> ~(q.value > MB) /\ q.timestamp \in (-Day)..5 * Minute
    BY <1>3 DEF validateMessageRequest
<1>5. Kind(q) = "good" <=> validateMessageRequest(q) = "ok" /\ Validate(q)
    BY DEF Kind, validateMessageRequest
<1>6. q.timestamp \in (-Day)..5 * Minute => q.timestamp \in (-365 * Day)..Hour
    BY RecentIsEnough
<1>7. q.timestamp \in (-Day)..5 * Minute
        => (Validate(q) <=> q.topic.chars # "dotted" /\ (Size(q) <= MB))
    BY <1>1, <1>2, <1>6 DEF Validate, validateTopic, validateHeaders
<1> HIDE DEF q
<1>8. Kind(q) # "good" <=> \/ q.value > MB
                           \/ q.timestamp \notin (-Day)..5 * Minute
                           \/ q.topic.chars = "dotted"
                           \/ ~(Size(q) <= MB)
    BY <1>4, <1>5, <1>7
<1> QED BY <1>8 DEF q

-----------------------------------------------------------------------------
(* The serializers.                                                        *)

\* JSON loses the ID of a message, always.  The rest survives exactly if the value
\* is UTF-8 and the timestamp has no fraction of a second, which those of time.Now
\* have; so a message survives whole exactly if, besides, it has no ID.
THEOREM JSONKeepsWhatIsText ==
    ASSUME NEW s \in Stored, NEW now \in Nat
    PROVE  /\ ~RoundTrip("json", s, now).id
           /\ [RoundTrip("json", s, now) EXCEPT !.id = s.id] = s <=> s.stray = 0 /\ s.nanos = 0
           /\ RoundTrip("json", s, now) = s <=> ~s.id /\ s.stray = 0 /\ s.nanos = 0
<1>1. /\ s = [message |-> s.message, id |-> s.id, stray |-> s.stray, nanos |-> s.nanos]
      /\ s.message \in MessageRequest /\ s.id \in BOOLEAN /\ s.stray \in Nat /\ s.nanos \in Nat
    BY DEF Stored
<1>2. s.message.value \in Nat
    BY <1>1 DEF MessageRequest
<1> DEFINE sent == [s.message EXCEPT !.value = @ + 2 * s.stray]
<1>3. RoundTrip("json", s, now) = [message |-> sent, id |-> FALSE, stray |-> 0, nanos |-> 0]
    BY DEF RoundTrip, JSON
<1>4. s.stray = 0 => sent = s.message
    BY <1>1, <1>2 DEF MessageRequest
<1> HIDE DEF sent
<1>5. /\ RoundTrip("json", s, now).id = FALSE
      /\ [RoundTrip("json", s, now) EXCEPT !.id = s.id]
            = [message |-> sent, id |-> s.id, stray |-> 0, nanos |-> 0]
    BY <1>3
<1>6. [message |-> sent, id |-> s.id, stray |-> 0, nanos |-> 0] = s <=> s.stray = 0 /\ s.nanos = 0
    BY <1>1, <1>4
<1>7. [message |-> sent, id |-> FALSE, stray |-> 0, nanos |-> 0] = s
        <=> ~s.id /\ s.stray = 0 /\ s.nanos = 0
    BY <1>1, <1>4
<1> QED BY <1>3, <1>5, <1>6, <1>7

\* What the binary or the string serializer gives back is never a message that
\* may be sent: it has no topic, although the value is the one that went out.
THEOREM RawForgetsTheMessage ==
    ASSUME NEW s \in Stored, NEW now \in Nat
    PROVE  /\ ~Validate(RoundTrip("raw", s, now).message)
           /\ RoundTrip("raw", s, now).message.value = s.message.value
<1>1. RoundTrip("raw", s, now).message.topic.length = 0
    BY DEF RoundTrip, Raw, NoTopic
<1>2. RoundTrip("raw", s, now).message.value = s.message.value
    BY DEF RoundTrip, Raw
<1> QED BY <1>1, <1>2, SMTT(40) DEF Validate, validateTopic

\* A manager whose default format is registered keeps one that is, whatever is
\* registered and chosen later; one made for a format without a serializer, as
\* the constant FormatAvro invites, hands out nil.
THEOREM DefaultsStayRegistered ==
    ASSUME NEW m \in Manager, NEW f \in Format, NEW s \in Serializer
    PROVE  /\ GetDefaultSerializer(m) # "nil" =>
                /\ GetDefaultSerializer(RegisterSerializer(m, f, s)) # "nil"
                /\ GetDefaultSerializer(SetDefaultFormat(m, f)) # "nil"
           /\ GetDefaultSerializer(NewSerializerManager("avro")) = "nil"
<1>1. \A n \in Manager : GetDefaultSerializer(n) # "nil" <=> ValidateFormat(n, n.defaultFormat)
  <2>1. \A n \in Manager : ValidateFormat(n, n.defaultFormat)
                             => n.serializers[n.defaultFormat] \in Serializer
      BY DEF Manager, ValidateFormat
  <2> QED BY <2>1 DEF GetDefaultSerializer, Serializer
<1>2. RegisterSerializer(m, f, s) \in Manager
    /\ DOMAIN RegisterSerializer(m, f, s).serializers = DOMAIN m.serializers \cup {f}
    /\ RegisterSerializer(m, f, s).defaultFormat = m.defaultFormat
  <2> DEFINE new == [g \in DOMAIN m.serializers \cup {f} |-> IF g = f THEN s ELSE m.serializers[g]]
  <2>1. PICK F \in SUBSET Format : m.serializers \in [F -> Serializer]
      BY DEF Manager
  <2>2. new \in [F \cup {f} -> Serializer] /\ F \cup {f} \in SUBSET Format
      BY <2>1
  <2>3. new \in UNION {[G -> Serializer] : G \in SUBSET Format} /\ DOMAIN new = DOMAIN m.serializers \cup {f}
      BY <2>2
  <2> HIDE DEF new
  <2>4. /\ [m EXCEPT !.serializers = new] \in Manager
        /\ [m EXCEPT !.serializers = new].serializers = new
        /\ [m EXCEPT !.serializers = new].defaultFormat = m.defaultFormat
      BY <2>3 DEF Manager
  <2> QED BY <2>3, <2>4 DEF RegisterSerializer, new
<1>3. ValidateFormat(m, f) => [m EXCEPT !.defaultFormat = f] \in Manager
                              /\ [m EXCEPT !.defaultFormat = f].defaultFormat = f
                              /\ [m EXCEPT !.defaultFormat = f].serializers = m.serializers
    BY DEF Manager
<1>4. GetDefaultSerializer(m) # "nil" => GetDefaultSerializer(RegisterSerializer(m, f, s)) # "nil"
    BY <1>1, <1>2 DEF ValidateFormat
<1>5. GetDefaultSerializer(m) # "nil" => GetDefaultSerializer(SetDefaultFormat(m, f)) # "nil"
    BY <1>1, <1>3 DEF ValidateFormat, SetDefaultFormat
<1>6. GetDefaultSerializer(NewSerializerManager("avro")) = "nil"
    BY DEF GetDefaultSerializer, NewSerializerManager, ValidateFormat
<1> QED BY <1>4, <1>5, <1>6
=============================================================================
