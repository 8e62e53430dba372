----------------------- MODULE RetryCoordinator_proofs -----------------------
(***************************************************************************)
(* Theorems about RetryCoordinator, for any number of calls, any policies  *)
(* and any errors.  Where a call is in its loop tells how its attempt and  *)
(* its report stand to each other; that is InStep, from which what the     *)
(* call returns follows.                                                   *)
(***************************************************************************)
EXTENDS RetryCoordinator, FiniteSetTheorems, WellFoundedInduction, TLAPS

LEMMA PolicyType == InstalledPolicies \subseteq Policy /\ Errors \subseteq Error
BY RetryAssumption DEF RetryAssumption, InstalledPolicies

LEMMA OwnErrors == \A c \in Call : ErrorsOf[c] \subseteq Errors
BY RetryAssumption DEF RetryAssumption

\* Before an attempt and during it the call has one failure less behind it than
\* attempts, after a failure as many; an attempt is only made within a policy.
InStep ==
    /\ \A c \in Call :
        /\ pc[c] = "new" => history[c] = <<>>
        /\ pc[c] \in {"checking", "exhausted", "running"} => attempt[c] = Len(history[c]) + 1
        /\ pc[c] \in {"failed", "judging", "delaying", "computing", "sleeping"} =>
             HasReport(c) /\ attempt[c] = Len(history[c])
        /\ pc[c] \in {"running", "failed", "judging", "delaying", "computing", "sleeping"} =>
             \E p \in InstalledPolicies : attempt[c] <= p.MaxAttempts
    /\ resolved \subseteq Done

\* Whatever the strategy, a delay is a duration.
LEMMA DelaysAreIntegers ==
    ASSUME NEW n, NEW e PROVE calculateDelay(n, e) \subseteq Int
<1>1. \A lo, hi : lo..hi \subseteq Int
    OBVIOUS
<1>2. \A b, m : CalculateDelay(b, m) \subseteq Int
    BY <1>1, Zenon DEF CalculateDelay, Jittered
<1>3. {0} \subseteq Int
    OBVIOUS
<1> QED BY <1>2, <1>3, Zenon DEF calculateDelay

\* The first report and a later one are extended alike.
Failing(c, e) ==
    /\ pc[c] = "running" /\ pc' = [pc EXCEPT ![c] = "failed"]
    /\ history' = [history EXCEPT ![c] = Append(@, e)]
    /\ IF HasReport(c)
         THEN UNCHANGED activeRetries
         ELSE activeRetries' = [activeRetries EXCEPT ![IdOf[c]] = c]
    /\ UNCHANGED <<policy, metrics, cancelled, attempt, resolved, result, totalDelay, resets>>

LEMMA FailedAttempt ==
    ASSUME NEW c \in Call, NEW e \in Errors, AttemptFails(c, e)
    PROVE  Failing(c, e)
<1>1. history[c] = <<>> => Append(history[c], e) = <<e>>
    OBVIOUS
<1>2. CASE HasReport(c)
    BY <1>2 DEF AttemptFails, Failing, Goto, AddRetryAttempt
<1>3. CASE ~HasReport(c)
  <2>1. Append(history[c], e) = <<e>>
    BY <1>1, <1>3 DEF HasReport
  <2>2. history' = [history EXCEPT ![c] = Append(history[c], e)]
    BY <1>3, <2>1 DEF AttemptFails, NewErrorReport
  <2> QED BY <1>3, <2>2 DEF AttemptFails, Failing, Goto, trackActiveRetry
<1> QED BY <1>2, <1>3

LEMMA InitStep == Init => TypeOK /\ InStep
<1> SUFFICES ASSUME Init PROVE TypeOK /\ InStep
    OBVIOUS
<1>1. NoResult \in Result /\ ZeroMetrics \in [total : Nat, successful : Nat, failed : Nat]
    BY DEF NoResult, Result, ZeroMetrics
<1>2. history \in [Call -> Seq(Errors)]
    BY DEF Init
<1>3. policy \in InstalledPolicies /\ activeRetries \in [Id -> Call \cup {NoCall}]
    BY DEF Init, InstalledPolicies
<1>4. TypeOK
  <2>1. totalDelay \in [Call -> Int] /\ attempt \in [Call -> Nat] /\ result \in [Call -> Result]
    BY <1>1 DEF Init
  <2> QED BY <1>1, <1>2, <1>3, <2>1 DEF Init, TypeOK
<1>5. InStep
    BY DEF Init, InStep
<1> QED BY <1>4, <1>5

LEMMA NextType == TypeOK /\ InStep /\ [Next]_vars => TypeOK'
<1> SUFFICES ASSUME TypeOK, InStep, [Next]_vars PROVE TypeOK'
    OBVIOUS
<1> USE DEF TypeOK, Goto, InStep, resets
<1>0. policy.MaxAttempts \in Nat /\ IdOf \in [Call -> Id]
    BY PolicyType, RetryAssumption DEF RetryAssumption, Policy
<1>m. recordSuccess \/ recordFailure => metrics' \in [total : Nat, successful : Nat, failed : Nat]
  <2>1. CASE recordSuccess
    <3>1. metrics' = [total |-> metrics.total + 1, successful |-> metrics.successful + 1,
                      failed |-> metrics.failed]
      BY <2>1 DEF recordSuccess
    <3> QED BY <3>1
  <2>2. CASE recordFailure
    <3>1. metrics' = [total |-> metrics.total + 1, successful |-> metrics.successful,
                      failed |-> metrics.failed + 1]
      BY <2>2 DEF recordFailure
    <3> QED BY <3>1
  <2> QED BY <2>1, <2>2
<1>a. ASSUME NEW c \in Call, removeActiveRetry(c)
      PROVE  activeRetries' \in [Id -> Call \cup {NoCall}]
    BY <1>0, <1>a DEF removeActiveRetry
<1>r. ASSUME NEW c \in Call, NEW s \in BOOLEAN, NEW n \in Nat,
             NEW e \in {"none", "last", "cancelled"}, Returns(c, s, n, e)
      PROVE  /\ result' \in [Call -> Result]
             /\ pc' \in [Call -> {"new", "checking", "exhausted", "running", "failed",
                                  "judging", "delaying", "computing", "sleeping", "done"}]
  <2>1. [Success |-> s, AttemptCount |-> n, FinalError |-> e] \in Result
    BY DEF Result
  <2> QED BY <1>r, <2>1 DEF Returns
<1>1. ASSUME NEW c \in Call, ExecuteWithRetry(c) PROVE TypeOK'
    BY <1>1 DEF ExecuteWithRetry
<1>2. ASSUME NEW c \in Call, ReturnExhausted(c) PROVE TypeOK'
    BY <1>0, <1>m, <1>a, <1>r, <1>2 DEF ReturnExhausted
<1>3. ASSUME NEW c \in Call, CancelledBeforeAttempt(c) PROVE TypeOK'
  <2>1. attempt[c] - 1 \in Nat
    BY <1>3 DEF CancelledBeforeAttempt
  <2> QED BY <1>r, <1>3, <2>1 DEF CancelledBeforeAttempt
<1>4. ASSUME NEW c \in Call, StartAttempt(c) PROVE TypeOK'
    BY <1>4 DEF StartAttempt
<1>5. ASSUME NEW c \in Call, AttemptSucceeds(c) PROVE TypeOK'
    BY <1>m, <1>a, <1>r, <1>5 DEF AttemptSucceeds, MarkResolved
<1>6. ASSUME NEW c \in Call, NEW e \in Errors, Failing(c, e) PROVE TypeOK'
  <2>1. history' \in [Call -> Seq(Errors)]
    BY <1>6 DEF Failing
  <2> QED BY <1>0, <1>6, <2>1 DEF Failing
<1>7. ASSUME NEW c \in Call, StopRetrying(c) PROVE TypeOK'
    BY <1>m, <1>a, <1>r, <1>7 DEF StopRetrying
<1>8. ASSUME NEW c \in Call, DecideToRetry(c) PROVE TypeOK'
    BY <1>8 DEF DecideToRetry
<1>17. ASSUME NEW c \in Call, Exhausted(c) PROVE TypeOK'
    BY <1>17 DEF Exhausted
<1>18. ASSUME NEW c \in Call, AttemptsLeft(c) PROVE TypeOK'
    BY <1>18 DEF AttemptsLeft
<1>9. ASSUME NEW c \in Call, ComputeDelay(c) PROVE TypeOK'
  <2>1. CASE attempt[c] < policy.MaxAttempts
    BY <1>9, <2>1 DEF ComputeDelay
  <2>2. CASE ~(attempt[c] < policy.MaxAttempts)
    <3>1. pc' = [pc EXCEPT ![c] = "checking"] /\ attempt' = [attempt EXCEPT ![c] = @ + 1]
      BY <1>9, <2>2 DEF ComputeDelay, NextAttempt
    <3> QED BY <1>9, <3>1 DEF ComputeDelay
  <2> QED BY <2>1, <2>2
<1>16. ASSUME NEW c \in Call, AddDelay(c) PROVE TypeOK'
  <2>1. PICK delay \in calculateDelay(attempt[c], LastError(c)) :
            totalDelay' = [totalDelay EXCEPT ![c] = @ + delay]
    BY <1>16 DEF AddDelay
  <2>2. delay \in Int
    BY <2>1, DelaysAreIntegers
  <2> QED BY <1>16, <2>1, <2>2 DEF AddDelay
<1>10. ASSUME NEW c \in Call, DelayElapses(c) PROVE TypeOK'
    BY <1>10 DEF DelayElapses, NextAttempt
<1>11. ASSUME NEW c \in Call, CancelledInDelay(c) PROVE TypeOK'
    BY <1>a, <1>r, <1>11 DEF CancelledInDelay
<1>12. ASSUME NEW c \in Call, Cancel(c) PROVE TypeOK'
    BY <1>12 DEF Cancel
<1>13. ASSUME UpdatePolicy PROVE TypeOK'
    BY <1>13 DEF UpdatePolicy, InstalledPolicies
<1>14. ASSUME Reset PROVE TypeOK'
  <2>1. activeRetries' \in [Id -> Call \cup {NoCall}]
    BY <1>14 DEF Reset
  <2>2. metrics' \in [total : Nat, successful : Nat, failed : Nat]
    BY <1>14 DEF Reset, ZeroMetrics
  <2>3. countedBefore' \subseteq Call /\ forgotten' \subseteq Call
    BY <1>14 DEF Reset, Done
  <2> QED BY <1>14, <2>1, <2>2, <2>3 DEF Reset
<1>15. ASSUME UNCHANGED vars PROVE TypeOK'
    BY <1>15 DEF vars
<1> QED BY <1>1, <1>2, <1>3, <1>4, <1>5, <1>6, <1>7, <1>8, <1>9, <1>10, <1>11, <1>12,
           <1>13, <1>14, <1>15, <1>16, <1>17, <1>18, OwnErrors, FailedAttempt DEF Next, Step

LEMMA NextInStep == TypeOK /\ InStep /\ [Next]_vars => InStep'
<1> SUFFICES ASSUME TypeOK, InStep, [Next]_vars PROVE InStep'
    OBVIOUS
<1> USE DEF TypeOK, InStep, Goto, Returns, HasReport, Done
<1>0. policy.MaxAttempts \in Nat /\ policy \in InstalledPolicies
    BY PolicyType DEF Policy
\* A call that returns has nothing more to show.
<1>r. ASSUME NEW c \in Call, Goto(c, "done"), UNCHANGED <<history, attempt>>,
             resolved' \subseteq resolved \cup {c}
      PROVE  InStep'
    BY <1>r DEF InstalledPolicies
<1>1. ASSUME NEW c \in Call, ExecuteWithRetry(c) PROVE InStep'
  <2>1. /\ pc[c] = "new" /\ pc'[c] = "checking" /\ attempt'[c] = 1 /\ UNCHANGED <<history, resolved>>
        /\ \A d \in Call \ {c} : pc'[d] = pc[d] /\ attempt'[d] = attempt[d]
    BY <1>1 DEF ExecuteWithRetry
  <2>2. history[c] = <<>> /\ Len(history[c]) = 0
    BY <2>1
  <2> SUFFICES ASSUME NEW d \in Call
               PROVE  /\ pc'[d] = "new" => history[d] = <<>>
                      /\ pc'[d] \in {"checking", "exhausted", "running"} => attempt'[d] = Len(history[d]) + 1
                      /\ pc'[d] \in {"failed", "judging", "delaying", "computing", "sleeping"} =>
                           history[d] # <<>> /\ attempt'[d] = Len(history[d])
                      /\ pc'[d] \in {"running", "failed", "judging", "delaying", "computing", "sleeping"} =>
                           \E p \in InstalledPolicies : attempt'[d] <= p.MaxAttempts
    BY <2>1 DEF InstalledPolicies
  <2>3. CASE d = c
    BY <2>1, <2>2, <2>3
  <2>4. CASE d # c
    BY <2>1, <2>4
  <2> QED BY <2>3, <2>4
<1>2. ASSUME NEW c \in Call, ReturnExhausted(c) \/ CancelledBeforeAttempt(c) PROVE InStep'
    BY <1>2, <1>r DEF ReturnExhausted, CancelledBeforeAttempt
<1>3. ASSUME NEW c \in Call, StartAttempt(c) PROVE InStep'
    BY <1>0, <1>3 DEF StartAttempt, InstalledPolicies
<1>4. ASSUME NEW c \in Call, AttemptSucceeds(c) PROVE InStep'
    BY <1>4, <1>r DEF AttemptSucceeds, MarkResolved
<1>5. ASSUME NEW c \in Call, NEW e \in Errors, Failing(c, e) PROVE InStep'
  <2>1. /\ Len(history'[c]) = Len(history[c]) + 1 /\ history'[c] # <<>>
        /\ \A d \in Call \ {c} : history'[d] = history[d]
    BY <1>5 DEF Failing
  <2> QED BY <1>5, <2>1 DEF Failing, InstalledPolicies
<1>6. ASSUME NEW c \in Call, StopRetrying(c) \/ CancelledInDelay(c) PROVE InStep'
    BY <1>6, <1>r DEF StopRetrying, CancelledInDelay
\* A call that goes on in the same attempt.
<1>k. ASSUME NEW c \in Call, NEW s \in {"judging", "delaying", "sleeping"}, Goto(c, s),
             pc[c] \in {"failed", "judging", "computing"}, UNCHANGED <<history, attempt, resolved>>
      PROVE  InStep'
  <2>1. pc'[c] = s /\ \A d \in Call \ {c} : pc'[d] = pc[d]
    BY <1>k
  <2> QED BY <1>k, <2>1 DEF InstalledPolicies
<1>7. ASSUME NEW c \in Call, AttemptsLeft(c) \/ DecideToRetry(c) \/ AddDelay(c) PROVE InStep'
    BY <1>7, <1>k DEF AttemptsLeft, DecideToRetry, AddDelay
<1>13. ASSUME NEW c \in Call, Exhausted(c) PROVE InStep'
    BY <1>13 DEF Exhausted, InstalledPolicies
<1>8. ASSUME NEW c \in Call, ComputeDelay(c) PROVE InStep'
  <2>1. CASE attempt[c] < policy.MaxAttempts
    BY <1>8, <2>1 DEF ComputeDelay, InstalledPolicies
  <2>2. CASE ~(attempt[c] < policy.MaxAttempts)
    <3>1. pc' = [pc EXCEPT ![c] = "checking"] /\ attempt' = [attempt EXCEPT ![c] = @ + 1]
      BY <1>8, <2>2 DEF ComputeDelay, NextAttempt
    <3> QED BY <1>8, <3>1 DEF ComputeDelay, InstalledPolicies
  <2> QED BY <2>1, <2>2
<1>9. ASSUME NEW c \in Call, DelayElapses(c) PROVE InStep'
    BY <1>9 DEF DelayElapses, NextAttempt, InstalledPolicies
<1>10. ASSUME NEW c \in Call, Cancel(c) PROVE InStep'
    BY <1>10 DEF Cancel, InstalledPolicies
<1>11. ASSUME UpdatePolicy \/ Reset PROVE InStep'
    BY <1>11 DEF UpdatePolicy, Reset, InstalledPolicies
<1>12. ASSUME UNCHANGED vars PROVE InStep'
    BY <1>12 DEF vars, InstalledPolicies
<1> QED BY <1>1, <1>2, <1>3, <1>4, <1>5, <1>6, <1>7, <1>8, <1>9, <1>10, <1>11, <1>12, <1>13,
           OwnErrors, FailedAttempt DEF Next, Step

\* The state of the coordinator is well typed; in particular a cancelled call
\* never reports a negative number of attempts (coordinator.go:155).
THEOREM TypeCorrect == Spec => []TypeOK
BY InitStep, NextType, NextInStep, PTL DEF Spec

LEMMA StepsCorrect == Spec => [](TypeOK /\ InStep)
BY InitStep, NextType, NextInStep, PTL DEF Spec

-----------------------------------------------------------------------------
\* The strengthening of FatalErrorIsLast: a call that may still make an attempt
\* has only errors behind it that may be retried.
RetriedErrors ==
    \A c \in Call : \A i \in 1..Len(history[c]) :
        \/ IsRetryable(history[c][i])
        \/ i = Len(history[c]) /\ pc[c] \in {"failed", "judging", "done"}

LEMMA RetriedStep == TypeOK /\ InStep /\ RetriedErrors /\ [Next]_vars => RetriedErrors'
<1> SUFFICES ASSUME TypeOK, InStep, RetriedErrors, [Next]_vars PROVE RetriedErrors'
    OBVIOUS
<1> USE DEF TypeOK, RetriedErrors, Goto
<1>0. \A c \in Call : history[c] \in Seq(Errors) /\ Len(history[c]) \in Nat
    OBVIOUS
\* Only AttemptFails extends a report, and only DecideToRetry leaves "failed".
<1>u. ASSUME UNCHANGED history,
             \A c \in Call : pc'[c] \in {pc[c], "judging", "done"} \/ pc[c] \notin {"failed", "judging", "done"}
      PROVE  RetriedErrors'
    BY <1>u DEF IsRetryable
<1>1. ASSUME NEW c \in Call, ExecuteWithRetry(c) \/ StartAttempt(c) \/ DelayElapses(c) \/ AddDelay(c)
      PROVE  RetriedErrors'
    BY <1>1, <1>u DEF ExecuteWithRetry, StartAttempt, DelayElapses, NextAttempt, AddDelay
<1>8. ASSUME NEW c \in Call, Exhausted(c) \/ AttemptsLeft(c) PROVE RetriedErrors'
    BY <1>8, <1>u DEF Exhausted, AttemptsLeft
<1>2. ASSUME NEW c \in Call, ReturnExhausted(c) \/ CancelledBeforeAttempt(c) \/ CancelledInDelay(c)
      PROVE  RetriedErrors'
    BY <1>2, <1>u DEF ReturnExhausted, CancelledBeforeAttempt, CancelledInDelay, Returns
<1>3. ASSUME NEW c \in Call, AttemptSucceeds(c) \/ StopRetrying(c) PROVE RetriedErrors'
    BY <1>3, <1>u DEF AttemptSucceeds, StopRetrying, Returns
<1>4. ASSUME NEW c \in Call, NEW e \in Errors, Failing(c, e) PROVE RetriedErrors'
  <2> SUFFICES ASSUME NEW d \in Call, NEW i \in 1..Len(history'[d]), ~IsRetryable(history'[d][i])
               PROVE  i = Len(history'[d]) /\ pc'[d] \in {"failed", "judging", "done"}
    BY DEF IsRetryable
  <2>1. CASE d # c
    BY <1>4, <2>1 DEF Failing, IsRetryable
  <2>2. CASE d = c
    <3>1. /\ Len(history'[c]) = Len(history[c]) + 1
          /\ \A j \in 1..Len(history[c]) : history'[c][j] = history[c][j]
      BY <1>4 DEF Failing
    <3>2. \A j \in 1..Len(history[c]) : IsRetryable(history[c][j])
      BY <1>4 DEF Failing
    <3>3. i \notin 1..Len(history[c])
      BY <2>2, <3>1, <3>2 DEF IsRetryable
    <3>4. pc'[c] = "failed"
      BY <1>4 DEF Failing
    <3> QED BY <1>0, <2>2, <3>1, <3>3, <3>4
  <2> QED BY <2>1, <2>2
<1>5. ASSUME NEW c \in Call, DecideToRetry(c) PROVE RetriedErrors'
  <2>1. IsRetryable(history[c][Len(history[c])]) /\ UNCHANGED history
    BY <1>5 DEF DecideToRetry, mayRetry, LastError
  <2>2. \A d \in Call \ {c} : pc'[d] = pc[d]
    BY <1>5 DEF DecideToRetry
  <2> QED BY <1>0, <2>1, <2>2, ZenonT(40) DEF IsRetryable
<1>6. ASSUME NEW c \in Call, ComputeDelay(c) PROVE RetriedErrors'
    BY <1>6, <1>u DEF ComputeDelay, NextAttempt
<1>7. ASSUME (\E c \in Call : Cancel(c)) \/ UpdatePolicy \/ Reset \/ UNCHANGED vars PROVE RetriedErrors'
    BY <1>7, <1>u DEF Cancel, UpdatePolicy, Reset, vars
<1> QED BY <1>1, <1>2, <1>3, <1>4, <1>5, <1>6, <1>7, <1>8, OwnErrors, FailedAttempt DEF Next, Step

\* No attempt follows an error that the categorizer calls not retryable, for
\* any errors the operation fails with and any policies installed meanwhile.
THEOREM FatalErrorsEndCalls == Spec => []FatalErrorIsLast
<1>1. Init => RetriedErrors
    BY DEF Init, RetriedErrors
<1>2. TypeOK /\ RetriedErrors => FatalErrorIsLast
  <2> SUFFICES ASSUME TypeOK, RetriedErrors, NEW c \in Call, NEW i \in 1..(Len(history[c]) - 1)
               PROVE  IsRetryable(history[c][i])
    BY DEF FatalErrorIsLast
  <2>1. Len(history[c]) \in Nat
    BY DEF TypeOK
  <2>2. i \in 1..Len(history[c]) /\ i # Len(history[c])
    BY <2>1
  <2> QED BY <2>2 DEF RetriedErrors
<1> QED BY <1>1, <1>2, RetriedStep, StepsCorrect, PTL DEF Spec

-----------------------------------------------------------------------------
\* What ResultAgreesWithReport says of one finished call.
Agrees(c) ==
    LET r == result[c]
    IN /\ r.Success => r.FinalError = "none" /\ r.AttemptCount = Len(history[c]) + 1
       /\ r.FinalError = "none" => r.Success \/ ~HasReport(c)
       /\ ~r.Success /\ ~LeftByCondition(c) => r.AttemptCount = Len(history[c])
       /\ ~r.Success /\ LeftByCondition(c) =>
            \E p \in InstalledPolicies : r.AttemptCount = p.MaxAttempts
       /\ c \in resolved <=> r.Success /\ HasReport(c)
       /\ \E p \in InstalledPolicies : r.AttemptCount <= p.MaxAttempts

\* A call that has returned is left alone.
LEMMA DoneStays ==
    ASSUME TypeOK, [Next]_vars, NEW d \in Call, pc[d] = "done"
    PROVE  /\ pc'[d] = "done" /\ history'[d] = history[d] /\ result'[d] = result[d]
           /\ attempt'[d] = attempt[d]
           /\ d \in resolved' <=> d \in resolved
<1> USE DEF TypeOK, Goto, Returns
<1>1. ASSUME NEW c \in Call, ExecuteWithRetry(c) \/ StartAttempt(c) \/ Exhausted(c) \/ AttemptsLeft(c) \/ DecideToRetry(c)
      PROVE  /\ pc'[d] = "done" /\ attempt'[d] = attempt[d] /\ UNCHANGED <<history, result, resolved>>
    BY <1>1 DEF ExecuteWithRetry, StartAttempt, Exhausted, AttemptsLeft, DecideToRetry
<1>2. ASSUME NEW c \in Call, ComputeDelay(c) \/ AddDelay(c) \/ DelayElapses(c)
      PROVE  /\ pc'[d] = "done" /\ attempt'[d] = attempt[d] /\ UNCHANGED <<history, result, resolved>>
    BY <1>2 DEF ComputeDelay, AddDelay, DelayElapses, NextAttempt
<1>3. ASSUME NEW c \in Call, ReturnExhausted(c) \/ CancelledBeforeAttempt(c) \/ StopRetrying(c)
                              \/ CancelledInDelay(c)
      PROVE  /\ pc'[d] = "done" /\ result'[d] = result[d] /\ UNCHANGED <<history, resolved, attempt>>
    BY <1>3 DEF ReturnExhausted, CancelledBeforeAttempt, StopRetrying, CancelledInDelay
<1>4. ASSUME NEW c \in Call, AttemptSucceeds(c)
      PROVE  /\ pc'[d] = "done" /\ result'[d] = result[d] /\ UNCHANGED <<history, attempt>>
             /\ d \in resolved' <=> d \in resolved
    BY <1>4 DEF AttemptSucceeds, MarkResolved
<1>5. ASSUME NEW c \in Call, NEW e \in Errors, Failing(c, e)
      PROVE  /\ pc'[d] = "done" /\ history'[d] = history[d] /\ UNCHANGED <<result, resolved, attempt>>
    BY <1>5 DEF Failing
<1>6. ASSUME (\E c \in Call : Cancel(c)) \/ UpdatePolicy \/ Reset \/ UNCHANGED vars
      PROVE  UNCHANGED <<pc, history, result, resolved, attempt>>
    BY <1>6 DEF Cancel, UpdatePolicy, Reset, vars
<1> QED BY <1>1, <1>2, <1>3, <1>4, <1>5, <1>6, OwnErrors, FailedAttempt DEF Next, Step

LEMMA AgreesStep == TypeOK /\ InStep /\ ResultAgreesWithReport /\ [Next]_vars => ResultAgreesWithReport'
<1> SUFFICES ASSUME TypeOK, InStep, \A c \in Done : Agrees(c), [Next]_vars,
                    NEW d \in Call, pc'[d] = "done"
             PROVE  Agrees(d)'
    BY DEF ResultAgreesWithReport, Done, Agrees, HasReport
<1>1. CASE pc[d] = "done"
  <2>1. UNCHANGED <<pc[d], history[d], result[d], attempt[d]>> /\ (d \in resolved' <=> d \in resolved)
    BY <1>1, DoneStays
  <2> QED BY <1>1, <2>1 DEF Agrees, HasReport, Done, LeftByCondition, InstalledPolicies
<1>2. CASE pc[d] # "done"
  <2> USE DEF TypeOK, InStep, Goto, Returns, HasReport
  <2>0. /\ Len(history[d]) \in Nat /\ d \notin resolved
        /\ policy \in InstalledPolicies /\ policy.MaxAttempts \in Nat
    BY <1>2, PolicyType DEF Done, Policy
  <2>1. CASE ReturnExhausted(d)
    <3>1. UNCHANGED <<history, resolved, attempt>> /\ attempt[d] = Len(history[d]) + 1
          /\ result'[d] = [Success |-> FALSE, AttemptCount |-> policy.MaxAttempts,
                           FinalError |-> IF HasReport(d) THEN "last" ELSE "none"]
      BY <2>1 DEF ReturnExhausted
    <3>2. LeftByCondition(d)'
      BY <2>0, <3>1 DEF LeftByCondition
    <3> QED BY <2>0, <3>1, <3>2 DEF Agrees, InstalledPolicies
  <2>2. CASE CancelledBeforeAttempt(d)
    <3>1. UNCHANGED <<history, resolved>> /\ attempt[d] <= policy.MaxAttempts
          /\ attempt[d] = Len(history[d]) + 1
          /\ result'[d] = [Success |-> FALSE, AttemptCount |-> attempt[d] - 1,
                           FinalError |-> "cancelled"]
      BY <2>2 DEF CancelledBeforeAttempt
    <3>2. ~LeftByCondition(d)'
      BY <3>1 DEF LeftByCondition
    <3> QED BY <2>0, <3>1, <3>2 DEF Agrees, InstalledPolicies
  <2>3. CASE AttemptSucceeds(d)
    <3>1. UNCHANGED history /\ (d \in resolved' <=> history[d] # <<>>)
          /\ attempt[d] = Len(history[d]) + 1
          /\ \E p \in InstalledPolicies : attempt[d] <= p.MaxAttempts
          /\ result'[d] = [Success |-> TRUE, AttemptCount |-> attempt[d], FinalError |-> "none"]
      BY <2>0, <2>3 DEF AttemptSucceeds, MarkResolved
    <3> QED BY <2>0, <3>1 DEF Agrees, InstalledPolicies
  <2>4. CASE StopRetrying(d) \/ CancelledInDelay(d)
    <3>1. UNCHANGED <<history, resolved, attempt>> /\ history[d] # <<>> /\ attempt[d] = Len(history[d])
          /\ \E p \in InstalledPolicies : attempt[d] <= p.MaxAttempts
          /\ \E e \in {"last", "cancelled"} :
               result'[d] = [Success |-> FALSE, AttemptCount |-> attempt[d], FinalError |-> e]
      BY <2>4 DEF StopRetrying, CancelledInDelay
    <3>2. ~LeftByCondition(d)'
      BY <2>0, <3>1 DEF LeftByCondition
    <3> QED BY <2>0, <3>1, <3>2 DEF Agrees, InstalledPolicies
  \* No other step ends the call.
  <2>5. ASSUME NEW c \in Call, c # d, Step(c) PROVE FALSE
    BY <1>2, <2>5 DEF Step, ExecuteWithRetry, StartAttempt, Exhausted, AttemptsLeft, DecideToRetry, ComputeDelay, AddDelay,
         DelayElapses, NextAttempt, ReturnExhausted, CancelledBeforeAttempt, StopRetrying, CancelledInDelay,
          AttemptSucceeds, AttemptFails
  <2>6. ASSUME ExecuteWithRetry(d) \/ StartAttempt(d) \/ Exhausted(d) \/ AttemptsLeft(d) \/ DecideToRetry(d) \/ ComputeDelay(d)
               \/ AddDelay(d) \/ DelayElapses(d) \/ \E e \in Errors : Failing(d, e)
        PROVE  FALSE
    BY <1>2, <2>6 DEF ExecuteWithRetry, StartAttempt, Exhausted, AttemptsLeft, DecideToRetry, ComputeDelay, AddDelay,
         DelayElapses, NextAttempt, Failing
  <2>7. ASSUME (\E c \in Call : Cancel(c)) \/ UpdatePolicy \/ Reset \/ UNCHANGED vars PROVE FALSE
    BY <1>2, <2>7 DEF Cancel, UpdatePolicy, Reset, vars
  <2> QED BY <2>1, <2>2, <2>3, <2>4, <2>5, <2>6, <2>7, OwnErrors, FailedAttempt DEF Next, Step
<1> QED BY <1>1, <1>2

\* For any calls, errors and policies, and with UpdatePolicy, Reset and
\* cancellations between any two steps, what ExecuteWithRetry returns agrees
\* with the report of the call.
THEOREM ResultsAgree == Spec => []ResultAgreesWithReport
<1>1. Init => ResultAgreesWithReport
    BY DEF Init, ResultAgreesWithReport, Done
<1> QED BY <1>1, AgreesStep, StepsCorrect, PTL DEF Spec

-----------------------------------------------------------------------------
\* The strengthening of ActiveMeansRetrying: an entry is under its own id and
\* belongs to a call that has a report.
ActiveInv ==
    /\ ActiveMeansRetrying
    /\ \A c \in Call : activeRetries[IdOf[c]] = c => HasReport(c)

LEMMA ActiveStep == TypeOK /\ ActiveInv /\ [Next]_vars => ActiveInv'
<1> SUFFICES ASSUME TypeOK, ActiveInv, [Next]_vars PROVE ActiveInv'
    OBVIOUS
<1> USE DEF TypeOK, ActiveInv, ActiveMeansRetrying, Goto, Returns, HasReport, Done, SharesId, resets
<1>0. IdOf \in [Call -> Id] /\ NoCall \notin Call
    BY RetryAssumption DEF RetryAssumption
<1>d. \A d \in Call : pc[d] = "done" => pc'[d] = "done" /\ result'[d] = result[d]
    BY DoneStays
<1>s. ASSUME \A d \in Call :
                /\ HasReport(d)' /\ d \notin Done' /\ ~SharesId(d) /\ d \notin forgotten' =>
                     activeRetries'[IdOf[d]] = d
                /\ activeRetries'[IdOf[d]] = d =>
                     HasReport(d)' /\ (d \in Done' => result'[d].FinalError = "cancelled")
      PROVE  ActiveInv'
    BY <1>s
\* Steps that end no call and touch no entry.
<1>k. ASSUME UNCHANGED <<activeRetries, history, forgotten>>,
             \A d \in Call : pc'[d] = "done" => pc[d] = "done"
      PROVE  ActiveInv'
    BY <1>d, <1>k
\* A call that ends and removes the entry under its id.
<1>r. ASSUME NEW c \in Call, removeActiveRetry(c), Goto(c, "done"), UNCHANGED <<history, forgotten>>
      PROVE  ActiveInv'
  <2>1. activeRetries'[IdOf[c]] = NoCall
    BY <1>0, <1>r DEF removeActiveRetry
  <2>2. \A d \in Call : IdOf[d] # IdOf[c] => activeRetries'[IdOf[d]] = activeRetries[IdOf[d]]
    BY <1>0, <1>r DEF removeActiveRetry
  <2>3. pc'[c] = "done" /\ \A d \in Call \ {c} : pc'[d] = pc[d]
    BY <1>r
  <2> SUFFICES ASSUME NEW d \in Call
               PROVE  /\ HasReport(d)' /\ d \notin Done' /\ ~SharesId(d) /\ d \notin forgotten' =>
                           activeRetries'[IdOf[d]] = d
                      /\ activeRetries'[IdOf[d]] = d =>
                           HasReport(d)' /\ (d \in Done' => result'[d].FinalError = "cancelled")
    BY <1>s
  <2>4. CASE IdOf[d] = IdOf[c]
    BY <1>0, <2>1, <2>3, <2>4
  <2>5. CASE IdOf[d] # IdOf[c]
    <3>1. /\ pc'[d] = pc[d] /\ history'[d] = history[d] /\ forgotten' = forgotten
          /\ activeRetries'[IdOf[d]] = activeRetries[IdOf[d]]
      BY <1>r, <2>2, <2>3, <2>5
    <3> QED BY <1>d, <3>1
  <2> QED BY <2>4, <2>5
<1>1. ASSUME NEW c \in Call, ExecuteWithRetry(c) \/ StartAttempt(c) \/ Exhausted(c) \/ AttemptsLeft(c)
               \/ DecideToRetry(c)
      PROVE  ActiveInv'
    BY <1>1, <1>k DEF ExecuteWithRetry, StartAttempt, Exhausted, AttemptsLeft, DecideToRetry
<1>2. ASSUME NEW c \in Call, ComputeDelay(c) \/ AddDelay(c) \/ DelayElapses(c) PROVE ActiveInv'
    BY <1>2, <1>k DEF ComputeDelay, AddDelay, DelayElapses, NextAttempt
<1>3. ASSUME NEW c \in Call, ReturnExhausted(c) \/ StopRetrying(c) \/ CancelledInDelay(c) PROVE ActiveInv'
    BY <1>3, <1>r DEF ReturnExhausted, StopRetrying, CancelledInDelay
<1>4. ASSUME NEW c \in Call, AttemptSucceeds(c) PROVE ActiveInv'
  <2>1. CASE HasReport(c)
    BY <1>4, <1>r, <2>1 DEF AttemptSucceeds, MarkResolved
  <2>2. CASE ~HasReport(c)
    <3>1. UNCHANGED <<activeRetries, history, forgotten>> /\ \A d \in Call \ {c} : pc'[d] = pc[d]
      BY <1>4, <2>2 DEF AttemptSucceeds, MarkResolved
    <3> QED BY <1>d, <2>2, <3>1, ZenonT(40)
  <2> QED BY <2>1, <2>2
<1>5. ASSUME NEW c \in Call, CancelledBeforeAttempt(c) PROVE ActiveInv'
  <2>1. /\ UNCHANGED <<activeRetries, history, forgotten>> /\ \A d \in Call \ {c} : pc'[d] = pc[d]
        /\ pc'[c] = "done" /\ result'[c].FinalError = "cancelled"
    BY <1>5 DEF CancelledBeforeAttempt
  <2>2. ASSUME NEW d \in Call
        PROVE  /\ HasReport(d)' /\ d \notin Done' /\ ~SharesId(d) /\ d \notin forgotten' =>
                    activeRetries'[IdOf[d]] = d
               /\ activeRetries'[IdOf[d]] = d =>
                    HasReport(d)' /\ (d \in Done' => result'[d].FinalError = "cancelled")
    <3>1. CASE d = c
      BY <2>1, <3>1
    <3>2. CASE d # c
      BY <1>d, <2>1, <3>2
    <3> QED BY <3>1, <3>2
  <2> QED BY <1>s, <2>2
<1>6. ASSUME NEW c \in Call, NEW e \in Errors, Failing(c, e) PROVE ActiveInv'
  <2>1. /\ history'[c] # <<>> /\ \A d \in Call \ {c} : history'[d] = history[d]
        /\ pc'[c] = "failed" /\ \A d \in Call \ {c} : pc'[d] = pc[d]
        /\ pc[c] = "running" /\ UNCHANGED <<result, forgotten>>
    BY <1>6 DEF Failing
  <2>2. CASE HasReport(c)
    <3>1. UNCHANGED activeRetries
      BY <1>6, <2>2 DEF Failing
    <3> QED BY <2>1, <2>2, <3>1
  <2>3. CASE ~HasReport(c)
    <3>1. /\ activeRetries'[IdOf[c]] = c
          /\ \A d \in Call : IdOf[d] # IdOf[c] => activeRetries'[IdOf[d]] = activeRetries[IdOf[d]]
      BY <1>0, <1>6, <2>3 DEF Failing
    <3> SUFFICES ASSUME NEW d \in Call
                 PROVE  /\ HasReport(d)' /\ d \notin Done' /\ ~SharesId(d) /\ d \notin forgotten' =>
                             activeRetries'[IdOf[d]] = d
                        /\ activeRetries'[IdOf[d]] = d =>
                             HasReport(d)' /\ (d \in Done' => result'[d].FinalError = "cancelled")
      BY <1>s
    <3>2. CASE IdOf[d] = IdOf[c]
      BY <2>1, <3>1, <3>2
    <3>3. CASE IdOf[d] # IdOf[c]
      <4>1. /\ d # c /\ pc'[d] = pc[d] /\ history'[d] = history[d]
            /\ result' = result /\ forgotten' = forgotten
            /\ activeRetries'[IdOf[d]] = activeRetries[IdOf[d]]
        BY <2>1, <3>1, <3>3
      <4>2. (HasReport(d)' <=> HasReport(d)) /\ (d \in Done' <=> d \in Done)
        BY <4>1
      <4>3. /\ HasReport(d) /\ d \notin Done /\ ~SharesId(d) /\ d \notin forgotten =>
                  activeRetries[IdOf[d]] = d
            /\ activeRetries[IdOf[d]] = d =>
                  HasReport(d) /\ (d \in Done => result[d].FinalError = "cancelled")
        OBVIOUS
      <4> HIDE DEF ActiveInv, ActiveMeansRetrying, HasReport, Done
      <4> QED BY <4>1, <4>2, <4>3
    <3> QED BY <3>2, <3>3
  <2> QED BY <2>2, <2>3
<1>7. ASSUME (\E c \in Call : Cancel(c)) \/ UpdatePolicy \/ UNCHANGED vars PROVE ActiveInv'
    BY <1>7, <1>k DEF Cancel, UpdatePolicy, vars
<1>8. ASSUME Reset PROVE ActiveInv'
  <2>1. /\ UNCHANGED <<pc, history, result>> /\ \A c \in Call : activeRetries'[IdOf[c]] = NoCall
        /\ \A c \in Call : HasReport(c) => c \in forgotten'
    BY <1>0, <1>8 DEF Reset
  <2> QED BY <1>0, <2>1
<1> QED BY <1>1, <1>2, <1>3, <1>4, <1>5, <1>6, <1>7, <1>8, OwnErrors, FailedAttempt DEF Next, Step

\* activeRetries has the calls that are retrying, for any calls and any ids:
\* all those with an id of their own that no Reset has made it forget, and of
\* those that ended only ones whose context was done.
THEOREM ActiveCallsAreListed == Spec => []ActiveMeansRetrying
<1>1. Init => ActiveInv
  <2> SUFFICES ASSUME Init PROVE ActiveInv
    OBVIOUS
  <2>1. \A c \in Call : pc[c] = "new" /\ ~HasReport(c) /\ activeRetries[IdOf[c]] # c
    BY RetryAssumption DEF Init, HasReport, RetryAssumption
  <2> QED BY <2>1 DEF ActiveInv, ActiveMeansRetrying, Done
<1>2. ActiveInv => ActiveMeansRetrying
    BY DEF ActiveInv
<1> QED BY <1>1, <1>2, ActiveStep, TypeCorrect, PTL DEF Spec
-----------------------------------------------------------------------------
\* The results that the metrics count, by how the call ended.
Counted == Done \ countedBefore
Successes == {c \in Counted : result[c].Success}
Failures == {c \in Counted : ~result[c].Success /\ result[c].FinalError # "cancelled"}

\* The strengthening of MetricsCountResults: only finitely many calls have ended,
\* and those that the metrics no longer count are among them.
CountInv == IsFiniteSet(Done) /\ countedBefore \subseteq Done /\ MetricsCountResults

LEMMA CountsAre ==
    MetricsCountResults <=>
      /\ metrics.successful = Cardinality(Successes)
      /\ metrics.failed = Cardinality(Failures)
      /\ metrics.total = metrics.successful + metrics.failed
BY DEF MetricsCountResults, Successes, Failures, Counted

\* A step that ends no call and leaves the metrics alone.
LEMMA NoCallEnds ==
    ASSUME CountInv, UNCHANGED <<metrics, countedBefore>>,
           Done' = Done, \A c \in Done : result'[c] = result[c]
    PROVE  CountInv'
<1>1. Successes' = Successes /\ Failures' = Failures
    BY DEF Successes, Failures, Counted
<1>2. MetricsCountResults'
    BY <1>1, CountsAre DEF CountInv, MetricsCountResults, Successes, Failures, Counted
<1> QED BY <1>2 DEF CountInv

\* The only call that ends in a step is counted by what it returns.
LEMMA CallEnds ==
    ASSUME TypeOK, CountInv, UNCHANGED countedBefore, NEW c \in Call, c \notin Done,
           Done' = Done \cup {c}, \A d \in Done : result'[d] = result[d],
           \/ result'[c].Success /\ recordSuccess
           \/ ~result'[c].Success /\ result'[c].FinalError # "cancelled" /\ recordFailure
           \/ ~result'[c].Success /\ result'[c].FinalError = "cancelled" /\ UNCHANGED metrics
    PROVE  CountInv'
<1>1. IsFiniteSet(Done') /\ countedBefore' \subseteq Done'
    BY FS_AddElement DEF CountInv
<1>2. /\ IsFiniteSet(Successes) /\ IsFiniteSet(Failures)
      /\ c \notin Successes /\ c \notin Failures
    BY FS_Subset DEF Successes, Failures, Counted, CountInv
<1>3. metrics \in [total : Nat, successful : Nat, failed : Nat]
    BY DEF TypeOK
<1>4. /\ Cardinality(Successes \cup {c}) = Cardinality(Successes) + 1
      /\ Cardinality(Failures \cup {c}) = Cardinality(Failures) + 1
      /\ Cardinality(Successes) \in Nat /\ Cardinality(Failures) \in Nat
    BY <1>2, FS_AddElement, FS_CardinalityType
<1>5. Counted' = Counted \cup {c} /\ \A d \in Counted : result'[d] = result[d]
    BY DEF Counted, CountInv
<1>6. SUFFICES /\ metrics'.successful = Cardinality(Successes')
               /\ metrics'.failed = Cardinality(Failures')
               /\ metrics'.total = metrics'.successful + metrics'.failed
    BY <1>1 DEF CountInv, MetricsCountResults, Successes, Failures, Counted
<1>7. /\ metrics.successful = Cardinality(Successes) /\ metrics.failed = Cardinality(Failures)
      /\ metrics.total = metrics.successful + metrics.failed
    BY CountsAre DEF CountInv
<1>8. CASE result'[c].Success /\ recordSuccess
  <2>1. Successes' = Successes \cup {c} /\ Failures' = Failures
    BY <1>5, <1>8 DEF Successes, Failures
  <2>2. /\ metrics'.total = metrics.total + 1 /\ metrics'.successful = metrics.successful + 1
        /\ metrics'.failed = metrics.failed
    BY <1>3, <1>8 DEF recordSuccess
  <2> QED BY <1>3, <1>4, <1>7, <2>1, <2>2
<1>9. CASE ~result'[c].Success /\ result'[c].FinalError # "cancelled" /\ recordFailure
  <2>1. Failures' = Failures \cup {c} /\ Successes' = Successes
    BY <1>5, <1>9 DEF Successes, Failures
  <2>2. /\ metrics'.total = metrics.total + 1 /\ metrics'.failed = metrics.failed + 1
        /\ metrics'.successful = metrics.successful
    BY <1>3, <1>9 DEF recordFailure
  <2> QED BY <1>3, <1>4, <1>7, <2>1, <2>2
<1>10. CASE ~result'[c].Success /\ result'[c].FinalError = "cancelled" /\ UNCHANGED metrics
  <2>1. Failures' = Failures /\ Successes' = Successes
    BY <1>5, <1>10 DEF Successes, Failures
  <2> QED BY <1>7, <1>10, <2>1
<1> QED BY <1>8, <1>9, <1>10

LEMMA CountStep == TypeOK /\ InStep /\ CountInv /\ [Next]_vars => CountInv'
<1> SUFFICES ASSUME TypeOK, InStep, CountInv, [Next]_vars PROVE CountInv'
    OBVIOUS
<1> USE DEF TypeOK, Goto, resets
<1>d. \A d \in Done : d \in Done' /\ result'[d] = result[d]
    BY DoneStays DEF Done
<1>1. ASSUME NEW c \in Call, pc[c] # "done", pc' = [pc EXCEPT ![c] = "done"]
      PROVE  c \notin Done /\ Done' = Done \cup {c}
    BY <1>1 DEF Done
<1>2. ASSUME NEW c \in Call, NEW s, pc[c] # "done", s # "done", pc' = [pc EXCEPT ![c] = s]
      PROVE  Done' = Done
    BY <1>2 DEF Done
\* How each step that ends a call counts it.
<1>3. ASSUME NEW c \in Call, NEW n, NEW s \in BOOLEAN, NEW e, Returns(c, s, n, e),
             pc[c] # "done", UNCHANGED countedBefore,
             \/ s /\ recordSuccess
             \/ ~s /\ e # "cancelled" /\ recordFailure
             \/ ~s /\ e = "cancelled" /\ UNCHANGED metrics
      PROVE  CountInv'
  <2>1. result'[c].Success = s /\ result'[c].FinalError = e
    BY <1>3 DEF Returns
  <2> QED BY <1>1, <1>3, <1>d, <2>1, CallEnds DEF Returns
<1>4. ASSUME NEW c \in Call, ReturnExhausted(c) PROVE CountInv'
    BY <1>3, <1>4 DEF ReturnExhausted
<1>5. ASSUME NEW c \in Call, CancelledBeforeAttempt(c) \/ CancelledInDelay(c) PROVE CountInv'
    BY <1>3, <1>5 DEF CancelledBeforeAttempt, CancelledInDelay
<1>6. ASSUME NEW c \in Call, AttemptSucceeds(c) PROVE CountInv'
    BY <1>3, <1>6 DEF AttemptSucceeds
<1>7. ASSUME NEW c \in Call, StopRetrying(c) PROVE CountInv'
    BY <1>3, <1>7 DEF StopRetrying
<1>8. ASSUME NEW c \in Call,
             ExecuteWithRetry(c) \/ StartAttempt(c) \/ Exhausted(c) \/ AttemptsLeft(c) \/ DecideToRetry(c)
      PROVE  CountInv'
    BY <1>2, <1>8, <1>d, NoCallEnds DEF ExecuteWithRetry, StartAttempt, Exhausted, AttemptsLeft, DecideToRetry
<1>9. ASSUME NEW c \in Call, ComputeDelay(c) \/ AddDelay(c) \/ DelayElapses(c) PROVE CountInv'
    BY <1>2, <1>9, <1>d, NoCallEnds DEF ComputeDelay, AddDelay, DelayElapses, NextAttempt
<1>10. ASSUME NEW c \in Call, NEW e \in Errors, Failing(c, e) PROVE CountInv'
    BY <1>2, <1>10, <1>d, NoCallEnds DEF Failing
<1>11. ASSUME (\E c \in Call : Cancel(c)) \/ UpdatePolicy \/ UNCHANGED vars PROVE CountInv'
  <2>1. UNCHANGED <<pc, metrics, countedBefore, result>>
    BY <1>11 DEF Cancel, UpdatePolicy, vars
  <2>2. Done' = Done
    BY <2>1 DEF Done
  <2> QED BY <2>1, <2>2, NoCallEnds
\* After a Reset nothing has been counted, and nothing is to be.
<1>12. ASSUME Reset PROVE CountInv'
  <2>1. Done' = Done /\ countedBefore' = Done /\ metrics' = ZeroMetrics
    BY <1>12 DEF Reset, Done
  <2>2. Successes' = {} /\ Failures' = {}
    BY <2>1 DEF Successes, Failures, Counted
  <2>3. Cardinality(Successes') = 0 /\ Cardinality(Failures') = 0
    BY <2>2, FS_EmptySet
  <2>4. MetricsCountResults'
    BY <2>1, <2>3 DEF MetricsCountResults, Successes, Failures, Counted, ZeroMetrics
  <2> QED BY <2>1, <2>4 DEF CountInv
<1> QED BY <1>4, <1>5, <1>6, <1>7, <1>8, <1>9, <1>10, <1>11, <1>12, OwnErrors, FailedAttempt
        DEF Next, Step

\* For any calls that race for the metrics and end in any way, and any Resets
\* between them, each call that ended after the last Reset is counted once, as a
\* success or as a failure, and a cancelled one not at all (coordinator.go:368
\* recordSuccess, :381 recordFailure).
THEOREM MetricsAgree == Spec => []MetricsCountResults
<1>1. Init => CountInv
  <2> SUFFICES ASSUME Init PROVE CountInv
    OBVIOUS
  <2>1. Successes = {} /\ Failures = {} /\ Done = {} /\ countedBefore = {}
    BY DEF Init, Successes, Failures, Counted, Done
  <2>2. metrics.successful = 0 /\ metrics.failed = 0 /\ metrics.total = 0
    BY DEF Init, ZeroMetrics
  <2> QED BY <2>1, <2>2, FS_EmptySet, CountsAre DEF CountInv
<1>2. CountInv => MetricsCountResults
    BY DEF CountInv
<1> QED BY <1>1, <1>2, CountStep, StepsCorrect, PTL DEF Spec

-----------------------------------------------------------------------------
(* The delays.  Power is a recursive function; that there is one is proved  *)
(* from its initial parts, by induction over sets of numbers.               *)

\* A set that has zero, and with each number the next one, has all of them.
LEMMA NatInductionOnSet ==
    ASSUME NEW N, N \subseteq Nat, 0 \in N, \A n \in N : n + 1 \in N
    PROVE  N = Nat
<1> DEFINE Less == {p \in Nat \X Nat : p[1] < p[2]}
           Out == Nat \ N
<1> SUFFICES ASSUME Out # {} PROVE FALSE
    OBVIOUS
<1>1. IsWellFoundedOn(Less, Nat)
    BY NatLessThanWellFounded DEF OpToRel
<1>2. PICK m \in Out : \A n \in Out : <<n, m>> \notin Less
  <2>1. Out \subseteq Nat
    OBVIOUS
  <2> HIDE DEF Less, Out
  <2> QED BY <1>1, <2>1, WFMin
<1>3. m \in Nat /\ m # 0 /\ m - 1 \in Nat
    OBVIOUS
<1>4. m - 1 \notin Out
  <2>1. m - 1 < m
    BY <1>3
  <2> QED BY <1>2, <1>3, <2>1
<1>5. (m - 1) + 1 \in N
    BY <1>3, <1>4
<1> QED BY <1>3, <1>5

\* An initial part of the powers of m.
PowersUpTo(m, n, g) == g \in [0..n -> Nat] /\ g[0] = 1 /\ \A i \in 1..n : g[i] = m * g[i - 1]

\* Each exponent has such a part, and all of them agree.
LEMMA PowersUpToExist == ASSUME NEW m \in Nat PROVE \A n \in Nat : \E g : PowersUpTo(m, n, g)
<1> DEFINE N == {n \in Nat : \E g : PowersUpTo(m, n, g)}
<1>1. 0 \in N
  <2>1. PowersUpTo(m, 0, [i \in 0..0 |-> 1])
    BY DEF PowersUpTo
  <2> QED BY <2>1
<1>2. ASSUME NEW n \in N PROVE n + 1 \in N
  <2>1. PICK g : PowersUpTo(m, n, g)
    OBVIOUS
  <2> DEFINE h == [i \in 0..(n + 1) |-> IF i = n + 1 THEN m * g[n] ELSE g[i]]
  <2>0. n \in Nat
    OBVIOUS
  <2>2. h \in [0..(n + 1) -> Nat]
    <3>1. ASSUME NEW i \in 0..(n + 1) PROVE h[i] \in Nat
      <4>1. CASE i = n + 1
        BY <2>0, <2>1, <4>1 DEF PowersUpTo
      <4>2. CASE i # n + 1
        BY <2>0, <2>1, <4>2 DEF PowersUpTo
      <4> QED BY <4>1, <4>2
    <3> QED BY <3>1
  <2>3. h[0] = 1
    BY <2>0, <2>1 DEF PowersUpTo
  <2>4. ASSUME NEW i \in 1..(n + 1) PROVE h[i] = m * h[i - 1]
    <3>1. CASE i = n + 1
      <4>1. h[i] = m * g[n] /\ h[n] = g[n] /\ i - 1 = n
        BY <2>0, <3>1
      <4> QED BY <4>1
    <3>2. CASE i # n + 1
      <4>1. h[i] = g[i] /\ h[i - 1] = g[i - 1] /\ i \in 1..n
        BY <2>0, <3>2
      <4> QED BY <2>1, <4>1 DEF PowersUpTo
    <3> QED BY <3>1, <3>2
  <2> HIDE DEF h
  <2>5. PowersUpTo(m, n + 1, h)
    BY <2>2, <2>3, <2>4 DEF PowersUpTo
  <2> QED BY <2>0, <2>5
<1> HIDE DEF N
<1>3. N \subseteq Nat
    BY DEF N
<1>4. N = Nat
    BY <1>1, <1>2, <1>3, NatInductionOnSet
<1> QED BY <1>4 DEF N

LEMMA PowersAgree ==
    ASSUME NEW m \in Nat, NEW n \in Nat, NEW k \in Nat, NEW g, NEW h, PowersUpTo(m, n, g), PowersUpTo(m, k, h)
    PROVE  \A i \in Nat : i <= n /\ i <= k => g[i] = h[i]
<1> DEFINE N == {i \in Nat : i <= n /\ i <= k => g[i] = h[i]}
<1>1. 0 \in N
    BY DEF PowersUpTo
<1>2. ASSUME NEW i \in N PROVE i + 1 \in N
  <2>1. i \in Nat
    OBVIOUS
  <2> SUFFICES ASSUME i + 1 <= n, i + 1 <= k PROVE g[i + 1] = h[i + 1]
    BY <2>1
  <2>2. g[i] = h[i]
    BY <2>1
  <2>3. i + 1 \in 1..n /\ i + 1 \in 1..k /\ (i + 1) - 1 = i
    BY <2>1
  <2>4. g[i + 1] = m * g[i] /\ h[i + 1] = m * h[i]
    BY <2>3 DEF PowersUpTo
  <2> QED BY <2>2, <2>4
<1> HIDE DEF N
<1>3. N \subseteq Nat
    BY DEF N
<1>4. N = Nat
    BY <1>1, <1>2, <1>3, NatInductionOnSet
<1> QED BY <1>4 DEF N

\* So the recursion defines a function.
LEMMA PowerIs ==
    ASSUME NEW m \in Nat
    PROVE  Power(m) = [n \in Nat |-> IF n = 0 THEN 1 ELSE m * Power(m)[n - 1]]
<1> DEFINE part(n) == CHOOSE g : PowersUpTo(m, n, g)
           f == [n \in Nat |-> part(n)[n]]
           Body(p) == [n \in Nat |-> IF n = 0 THEN 1 ELSE m * p[n - 1]]
<1>1. \A n \in Nat : PowersUpTo(m, n, part(n))
    BY PowersUpToExist, Zenon
<1> HIDE DEF part
<1>2. ASSUME NEW n \in Nat PROVE f[n] = IF n = 0 THEN 1 ELSE m * f[n - 1]
  <2>1. CASE n = 0
    BY <1>1, <2>1 DEF PowersUpTo
  <2>2. CASE n # 0
    <3>1. n - 1 \in Nat /\ n \in 1..n
      BY <2>2
    <3>2. part(n)[n] = m * part(n)[n - 1]
      BY <1>1, <3>1 DEF PowersUpTo
    <3>3. part(n)[n - 1] = part(n - 1)[n - 1]
      BY <1>1, <3>1, PowersAgree
    <3> QED BY <2>2, <3>1, <3>2, <3>3
  <2> QED BY <2>1, <2>2
<1>3. f = Body(f)
  <2> HIDE DEF f
  <2>1. f = [n \in Nat |-> f[n]]
    BY DEF f
  <2> QED BY <1>2, <2>1
<1>4. Power(m) = CHOOSE p : p = Body(p)
    BY DEF Power
<1> HIDE DEF f
<1>5. Power(m) = Body(Power(m))
  <2> HIDE DEF Body
  <2> QED BY <1>3, <1>4
<1> QED BY <1>5

LEMMA PowerType == ASSUME NEW m \in Nat PROVE Power(m) \in [Nat -> Nat]
<1> DEFINE N == {n \in Nat : Power(m)[n] \in Nat}
<1>1. /\ Power(m)[0] = 1
      /\ \A n \in Nat : Power(m)[n + 1] = m * Power(m)[n]
  <2> DEFINE p == Power(m)
  <2>1. p = [n \in Nat |-> IF n = 0 THEN 1 ELSE m * p[n - 1]]
    BY PowerIs
  <2> HIDE DEF p
  <2>2. p[0] = 1 /\ \A n \in Nat : p[n + 1] = m * p[n]
    BY <2>1
  <2> QED BY <2>2 DEF p
<1>2. 0 \in N /\ \A n \in N : n + 1 \in N
    BY <1>1
<1> HIDE DEF N
<1>3. N \subseteq Nat
    BY DEF N
<1>4. N = Nat
    BY <1>2, <1>3, NatInductionOnSet
<1>5. \A n \in Nat : Power(m)[n] \in Nat
    BY <1>4 DEF N
<1>6. Power(m) = [n \in Nat |-> Power(m)[n]]
    BY PowerIs
<1> QED BY <1>5, <1>6

-----------------------------------------------------------------------------
LEMMA CapBounds ==
    ASSUME NEW x \in Nat, NEW m \in Nat
    PROVE  Cap(x, m) \in Nat /\ Cap(x, m) <= m
BY DEF Cap

LEMMA JitterBounds ==
    ASSUME NEW x \in Nat, NEW m \in Nat, x <= m, NEW d \in Jittered(x)
    PROVE  d \in Int /\ d >= 0 /\ 10 * d <= 11 * m
<1>1. d \in Int /\ (9 * x) \div 10 <= d /\ d <= (11 * x - 1) \div 10
    BY DEF Jittered
<1>2. (9 * x) \div 10 >= 0 /\ 10 * ((11 * x - 1) \div 10) <= 11 * x - 1
    OBVIOUS
<1> QED BY <1>1, <1>2

\* No delay is negative, and only jitter exceeds the strategy's longest, by a
\* tenth.
LEMMA StrategyBounds ==
    ASSUME NEW b \in BackoffStrategy, NEW m \in Int, NEW d \in CalculateDelay(b, m)
    PROVE  /\ d \in Nat /\ LongestDelay(b) \in Nat
           /\ 10 * d <= 11 * LongestDelay(b)
<1> DEFINE n == IF m <= 0 THEN 1 ELSE m
<1>1. n - 1 \in Nat
    OBVIOUS
<1> HIDE DEF n
<1>2. CASE b \in Exponential
  <2> DEFINE grown == b.InitialDelay * Power(b.Multiplier)[n - 1]  x == Cap(grown, b.MaxDelay)
  <2>1. b.kind = "exponential" /\ b.InitialDelay \in Nat /\ b.Multiplier \in Nat /\ b.MaxDelay \in Nat
    BY <1>2 DEF Exponential, Positive
  <2>2. Power(b.Multiplier)[n - 1] \in Nat
    BY <1>1, <2>1, PowerType
  <2>3. grown \in Nat
    BY <2>1, <2>2
  <2> HIDE DEF grown
  <2>4. x \in Nat /\ x <= b.MaxDelay
    BY <2>1, <2>3, CapBounds
  <2> HIDE DEF x
  <2>5. d \in Jittered(x) \/ d \in x..x
    BY <2>1 DEF CalculateDelay, n, x, grown
  <2>6. d \in Int /\ d >= 0 /\ 10 * d <= 11 * b.MaxDelay
    BY <2>1, <2>4, <2>5, JitterBounds
  <2> QED BY <2>1, <2>6 DEF LongestDelay
<1>3. CASE b \in Linear
  <2> DEFINE grown == b.InitialDelay + (n - 1) * b.Increment  x == Cap(grown, b.MaxDelay)
  <2>1. b.kind = "linear" /\ b.InitialDelay \in Nat /\ b.Increment \in Nat /\ b.MaxDelay \in Nat
    BY <1>3 DEF Linear, Positive
  <2>2. grown \in Nat
    <3>1. ASSUME NEW i \in Nat, NEW j \in Nat PROVE i * j \in Nat
      OBVIOUS
    <3> QED BY <1>1, <2>1, <3>1
  <2> HIDE DEF grown
  <2>3. x \in Nat /\ x <= b.MaxDelay
    BY <2>1, <2>2, CapBounds
  <2> HIDE DEF x
  <2>4. d \in x..x
    BY <2>1 DEF CalculateDelay, n, x, grown
  <2> QED BY <2>1, <2>3, <2>4 DEF LongestDelay
<1>4. CASE b \in Fixed
  <2>1. b.kind = "fixed" /\ b.Delay \in Nat
    BY <1>4 DEF Fixed, Positive
  <2>2. d \in b.Delay..b.Delay
    BY <2>1 DEF CalculateDelay
  <2> QED BY <2>1, <2>2 DEF LongestDelay
<1> QED BY <1>2, <1>3, <1>4 DEF BackoffStrategy

-----------------------------------------------------------------------------
NoWait == <<"network", "low">>

\* The failures that a wait follows, and for which the call has waited, or goes
\* on without: not the last one while the call is about to wait for it.
WaitingOnLast == {"failed", "judging", "delaying", "computing"}

Waited(c) ==
    {i \in 1..Len(history[c]) : /\ history[c][i] # NoWait
                                /\ i = Len(history[c]) => pc[c] \notin WaitingOnLast}

\* The delays up to now are those of the failures waited for.
Bounded(c, longest) == 10 * totalDelay[c] <= 11 * Cardinality(Waited(c)) * longest

DelayInv ==
    \A c \in Call :
        /\ totalDelay[c] >= 0
        /\ \E p \in InstalledPolicies : Bounded(c, LongestDelay(p.BackoffStrategy))

LEMMA LongestType ==
    \A p \in InstalledPolicies : LongestDelay(p.BackoffStrategy) \in Nat
<1> SUFFICES ASSUME NEW p \in InstalledPolicies PROVE LongestDelay(p.BackoffStrategy) \in Nat
    OBVIOUS
<1>1. p.BackoffStrategy \in BackoffStrategy
    BY PolicyType DEF Policy
<1> QED BY <1>1 DEF LongestDelay, BackoffStrategy, Exponential, Linear, Fixed, Positive

LEMMA WaitedIsFinite ==
    ASSUME TypeOK, NEW c \in Call
    PROVE  IsFiniteSet(Waited(c)) /\ Cardinality(Waited(c)) \in Nat
<1>1. IsFiniteSet(1..Len(history[c]))
    BY FS_Interval DEF TypeOK
<1>2. Waited(c) \subseteq 1..Len(history[c])
    BY DEF Waited
<1> QED BY <1>1, <1>2, FS_Subset, FS_CardinalityType

\* With more failures or longer delays the bound is no lower.
LEMMA BoundGrows ==
    ASSUME NEW x \in Int, NEW n \in Nat, NEW k \in Nat, NEW u \in Nat, NEW v \in Nat,
           n <= k, u <= v, 10 * x <= 11 * n * u
    PROVE  10 * x <= 11 * k * v
<1>1. n * u <= k * u
    OBVIOUS
<1>2. k * u <= k * v
    OBVIOUS
<1>3. n * u \in Nat /\ k * u \in Nat /\ k * v \in Nat
    OBVIOUS
<1>4. 11 * n * u = 11 * (n * u) /\ 11 * k * v = 11 * (k * v)
    OBVIOUS
<1> QED BY <1>1, <1>2, <1>3, <1>4

\* A call that waits no longer, and goes on from no failure that it has waited for.
LEMMA NoMoreWaits ==
    ASSUME TypeOK, TypeOK', DelayInv, NEW c \in Call, totalDelay'[c] = totalDelay[c],
           InstalledPolicies' = InstalledPolicies, Waited(c) \subseteq Waited(c)'
    PROVE  /\ totalDelay'[c] >= 0
           /\ \E p \in InstalledPolicies : Bounded(c, LongestDelay(p.BackoffStrategy))'
<1>1. PICK p \in InstalledPolicies : Bounded(c, LongestDelay(p.BackoffStrategy))
    BY DEF DelayInv
<1> DEFINE longest == LongestDelay(p.BackoffStrategy)
<1>2. IsFiniteSet(Waited(c)') /\ Cardinality(Waited(c)') \in Nat
  <2>1. IsFiniteSet(1..Len(history'[c]))
    BY FS_Interval DEF TypeOK
  <2>2. Waited(c)' \subseteq 1..Len(history'[c])
    BY DEF Waited
  <2> QED BY <2>1, <2>2, FS_Subset, FS_CardinalityType
<1>3. Cardinality(Waited(c)) <= Cardinality(Waited(c)')
    BY <1>2, FS_Subset
<1>4. longest \in Nat /\ Cardinality(Waited(c)) \in Nat /\ totalDelay[c] \in Int
    BY LongestType, WaitedIsFinite DEF TypeOK
<1>5. 10 * totalDelay[c] <= 11 * Cardinality(Waited(c)) * longest
    BY <1>1 DEF Bounded
<1> HIDE DEF longest
<1>6. 10 * totalDelay[c] <= 11 * Cardinality(Waited(c)') * longest
    BY <1>2, <1>3, <1>4, <1>5, BoundGrows
<1> QED BY <1>6 DEF Bounded, longest, DelayInv

\* The delay that is added is one of the policy of the time, or none after a
\* failure that calls for none.
LEMMA OneDelay ==
    ASSUME TypeOK, NEW n \in Nat, NEW e \in Error, NEW d \in calculateDelay(n, e)
    PROVE  /\ d \in Nat /\ 10 * d <= 11 * LongestDelay(policy.BackoffStrategy)
           /\ e = NoWait => d = 0
<1>1. policy.BackoffStrategy \in BackoffStrategy
    BY PolicyType DEF TypeOK, Policy
<1>2. n + 1 \in Int /\ LongestDelay(policy.BackoffStrategy) \in Nat
    BY LongestType DEF TypeOK
<1>3. d = 0 \/ d \in CalculateDelay(policy.BackoffStrategy, n + 1)
    BY DEF calculateDelay
<1>4. d \in Nat /\ 10 * d <= 11 * LongestDelay(policy.BackoffStrategy)
    BY <1>1, <1>2, <1>3, StrategyBounds
<1>5. ASSUME e = NoWait PROVE d = 0
  <2>1. e[1] = "network" /\ e = <<"network", "low">>
    BY <1>5 DEF NoWait
  <2>2. IsRetryable(e)
    BY <2>1 DEF IsRetryable, NeverRetried, AlwaysRetried
  <2>3. GetRetryStrategy(e) = "immediate"
    BY <2>1, <2>2 DEF GetRetryStrategy
  <2>4. d \in {0}
    BY <2>3 DEF calculateDelay
  <2> QED BY <2>4
<1> QED BY <1>4, <1>5

LEMMA DelayPays ==
    ASSUME TypeOK, TypeOK', InStep, DelayInv, NEW c \in Call, AddDelay(c)
    PROVE  /\ totalDelay'[c] >= 0
           /\ \E p \in InstalledPolicies : Bounded(c, LongestDelay(p.BackoffStrategy))'
<1> DEFINE last == Len(history[c])  n == Cardinality(Waited(c))  L(p) == LongestDelay(p.BackoffStrategy)
<1>1. /\ pc[c] = "computing" /\ pc'[c] = "sleeping" /\ history' = history
      /\ last \in Nat /\ last > 0 /\ LastError(c) = history[c][last] /\ attempt[c] \in Nat
    BY DEF AddDelay, Goto, InStep, HasReport, LastError, TypeOK
<1>2. PICK d \in calculateDelay(attempt[c], LastError(c)) : totalDelay'[c] = totalDelay[c] + d
    BY DEF AddDelay, TypeOK
<1>3. LastError(c) \in Error
  <2>1. history[c] \in Seq(Errors) /\ last \in 1..Len(history[c])
    BY <1>1 DEF TypeOK
  <2>2. history[c][last] \in Errors
    BY <2>1
  <2> QED BY <1>1, <2>2, PolicyType
<1>4. /\ d \in Nat /\ 10 * d <= 11 * L(policy)
      /\ history[c][last] = NoWait => d = 0
    BY <1>1, <1>2, <1>3, OneDelay
<1>5. totalDelay[c] \in Int /\ totalDelay[c] >= 0 /\ totalDelay'[c] >= 0
    BY <1>2, <1>4, SMTT(40) DEF DelayInv, TypeOK
<1>6. CASE history[c][last] = NoWait
  <2>1. Waited(c)' = Waited(c)
    BY <1>1, <1>6 DEF Waited
  <2>2. totalDelay'[c] = totalDelay[c]
    BY <1>2, <1>4, <1>5, <1>6
  <2> QED BY <2>1, <2>2, NoMoreWaits DEF InstalledPolicies
<1>7. CASE history[c][last] # NoWait
  <2>1. last \notin Waited(c) /\ Waited(c)' = Waited(c) \cup {last}
    BY <1>1, <1>7 DEF Waited, WaitingOnLast
  <2>2. n \in Nat /\ Cardinality(Waited(c)') = n + 1
    BY <2>1, WaitedIsFinite, FS_AddElement
  <2>3. PICK p \in InstalledPolicies : 10 * totalDelay[c] <= 11 * n * L(p)
    BY DEF DelayInv, Bounded
  <2>4. PICK q \in InstalledPolicies : q \in {p, policy} /\ L(p) <= L(q) /\ L(policy) <= L(q)
    <3>1. L(p) \in Nat /\ L(policy) \in Nat /\ policy \in InstalledPolicies
      BY LongestType DEF TypeOK
    <3> HIDE DEF L
    <3>2. L(p) <= L(policy) \/ L(policy) <= L(p)
      BY <3>1
    <3> QED BY <3>1, <3>2
  <2>5. L(p) \in Nat /\ L(q) \in Nat /\ L(policy) \in Nat
    BY LongestType DEF TypeOK
  <2> HIDE DEF L, n
  <2>6. 10 * totalDelay[c] <= 11 * n * L(q)
    BY <1>5, <2>2, <2>3, <2>4, <2>5, BoundGrows
  <2>7. 10 * d <= 11 * L(q)
    BY <1>4, <2>4, <2>5
  <2>8. 11 * (n + 1) * L(q) = 11 * n * L(q) + 11 * L(q) /\ 11 * n * L(q) \in Nat
    BY <2>2, <2>5
  <2>9. 10 * (totalDelay[c] + d) <= 11 * (n + 1) * L(q)
    BY <1>4, <1>5, <2>5, <2>6, <2>7, <2>8, SMTT(40)
  <2>10. Bounded(c, L(q))'
    BY <1>2, <2>2, <2>9 DEF Bounded, L
  <2> QED BY <1>5, <2>10 DEF L
<1> QED BY <1>6, <1>7

LEMMA DelayStep == TypeOK /\ TypeOK' /\ InStep /\ DelayInv /\ [Next]_vars => DelayInv'
<1> SUFFICES ASSUME TypeOK, TypeOK', InStep, DelayInv, [Next]_vars, NEW c \in Call
             PROVE  /\ totalDelay'[c] >= 0
                    /\ \E p \in InstalledPolicies : Bounded(c, LongestDelay(p.BackoffStrategy))'
    BY DEF DelayInv, InstalledPolicies
<1> DEFINE Goal == /\ totalDelay'[c] >= 0
                   /\ \E p \in InstalledPolicies : Bounded(c, LongestDelay(p.BackoffStrategy))'
<1> HIDE DEF Goal
<1>0. pc \in [Call -> {"new", "checking", "exhausted", "running", "failed", "judging", "delaying",
                    "computing", "sleeping", "done"}]
    BY DEF TypeOK
<1>u. ASSUME history'[c] = history[c], totalDelay'[c] = totalDelay[c],
             pc'[c] \in WaitingOnLast => pc[c] \in WaitingOnLast
      PROVE  Goal
    BY <1>u, NoMoreWaits DEF Waited, InstalledPolicies, Goal
<1>1. ASSUME NEW d \in Call, ExecuteWithRetry(d) \/ StartAttempt(d) \/ Exhausted(d) \/ AttemptsLeft(d)
               \/ DecideToRetry(d)
      PROVE  Goal
    BY <1>0, <1>1, <1>u DEF ExecuteWithRetry, StartAttempt, Exhausted, AttemptsLeft, DecideToRetry, Goto, WaitingOnLast
<1>2. ASSUME NEW d \in Call, ComputeDelay(d) \/ DelayElapses(d) PROVE Goal
    BY <1>0, <1>2, <1>u DEF ComputeDelay, DelayElapses, NextAttempt, Goto, WaitingOnLast
<1>3. ASSUME NEW d \in Call, ReturnExhausted(d) \/ CancelledBeforeAttempt(d) \/ StopRetrying(d) PROVE Goal
    BY <1>0, <1>3, <1>u DEF ReturnExhausted, CancelledBeforeAttempt, StopRetrying, Returns, Goto, WaitingOnLast
<1>4. ASSUME NEW d \in Call, CancelledInDelay(d) \/ AttemptSucceeds(d) PROVE Goal
    BY <1>0, <1>4, <1>u DEF CancelledInDelay, AttemptSucceeds, Returns, Goto, WaitingOnLast
<1>5. ASSUME NEW d \in Call, NEW e \in Errors, Failing(d, e) PROVE Goal
  <2>1. CASE d # c
    BY <1>0, <1>5, <1>u, <2>1 DEF Failing, TypeOK
  <2>2. CASE d = c
    <3>1. /\ pc[c] = "running" /\ pc'[c] = "failed" /\ totalDelay'[c] = totalDelay[c]
          /\ Len(history'[c]) = Len(history[c]) + 1 /\ Len(history[c]) \in Nat
          /\ \A i \in 1..Len(history[c]) : history'[c][i] = history[c][i]
      BY <1>5, <2>2 DEF Failing, TypeOK
    <3>2. Waited(c) \subseteq Waited(c)'
      BY <3>1 DEF Waited
    <3> QED BY <3>1, <3>2, NoMoreWaits DEF InstalledPolicies, Goal
  <2> QED BY <2>1, <2>2
<1>6. ASSUME NEW d \in Call, AddDelay(d) PROVE Goal
  <2>1. CASE d # c
    BY <1>0, <1>6, <1>u, <2>1 DEF AddDelay, Goto, TypeOK
  <2>2. CASE d = c
    BY <1>6, <2>2, DelayPays DEF Goal
  <2> QED BY <2>1, <2>2
<1>7. ASSUME (\E d \in Call : Cancel(d)) \/ UpdatePolicy \/ Reset \/ UNCHANGED vars PROVE Goal
    BY <1>7, <1>u DEF Cancel, UpdatePolicy, Reset, vars
<1>8. Goal
    BY <1>1, <1>2, <1>3, <1>4, <1>5, <1>6, <1>7, OwnErrors, FailedAttempt DEF Next, Step
<1> QED BY <1>8 DEF Goal

\* For any backoff strategies and policies, also ones installed between two
\* delays of a call, a call never waits longer than its failures and the longest
\* of the policies' delays allow (backoff.go:70 CalculateDelay,
\* coordinator.go:303 calculateDelay).
THEOREM DelaysAreBounded == Spec => []TotalDelayIsBounded
<1>1. Init => DelayInv
  <2> SUFFICES ASSUME Init, NEW c \in Call
               PROVE  /\ totalDelay[c] >= 0
                      /\ \E p \in InstalledPolicies : Bounded(c, LongestDelay(p.BackoffStrategy))
    BY DEF DelayInv
  <2>1. totalDelay[c] = 0 /\ StartPolicy \in InstalledPolicies /\ Waited(c) = {}
    BY DEF Init, InstalledPolicies, Waited
  <2>2. LongestDelay(StartPolicy.BackoffStrategy) \in Nat /\ Cardinality(Waited(c)) = 0
    BY <2>1, LongestType, FS_EmptySet
  <2>3. Bounded(c, LongestDelay(StartPolicy.BackoffStrategy))
    BY <2>1, <2>2 DEF Bounded
  <2> QED BY <2>1, <2>3
<1>2. TypeOK /\ DelayInv => TotalDelayIsBounded
  <2> SUFFICES ASSUME TypeOK, DelayInv, NEW c \in Call
               PROVE  LET waits == {i \in 1..Len(history[c]) : history[c][i] # <<"network", "low">>}
                      IN /\ totalDelay[c] >= 0
                         /\ \E p \in InstalledPolicies :
                              10 * totalDelay[c] <= 11 * Cardinality(waits) * LongestDelay(p.BackoffStrategy)
    BY DEF TotalDelayIsBounded
  <2> DEFINE waits == {i \in 1..Len(history[c]) : history[c][i] # <<"network", "low">>}
  <2>1. Waited(c) \subseteq waits /\ waits \subseteq 1..Len(history[c])
    BY DEF Waited, NoWait
  <2> HIDE DEF waits
  <2>2. IsFiniteSet(waits) /\ Cardinality(waits) \in Nat
    <3>1. IsFiniteSet(1..Len(history[c]))
      BY FS_Interval DEF TypeOK
    <3> QED BY <2>1, <3>1, FS_Subset, FS_CardinalityType
  <2>3. Cardinality(Waited(c)) <= Cardinality(waits) /\ Cardinality(Waited(c)) \in Nat
    BY <2>1, <2>2, FS_Subset, WaitedIsFinite
  <2>4. PICK p \in InstalledPolicies :
             10 * totalDelay[c] <= 11 * Cardinality(Waited(c)) * LongestDelay(p.BackoffStrategy)
    BY DEF DelayInv, Bounded
  <2>5. totalDelay[c] \in Int /\ totalDelay[c] >= 0 /\ LongestDelay(p.BackoffStrategy) \in Nat
    BY LongestType DEF TypeOK, DelayInv
  <2>6. 10 * totalDelay[c] <= 11 * Cardinality(waits) * LongestDelay(p.BackoffStrategy)
    BY <2>2, <2>3, <2>4, <2>5, BoundGrows
  <2> QED BY <2>5, <2>6 DEF waits
<1>3. Spec => []DelayInv
  <2>1. TypeOK /\ InStep /\ TypeOK' /\ DelayInv /\ [Next]_vars => DelayInv'
    BY DelayStep
  <2> QED BY <1>1, <2>1, StepsCorrect, PTL DEF Spec
<1> QED BY <1>2, <1>3, StepsCorrect, PTL
=============================================================================
