--------------------------- MODULE RetryCoordinator ---------------------------
(***************************************************************************)
(* The retry coordinator of internal/retry/coordinator.go with the error   *)
(* report of internal/models/error.go and the decisions of ErrorRules.     *)
(* Each call of ExecuteWithRetry runs in a goroutine of its own; policy,   *)
(* activeRetries and the metrics are shared, and UpdatePolicy and Reset    *)
(* may come between any two steps.  ExecuteWithRetry reads the policy      *)
(* without the mutex: each read is a step, so a call may see several       *)
(* policies.                                                               *)
(*                                                                         *)
(* What the operation fails with is a pair of type and severity.  A report *)
(* is the sequence of its errors; the delay it keeps beside each error is  *)
(* left out: it is computed anew, and is not the delay the call has slept. *)
(*                                                                         *)
(* A call that ends enters two sections, one for its entry in              *)
(* activeRetries and one for the metrics; they are one step here.  For an   *)
(* operation id of its own that loses nothing: a Reset between them leaves *)
(* what a Reset before or after both leaves.                               *)
(***************************************************************************)
EXTENDS Backoff, ErrorRules, FiniteSets

CONSTANTS Call,       \* calls of ExecuteWithRetry
          Id, IdOf,   \* the operation id that each call is given
          Errors,     \* pairs of type and severity
          ErrorsOf,   \* those that the operation of each call may fail with
          Policies,   \* policies that UpdatePolicy may install
          StartPolicy,
          Env,        \* what the environment may do, of AllEnv
          NoCall

AllEnv == {"cancel", "policy", "reset"}

Policy == [MaxAttempts : Nat, Strategy : RetryStrategy, BackoffStrategy : BackoffStrategy,
           StopOnErrorTypes : SUBSET ErrorTypes]

ASSUME RetryAssumption ==
    /\ IdOf \in [Call -> Id]
    /\ Errors \subseteq Error /\ ErrorsOf \in [Call -> SUBSET Errors]
    /\ Policies \subseteq Policy /\ StartPolicy \in Policy
    /\ Env \subseteq AllEnv
    /\ NoCall \notin Call

VARIABLES
    policy,         \* c.policy
    activeRetries,  \* the call whose error report is under each operation id
    metrics,        \* TotalRetries, SuccessfulRetries, FailedRetries
    cancelled,      \* calls whose context is done
    pc,             \* where each call is
    attempt,        \* its loop variable
    history,        \* the errors in its report: the first and its RetryHistory
    resolved,       \* its report is marked resolved
    result,         \* what it returned
    totalDelay,     \* what each call has slept, or is about to
    countedBefore,  \* history: the calls that had ended at the last Reset
    forgotten       \* history: the calls that had a report at some Reset

resets == <<countedBefore, forgotten>>

vars == <<policy, activeRetries, metrics, cancelled, pc, attempt, history, resolved, result,
          totalDelay, resets>>

NoResult == [Success |-> FALSE, AttemptCount |-> 0, FinalError |-> "none"]
ZeroMetrics == [total |-> 0, successful |-> 0, failed |-> 0]

Init ==
    /\ policy = StartPolicy
    /\ activeRetries = [i \in Id |-> NoCall]
    /\ metrics = ZeroMetrics
    /\ cancelled = {}
    /\ pc = [c \in Call |-> "new"]
    /\ attempt = [c \in Call |-> 0]
    /\ history = [c \in Call |-> <<>>]
    /\ resolved = {}
    /\ result = [c \in Call |-> NoResult]
    /\ totalDelay = [c \in Call |-> 0]
    /\ countedBefore = {} /\ forgotten = {}

-----------------------------------------------------------------------------
(* models/error.go                                                         *)

NewErrorReport(e) == <<e>>
AddRetryAttempt(report, e) == Append(report, e)
MarkResolved(c) == resolved' = resolved \cup {c}

-----------------------------------------------------------------------------
(* ExecuteWithRetry                                                        *)

Goto(c, step) == pc' = [pc EXCEPT ![c] = step]

HasReport(c) == history[c] # <<>>
Done == {c \in Call : pc[c] = "done"}

trackActiveRetry(c) == activeRetries' = [activeRetries EXCEPT ![IdOf[c]] = c]

\* Mutant: the entry is never deleted.
removeActiveRetry_Forgotten(c) == UNCHANGED activeRetries

removeActiveRetry(c) == activeRetries' = [activeRetries EXCEPT ![IdOf[c]] = NoCall]

Returns(c, success, attempts, error) ==
    /\ Goto(c, "done")
    /\ result' = [result EXCEPT ![c] =
                   [Success |-> success, AttemptCount |-> attempts, FinalError |-> error]]

recordSuccess == metrics' = [metrics EXCEPT !.total = @ + 1, !.successful = @ + 1]
\* Mutant: failures are counted in the total only.
recordFailure_TotalOnly == metrics' = [metrics EXCEPT !.total = @ + 1]

recordFailure == metrics' = [metrics EXCEPT !.total = @ + 1, !.failed = @ + 1]

ExecuteWithRetry(c) ==
    /\ pc[c] = "new"
    /\ Goto(c, "checking")
    /\ attempt' = [attempt EXCEPT ![c] = 1]
    /\ UNCHANGED <<policy, activeRetries, metrics, cancelled, history, resolved, result, totalDelay, resets>>

\* Mutant: the loop is left only right behind the last attempt.
Exhausted_JustBehind(c) ==
    /\ pc[c] = "checking" /\ attempt[c] = policy.MaxAttempts + 1
    /\ Goto(c, "exhausted")
    /\ UNCHANGED <<policy, activeRetries, metrics, cancelled, attempt, history, resolved, result, totalDelay, resets>>

\* The loop condition, which ends only when the policy was lowered meanwhile:
\* shouldRetry stops a call at its last attempt.  A policy of no attempts is
\* accepted, and under it lastError is nil.
Exhausted(c) ==
    /\ pc[c] = "checking" /\ attempt[c] > policy.MaxAttempts
    /\ Goto(c, "exhausted")
    /\ UNCHANGED <<policy, activeRetries, metrics, cancelled, attempt, history, resolved, result, totalDelay, resets>>

\* The policy is read again for what is returned: if UpdatePolicy has raised
\* MaxAttempts since, AttemptCount is more than the attempts that were made.
ReturnExhausted(c) ==
    /\ pc[c] = "exhausted"
    /\ recordFailure
    /\ removeActiveRetry(c)
    /\ Returns(c, FALSE, policy.MaxAttempts, IF HasReport(c) THEN "last" ELSE "none")
    /\ UNCHANGED <<policy, cancelled, attempt, history, resolved, totalDelay, resets>>

\* A done context ends the call here without removing its report.
CancelledBeforeAttempt(c) ==
    /\ pc[c] = "checking" /\ attempt[c] <= policy.MaxAttempts
    /\ c \in cancelled
    /\ Returns(c, FALSE, attempt[c] - 1, "cancelled")
    /\ UNCHANGED <<policy, activeRetries, metrics, cancelled, attempt, history, resolved, totalDelay, resets>>

StartAttempt(c) ==
    /\ pc[c] = "checking" /\ attempt[c] <= policy.MaxAttempts
    /\ c \notin cancelled
    /\ Goto(c, "running")
    /\ UNCHANGED <<policy, activeRetries, metrics, cancelled, attempt, history, resolved, result, totalDelay, resets>>

\* Mutant: the report of a call that succeeds late is not resolved.
AttemptSucceeds_Unresolved(c) ==
    /\ pc[c] = "running"
    /\ IF HasReport(c) THEN removeActiveRetry(c) ELSE UNCHANGED activeRetries
    /\ recordSuccess
    /\ Returns(c, TRUE, attempt[c], "none")
    /\ UNCHANGED <<policy, cancelled, attempt, history, resolved, totalDelay, resets>>

AttemptSucceeds(c) ==
    /\ pc[c] = "running"
    /\ IF HasReport(c)
         THEN MarkResolved(c) /\ removeActiveRetry(c)
         ELSE UNCHANGED <<resolved, activeRetries>>
    /\ recordSuccess
    /\ Returns(c, TRUE, attempt[c], "none")
    /\ UNCHANGED <<policy, cancelled, attempt, history, totalDelay, resets>>

\* The first failure makes the report and tracks it, later ones extend it.
AttemptFails(c, e) ==
    /\ pc[c] = "running"
    /\ IF HasReport(c)
         THEN /\ history' = [history EXCEPT ![c] = AddRetryAttempt(@, e)]
              /\ UNCHANGED activeRetries
         ELSE /\ history' = [history EXCEPT ![c] = NewErrorReport(e)]
              /\ trackActiveRetry(c)
    /\ Goto(c, "failed")
    /\ UNCHANGED <<policy, metrics, cancelled, attempt, resolved, result, totalDelay, resets>>

LastError(c) == history[c][Len(history[c])]

\* Mutant: an error the categorizer calls fatal is retried.
mayRetry_IgnoresCategory(c) == LastError(c)[1] \notin policy.StopOnErrorTypes

mayRetry(c) ==
    /\ LastError(c)[1] \notin policy.StopOnErrorTypes
    /\ IsRetryable(LastError(c))

\* shouldRetry reads the policy twice: whether it leaves another attempt, and
\* whether it stops at this type of error.
AttemptsLeft(c) ==
    /\ pc[c] = "failed" /\ attempt[c] < policy.MaxAttempts
    /\ Goto(c, "judging")
    /\ UNCHANGED <<policy, activeRetries, metrics, cancelled, attempt, history, resolved, result, totalDelay, resets>>

StopRetrying(c) ==
    /\ \/ pc[c] = "failed" /\ attempt[c] >= policy.MaxAttempts
       \/ pc[c] = "judging" /\ ~mayRetry(c)
    /\ recordFailure
    /\ removeActiveRetry(c)
    /\ Returns(c, FALSE, attempt[c], "last")
    /\ UNCHANGED <<policy, cancelled, attempt, history, resolved, totalDelay, resets>>

DecideToRetry(c) ==
    /\ pc[c] = "judging" /\ mayRetry(c)
    /\ Goto(c, "delaying")
    /\ UNCHANGED <<policy, activeRetries, metrics, cancelled, attempt, history, resolved, result, totalDelay, resets>>

NextAttempt(c) == Goto(c, "checking") /\ attempt' = [attempt EXCEPT ![c] = @ + 1]

\* The policy is read again: a call that is at its last attempt by now goes to
\* the loop condition without a delay.
ComputeDelay(c) ==
    /\ pc[c] = "delaying"
    /\ IF attempt[c] < policy.MaxAttempts
         THEN Goto(c, "computing") /\ UNCHANGED attempt
         ELSE NextAttempt(c)
    /\ UNCHANGED <<policy, activeRetries, metrics, cancelled, history, resolved, result, totalDelay, resets>>

\* The strategy that the categorizer recommends only tells whether to wait at
\* all; it is never "none" here, so the policy's own is not asked for.
calculateDelay(n, e) ==
    LET recommended == GetRetryStrategy(e)
        strategy == IF recommended = "none" THEN policy.Strategy ELSE recommended
    IN IF strategy \in {"immediate", "none"}
         THEN {0}
         ELSE CalculateDelay(policy.BackoffStrategy, n + 1)

\* By now the policy may be yet another one.
AddDelay(c) ==
    /\ pc[c] = "computing"
    /\ \E delay \in calculateDelay(attempt[c], LastError(c)) :
           totalDelay' = [totalDelay EXCEPT ![c] = @ + delay]
    /\ Goto(c, "sleeping")
    /\ UNCHANGED <<policy, activeRetries, metrics, cancelled, attempt, history, resolved, result, resets>>

\* A delay of zero makes both channels of the select ready at once, so a done
\* context need not win.
DelayElapses(c) ==
    /\ pc[c] = "sleeping"
    /\ NextAttempt(c)
    /\ UNCHANGED <<policy, activeRetries, metrics, cancelled, history, resolved, result, totalDelay, resets>>

CancelledInDelay(c) ==
    /\ pc[c] = "sleeping" /\ c \in cancelled
    /\ removeActiveRetry(c)
    /\ Returns(c, FALSE, attempt[c], "cancelled")
    /\ UNCHANGED <<policy, metrics, cancelled, attempt, history, resolved, totalDelay, resets>>

Step(c) ==
    \/ ExecuteWithRetry(c) \/ Exhausted(c) \/ ReturnExhausted(c)
    \/ CancelledBeforeAttempt(c) \/ StartAttempt(c)
    \/ AttemptSucceeds(c) \/ \E e \in ErrorsOf[c] : AttemptFails(c, e)
    \/ AttemptsLeft(c) \/ StopRetrying(c) \/ DecideToRetry(c) \/ ComputeDelay(c)
    \/ AddDelay(c) \/ DelayElapses(c) \/ CancelledInDelay(c)

-----------------------------------------------------------------------------
Cancel(c) ==
    /\ "cancel" \in Env /\ pc[c] \notin {"new", "done"}
    /\ cancelled' = cancelled \cup {c}
    /\ UNCHANGED <<policy, activeRetries, metrics, pc, attempt, history, resolved, result, totalDelay, resets>>

UpdatePolicy ==
    /\ "policy" \in Env
    /\ policy' \in Policies
    /\ UNCHANGED <<activeRetries, metrics, cancelled, pc, attempt, history, resolved, result, totalDelay, resets>>

Reset ==
    /\ "reset" \in Env
    /\ activeRetries' = [i \in Id |-> NoCall]
    /\ metrics' = ZeroMetrics
    /\ countedBefore' = Done
    /\ forgotten' = forgotten \cup {c \in Call : HasReport(c)}
    /\ UNCHANGED <<policy, cancelled, pc, attempt, history, resolved, result, totalDelay>>

Next == \/ \E c \in Call : Step(c) \/ Cancel(c)
        \/ UpdatePolicy \/ Reset

Spec == Init /\ [][Next]_vars

\* Operations return and delays elapse; a call once made is not abandoned.
FairSpec == Spec /\ \A c \in Call : WF_vars(Step(c))

-----------------------------------------------------------------------------
InstalledPolicies == Policies \cup {StartPolicy}

Result == [Success : BOOLEAN, AttemptCount : Nat, FinalError : {"none", "last", "cancelled"}]

TypeOK ==
    /\ policy \in InstalledPolicies
    /\ activeRetries \in [Id -> Call \cup {NoCall}]
    /\ metrics \in [total : Nat, successful : Nat, failed : Nat]
    /\ countedBefore \subseteq Call /\ forgotten \subseteq Call
    /\ cancelled \subseteq Call /\ resolved \subseteq Call
    /\ pc \in [Call -> {"new", "checking", "exhausted", "running", "failed", "judging",
                     "delaying", "computing", "sleeping", "done"}]
    /\ attempt \in [Call -> Nat]
    /\ history \in [Call -> Seq(Errors)]
    /\ totalDelay \in [Call -> Int]
    /\ result \in [Call -> Result]

\* An error that the categorizer calls not retryable is the last of its call:
\* no attempt follows it, whatever UpdatePolicy does meanwhile.
FatalErrorIsLast ==
    \A c \in Call : \A i \in 1..(Len(history[c]) - 1) : IsRetryable(history[c][i])

\* The call left the loop by its condition, with an attempt announced that was
\* not made.
LeftByCondition(c) == attempt[c] > Len(history[c]) /\ result[c].FinalError # "cancelled"

\* What a finished call returned agrees with its report: on success there is
\* one attempt more than failures, and a report is resolved exactly on success;
\* a failure has an error unless the operation never ran.  A call that failed
\* counts the attempts it made, unless the policy took its next one away from
\* it: then it counts those of whatever policy it finds as it returns, which may
\* be fewer or more (coordinator.go:278).
ResultAgreesWithReport ==
    \A c \in Done :
        LET r == result[c]
        IN /\ r.Success => r.FinalError = "none" /\ r.AttemptCount = Len(history[c]) + 1
           /\ r.FinalError = "none" => r.Success \/ ~HasReport(c)
           /\ ~r.Success /\ ~LeftByCondition(c) => r.AttemptCount = Len(history[c])
           /\ ~r.Success /\ LeftByCondition(c) =>
                \E p \in InstalledPolicies : r.AttemptCount = p.MaxAttempts
           /\ c \in resolved <=> r.Success /\ HasReport(c)
           /\ \E p \in InstalledPolicies : r.AttemptCount <= p.MaxAttempts

\* The metrics count each call that ended after the last Reset once, as a
\* success or a failure, and none that ended before it; a call that ended
\* because its context was done is not counted at all.
MetricsCountResults ==
    LET counted == Done \ countedBefore
    IN /\ metrics.successful = Cardinality({c \in counted : result[c].Success})
       /\ metrics.failed =
            Cardinality({c \in counted : ~result[c].Success /\ result[c].FinalError # "cancelled"})
       /\ metrics.total = metrics.successful + metrics.failed

SharesId(c) == \E d \in Call \ {c} : IdOf[d] = IdOf[c]

\* Between its first failure and its end a call with an operation id of its own
\* is in activeRetries, unless a Reset came between; and a call that ended is
\* there only if its context was done before an attempt.
ActiveMeansRetrying ==
    \A c \in Call :
        /\ HasReport(c) /\ c \notin Done /\ ~SharesId(c) /\ c \notin forgotten =>
             activeRetries[IdOf[c]] = c
        /\ activeRetries[IdOf[c]] = c /\ c \in Done => result[c].FinalError = "cancelled"

LongestDelay(b) == IF b.kind = "fixed" THEN b.Delay ELSE b.MaxDelay

\* A call never waits longer than the failures that call for a wait allow: none
\* for a network error of low severity, and otherwise the longest delay of some
\* policy and the tenth that jitter may add to it.
TotalDelayIsBounded ==
    \A c \in Call :
        LET waits == {i \in 1..Len(history[c]) : history[c][i] # <<"network", "low">>}
        IN /\ totalDelay[c] >= 0
           /\ \E p \in InstalledPolicies :
                10 * totalDelay[c] <= 11 * Cardinality(waits) * LongestDelay(p.BackoffStrategy)

\* Every call ends: neither a policy change nor a cancellation keeps it
\* retrying for ever.
EveryCallEnds == \A c \in Call : pc[c] = "checking" ~> pc[c] = "done"
=============================================================================
