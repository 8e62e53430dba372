---------------------------- MODULE HealthManager ----------------------------
(***************************************************************************)
(* The health manager of internal/health/health.go: CheckHealth takes a    *)
(* copy of the list of checkers, runs each in a goroutine of its own, and  *)
(* collects as many results from a channel with room for all of them.  The *)
(* timeout of the context it hands to the checkers ends nothing here: that *)
(* is up to the checkers, some of which may hang (Hanging).                *)
(***************************************************************************)
EXTENDS Integers, Sequences, FiniteSets

CONSTANTS Call,       \* GETs of /api/v1/health
          Checker, Name,
          Hanging     \* checkers that may never return

Statuses == {"healthy", "degraded", "unhealthy"}

ASSUME HealthAssumption == DOMAIN Name = Checker /\ Hanging \subseteq Checker

VARIABLES
    checkers,   \* the registered checkers, in order
    snapshot,   \* the copy each call works with
    running,    \* indices of the copy whose checkers have not returned
    channel,    \* results not yet collected
    response,   \* the response each call builds
    code,       \* the HTTP status written, or 0
    results     \* history: what the checkers of each call returned, by their index

healthVars == <<checkers, snapshot, running, channel, response, code, results>>

EmptyResponse == [Status |-> "healthy", Checks |-> [n \in {} |-> "healthy"]]

HealthInit ==
    /\ checkers = <<>>
    /\ snapshot = [c \in Call |-> <<>>]
    /\ running = [c \in Call |-> {}]
    /\ channel = [c \in Call |-> <<>>]
    /\ response = [c \in Call |-> EmptyResponse]
    /\ code = [c \in Call |-> 0]
    /\ results = [c \in Call |-> {}]

Registered == {checkers[i] : i \in DOMAIN checkers}

RegisterChecker(k) ==
    /\ checkers' = Append(checkers, k)
    /\ UNCHANGED <<snapshot, running, channel, response, code, results>>

Active == {c \in Call : snapshot[c] # <<>> /\ code[c] = 0}

CheckHealth(c) ==
    /\ snapshot[c] = <<>> /\ code[c] = 0 /\ checkers # <<>>
    /\ snapshot' = [snapshot EXCEPT ![c] = checkers]
    /\ running' = [running EXCEPT ![c] = DOMAIN checkers]
    /\ UNCHANGED <<checkers, channel, response, code, results>>

\* The goroutine of the i-th checker.
CheckReturns(c, i) ==
    /\ i \in running[c]
    /\ running' = [running EXCEPT ![c] = @ \ {i}]
    /\ \E status \in Statuses :
          /\ channel' = [channel EXCEPT ![c] = Append(@, [name |-> Name[snapshot[c][i]],
                                                          status |-> status])]
          /\ results' = [results EXCEPT ![c] = @ \cup {[index |-> i, status |-> status]}]
    /\ UNCHANGED <<checkers, snapshot, response, code>>

\* Mutant: the latest result that is not healthy decides.
Overall_Latest(status, result) == IF result = "healthy" THEN status ELSE result

Overall(status, result) ==
    IF result = "unhealthy" THEN "unhealthy"
    ELSE IF result = "degraded" /\ status = "healthy" THEN "degraded" ELSE status

Collect(c) ==
    /\ channel[c] # <<>>
    /\ LET result == Head(channel[c])
           checks == response[c].Checks
       IN response' = [response EXCEPT ![c] =
              [Status |-> Overall(response[c].Status, result.status),
               Checks |-> [n \in DOMAIN checks \cup {result.name} |->
                             IF n = result.name THEN result.status ELSE checks[n]]]]
    /\ channel' = [channel EXCEPT ![c] = Tail(@)]
    /\ UNCHANGED <<checkers, snapshot, running, code, results>>

\* Mutant: the loop counts the names it has, not the results.
ServeHTTP_CountsNames(c) ==
    /\ c \in Active /\ Cardinality(DOMAIN response[c].Checks) = Len(snapshot[c])
    /\ code' = [code EXCEPT ![c] = IF response[c].Status = "unhealthy" THEN 503 ELSE 200]
    /\ UNCHANGED <<checkers, snapshot, running, channel, response, results>>

\* All results are in.
ServeHTTP(c) ==
    /\ c \in Active /\ running[c] = {} /\ channel[c] = <<>>
    /\ code' = [code EXCEPT ![c] = IF response[c].Status = "unhealthy" THEN 503 ELSE 200]
    /\ UNCHANGED <<checkers, snapshot, running, channel, response, results>>

HealthStep(c) == \/ CheckHealth(c) \/ Collect(c) \/ ServeHTTP(c)
                 \/ \E i \in running[c] : CheckReturns(c, i)

-----------------------------------------------------------------------------
Names == {Name[k] : k \in Checker}
Result == [name : Names, status : Statuses]

HealthTypeOK ==
    /\ checkers \in Seq(Checker)
    /\ snapshot \in [Call -> Seq(Checker)]
    /\ running \in [Call -> SUBSET Nat]
    /\ \A c \in Call : running[c] \subseteq DOMAIN snapshot[c]
    /\ channel \in [Call -> Seq(Result)]
    /\ response \in [Call -> [Status : Statuses,
                              Checks : UNION {[N -> Statuses] : N \in SUBSET Names}]]
    /\ code \in [Call -> {0, 200, 503}]
    /\ results \in [Call -> SUBSET [index : Nat, status : Statuses]]

\* An answer waits for each check that was registered when it was asked for, and
\* is as bad as the worst of all their results, in whatever order they came in,
\* those included that a result of the same name has overwritten in Checks; and
\* Checks names them all, each with a result that came under its name.
WorstDecides ==
    \A c \in Call : code[c] # 0 =>
        LET checks == response[c].Checks
            name(i) == Name[snapshot[c][i]]
            some(status) == \E r \in results[c] : r.status = status
        IN /\ {r.index : r \in results[c]} = DOMAIN snapshot[c]
           /\ code[c] = 503 <=> some("unhealthy")
           /\ response[c].Status = "degraded" <=> some("degraded") /\ ~some("unhealthy")
           /\ DOMAIN checks = {name(i) : i \in DOMAIN snapshot[c]}
           /\ \A n \in DOMAIN checks :
                \E r \in results[c] : name(r.index) = n /\ r.status = checks[n]
=============================================================================
