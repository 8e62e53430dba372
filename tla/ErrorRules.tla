------------------------------ MODULE ErrorRules ------------------------------
(***************************************************************************)
(* The data of internal/producer/errors.go: types and severities of        *)
(* errors, which of them are retried, and the default rules that give a    *)
(* type and a severity to an error's text.  A pattern is named by a few    *)
(* words of its regular expression; which texts it matches is left to      *)
(* ErrorCategorizer.  An error, for the retry coordinator, is the pair of  *)
(* its type and severity.                                                  *)
(***************************************************************************)
EXTENDS Integers, Sequences

ErrorTypes == {"network", "timeout", "broker", "authentication", "authorization",
               "serialization", "validation", "configuration", "unknown", "custom"}
Severities == {"low", "medium", "high", "critical"}
Error == ErrorTypes \X Severities
RetryStrategy == {"none", "immediate", "fixed", "linear", "exponential"}

\* Mutant: serialization errors are not listed.
NeverRetried_ButSerialization == {"authentication", "authorization", "validation",
                                  "configuration"}

NeverRetried == {"authentication", "authorization", "validation", "configuration",
                 "serialization"}
AlwaysRetried == {"network", "timeout", "broker"}

IsRetryable(e) == /\ e[1] \notin NeverRetried
                  /\ e[1] \in AlwaysRetried \/ e[2] # "critical"

GetRetryStrategy(e) ==
    CASE ~IsRetryable(e) -> "none"
      [] e = <<"network", "low">> -> "immediate"
      [] e[1] = "timeout" \/ e = <<"broker", "high">> -> "exponential"
      [] OTHER -> "linear"

\* A report judges for itself (models/error.go); nothing in the program asks it.
ErrorReport == [ErrorType : ErrorTypes, Severity : Severities,
                AttemptNumber : Nat \ {0}, IsResolved : BOOLEAN]

ShouldRetry(report, maxAttempts) ==
    /\ ~report.IsResolved
    /\ report.AttemptNumber < maxAttempts
    /\ report.Severity # "critical"
    /\ report.ErrorType \notin {"validation", "configuration", "authentication", "authorization"}

-----------------------------------------------------------------------------
CategoryRule == [Pattern : STRING, ErrorType : ErrorTypes, Severity : Severities,
                 IsRetryable : BOOLEAN]

Rule(pattern, type, severity, retryable) ==
    [Pattern |-> pattern, ErrorType |-> type, Severity |-> severity, IsRetryable |-> retryable]

\* The rules in the order in which they are added, and so tried.
addDefaultRules ==
    << Rule("connection refused", "network", "high", TRUE),
       Rule("connection reset", "network", "medium", TRUE),
       Rule("timeout|timed out", "timeout", "medium", TRUE),
       Rule("request timeout", "timeout", "medium", TRUE),
       Rule("broker not available", "broker", "high", TRUE),
       Rule("no leader", "broker", "medium", TRUE),
       Rule("kafka request timed out", "timeout", "medium", TRUE),
       Rule("partition not available", "broker", "medium", TRUE),
       Rule("authentication failed", "authentication", "critical", FALSE),
       Rule("access denied", "authorization", "critical", FALSE),
       Rule("unauthorized", "authorization", "critical", FALSE),
       Rule("message too large", "validation", "low", FALSE),
       Rule("invalid topic", "validation", "low", FALSE),
       Rule("malformed", "validation", "low", FALSE),
       Rule("configuration error", "configuration", "critical", FALSE),
       Rule("invalid broker", "configuration", "critical", FALSE),
       Rule("serialization failed", "serialization", "medium", FALSE),
       Rule("json error", "serialization", "medium", FALSE) >>

\* What CategorizeError says of a text that no rule matches.
UnknownRule == Rule("none", "unknown", "medium", TRUE)

\* The coordinator decides by type and severity, a rule says it itself.
Consistent(rule) == rule.IsRetryable = IsRetryable(<<rule.ErrorType, rule.Severity>>)
=============================================================================
