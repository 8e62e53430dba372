---------------------------- MODULE MCCategorizer ----------------------------
(* Instances of ErrorCategorizer for TLC. *)
EXTENDS ErrorCategorizer, TLC

CONSTANTS g1, g2, connectionLost, denied, garbled, outage

\* A rule of each kind: retried, critical, and fatal without being critical.
SomeDefaults == <<addDefaultRules[1], addDefaultRules[10], addDefaultRules[17]>>

\* One custom rule contradicts what IsRetryable says of its type; it matches
\* errors of a default rule too.  The other does not compile.
Outage == Rule("outage|denied", "network", "low", FALSE)
Broken == Rule("(", "custom", "low", TRUE)
TwoCustom == {Outage, Broken}

Symmetric == Permutations({g1, g2})

SomePatterns == {SomeDefaults[i].Pattern : i \in DOMAIN SomeDefaults} \cup {Outage.Pattern}

\* "denied" is a text that two default rules and a custom one match.
SomeMatches ==
    [p \in SomePatterns |->
       CASE p = "connection refused" -> {connectionLost}
         [] p = "access denied" -> {denied}
         [] p = "serialization failed" -> {garbled, denied}
         [] p = "outage|denied" -> {outage, denied}]
=============================================================================
