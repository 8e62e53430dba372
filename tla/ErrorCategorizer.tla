--------------------------- MODULE ErrorCategorizer ---------------------------
(***************************************************************************)
(* The error categorizer of internal/producer/errors.go: a list of rules,  *)
(* kept twice, that readers search for the first rule that matches, while  *)
(* AddRule appends to it, ClearRules empties it and ResetToDefaults does   *)
(* both.  Readers hold the read lock and change nothing, so what they are  *)
(* told is a function of the state, which the properties quantify over.    *)
(* AddRule and ClearRules hold the write lock.  The second half of         *)
(* ResetToDefaults holds none: its appends race with everybody.            *)
(*                                                                         *)
(* An append reads the slice and writes it back: two steps.  The slice's   *)
(* header is three words; whoever reads it while a goroutine without the   *)
(* lock writes it may get words of both and read past the array, which     *)
(* ends the process (TornRead).  Of two appends that start from one header *)
(* the later write wins; that they may share the array behind it is left   *)
(* out.                                                                    *)
(***************************************************************************)
EXTENDS ErrorRules

CONSTANTS Goroutine,   \* goroutines that change rules
          Defaults,    \* the default rules, or some of them
          Custom,      \* rules that AddRule may be given
          Compiles,    \* patterns that regexp.Compile accepts
          Message,     \* texts of errors
          Matches,     \* the texts each pattern matches
          Nobody,
          MaxCalls     \* bound on calls that change rules

ASSUME CategorizerAssumption ==
    /\ Defaults \in Seq({addDefaultRules[i] : i \in DOMAIN addDefaultRules})
    /\ Custom \subseteq CategoryRule
    /\ \A i \in DOMAIN Defaults : Defaults[i].Pattern \in Compiles
    /\ Matches \in [Compiles -> SUBSET Message]
    /\ Nobody \notin Goroutine
    /\ MaxCalls \in Nat

VARIABLES
    rules, compiledRules,   \* the two lists
    mutex,                  \* who holds the write lock
    pc,                     \* where each goroutine is
    todo,                   \* the rules it has yet to append
    slice,                  \* the list that its append has read
    calls,                  \* how many calls have been made
    overlapped,             \* history: a fill without the lock ran beside another call
    intact,                 \* history: the defaults were filled in alone, and not cleared
    crashed                 \* a torn header ended the process

vars == <<rules, compiledRules, mutex, pc, todo, slice, calls, overlapped, intact, crashed>>

Init ==
    /\ rules = Defaults /\ compiledRules = Defaults
    /\ mutex = Nobody
    /\ pc = [g \in Goroutine |-> "idle"]
    /\ todo = [g \in Goroutine |-> <<>>]
    /\ slice = [g \in Goroutine |-> <<>>]
    /\ calls = 0
    /\ overlapped = FALSE /\ intact = TRUE /\ crashed = FALSE

Goto(g, step) == pc' = [pc EXCEPT ![g] = step]

Alone(g) == \A h \in Goroutine \ {g} : pc[h] = "idle"

\* A call is counted, and notes whether it starts beside another.
Begin(g, step, list) ==
    /\ pc[g] = "idle" /\ calls < MaxCalls
    /\ Goto(g, step)
    /\ todo' = [todo EXCEPT ![g] = list]
    /\ calls' = calls + 1
    /\ overlapped' = ~Alone(g)
    /\ UNCHANGED <<rules, compiledRules, slice, crashed>>

Lock(g) == mutex = Nobody /\ mutex' = g
Unlock == mutex' = Nobody

-----------------------------------------------------------------------------
(* addCompiledRule, once for each rule in todo[g].                         *)

\* A pattern that does not compile is skipped, and nobody is told.
SkipInvalid(g) ==
    /\ pc[g] = "append" /\ todo[g] # <<>> /\ Head(todo[g]).Pattern \notin Compiles
    /\ todo' = [todo EXCEPT ![g] = Tail(@)]
    /\ UNCHANGED <<rules, compiledRules, mutex, pc, slice, calls, overlapped, intact, crashed>>

LoadRules(g) ==
    /\ pc[g] = "append" /\ todo[g] # <<>> /\ Head(todo[g]).Pattern \in Compiles
    /\ Goto(g, "storeRules")
    /\ slice' = [slice EXCEPT ![g] = rules]
    /\ UNCHANGED <<rules, compiledRules, mutex, todo, calls, overlapped, intact, crashed>>

Forget(g) == slice' = [slice EXCEPT ![g] = <<>>]

StoreRules(g) ==
    /\ pc[g] = "storeRules"
    /\ Goto(g, "loadCompiled")
    /\ rules' = Append(slice[g], Head(todo[g]))
    /\ Forget(g)
    /\ UNCHANGED <<compiledRules, mutex, todo, calls, overlapped, intact, crashed>>

LoadCompiled(g) ==
    /\ pc[g] = "loadCompiled"
    /\ Goto(g, "storeCompiled")
    /\ slice' = [slice EXCEPT ![g] = compiledRules]
    /\ UNCHANGED <<rules, compiledRules, mutex, todo, calls, overlapped, intact, crashed>>

\* Mutant: the latest rule is tried first.
StoreCompiled_Prepends(g) ==
    /\ pc[g] = "storeCompiled"
    /\ Goto(g, "append")
    /\ compiledRules' = <<Head(todo[g])>> \o slice[g]
    /\ todo' = [todo EXCEPT ![g] = Tail(@)]
    /\ Forget(g)
    /\ UNCHANGED <<rules, mutex, calls, overlapped, intact, crashed>>

StoreCompiled(g) ==
    /\ pc[g] = "storeCompiled"
    /\ Goto(g, "append")
    /\ compiledRules' = Append(slice[g], Head(todo[g]))
    /\ todo' = [todo EXCEPT ![g] = Tail(@)]
    /\ Forget(g)
    /\ UNCHANGED <<rules, mutex, calls, overlapped, intact, crashed>>

addCompiledRule(g) == \/ SkipInvalid(g) \/ LoadRules(g) \/ StoreRules(g)
                      \/ LoadCompiled(g) \/ StoreCompiled(g)

-----------------------------------------------------------------------------
AddRule(g, rule) ==
    /\ Begin(g, "append", <<rule>>)
    /\ Lock(g)
    /\ UNCHANGED intact

AddRuleReturns(g) ==
    /\ pc[g] = "append" /\ todo[g] = <<>> /\ mutex = g
    /\ Goto(g, "idle")
    /\ Unlock
    /\ UNCHANGED <<rules, compiledRules, todo, slice, calls, overlapped, intact, crashed>>

\* ClearRules by itself, or as the first half of ResetToDefaults.
ClearRules(g) ==
    /\ \/ Begin(g, "clear", <<>>) \/ Begin(g, "clear", Defaults)
    /\ Lock(g)
    /\ intact' = FALSE

EmptyRules(g) ==
    /\ pc[g] = "clear"
    /\ Goto(g, "clearCompiled")
    /\ rules' = <<>>
    /\ UNCHANGED <<compiledRules, mutex, todo, slice, calls, overlapped, intact, crashed>>

\* Mutant: only the one list is emptied.
EmptyCompiled_Forgotten(g) ==
    /\ pc[g] = "clearCompiled"
    /\ Goto(g, IF todo[g] = <<>> THEN "idle" ELSE "append")
    /\ Unlock
    /\ UNCHANGED <<rules, compiledRules, todo, slice, calls, overlapped, intact, crashed>>

EmptyCompiled(g) ==
    /\ pc[g] = "clearCompiled"
    /\ Goto(g, IF todo[g] = <<>> THEN "idle" ELSE "append")
    /\ compiledRules' = <<>>
    /\ Unlock
    /\ UNCHANGED <<rules, todo, slice, calls, overlapped, intact, crashed>>

\* The end of ResetToDefaults.
ResetReturns(g) ==
    /\ pc[g] = "append" /\ todo[g] = <<>> /\ mutex # g
    /\ Goto(g, "idle")
    /\ intact' = ~overlapped
    /\ UNCHANGED <<rules, compiledRules, mutex, todo, slice, calls, overlapped, crashed>>

\* Goroutines in the half of ResetToDefaults that holds no lock.
Filling == {g \in Goroutine : pc[g] # "idle" /\ mutex # g}

Writing == {"clear", "clearCompiled", "storeRules", "storeCompiled"}

\* A reader keeps away from who holds the lock, but not from who does not; and
\* who does not keeps away from nobody.
TornRead(g) ==
    /\ pc[g] \in Writing
    /\ g \in Filling \/ Filling \ {g} # {}
    /\ crashed' = TRUE
    /\ UNCHANGED <<rules, compiledRules, mutex, pc, todo, slice, calls, overlapped, intact>>

Step(g) == \/ addCompiledRule(g) \/ AddRuleReturns(g)
           \/ EmptyRules(g) \/ EmptyCompiled(g) \/ ResetReturns(g)

Next == /\ ~crashed
        /\ \E g \in Goroutine :
              \/ Step(g) \/ ClearRules(g) \/ TornRead(g)
              \/ \E rule \in Custom : AddRule(g, rule)

Spec == Init /\ [][Next]_vars

-----------------------------------------------------------------------------
(* What readers are told.                                                  *)

Hits(rule, m) == m \in Matches[rule.Pattern]

IsFirst(list, m, i) == /\ i \in DOMAIN list /\ Hits(list[i], m)
                       /\ \A j \in 1..(i - 1) : ~Hits(list[j], m)

\* The first rule that matches decides.
Decide(list, m) ==
    IF \E i \in DOMAIN list : IsFirst(list, m, i)
      THEN list[CHOOSE i \in DOMAIN list : IsFirst(list, m, i)]
      ELSE UnknownRule

CategorizeError(m) == Decide(compiledRules, m)

\* What the retry coordinator makes of the answer.
Retried(m) == IsRetryable(<<CategorizeError(m).ErrorType, CategorizeError(m).Severity>>)

-----------------------------------------------------------------------------
KnownRules == {Defaults[i] : i \in DOMAIN Defaults} \cup {r \in Custom : r.Pattern \in Compiles}

TypeOK ==
    /\ rules \in Seq(KnownRules) /\ compiledRules \in Seq(KnownRules)
    /\ mutex \in Goroutine \cup {Nobody}
    /\ pc \in [Goroutine -> {"idle", "append", "storeRules", "loadCompiled", "storeCompiled",
                             "clear", "clearCompiled"}]
    /\ todo \in [Goroutine -> Seq({Defaults[i] : i \in DOMAIN Defaults} \cup Custom)]
    /\ slice \in [Goroutine -> Seq(KnownRules)]
    /\ calls \in 0..MaxCalls
    /\ overlapped \in BOOLEAN /\ intact \in BOOLEAN /\ crashed \in BOOLEAN

\* While the defaults stand, filled in by a reset that no other call ran beside
\* and not cleared since, they decide every error that one of them matches,
\* whatever custom rules were added; and when no call is under way, the list
\* that GetRules and GetStatistics report is the one that decides.
DefaultsDecide ==
    intact =>
      /\ \A m \in Message :
            Decide(Defaults, m) # UnknownRule => CategorizeError(m) = Decide(Defaults, m)
      /\ (\A g \in Goroutine : pc[g] = "idle") => rules = compiledRules

\* A rule says whether its errors are retried, and the coordinator works it out
\* again from type and severity.  Whatever the lists hold in the middle of a
\* reset, the two agree unless a custom rule decides.
DecisionsAgree ==
    \A m \in Message :
        LET rule == CategorizeError(m)
        IN rule.IsRetryable = Retried(m) \/ rule \in Custom

\* An error that is not retried stays so while rules are only added: a custom
\* rule never takes an error away from the rule that decides it now.  Only
\* clearing forgives, or calls that ran beside a fill without the lock.
AddingNeverForgives ==
    [][\A m \in Message :
         ~Retried(m) /\ Retried(m)' =>
            overlapped \/ \E g \in Goroutine : pc[g] = "clearCompiled"]_vars
=============================================================================
