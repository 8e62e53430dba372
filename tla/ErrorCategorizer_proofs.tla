----------------------- MODULE ErrorCategorizer_proofs -----------------------
(***************************************************************************)
(* Theorems about ErrorCategorizer, for any goroutines, rules, patterns    *)
(* and texts, and any number of calls.  IInv is inductive: types, who      *)
(* holds the lock, what a fill that nobody ran beside has done so far, and *)
(* what the defaults look like while they stand.                           *)
(***************************************************************************)
EXTENDS ErrorCategorizer, SequenceTheorems, TLAPS

Storing == {"storeRules", "loadCompiled", "storeCompiled"}
Clearing == {"clear", "clearCompiled"}

DefaultRules == {Defaults[i] : i \in DOMAIN Defaults}

\* A rule that is being appended has a pattern that compiles.
Types ==
    /\ TypeOK
    /\ \A g \in Goroutine : pc[g] \in Storing =>
          todo[g] # <<>> /\ Head(todo[g]).Pattern \in Compiles

-----------------------------------------------------------------------------
(* The constants.                                                          *)

LEMMA DefaultsType ==
    /\ Defaults \in Seq(DefaultRules) /\ Defaults \in Seq(KnownRules)
    /\ Defaults \in Seq(DefaultRules \cup Custom)
    /\ Len(Defaults) \in Nat /\ DOMAIN Defaults = 1..Len(Defaults)
    /\ \A i \in 1..Len(Defaults) : Defaults[i].Pattern \in Compiles
<1> DEFINE T == {addDefaultRules[i] : i \in DOMAIN addDefaultRules}
<1>1. Defaults \in Seq(T)
    BY CategorizerAssumption DEF CategorizerAssumption
<1> HIDE DEF T
<1>2. DOMAIN Defaults = 1..Len(Defaults) /\ Len(Defaults) \in Nat
    BY <1>1, LenProperties
<1>3. Defaults \in Seq(DefaultRules)
  <2>1. Defaults \in [1..Len(Defaults) -> DefaultRules]
      BY <1>1, <1>2, LenProperties DEF DefaultRules
  <2> QED BY <2>1, <1>2
<1>4. DefaultRules \subseteq KnownRules /\ DefaultRules \subseteq DefaultRules \cup Custom
    BY DEF DefaultRules, KnownRules
<1>5. Defaults \in Seq(KnownRules) /\ Defaults \in Seq(DefaultRules \cup Custom)
    BY <1>3, <1>4, SeqMonotonic
<1> QED BY <1>2, <1>3, <1>5, CategorizerAssumption DEF CategorizerAssumption

\* What may be appended, once its pattern compiles, is a known rule.
LEMMA Appendable ==
    ASSUME NEW r \in DefaultRules \cup Custom, r.Pattern \in Compiles
    PROVE  r \in KnownRules
BY DEF DefaultRules, KnownRules

-----------------------------------------------------------------------------
LEMMA TypesInit == Init => Types
<1> SUFFICES ASSUME Init PROVE Types
    OBVIOUS
<1>1. \A g \in Goroutine : pc[g] = "idle"
    BY DEF Init
<1>2. todo \in [Goroutine -> Seq(DefaultRules \cup Custom)]
    BY EmptySeq DEF Init
<1>3. todo \in [Goroutine -> Seq({Defaults[i] : i \in DOMAIN Defaults} \cup Custom)]
    BY <1>2 DEF DefaultRules
<1>4. rules \in Seq(KnownRules) /\ compiledRules \in Seq(KnownRules)
    BY DefaultsType DEF Init
<1>5. slice \in [Goroutine -> Seq(KnownRules)]
    BY EmptySeq DEF Init
<1>6. calls \in 0..MaxCalls
    BY CategorizerAssumption DEF Init, CategorizerAssumption
<1>7. TypeOK
    BY <1>3, <1>4, <1>5, <1>6 DEF Init, TypeOK
<1> QED BY <1>1, <1>7 DEF Types, Storing

LEMMA TypesStep == Types /\ [Next]_vars => Types'
<1> SUFFICES ASSUME Types, [Next]_vars PROVE Types'
    OBVIOUS
<1> DEFINE Todo == Seq(DefaultRules \cup Custom)
<1>t. /\ rules \in Seq(KnownRules) /\ compiledRules \in Seq(KnownRules)
      /\ todo \in [Goroutine -> Todo] /\ slice \in [Goroutine -> Seq(KnownRules)]
    BY DEF Types, TypeOK, DefaultRules
<1>e. <<>> \in Seq(KnownRules) /\ <<>> \in Todo
    BY EmptySeq
<1>tail. ASSUME NEW g \in Goroutine, todo[g] # <<>>
         PROVE  Tail(todo[g]) \in Todo /\ Head(todo[g]) \in DefaultRules \cup Custom
    BY <1>t, <1>tail, HeadTailProperties
<1>app. ASSUME NEW g \in Goroutine, pc[g] \in Storing
        PROVE  Append(slice[g], Head(todo[g])) \in Seq(KnownRules)
  <2>1. todo[g] # <<>> /\ Head(todo[g]).Pattern \in Compiles
      BY <1>app DEF Types
  <2>2. Head(todo[g]) \in KnownRules
      BY <2>1, <1>tail, Appendable
  <2> QED BY <2>2, <1>t, AppendProperties
<1>keep. ASSUME todo' \in [Goroutine -> Todo] PROVE
            todo' \in [Goroutine -> Seq({Defaults[i] : i \in DOMAIN Defaults} \cup Custom)]
    BY <1>keep DEF DefaultRules
<1> HIDE DEF Todo
<1>1. ASSUME NEW g \in Goroutine, SkipInvalid(g) PROVE Types'
  <2>1. todo' \in [Goroutine -> Todo]
      BY <1>1, <1>t, <1>tail DEF SkipInvalid
  <2>2. \A h \in Goroutine : pc[h] \in Storing => todo'[h] = todo[h]
      BY <1>1, <1>t DEF SkipInvalid, Storing
  <2> QED BY <1>1, <2>1, <2>2, <1>keep DEF SkipInvalid, Types, TypeOK
<1>2. ASSUME NEW g \in Goroutine, LoadRules(g) PROVE Types'
  <2>1. slice' \in [Goroutine -> Seq(KnownRules)]
      BY <1>2, <1>t DEF LoadRules
  <2> QED BY <1>2, <2>1 DEF LoadRules, Goto, Types, TypeOK, Storing
<1>3. ASSUME NEW g \in Goroutine, StoreRules(g) PROVE Types'
  <2>1. slice' \in [Goroutine -> Seq(KnownRules)]
      BY <1>3, <1>t, <1>e DEF StoreRules, Forget
  <2>2. rules' \in Seq(KnownRules)
      BY <1>3, <1>app DEF StoreRules, Storing
  <2> QED BY <1>3, <2>1, <2>2 DEF StoreRules, Goto, Types, TypeOK, Storing
<1>4. ASSUME NEW g \in Goroutine, LoadCompiled(g) PROVE Types'
  <2>1. slice' \in [Goroutine -> Seq(KnownRules)]
      BY <1>4, <1>t DEF LoadCompiled
  <2> QED BY <1>4, <2>1 DEF LoadCompiled, Goto, Types, TypeOK, Storing
<1>5. ASSUME NEW g \in Goroutine, StoreCompiled(g) PROVE Types'
  <2>1. slice' \in [Goroutine -> Seq(KnownRules)]
      BY <1>5, <1>t, <1>e DEF StoreCompiled, Forget
  <2>2. compiledRules' \in Seq(KnownRules)
      BY <1>5, <1>app DEF StoreCompiled, Storing
  <2>3. todo' \in [Goroutine -> Todo] /\ \A h \in Goroutine \ {g} : todo'[h] = todo[h]
      BY <1>5, <1>t, <1>tail DEF StoreCompiled, Types, Storing
  <2>4. pc' = [pc EXCEPT ![g] = "append"]
      BY <1>5 DEF StoreCompiled, Goto
  <2> QED BY <1>5, <2>1, <2>2, <2>3, <2>4, <1>keep DEF StoreCompiled, Types, TypeOK, Storing
<1>6. ASSUME NEW g \in Goroutine, NEW r \in Custom, AddRule(g, r) PROVE Types'
  <2>1. todo' \in [Goroutine -> Todo] /\ \A h \in Goroutine \ {g} : todo'[h] = todo[h]
    <3>1. <<r>> \in Todo
        BY DEF Todo
    <3> QED BY <3>1, <1>6, <1>t DEF AddRule, Begin
  <2>2. calls' \in 0..MaxCalls
      BY <1>6, CategorizerAssumption DEF AddRule, Begin, Types, TypeOK, CategorizerAssumption
  <2>3. pc' = [pc EXCEPT ![g] = "append"] /\ overlapped' \in BOOLEAN /\ mutex' = g
      BY <1>6 DEF AddRule, Begin, Goto, Alone, Lock
  <2> QED BY <1>6, <2>1, <2>2, <2>3, <1>keep DEF AddRule, Begin, Types, TypeOK, Storing
<1>7. ASSUME NEW g \in Goroutine, AddRuleReturns(g) PROVE Types'
    BY <1>7 DEF AddRuleReturns, Goto, Unlock, Types, TypeOK, Storing
<1>8. ASSUME NEW g \in Goroutine, ClearRules(g) PROVE Types'
  <2>1. todo' \in [Goroutine -> Todo] /\ \A h \in Goroutine \ {g} : todo'[h] = todo[h]
    <3>1. Defaults \in Todo
        BY DefaultsType DEF Todo
    <3> QED BY <3>1, <1>8, <1>t, <1>e DEF ClearRules, Begin
  <2>2. calls' \in 0..MaxCalls
      BY <1>8, CategorizerAssumption DEF ClearRules, Begin, Types, TypeOK, CategorizerAssumption
  <2>3. pc' = [pc EXCEPT ![g] = "clear"] /\ overlapped' \in BOOLEAN /\ mutex' = g
      BY <1>8 DEF ClearRules, Begin, Goto, Alone, Lock
  <2>4. UNCHANGED <<rules, compiledRules, slice, crashed>> /\ intact' = FALSE
      BY <1>8 DEF ClearRules, Begin
  <2> QED BY <2>1, <2>2, <2>3, <2>4, <1>keep DEF Types, TypeOK, Storing
<1>9. ASSUME NEW g \in Goroutine, EmptyRules(g) PROVE Types'
    BY <1>9, <1>e DEF EmptyRules, Goto, Types, TypeOK, Storing
<1>10. ASSUME NEW g \in Goroutine, EmptyCompiled(g) PROVE Types'
    BY <1>10, <1>e DEF EmptyCompiled, Goto, Unlock, Types, TypeOK, Storing
<1>11. ASSUME NEW g \in Goroutine, ResetReturns(g) PROVE Types'
    BY <1>11 DEF ResetReturns, Goto, Types, TypeOK, Storing
<1>12. ASSUME NEW g \in Goroutine, TornRead(g) PROVE Types'
    BY <1>12 DEF TornRead, Types, TypeOK, Storing
<1>13. CASE UNCHANGED vars
    BY <1>13 DEF vars, Types, TypeOK, Storing
<1> QED BY <1>1, <1>2, <1>3, <1>4, <1>5, <1>6, <1>7, <1>8, <1>9, <1>10, <1>11, <1>12, <1>13
        DEF Next, Step, addCompiledRule

\* The categorizer's state is well typed: the lists hold rules that compile and
\* nothing else, through any interleaving of AddRule, ClearRules and
\* ResetToDefaults.
THEOREM TypeCorrect == Spec => []TypeOK
<1>1. Types => TypeOK
    BY DEF Types
<1> QED BY <1>1, TypesInit, TypesStep, PTL DEF Spec

-----------------------------------------------------------------------------
(* What readers are told is settled by the first rule that matches.        *)

LEMMA FirstDecides ==
    ASSUME NEW S, NEW list \in Seq(S), NEW m, NEW i, IsFirst(list, m, i)
    PROVE  Decide(list, m) = list[i]
<1>1. DOMAIN list \subseteq Nat
    BY LenProperties
<1>2. ASSUME NEW j, IsFirst(list, m, j) PROVE j = i
  <2>1. i \in Nat /\ j \in Nat /\ i >= 1 /\ j >= 1
      BY <1>2, LenProperties DEF IsFirst
  <2>2. ~(i < j) /\ ~(j < i)
      BY <1>2, <2>1 DEF IsFirst
  <2> QED BY <2>1, <2>2
<1>3. i \in DOMAIN list
    BY DEF IsFirst
<1> DEFINE first == CHOOSE j \in DOMAIN list : IsFirst(list, m, j)
<1>4. IsFirst(list, m, first)
    BY <1>3
<1>5. first = i
    BY <1>2, <1>4
<1> QED BY <1>3, <1>5 DEF Decide

\* A longer list that starts in the same way tells the same.
LEMMA LongerListDecides ==
    ASSUME NEW S, NEW short \in Seq(S), NEW long \in Seq(S), NEW m,
           Len(short) <= Len(long), \A i \in 1..Len(short) : long[i] = short[i],
           Decide(short, m) # UnknownRule
    PROVE  Decide(long, m) = Decide(short, m)
<1>1. PICK i \in DOMAIN short : IsFirst(short, m, i)
    BY DEF Decide
<1>2. /\ DOMAIN short = 1..Len(short) /\ DOMAIN long = 1..Len(long)
      /\ Len(short) \in Nat /\ Len(long) \in Nat
    BY LenProperties
<1>3. i \in 1..Len(short) /\ i \in 1..Len(long) /\ 1..(i - 1) \subseteq 1..Len(short)
    BY <1>2
<1>4. IsFirst(long, m, i)
    BY <1>1, <1>2, <1>3 DEF IsFirst
<1>5. Decide(short, m) = short[i] /\ Decide(long, m) = long[i]
    BY <1>1, <1>4, FirstDecides
<1> QED BY <1>3, <1>5

LEMMA AppendKeepsDecision ==
    ASSUME NEW list \in Seq(KnownRules), NEW r \in KnownRules, NEW m,
           Decide(list, m) # UnknownRule
    PROVE  Decide(Append(list, r), m) = Decide(list, m)
<1>1. /\ Append(list, r) \in Seq(KnownRules) /\ Len(Append(list, r)) = Len(list) + 1
      /\ \A i \in 1..Len(list) : Append(list, r)[i] = list[i]
      /\ Len(list) \in Nat
    BY AppendProperties, LenProperties
<1>2. Len(list) <= Len(Append(list, r)) /\ Append(list, r) \in Seq(KnownRules)
    BY <1>1
<1> QED BY <1>1, <1>2, LongerListDecides

\* Every default rule says of its errors what the coordinator works out from
\* type and severity.
THEOREM DefaultsConsistent == \A i \in DOMAIN addDefaultRules : Consistent(addDefaultRules[i])
<1> DEFINE C(t, s, r) == \A p : Consistent(Rule(p, t, s, r))
<1>1. /\ C("network", "high", TRUE) /\ C("network", "medium", TRUE)
      /\ C("timeout", "medium", TRUE)
      /\ C("broker", "high", TRUE) /\ C("broker", "medium", TRUE)
    BY DEF Rule, Consistent, IsRetryable, NeverRetried, AlwaysRetried
<1>2. /\ C("authentication", "critical", FALSE) /\ C("authorization", "critical", FALSE)
      /\ C("validation", "low", FALSE) /\ C("configuration", "critical", FALSE)
      /\ C("serialization", "medium", FALSE)
    BY DEF Rule, Consistent, IsRetryable, NeverRetried, AlwaysRetried
<1>3. DOMAIN addDefaultRules = 1..18
    BY DEF addDefaultRules
<1>4. /\ Consistent(addDefaultRules[1]) /\ Consistent(addDefaultRules[2])
      /\ Consistent(addDefaultRules[3]) /\ Consistent(addDefaultRules[4])
      /\ Consistent(addDefaultRules[5]) /\ Consistent(addDefaultRules[6])
      /\ Consistent(addDefaultRules[7]) /\ Consistent(addDefaultRules[8])
    BY <1>1 DEF addDefaultRules
<1>5. /\ Consistent(addDefaultRules[9]) /\ Consistent(addDefaultRules[10])
      /\ Consistent(addDefaultRules[11]) /\ Consistent(addDefaultRules[12])
      /\ Consistent(addDefaultRules[13]) /\ Consistent(addDefaultRules[14])
      /\ Consistent(addDefaultRules[15]) /\ Consistent(addDefaultRules[16])
      /\ Consistent(addDefaultRules[17]) /\ Consistent(addDefaultRules[18])
    BY <1>2 DEF addDefaultRules
<1> QED BY <1>3, <1>4, <1>5

\* Whatever the lists hold, in the middle of a reset or of several, the rule's
\* word and the coordinator's agree but for custom rules.
THEOREM CoordinatorAgrees == Spec => []DecisionsAgree
<1>1. TypeOK => DecisionsAgree
  <2> SUFFICES ASSUME TypeOK, NEW m \in Message, CategorizeError(m) \notin Custom
               PROVE  Consistent(CategorizeError(m))
      BY DEF DecisionsAgree, Consistent, Retried
  <2>1. CASE CategorizeError(m) = UnknownRule
      BY <2>1 DEF UnknownRule, Rule, Consistent, IsRetryable, NeverRetried, AlwaysRetried
  <2>2. CASE CategorizeError(m) # UnknownRule
    <3>1. PICK i \in DOMAIN compiledRules : IsFirst(compiledRules, m, i)
        BY <2>2 DEF CategorizeError, Decide
    <3>2. compiledRules \in Seq(KnownRules)
        BY DEF TypeOK
    <3>3. CategorizeError(m) = compiledRules[i]
        BY <3>1, <3>2, FirstDecides DEF CategorizeError
    <3>4. CategorizeError(m) \in KnownRules
        BY <3>1, <3>2, <3>3, LenProperties
    <3>5. CategorizeError(m) \in DefaultRules
        BY <3>4 DEF KnownRules, DefaultRules
    <3>6. CategorizeError(m) \in {addDefaultRules[k] : k \in DOMAIN addDefaultRules}
      <4>1. Defaults \in Seq({addDefaultRules[k] : k \in DOMAIN addDefaultRules})
          BY CategorizerAssumption DEF CategorizerAssumption
      <4>2. DefaultRules \subseteq {addDefaultRules[k] : k \in DOMAIN addDefaultRules}
          BY <4>1, LenProperties DEF DefaultRules
      <4> QED BY <3>5, <4>2
    <3> QED BY <3>6, DefaultsConsistent
  <2> QED BY <2>1, <2>2
<1> QED BY <1>1, TypeCorrect, PTL

-----------------------------------------------------------------------------
(* Who holds the lock, and what a fill has done so far.                    *)

LockInv ==
    \A g \in Goroutine :
        /\ pc[g] \in Clearing => mutex = g /\ (todo[g] = <<>> \/ todo[g] = Defaults)
        /\ mutex = g => pc[g] # "idle"

\* Without a call beside it, a goroutine writes back what is still there.
SoloInv ==
    ~overlapped =>
        \A g \in Goroutine :
            /\ \A h \in Goroutine : pc[g] # "idle" /\ pc[h] # "idle" => g = h
            /\ pc[g] = "storeRules" => slice[g] = rules
            /\ pc[g] = "storeCompiled" => slice[g] = compiledRules

\* The two lists differ by the rule that is in one of them only.
Synced(g) == rules = IF pc[g] \in {"loadCompiled", "storeCompiled"}
                       THEN Append(compiledRules, Head(todo[g])) ELSE compiledRules

\* A fill from an empty list has added the defaults but for those in todo[g].
Filled(g) ==
    /\ Synced(g)
    /\ Len(compiledRules) + Len(todo[g]) = Len(Defaults)
    /\ \A i \in 1..Len(compiledRules) : compiledRules[i] = Defaults[i]
    /\ \A i \in 1..Len(todo[g]) : todo[g][i] = Defaults[Len(compiledRules) + i]

FillInv ==
    ~overlapped =>
        \A g \in Goroutine :
            /\ pc[g] = "clearCompiled" => rules = <<>>
            /\ g \in Filling => Filled(g)

IntactInv ==
    intact =>
        /\ ~overlapped
        /\ \A g \in Goroutine : pc[g] # "idle" =>
              mutex = g /\ pc[g] \notin Clearing /\ Synced(g)
        /\ (\A g \in Goroutine : pc[g] = "idle") => rules = compiledRules
        /\ Len(Defaults) <= Len(compiledRules)
        /\ \A i \in 1..Len(Defaults) : compiledRules[i] = Defaults[i]

LEMMA LockStep == Types /\ LockInv /\ [Next]_vars => LockInv'
<1> SUFFICES ASSUME Types, LockInv, [Next]_vars PROVE LockInv'
    OBVIOUS
<1> USE DEF LockInv
<1>n. /\ Nobody \notin Goroutine
      /\ pc \in [Goroutine -> {"idle", "append", "storeRules", "loadCompiled",
                               "storeCompiled", "clear", "clearCompiled"}]
      /\ DOMAIN todo = Goroutine
    BY CategorizerAssumption DEF CategorizerAssumption, Types, TypeOK
<1>1. ASSUME NEW g \in Goroutine, addCompiledRule(g) PROVE LockInv'
  <2>1. UNCHANGED mutex /\ pc[g] \notin Clearing \cup {"idle"} /\ pc'[g] \notin Clearing \cup {"idle"}
      BY <1>1, <1>n DEF addCompiledRule, SkipInvalid, LoadRules, StoreRules, LoadCompiled,
                        StoreCompiled, Goto, Clearing
  <2>2. \A h \in Goroutine \ {g} : pc'[h] = pc[h] /\ todo'[h] = todo[h]
      BY <1>1, <1>n DEF addCompiledRule, SkipInvalid, LoadRules, StoreRules, LoadCompiled,
                        StoreCompiled, Goto
  <2> QED BY <2>1, <2>2
<1>2. ASSUME NEW g \in Goroutine, NEW r \in Custom, AddRule(g, r) PROVE LockInv'
  <2>1. mutex = Nobody /\ mutex' = g /\ pc' = [pc EXCEPT ![g] = "append"]
      BY <1>2 DEF AddRule, Begin, Lock, Goto
  <2>2. \A h \in Goroutine \ {g} : pc'[h] = pc[h] /\ pc[h] \notin Clearing
      BY <2>1, <1>n
  <2> QED BY <2>1, <2>2, <1>n DEF Clearing
<1>3. ASSUME NEW g \in Goroutine, ClearRules(g) PROVE LockInv'
  <2>1. mutex = Nobody /\ mutex' = g /\ pc' = [pc EXCEPT ![g] = "clear"]
      BY <1>3 DEF ClearRules, Begin, Lock, Goto
  <2>2. \A h \in Goroutine \ {g} : pc'[h] = pc[h] /\ pc[h] \notin Clearing
      BY <2>1, <1>n
  <2>3. todo'[g] = <<>> \/ todo'[g] = Defaults
      BY <1>3, <1>n DEF ClearRules, Begin
  <2> QED BY <2>1, <2>2, <2>3, <1>n DEF Clearing
<1>4. ASSUME NEW g \in Goroutine, AddRuleReturns(g) PROVE LockInv'
    BY <1>4, <1>n DEF AddRuleReturns, Goto, Unlock, Clearing
<1>5. ASSUME NEW g \in Goroutine, EmptyRules(g) PROVE LockInv'
    BY <1>5, <1>n DEF EmptyRules, Goto, Clearing
<1>6. ASSUME NEW g \in Goroutine, EmptyCompiled(g) PROVE LockInv'
    BY <1>6, <1>n DEF EmptyCompiled, Goto, Unlock, Clearing
<1>7. ASSUME NEW g \in Goroutine, ResetReturns(g) PROVE LockInv'
    BY <1>7, <1>n DEF ResetReturns, Goto, Clearing
<1>8. ASSUME NEW g \in Goroutine, TornRead(g) PROVE LockInv'
    BY <1>8 DEF TornRead
<1>9. CASE UNCHANGED vars
    BY <1>9 DEF vars
<1> QED BY <1>1, <1>2, <1>3, <1>4, <1>5, <1>6, <1>7, <1>8, <1>9 DEF Next, Step

LEMMA SoloStep == Types /\ LockInv /\ SoloInv /\ [Next]_vars => SoloInv'
<1> SUFFICES ASSUME Types, LockInv, SoloInv, [Next]_vars PROVE SoloInv'
    OBVIOUS
<1> USE DEF SoloInv
<1>n. /\ pc \in [Goroutine -> {"idle", "append", "storeRules", "loadCompiled",
                               "storeCompiled", "clear", "clearCompiled"}]
      /\ DOMAIN slice = Goroutine
    BY DEF Types, TypeOK
\* A step of a call that is under way.
<1>0. ASSUME NEW g \in Goroutine, Step(g) \/ TornRead(g)
      PROVE  /\ pc[g] # "idle" /\ UNCHANGED overlapped
             /\ \A h \in Goroutine \ {g} : pc'[h] = pc[h]
    BY <1>0, <1>n DEF Step, addCompiledRule, SkipInvalid, LoadRules, StoreRules, LoadCompiled,
        StoreCompiled, AddRuleReturns, EmptyRules, EmptyCompiled, ResetReturns, TornRead, Writing,
        Goto
<1>1. ASSUME NEW g \in Goroutine, Step(g) \/ TornRead(g), ~overlapped PROVE SoloInv'
  <2>1. \A h \in Goroutine \ {g} : pc[h] = "idle" /\ pc'[h] = "idle"
      BY <1>0, <1>1
  <2>2. pc'[g] = "storeRules" => slice'[g] = rules'
      BY <1>1, <1>n DEF Step, addCompiledRule, SkipInvalid, LoadRules, StoreRules, LoadCompiled,
        StoreCompiled, AddRuleReturns, EmptyRules, EmptyCompiled, ResetReturns, TornRead, Goto
  <2>3. pc'[g] = "storeCompiled" => slice'[g] = compiledRules'
      BY <1>1, <1>n DEF Step, addCompiledRule, SkipInvalid, LoadRules, StoreRules, LoadCompiled,
        StoreCompiled, AddRuleReturns, EmptyRules, EmptyCompiled, ResetReturns, TornRead, Goto
  <2> QED BY <2>1, <2>2, <2>3
<1>2. ASSUME NEW g \in Goroutine, NEW list, NEW step \in {"append", "clear"}, Begin(g, step, list)
      PROVE  SoloInv'
  <2>1. pc' = [pc EXCEPT ![g] = step] /\ overlapped' = ~Alone(g)
      BY <1>2 DEF Begin, Goto
  <2>2. ~overlapped' => \A h \in Goroutine \ {g} : pc[h] = "idle" /\ pc'[h] = "idle"
      BY <2>1, <1>n DEF Alone
  <2> QED BY <2>1, <2>2, <1>n
<1>3. CASE UNCHANGED vars
    BY <1>3 DEF vars
<1>4. ASSUME NEW g \in Goroutine, Step(g) \/ TornRead(g) PROVE SoloInv'
    BY <1>0, <1>1, <1>4
<1>5. ASSUME NEW g \in Goroutine, NEW r \in Custom, AddRule(g, r) PROVE SoloInv'
    BY <1>2, <1>5 DEF AddRule
<1>6. ASSUME NEW g \in Goroutine, ClearRules(g) PROVE SoloInv'
    BY <1>2, <1>6 DEF ClearRules
<1> QED BY <1>3, <1>4, <1>5, <1>6 DEF Next

\* What StoreCompiled writes when slice[g] is what the list still is.
LEMMA StoredRule ==
    ASSUME Types, NEW g \in Goroutine, StoreCompiled(g), slice[g] = compiledRules
    PROVE  /\ compiledRules' = Append(compiledRules, Head(todo[g]))
           /\ Len(compiledRules) \in Nat /\ Len(compiledRules') = Len(compiledRules) + 1
           /\ \A i \in 1..Len(compiledRules) : compiledRules'[i] = compiledRules[i]
           /\ compiledRules'[Len(compiledRules) + 1] = Head(todo[g])
           /\ todo'[g] = Tail(todo[g]) /\ todo[g] # <<>>
           /\ Len(todo[g]) \in Nat /\ Len(todo[g]) > 0 /\ Head(todo[g]) = todo[g][1]
           /\ Len(todo'[g]) = Len(todo[g]) - 1
           /\ \A i \in 1..Len(todo'[g]) : todo'[g][i] = todo[g][i + 1]
<1>1. compiledRules \in Seq(KnownRules) /\ todo \in [Goroutine -> Seq(DefaultRules \cup Custom)]
    BY DEF Types, TypeOK, DefaultRules
<1>2. todo[g] # <<>> /\ Head(todo[g]).Pattern \in Compiles
    BY DEF StoreCompiled, Types, Storing
<1>3. Head(todo[g]) \in KnownRules
    BY <1>1, <1>2, HeadTailProperties, Appendable
<1>4. compiledRules' = Append(compiledRules, Head(todo[g])) /\ todo'[g] = Tail(todo[g])
    BY <1>1 DEF StoreCompiled
<1>5. /\ Len(Tail(todo[g])) = Len(todo[g]) - 1
      /\ \A i \in 1..Len(Tail(todo[g])) : Tail(todo[g])[i] = todo[g][i + 1]
      /\ Len(todo[g]) \in Nat \ {0}
    BY <1>1, <1>2, HeadTailProperties, EmptySeq
<1>6. Head(todo[g]) = todo[g][1]
    BY <1>1, <1>2
<1> QED BY <1>1, <1>2, <1>3, <1>4, <1>5, <1>6, AppendProperties, LenProperties

LEMMA OneMovesOver ==
    ASSUME NEW a \in Nat, NEW b \in Nat PROVE (a + 1) + (b - 1) = a + b
OBVIOUS

LEMMA FillStep == Types /\ LockInv /\ SoloInv /\ FillInv /\ [Next]_vars => FillInv'
<1> SUFFICES ASSUME Types, LockInv, SoloInv, FillInv, [Next]_vars, ~overlapped' PROVE FillInv'
    BY DEF FillInv
<1>n. /\ pc \in [Goroutine -> {"idle", "append", "storeRules", "loadCompiled",
                               "storeCompiled", "clear", "clearCompiled"}]
      /\ todo \in [Goroutine -> Seq(DefaultRules \cup Custom)]
    BY DEF Types, TypeOK, DefaultRules
<1>1. ASSUME NEW g \in Goroutine, NEW list, NEW step \in {"append", "clear"},
             Begin(g, step, list), Lock(g)
      PROVE  FillInv'
  <2>1. pc' = [pc EXCEPT ![g] = step] /\ mutex' = g /\ Alone(g)
      BY <1>1 DEF Begin, Goto, Lock
  <2>2. \A h \in Goroutine : pc'[h] # "idle" => h = g
      BY <2>1, <1>n DEF Alone
  <2>3. Filling' = {} /\ pc'[g] # "clearCompiled"
      BY <2>1, <2>2, <1>n DEF Filling
  <2> QED BY <2>2, <2>3 DEF FillInv
\* It is enough to look at the goroutine that takes the step.
<1>2. ASSUME NEW g \in Goroutine, Step(g) \/ TornRead(g)
      PROVE  /\ ~overlapped
             /\ \A h \in Goroutine \ {g} : pc'[h] = "idle"
  <2>1. /\ pc[g] # "idle" /\ UNCHANGED overlapped
        /\ \A h \in Goroutine \ {g} : pc'[h] = pc[h]
      BY <1>2, <1>n DEF Step, addCompiledRule, SkipInvalid, LoadRules, StoreRules, LoadCompiled,
        StoreCompiled, AddRuleReturns, EmptyRules, EmptyCompiled, ResetReturns, TornRead, Writing,
        Goto
  <2> QED BY <2>1 DEF SoloInv
<1>3. ASSUME NEW g \in Goroutine, Step(g) \/ TornRead(g),
             pc'[g] = "clearCompiled" => rules' = <<>>,
             pc'[g] # "idle" /\ mutex' # g => Filled(g)'
      PROVE  FillInv'
    BY <1>2, <1>3 DEF FillInv, Filling
<1>4. ASSUME NEW g \in Goroutine, SkipInvalid(g) PROVE FillInv'
  <2>1. UNCHANGED <<mutex, pc>> /\ pc[g] = "append" /\ ~overlapped
      BY <1>4, <1>2 DEF SkipInvalid, Step, addCompiledRule
  <2>2. ASSUME mutex # g PROVE FALSE
    <3>1. Filled(g)
        BY <2>1, <2>2 DEF FillInv, Filling
    <3>2. todo[g] # <<>> /\ Head(todo[g]).Pattern \notin Compiles
        BY <1>4 DEF SkipInvalid
    <3>3. Len(todo[g]) \in Nat /\ Len(todo[g]) > 0 /\ Head(todo[g]) = todo[g][1]
        BY <3>2, <1>n, EmptySeq
    <3>4. Len(compiledRules) \in Nat
        BY LenProperties DEF Types, TypeOK
    <3>5. 1 \in 1..Len(todo[g]) /\ Len(compiledRules) + Len(todo[g]) = Len(Defaults)
        BY <3>1, <3>3 DEF Filled
    <3>6. Head(todo[g]) = Defaults[Len(compiledRules) + 1]
        BY <3>1, <3>3, <3>5 DEF Filled
    <3>7. Len(compiledRules) + 1 \in 1..Len(Defaults)
        BY <3>3, <3>4, <3>5
    <3> QED BY <3>2, <3>6, <3>7, DefaultsType
  <2> QED BY <1>3, <1>4, <2>1, <2>2 DEF Step, addCompiledRule
<1>5. ASSUME NEW g \in Goroutine, LoadRules(g) PROVE FillInv'
  <2>1. ~overlapped /\ pc[g] = "append" /\ pc'[g] = "storeRules"
        /\ UNCHANGED <<rules, compiledRules, mutex, todo>>
      BY <1>5, <1>2, <1>n DEF LoadRules, Goto, Step, addCompiledRule
  <2>2. mutex' # g => Filled(g)'
      BY <2>1 DEF FillInv, Filling, Filled, Synced
  <2> QED BY <1>3, <1>5, <2>1, <2>2 DEF Step, addCompiledRule
<1>6. ASSUME NEW g \in Goroutine, StoreRules(g) PROVE FillInv'
  <2>1. ~overlapped /\ pc[g] = "storeRules" /\ pc'[g] = "loadCompiled"
        /\ rules' = Append(slice[g], Head(todo[g])) /\ UNCHANGED <<compiledRules, mutex, todo>>
      BY <1>6, <1>2, <1>n DEF StoreRules, Goto, Step, addCompiledRule
  <2>2. slice[g] = rules
      BY <2>1 DEF SoloInv
  <2>3. mutex' # g => Filled(g)'
      BY <2>1, <2>2 DEF FillInv, Filling, Filled, Synced
  <2> QED BY <1>3, <1>6, <2>1, <2>3 DEF Step, addCompiledRule
<1>7. ASSUME NEW g \in Goroutine, LoadCompiled(g) PROVE FillInv'
  <2>1. ~overlapped /\ pc[g] = "loadCompiled" /\ pc'[g] = "storeCompiled"
        /\ UNCHANGED <<rules, compiledRules, mutex, todo>>
      BY <1>7, <1>2, <1>n DEF LoadCompiled, Goto, Step, addCompiledRule
  <2>2. mutex' # g => Filled(g)'
      BY <2>1 DEF FillInv, Filling, Filled, Synced
  <2> QED BY <1>3, <1>7, <2>1, <2>2 DEF Step, addCompiledRule
<1>8. ASSUME NEW g \in Goroutine, StoreCompiled(g) PROVE FillInv'
  <2>1. ~overlapped /\ pc[g] = "storeCompiled" /\ pc'[g] = "append" /\ UNCHANGED <<rules, mutex>>
      BY <1>8, <1>2, <1>n DEF StoreCompiled, Goto, Step, addCompiledRule
  <2>2. slice[g] = compiledRules
      BY <2>1 DEF SoloInv
  <2>3. ASSUME mutex' # g PROVE Filled(g)'
    <3>1. Filled(g)
        BY <2>1, <2>3 DEF FillInv, Filling
    <3>2. Synced(g)'
        BY <2>1, <2>2, <3>1, <1>8, StoredRule DEF Filled, Synced
    <3>3. /\ Len(todo[g]) \in Nat /\ Len(todo[g]) > 0 /\ Head(todo[g]) = todo[g][1]
          /\ Len(todo'[g]) = Len(todo[g]) - 1
          /\ \A i \in 1..Len(todo'[g]) : todo'[g][i] = todo[g][i + 1]
        BY <1>8, <2>2, StoredRule
    <3>a. Len(compiledRules') = Len(compiledRules) + 1 /\ Len(compiledRules) \in Nat
        BY <1>8, <2>2, StoredRule
    <3>b. Len(compiledRules) + Len(todo[g]) = Len(Defaults)
        BY <3>1 DEF Filled
    <3>4. Len(compiledRules') + Len(todo'[g]) = Len(Defaults)
      <4>1. (Len(compiledRules) + 1) + (Len(todo[g]) - 1) = Len(compiledRules) + Len(todo[g])
        <5>1. Len(todo[g]) \in Nat
            BY <3>3
        <5>2. Len(compiledRules) \in Nat
            BY <3>a
        <5> QED BY <5>1, <5>2, OneMovesOver
      <4> QED BY <3>3, <3>a, <3>b, <4>1
    <3>5. ASSUME NEW i \in 1..Len(compiledRules') PROVE compiledRules'[i] = Defaults[i]
      <4>1. Head(todo[g]) = Defaults[Len(compiledRules) + 1]
          BY <3>1, <3>3 DEF Filled
      <4>2. i \in 1..Len(compiledRules) \/ i = Len(compiledRules) + 1
          BY <1>8, <2>2, StoredRule
      <4> QED BY <4>1, <4>2, <3>1, <1>8, <2>2, StoredRule DEF Filled
    <3>6. ASSUME NEW i \in 1..Len(todo'[g])
          PROVE  todo'[g][i] = Defaults[Len(compiledRules') + i]
      <4>0. i + 1 \in 1..Len(todo[g])
          BY <3>3
      <4>1. todo[g][i + 1] = Defaults[Len(compiledRules) + (i + 1)]
          BY <3>1, <4>0 DEF Filled
      <4>2. Len(compiledRules) + (i + 1) = Len(compiledRules') + i
          BY <3>a
      <4> QED BY <4>1, <4>2, <3>3
    <3> QED BY <3>2, <3>4, <3>5, <3>6 DEF Filled
  <2> QED BY <1>3, <1>8, <2>1, <2>3 DEF Step, addCompiledRule
<1>9. ASSUME NEW g \in Goroutine, AddRuleReturns(g) \/ ResetReturns(g) PROVE FillInv'
  <2>1. pc'[g] = "idle"
      BY <1>9, <1>n DEF AddRuleReturns, ResetReturns, Goto
  <2> QED BY <1>3, <1>9, <2>1 DEF Step
<1>10. ASSUME NEW g \in Goroutine, EmptyRules(g) PROVE FillInv'
  <2>1. rules' = <<>> /\ mutex' = g
      BY <1>10 DEF EmptyRules, LockInv, Clearing
  <2> QED BY <1>3, <1>10, <2>1 DEF Step
<1>11. ASSUME NEW g \in Goroutine, EmptyCompiled(g) PROVE FillInv'
  <2>1. /\ ~overlapped /\ pc[g] = "clearCompiled" /\ compiledRules' = <<>>
        /\ UNCHANGED <<rules, todo>>
        /\ pc'[g] = IF todo[g] = <<>> THEN "idle" ELSE "append"
      BY <1>11, <1>2, <1>n DEF EmptyCompiled, Goto, Step
  <2>2. ASSUME pc'[g] # "idle" PROVE Filled(g)'
    <3>1. todo'[g] = Defaults /\ rules' = <<>> /\ pc'[g] = "append"
        BY <2>1, <2>2 DEF LockInv, FillInv, Clearing
    <3>2. Len(compiledRules') = 0
        BY <2>1
    <3> QED BY <2>1, <3>1, <3>2, DefaultsType DEF Filled, Synced
  <2> QED BY <1>3, <1>11, <2>1, <2>2 DEF Step
<1>12. ASSUME NEW g \in Goroutine, TornRead(g) PROVE FillInv'
  <2>1. UNCHANGED <<rules, compiledRules, mutex, pc, todo, overlapped>>
      BY <1>12 DEF TornRead
  <2> QED BY <2>1 DEF FillInv, Filling, Filled, Synced
<1>13. CASE UNCHANGED vars
    BY <1>13 DEF vars, FillInv, Filling, Filled, Synced
<1>14. ASSUME NEW g \in Goroutine, NEW r \in Custom, AddRule(g, r) PROVE FillInv'
    BY <1>1, <1>14 DEF AddRule
<1>15. ASSUME NEW g \in Goroutine, ClearRules(g) PROVE FillInv'
    BY <1>1, <1>15 DEF ClearRules
<1> QED BY <1>4, <1>5, <1>6, <1>7, <1>8, <1>9, <1>10, <1>11, <1>12, <1>13, <1>14, <1>15
        DEF Next, Step, addCompiledRule

LEMMA IntactStep == Types /\ LockInv /\ SoloInv /\ FillInv /\ IntactInv /\ [Next]_vars => IntactInv'
<1> SUFFICES ASSUME Types, LockInv, SoloInv, FillInv, IntactInv, [Next]_vars, intact'
             PROVE  IntactInv'
    BY DEF IntactInv
<1>n. /\ Nobody \notin Goroutine
      /\ pc \in [Goroutine -> {"idle", "append", "storeRules", "loadCompiled",
                               "storeCompiled", "clear", "clearCompiled"}]
      /\ Len(compiledRules) \in Nat /\ Len(Defaults) \in Nat
    BY CategorizerAssumption, DefaultsType, LenProperties
       DEF CategorizerAssumption, Types, TypeOK
\* A step of the goroutine that holds the lock, while the defaults stand.
<1>1. ASSUME intact, NEW g \in Goroutine, Step(g) \/ TornRead(g)
      PROVE  /\ ~overlapped' /\ mutex = g /\ pc[g] \notin Clearing /\ Synced(g)
             /\ \A h \in Goroutine \ {g} : pc'[h] = "idle"
             /\ Len(Defaults) <= Len(compiledRules)
             /\ \A i \in 1..Len(Defaults) : compiledRules[i] = Defaults[i]
  <2>1. /\ pc[g] # "idle" /\ UNCHANGED overlapped
        /\ \A h \in Goroutine \ {g} : pc'[h] = pc[h]
      BY <1>1, <1>n DEF Step, addCompiledRule, SkipInvalid, LoadRules, StoreRules, LoadCompiled,
        StoreCompiled, AddRuleReturns, EmptyRules, EmptyCompiled, ResetReturns, TornRead, Writing,
        Goto
  <2> QED BY <1>1, <2>1 DEF IntactInv, SoloInv
<1>2. ASSUME intact, NEW g \in Goroutine, Step(g) \/ TornRead(g),
             pc'[g] # "idle" => mutex' = g /\ pc'[g] \notin Clearing /\ Synced(g)',
             pc'[g] = "idle" => rules' = compiledRules',
             UNCHANGED compiledRules
      PROVE  IntactInv'
    BY <1>1, <1>2 DEF IntactInv
<1>3. ASSUME NEW g \in Goroutine, SkipInvalid(g) PROVE IntactInv'
    BY <1>1, <1>2, <1>3 DEF SkipInvalid, Step, addCompiledRule, Synced, Clearing
<1>4. ASSUME NEW g \in Goroutine, LoadRules(g) PROVE IntactInv'
    BY <1>1, <1>2, <1>4, <1>n DEF LoadRules, Goto, Step, addCompiledRule, Synced, Clearing
<1>5. ASSUME NEW g \in Goroutine, StoreRules(g) PROVE IntactInv'
  <2>1. /\ intact /\ pc[g] = "storeRules" /\ pc'[g] = "loadCompiled"
        /\ rules' = Append(slice[g], Head(todo[g])) /\ UNCHANGED <<compiledRules, mutex, todo>>
      BY <1>5, <1>n DEF StoreRules, Goto
  <2>2. slice[g] = rules /\ rules = compiledRules /\ mutex = g
      BY <1>1, <1>5, <2>1 DEF Step, addCompiledRule, Synced, IntactInv, SoloInv
  <2>3. Synced(g)'
      BY <2>1, <2>2 DEF Synced
  <2> QED BY <1>2, <1>5, <2>1, <2>2, <2>3 DEF Step, addCompiledRule, Clearing
<1>6. ASSUME NEW g \in Goroutine, LoadCompiled(g) PROVE IntactInv'
    BY <1>1, <1>2, <1>6, <1>n DEF LoadCompiled, Goto, Step, addCompiledRule, Synced, Clearing
<1>7. ASSUME NEW g \in Goroutine, StoreCompiled(g) PROVE IntactInv'
  <2>1. intact /\ pc[g] = "storeCompiled" /\ pc'[g] = "append" /\ UNCHANGED <<rules, mutex>>
      BY <1>7, <1>n DEF StoreCompiled, Goto
  <2>2. /\ ~overlapped' /\ mutex = g /\ Synced(g)
        /\ \A h \in Goroutine \ {g} : pc'[h] = "idle"
        /\ Len(Defaults) <= Len(compiledRules)
        /\ \A i \in 1..Len(Defaults) : compiledRules[i] = Defaults[i]
      BY <1>1, <1>7, <2>1 DEF Step, addCompiledRule
  <2>3. slice[g] = compiledRules
      BY <2>1 DEF IntactInv, SoloInv
  <2>4. /\ compiledRules' = Append(compiledRules, Head(todo[g]))
        /\ Len(compiledRules') = Len(compiledRules) + 1
        /\ \A i \in 1..Len(compiledRules) : compiledRules'[i] = compiledRules[i]
      BY <1>7, <2>3, StoredRule
  <2>5. Synced(g)'
      BY <2>1, <2>2, <2>4 DEF Synced
  <2>6. Len(Defaults) <= Len(compiledRules')
      BY <2>2, <2>4, <1>n
  <2>7. \A i \in 1..Len(Defaults) : i \in 1..Len(compiledRules)
      BY <2>2, <1>n
  <2>8. \A i \in 1..Len(Defaults) : compiledRules'[i] = Defaults[i]
      BY <2>2, <2>4, <2>7
  <2> QED BY <2>1, <2>2, <2>5, <2>6, <2>8 DEF IntactInv, Clearing
<1>8. ASSUME NEW g \in Goroutine, AddRuleReturns(g) PROVE IntactInv'
  <2>1. /\ intact /\ pc[g] = "append" /\ pc'[g] = "idle" /\ UNCHANGED <<rules, compiledRules>>
      BY <1>8, <1>n DEF AddRuleReturns, Goto
  <2>2. rules = compiledRules
      BY <1>1, <1>8, <2>1 DEF Step, Synced
  <2> QED BY <1>2, <1>8, <2>1, <2>2 DEF Step
<1>9. ASSUME NEW g \in Goroutine, EmptyRules(g) \/ EmptyCompiled(g) PROVE FALSE
    BY <1>1, <1>9 DEF EmptyRules, EmptyCompiled, Step, Clearing
<1>10. ASSUME NEW g \in Goroutine, ClearRules(g) PROVE FALSE
    BY <1>10 DEF ClearRules
<1>11. ASSUME NEW g \in Goroutine, ResetReturns(g) PROVE IntactInv'
  <2>1. /\ ~overlapped /\ pc[g] = "append" /\ pc' = [pc EXCEPT ![g] = "idle"]
        /\ UNCHANGED <<rules, compiledRules, overlapped>> /\ todo[g] = <<>> /\ g \in Filling
      BY <1>11 DEF ResetReturns, Goto, Filling
  <2>2. \A h \in Goroutine : pc'[h] = "idle"
      BY <2>1, <1>n DEF SoloInv
  <2>3. Filled(g)
      BY <2>1 DEF FillInv
  <2>4. rules = compiledRules /\ Len(compiledRules) = Len(Defaults)
      BY <2>1, <2>3, <1>n DEF Filled, Synced
  <2> QED BY <2>1, <2>2, <2>3, <2>4, <1>n DEF IntactInv, Filled
<1>12. ASSUME NEW g \in Goroutine, NEW r \in Custom, AddRule(g, r) PROVE IntactInv'
  <2>1. /\ intact /\ mutex = Nobody /\ mutex' = g /\ pc' = [pc EXCEPT ![g] = "append"]
        /\ overlapped' = ~Alone(g) /\ UNCHANGED <<rules, compiledRules>>
      BY <1>12 DEF AddRule, Begin, Lock, Goto
  <2>2. \A h \in Goroutine : pc[h] = "idle"
      BY <2>1, <1>n DEF IntactInv
  <2>3. rules = compiledRules /\ ~overlapped'
      BY <2>1, <2>2 DEF IntactInv, Alone
  <2>4. \A h \in Goroutine : pc'[h] # "idle" => h = g /\ pc'[h] = "append"
      BY <2>1, <2>2, <1>n
  <2>5. \A h \in Goroutine : pc'[h] # "idle" =>
            mutex' = h /\ pc'[h] \notin Clearing /\ Synced(h)'
      BY <2>1, <2>3, <2>4 DEF Synced, Clearing
  <2> QED BY <2>1, <2>3, <2>5 DEF IntactInv
<1>13. ASSUME NEW g \in Goroutine, TornRead(g) PROVE IntactInv'
  <2>1. UNCHANGED <<rules, compiledRules, mutex, pc, todo, overlapped, intact>>
      BY <1>13 DEF TornRead
  <2> QED BY <2>1 DEF IntactInv, Synced
<1>14. CASE UNCHANGED vars
    BY <1>14 DEF vars, IntactInv, Synced
<1> QED BY <1>3, <1>4, <1>5, <1>6, <1>7, <1>8, <1>9, <1>10, <1>11, <1>12, <1>13, <1>14
        DEF Next, Step, addCompiledRule

-----------------------------------------------------------------------------
IInv == Types /\ LockInv /\ SoloInv /\ FillInv /\ IntactInv

LEMMA InitIInv == Init => IInv
<1> SUFFICES ASSUME Init PROVE IInv
    OBVIOUS
<1>1. \A g \in Goroutine : pc[g] = "idle"
    BY DEF Init
<1>2. mutex \notin Goroutine /\ rules = Defaults /\ compiledRules = Defaults /\ ~overlapped
    BY CategorizerAssumption DEF Init, CategorizerAssumption
<1>3. LockInv /\ SoloInv /\ FillInv
    BY <1>1, <1>2 DEF LockInv, SoloInv, FillInv, Filling, Clearing
<1>4. IntactInv
    BY <1>1, <1>2, DefaultsType DEF IntactInv
<1> QED BY <1>3, <1>4, TypesInit DEF IInv

LEMMA Inductive == Spec => []IInv
<1>1. IInv /\ [Next]_vars => IInv'
    BY TypesStep, LockStep, SoloStep, FillStep, IntactStep DEF IInv
<1> QED BY <1>1, InitIInv, PTL DEF Spec

\* As long as the defaults stand they decide what they match, whatever AddRule
\* appended meanwhile, and the list that is reported is the one that decides.
THEOREM DefaultsStand == Spec => []DefaultsDecide
<1>1. IInv => DefaultsDecide
  <2> SUFFICES ASSUME IInv, intact PROVE DefaultsDecide
      BY DEF DefaultsDecide
  <2>1. (\A g \in Goroutine : pc[g] = "idle") => rules = compiledRules
      BY DEF IInv, IntactInv
  <2>2. /\ Len(Defaults) <= Len(compiledRules)
        /\ \A i \in 1..Len(Defaults) : compiledRules[i] = Defaults[i]
      BY DEF IInv, IntactInv
  <2>3. Defaults \in Seq(KnownRules) /\ compiledRules \in Seq(KnownRules)
      BY DefaultsType DEF IInv, Types, TypeOK
  <2>4. ASSUME NEW m \in Message, Decide(Defaults, m) # UnknownRule
        PROVE  CategorizeError(m) = Decide(Defaults, m)
      BY <2>2, <2>3, <2>4, LongerListDecides DEF CategorizeError
  <2> QED BY <2>1, <2>4 DEF DefaultsDecide
<1> QED BY <1>1, Inductive, PTL

\* No error becomes retryable by adding rules: only a reset or calls that run
\* beside one forgive.
THEOREM NeverForgives == Spec => AddingNeverForgives
<1> DEFINE Forgiven == \A m \in Message :
                          ~Retried(m) /\ Retried(m)' =>
                             overlapped \/ \E g \in Goroutine : pc[g] = "clearCompiled"
<1>1. IInv /\ [Next]_vars => [Forgiven]_vars
  <2> SUFFICES ASSUME IInv, [Next]_vars, NEW m \in Message, ~Retried(m), Retried(m)',
                      ~overlapped, \A g \in Goroutine : pc[g] # "clearCompiled"
               PROVE  FALSE
      OBVIOUS
  <2>1. compiledRules' # compiledRules
      BY DEF Retried, CategorizeError
  <2>2. PICK g \in Goroutine : StoreCompiled(g)
    <3>1. \/ UNCHANGED vars
          \/ \E g \in Goroutine :
                \/ SkipInvalid(g) \/ LoadRules(g) \/ StoreRules(g) \/ LoadCompiled(g)
                \/ StoreCompiled(g) \/ AddRuleReturns(g) \/ EmptyRules(g) \/ EmptyCompiled(g)
                \/ ResetReturns(g) \/ ClearRules(g) \/ TornRead(g)
                \/ \E r \in Custom : AddRule(g, r)
        BY DEF Next, Step, addCompiledRule
    <3> QED BY <2>1, <3>1 DEF vars, SkipInvalid, LoadRules, StoreRules, LoadCompiled,
                AddRuleReturns, EmptyRules, EmptyCompiled, ResetReturns, ClearRules, TornRead,
                AddRule, Begin
  <2>3. Types /\ slice[g] = compiledRules
      BY <2>2 DEF IInv, SoloInv, StoreCompiled
  <2>4. compiledRules' = Append(compiledRules, Head(todo[g]))
      BY <2>2, <2>3, StoredRule
  <2>5. compiledRules \in Seq(KnownRules) /\ Head(todo[g]) \in KnownRules
    <3>1. /\ compiledRules \in Seq(KnownRules)
          /\ todo \in [Goroutine -> Seq(DefaultRules \cup Custom)]
        BY <2>3 DEF Types, TypeOK, DefaultRules
    <3>2. todo[g] # <<>> /\ Head(todo[g]).Pattern \in Compiles
        BY <2>2, <2>3 DEF Types, Storing, StoreCompiled
    <3> QED BY <3>1, <3>2, HeadTailProperties, Appendable
  <2>6. CategorizeError(m) # UnknownRule
      BY DEF Retried, UnknownRule, Rule, IsRetryable, NeverRetried, AlwaysRetried
  <2>7. CategorizeError(m)' = CategorizeError(m)
      BY <2>4, <2>5, <2>6, AppendKeepsDecision DEF CategorizeError
  <2> QED BY <2>7 DEF Retried
<1> QED BY <1>1, Inductive, PTL DEF Spec, AddingNeverForgives

\* An unresolved report with attempts left says otherwise than the categorizer
\* in two cases: it would retry a serialization error, which errors.go:286 says
\* to fix first, and not a critical error of the network, a timeout or a broker.
THEOREM ReportsDisagree ==
    ASSUME NEW report \in ErrorReport, NEW max \in Nat,
           ~report.IsResolved, report.AttemptNumber < max
    PROVE  ShouldRetry(report, max) # IsRetryable(<<report.ErrorType, report.Severity>>)
             <=> \/ report.ErrorType = "serialization" /\ report.Severity # "critical"
                 \/ report.ErrorType \in AlwaysRetried /\ report.Severity = "critical"
<1>1. <<report.ErrorType, report.Severity>>[1] = report.ErrorType
      /\ <<report.ErrorType, report.Severity>>[2] = report.Severity
    OBVIOUS
<1>2. report.ErrorType \in ErrorTypes
    BY DEF ErrorReport
<1> QED BY <1>1, <1>2 DEF ShouldRetry, IsRetryable, NeverRetried, AlwaysRetried, ErrorTypes
=============================================================================
