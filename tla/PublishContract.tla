--------------------------- MODULE PublishContract ---------------------------
(***************************************************************************)
(* What the message API promises its clients, with its handlers, producers *)
(* and goroutines left out.  A request is taken while the service is open  *)
(* and answered at most once.  One that is refused is refused as a whole.  *)
(* Of another, the answer names the messages that are published: the       *)
(* broker has each of them, and the status says whether they are all, some *)
(* or none.  A message that is not named may be stored all the same, even  *)
(* after the answer, unless a check refused it.  The service is drained    *)
(* when all that it took is answered, or when the drain is cut short.      *)
(***************************************************************************)
EXTENDS Integers

CONSTANTS Request,
          Message, \* each a request and a position in it
          Fit,     \* the messages that pass every check
          Refused  \* the requests that are refused as a whole

VARIABLES
    phase,     \* "open", "draining", "drained" or "over"
    taken,     \* requests that were received
    answer,    \* the status of each request's answer; 0 before it
    published, \* the messages that the answer names
    stored,    \* the messages the broker has
    cutShort   \* the drain did not wait for every answer

vars == <<phase, taken, answer, published, stored, cutShort>>

MessagesOf(r) == {m \in Message : m[1] = r}
Unanswered == {r \in taken : answer[r] = 0}

Init ==
    /\ phase = "open" /\ cutShort = FALSE
    /\ taken = {} /\ stored = {}
    /\ answer = [r \in Request |-> 0]
    /\ published = [r \in Request |-> {}]

Take(r) ==
    /\ phase = "open" /\ r \notin taken \cup Refused
    /\ taken' = taken \cup {r}
    /\ UNCHANGED <<phase, answer, published, stored, cutShort>>

\* The answer to r is a status and the messages S that it names.
Writes(r, code, S) ==
    /\ answer' = [answer EXCEPT ![r] = code]
    /\ published' = [published EXCEPT ![r] = S]

Refuse(r) ==
    /\ phase = "open" /\ r \in Refused \ taken
    /\ taken' = taken \cup {r}
    /\ \E code \in {400, 413} : Writes(r, code, {})
    /\ UNCHANGED <<phase, stored, cutShort>>

Store(m) ==
    /\ phase # "over" /\ m \in Fit /\ m[1] \in taken \ Refused
    /\ stored' = stored \cup {m}
    /\ UNCHANGED <<phase, taken, answer, published, cutShort>>

Says(r, code, S) ==
    /\ S \subseteq stored
    /\ code = 201 <=> S = MessagesOf(r)
    /\ code = 207 <=> S \notin {{}, MessagesOf(r)}

Answer(r) ==
    /\ phase # "over" /\ r \in Unanswered \ Refused
    /\ \E code \in {201, 207, 400, 408, 500} :
       \E S \in SUBSET MessagesOf(r) : Says(r, code, S) /\ Writes(r, code, S)
    /\ UNCHANGED <<phase, taken, stored, cutShort>>

Drain ==
    /\ phase = "open" /\ phase' = "draining"
    /\ UNCHANGED <<taken, answer, published, stored, cutShort>>

Drained ==
    /\ phase = "draining" /\ phase' = "drained"
    /\ cutShort' = (Unanswered # {})
    /\ UNCHANGED <<taken, answer, published, stored>>

End ==
    /\ phase = "drained" /\ phase' = "over"
    /\ UNCHANGED <<taken, answer, published, stored, cutShort>>

Next == \/ \E r \in Request : Take(r) \/ Refuse(r) \/ Answer(r)
        \/ \E m \in Message : Store(m)
        \/ Drain \/ Drained \/ End

Spec == Init /\ [][Next]_vars
=============================================================================
