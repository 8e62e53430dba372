----------------------------- MODULE MessageRules -----------------------------
(***************************************************************************)
(* Which messages are accepted: the checks of the HTTP handlers            *)
(* (internal/server/handlers.go), of the message (internal/models/         *)
(* message.go), of the producer's validator (internal/producer/            *)
(* validator.go) and of the security middleware (internal/security).       *)
(* PublishService runs the first two; no code of the program constructs    *)
(* the others.  Pure operators.                                            *)
(*                                                                         *)
(* A text is its length in bytes and what the checks look at: which        *)
(* characters it has, how it starts, which configured patterns match it.   *)
(* A field that the JSON body lacks is as good as an empty one.            *)
(***************************************************************************)
EXTENDS Integers, Sequences, FiniteSets, FiniteSetsExt

KB == 1024
MB == 1024 * KB
Minute == 60
Hour == 60 * Minute
Day == 24 * Hour

\* "plain": letters, digits, underscores and hyphens; "dotted": dots as well.
Topic == {t \in [name : STRING, length : Nat, chars : {"plain", "dotted", "other"},
                 first : {"other", "underscore", "dot"}, matches : SUBSET STRING] :
             t.first = "dot" => t.chars # "plain"}

Key == [length : Nat, control : BOOLEAN]
Header == [name : STRING, key : Nat, value : Nat]

\* timestamp is relative to now, in seconds (0 if not given); content is the set
\* of patterns that the value or the value of a header matches.
MessageRequest == [topic : Topic, key : Key, value : Nat,
                   headers : {hs \in SUBSET Header :
                                 IsFiniteSet(hs) /\ \A g, h \in hs : g.name = h.name => g = h},
                   timestamp : Int, content : SUBSET STRING]

-----------------------------------------------------------------------------
(* The handlers, and the message they make.                                *)

WellNamed(q) == /\ q.topic.length \in 1..255 /\ q.topic.chars # "other"
                /\ q.value > 0
                /\ q.key.length <= KB

FewShortHeaders(q) == /\ Cardinality(q.headers) <= 50
                      /\ \A h \in q.headers : h.key <= 256 /\ h.value <= KB

\* The first check that fails decides.
validateMessageRequest(q) ==
    IF ~WellNamed(q) THEN "bad"
    ELSE IF q.value > MB THEN "large"
    ELSE IF FewShortHeaders(q) /\ q.timestamp \in (-Day)..5 * Minute THEN "ok" ELSE "bad"

\* Message.Size, with the overhead that Kafka is thought to add.
Size(q) == q.topic.length + q.key.length + q.value + 64
           + MapThenSumSet(LAMBDA h : h.key + h.value, q.headers)

validateTopic(q) ==
    q.topic.length \in 1..255 /\ q.topic.chars = "plain" /\ q.topic.first = "other"

validateHeaders(q) == \A h \in q.headers : h.key \in 1..256 /\ h.value <= KB

\* Message.Validate.
Validate(q) == /\ validateTopic(q)
               /\ q.value > 0
               /\ q.timestamp \in (-365 * Day)..Hour
               /\ validateHeaders(q)
               /\ Size(q) <= MB

Kinds == {"good",
          "unfit",  \* passes validateMessageRequest, fails Message.Validate
          "bad",    \* fails validateMessageRequest
          "large"}  \* fails it for its size

Kind(q) == IF validateMessageRequest(q) # "ok" THEN validateMessageRequest(q)
           ELSE IF Validate(q) THEN "good" ELSE "unfit"

-----------------------------------------------------------------------------
(* The producer's validator: v is its configuration.                       *)

Validator == [maxMessageSize : Int, allowedTopics : SUBSET STRING, topicPatterns : SUBSET STRING,
              requiredHeaders : SUBSET STRING, forbiddenPatterns : SUBSET STRING]

DefaultValidator == [maxMessageSize |-> MB, allowedTopics |-> {}, topicPatterns |-> {},
                     requiredHeaders |-> {}, forbiddenPatterns |-> {}]

\* A list of topics makes the patterns idle.
validateTopicAccess(v, t) ==
    IF v.allowedTopics # {} THEN t.name \in v.allowedTopics
    ELSE v.topicPatterns # {} => t.matches \cap v.topicPatterns # {}

validateMessageSize(v, q) == v.maxMessageSize > 0 => Size(q) <= v.maxMessageSize

validateRequiredHeaders(v, q) == v.requiredHeaders \subseteq {h.name : h \in q.headers}

ValidateMessage(v, q) == /\ Validate(q)
                         /\ validateTopicAccess(v, q.topic)
                         /\ validateMessageSize(v, q)
                         /\ validateRequiredHeaders(v, q)
                         /\ q.content \cap v.forbiddenPatterns = {}
                         /\ q.timestamp \in (-7 * Day)..5 * Minute

ValidateMessageBatch(v, batch) ==
    batch # <<>> /\ \A i \in DOMAIN batch : ValidateMessage(v, batch[i])

AddAllowedTopic(v, name) == [v EXCEPT !.allowedTopics = @ \cup {name}]
RemoveAllowedTopic(v, name) == [v EXCEPT !.allowedTopics = @ \ {name}]

\* IsTopicAllowed knows nothing of the patterns.
IsTopicAllowed(v, name) == v.allowedTopics = {} \/ name \in v.allowedTopics

-----------------------------------------------------------------------------
(* The security middleware.  It looks for the fields payload and           *)
(* partitionKey, the handlers for value and key.                           *)

\* (A JSON string is always valid UTF-8.)
ValidateTopicName(strict, t) ==
    /\ t.length \in 1..255 /\ t.chars # "other"
    /\ strict => t.first = "other"

ValidatePartitionKey(strict, k) == k.length <= KB /\ (strict /\ k.length > 0 => ~k.control)

ValidateMessagePayload(length) == length \in 1..10 * MB

ValidateHeaders(headers) == /\ Cardinality(headers) <= 50
                            /\ \A h \in headers : h.key \in 1..256 /\ h.value <= KB

JsonBody == [payload : Nat, partitionKey : Key, request : MessageRequest]

validateSingleMessageRequest(strict, b) ==
    /\ ValidateTopicName(strict, b.request.topic)
    /\ ValidatePartitionKey(strict, b.partitionKey)
    /\ ValidateMessagePayload(b.payload)
    /\ ValidateHeaders(b.request.headers)

\* A message of a batch: its key and headers are not looked at.
validateSingleMessageData(strict, b) ==
    ValidateTopicName(strict, b.request.topic) /\ ValidateMessagePayload(b.payload)

validateBatchRequest(strict, messages) ==
    Len(messages) \in 1..100
    /\ \A i \in DOMAIN messages : validateSingleMessageData(strict, messages[i])
=============================================================================
