------------------------------ MODULE Serializers ------------------------------
(***************************************************************************)
(* The serializers of internal/serializer/serializer.go and their manager, *)
(* as pure operators: which messages survive the way out and back, and     *)
(* what is left of the others.  Nothing in the program serializes a        *)
(* message this way yet.                                                   *)
(*                                                                         *)
(* Serialized data are the fields that the bytes hold.  Of the texts only  *)
(* the value may hold bytes that are not UTF-8, and no time passes; whether *)
(* a message without headers has an empty map or none is left out.         *)
(***************************************************************************)
EXTENDS MessageRules

Format == {"json", "avro", "binary", "string"}

\* The binary and the string serializer do the same.
Serializer == {"json", "raw"}

\* What MessageRules knows of a message; whether it has an ID; how many bytes of
\* its value are not UTF-8; the nanoseconds of its timestamp.
Stored == {s \in [message : MessageRequest, id : BOOLEAN, stray : Nat, nanos : Nat] :
              s.stray <= s.message.value}

\* JSON has no field for the ID, turns every stray byte into the three of U+FFFD,
\* and writes whole seconds (RFC 3339).
JSON(s) == [message |-> [s.message EXCEPT !.value = @ + 2 * s.stray],
            id |-> FALSE, stray |-> 0, nanos |-> 0]

NoTopic == [name |-> "", length |-> 0, chars |-> "plain", first |-> "other", matches |-> {}]
NoKey == [length |-> 0, control |-> FALSE]

\* Raw data are the value; the rest of the message "must be set by caller", but
\* for the timestamp, which is the time now.
Raw(s, now) ==
    [message |-> [topic |-> NoTopic, key |-> NoKey, value |-> s.message.value,
                  headers |-> {}, timestamp |-> 0, content |-> s.message.content],
     id |-> FALSE, stray |-> s.stray, nanos |-> now]

\* Deserialize(Serialize(s)), when the clock shows the nanoseconds now.
RoundTrip(serializer, s, now) == IF serializer = "json" THEN JSON(s) ELSE Raw(s, now)

-----------------------------------------------------------------------------
Manager == [serializers : UNION {[F -> Serializer] : F \in SUBSET Format},
            defaultFormat : Format]

NewSerializerManager(format) ==
    [serializers |-> [f \in {"json", "binary", "string"} |-> IF f = "json" THEN "json" ELSE "raw"],
     defaultFormat |-> format]

RegisterSerializer(m, format, serializer) ==
    [m EXCEPT !.serializers = [f \in DOMAIN m.serializers \cup {format} |->
                                 IF f = format THEN serializer ELSE m.serializers[f]]]

ValidateFormat(m, format) == format \in DOMAIN m.serializers

\* A format that is not registered is refused and changes nothing.
SetDefaultFormat(m, format) ==
    IF ValidateFormat(m, format) THEN [m EXCEPT !.defaultFormat = format] ELSE m

\* GetDefaultSerializer drops the error of GetSerializer: it may return nil.
GetDefaultSerializer(m) ==
    IF ValidateFormat(m, m.defaultFormat) THEN m.serializers[m.defaultFormat] ELSE "nil"
=============================================================================
