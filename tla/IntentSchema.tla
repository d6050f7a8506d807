----------------------------- MODULE IntentSchema -----------------------------
(***************************************************************************)
(* What the Warden does with a JSON document the brain has emitted         *)
(* (warden/WardenEngine, DeserializeIntentOnly), and what the GBNF grammar *)
(* handed to the brain lets it emit (warden/GrammarConstraints).           *)
(*                                                                         *)
(* A document is abstracted to what these two tell apart: whether the text *)
(* is JSON, the value of intent_type, the kind of every payload field and  *)
(* whether the root has a key of another name.  Integers keep their limits:*)
(* ByteMax stands for 255, Word64Max for 2^64 - 1.                         *)
(***************************************************************************)
EXTENDS Integers

CONSTANTS ByteMax, Word64Max

ASSUME SchemaAssumption ==
  ByteMax \in Nat /\ Word64Max \in Nat /\ ByteMax < Word64Max

Intents == {"System2Think", "QueryMerovingian", "InvokeSeraph", "BroadcastSmith"}

WardenErrors == {"GrammarViolation", "InferenceTimeout", "UnauthorizedIntent"}

(* A scalar: a string, a number without fraction or exponent, or anything  *)
(* else (null, a Boolean, a number with a fraction).  A number written     *)
(* with a minus sign is a kind of its own: there are two zeros.  A value   *)
(* is a scalar, or an array or an object with the scalars it holds.        *)
Scalar(kind, n) == [kind |-> kind, n |-> n]
Value(kind, n, items) == [kind |-> kind, n |-> n, items |-> items]

Str == Value("string", 0, {})
Number(n) == Value("number", n, {})
Minus(n) == Value("minus", n, {})
Other == Value("other", 0, {})

(* A document.  The text is one of five: "json" is derived by the grammar  *)
(* and parsed; "loose" is only derived (leading zeros, a raw control       *)
(* character, bytes that are not UTF-8); "respelled" is only parsed (other *)
(* order of keys or white space, a repeated key, \u for a character that   *)
(* can be written without); "control" is only parsed and cannot be spelled *)
(* otherwise (a control character, for which JSON has \u alone); "garbled" *)
(* is neither.                                                             *)
GrammarTexts == {"json", "loose"}
ParserTexts == {"json", "respelled", "control"}

Document(text, intent, fields) ==
  [text |-> text, intent |-> intent, payloadIsObject |-> TRUE, fields |-> fields,
   extraRootKey |-> FALSE]

-----------------------------------------------------------------------------
(* The number types of the JSON parser: an integer that does not fit 64    *)
(* bits becomes a floating-point number.                                   *)
IsUnsigned(v) == v.kind = "number" /\ v.n \in 0..Word64Max
IsSigned(v) == v.kind = "minus" /\ v.n <= 0 /\ 2 * v.n >= -(Word64Max + 1)

ReadsUInt64(v) == IsUnsigned(v) \/ (IsSigned(v) /\ v.n >= 0)

(* Slip: the limit itself is taken for too large. *)
ReadsByte_Strict(v) == ReadsUInt64(v) /\ v.n < ByteMax

ReadsByte(v) == ReadsUInt64(v) /\ v.n <= ByteMax

ReadsStringMap(v) ==
  v.kind = "object" /\ \A item \in v.items : item.kind = "string"

HasOnlyKeys(object, keys) == DOMAIN object \subseteq keys

(* Slip: unexpected fields of the payload are let through. *)
HasExactly_Lenient(object, keys) == keys \subseteq DOMAIN object

(* HasOnlyKeys and the contains() tests that follow it. *)
HasExactly(object, keys) == HasOnlyKeys(object, keys) /\ keys \subseteq DOMAIN object

PayloadIsValid(intent, fields) ==
  \/ /\ intent = "System2Think"
     /\ HasExactly(fields, {"internal_monologue"})
     /\ fields["internal_monologue"].kind = "string"
  \/ /\ intent = "QueryMerovingian"
     /\ HasExactly(fields, {"entity_node_id", "relation_type"})
     /\ fields["entity_node_id"].kind = "string"
     /\ fields["relation_type"].kind = "string"
  \/ /\ intent = "InvokeSeraph"
     /\ HasExactly(fields, {"target_wasm_module", "target_function", "arguments"})
     /\ fields["target_wasm_module"].kind = "string"
     /\ fields["target_function"].kind = "string"
     /\ ReadsStringMap(fields["arguments"])
  \/ /\ intent = "BroadcastSmith"
     /\ HasExactly(fields, {"target_agent_id", "binary_payload"})
     /\ fields["binary_payload"].kind = "array"
     /\ ReadsUInt64(fields["target_agent_id"])
     /\ \A item \in fields["binary_payload"].items : ReadsByte(item)

(* The checks on the root; "absent" and "nonstring" are intent_type values.*)
RootIsValid(doc) ==
  /\ doc.text \in ParserTexts
  /\ ~doc.extraRootKey
  /\ doc.intent \notin {"absent", "nonstring"}
  /\ doc.payloadIsObject

(* The intent of an accepted document, or a WardenError. *)
DeserializeIntentOnly(doc) ==
  CASE ~RootIsValid(doc) -> "GrammarViolation"
    [] RootIsValid(doc) /\ doc.intent \notin Intents -> "UnauthorizedIntent"
    [] RootIsValid(doc) /\ doc.intent \in Intents ->
         IF PayloadIsValid(doc.intent, doc.fields) THEN doc.intent
         ELSE "GrammarViolation"

Accepted(doc) == DeserializeIntentOnly(doc) \in Intents

-----------------------------------------------------------------------------
(* The pairings the prompt spells out to the brain, as a table: the kinds  *)
(* each field may have.                                                    *)
Pairings ==
  [System2Think |-> [internal_monologue |-> "string"],
   QueryMerovingian |-> [entity_node_id |-> "string", relation_type |-> "string"],
   InvokeSeraph |-> [target_wasm_module |-> "string", target_function |-> "string",
                     arguments |-> "string map"],
   BroadcastSmith |-> [target_agent_id |-> "natural", binary_payload |-> "bytes"]]

MinusZero(v) == v.kind = "minus" /\ v.n = 0

HasKind(v, kind) ==
  CASE kind = "string" -> v.kind = "string"
    [] kind = "string map" ->
         v.kind = "object" /\ {i.kind : i \in v.items} \subseteq {"string"}
    [] kind = "natural" ->
         (v.kind = "number" /\ v.n \in 0..Word64Max) \/ MinusZero(v)
    [] kind = "bytes" ->
         /\ v.kind = "array"
         /\ {i \in v.items : ~MinusZero(i)} \subseteq {Scalar("number", n) : n \in 0..ByteMax}

Conforms(fields, schema) ==
  DOMAIN fields = DOMAIN schema /\ \A k \in DOMAIN schema : HasKind(fields[k], schema[k])

(* What the grammar derives: one of the four intents beside one of the     *)
(* four payloads, chosen independently, and numbers of any length without  *)
(* a sign.                                                                 *)
GrammarKind(v, kind) ==
  CASE kind = "string" -> v.kind = "string"
    [] kind = "string map" ->
         v.kind = "object" /\ {i.kind : i \in v.items} \subseteq {"string"}
    [] kind = "natural" -> v.kind = "number" /\ v.n \in Nat
    [] kind = "bytes" -> v.kind = "array" /\ \A i \in v.items : i.kind = "number" /\ i.n \in Nat

Derives(doc) ==
  /\ doc.text \in GrammarTexts
  /\ doc.intent \in Intents
  /\ doc.payloadIsObject /\ ~doc.extraRootKey
  /\ \E i \in Intents :
       /\ DOMAIN doc.fields = DOMAIN Pairings[i]
       /\ \A k \in DOMAIN doc.fields : GrammarKind(doc.fields[k], Pairings[i][k])
===============================================================================
