---------------------------- MODULE MCIntentSchema ----------------------------
(* Every document with at most three payload fields, written one field at  *)
(* a time.  ByteMax = 3 and Word64Max = 7 keep both limits, and the values *)
(* on either side of them, within reach.                                   *)
EXTENDS IntentSchema, FiniteSets

VARIABLE doc

StringKeys ==
  {"internal_monologue", "entity_node_id", "relation_type", "target_wasm_module",
   "target_function"}

Array(items) == Value("array", 0, items)
Object(items) == Value("object", 0, items)

Choices(key) ==
  CASE key \in StringKeys -> {Str, Number(1), Other}
    [] key = "arguments" ->
         {Str, Array({Scalar("string", 0)}), Object({}), Object({Scalar("string", 0)}),
          Object({Scalar("string", 0), Scalar("number", 1)})}
    [] key = "target_agent_id" ->
         {Str, Other} \cup {Number(n) : n \in {0, 7, 8}} \cup {Minus(n) : n \in {-5, -4, -1, 0}}
    [] key = "binary_payload" ->
         {Str, Array({}), Array({Scalar("string", 0)})}
         \cup {Array({Scalar("number", 0), Scalar("number", n)}) : n \in {3, 4, 8}}
         \cup {Array({Scalar("number", 0), Scalar("minus", n)}) : n \in {-1, 0}}
    [] key = "cognitive_frame" -> {Str}

Keys == StringKeys \cup {"arguments", "target_agent_id", "binary_payload", "cognitive_frame"}

Blank(text, intent) == Document(text, intent, [k \in {} |-> Str])

Init ==
  \E intent \in Intents \cup {"OpenDoor", "absent", "nonstring"} :
    \/ \E text \in GrammarTexts \cup ParserTexts \cup {"garbled"} : doc = Blank(text, intent)
    \/ doc = [Blank("json", intent) EXCEPT !.extraRootKey = TRUE]
    \/ doc = [Blank("json", intent) EXCEPT !.payloadIsObject = FALSE]

WriteField(key, v) ==
  /\ key \notin DOMAIN doc.fields
  /\ Cardinality(DOMAIN doc.fields) < 3
  /\ doc' = [doc EXCEPT !.fields =
               [k \in DOMAIN doc.fields \cup {key} |-> IF k = key THEN v ELSE doc.fields[k]]]

Next ==
  /\ doc.payloadIsObject
  /\ \E key \in Keys : \E v \in Choices(key) : WriteField(key, v)

Spec == Init /\ [][Next]_doc

-----------------------------------------------------------------------------
(* The hand-written checks of DeserializeIntentOnly accept exactly the     *)
(* pairings the prompt spells out to the brain, to the last byte value,    *)
(* and hand on the intent that was written.                                *)
AcceptsExactlyThePairings ==
  /\ Accepted(doc) <=>
       /\ doc.text \in ParserTexts /\ doc.payloadIsObject /\ ~doc.extraRootKey
       /\ doc.intent \in Intents
       /\ Conforms(doc.fields, Pairings[doc.intent])
  /\ Accepted(doc) => DeserializeIntentOnly(doc) = doc.intent

(* The plain spelling of a document: keys in order, nothing escaped that   *)
(* need not be, and no sign before a zero.                                 *)
PlainScalar(i) == IF MinusZero(i) THEN Scalar("number", 0) ELSE i

PlainValue(v) ==
  Value(IF MinusZero(v) THEN "number" ELSE v.kind, v.n, {PlainScalar(i) : i \in v.items})

Plain(d) ==
  [d EXCEPT !.text = "json",
            !.fields = [k \in DOMAIN d.fields |-> PlainValue(d.fields[k])]]

(* Nothing but control characters is kept from the brain: what the Warden  *)
(* takes can be derived in its plain spelling, and is taken in that one    *)
(* for the same intent.                                                    *)
AcceptedIsDerivable ==
  Accepted(doc) /\ doc.text # "control" =>
    /\ Derives(Plain(doc))
    /\ DeserializeIntentOnly(Plain(doc)) = DeserializeIntentOnly(doc)

(* What the Warden takes and the grammar does not derive as it stands is   *)
(* spelled in another way, or has a minus before a zero.                   *)
HasMinusZero(v) == MinusZero(v) \/ \E i \in v.items : MinusZero(i)

ParserGapIsKnown ==
  Accepted(doc) /\ ~Derives(doc) =>
    \/ doc.text \in {"respelled", "control"}
    \/ \E k \in DOMAIN doc.fields : HasMinusZero(doc.fields[k])

(* What the grammar derives is turned down by the Warden for three reasons *)
(* only: the parser does not take the text, the intent is paired with the  *)
(* payload of another one, or a number is too large.                       *)
TooLarge(v) ==
  \/ v.kind = "number" /\ v.n > Word64Max
  \/ \E i \in v.items : i.kind = "number" /\ i.n > ByteMax

GrammarGapIsKnown ==
  Derives(doc) /\ ~Accepted(doc) =>
    \/ doc.text = "loose"
    \/ DOMAIN doc.fields # DOMAIN Pairings[doc.intent]
    \/ \E k \in DOMAIN doc.fields : TooLarge(doc.fields[k])

(* The grammar and the Warden, each written by hand, agree but for these   *)
(* gaps, on either side.                                                   *)
GrammarMatchesTheWarden == AcceptedIsDerivable /\ ParserGapIsKnown /\ GrammarGapIsKnown

(* docs/JSON_CONTRACT.md: the four structures are "the system's            *)
(* foundational LLM grammar" and "only these" are permitted, so what the   *)
(* grammar of the code lets a brain emit is one of them.                   *)
GrammarPermitsOnlyTheContract == Derives(doc) /\ doc.text = "json" => Accepted(doc)
===============================================================================
