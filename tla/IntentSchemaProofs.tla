--------------------------- MODULE IntentSchemaProofs ---------------------------
(***************************************************************************)
(* What DeserializeIntentOnly accepts, for every document (any number of   *)
(* fields with any names, arrays and objects of any size) and all limits.  *)
(*                                                                         *)
(* There is no induction here: each of the four intents is a case, and in  *)
(* it each reader of the code meets the kind the table of pairings names.  *)
(***************************************************************************)
EXTENDS MCIntentSchema, TLAPS

Scalars == [kind : {"string", "number", "minus", "other"}, n : Int]
Values ==
  [kind : {"string", "number", "minus", "other", "array", "object"}, n : Int,
   items : SUBSET Scalars]

IsDocument(d) ==
  /\ DOMAIN d = {"text", "intent", "payloadIsObject", "fields", "extraRootKey"}
  /\ \A k \in DOMAIN d.fields : d.fields[k] \in Values

(* The readers and the kinds of the table. *)
LEMMA ReadersMeetKinds ==
  ASSUME NEW v \in Values
  PROVE  /\ HasKind(v, "string") <=> v.kind = "string"
         /\ HasKind(v, "string map") <=> ReadsStringMap(v)
         /\ HasKind(v, "natural") <=> ReadsUInt64(v)
         /\ HasKind(v, "bytes") <=> v.kind = "array" /\ \A item \in v.items : ReadsByte(item)
<1>1. HasKind(v, "string") <=> v.kind = "string"
  BY DEF HasKind
<1>2. HasKind(v, "string map") <=> ReadsStringMap(v)
  BY DEF HasKind, ReadsStringMap
<1>3. HasKind(v, "natural") <=> ReadsUInt64(v)
  BY SchemaAssumption DEF HasKind, MinusZero, ReadsUInt64, IsUnsigned, IsSigned, Values
<1>4. HasKind(v, "bytes") <=> v.kind = "array" /\ \A item \in v.items : ReadsByte(item)
  <2>1. ASSUME NEW item \in v.items
        PROVE  MinusZero(item) \/ item \in {Scalar("number", n) : n \in 0..ByteMax}
                 <=> ReadsByte(item)
    <3>1. item \in Scalars
      BY DEF Values
    <3>2. ASSUME ReadsByte(item), ~MinusZero(item)
          PROVE  item \in {Scalar("number", n) : n \in 0..ByteMax}
      <4>1. item.kind = "number" /\ item.n \in 0..ByteMax
        BY <3>1, <3>2, SchemaAssumption
           DEF MinusZero, ReadsByte, ReadsUInt64, IsUnsigned, IsSigned, Scalars
      <4>2. item = Scalar("number", item.n)
        BY <3>1, <4>1 DEF Scalar, Scalars
      <4> QED
        BY <4>1, <4>2
    <3>3. ASSUME NEW n \in 0..ByteMax, item = Scalar("number", n) PROVE ReadsByte(item)
      BY <3>3, SchemaAssumption DEF Scalar, ReadsByte, ReadsUInt64, IsUnsigned
    <3>4. MinusZero(item) => ReadsByte(item)
      BY <3>1, SchemaAssumption DEF MinusZero, ReadsByte, ReadsUInt64, IsSigned, Scalars
    <3> QED
      BY <3>2, <3>3, <3>4
  <2> QED
    BY <2>1 DEF HasKind
<1> QED
  BY <1>1, <1>2, <1>3, <1>4

LEMMA InvokeRow ==
  ASSUME NEW f, NEW row, row = [target_wasm_module |-> "string", target_function |-> "string",
                                arguments |-> "string map"]
  PROVE  Conforms(f, row) <=>
           /\ DOMAIN f = {"target_wasm_module", "target_function", "arguments"}
           /\ HasKind(f["target_wasm_module"], "string") /\ HasKind(f["target_function"], "string")
           /\ HasKind(f["arguments"], "string map")
<1>1. /\ DOMAIN row = {"target_wasm_module", "target_function", "arguments"}
      /\ row["target_wasm_module"] = "string" /\ row["target_function"] = "string"
      /\ row["arguments"] = "string map"
  OBVIOUS
<1>2. \A k \in DOMAIN row : k \in {"target_wasm_module", "target_function", "arguments"}
  BY <1>1
<1> QED
  BY <1>1, <1>2 DEF Conforms

(* The four alternatives of the code, and the four rows of the table. *)
LEMMA PayloadMeetsPairing ==
  ASSUME NEW d, IsDocument(d), d.intent \in Intents
  PROVE  PayloadIsValid(d.intent, d.fields) <=> Conforms(d.fields, Pairings[d.intent])
<1> DEFINE f == d.fields
<1>0. \A k \in DOMAIN f : f[k] \in Values
  BY DEF IsDocument
<1> HIDE DEF f
<1>1. CASE d.intent = "System2Think"
  <2>1. Pairings[d.intent] = [internal_monologue |-> "string"]
    BY <1>1 DEF Pairings
  <2>2. Conforms(f, Pairings[d.intent]) <=>
          DOMAIN f = {"internal_monologue"} /\ HasKind(f["internal_monologue"], "string")
    BY <2>1 DEF Conforms
  <2>3. PayloadIsValid(d.intent, f) <=>
          DOMAIN f = {"internal_monologue"} /\ f["internal_monologue"].kind = "string"
    BY <1>1 DEF PayloadIsValid, HasExactly, HasOnlyKeys
  <2> QED
    BY <1>0, <2>2, <2>3, ReadersMeetKinds DEF f
<1>2. CASE d.intent = "QueryMerovingian"
  <2>1. Pairings[d.intent] = [entity_node_id |-> "string", relation_type |-> "string"]
    BY <1>2 DEF Pairings
  <2>2. Conforms(f, Pairings[d.intent]) <=>
          /\ DOMAIN f = {"entity_node_id", "relation_type"}
          /\ HasKind(f["entity_node_id"], "string") /\ HasKind(f["relation_type"], "string")
    BY <2>1 DEF Conforms
  <2>3. PayloadIsValid(d.intent, f) <=>
          /\ DOMAIN f = {"entity_node_id", "relation_type"}
          /\ f["entity_node_id"].kind = "string" /\ f["relation_type"].kind = "string"
    BY <1>2 DEF PayloadIsValid, HasExactly, HasOnlyKeys
  <2> QED
    BY <1>0, <2>2, <2>3, ReadersMeetKinds DEF f
<1>3. CASE d.intent = "InvokeSeraph"
  <2>1. Pairings[d.intent] = [target_wasm_module |-> "string", target_function |-> "string",
                              arguments |-> "string map"]
    BY <1>3 DEF Pairings
  <2>2. Conforms(f, Pairings[d.intent]) <=>
          /\ DOMAIN f = {"target_wasm_module", "target_function", "arguments"}
          /\ HasKind(f["target_wasm_module"], "string") /\ HasKind(f["target_function"], "string")
          /\ HasKind(f["arguments"], "string map")
    BY <2>1, InvokeRow
  <2>3. PayloadIsValid(d.intent, f) <=>
          /\ DOMAIN f = {"target_wasm_module", "target_function", "arguments"}
          /\ f["target_wasm_module"].kind = "string" /\ f["target_function"].kind = "string"
          /\ ReadsStringMap(f["arguments"])
    BY <1>3 DEF PayloadIsValid, HasExactly, HasOnlyKeys
  <2> QED
    BY <1>0, <2>2, <2>3, ReadersMeetKinds DEF f
<1>4. CASE d.intent = "BroadcastSmith"
  <2>1. Pairings[d.intent] = [target_agent_id |-> "natural", binary_payload |-> "bytes"]
    BY <1>4 DEF Pairings
  <2>2. Conforms(f, Pairings[d.intent]) <=>
          /\ DOMAIN f = {"target_agent_id", "binary_payload"}
          /\ HasKind(f["target_agent_id"], "natural") /\ HasKind(f["binary_payload"], "bytes")
    BY <2>1 DEF Conforms
  <2>3. PayloadIsValid(d.intent, f) <=>
          /\ DOMAIN f = {"target_agent_id", "binary_payload"}
          /\ f["binary_payload"].kind = "array" /\ ReadsUInt64(f["target_agent_id"])
          /\ \A item \in f["binary_payload"].items : ReadsByte(item)
    BY <1>4 DEF PayloadIsValid, HasExactly, HasOnlyKeys
  <2> QED
    BY <1>0, <2>2, <2>3, ReadersMeetKinds DEF f
<1> QED
  BY <1>1, <1>2, <1>3, <1>4 DEF Intents, f

LEMMA AcceptedForm ==
  ASSUME NEW d, IsDocument(d)
  PROVE  Accepted(d) <=> RootIsValid(d) /\ d.intent \in Intents
                         /\ PayloadIsValid(d.intent, d.fields)
<1>1. {"GrammarViolation", "UnauthorizedIntent"} \cap Intents = {}
  BY DEF Intents
<1> QED
  BY <1>1 DEF Accepted, DeserializeIntentOnly

-----------------------------------------------------------------------------
LEMMA AcceptedConforms ==
  ASSUME NEW d, IsDocument(d)
  PROVE  /\ Accepted(d) <=>
              /\ d.text \in ParserTexts /\ d.payloadIsObject /\ ~d.extraRootKey
              /\ d.intent \in Intents
              /\ Conforms(d.fields, Pairings[d.intent])
         /\ Accepted(d) => DeserializeIntentOnly(d) = d.intent
<1>1. Accepted(d) <=> RootIsValid(d) /\ d.intent \in Intents
                      /\ PayloadIsValid(d.intent, d.fields)
  BY AcceptedForm
<1>2. RootIsValid(d) /\ d.intent \in Intents <=>
        d.text \in ParserTexts /\ d.payloadIsObject /\ ~d.extraRootKey /\ d.intent \in Intents
  BY DEF RootIsValid, Intents
<1>3. d.intent \in Intents =>
        (PayloadIsValid(d.intent, d.fields) <=> Conforms(d.fields, Pairings[d.intent]))
  BY PayloadMeetsPairing
<1>4. Accepted(d) => DeserializeIntentOnly(d) = d.intent
  BY <1>1 DEF DeserializeIntentOnly
<1> QED
  BY <1>1, <1>2, <1>3, <1>4

(* DeserializeIntentOnly accepts exactly the four pairings of the prompt,  *)
(* and answers the intent that was written.                                *)
THEOREM AcceptsPairings == IsDocument(doc) => AcceptsExactlyThePairings
  BY AcceptedConforms DEF AcceptsExactlyThePairings

LEMMA RowKinds ==
  ASSUME NEW intent, intent \in Intents
  PROVE  \A x \in DOMAIN Pairings[intent] :
           Pairings[intent][x] \in {"string", "string map", "natural", "bytes"}
<1>1. CASE intent = "System2Think"
  <2> DEFINE row == Pairings["System2Think"]
  <2>1. row = [internal_monologue |-> "string"]
    BY DEF Pairings
  <2> HIDE DEF row
  <2>2. DOMAIN row = {"internal_monologue"}
    BY <2>1
  <2>3. row["internal_monologue"] = "string"
    BY <2>1
  <2>4. \A x \in DOMAIN row : row[x] \in {"string", "string map", "natural", "bytes"}
    BY <2>2, <2>3
  <2> QED
    BY <1>1, <2>4 DEF row
<1>2. CASE intent = "QueryMerovingian"
  <2> DEFINE row == Pairings["QueryMerovingian"]
  <2>1. row = [entity_node_id |-> "string", relation_type |-> "string"]
    BY DEF Pairings
  <2> HIDE DEF row
  <2>2. DOMAIN row = {"entity_node_id", "relation_type"}
    BY <2>1
  <2>3. row["entity_node_id"] = "string" /\ row["relation_type"] = "string"
    BY <2>1
  <2>4. \A x \in DOMAIN row : row[x] \in {"string", "string map", "natural", "bytes"}
    BY <2>2, <2>3
  <2> QED
    BY <1>2, <2>4 DEF row
<1>3. CASE intent = "InvokeSeraph"
  <2> DEFINE row == Pairings["InvokeSeraph"]
  <2>1. row = [target_wasm_module |-> "string", target_function |-> "string", arguments |-> "string map"]
    BY DEF Pairings
  <2> HIDE DEF row
  <2>2. DOMAIN row = {"target_wasm_module", "target_function", "arguments"}
    BY <2>1
  <2>3. row["target_wasm_module"] = "string" /\ row["target_function"] = "string" /\ row["arguments"] = "string map"
    BY <2>1
  <2>4. \A x \in DOMAIN row : row[x] \in {"string", "string map", "natural", "bytes"}
    BY <2>2, <2>3
  <2> QED
    BY <1>3, <2>4 DEF row
<1>4. CASE intent = "BroadcastSmith"
  <2> DEFINE row == Pairings["BroadcastSmith"]
  <2>1. row = [target_agent_id |-> "natural", binary_payload |-> "bytes"]
    BY DEF Pairings
  <2> HIDE DEF row
  <2>2. DOMAIN row = {"target_agent_id", "binary_payload"}
    BY <2>1
  <2>3. row["target_agent_id"] = "natural" /\ row["binary_payload"] = "bytes"
    BY <2>1
  <2>4. \A x \in DOMAIN row : row[x] \in {"string", "string map", "natural", "bytes"}
    BY <2>2, <2>3
  <2> QED
    BY <1>4, <2>4 DEF row
<1> QED
  BY <1>1, <1>2, <1>3, <1>4 DEF Intents

LEMMA BytesAreNaturals == 0..ByteMax \subseteq Nat
  BY SchemaAssumption

(* A value of a kind of the table that holds no minus zero is one the      *)
(* grammar derives for it.                                                 *)
LEMMA KindsAreDerivable ==
  ASSUME NEW v, NEW x, x \in {"string", "string map", "natural", "bytes"}, HasKind(v, x),
         ~HasMinusZero(v)
  PROVE  GrammarKind(v, x)
<1>1. CASE x = "bytes"
  <2>1. /\ v.kind = "array"
        /\ {i \in v.items : ~MinusZero(i)} \subseteq {Scalar("number", m) : m \in 0..ByteMax}
        /\ \A i \in v.items : ~MinusZero(i)
    BY <1>1 DEF HasKind, HasMinusZero
  <2>2. ASSUME NEW i, i \in v.items PROVE i.kind = "number" /\ i.n \in Nat
    <3>1. PICK m : m \in 0..ByteMax /\ i = Scalar("number", m)
      BY <2>1, <2>2, Zenon
    <3>2. i.kind = "number" /\ i.n = m
      BY <3>1 DEF Scalar
    <3>3. m \in Nat
      BY <3>1, BytesAreNaturals, Zenon
    <3> QED
      BY <3>2, <3>3, Zenon
  <2> QED
    BY <1>1, <2>1, <2>2, Zenon DEF GrammarKind
<1>2. CASE x = "natural"
  BY <1>2, SchemaAssumption DEF HasKind, HasMinusZero, GrammarKind
<1>3. CASE x = "string"
  BY <1>3, Zenon DEF HasKind, GrammarKind
<1>4. CASE x = "string map"
  BY <1>4, Zenon DEF HasKind, GrammarKind
<1> QED
  BY <1>1, <1>2, <1>3, <1>4

(* The plain spelling of a value is a value, of the same kind of the       *)
(* table, and holds no minus zero.                                         *)
LEMMA PlainScalars ==
  ASSUME NEW i \in Scalars
  PROVE  PlainScalar(i) \in Scalars /\ ~MinusZero(PlainScalar(i))
  BY DEF PlainScalar, MinusZero, Scalar, Scalars

LEMMA PlainValues ==
  ASSUME NEW v \in Values
  PROVE  PlainValue(v) \in Values /\ ~HasMinusZero(PlainValue(v))
<1> DEFINE items == {PlainScalar(i) : i \in v.items}
           kind == IF MinusZero(v) THEN "number" ELSE v.kind
<1>1. items \in SUBSET Scalars /\ \A i \in items : ~MinusZero(i)
  BY PlainScalars DEF Values
<1>2. kind \in {"string", "number", "minus", "other", "array", "object"} /\ v.n \in Int
  BY DEF Values
<1>3. PlainValue(v) = [kind |-> kind, n |-> v.n, items |-> items]
  BY DEF PlainValue, Value
<1>4. ~(kind = "minus" /\ v.n = 0)
  BY DEF MinusZero
<1> HIDE DEF items, kind
<1>5. ~MinusZero(PlainValue(v)) /\ PlainValue(v).items = items
  BY <1>3, <1>4 DEF MinusZero
<1> QED
  BY <1>1, <1>2, <1>3, <1>5 DEF Values, HasMinusZero

LEMMA ZeroIsAByte == 0 \in 0..ByteMax
  BY SchemaAssumption

LEMMA PlainKeepsKind ==
  ASSUME NEW v \in Values, NEW x, x \in {"string", "string map", "natural", "bytes"},
         HasKind(v, x)
  PROVE  HasKind(PlainValue(v), x)
<1>1. /\ PlainValue(v).kind = IF MinusZero(v) THEN "number" ELSE v.kind
      /\ PlainValue(v).n = v.n
      /\ PlainValue(v).items = {PlainScalar(i) : i \in v.items}
  BY DEF PlainValue, Value
<1>2. CASE x = "string"
  BY <1>1, <1>2 DEF HasKind, MinusZero
<1>3. CASE x = "string map"
  <2>1. v.kind = "object" /\ {i.kind : i \in v.items} \subseteq {"string"}
    BY <1>3 DEF HasKind
  <2>2. \A i \in v.items : i.kind = "string"
    BY <2>1, Zenon
  <2>3. \A i \in v.items : PlainScalar(i) = i
    BY <2>2 DEF PlainScalar, MinusZero
  <2>4. \A i \in PlainValue(v).items : i.kind = "string"
    BY <1>1, <2>2, <2>3
  <2>5. {i.kind : i \in PlainValue(v).items} \subseteq {"string"}
    BY <2>4
  <2> QED
    BY <1>1, <1>3, <2>1, <2>5 DEF HasKind, MinusZero
<1>4. CASE x = "natural"
  BY <1>1, <1>4, SchemaAssumption DEF HasKind, MinusZero
<1>5. CASE x = "bytes"
  <2> DEFINE bytes == {Scalar("number", n) : n \in 0..ByteMax}
  <2>1. v.kind = "array" /\ {i \in v.items : ~MinusZero(i)} \subseteq bytes
    BY <1>5 DEF HasKind
  <2>2. Scalar("number", 0) \in bytes
    BY ZeroIsAByte, Zenon
  <2> HIDE DEF bytes
  <2>3. \A i \in v.items : PlainScalar(i) \in bytes
    BY <2>1, <2>2 DEF PlainScalar
  <2>4. {i \in PlainValue(v).items : ~MinusZero(i)} \subseteq bytes
    BY <1>1, <2>3
  <2>5. PlainValue(v).kind = "array"
    BY <1>1, <2>1 DEF MinusZero
  <2> QED
    BY <1>5, <2>4, <2>5 DEF HasKind, bytes
<1> QED
  BY <1>2, <1>3, <1>4, <1>5

LEMMA PlainDocument ==
  ASSUME NEW d, IsDocument(d)
  PROVE  /\ IsDocument(Plain(d))
         /\ Plain(d).text = "json" /\ Plain(d).intent = d.intent
         /\ Plain(d).payloadIsObject = d.payloadIsObject
         /\ Plain(d).extraRootKey = d.extraRootKey
         /\ DOMAIN Plain(d).fields = DOMAIN d.fields
         /\ \A k \in DOMAIN d.fields : Plain(d).fields[k] = PlainValue(d.fields[k])
<1> DEFINE f == [k \in DOMAIN d.fields |-> PlainValue(d.fields[k])]
<1>1. Plain(d) = [d EXCEPT !.text = "json", !.fields = f]
  BY DEF Plain
<1>2. DOMAIN f = DOMAIN d.fields /\ \A k \in DOMAIN f : f[k] = PlainValue(d.fields[k])
  OBVIOUS
<1>3. \A k \in DOMAIN f : f[k] \in Values
  BY <1>2, PlainValues DEF IsDocument
<1> HIDE DEF f
<1>4. /\ DOMAIN Plain(d) = DOMAIN d
      /\ Plain(d).text = "json" /\ Plain(d).fields = f
      /\ Plain(d).intent = d.intent /\ Plain(d).payloadIsObject = d.payloadIsObject
      /\ Plain(d).extraRootKey = d.extraRootKey
  BY <1>1 DEF IsDocument
<1> QED
  BY <1>2, <1>3, <1>4 DEF IsDocument

(* A document that conforms to the table and that holds no minus zero is   *)
(* one the grammar derives, if its text is.                                *)
LEMMA ConformingIsDerivable ==
  ASSUME NEW d, d.text \in GrammarTexts, d.payloadIsObject, ~d.extraRootKey,
         d.intent \in Intents, Conforms(d.fields, Pairings[d.intent]),
         \A k \in DOMAIN d.fields : ~HasMinusZero(d.fields[k])
  PROVE  Derives(d)
<1>1. /\ DOMAIN d.fields = DOMAIN Pairings[d.intent]
      /\ \A k \in DOMAIN d.fields : HasKind(d.fields[k], Pairings[d.intent][k])
  BY DEF Conforms
<1>2. \A k \in DOMAIN d.fields :
        /\ Pairings[d.intent][k] \in {"string", "string map", "natural", "bytes"}
        /\ HasKind(d.fields[k], Pairings[d.intent][k])
  BY <1>1, RowKinds
<1>3. \A k \in DOMAIN d.fields : GrammarKind(d.fields[k], Pairings[d.intent][k])
  BY <1>2, KindsAreDerivable
<1> QED
  BY <1>1, <1>3 DEF Derives

(* What the Warden accepts, but for control characters, the grammar can    *)
(* derive in its plain spelling, and the Warden accepts it in that one.    *)
LEMMA AcceptedAreDerivable == IsDocument(doc) => AcceptedIsDerivable
<1> SUFFICES ASSUME IsDocument(doc), Accepted(doc)
             PROVE  /\ Derives(Plain(doc))
                    /\ DeserializeIntentOnly(Plain(doc)) = DeserializeIntentOnly(doc)
  BY DEF AcceptedIsDerivable
<1> DEFINE p == Plain(doc)
<1>1. /\ doc.payloadIsObject /\ ~doc.extraRootKey /\ doc.intent \in Intents
      /\ Conforms(doc.fields, Pairings[doc.intent])
      /\ DeserializeIntentOnly(doc) = doc.intent
  BY AcceptedConforms
<1>2. /\ IsDocument(p) /\ p.text = "json" /\ p.intent = doc.intent
      /\ p.payloadIsObject = doc.payloadIsObject /\ p.extraRootKey = doc.extraRootKey
      /\ DOMAIN p.fields = DOMAIN doc.fields
      /\ \A k \in DOMAIN doc.fields : p.fields[k] = PlainValue(doc.fields[k])
  BY PlainDocument
<1> HIDE DEF p
<1>3. \A k \in DOMAIN doc.fields :
        /\ doc.fields[k] \in Values
        /\ Pairings[doc.intent][k] \in {"string", "string map", "natural", "bytes"}
        /\ HasKind(doc.fields[k], Pairings[doc.intent][k])
  BY <1>1, RowKinds DEF Conforms, IsDocument
<1>4. \A k \in DOMAIN doc.fields : HasKind(p.fields[k], Pairings[doc.intent][k])
  BY <1>2, <1>3, PlainKeepsKind
<1>5. Conforms(p.fields, Pairings[p.intent])
  BY <1>1, <1>2, <1>4 DEF Conforms
<1>6. \A k \in DOMAIN p.fields : ~HasMinusZero(p.fields[k])
  BY <1>2, <1>3, PlainValues
<1>7. p.text \in GrammarTexts /\ p.text \in ParserTexts
  BY <1>2 DEF GrammarTexts, ParserTexts
<1>8. Derives(p)
  BY <1>1, <1>2, <1>5, <1>6, <1>7, ConformingIsDerivable
<1>9. DeserializeIntentOnly(p) = p.intent
  BY <1>1, <1>2, <1>5, <1>7, AcceptedConforms
<1> QED
  BY <1>1, <1>2, <1>8, <1>9 DEF p

LEMMA ParserGap == IsDocument(doc) => ParserGapIsKnown
<1> SUFFICES ASSUME IsDocument(doc), Accepted(doc),
                    doc.text \notin {"respelled", "control"},
                    \A k \in DOMAIN doc.fields : ~HasMinusZero(doc.fields[k])
             PROVE  Derives(doc)
  BY DEF ParserGapIsKnown
<1>1. /\ doc.text \in ParserTexts /\ doc.payloadIsObject /\ ~doc.extraRootKey
      /\ doc.intent \in Intents /\ Conforms(doc.fields, Pairings[doc.intent])
  BY AcceptedConforms
<1>2. doc.text \in GrammarTexts
  BY <1>1 DEF GrammarTexts, ParserTexts
<1> QED
  BY <1>1, <1>2, ConformingIsDerivable

(* A value the grammar derives for a kind and that holds no number beyond  *)
(* the limits is of that kind.                                             *)
LEMMA BytesInRange ==
  ASSUME NEW item, item \in Scalars, item.kind = "number", item.n \in Nat, ~(item.n > ByteMax)
  PROVE  item \in {Scalar("number", n) : n \in 0..ByteMax}
<1>1. item.n \in 0..ByteMax
  BY SchemaAssumption
<1>2. item = Scalar("number", item.n)
  BY DEF Scalar, Scalars
<1> QED
  BY <1>1, <1>2

LEMMA WordInRange ==
  ASSUME NEW n, n \in Nat, ~(n > Word64Max)
  PROVE  n \in 0..Word64Max
  BY SchemaAssumption

LEMMA SmallValuesHaveKind ==
  ASSUME NEW v, v \in Values, NEW x, x \in {"string", "string map", "natural", "bytes"},
         GrammarKind(v, x), ~TooLarge(v)
  PROVE  HasKind(v, x)
<1>1. CASE x = "bytes"
  <2>1. v.kind = "array" /\ \A i \in v.items : i.kind = "number" /\ i.n \in Nat
    BY <1>1 DEF GrammarKind
  <2>2. \A i \in v.items : ~(i.n > ByteMax)
    BY <2>1, Zenon DEF TooLarge
  <2>3. v.items \subseteq Scalars
    BY DEF Values
  <2>4. \A i \in v.items : i \in {Scalar("number", n) : n \in 0..ByteMax}
    BY <2>1, <2>2, <2>3, BytesInRange
  <2> QED
    BY <1>1, <2>1, <2>4, Zenon DEF HasKind
<1>2. CASE x = "natural"
  <2>1. v.kind = "number" /\ v.n \in Nat
    BY <1>2 DEF GrammarKind
  <2>2. ~(v.n > Word64Max)
    BY <2>1, Zenon DEF TooLarge
  <2>3. v.n \in 0..Word64Max
    BY <2>1, <2>2, WordInRange, Zenon
  <2> QED
    BY <1>2, <2>1, <2>3 DEF HasKind
<1>3. CASE x = "string"
  BY <1>3, Zenon DEF HasKind, GrammarKind
<1>4. CASE x = "string map"
  BY <1>4, Zenon DEF HasKind, GrammarKind
<1> QED
  BY <1>1, <1>2, <1>3, <1>4

(* No two payloads of the table have the same fields. *)
LEMMA RowsDiffer ==
  ASSUME NEW i, i \in Intents, NEW j, j \in Intents, DOMAIN Pairings[i] = DOMAIN Pairings[j]
  PROVE  i = j
<1>1. /\ DOMAIN Pairings["System2Think"] = {"internal_monologue"}
      /\ DOMAIN Pairings["QueryMerovingian"] = {"entity_node_id", "relation_type"}
      /\ DOMAIN Pairings["InvokeSeraph"] =
           {"target_wasm_module", "target_function", "arguments"}
      /\ DOMAIN Pairings["BroadcastSmith"] = {"target_agent_id", "binary_payload"}
  BY DEF Pairings
<1> QED
  BY <1>1 DEF Intents

(* What the grammar derives and the Warden refuses is loose text, a        *)
(* mismatched pair, or holds a number beyond the limits.                   *)
LEMMA GapIsKnown == IsDocument(doc) => GrammarGapIsKnown
<1> SUFFICES ASSUME IsDocument(doc), Derives(doc), doc.text # "loose",
                    DOMAIN doc.fields = DOMAIN Pairings[doc.intent],
                    \A k \in DOMAIN doc.fields : ~TooLarge(doc.fields[k])
             PROVE  Accepted(doc)
  BY DEF GrammarGapIsKnown
<1>1. /\ doc.intent \in Intents /\ doc.payloadIsObject /\ ~doc.extraRootKey
      /\ \E i \in Intents :
           /\ DOMAIN doc.fields = DOMAIN Pairings[i]
           /\ \A k \in DOMAIN doc.fields : GrammarKind(doc.fields[k], Pairings[i][k])
  BY DEF Derives
<1>2. doc.text \in ParserTexts
  BY DEF Derives, GrammarTexts, ParserTexts
<1>3. \A k \in DOMAIN doc.fields : GrammarKind(doc.fields[k], Pairings[doc.intent][k])
  BY <1>1, RowsDiffer
<1>4. \A k \in DOMAIN doc.fields :
        /\ doc.fields[k] \in Values
        /\ Pairings[doc.intent][k] \in {"string", "string map", "natural", "bytes"}
  BY <1>1, RowKinds DEF IsDocument
<1>5. \A k \in DOMAIN doc.fields : HasKind(doc.fields[k], Pairings[doc.intent][k])
  BY <1>3, <1>4, SmallValuesHaveKind
<1>6. Conforms(doc.fields, Pairings[doc.intent])
  BY <1>5 DEF Conforms
<1> QED
  BY <1>1, <1>2, <1>6, AcceptedConforms

(* What the Warden takes, control characters apart, the grammar lets the   *)
(* brain emit in its plain spelling; as it stands only another spelling or *)
(* a minus zero is not derived.  What the grammar derives beyond the       *)
(* Warden is loose text, a mismatched pair or a number too large.          *)
THEOREM GrammarMatches == IsDocument(doc) => GrammarMatchesTheWarden
  BY AcceptedAreDerivable, ParserGap, GapIsKnown DEF GrammarMatchesTheWarden

-----------------------------------------------------------------------------
(* The writer of MCIntentSchema writes only documents in this sense, so    *)
(* both results hold in each of its states, whatever the two limits are.   *)
LEMMA ScalarTypes ==
  \A n \in Int : \A kind \in {"string", "number", "minus"} : Scalar(kind, n) \in Scalars
BY DEF Scalar, Scalars

LEMMA PlainTypes ==
  /\ Str \in Values /\ Other \in Values
  /\ \A n \in Int : Number(n) \in Values /\ Minus(n) \in Values
BY DEF Str, Other, Number, Minus, Value, Values

LEMMA ContainerTypes ==
  \A items \in SUBSET Scalars : Array(items) \in Values /\ Object(items) \in Values
BY DEF Array, Object, Value, Values

LEMMA ChoicesAreValues ==
  ASSUME NEW key \in Keys, NEW v \in Choices(key)
  PROVE  v \in Values
<1>1. /\ Str \in Values /\ Other \in Values
      /\ \A n \in Int : Number(n) \in Values /\ Minus(n) \in Values
  BY PlainTypes, Zenon
<1>2. \A n \in Int : \A kind \in {"string", "number", "minus"} : Scalar(kind, n) \in Scalars
  BY ScalarTypes, Zenon
<1>3. \A items \in SUBSET Scalars : Array(items) \in Values /\ Object(items) \in Values
  BY ContainerTypes, Zenon
<1>4. CASE key \in StringKeys
  <2>1. Choices(key) = {Str, Number(1), Other}
    BY <1>4 DEF Choices, StringKeys
  <2>2. QED BY <1>1, <2>1
<1>5. CASE key = "arguments"
  <2>1. Choices(key) =
          {Str, Array({Scalar("string", 0)}), Object({}), Object({Scalar("string", 0)}),
           Object({Scalar("string", 0), Scalar("number", 1)})}
    BY <1>5 DEF Choices, StringKeys
  <2>2. QED BY <1>1, <1>2, <1>3, <2>1
<1>6. CASE key = "target_agent_id"
  <2>1. Choices(key) = {Str, Other} \cup {Number(n) : n \in {0, 7, 8}}
                         \cup {Minus(n) : n \in {-5, -4, -1, 0}}
    BY <1>6 DEF Choices, StringKeys
  <2>2. QED BY <1>1, <2>1
<1>7. CASE key = "binary_payload"
  <2>1. Choices(key) =
          {Str, Array({}), Array({Scalar("string", 0)})}
          \cup {Array({Scalar("number", 0), Scalar("number", n)}) : n \in {3, 4, 8}}
          \cup {Array({Scalar("number", 0), Scalar("minus", n)}) : n \in {-1, 0}}
    BY <1>7 DEF Choices, StringKeys
  <2>2. \A n \in {-1, 0, 3, 4, 8} :
          /\ {Scalar("number", 0), Scalar("number", n)} \in SUBSET Scalars
          /\ {Scalar("number", 0), Scalar("minus", n)} \in SUBSET Scalars
    BY <1>2
  <2>3. {} \in SUBSET Scalars /\ {Scalar("string", 0)} \in SUBSET Scalars
    BY <1>2
  <2>4. QED BY <1>1, <1>3, <2>1, <2>2, <2>3
<1>8. CASE key = "cognitive_frame"
  BY <1>1, <1>8 DEF Choices, StringKeys
<1>9. QED BY <1>4, <1>5, <1>6, <1>7, <1>8 DEF Keys

LEMMA WriterWritesDocuments == Spec => []IsDocument(doc)
<1>1. Init => IsDocument(doc)
  BY DEF Init, Blank, Document, IsDocument
<1>2. IsDocument(doc) /\ [Next]_doc => (IsDocument(doc))'
  <2> SUFFICES ASSUME IsDocument(doc), [Next]_doc PROVE (IsDocument(doc))'
    OBVIOUS
  <2>1. ASSUME NEW key \in Keys, NEW v \in Choices(key), WriteField(key, v)
        PROVE  (IsDocument(doc))'
    <3>1. doc' = [doc EXCEPT !.fields =
             [k \in DOMAIN doc.fields \cup {key} |-> IF k = key THEN v ELSE doc.fields[k]]]
      BY <2>1 DEF WriteField
    <3>2. /\ DOMAIN doc' = DOMAIN doc
          /\ doc'.fields =
               [k \in DOMAIN doc.fields \cup {key} |-> IF k = key THEN v ELSE doc.fields[k]]
      BY <3>1 DEF IsDocument
    <3>3. /\ DOMAIN doc'.fields = DOMAIN doc.fields \cup {key}
          /\ \A k \in DOMAIN doc.fields : k # key => doc'.fields[k] = doc.fields[k]
          /\ doc'.fields[key] = v
      BY <3>2
    <3>4. QED BY <2>1, <3>2, <3>3, ChoicesAreValues DEF IsDocument, WriteField
  <2>2. CASE UNCHANGED doc
    BY <2>2 DEF IsDocument
  <2>3. QED BY <2>1, <2>2 DEF Next
<1>3. QED BY <1>1, <1>2, PTL DEF Spec

(* In every state of the writer the Warden accepts exactly the pairings.   *)
THEOREM AlwaysExactlyThePairings == Spec => []AcceptsExactlyThePairings
  BY WriterWritesDocuments, AcceptsPairings, PTL

(* In every state of the writer the grammar and the Warden differ only in  *)
(* the known ways.                                                         *)
THEOREM GrammarAlwaysMatches == Spec => []GrammarMatchesTheWarden
  BY WriterWritesDocuments, GrammarMatches, PTL
===============================================================================
