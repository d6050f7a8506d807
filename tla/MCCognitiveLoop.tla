---------------------------- MODULE MCCognitiveLoop ----------------------------
(* Constants of CognitiveLoop for TLC: a brain that may answer any prompt  *)
(* with a document of each intent, an unknown intent, a malformed payload, *)
(* a text that is not JSON, nothing, or an error.                          *)
EXTENDS CognitiveLoop, TLC

ThinkDoc == Document("json", "System2Think", ("internal_monologue" :> Str))
QueryDoc ==
  Document("json", "QueryMerovingian", ("entity_node_id" :> Str @@ "relation_type" :> Str))
InvokeDoc ==
  Document("json", "InvokeSeraph",
           ("target_wasm_module" :> Str @@ "target_function" :> Str
            @@ "arguments" :> Value("object", 0, {Scalar("string", 0)})))
SmithDoc ==
  Document("json", "BroadcastSmith",
           ("target_agent_id" :> Number(1)
            @@ "binary_payload" :> Value("array", 0, {Scalar("number", 1)})))
UnknownDoc == Document("json", "OpenDoor", ("internal_monologue" :> Str))
MixedDoc == [QueryDoc EXCEPT !.intent = "System2Think"]
GarbledDoc == Document("garbled", "absent", ("internal_monologue" :> Str))

MCEmissions ==
  {ThinkDoc, QueryDoc, InvokeDoc, SmithDoc, UnknownDoc, MixedDoc, GarbledDoc}

AnyAnswer == [p \in Prompts |-> MCEmissions \cup {BrainError, EmptyText}]

MCStimuli == {"say hello", "who is user_42"}
MCRequests == {"echo::print"}
MCOutcomes == {"success", "CapabilityDenied", "GuestTrap"}
===============================================================================
