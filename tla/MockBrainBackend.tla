--------------------------- MODULE MockBrainBackend ---------------------------
(***************************************************************************)
(* The brain the program runs on without a language model                  *)
(* (warden/MockBrainBackend): it looks for one phrase in the prompt.  Of   *)
(* the prompt only the stimulus and the feedback vary; the fixed text does *)
(* not hold the phrase.                                                    *)
(***************************************************************************)
EXTENDS IntentSchema

CONSTANT Rejections  \* texts that contain "SERAPH REJECTION"

ThinkDoc == Document("json", "System2Think", [internal_monologue |-> Str])

InvokeDoc ==
  Document("json", "InvokeSeraph",
           [target_wasm_module |-> Str, target_function |-> Str,
            arguments |-> Value("object", 0, {Scalar("string", 0)})])

Generate(prompt) ==
  IF prompt.stimulus \in Rejections \/ prompt.feedback \in Rejections
  THEN ThinkDoc ELSE InvokeDoc
===============================================================================
