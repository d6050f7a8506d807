----------------------------- MODULE WardenEngine -----------------------------
(***************************************************************************)
(* The Warden: it shows the brain a prompt, checks the document the brain  *)
(* emits and stamps a frame id on what it accepts (warden/WardenEngine,    *)
(* EnforceCognition).  The brain is external to it: what it emits is a     *)
(* document, an empty text, or an error.  main.cpp attaches a brain to     *)
(* every engine; the answer of an engine without one is left out.          *)
(***************************************************************************)
EXTENDS IntentSchema

CONSTANTS
  Emissions,   \* the documents a brain may emit
  BrainError,  \* Generate has failed
  EmptyText,   \* Generate has returned ""
  EmptyLine,   \* the stimulus ""
  None         \* no feedback, no verdict

VARIABLES
  grammar_loaded,  \* active_gbnf_grammar_ is compiled
  next_frame_id,   \* next_frame_id_
  verdict,         \* what EnforceCognition answered: an intent or a WardenError
  frame_id         \* the id of the frame it answered, 0 if it answered an error

wardenVars == <<grammar_loaded, next_frame_id, verdict, frame_id>>

WardenTypeOK ==
  /\ grammar_loaded \in BOOLEAN
  /\ next_frame_id \in Nat \ {0}
  /\ verdict \in Intents \cup WardenErrors \cup {None}
  /\ frame_id \in Nat

WardenInit ==
  /\ grammar_loaded = FALSE
  /\ next_frame_id = 1
  /\ verdict = None
  /\ frame_id = 0

(* The part of the prompt that changes from one call to the next. *)
BuildPrompt(stimulus, feedback) == [stimulus |-> stimulus, feedback |-> feedback]

Judgement(stimulus, feedback, emission) ==
  CASE stimulus = EmptyLine /\ feedback = None -> "GrammarViolation"
    [] ~(stimulus = EmptyLine /\ feedback = None) /\ emission \in {BrainError, EmptyText} ->
         "InferenceTimeout"
    [] OTHER -> DeserializeIntentOnly(emission)

(* Slip: the id is taken before the document is checked. *)
Stamp_Burned(accepted) ==
  /\ next_frame_id' = next_frame_id + 1
  /\ frame_id' = IF accepted THEN next_frame_id ELSE 0

(* NextFrameId is called for an accepted document only. *)
Stamp(accepted) ==
  IF accepted
  THEN /\ frame_id' = next_frame_id
       /\ next_frame_id' = next_frame_id + 1
  ELSE /\ frame_id' = 0
       /\ UNCHANGED next_frame_id

EnforceCognition(stimulus, feedback, emission) ==
  /\ grammar_loaded' = TRUE
  /\ verdict' = Judgement(stimulus, feedback, emission)
  /\ Stamp(verdict' \in Intents)
===============================================================================
