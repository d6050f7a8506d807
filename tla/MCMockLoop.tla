------------------------------ MODULE MCMockLoop ------------------------------
(* The kernel with the mock brain in front of an executor that may deny.   *)
EXTENDS CognitiveLoop, MockBrainBackend, TLC

MCStimuli == {"say hello", "SERAPH REJECTION"}
MCRejections == {"SERAPH REJECTION"}
MCEmissions == {ThinkDoc, InvokeDoc}
MCRequests == {"echo::print"}

(* The outcomes whose feedback begins with "Execution Denied". *)
Denials == {"CapabilityDenied", "UnsupportedModule", "UnsupportedFunction"}
MCOutcomes == Denials \cup {"success"}

MockAnswers == [p \in Prompts |-> {Generate(p)}]

-----------------------------------------------------------------------------
(* MockBrainBackend.cpp answers a denial with the thought "My requested    *)
(* action was denied. I must reformulate safely.": shown a denial as       *)
(* feedback, the mock brain emits System2Think.                            *)
ReformulatesAfterDenial ==
  pc = "dispatch" /\ last_action_feedback \in {GetSemanticFeedback(o) : o \in Denials}
    => verdict = "System2Think"
===============================================================================
