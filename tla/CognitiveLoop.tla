----------------------------- MODULE CognitiveLoop -----------------------------
(***************************************************************************)
(* The kernel loop (core/CognitiveLoop): it reads a line from the operator *)
(* when there is nothing to recover from, asks the Warden for a frame,     *)
(* dispatches the intent of the frame, and after a failure tries again by  *)
(* itself with the failure as feedback, a bounded number of times.         *)
(*                                                                         *)
(* The Warden is the module WardenEngine; the executor is any that keeps   *)
(* ExecutorContract.  A failure text is named by what it reports: the      *)
(* texts of GetSemanticFeedback are distinct, one for each ExecutionError. *)
(***************************************************************************)
EXTENDS WardenEngine

CONSTANTS
  Stimuli,   \* the lines an operator types, other than "exit" and ""
  Requests,  \* the invocations a brain may ask for
  Outcomes,  \* what Execute can answer: "success" or an ExecutionError
  Answers,   \* the brain: prompt -> the emissions it may answer with
  MaxLines   \* bound on the lines read

ExitLine == "exit"
SystemAlert == "SYSTEM ALERT: revise your previous action"

kMaxRecoveryAttempts == 2

(* Texts of last_action_feedback. *)
WardenFailure == "WARDEN ERROR"
MerovingianUnavailable == "MEROVINGIAN unavailable"
SmithUnavailable == "SMITH broadcast unavailable"
GetSemanticFeedback(error) == error

Feedback ==
  {WardenFailure, MerovingianUnavailable, SmithUnavailable}
  \cup {GetSemanticFeedback(o) : o \in Outcomes \ {"success"}}

Prompts ==
  [stimulus : Stimuli \cup {SystemAlert}, feedback : Feedback \cup {None}]

ASSUME LoopAssumption ==
  /\ EmptyLine \notin Stimuli \cup {SystemAlert}
  /\ ExitLine \notin Stimuli
  /\ None \notin Feedback \cup Requests \cup Outcomes \cup Intents \cup WardenErrors
  /\ Answers \in [Prompts -> SUBSET (Emissions \cup {BrainError, EmptyText})]
  /\ \A p \in Prompts : Answers[p] # {}
  /\ Requests # {} /\ Outcomes # {}
  /\ MaxLines \in Nat

VARIABLES
  pc,                    \* "head" of the loop, "cognize", "dispatch", "execute", "stopped"
  current_stimulus,
  last_action_feedback,  \* None when it holds no value
  recovery_attempts,
  open, logged, returned,  \* the executor, see ExecutorContract
  lines,    \* history: operator lines accepted
  tries,    \* history: calls of EnforceCognition for the latest of them
  failure,  \* history: the latest failure of the work on that line
  frames    \* history: frames dispatched

Executor == INSTANCE ExecutorContract

executorVars == <<open, logged, returned>>
contextVars == <<current_stimulus, last_action_feedback, recovery_attempts>>
historyVars == <<lines, tries, failure, frames>>
vars == <<wardenVars, pc, contextVars, executorVars, historyVars>>

TypeOK ==
  /\ WardenTypeOK
  /\ Executor!TypeOK
  /\ pc \in {"head", "cognize", "dispatch", "execute", "stopped"}
  /\ current_stimulus \in Stimuli \cup {SystemAlert, EmptyLine, ExitLine}
  /\ last_action_feedback \in Feedback \cup {None}
  /\ recovery_attempts \in 0..kMaxRecoveryAttempts
  /\ lines \in 0..MaxLines
  /\ tries \in Nat
  /\ failure \in Feedback \cup {None}
  /\ frames \in Nat

Init ==
  /\ WardenInit
  /\ Executor!Init
  /\ pc = "head"
  /\ current_stimulus = EmptyLine
  /\ last_action_feedback = None
  /\ recovery_attempts = 0
  /\ lines = 0 /\ tries = 0 /\ failure = None /\ frames = 0

-----------------------------------------------------------------------------
(* The head of the loop. *)
AcceptLine(line) ==
  /\ pc = "head"
  /\ last_action_feedback = None
  /\ lines < MaxLines
  /\ current_stimulus' = line
  /\ pc' = "cognize"
  /\ lines' = lines + 1
  /\ tries' = 0
  /\ failure' = None
  /\ UNCHANGED <<wardenVars, last_action_feedback, recovery_attempts,
                 executorVars, frames>>

IgnoreEmptyLine ==
  /\ pc = "head"
  /\ last_action_feedback = None
  /\ current_stimulus' = EmptyLine
  /\ UNCHANGED <<wardenVars, pc, last_action_feedback, recovery_attempts,
                 executorVars, historyVars>>

(* The operator types "exit", or the input stream ends: getline has then   *)
(* emptied the line, or left it when the last one ended the stream.        *)
Stop ==
  /\ pc = "head"
  /\ last_action_feedback = None
  /\ pc' = "stopped"
  /\ current_stimulus' \in {ExitLine, EmptyLine, current_stimulus}
  /\ UNCHANGED <<wardenVars, last_action_feedback, recovery_attempts,
                 executorVars, historyVars>>

(* Slip: the head tests the limit too, and goes round without an attempt.  *)
Recover_SpinsAtLimit ==
  /\ pc = "head"
  /\ last_action_feedback # None
  /\ recovery_attempts < kMaxRecoveryAttempts
  /\ current_stimulus' = SystemAlert
  /\ pc' = "cognize"
  /\ UNCHANGED <<wardenVars, last_action_feedback, recovery_attempts,
                 executorVars, historyVars>>

Recover ==
  /\ pc = "head"
  /\ last_action_feedback # None
  /\ current_stimulus' = SystemAlert
  /\ pc' = "cognize"
  /\ UNCHANGED <<wardenVars, last_action_feedback, recovery_attempts,
                 executorVars, historyVars>>

-----------------------------------------------------------------------------
(* Slip: the limit is tested before the attempt is counted. *)
FailWith_TestedEarly(text) ==
  /\ pc' = "head"
  /\ failure' = text
  /\ IF recovery_attempts > kMaxRecoveryAttempts
     THEN last_action_feedback' = None /\ recovery_attempts' = 0
     ELSE last_action_feedback' = text /\ recovery_attempts' = recovery_attempts + 1

(* Slip: the counter is not reset with the feedback. *)
FailWith_KeepsCount(text) ==
  /\ pc' = "head"
  /\ failure' = text
  /\ IF recovery_attempts + 1 > kMaxRecoveryAttempts
     THEN last_action_feedback' = None /\ UNCHANGED recovery_attempts
     ELSE last_action_feedback' = text /\ recovery_attempts' = recovery_attempts + 1

(* Slip: the feedback of the first failure is kept. *)
FailWith_KeepsFirst(text) ==
  /\ pc' = "head"
  /\ failure' = text
  /\ IF recovery_attempts + 1 > kMaxRecoveryAttempts
     THEN last_action_feedback' = None /\ recovery_attempts' = 0
     ELSE /\ last_action_feedback' = IF last_action_feedback = None
                                     THEN text ELSE last_action_feedback
          /\ recovery_attempts' = recovery_attempts + 1

(* Both failure paths of run(): beyond the limit the kernel gives up and   *)
(* goes back to the operator.                                              *)
FailWith(text) ==
  /\ pc' = "head"
  /\ failure' = text
  /\ IF recovery_attempts + 1 > kMaxRecoveryAttempts
     THEN last_action_feedback' = None /\ recovery_attempts' = 0
     ELSE last_action_feedback' = text /\ recovery_attempts' = recovery_attempts + 1

Succeed ==
  /\ pc' = "head"
  /\ last_action_feedback' = None
  /\ recovery_attempts' = 0
  /\ UNCHANGED failure

(* The Warden asks the brain. *)
Cognize(emission) ==
  /\ pc = "cognize"
  /\ EnforceCognition(current_stimulus, last_action_feedback, emission)
  /\ tries' = tries + 1
  /\ IF verdict' \in Intents
     THEN pc' = "dispatch" /\ UNCHANGED <<last_action_feedback, recovery_attempts, failure>>
     ELSE FailWith(WardenFailure)
  /\ UNCHANGED <<current_stimulus, executorVars, lines, frames>>

-----------------------------------------------------------------------------
(* DispatchIntent *)
Think ==
  /\ pc = "dispatch"
  /\ verdict = "System2Think"
  /\ Succeed
  /\ frames' = frames + 1
  /\ UNCHANGED <<wardenVars, current_stimulus, executorVars, lines, tries>>

Unavailable(intent, text) ==
  /\ pc = "dispatch"
  /\ verdict = intent
  /\ FailWith(text)
  /\ frames' = frames + 1
  /\ UNCHANGED <<wardenVars, current_stimulus, executorVars, lines, tries>>

Query == Unavailable("QueryMerovingian", MerovingianUnavailable)
Broadcast == Unavailable("BroadcastSmith", SmithUnavailable)

Invoke(r) ==
  /\ pc = "dispatch"
  /\ verdict = "InvokeSeraph"
  /\ Executor!Start(r)
  /\ pc' = "execute"
  /\ frames' = frames + 1
  /\ UNCHANGED <<wardenVars, contextVars, lines, tries, failure>>

(* Slip: an error of the executor is taken for a success. *)
ExecuteReturns_Swallowed(o) ==
  /\ pc = "execute"
  /\ Executor!Return(o)
  /\ Succeed
  /\ UNCHANGED <<wardenVars, current_stimulus, lines, tries, frames>>

ExecuteReturns(o) ==
  /\ pc = "execute"
  /\ Executor!Return(o)
  /\ IF o = "success" THEN Succeed ELSE FailWith(GetSemanticFeedback(o))
  /\ UNCHANGED <<wardenVars, current_stimulus, lines, tries, frames>>

-----------------------------------------------------------------------------
Prompt == BuildPrompt(current_stimulus, last_action_feedback)

KernelStep ==
  \/ Recover
  \/ pc = "cognize" /\ \E e \in Answers[Prompt] : Cognize(e)
  \/ Think \/ Query \/ Broadcast
  \/ \E r \in Requests : Invoke(r)
  \/ \E o \in Outcomes : ExecuteReturns(o)

OperatorStep ==
  \/ \E line \in Stimuli : AcceptLine(line)
  \/ IgnoreEmptyLine
  \/ Stop

Next == KernelStep \/ OperatorStep

(* The one thread goes on by itself until it waits for the operator: a     *)
(* generation is limited by n_predict tokens, an execution by fuel.        *)
Fairness == WF_vars(KernelStep)

Spec == Init /\ [][Next]_vars /\ Fairness

-----------------------------------------------------------------------------
(* What the position in the loop says about the counters; the properties   *)
(* below follow from it.                                                   *)
CountersAgree ==
  /\ pc = "cognize" => tries = recovery_attempts
  /\ pc \in {"dispatch", "execute"} => tries = recovery_attempts + 1
  /\ pc = "head" /\ last_action_feedback # None => tries = recovery_attempts
  /\ last_action_feedback # None => last_action_feedback = failure

FramesAgree ==
  /\ next_frame_id = frames + (IF pc = "dispatch" THEN 2 ELSE 1)
  /\ pc = "dispatch" => verdict \in Intents /\ frame_id = frames + 1

(* Frame ids are handed out without gaps: the frame about to be dispatched *)
(* carries the number of frames dispatched before it plus one, however     *)
(* many emissions the Warden has turned down in between.                   *)
FrameIdsAreDense == pc = "dispatch" => frame_id = frames + 1

(* One counter serves two kinds of failure, and two places reset it.  The  *)
(* Warden is never asked more than three times about one line, and the     *)
(* feedback and the counter are set and cleared together.                  *)
RecoveryIsBounded ==
  /\ tries <= kMaxRecoveryAttempts + 1
  /\ last_action_feedback # None <=> recovery_attempts > 0

(* A first prompt shows the operator's line and no feedback: nothing of an *)
(* earlier line leaks into it.  A later one shows the alert and exactly    *)
(* the latest failure.                                                     *)
PromptCarriesLatestFailure ==
  pc = "cognize" =>
    IF tries = 0
    THEN last_action_feedback = None /\ current_stimulus \in Stimuli
    ELSE last_action_feedback = failure /\ current_stimulus = SystemAlert

EndsWork ==
  /\ pc \in {"cognize", "dispatch", "execute"}
  /\ pc' = "head"
  /\ last_action_feedback' = None

HasSucceeded ==
  \/ pc = "dispatch" /\ verdict = "System2Think"
  \/ pc = "execute" /\ returned' = "success"

(* No failure is dropped: work on a line ends only with a thought, with an *)
(* execution that succeeded, or when the third attempt has failed.         *)
GivesUpOnlyAtTheLimit ==
  [][EndsWork => HasSucceeded \/ tries' = kMaxRecoveryAttempts + 1]_vars

(* Every accepted line brings the kernel back to the operator, whatever    *)
(* the brain emits and the executor answers.                               *)
EveryLineIsAnswered == pc = "cognize" ~> pc = "head" /\ last_action_feedback = None

(* The loop implements the operator's view of it. *)
Working == pc \in {"cognize", "dispatch", "execute"} \/ last_action_feedback # None

Session ==
  INSTANCE KernelSession WITH
    Budget <- kMaxRecoveryAttempts + 1,
    mode <- IF pc = "stopped" THEN "stopped" ELSE IF Working THEN "working" ELSE "waiting",
    left <- IF Working THEN kMaxRecoveryAttempts + 1 - recovery_attempts ELSE 0

ImplementsSession == Session!Spec
===============================================================================
