-------------------------- MODULE CognitiveLoopProofs --------------------------
(***************************************************************************)
(* Safety of the kernel loop for every brain, every executor that keeps    *)
(* its contract, and any number of operator lines.                         *)
(***************************************************************************)
EXTENDS CognitiveLoop, TLAPS

(* The Warden answers an intent or one of its errors, whatever is emitted. *)
LEMMA JudgementType ==
  ASSUME NEW stimulus, NEW feedback, NEW emission
  PROVE  Judgement(stimulus, feedback, emission) \in Intents \cup WardenErrors
<1>1. DeserializeIntentOnly(emission) \in Intents \cup WardenErrors
  BY DEF DeserializeIntentOnly, RootIsValid, WardenErrors
<1>2. QED BY <1>1 DEF Judgement, WardenErrors

(* Every constant text that names a feedback is one, and none is None. *)
LEMMA FeedbackTexts ==
  /\ WardenFailure \in Feedback
  /\ MerovingianUnavailable \in Feedback
  /\ SmithUnavailable \in Feedback
  /\ \A o \in Outcomes \ {"success"} : GetSemanticFeedback(o) \in Feedback
  /\ None \notin Feedback
BY LoopAssumption DEF Feedback

(* The kernel starts in a typed state. *)
LEMMA InitType == Init => TypeOK
<1> SUFFICES ASSUME Init PROVE TypeOK
  OBVIOUS
<1>1. WardenTypeOK
  <2>1. grammar_loaded \in BOOLEAN
    BY DEF Init, WardenInit
  <2>2. next_frame_id \in Nat \ {0} /\ frame_id \in Nat
    BY DEF Init, WardenInit
  <2>3. verdict \in Intents \cup WardenErrors \cup {None}
    BY DEF Init, WardenInit
  <2>4. QED BY <2>1, <2>2, <2>3 DEF WardenTypeOK
<1>2. Executor!TypeOK
  BY DEF Init, Executor!Init, Executor!TypeOK
<1>3. QED
  BY <1>1, <1>2, LoopAssumption DEF Init, TypeOK, kMaxRecoveryAttempts

(* A failure keeps the types and counts one attempt, or gives up. *)
LEMMA FailWithType ==
  ASSUME TypeOK, NEW text \in Feedback, FailWith(text)
  PROVE  /\ pc' = "head"
         /\ last_action_feedback' \in Feedback \cup {None}
         /\ recovery_attempts' \in 0..kMaxRecoveryAttempts
         /\ failure' \in Feedback \cup {None}
BY DEF TypeOK, FailWith, kMaxRecoveryAttempts

LEMMA SucceedType ==
  ASSUME TypeOK, Succeed
  PROVE  /\ pc' = "head"
         /\ last_action_feedback' \in Feedback \cup {None}
         /\ recovery_attempts' \in 0..kMaxRecoveryAttempts
         /\ failure' \in Feedback \cup {None}
BY DEF TypeOK, Succeed, kMaxRecoveryAttempts

(* Asking the Warden keeps its types. *)
LEMMA EnforceCognitionType ==
  ASSUME WardenTypeOK, NEW emission,
         EnforceCognition(current_stimulus, last_action_feedback, emission)
  PROVE  WardenTypeOK' /\ verdict' \in Intents \cup WardenErrors
<1>1. verdict' \in Intents \cup WardenErrors
  BY JudgementType DEF EnforceCognition
<1>2. next_frame_id' \in Nat \ {0} /\ frame_id' \in Nat
  BY DEF WardenTypeOK, EnforceCognition, Stamp
<1>3. QED BY <1>1, <1>2 DEF WardenTypeOK, EnforceCognition

(* Type correctness of the kernel loop. *)
THEOREM TypeCorrect == Spec => []TypeOK
<1>1. Init => TypeOK
  BY InitType
<1>2. ASSUME TypeOK, [Next]_vars
      PROVE  TypeOK'
  <2>1. ASSUME NEW line \in Stimuli, AcceptLine(line) PROVE TypeOK'
    BY <1>2, <2>1, LoopAssumption
    DEF TypeOK, AcceptLine, WardenTypeOK, wardenVars, executorVars, Executor!TypeOK
  <2>2. CASE IgnoreEmptyLine
    BY <1>2, <2>2 DEF TypeOK, IgnoreEmptyLine, WardenTypeOK, wardenVars, executorVars,
                      historyVars, Executor!TypeOK
  <2>3. CASE Stop
    BY <1>2, <2>3 DEF TypeOK, Stop, WardenTypeOK, wardenVars, executorVars,
                      contextVars, historyVars, Executor!TypeOK
  <2>4. CASE Recover
    BY <1>2, <2>4 DEF TypeOK, Recover, WardenTypeOK, wardenVars, executorVars,
                      historyVars, Executor!TypeOK
  <2>5. ASSUME NEW emission, Cognize(emission) PROVE TypeOK'
    <3>1. WardenTypeOK'
      BY <1>2, <2>5, EnforceCognitionType DEF TypeOK, Cognize
    <3>2. /\ pc' \in {"head", "dispatch"}
          /\ last_action_feedback' \in Feedback \cup {None}
          /\ recovery_attempts' \in 0..kMaxRecoveryAttempts
          /\ failure' \in Feedback \cup {None}
      BY <1>2, <2>5, FailWithType, FeedbackTexts DEF TypeOK, Cognize
    <3>3. QED
      BY <1>2, <2>5, <3>1, <3>2 DEF TypeOK, Cognize, executorVars, Executor!TypeOK
  <2>6. CASE Think
    BY <1>2, <2>6, SucceedType DEF TypeOK, Think, WardenTypeOK, wardenVars,
       executorVars, Executor!TypeOK
  <2>7. CASE Query
    BY <1>2, <2>7, FailWithType, FeedbackTexts DEF TypeOK, Query, Unavailable,
       WardenTypeOK, wardenVars, executorVars, Executor!TypeOK
  <2>8. CASE Broadcast
    BY <1>2, <2>8, FailWithType, FeedbackTexts DEF TypeOK, Broadcast, Unavailable,
       WardenTypeOK, wardenVars, executorVars, Executor!TypeOK
  <2>9. ASSUME NEW r \in Requests, Invoke(r) PROVE TypeOK'
    BY <1>2, <2>9 DEF TypeOK, Invoke, WardenTypeOK, wardenVars, contextVars,
       Executor!Start, Executor!TypeOK
  <2>10. ASSUME NEW o \in Outcomes, ExecuteReturns(o) PROVE TypeOK'
    <3>1. /\ pc' = "head"
          /\ last_action_feedback' \in Feedback \cup {None}
          /\ recovery_attempts' \in 0..kMaxRecoveryAttempts
          /\ failure' \in Feedback \cup {None}
      BY <1>2, <2>10, FailWithType, SucceedType, FeedbackTexts DEF ExecuteReturns
    <3>2. QED
      BY <1>2, <2>10, <3>1 DEF TypeOK, ExecuteReturns, WardenTypeOK, wardenVars,
         Executor!Return, Executor!TypeOK
  <2>11. CASE UNCHANGED vars
    BY <1>2, <2>11 DEF TypeOK, vars, WardenTypeOK, wardenVars, contextVars,
       executorVars, historyVars, Executor!TypeOK
  <2>12. QED
    BY <1>2, <2>1, <2>2, <2>3, <2>4, <2>5, <2>6, <2>7, <2>8, <2>9, <2>10, <2>11
    DEF Next, KernelStep, OperatorStep
<1>3. QED BY <1>1, <1>2, PTL DEF Spec

-----------------------------------------------------------------------------
(***************************************************************************)
(* The inductive invariant.  RecoveryIsBounded and PromptCarriesLatest-    *)
(* Failure are not inductive: that the third try is the last follows from  *)
(* the counters agreeing at every position in the loop, and that feedback  *)
(* is the latest failure from the two being set together.                  *)
(***************************************************************************)
IInv ==
  /\ TypeOK
  /\ RecoveryIsBounded
  /\ CountersAgree
  /\ FramesAgree
  /\ PromptCarriesLatestFailure

(* What the recovery part of the invariant needs of a failed attempt. *)
LEMMA FailWithRecovery ==
  ASSUME TypeOK, NEW text \in Feedback, FailWith(text),
         tries' = recovery_attempts + 1
  PROVE  /\ tries' <= kMaxRecoveryAttempts + 1
         /\ last_action_feedback' # None <=> recovery_attempts' > 0
         /\ last_action_feedback' # None => tries' = recovery_attempts'
         /\ last_action_feedback' # None => last_action_feedback' = failure'
BY FeedbackTexts DEF TypeOK, FailWith, kMaxRecoveryAttempts

LEMMA InitIInv == Init => IInv
<1> SUFFICES ASSUME Init PROVE IInv
  OBVIOUS
<1>1. TypeOK
  BY InitType
<1>2. QED
  BY <1>1 DEF IInv, Init, WardenInit, RecoveryIsBounded, CountersAgree, FramesAgree,
     PromptCarriesLatestFailure, kMaxRecoveryAttempts

(* Every step keeps the invariant. *)
LEMMA NextIInv == IInv /\ TypeOK' /\ [Next]_vars => IInv'
<1> SUFFICES ASSUME IInv, TypeOK', [Next]_vars PROVE IInv'
  OBVIOUS
<1> USE DEF IInv
<1>1. ASSUME NEW line \in Stimuli, AcceptLine(line) PROVE IInv'
  BY <1>1 DEF AcceptLine, RecoveryIsBounded, CountersAgree, FramesAgree, wardenVars,
     PromptCarriesLatestFailure, TypeOK, kMaxRecoveryAttempts
<1>2. CASE IgnoreEmptyLine
  BY <1>2 DEF IgnoreEmptyLine, RecoveryIsBounded, CountersAgree, FramesAgree,
     PromptCarriesLatestFailure, wardenVars, historyVars
<1>3. CASE Stop
  BY <1>3 DEF Stop, RecoveryIsBounded, CountersAgree, FramesAgree,
     PromptCarriesLatestFailure, wardenVars, historyVars, contextVars
<1>4. CASE Recover
  BY <1>4 DEF Recover, RecoveryIsBounded, CountersAgree, FramesAgree, TypeOK,
     PromptCarriesLatestFailure, wardenVars, historyVars
<1>5. ASSUME NEW emission, Cognize(emission) PROVE IInv'
  <2>1. tries' = recovery_attempts + 1
    BY <1>5 DEF Cognize, CountersAgree
  <2>2. CASE verdict' \in Intents
    <3>1. pc' = "dispatch" /\ UNCHANGED <<last_action_feedback, recovery_attempts, failure>>
      BY <1>5, <2>2 DEF Cognize
    <3>2. frame_id' = next_frame_id /\ next_frame_id' = next_frame_id + 1
      BY <1>5, <2>2 DEF Cognize, EnforceCognition, Stamp
    <3>3. QED
      BY <1>5, <2>1, <2>2, <3>1, <3>2 DEF Cognize, RecoveryIsBounded, CountersAgree,
         FramesAgree, PromptCarriesLatestFailure, TypeOK, WardenTypeOK,
         kMaxRecoveryAttempts
  <2>3. CASE verdict' \notin Intents
    <3>1. FailWith(WardenFailure)
      BY <1>5, <2>3 DEF Cognize
    <3>2. next_frame_id' = next_frame_id /\ frames' = frames
      BY <1>5, <2>3 DEF Cognize, EnforceCognition, Stamp
    <3>3. RecoveryIsBounded' /\ CountersAgree' /\ PromptCarriesLatestFailure'
      BY <2>1, <3>1, FailWithRecovery, FeedbackTexts
      DEF FailWith, RecoveryIsBounded, CountersAgree, PromptCarriesLatestFailure
    <3>4. FramesAgree'
      BY <1>5, <3>1, <3>2 DEF Cognize, FailWith, FramesAgree
    <3>5. QED BY <3>3, <3>4
  <2>4. QED BY <2>2, <2>3
<1>6. CASE Think
  BY <1>6 DEF Think, Succeed, RecoveryIsBounded, CountersAgree, FramesAgree, TypeOK,
     PromptCarriesLatestFailure, wardenVars, kMaxRecoveryAttempts
<1>7. ASSUME NEW intent, NEW text \in Feedback, Unavailable(intent, text) PROVE IInv'
  <2>1. tries' = recovery_attempts + 1 /\ FailWith(text)
    BY <1>7 DEF Unavailable, CountersAgree
  <2>2. RecoveryIsBounded' /\ CountersAgree' /\ PromptCarriesLatestFailure'
    BY <2>1, FailWithRecovery
    DEF FailWith, RecoveryIsBounded, CountersAgree, PromptCarriesLatestFailure
  <2>3. FramesAgree'
    BY <1>7, <2>1 DEF Unavailable, FailWith, FramesAgree, wardenVars, TypeOK
  <2>4. QED BY <2>2, <2>3
<1>8. ASSUME NEW r \in Requests, Invoke(r) PROVE IInv'
  BY <1>8 DEF Invoke, RecoveryIsBounded, CountersAgree, FramesAgree, TypeOK,
     PromptCarriesLatestFailure, wardenVars, contextVars
<1>9. ASSUME NEW o \in Outcomes, ExecuteReturns(o) PROVE IInv'
  <2>1. FramesAgree'
    BY <1>9 DEF ExecuteReturns, FailWith, Succeed, FramesAgree, wardenVars
  <2>2. CASE o = "success"
    BY <1>9, <2>1, <2>2 DEF ExecuteReturns, Succeed, RecoveryIsBounded, CountersAgree,
       PromptCarriesLatestFailure
  <2>3. CASE o # "success"
    <3>1. FailWith(GetSemanticFeedback(o)) /\ tries' = recovery_attempts + 1
      BY <1>9, <2>3 DEF ExecuteReturns, CountersAgree
    <3>2. RecoveryIsBounded' /\ CountersAgree' /\ PromptCarriesLatestFailure'
      BY <2>3, <3>1, FailWithRecovery, FeedbackTexts
      DEF FailWith, RecoveryIsBounded, CountersAgree, PromptCarriesLatestFailure
    <3>3. QED BY <2>1, <3>2
  <2>4. QED BY <2>2, <2>3
<1>10. CASE UNCHANGED vars
  BY <1>10 DEF vars, RecoveryIsBounded, CountersAgree, FramesAgree,
     PromptCarriesLatestFailure, wardenVars, contextVars, historyVars
<1>11. Query \/ Broadcast => IInv'
  BY <1>7, FeedbackTexts DEF Query, Broadcast
<1>12. QED
  BY <1>1, <1>2, <1>3, <1>4, <1>5, <1>6, <1>8, <1>9, <1>10, <1>11
  DEF Next, KernelStep, OperatorStep

LEMMA Invariant == Spec => []IInv
BY InitIInv, NextIInv, TypeCorrect, PTL DEF Spec

(* No line is tried more than three times, and the feedback and the        *)
(* counter of run() never drift apart.                                     *)
THEOREM RecoveryBounded == Spec => []RecoveryIsBounded
<1>1. IInv => RecoveryIsBounded
  BY DEF IInv
<1>2. QED BY Invariant, <1>1, PTL

(* The brain is shown the latest failure, and no feedback of another line. *)
THEOREM PromptFaithful == Spec => []PromptCarriesLatestFailure
<1>1. IInv => PromptCarriesLatestFailure
  BY DEF IInv
<1>2. QED BY Invariant, <1>1, PTL

(* Dispatched frames are numbered 1, 2, 3, ... without gaps. *)
THEOREM FrameIdsDense == Spec => []FrameIdsAreDense
<1>1. IInv => FrameIdsAreDense
  BY DEF IInv, FramesAgree, FrameIdsAreDense
<1>2. QED BY Invariant, <1>1, PTL

-----------------------------------------------------------------------------
(* A step that goes on with the work, as the two theorems below see it.    *)
LEMMA WorkStep ==
  ASSUME IInv, [Next]_vars, Working, vars' # vars
  PROVE  \/ Recover
         \/ \E emission : Cognize(emission)
         \/ Think \/ Query \/ Broadcast
         \/ \E r \in Requests : Invoke(r)
         \/ \E o \in Outcomes : ExecuteReturns(o)
BY DEF Working, Next, KernelStep, OperatorStep, AcceptLine, IgnoreEmptyLine, Stop

(* A failed attempt gives up exactly when it was the third. *)
LEMMA FailWithGivesUp ==
  ASSUME TypeOK, NEW text \in Feedback, FailWith(text)
  PROVE  /\ last_action_feedback' = None => recovery_attempts = kMaxRecoveryAttempts
         /\ last_action_feedback' # None =>
              /\ recovery_attempts < kMaxRecoveryAttempts
              /\ recovery_attempts' = recovery_attempts + 1
BY FeedbackTexts DEF TypeOK, FailWith, kMaxRecoveryAttempts

(* No failure is dropped before the third attempt. *)
THEOREM NoFailureDropped == Spec => GivesUpOnlyAtTheLimit
<1>1. ASSUME IInv, [Next]_vars
      PROVE  [EndsWork => HasSucceeded \/ tries' = kMaxRecoveryAttempts + 1]_vars
  <2> SUFFICES ASSUME EndsWork, vars' # vars
               PROVE  HasSucceeded \/ tries' = kMaxRecoveryAttempts + 1
    OBVIOUS
  <2>1. TypeOK /\ CountersAgree
    BY <1>1 DEF IInv
  <2>2. Working
    BY DEF EndsWork, Working
  <2>3. ~Recover
    BY DEF EndsWork, Recover
  <2>4. ASSUME NEW emission, Cognize(emission) PROVE tries' = kMaxRecoveryAttempts + 1
    <3>1. FailWith(WardenFailure)
      BY <2>4 DEF EndsWork, Cognize
    <3>2. recovery_attempts = kMaxRecoveryAttempts
      BY <2>1, <3>1, FailWithGivesUp, FeedbackTexts DEF EndsWork
    <3>3. QED BY <2>1, <2>4, <3>2 DEF Cognize, CountersAgree
  <2>5. CASE Think
    BY <2>5 DEF Think, HasSucceeded
  <2>6. ASSUME NEW intent, NEW text \in Feedback, Unavailable(intent, text)
        PROVE  tries' = kMaxRecoveryAttempts + 1
    <3>1. recovery_attempts = kMaxRecoveryAttempts
      BY <2>1, <2>6, FailWithGivesUp DEF EndsWork, Unavailable
    <3>2. QED BY <2>1, <2>6, <3>1 DEF Unavailable, CountersAgree
  <2>7. ASSUME NEW r \in Requests, Invoke(r) PROVE FALSE
    BY <2>7 DEF EndsWork, Invoke
  <2>8. ASSUME NEW o \in Outcomes, ExecuteReturns(o)
        PROVE  HasSucceeded \/ tries' = kMaxRecoveryAttempts + 1
    <3>1. CASE o = "success"
      BY <2>8, <3>1 DEF ExecuteReturns, Executor!Return, HasSucceeded
    <3>2. CASE o # "success"
      <4>1. recovery_attempts = kMaxRecoveryAttempts
        BY <2>1, <2>8, <3>2, FailWithGivesUp, FeedbackTexts DEF EndsWork, ExecuteReturns
      <4>2. QED BY <2>1, <2>8, <4>1 DEF ExecuteReturns, CountersAgree
    <3>3. QED BY <3>1, <3>2
  <2>9. QED
    BY <1>1, <2>2, <2>3, <2>4, <2>5, <2>6, <2>7, <2>8, WorkStep, FeedbackTexts
    DEF Query, Broadcast
<1>2. QED BY Invariant, <1>1, PTL DEF Spec, GivesUpOnlyAtTheLimit

-----------------------------------------------------------------------------
(***************************************************************************)
(* The loop implements KernelSession, step by step: accepting a line is    *)
(* Accept, a failed attempt AttemptFails or, at the limit, Finish, and     *)
(* every other step of the work stutters.                                  *)
(***************************************************************************)
LEMMA SessionStep == IInv /\ [Next]_vars => [Session!Next]_(Session!vars)
<1> SUFFICES ASSUME IInv, [Next]_vars PROVE [Session!Next]_(Session!vars)
  OBVIOUS
<1>0. TypeOK /\ RecoveryIsBounded
  BY DEF IInv
<1> DEFINE mode == IF pc = "stopped" THEN "stopped"
                   ELSE IF Working THEN "working" ELSE "waiting"
           left == IF Working THEN kMaxRecoveryAttempts + 1 - recovery_attempts ELSE 0
           Accepts == mode = "waiting" /\ mode' = "working" /\ left' = kMaxRecoveryAttempts + 1
           Fails == mode = "working" /\ left > 1 /\ left' = left - 1 /\ mode' = mode
           Finishes == mode = "working" /\ mode' = "waiting" /\ left' = 0
           Stops == mode = "waiting" /\ mode' = "stopped" /\ left' = left
           Stutters == mode' = mode /\ left' = left
<1>1. ASSUME NEW text \in Feedback, FailWith(text),
             pc \in {"cognize", "dispatch", "execute"}
      PROVE  Fails \/ Finishes
  BY <1>0, <1>1, FailWithGivesUp, FeedbackTexts
  DEF Working, FailWith, TypeOK, kMaxRecoveryAttempts
<1>2. ASSUME Succeed, pc \in {"cognize", "dispatch", "execute"} PROVE Finishes
  BY <1>2 DEF Working, Succeed
<1>3. ASSUME NEW line \in Stimuli, AcceptLine(line) PROVE Accepts
  BY <1>0, <1>3 DEF AcceptLine, Working, RecoveryIsBounded, TypeOK, kMaxRecoveryAttempts
<1>4. ASSUME IgnoreEmptyLine PROVE Stutters
  BY <1>4 DEF IgnoreEmptyLine, Working
<1>5. ASSUME Stop PROVE Stops
  BY <1>5 DEF Stop, Working, contextVars
<1>6. ASSUME Recover PROVE Stutters
  BY <1>6 DEF Recover, Working
<1>7. ASSUME NEW emission, Cognize(emission) PROVE Fails \/ Finishes \/ Stutters
  <2>1. CASE verdict' \in Intents
    BY <1>7, <2>1 DEF Cognize, Working
  <2>2. CASE verdict' \notin Intents
    BY <1>1, <1>7, <2>2, FeedbackTexts DEF Cognize
  <2>3. QED BY <2>1, <2>2
<1>8. ASSUME Think PROVE Finishes
  BY <1>2, <1>8 DEF Think
<1>9. ASSUME Query \/ Broadcast PROVE Fails \/ Finishes
  BY <1>1, <1>9, FeedbackTexts DEF Query, Broadcast, Unavailable
<1>10. ASSUME NEW r \in Requests, Invoke(r) PROVE Stutters
  BY <1>10 DEF Invoke, Working, contextVars
<1>11. ASSUME NEW o \in Outcomes, ExecuteReturns(o) PROVE Fails \/ Finishes
  BY <1>1, <1>2, <1>11, FeedbackTexts DEF ExecuteReturns
<1>12. ASSUME UNCHANGED vars PROVE Stutters
  BY <1>12 DEF vars, contextVars, Working
<1>13. Accepts \/ Fails \/ Finishes \/ Stops \/ Stutters
  BY <1>3, <1>4, <1>5, <1>6, <1>7, <1>8, <1>9, <1>10, <1>11, <1>12
  DEF Next, KernelStep, OperatorStep
<1>14. QED
  BY <1>13 DEF Session!Next, Session!vars, Session!Accept, Session!AttemptFails,
     Session!Finish, Session!Stop

(* The safety part of ImplementsSession. *)
THEOREM RefinesSession == Spec => Session!Init /\ [][Session!Next]_(Session!vars)
<1>1. Init => Session!Init
  BY DEF Init, Session!Init, Working
<1>2. QED BY Invariant, SessionStep, <1>1, PTL DEF Spec

-----------------------------------------------------------------------------
(***************************************************************************)
(* Why a line is answered.  WorkLeft bounds the kernel steps a line still  *)
(* has before it: four for each attempt after this one, and what this one  *)
(* still needs.                                                            *)
(***************************************************************************)
StepsOfThisTry ==
  IF pc = "head" THEN 4 ELSE IF pc = "cognize" THEN 3 ELSE IF pc = "dispatch" THEN 2 ELSE 1

WorkLeft ==
  IF Working THEN 4 * (kMaxRecoveryAttempts - recovery_attempts) + StepsOfThisTry ELSE 0

(* Every step taken while the kernel works on a line brings its answer     *)
(* nearer, whatever the brain emits and the executor answers: eleven steps *)
(* after the line was accepted at the latest the operator is asked again.  *)
WorkDescends ==
  [][Working => WorkLeft \in 1..11 /\ WorkLeft' \in 0..(WorkLeft - 1)]_vars

LEMMA WorkLeftType ==
  ASSUME IInv, Working
  PROVE  WorkLeft \in 1..11
BY DEF IInv, TypeOK, RecoveryIsBounded, Working, WorkLeft, StepsOfThisTry,
   kMaxRecoveryAttempts

(* A failed attempt, and a success, leave less than any attempt needs.     *)
LEMMA FailWithDescends ==
  ASSUME IInv, TypeOK', NEW text \in Feedback, FailWith(text),
         pc \in {"cognize", "dispatch", "execute"}
  PROVE  WorkLeft' < WorkLeft
<1>1. TypeOK
  BY DEF IInv
<1>2. pc' = "head"
  BY DEF FailWith
<1>3. CASE last_action_feedback' = None
  <2>1. ~Working' /\ Working
    BY <1>2, <1>3 DEF Working
  <2>2. QED
    BY <2>1, WorkLeftType DEF WorkLeft
<1>4. CASE last_action_feedback' # None
  <2>1. Working' /\ Working /\ recovery_attempts' = recovery_attempts + 1
    BY <1>1, <1>4, FailWithGivesUp DEF Working
  <2>2. QED
    BY <1>1, <1>2, <2>1 DEF WorkLeft, StepsOfThisTry, TypeOK, kMaxRecoveryAttempts
<1>5. QED BY <1>3, <1>4

LEMMA SucceedDescends ==
  ASSUME IInv, Succeed, pc \in {"cognize", "dispatch", "execute"}
  PROVE  WorkLeft' < WorkLeft
<1>1. ~Working' /\ Working
  BY DEF Succeed, Working
<1>2. QED BY <1>1, WorkLeftType DEF WorkLeft

LEMMA StepDescends ==
  ASSUME IInv, TypeOK', [Next]_vars, Working, vars' # vars
  PROVE  WorkLeft' < WorkLeft
<1>1. TypeOK
  BY DEF IInv
<1>2. CASE Recover
  BY <1>1, <1>2 DEF Recover, Working, WorkLeft, StepsOfThisTry, TypeOK,
     kMaxRecoveryAttempts
<1>3. ASSUME NEW emission, Cognize(emission) PROVE WorkLeft' < WorkLeft
  <2>1. CASE verdict' \in Intents
    BY <1>1, <1>3, <2>1 DEF Cognize, Working, WorkLeft, StepsOfThisTry, TypeOK,
       kMaxRecoveryAttempts
  <2>2. CASE verdict' \notin Intents
    BY <1>3, <2>2, FailWithDescends, FeedbackTexts DEF Cognize
  <2>3. QED BY <2>1, <2>2
<1>4. CASE Think
  BY <1>4, SucceedDescends DEF Think
<1>5. CASE Query \/ Broadcast
  BY <1>5, FailWithDescends, FeedbackTexts DEF Query, Broadcast, Unavailable
<1>6. ASSUME NEW r \in Requests, Invoke(r) PROVE WorkLeft' < WorkLeft
  BY <1>1, <1>6 DEF Invoke, contextVars, Working, WorkLeft, StepsOfThisTry, TypeOK,
     kMaxRecoveryAttempts
<1>7. ASSUME NEW o \in Outcomes, ExecuteReturns(o) PROVE WorkLeft' < WorkLeft
  BY <1>7, FailWithDescends, SucceedDescends, FeedbackTexts DEF ExecuteReturns
<1>8. QED BY <1>2, <1>3, <1>4, <1>5, <1>6, <1>7, WorkStep

(* The kernel cannot work on a line forever.                               *)
THEOREM WorkAlwaysDescends == Spec => WorkDescends
<1>1. ASSUME IInv, TypeOK', [Next]_vars
      PROVE  [Working => WorkLeft \in 1..11 /\ WorkLeft' \in 0..(WorkLeft - 1)]_vars
  <2> SUFFICES ASSUME Working, vars' # vars
               PROVE  WorkLeft \in 1..11 /\ WorkLeft' \in 0..(WorkLeft - 1)
    OBVIOUS
  <2>1. WorkLeft \in 1..11
    BY <1>1, WorkLeftType
  <2>2. WorkLeft' \in 0..12
    <3>1. recovery_attempts' \in 0..2
      BY <1>1 DEF TypeOK, kMaxRecoveryAttempts
    <3>2. StepsOfThisTry' \in 1..4
      BY DEF StepsOfThisTry
    <3>3. 4 * (2 - recovery_attempts') + StepsOfThisTry' \in 0..12
      <4>1. \A r \in 0..2, n \in 1..4 : 4 * (2 - r) + n \in 0..12
        OBVIOUS
      <4>2. QED BY <3>1, <3>2, <4>1
    <3>4. WorkLeft' = 4 * (2 - recovery_attempts') + StepsOfThisTry' \/ WorkLeft' = 0
      BY DEF WorkLeft, kMaxRecoveryAttempts
    <3>5. QED BY <3>3, <3>4
  <2>3. WorkLeft' < WorkLeft
    BY <1>1, StepDescends
  <2>4. QED BY <1>1, <2>1, <2>2, <2>3
<1>2. QED BY Invariant, TypeCorrect, <1>1, PTL DEF Spec, WorkDescends
===============================================================================
