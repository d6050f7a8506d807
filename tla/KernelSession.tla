----------------------------- MODULE KernelSession -----------------------------
(***************************************************************************)
(* What the kernel promises its operator, without the Warden, the intents  *)
(* or the executor: a line is worked on by at most Budget attempts, the    *)
(* first success ends the work, and the kernel then listens again.  It     *)
(* stops only between two lines.                                           *)
(***************************************************************************)
EXTENDS Naturals

CONSTANT Budget  \* kMaxRecoveryAttempts + 1, at least 1

VARIABLES
  mode,  \* "waiting" for the operator, "working", or "stopped"
  left   \* attempts left for the line being worked on

vars == <<mode, left>>

TypeOK == mode \in {"waiting", "working", "stopped"} /\ left \in 0..Budget

Init == mode = "waiting" /\ left = 0

Accept == mode = "waiting" /\ mode' = "working" /\ left' = Budget

AttemptFails ==
  /\ mode = "working"
  /\ left > 1
  /\ left' = left - 1
  /\ UNCHANGED mode

(* The last attempt is spent, or an attempt has succeeded. *)
Finish ==
  /\ mode = "working"
  /\ mode' = "waiting"
  /\ left' = 0

Stop == mode = "waiting" /\ mode' = "stopped" /\ UNCHANGED left

Next == Accept \/ AttemptFails \/ Finish \/ Stop

Spec == Init /\ [][Next]_vars /\ WF_vars(AttemptFails \/ Finish)
===============================================================================
