--------------------------- MODULE ExecutorContract ---------------------------
(***************************************************************************)
(* What the kernel may assume of any IExecutor (seraph/IExecutor.hpp),     *)
(* whatever runs behind it: a call is announced to the audit sink, it      *)
(* comes to an end, it is closed in the audit trail by exactly one         *)
(* outcome, and that outcome is what Execute returns.  Calls do not nest.  *)
(***************************************************************************)
CONSTANTS
  Requests,   \* invocation requests
  Outcomes,   \* "success" and the members of ExecutionError
  None        \* no request, or no outcome yet: not in the two sets

VARIABLES
  open,       \* the request whose start is logged and whose outcome is not
  logged,     \* the outcome logged for the latest call
  returned    \* what the latest call returned

vars == <<open, logged, returned>>

TypeOK ==
  /\ open \in Requests \cup {None}
  /\ logged \in Outcomes \cup {None}
  /\ returned \in Outcomes \cup {None}

Init == open = None /\ logged = None /\ returned = None

Start(r) ==
  /\ open = None
  /\ open' = r
  /\ logged' = None
  /\ returned' = None

Return(o) ==
  /\ open # None
  /\ open' = None
  /\ logged' = o
  /\ returned' = o

Next ==
  \/ \E r \in Requests : Start(r)
  \/ \E o \in Outcomes : Return(o)

(* A call that has started comes to an end; nobody has to call. *)
Fairness == WF_vars(\E o \in Outcomes : Return(o))

Spec == Init /\ [][Next]_vars /\ Fairness
===============================================================================
