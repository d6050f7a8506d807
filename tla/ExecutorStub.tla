------------------------------ MODULE ExecutorStub ------------------------------
(***************************************************************************)
(* The executor the kernel falls back on (seraph/ExecutorStub): no guest   *)
(* code, one built-in function echo::print.  Unlike WasmExecutor it asks   *)
(* the policy that comes with the request.                                 *)
(***************************************************************************)
EXTENDS Naturals, Sequences

CONSTANTS
  EmptyName,      \* the empty module name
  EmptyFunction   \* the empty function name

ASSUME StubAssumption == EmptyName # "echo" /\ EmptyFunction # "print"

PreFlightCheck(r) ==
  /\ r.module_name # EmptyName
  /\ r.function_name # EmptyFunction
  /\ r.module_name \in DOMAIN r.allowed_exports
  /\ \E i \in DOMAIN r.allowed_exports[r.module_name] :
       r.allowed_exports[r.module_name][i] = r.function_name

(* Slip: what is built in is looked at before the policy. *)
Answer_BuiltInFirst(r) ==
  CASE r.module_name # "echo" -> "UnsupportedModule"
    [] r.module_name = "echo" /\ r.function_name # "print" -> "UnsupportedFunction"
    [] r.module_name = "echo" /\ r.function_name = "print"
         /\ "message" \notin r.arguments -> "InvalidArguments"
    [] OTHER -> "success"

(* What Execute answers: its checks in their order.  The answer is logged  *)
(* as it is returned.                                                      *)
Answer(r) ==
  CASE ~PreFlightCheck(r) -> "CapabilityDenied"
    [] PreFlightCheck(r) /\ r.module_name # "echo" -> "UnsupportedModule"
    [] PreFlightCheck(r) /\ r.module_name = "echo" /\ r.function_name # "print" ->
         "UnsupportedFunction"
    [] PreFlightCheck(r) /\ r.module_name = "echo" /\ r.function_name = "print"
         /\ "message" \notin r.arguments -> "InvalidArguments"
    [] OTHER -> "success"
===============================================================================
