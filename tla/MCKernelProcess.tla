---------------------------- MODULE MCKernelProcess ----------------------------
(* Constants of KernelProcess for TLC: requests that the stub serves, that *)
(* lack an argument, and that no policy of the stub allows.  A kernel      *)
(* serves its operator, and before, beside or behind it somebody asks for  *)
(* the status.                                                             *)
EXTENDS KernelProcess, TLC

CONSTANTS kernel, status  \* the runs

Ask(m, f, a) == [module_name |-> m, function_name |-> f, arguments |-> a]

MCAsked == {Ask("echo", "print", {"message"}), Ask("echo", "print", {}),
            Ask("file_system", "read", {})}
MCWasmPolicies == {[m \in {"file_system"} |-> <<"read">>]}
Environment(s, x, l) == [status_mode |-> s, executor_type |-> x, llama |-> l]
MCEnvironments ==
  kernel :> {Environment(FALSE, "stub", FALSE), Environment(FALSE, "wasm", FALSE)}
    @@ status :> {Environment(TRUE, "stub", FALSE), Environment(TRUE, "wasm", TRUE)}

MCOutcomes == {"success", "CapabilityDenied", "UnsupportedModule", "UnsupportedFunction",
               "InvalidArguments"}
===============================================================================
