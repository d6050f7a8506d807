----------------------------- MODULE KernelProcess -----------------------------
(***************************************************************************)
(* main.cpp, once for every run of the program: it opens the audit file,   *)
(* chooses a brain and an executor, mounts the registry, and either prints *)
(* its status and ends or serves the operator.  What the operator and the  *)
(* brain make of the loop (CognitiveLoop) is here the calls of Execute it  *)
(* leads to; what a WasmExecutor answers (WasmExecutor) is any outcome.    *)
(*                                                                         *)
(* Runs share nothing but the audit file.  They may overlap; one may be    *)
(* killed, or all of them stopped by a loss of power, between any two      *)
(* steps, and the next one starts on the file that is left.                *)
(***************************************************************************)
EXTENDS FileAuditSink, ExecutorStub

CONSTANTS
  Environments,  \* of each run, what its environment may ask for: see Start
  Asked,         \* what brains ask for: [module_name, function_name, arguments]
  WasmPolicies,  \* what GenerateSystemPolicy may return after a load
  Outcomes,      \* "success" and the members of ExecutionError
  WasmOutcomes,  \* what a WasmExecutor may answer
  MaxEvents,     \* bound on the events of a run
  None           \* nothing yet

StubPolicy == [m \in {"echo"} |-> <<"print">>]
Policies == WasmPolicies \cup {StubPolicy}

Requests ==
  {[module_name |-> q.module_name, function_name |-> q.function_name,
    arguments |-> q.arguments, allowed_exports |-> p] : q \in Asked, p \in Policies}

ASSUME ProcessAssumption ==
  /\ None \notin Outcomes /\ None \notin Requests /\ None \notin {"stub", "wasm", "mock", "llama"}
  /\ WasmOutcomes \subseteq Outcomes
  /\ {"success", "CapabilityDenied", "UnsupportedModule", "UnsupportedFunction",
      "InvalidArguments"} \subseteq Outcomes
  /\ MaxEvents \in Nat
  /\ Environments \in [Runs -> SUBSET [status_mode : BOOLEAN, executor_type : {"stub", "wasm"},
                                       llama : BOOLEAN]]
  /\ \A q \in Asked : DOMAIN q = {"module_name", "function_name", "arguments"}

VARIABLES
  pc,             \* where main stands, see TypeOK
  status_mode,
  executor_type,  \* "stub" or "wasm": what the environment asks for
  llama,          \* a build with llama.cpp, and a model path
  brain, brain_kind, last_error,
  executor,       \* the object mounted
  system_policy, prompt_capabilities,
  request,        \* of the call that is open
  outcome         \* what the latest call returned

environmentVars == <<status_mode, executor_type, llama>>
brainVars == <<brain, brain_kind, last_error>>
mountVars == <<executor, system_policy, prompt_capabilities>>
callVars == <<request, outcome>>
vars == <<sinkVars, pc, environmentVars, brainVars, mountVars, callVars>>

BootPhases == {"unborn", "boot_start", "brain", "executor", "mounting", "mounted"}
Over == {"exited", "dead"}
Live(r) == pc[r] \notin Over \cup {"unborn"}

SystemEvent(kind) == [event |-> kind]
Selected(x) == [event |-> "boot_executor_selected", executor |-> x]
Snapshot(r) ==
  [event |-> "status_snapshot", executor |-> executor_type[r], brain |-> brain_kind[r],
   error |-> last_error[r]]
Started(q) ==
  [event |-> "execution_start", module |-> q.module_name, function |-> q.function_name]
Ended(q, o) ==
  [event |-> IF o = "success" THEN "execution_success" ELSE "execution_failure",
   module |-> q.module_name, function |-> q.function_name, outcome |-> o]

Init ==
  /\ SinkInit
  /\ pc = [r \in Runs |-> "unborn"]
  /\ status_mode = [r \in Runs |-> FALSE]
  /\ executor_type = [r \in Runs |-> "stub"]
  /\ llama = [r \in Runs |-> FALSE]
  /\ brain = [r \in Runs |-> None]
  /\ brain_kind = [r \in Runs |-> "mock"]
  /\ last_error = [r \in Runs |-> "none"]
  /\ executor = [r \in Runs |-> None]
  /\ system_policy = [r \in Runs |-> <<>>]
  /\ prompt_capabilities = [r \in Runs |-> {}]
  /\ request = [r \in Runs |-> None]
  /\ outcome = [r \in Runs |-> None]

Goto(r, phase) == pc' = [pc EXCEPT ![r] = phase]
At(r, phase) == pc[r] = phase

-----------------------------------------------------------------------------
(* The boot. *)
Start(r) ==
  /\ At(r, "unborn") /\ Goto(r, "boot_start")
  /\ \E e \in Environments[r] :
       /\ status_mode' = [status_mode EXCEPT ![r] = e.status_mode]
       /\ executor_type' = [executor_type EXCEPT ![r] = e.executor_type]
       /\ llama' = [llama EXCEPT ![r] = e.llama]
  /\ Open(r)
  /\ UNCHANGED <<brainVars, mountVars, callVars>>

BootStart(r) ==
  /\ At(r, "boot_start") /\ Goto(r, "brain")
  /\ Log(r, SystemEvent("boot_start"))
  /\ UNCHANGED <<environmentVars, brainVars, mountVars, callVars>>

SelectMock(r) ==
  /\ At(r, "brain") /\ ~llama[r] /\ Goto(r, "executor")
  /\ brain' = [brain EXCEPT ![r] = "mock"]
  /\ UNCHANGED <<sinkVars, environmentVars, brain_kind, last_error, mountVars, callVars>>

SelectLlama(r) ==
  /\ At(r, "brain") /\ llama[r] /\ Goto(r, "executor")
  /\ brain' = [brain EXCEPT ![r] = "llama"]
  /\ brain_kind' = [brain_kind EXCEPT ![r] = "llama_cpp"]
  /\ UNCHANGED <<sinkVars, environmentVars, last_error, mountVars, callVars>>

(* Slip: the kind is left at the brain that was tried. *)
FallBackToMock_KeepsKind(r) ==
  /\ At(r, "brain") /\ llama[r] /\ Goto(r, "executor")
  /\ brain' = [brain EXCEPT ![r] = "mock"]
  /\ brain_kind' = [brain_kind EXCEPT ![r] = "llama_cpp"]
  /\ last_error' = [last_error EXCEPT ![r] = "llama_cpp init failed"]
  /\ UNCHANGED <<sinkVars, environmentVars, mountVars, callVars>>

(* The llama backend is built, is not ready, and is given up. *)
FallBackToMock(r) ==
  /\ At(r, "brain") /\ llama[r] /\ Goto(r, "executor")
  /\ brain' = [brain EXCEPT ![r] = "mock"]
  /\ brain_kind' = [brain_kind EXCEPT ![r] = "mock_fallback"]
  /\ last_error' = [last_error EXCEPT ![r] = "llama_cpp init failed"]
  /\ UNCHANGED <<sinkVars, environmentVars, mountVars, callVars>>

Exports(policy) ==
  UNION {{<<m, policy[m][i]>> : i \in DOMAIN policy[m]} : m \in DOMAIN policy}

MountStub(r) ==
  /\ At(r, "executor") /\ executor_type[r] = "stub"
  /\ Goto(r, "mounted")
  /\ executor' = [executor EXCEPT ![r] = "stub"]
  /\ system_policy' = [system_policy EXCEPT ![r] = StubPolicy]
  /\ prompt_capabilities' = [prompt_capabilities EXCEPT ![r] = {<<"echo", "print">>}]
  /\ Log(r, Selected("stub"))
  /\ UNCHANGED <<environmentVars, brainVars, callVars>>

SelectWasm(r) ==
  /\ At(r, "executor") /\ executor_type[r] = "wasm"
  /\ Goto(r, "mounting")
  /\ Log(r, Selected("wasm"))
  /\ UNCHANGED <<environmentVars, brainVars, mountVars, callVars>>

(* DescribePromptCapabilities lists what GenerateSystemPolicy allows; that *)
(* is ModuleRegistry!SummariesAgree.                                       *)
MountWasm(r) ==
  /\ At(r, "mounting") /\ Goto(r, "mounted")
  /\ executor' = [executor EXCEPT ![r] = "wasm"]
  /\ \E p \in WasmPolicies :
       /\ system_policy' = [system_policy EXCEPT ![r] = p]
       /\ prompt_capabilities' = [prompt_capabilities EXCEPT ![r] = Exports(p)]
  /\ Log(r, SystemEvent("boot_registry_loaded"))
  /\ UNCHANGED <<environmentVars, brainVars, callVars>>

(* Slip: the boot goes on without an executor. *)
RegistryFails_GoesOn(r) ==
  /\ At(r, "mounting") /\ Goto(r, "mounted")
  /\ last_error' = [last_error EXCEPT ![r] = "Registry fail"]
  /\ Log(r, SystemEvent("boot_registry_failed"))
  /\ UNCHANGED <<environmentVars, brain, brain_kind, mountVars, callVars>>

(* The manifest does not load: reported, and exit code 1. *)
RegistryFails(r) ==
  /\ At(r, "mounting") /\ Goto(r, "failing")
  /\ last_error' = [last_error EXCEPT ![r] = "Registry fail"]
  /\ Log(r, SystemEvent("boot_registry_failed"))
  /\ UNCHANGED <<environmentVars, brain, brain_kind, mountVars, callVars>>

(* An exception on the way: exit code 1, and no event. *)
MountThrows(r) ==
  /\ At(r, "mounting") /\ Goto(r, "failing")
  /\ last_error' = [last_error EXCEPT ![r] = "WasmExecutor fatal exception"]
  /\ UNCHANGED <<sinkVars, environmentVars, brain, brain_kind, mountVars, callVars>>

ReportStatus(r) ==
  /\ At(r, "mounted") /\ status_mode[r]
  /\ Goto(r, "ending")
  /\ Log(r, Snapshot(r))
  /\ UNCHANGED <<environmentVars, brainVars, mountVars, callVars>>

(* Slip: the loop runs behind the snapshot's back. *)
EnterLoop_Always(r) ==
  /\ At(r, "mounted") /\ Goto(r, "loop")
  /\ UNCHANGED <<sinkVars, environmentVars, brainVars, mountVars, callVars>>

EnterLoop(r) ==
  /\ At(r, "mounted") /\ ~status_mode[r]
  /\ Goto(r, "loop")
  /\ UNCHANGED <<sinkVars, environmentVars, brainVars, mountVars, callVars>>

(* main returns; the destructor closes the file. *)
Return(r) ==
  /\ pc[r] \in {"failing", "ending"}
  /\ Goto(r, "exited")
  /\ Close(r)
  /\ UNCHANGED <<environmentVars, brainVars, mountVars, callVars>>

-----------------------------------------------------------------------------
(* The loop. *)
RequestFor(r, q) ==
  [module_name |-> q.module_name, function_name |-> q.function_name,
   arguments |-> q.arguments, allowed_exports |-> system_policy[r]]

(* Slip: a call is logged when the pre-flight check has let it pass. *)
Call_LogsAdmitted(r, q) ==
  /\ At(r, "loop") /\ Goto(r, "call")
  /\ Len(reported[r]) + 2 <= MaxEvents
  /\ request' = [request EXCEPT ![r] = RequestFor(r, q)]
  /\ outcome' = [outcome EXCEPT ![r] = None]
  /\ IF PreFlightCheck(RequestFor(r, q)) THEN Log(r, Started(q)) ELSE UNCHANGED sinkVars
  /\ UNCHANGED <<environmentVars, brainVars, mountVars>>

(* The brain has asked for q: Execute begins. *)
Call(r, q) ==
  /\ At(r, "loop") /\ Goto(r, "call")
  /\ Len(reported[r]) + 2 <= MaxEvents
  /\ request' = [request EXCEPT ![r] = RequestFor(r, q)]
  /\ outcome' = [outcome EXCEPT ![r] = None]
  /\ Log(r, Started(q))
  /\ UNCHANGED <<environmentVars, brainVars, mountVars>>

(* Slip: a failure of the executor is returned and not logged. *)
Answers_SuccessLogged(r, o) ==
  /\ At(r, "call") /\ Goto(r, "loop")
  /\ IF executor[r] = "stub" THEN o = Answer(request[r]) ELSE o \in WasmOutcomes
  /\ request' = [request EXCEPT ![r] = None]
  /\ outcome' = [outcome EXCEPT ![r] = o]
  /\ IF o = "success" THEN Log(r, Ended(request[r], o)) ELSE UNCHANGED sinkVars
  /\ UNCHANGED <<environmentVars, brainVars, mountVars>>

(* Execute logs what it answers and returns it. *)
Answers(r, o) ==
  /\ At(r, "call") /\ Goto(r, "loop")
  /\ IF executor[r] = "stub" THEN o = Answer(request[r]) ELSE o \in WasmOutcomes
  /\ request' = [request EXCEPT ![r] = None]
  /\ outcome' = [outcome EXCEPT ![r] = o]
  /\ Log(r, Ended(request[r], o))
  /\ UNCHANGED <<environmentVars, brainVars, mountVars>>

(* The operator types "exit", or the input ends. *)
Stop(r) ==
  /\ At(r, "loop") /\ Goto(r, "ending")
  /\ UNCHANGED <<sinkVars, environmentVars, brainVars, mountVars, callVars>>

-----------------------------------------------------------------------------
(* What ends a run from outside. *)
Crash(r) ==
  /\ Live(r)
  /\ Goto(r, "dead")
  /\ Vanish(r) /\ UNCHANGED file /\ Fault
  /\ UNCHANGED <<environmentVars, brainVars, mountVars, callVars>>

PowerFails ==
  /\ LosePower
  /\ pc' = [r \in Runs |-> IF Live(r) THEN "dead" ELSE pc[r]]
  /\ UNCHANGED <<environmentVars, brainVars, mountVars, callVars>>

MainStep(r) ==
  \/ BootStart(r)
  \/ SelectMock(r) \/ SelectLlama(r) \/ FallBackToMock(r)
  \/ MountStub(r) \/ SelectWasm(r)
  \/ MountWasm(r) \/ RegistryFails(r) \/ MountThrows(r)
  \/ ReportStatus(r) \/ EnterLoop(r) \/ Return(r)
  \/ \E o \in Outcomes : Answers(r, o)

Next ==
  \/ \E r \in Runs :
       \/ Start(r) \/ Stop(r) \/ Crash(r)
       \/ \E q \in Asked : Call(r, q)
       \/ MainStep(r)
  \/ PowerFails

(* The one thread of a run goes on until it waits for the operator; a call *)
(* comes back (WasmExecutor!ExecuteReturns).                               *)
Fairness == \A r \in Runs : WF_vars(MainStep(r))

Spec == Init /\ [][Next]_vars /\ Fairness

-----------------------------------------------------------------------------
Events ==
  {SystemEvent(k) : k \in {"boot_start", "boot_registry_loaded", "boot_registry_failed"}}
  \cup {Selected(x) : x \in {"stub", "wasm"}}
  \cup [event : {"status_snapshot"}, executor : {"stub", "wasm"},
        brain : {"mock", "llama_cpp", "mock_fallback"},
        error : {"none", "llama_cpp init failed"}]
  \cup {Started(q) : q \in Asked}
  \cup {Ended(q, o) : q \in Asked, o \in Outcomes}

TypeOK ==
  /\ SinkTypeOK(Events)
  /\ pc \in [Runs -> BootPhases \cup {"failing", "ending", "loop", "call"} \cup Over]
  /\ status_mode \in [Runs -> BOOLEAN]
  /\ executor_type \in [Runs -> {"stub", "wasm"}]
  /\ llama \in [Runs -> BOOLEAN]
  /\ brain \in [Runs -> {None, "mock", "llama"}]
  /\ brain_kind \in [Runs -> {"mock", "llama_cpp", "mock_fallback"}]
  /\ last_error \in [Runs -> {"none", "llama_cpp init failed", "Registry fail",
                              "WasmExecutor fatal exception"}]
  /\ executor \in [Runs -> {None, "stub", "wasm"}]
  /\ system_policy \in [Runs -> Policies \cup {<<>>}]
  /\ prompt_capabilities \in [Runs -> {{}, {<<"echo", "print">>}}
                                     \cup {Exports(p) : p \in WasmPolicies}]
  /\ request \in [Runs -> Requests \cup {None}]
  /\ outcome \in [Runs -> Outcomes \cup {None}]

IsStart(e) == e.event = "execution_start"
IsEnd(e) == e.event \in {"execution_success", "execution_failure"}

ReadsAsABoot(trail) ==
  \A n \in DOMAIN trail :
    LET e == trail[n] IN
    /\ (n = 1) <=> (e.event = "boot_start")
    /\ (n = 2) <=> (e.event = "boot_executor_selected")
    /\ e.event \in {"boot_registry_loaded", "boot_registry_failed"} =>
         n = 3 /\ trail[2] = Selected("wasm")
    /\ e.event \in {"boot_registry_failed", "status_snapshot"} => n = Len(trail)
    /\ IsStart(e) => trail[2] = Selected("stub") \/ trail[3].event = "boot_registry_loaded"
    /\ IsStart(e) /\ n < Len(trail) => IsEnd(trail[n + 1])
    /\ IsEnd(e) => /\ n > 1 /\ IsStart(trail[n - 1])
                   /\ trail[n - 1].module = e.module
                   /\ trail[n - 1].function = e.function

(* Every run tells the same story, so that the file can be read without    *)
(* the program: the boot, then the executor, then for wasm what became of  *)
(* the registry, nothing behind a failure or a snapshot, and calls that    *)
(* are closed by one outcome of their own before the next one opens.       *)
EveryRunReadsAsABoot == \A r \in Runs : ReadsAsABoot(reported[r])

(* A call that kills the kernel can be named afterwards: while it runs, it *)
(* is in the file, in full, unless the run's log has failed before, and    *)
(* legible unless another run has left its torn record in front of it.     *)
RunningCallIsOnRecord ==
  \A r \in Runs :
    pc[r] = "call" /\ stream[r] = "good" =>
      \E i \in DOMAIN file :
        /\ file[i].run = r /\ file[i].n = Len(reported[r]) /\ file[i].whole
        /\ file[i].event = Started(request[r])
        /\ Legible(i) \/ file[i - 1].run # r

(* The stub, the policy and the prompt each spell out echo::print.  In a   *)
(* run of the stub a request is denied exactly when the prompt does not    *)
(* offer its export, and one that is offered fails only by its arguments.  *)
OfferedCallsAreServed ==
  \A r \in Runs :
    executor[r] = "stub" =>
      \A n \in DOMAIN reported[r] :
        LET e == reported[r][n] IN
        IsEnd(e) =>
          e.outcome \in IF <<e.module, e.function>> \in prompt_capabilities[r]
                        THEN {"success", "InvalidArguments"}
                        ELSE {"CapabilityDenied"}

(* The snapshot names the brain and the executor that are mounted, and an  *)
(* error exactly when the brain is a substitute.                           *)
SnapshotIsTrue ==
  \A r \in Runs : \A n \in DOMAIN reported[r] :
    LET e == reported[r][n] IN
    e.event = "status_snapshot" =>
      /\ e.executor = executor[r]
      /\ (e.brain = "llama_cpp") <=> (brain[r] = "llama")
      /\ (e.error # "none") <=> (e.brain = "mock_fallback")

(* Over all boots and crashes each run keeps the contract the loop assumes *)
(* of its executor, seen through the events it reports.                    *)
Contract(r) ==
  INSTANCE ExecutorContract WITH
    open <- request[r],
    returned <- outcome[r],
    logged <- LET n == Len(reported[r]) IN
              IF n > 0 /\ IsEnd(reported[r][n]) THEN reported[r][n].outcome ELSE None

TrailsKeepContract ==
  /\ \A r \in Runs : Contract(r)!Init
  /\ [][\A r \in Runs : Contract(r)!Next \/ UNCHANGED Contract(r)!vars]_vars

(* A status run reports and ends by itself; it never waits for input.      *)
StatusRunEnds ==
  \A r \in Runs : pc[r] = "boot_start" /\ status_mode[r] ~> pc[r] \in Over
===============================================================================
