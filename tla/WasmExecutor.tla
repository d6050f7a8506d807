----------------------------- MODULE WasmExecutor -----------------------------
(***************************************************************************)
(* One call of WasmExecutor::Execute after the other, over a registry that *)
(* may be reloaded or revoked from between two calls, files that change on *)
(* disk at any time, and guest code that does what it likes inside its     *)
(* sandbox.  Execute is cut where something outside the host can act: the  *)
(* read of the module file and every call into the guest.  A guest call    *)
(* burns fuel step by step; the wasmtime C API is external.                *)
(***************************************************************************)
EXTENDS ModuleRegistry

CONSTANTS
  EmptyName,      \* the module name "", a legal key of a JSON object
  EmptyFunction,  \* the function name ""
  RegexNames,     \* the names that match ^[a-zA-Z0-9_-]+$
  WatPaths,       \* the paths with extension .wat
  Blobs,          \* contents a module file can have
  Sha256,         \* the digest of each of them
  WordSize,       \* a guest pointer or length is in 0 .. WordSize - 1
  MaxMemory,      \* bound on the size of a guest memory
  PayloadSizes,   \* sizes of request.arguments as JSON
  MaxInput, MaxOutput, MaxFuel,  \* RuntimeLimits
  None

Words == 0 .. WordSize - 1

Requests == [module : Names, function : Functions, size : PayloadSizes]

(* FileNotFound and the rest of the enum ExecutionError that Execute uses. *)
ExecutionErrors ==
  {"CapabilityDenied", "InvalidModule", "UntrustedModule", "ModuleLoadError",
   "FileNotFound", "ChecksumMismatch", "WasmCompileError", "FunctionCallError",
   "MissingExport", "PayloadTooLarge", "GuestTrap", "FuelExhausted",
   "AllocatorError", "InvalidMemoryBounds"}

Outcomes == {"success"} \cup ExecutionErrors

(* What the path of a module can hold: a blob, nothing, or an empty file. *)
Missing == "missing"
Empty == "empty"
FileContents == Blobs \cup {Missing, Empty}

(* A block of guest memory, as the guest names it. *)
Block == [ptr : Words, len : Words]

ASSUME ExecutorAssumption ==
  /\ RegexNames \subseteq Names \ {EmptyName}
  /\ WatPaths \subseteq Paths
  /\ Sha256 \in [Blobs -> Digests]
  /\ {WordSize, MaxInput, MaxOutput, MaxFuel, MaxMemory} \subseteq Nat
  /\ PayloadSizes \subseteq Words
  /\ Blobs \cap {Missing, Empty, None} = {}
  /\ None \notin Requests \cup Outcomes \cup Block

VARIABLES
  disk,     \* path -> contents of the module files
  cache,    \* cached_modules_: name -> the blob the cached module was built from
  pc,       \* how far the call has come, "idle" between calls
  request,  \* the request in progress
  module,   \* the local `module': the blob it was built from
  live,     \* stores and linkers created and not deleted yet
  fuel,     \* fuel left in the store
  memory,   \* size of the guest's linear memory
  view,     \* memory_size, fetched together with memory_data
  payload,  \* block the guest's alloc returned
  result,   \* block the guest function returned
  touched,  \* the host's access to guest memory since the last guest call
  outcome,  \* f_err or result.success: settled, but the block is not freed yet
  freed,    \* blocks handed to the guest's free by the latest call
  audit,    \* audit events of the latest call
  returned  \* what the latest call returned

hostVars == <<disk, cache>>
callVars == <<pc, request, module, live, fuel, memory, view, payload, result,
              touched, outcome, freed, audit, returned>>
vars == <<registryVars, hostVars, callVars>>

Phases == {"idle", "admit", "load", "store", "fuel", "instantiate", "alloc",
           "write", "invoke", "read", "free"}

(* Phases in which guest code has the processor. *)
GuestPhases == {"instantiate", "alloc", "invoke", "free"}

TypeOK ==
  /\ RegistryTypeOK
  /\ disk \in [Paths -> FileContents]
  /\ DOMAIN cache \subseteq Names
  /\ cache \in [DOMAIN cache -> Blobs]
  /\ pc \in Phases
  /\ request \in Requests \cup {None}
  /\ module \in Blobs \cup {None}
  /\ live \in [store : Int, linker : Int]
  /\ fuel \in 0..MaxFuel
  /\ memory \in 0..MaxMemory
  /\ view \in 0..MaxMemory
  /\ payload \in Block \cup {None}
  /\ result \in Block \cup {None}
  /\ touched \in [block : Block, view : 0..MaxMemory] \cup {None}
  /\ outcome \in Outcomes \cup {None}
  /\ freed \in Seq(Block)
  /\ audit \in {<<>>, <<"start">>} \cup {<<"start", o>> : o \in Outcomes}
  /\ returned \in Outcomes \cup {None}

-----------------------------------------------------------------------------
(* How many objects of each kind an exit deletes. *)
Nothing == [store |-> 0, linker |-> 0]
StoreOnly == [store |-> 1, linker |-> 0]
StoreAndLinker == [store |-> 1, linker |-> 1]

(* Leaving Execute: the outcome is logged and returned, the objects of     *)
(* `deleted' are deleted, and the locals are gone.                         *)
Leave(o, deleted) ==
  /\ pc' = "idle"
  /\ audit' = Append(audit, o)
  /\ returned' = o
  /\ live' = [store |-> live.store - deleted.store, linker |-> live.linker - deleted.linker]
  /\ request' = None
  /\ module' = None
  /\ fuel' = 0
  /\ memory' = 0
  /\ view' = 0
  /\ payload' = None
  /\ result' = None
  /\ touched' = None
  /\ outcome' = None

Goto(phase) == pc' = phase

(* The call of cleanup_and_free: what Execute will return is settled, and  *)
(* the guest's free has the processor (see FreeReturns).                   *)
CleanupAndFree(block, o) ==
  /\ Goto("free")
  /\ freed' = Append(freed, block)
  /\ outcome' = o

(***************************************************************************)
(* Admission.                                                              *)
(***************************************************************************)
Execute(r) ==
  /\ pc = "idle"
  /\ Goto("admit")
  /\ request' = r
  /\ audit' = <<"start">>
  /\ returned' = None
  /\ freed' = <<>>
  /\ UNCHANGED <<registryVars, hostVars, module, live, fuel, memory, view,
                 payload, result, touched, outcome>>

(* The exports are those of the profile; request.capabilities is not read. *)
PreFlightCheck(r) ==
  /\ r.module # EmptyName
  /\ r.function # EmptyFunction
  /\ r.module \in DOMAIN tracked_modules
  /\ r.function \in ExportsOf(r.module)

(* Slip: the trust of the profile is not looked at. *)
Refusal_IgnoresTrust(r) ==
  CASE ~PreFlightCheck(r) -> "CapabilityDenied"
    [] PreFlightCheck(r) /\ r.module \notin RegexNames -> "InvalidModule"
    [] PreFlightCheck(r) /\ r.module \in RegexNames /\ ~AbiCompatible(r.module) ->
         "ModuleLoadError"
    [] OTHER -> None

(* The first check that fails, None for a request that is let in.  The     *)
(* UnsupportedModule of the code is not reachable: PreFlightCheck has      *)
(* found the profile.                                                      *)
Refusal(r) ==
  CASE ~PreFlightCheck(r) -> "CapabilityDenied"
    [] PreFlightCheck(r) /\ r.module \notin RegexNames -> "InvalidModule"
    [] PreFlightCheck(r) /\ r.module \in RegexNames /\ ~Trusted(r.module) ->
         "UntrustedModule"
    [] PreFlightCheck(r) /\ r.module \in RegexNames /\ Trusted(r.module)
         /\ ~AbiCompatible(r.module) -> "ModuleLoadError"
    [] OTHER -> None

CacheWithout(n) == [k \in DOMAIN cache \ {n} |-> cache[k]]

(* Slip: only a wrong ABI evicts. *)
Evicting_AbiOnly(o) == o = "ModuleLoadError"

(* A module that is not trusted any more, or speaks another ABI, loses its *)
(* place in the cache when somebody asks for it.                           *)
Evicting(o) == o \in {"UntrustedModule", "ModuleLoadError"}

(* Slip: the branch that evicts logs the refusal, and the next one again. *)
Refuse_LogsTwice ==
  /\ pc = "admit"
  /\ Refusal(request) # None
  /\ Goto("idle")
  /\ audit' = audit \o <<Refusal(request), Refusal(request)>>
  /\ returned' = Refusal(request)
  /\ request' = None
  /\ UNCHANGED <<registryVars, hostVars, module, live, fuel, memory, view, payload,
                 result, touched, outcome, freed>>

Refuse ==
  /\ pc = "admit"
  /\ Refusal(request) # None
  /\ cache' = IF Evicting(Refusal(request))
              THEN CacheWithout(request.module) ELSE cache
  /\ Leave(Refusal(request), Nothing)
  /\ UNCHANGED <<registryVars, disk, freed>>

Admit ==
  /\ pc = "admit"
  /\ Refusal(request) = None
  /\ Goto("load")
  /\ UNCHANGED <<registryVars, hostVars, request, module, live, fuel, memory,
                 view, payload, result, touched, outcome, freed, audit, returned>>

(***************************************************************************)
(* The module: from the cache, where it is taken as it is, or from disk,   *)
(* where the bytes read are the bytes hashed and compiled.                 *)
(***************************************************************************)
ModuleFile == tracked_modules[request.module].path

(* Slip: any digest will do. *)
ChecksumMatches_Never(contents) == TRUE

ChecksumMatches(contents) ==
  Sha256[contents] = tracked_modules[request.module].sha256

(* External: a read, a wat2wasm or a compilation can fail on any blob. *)
LoadErrors(contents) ==
  CASE contents = Missing -> {"FileNotFound"}
    [] contents = Empty -> {"ModuleLoadError"}
    [] contents \in Blobs /\ ~ChecksumMatches(contents) ->
         {"ModuleLoadError", "ChecksumMismatch"}
    [] contents \in Blobs /\ ChecksumMatches(contents) ->
         {"ModuleLoadError"} \cup
         (IF ModuleFile \in WatPaths THEN {"WasmCompileError"} ELSE {})

LoadFromCache ==
  /\ pc = "load"
  /\ request.module \in DOMAIN cache
  /\ module' = cache[request.module]
  /\ Goto("store")
  /\ UNCHANGED <<registryVars, hostVars, request, live, fuel, memory, view,
                 payload, result, touched, outcome, freed, audit, returned>>

LoadFromDisk ==
  /\ pc = "load"
  /\ request.module \notin DOMAIN cache
  /\ disk[ModuleFile] \in Blobs
  /\ ChecksumMatches(disk[ModuleFile])
  /\ module' = disk[ModuleFile]
  /\ cache' = [k \in DOMAIN cache \cup {request.module} |->
                 IF k = request.module THEN disk[ModuleFile] ELSE cache[k]]
  /\ Goto("store")
  /\ UNCHANGED <<registryVars, disk, request, live, fuel, memory, view, payload,
                 result, touched, outcome, freed, audit, returned>>

LoadFails ==
  /\ pc = "load"
  /\ request.module \notin DOMAIN cache
  /\ \E o \in LoadErrors(disk[ModuleFile]) : Leave(o, Nothing)
  /\ UNCHANGED <<registryVars, hostVars, freed>>

(***************************************************************************)
(* The sandbox: store, fuel, linker, instance, exports.                    *)
(***************************************************************************)
CreateStore ==
  /\ pc = "store"
  /\ live' = [live EXCEPT !.store = @ + 1]
  /\ Goto("fuel")
  /\ UNCHANGED <<registryVars, hostVars, request, module, fuel, memory, view,
                 payload, result, touched, outcome, freed, audit, returned>>

(* Slip: the early return forgets the store. *)
SetFuelFails_LeaksStore ==
  /\ pc = "fuel"
  /\ Leave("FunctionCallError", Nothing)
  /\ UNCHANGED <<registryVars, hostVars, freed>>

SetFuelFails ==
  /\ pc = "fuel"
  /\ Leave("FunctionCallError", StoreOnly)
  /\ UNCHANGED <<registryVars, hostVars, freed>>

SetFuel ==
  /\ pc = "fuel"
  /\ fuel' = MaxFuel
  /\ live' = [live EXCEPT !.linker = @ + 1]
  /\ Goto("instantiate")
  /\ UNCHANGED <<registryVars, hostVars, request, module, memory, view, payload,
                 result, touched, outcome, freed, audit, returned>>

(* Slip: the store is refuelled instead of trapping. *)
Burn_Refuel(f) == IF f = 1 THEN MaxFuel ELSE f - 1

(* The engine is configured to consume fuel. *)
Burn(f) == f - 1

GuestRuns ==
  /\ pc \in GuestPhases
  /\ fuel > 0
  /\ fuel' = Burn(fuel)
  /\ UNCHANGED <<registryVars, hostVars, pc, request, module, live, memory, view,
                 payload, result, touched, outcome, freed, audit, returned>>

InstantiateFails ==
  /\ pc = "instantiate"
  /\ Leave("FunctionCallError", StoreAndLinker)
  /\ UNCHANGED <<registryVars, hostVars, freed>>

ExportMissing ==
  /\ pc = "instantiate"
  /\ Leave("MissingExport", StoreAndLinker)
  /\ UNCHANGED <<registryVars, hostVars, freed>>

InputTooLarge ==
  /\ pc = "instantiate"
  /\ request.size > MaxInput
  /\ Leave("PayloadTooLarge", StoreAndLinker)
  /\ UNCHANGED <<registryVars, hostVars, freed>>

Instantiate ==
  /\ pc = "instantiate"
  /\ request.size <= MaxInput
  /\ \E size \in 0..MaxMemory : memory' = size
  /\ Goto("alloc")
  /\ UNCHANGED <<registryVars, hostVars, request, module, live, fuel, view,
                 payload, result, touched, outcome, freed, audit, returned>>

(***************************************************************************)
(* Step 1: the guest's alloc.  A call that runs out of fuel here is        *)
(* reported as GuestTrap.                                                  *)
(***************************************************************************)
AllocFails ==
  /\ pc = "alloc"
  /\ \E o \in {"GuestTrap", "FunctionCallError"} : Leave(o, StoreAndLinker)
  /\ UNCHANGED <<registryVars, hostVars, freed>>

(* Guest code can grow its memory, which may move it. *)
AllocReturns ==
  /\ pc = "alloc"
  /\ \E ptr \in Words : payload' = [ptr |-> ptr, len |-> request.size]
  /\ memory' \in memory..MaxMemory
  /\ Goto("write")
  /\ UNCHANGED <<registryVars, hostVars, request, module, live, fuel, view,
                 result, touched, outcome, freed, audit, returned>>

(***************************************************************************)
(* Step 2: the payload is written.                                         *)
(***************************************************************************)
(* Slip: pointer and length are added in the width of a guest word. *)
InBounds_Wraps(block, size) == (block.ptr + block.len) % WordSize <= size

(* Both are widened before they are added. *)
InBounds(block, size) == block.ptr + block.len <= size

WriteRefused ==
  /\ pc = "write"
  /\ ~InBounds(payload, memory)
  /\ CleanupAndFree(payload, "AllocatorError")
  /\ UNCHANGED <<registryVars, hostVars, request, module, live, fuel, memory, view,
                 payload, result, touched, audit, returned>>

WritePayload ==
  /\ pc = "write"
  /\ InBounds(payload, memory)
  /\ view' = memory
  /\ touched' = [block |-> payload, view |-> memory]
  /\ Goto("invoke")
  /\ UNCHANGED <<registryVars, hostVars, request, module, live, fuel, memory,
                 payload, result, outcome, freed, audit, returned>>

(***************************************************************************)
(* Step 3: the guest function.                                             *)
(***************************************************************************)
(* The trap code tells running out of fuel from other traps. *)
InvokeErrors ==
  {"GuestTrap", "FunctionCallError"} \cup (IF fuel = 0 THEN {"FuelExhausted"} ELSE {})

(* Slip: the payload block is not handed back. *)
InvokeFails_NoFree ==
  /\ pc = "invoke"
  /\ \E o \in InvokeErrors : Leave(o, StoreAndLinker)
  /\ UNCHANGED <<registryVars, hostVars, freed>>

InvokeFails ==
  /\ pc = "invoke"
  /\ \E o \in InvokeErrors : CleanupAndFree(payload, o)
  /\ touched' = None
  /\ UNCHANGED <<registryVars, hostVars, request, module, live, fuel, memory, view,
                 payload, result, audit, returned>>

(* The packed i64 can hold any pointer and any length. *)
InvokeReturns ==
  /\ pc = "invoke"
  /\ result' \in Block
  /\ memory' \in memory..MaxMemory
  /\ touched' = None
  /\ Goto("read")
  /\ UNCHANGED <<registryVars, hostVars, request, module, live, fuel, view,
                 payload, outcome, freed, audit, returned>>

(***************************************************************************)
(* Steps 4 and 5: the result is read and its block freed.                  *)
(***************************************************************************)
ResultView == memory

ResultOutOfBounds ==
  /\ pc = "read"
  /\ ~InBounds(result, ResultView)
  /\ CleanupAndFree(result, "InvalidMemoryBounds")
  /\ UNCHANGED <<registryVars, hostVars, request, module, live, fuel, memory, view,
                 payload, result, touched, audit, returned>>

OutputTooLarge ==
  /\ pc = "read"
  /\ InBounds(result, ResultView)
  /\ result.len > MaxOutput
  /\ CleanupAndFree(result, "PayloadTooLarge")
  /\ UNCHANGED <<registryVars, hostVars, request, module, live, fuel, memory, view,
                 payload, result, touched, audit, returned>>

ReadResult ==
  /\ pc = "read"
  /\ InBounds(result, ResultView)
  /\ result.len <= MaxOutput
  /\ view' = ResultView
  /\ touched' = [block |-> result, view |-> ResultView]
  /\ CleanupAndFree(result, "success")
  /\ UNCHANGED <<registryVars, hostVars, request, module, live, fuel, memory,
                 payload, result, audit, returned>>

(* Slip: a success is returned and not logged. *)
FreeReturns_SuccessNotLogged ==
  /\ pc = "free"
  /\ pc' = "idle"
  /\ returned' = outcome
  /\ audit' = IF outcome = "success" THEN audit ELSE Append(audit, outcome)
  /\ live' = Nothing
  /\ request' = None /\ module' = None /\ payload' = None /\ result' = None
  /\ fuel' = 0 /\ memory' = 0 /\ view' = 0 /\ touched' = None /\ outcome' = None
  /\ UNCHANGED <<registryVars, hostVars, freed>>

(* The guest's free returns, traps or fails, out of fuel or not: the host  *)
(* swallows which, and goes on with what was settled before.  Five exits   *)
(* end here, each with the same deletions and the outcome it has settled.  *)
FreeReturns ==
  /\ pc = "free"
  /\ Leave(outcome, StoreAndLinker)
  /\ UNCHANGED <<registryVars, hostVars, freed>>

-----------------------------------------------------------------------------
(***************************************************************************)
(* Between two calls the owner of the executor and the registry can load   *)
(* the manifest again, revoke a module and clear the cache.  Module files  *)
(* can be replaced at any time: the file system is external.               *)
(***************************************************************************)
ReloadManifest == pc = "idle" /\ LoadManifest /\ UNCHANGED <<hostVars, callVars>>

Revoke ==
  /\ pc = "idle"
  /\ \E n \in Names : RevokeModule(n)
  /\ UNCHANGED <<hostVars, callVars>>

ClearCache ==
  /\ pc = "idle"
  /\ cache' = NoModules
  /\ UNCHANGED <<registryVars, disk, callVars>>

ReplaceFile ==
  /\ \E p \in Paths, c \in FileContents : disk' = [disk EXCEPT ![p] = c]
  /\ UNCHANGED <<registryVars, cache, callVars>>

CallStep ==
  \/ Refuse \/ Admit
  \/ LoadFromCache \/ LoadFromDisk \/ LoadFails
  \/ CreateStore \/ SetFuelFails \/ SetFuel
  \/ GuestRuns
  \/ InstantiateFails \/ ExportMissing \/ InputTooLarge \/ Instantiate
  \/ AllocFails \/ AllocReturns
  \/ WriteRefused \/ WritePayload
  \/ InvokeFails \/ InvokeReturns
  \/ ResultOutOfBounds \/ OutputTooLarge \/ ReadResult
  \/ FreeReturns

(* The program main.cpp puts together: the manifest is loaded once, before *)
(* the executor is built.  It leaves the other operations to later owners. *)
WiredNext ==
  \/ \E r \in Requests : Execute(r)
  \/ CallStep
  \/ Revoke
  \/ ClearCache
  \/ ReplaceFile

Next == WiredNext \/ ReloadManifest

ExecutorInit ==
  /\ disk \in [Paths -> FileContents]
  /\ cache = NoModules
  /\ pc = "idle"
  /\ request = None /\ module = None /\ payload = None /\ result = None
  /\ live = Nothing
  /\ fuel = 0 /\ memory = 0 /\ view = 0
  /\ touched = None /\ outcome = None
  /\ freed = <<>> /\ audit = <<>>
  /\ returned = None

(* The executor is built over a registry that is still empty, *)
Init == RegistryInit /\ ExecutorInit

(* or, in main.cpp, over one whose only load has succeeded. *)
WiredInit ==
  /\ \E doc \in Documents :
       /\ Readable(doc)
       /\ ReadableNames(doc) = DOMAIN doc.modules
       /\ tracked_modules = [n \in DOMAIN doc.modules |-> Profile(doc.modules[n])]
       /\ origin = doc.modules
  /\ manifest_version = kSupportedManifestVersion
  /\ load_result = "ok"
  /\ ExecutorInit

(* The one thread of the program goes on with the call it is in; guest     *)
(* code cannot keep it for ever because fuel runs out.                     *)
Fairness == WF_vars(CallStep)

Spec == Init /\ [][Next]_vars /\ Fairness
WiredSpec == WiredInit /\ [][WiredNext]_vars /\ Fairness

-----------------------------------------------------------------------------
(* Every access of the host to guest memory lies inside the memory as it   *)
(* is at that moment and goes through a view fetched after the last guest  *)
(* call: alloc and the guest function can grow and so move the memory, and *)
(* the guest chooses every pointer and length.                             *)
HostAccessInBounds ==
  touched # None =>
    /\ touched.view = memory
    /\ touched.block.ptr + touched.block.len <= memory

(* Whichever of the ten exits behind the store a call takes, the store and *)
(* the linker are deleted, each of them once, and not before the last call *)
(* into the guest, free, is over.                                          *)
ResourcesReleased ==
  /\ live.store = IF pc \in {"idle", "admit", "load", "store"} THEN 0 ELSE 1
  /\ live.linker = IF pc \in {"idle", "admit", "load", "store", "fuel"} THEN 0 ELSE 1

(* Whatever the way out, the block the guest holds for the host has been   *)
(* handed back once when the call is over: nothing if alloc did not return,*)
(* the payload if the guest function did not return, and its result        *)
(* otherwise (the payload is then the guest's own).                        *)
FreedExactlyOnce ==
  [][pc # "idle" /\ pc' = "idle" =>
       freed' = CASE result # None -> <<result>>
                  [] result = None /\ payload # None -> <<payload>>
                  [] OTHER -> <<>>]_vars

(* What Execute admits differs from what the system policy, and with it    *)
(* the prompt, offers by two checks only: a name has to match the regular  *)
(* expression, and the name of a function must not be empty.  Otherwise    *)
(* PreFlightCheck, which ignores trust and ABI, and the checks after it    *)
(* add up to the filter of GenerateSystemPolicy, for every name.           *)
AdmissionMatchesPolicy ==
  \A n \in Names, f \in Functions, size \in PayloadSizes :
    Refusal([module |-> n, function |-> f, size |-> size]) = None
      <=> /\ <<n, f>> \in GenerateSystemPolicy
          /\ n \in RegexNames
          /\ f # EmptyFunction

(* A request turned down "due to an unauthorized capability request", as   *)
(* ExecutionDiagnostics.cpp puts it to the brain, was not among the        *)
(* available capabilities the prompt lists.                                *)
DeniedMeansNotOffered ==
  [][pc = "admit" /\ pc' = "idle" /\ returned' = "CapabilityDenied"
       => <<request.module, request.function>> \notin DescribePromptCapabilities]_vars

(* From admission to return, a call runs only what the policy of that      *)
(* moment allows: a revocation or a reload cannot be overtaken by a call   *)
(* or by a module still in the cache.                                      *)
RunningIsAllowed ==
  pc \notin {"idle", "admit"} =>
    <<request.module, request.function>> \in GenerateSystemPolicy

(* Bytes enter the cache only after their digest was compared with the one *)
(* registered for a trusted module, and a cached module is never replaced  *)
(* without leaving the cache first, whatever happens to the files.         *)
OnlyVerifiedBytesEnterCache ==
  [][\A n \in DOMAIN cache' :
       /\ n \notin DOMAIN cache =>
            Trusted(n) /\ Sha256[cache'[n]] = tracked_modules[n].sha256
       /\ n \in DOMAIN cache => cache'[n] = cache[n]]_vars

(* A call refused because its module is not trusted, or speaks another     *)
(* ABI, leaves nothing of the module behind: should a later manifest trust *)
(* it again, its bytes are read and verified afresh.                       *)
RefusalEvicts ==
  [][pc = "admit" /\ pc' = "idle" /\ returned' \in {"UntrustedModule", "ModuleLoadError"}
       => request.module \notin DOMAIN cache']_vars

(* The code a call runs has the digest the registry demands of it: "Module *)
(* execution blocked" otherwise, as ExecutionDiagnostics.cpp puts it.      *)
VerifiedExecution ==
  module # None => Sha256[module] = tracked_modules[request.module].sha256

(* Every call that has been started returns, though the guest may loop     *)
(* wherever it is called, in free as well.                                 *)
ExecuteReturns == pc # "idle" ~> pc = "idle"

(* What the kernel sees of the executor is the contract of IExecutor: one  *)
(* audited start, one audited outcome that is also the returned value.     *)
Contract ==
  INSTANCE ExecutorContract WITH
    open <- IF Len(audit) = 1 THEN request ELSE None,
    logged <- IF Len(audit) = 2 THEN audit[2] ELSE None

ImplementsContract == Contract!Spec
=============================================================================
