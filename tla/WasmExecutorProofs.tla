--------------------------- MODULE WasmExecutorProofs ---------------------------
(***************************************************************************)
(* The executor, for every set of modules, manifests, files and blobs, for *)
(* every size of a guest word, of the memory and of the limits, and for    *)
(* every sequence of calls, reloads, revocations and file changes.         *)
(***************************************************************************)
EXTENDS WasmExecutor, ModuleRegistryProofs, SequenceTheorems

(* Where a call stands in the audit trail. *)
CallAudited ==
  IF pc = "idle"
  THEN \/ audit = <<>> /\ returned = None
       \/ \E o \in Outcomes : audit = <<"start", o>> /\ returned = o
  ELSE /\ request \in Requests
       /\ audit = <<"start">>
       /\ returned = None

(* The block that is due to be freed. *)
Due == IF result # None THEN <<result>> ELSE IF payload # None THEN <<payload>> ELSE <<>>

(* Which locals of Execute are live in which phase. *)
LocalsAgree ==
  /\ module # None <=> pc \notin {"idle", "admit", "load"}
  /\ ResourcesReleased
  /\ payload # None <=> pc \in {"write", "invoke", "read", "free"}
  /\ result # None => pc \in {"read", "free"}
  /\ pc = "read" => result # None
  /\ outcome # None <=> pc = "free"
  /\ pc # "idle" => freed = IF pc = "free" THEN Due ELSE <<>>
  /\ pc \notin {"invoke", "free"} => touched = None
  /\ pc = "invoke" => touched = [block |-> payload, view |-> memory]
                      /\ payload.ptr + payload.len <= memory
  /\ pc = "free" /\ touched # None =>
       touched = [block |-> result, view |-> memory] /\ result.ptr + result.len <= memory

(* The inductive invariant.  TypeOK alone does not say that the request of *)
(* a running call is in the registry, nor which locals hold a value.       *)
ExecutorInv == TypeOK /\ CallAudited /\ LocalsAgree /\ RunningIsAllowed

-----------------------------------------------------------------------------
(* Sequences of one and two elements. *)
LEMMA PairsEqual ==
  ASSUME NEW S, NEW s \in Seq(S), NEW t \in Seq(S), Len(s) = 2, Len(t) = 2,
         s[1] = t[1], s[2] = t[2]
  PROVE  s = t
<1>1. \A i \in 1..Len(s) : s[i] = t[i]
  OBVIOUS
<1>2. QED BY <1>1, SeqEqual

LEMMA AppendToOne ==
  ASSUME NEW a, NEW b
  PROVE  Append(<<a>>, b) = <<a, b>>
<1> DEFINE S == {a, b}
<1>1. /\ Append(<<a>>, b)[1] = a /\ Append(<<a>>, b)[2] = b
      /\ Len(Append(<<a>>, b)) = 2 /\ Append(<<a>>, b) \in Seq(S)
  OBVIOUS
<1>2. <<a, b>>[1] = a /\ <<a, b>>[2] = b /\ Len(<<a, b>>) = 2 /\ <<a, b>> \in Seq(S)
  OBVIOUS
<1>3. QED BY <1>1, <1>2, PairsEqual

(* The policy depends on the registry alone. *)
LEMMA PolicyStable ==
  ASSUME UNCHANGED registryVars
  PROVE  /\ GenerateSystemPolicy' = GenerateSystemPolicy
         /\ RegistryTypeOK => RegistryTypeOK'
BY DEF registryVars, GenerateSystemPolicy, Trusted, AbiCompatible, ExportsOf, RegistryTypeOK

(* The two filters, and the policy seen as facts about the table. *)
LEMMA PolicyMember ==
  ASSUME NEW n, NEW f
  PROVE  <<n, f>> \in GenerateSystemPolicy <=>
           /\ f \in Functions
           /\ Trusted(n) /\ AbiCompatible(n) /\ f \in ExportsOf(n)
BY DEF GenerateSystemPolicy, Trusted

LEMMA AdmissionIsPolicy ==
  ASSUME NEW r \in Requests, Refusal(r) = None
  PROVE  <<r.module, r.function>> \in GenerateSystemPolicy
<1>1. /\ PreFlightCheck(r) /\ Trusted(r.module) /\ AbiCompatible(r.module)
  BY ExecutorAssumption DEF Refusal, Outcomes, ExecutionErrors
<1>2. r.function \in Functions /\ r.function \in ExportsOf(r.module)
  BY <1>1 DEF PreFlightCheck, Requests
<1>3. QED BY <1>1, <1>2, PolicyMember

(* The module of a running call is registered and trusted. *)
LEMMA RunningModule ==
  ASSUME ExecutorInv, pc \notin {"idle", "admit"}
  PROVE  /\ request.module \in DOMAIN tracked_modules
         /\ Trusted(request.module)
         /\ tracked_modules[request.module] \in RegisteredModule
         /\ ModuleFile \in Paths
<1>1. Trusted(request.module)
  BY PolicyMember DEF ExecutorInv, RunningIsAllowed
<1>2. QED BY <1>1 DEF Trusted, ExecutorInv, TypeOK, RegistryTypeOK, RegisteredModule, ModuleFile

(* Every exit of Execute restores the idle state. *)
LEMMA LeaveRestores ==
  ASSUME ExecutorInv, pc # "idle",
         NEW o \in Outcomes, Leave(o, live),
         UNCHANGED <<registryVars, disk, freed>>,
         DOMAIN cache' \subseteq Names, cache' \in [DOMAIN cache' -> Blobs]
  PROVE  ExecutorInv'
<1>1. RegistryTypeOK'
  BY PolicyStable DEF ExecutorInv, TypeOK
<1>2. audit' = <<"start", o>> /\ returned' = o /\ pc' = "idle" /\ live' = Nothing
  <2>1. audit = <<"start">>
    BY DEF ExecutorInv, CallAudited
  <2>2. audit' = Append(<<"start">>, o)
    BY <2>1 DEF Leave
  <2>3. Append(<<"start">>, o) = <<"start", o>>
    BY AppendToOne
  <2>4. \A n \in Int : n - n = 0
    OBVIOUS
  <2>5. live' = Nothing
    BY <2>4 DEF Leave, Nothing, ExecutorInv, TypeOK
  <2>6. QED BY <2>2, <2>3, <2>5 DEF Leave
<1>3. TypeOK'
  BY <1>1, <1>2, ExecutorAssumption DEF TypeOK, ExecutorInv, Leave, Phases, Nothing
<1>4. CallAudited'
  BY <1>2 DEF CallAudited
<1>5. LocalsAgree'
  BY <1>2, ExecutorAssumption DEF LocalsAgree, ResourcesReleased, Leave, Nothing
<1>6. RunningIsAllowed'
  BY <1>2 DEF RunningIsAllowed
<1>7. QED BY <1>3, <1>4, <1>5, <1>6 DEF ExecutorInv

(* The steps on which the call goes on. *)
LEMMA AdmitKeeps ==
  ASSUME ExecutorInv, Admit PROVE ExecutorInv'
<1>1. UNCHANGED registryVars
  BY DEF Admit
<1>2. TypeOK'
  BY <1>1, PolicyStable, ExecutorAssumption
  DEF Admit, ExecutorInv, TypeOK, CallAudited, LocalsAgree, ResourcesReleased, Due, Goto,
      Phases, hostVars
<1>3. CallAudited' /\ LocalsAgree'
  BY DEF Admit, ExecutorInv, TypeOK, CallAudited, LocalsAgree, ResourcesReleased, Due, Goto
<1>4. RunningIsAllowed'
  <2>1. request \in Requests /\ request' = request /\ Refusal(request) = None
    BY DEF Admit, ExecutorInv, CallAudited
  <2>2. <<request'.module, request'.function>> \in GenerateSystemPolicy'
    BY <1>1, <2>1, AdmissionIsPolicy, PolicyStable
  <2>3. QED BY <2>2 DEF RunningIsAllowed
<1>5. QED BY <1>2, <1>3, <1>4 DEF ExecutorInv

LEMMA LoadFromCacheKeeps ==
  ASSUME ExecutorInv, LoadFromCache PROVE ExecutorInv'
<1>1. UNCHANGED registryVars
  BY DEF LoadFromCache
<1>2. TypeOK'
  BY <1>1, PolicyStable, ExecutorAssumption
  DEF LoadFromCache, ExecutorInv, TypeOK, CallAudited, LocalsAgree, ResourcesReleased,
      Due, Goto, Phases, hostVars
<1>3. CallAudited' /\ LocalsAgree'
  BY ExecutorAssumption
  DEF LoadFromCache, ExecutorInv, TypeOK, CallAudited, LocalsAgree, ResourcesReleased,
      Due, Goto
<1>4. RunningIsAllowed'
  BY <1>1, PolicyStable DEF LoadFromCache, ExecutorInv, RunningIsAllowed, Goto
<1>5. QED BY <1>2, <1>3, <1>4 DEF ExecutorInv

LEMMA LoadFromDiskKeeps ==
  ASSUME ExecutorInv, LoadFromDisk PROVE ExecutorInv'
<1>1. UNCHANGED registryVars
  BY DEF LoadFromDisk
<1>2. request.module \in Names /\ disk[ModuleFile] \in Blobs
  BY DEF LoadFromDisk, ExecutorInv, CallAudited, Requests
<1>3. /\ DOMAIN cache' = DOMAIN cache \cup {request.module}
      /\ \A k \in DOMAIN cache' : cache'[k] \in Blobs
  BY <1>2 DEF LoadFromDisk, ExecutorInv, TypeOK
<1>4. DOMAIN cache' \subseteq Names /\ cache' \in [DOMAIN cache' -> Blobs]
  BY <1>2, <1>3 DEF LoadFromDisk, ExecutorInv, TypeOK
<1>5. TypeOK'
  BY <1>1, <1>2, <1>4, PolicyStable
  DEF LoadFromDisk, ExecutorInv, TypeOK, Goto, Phases, hostVars
<1>6. CallAudited' /\ LocalsAgree'
  BY <1>2, ExecutorAssumption
  DEF LoadFromDisk, ExecutorInv, TypeOK, CallAudited, LocalsAgree, ResourcesReleased, Due,
      Goto
<1>7. RunningIsAllowed'
  BY <1>1, PolicyStable DEF LoadFromDisk, ExecutorInv, RunningIsAllowed, Goto
<1>8. QED BY <1>5, <1>6, <1>7 DEF ExecutorInv

LEMMA CreateStoreKeeps ==
  ASSUME ExecutorInv, CreateStore PROVE ExecutorInv'
<1>1. UNCHANGED registryVars
  BY DEF CreateStore
<1>2. TypeOK'
  BY <1>1, PolicyStable, ExecutorAssumption
  DEF CreateStore, ExecutorInv, TypeOK, Goto, Phases, hostVars
<1>3. CallAudited' /\ LocalsAgree'
  BY DEF CreateStore, ExecutorInv, TypeOK, CallAudited, LocalsAgree, ResourcesReleased,
      Due, Goto
<1>4. RunningIsAllowed'
  BY <1>1, PolicyStable DEF CreateStore, ExecutorInv, RunningIsAllowed, Goto
<1>5. QED BY <1>2, <1>3, <1>4 DEF ExecutorInv

LEMMA SetFuelKeeps ==
  ASSUME ExecutorInv, SetFuel PROVE ExecutorInv'
<1>1. UNCHANGED registryVars
  BY DEF SetFuel
<1>2. TypeOK'
  BY <1>1, PolicyStable, ExecutorAssumption
  DEF SetFuel, ExecutorInv, TypeOK, Goto, Phases, hostVars
<1>3. CallAudited' /\ LocalsAgree'
  BY DEF SetFuel, ExecutorInv, TypeOK, CallAudited, LocalsAgree, ResourcesReleased, Due,
      Goto
<1>4. RunningIsAllowed'
  BY <1>1, PolicyStable DEF SetFuel, ExecutorInv, RunningIsAllowed, Goto
<1>5. QED BY <1>2, <1>3, <1>4 DEF ExecutorInv

LEMMA GuestRunsKeeps ==
  ASSUME ExecutorInv, GuestRuns PROVE ExecutorInv'
<1>1. UNCHANGED registryVars
  BY DEF GuestRuns
<1>2. TypeOK'
  BY <1>1, PolicyStable, ExecutorAssumption
  DEF GuestRuns, ExecutorInv, TypeOK, CallAudited, LocalsAgree, ResourcesReleased, Due,
      Goto, Phases, hostVars, GuestPhases, Burn
<1>3. CallAudited' /\ LocalsAgree'
  BY DEF GuestRuns, ExecutorInv, TypeOK, CallAudited, LocalsAgree, ResourcesReleased, Due,
      Goto, GuestPhases, Burn
<1>4. RunningIsAllowed'
  BY <1>1, PolicyStable DEF GuestRuns, ExecutorInv, RunningIsAllowed, Goto, GuestPhases,
      Burn
<1>5. QED BY <1>2, <1>3, <1>4 DEF ExecutorInv

LEMMA InstantiateKeeps ==
  ASSUME ExecutorInv, Instantiate PROVE ExecutorInv'
<1>1. UNCHANGED registryVars
  BY DEF Instantiate
<1>2. TypeOK'
  BY <1>1, PolicyStable, ExecutorAssumption
  DEF Instantiate, ExecutorInv, TypeOK, CallAudited, LocalsAgree, ResourcesReleased, Due,
      Goto, Phases, hostVars
<1>3. CallAudited' /\ LocalsAgree'
  BY DEF Instantiate, ExecutorInv, TypeOK, CallAudited, LocalsAgree, ResourcesReleased,
      Due, Goto
<1>4. RunningIsAllowed'
  BY <1>1, PolicyStable DEF Instantiate, ExecutorInv, RunningIsAllowed, Goto
<1>5. QED BY <1>2, <1>3, <1>4 DEF ExecutorInv

LEMMA AllocReturnsKeeps ==
  ASSUME ExecutorInv, AllocReturns PROVE ExecutorInv'
<1>1. UNCHANGED registryVars
  BY DEF AllocReturns
<1>2. TypeOK'
  BY <1>1, PolicyStable, ExecutorAssumption
  DEF AllocReturns, ExecutorInv, TypeOK, CallAudited, LocalsAgree, ResourcesReleased, Due,
      Goto, Phases, hostVars, Block, Requests
<1>3. CallAudited' /\ LocalsAgree'
  <2>1. payload' \in Block
    BY ExecutorAssumption DEF AllocReturns, ExecutorInv, CallAudited, Block, Requests
  <2>2. QED
    BY <2>1, ExecutorAssumption DEF AllocReturns, ExecutorInv, TypeOK, CallAudited,
        LocalsAgree, ResourcesReleased, Due, Goto
<1>4. RunningIsAllowed'
  BY <1>1, PolicyStable DEF AllocReturns, ExecutorInv, RunningIsAllowed, Goto, Block,
      Requests
<1>5. QED BY <1>2, <1>3, <1>4 DEF ExecutorInv

LEMMA WritePayloadKeeps ==
  ASSUME ExecutorInv, WritePayload PROVE ExecutorInv'
<1>1. UNCHANGED registryVars
  BY DEF WritePayload
<1>2. TypeOK'
  BY <1>1, PolicyStable, ExecutorAssumption
  DEF WritePayload, ExecutorInv, TypeOK, CallAudited, LocalsAgree, ResourcesReleased, Due,
      Goto, Phases, hostVars, InBounds
<1>3. CallAudited' /\ LocalsAgree'
  BY DEF WritePayload, ExecutorInv, TypeOK, CallAudited, LocalsAgree, ResourcesReleased,
      Due, Goto, InBounds
<1>4. RunningIsAllowed'
  BY <1>1, PolicyStable DEF WritePayload, ExecutorInv, RunningIsAllowed, Goto, InBounds
<1>5. QED BY <1>2, <1>3, <1>4 DEF ExecutorInv

LEMMA InvokeReturnsKeeps ==
  ASSUME ExecutorInv, InvokeReturns PROVE ExecutorInv'
<1>1. UNCHANGED registryVars
  BY DEF InvokeReturns
<1>2. TypeOK'
  BY <1>1, PolicyStable, ExecutorAssumption
  DEF InvokeReturns, ExecutorInv, TypeOK, CallAudited, LocalsAgree, ResourcesReleased,
      Due, Goto, Phases, hostVars, Block
<1>3. CallAudited' /\ LocalsAgree'
  BY ExecutorAssumption
  DEF InvokeReturns, ExecutorInv, TypeOK, CallAudited, LocalsAgree, ResourcesReleased,
      Due, Goto
<1>4. RunningIsAllowed'
  BY <1>1, PolicyStable DEF InvokeReturns, ExecutorInv, RunningIsAllowed, Goto, Block
<1>5. QED BY <1>2, <1>3, <1>4 DEF ExecutorInv

(* What settles the outcome and hands a block to the guest's free. *)
ToFree == WriteRefused \/ InvokeFails \/ ResultOutOfBounds \/ OutputTooLarge \/ ReadResult

LEMMA ToFreeFrees ==
  ASSUME ExecutorInv, ToFree
  PROVE  /\ pc \in {"write", "invoke", "read"} /\ pc' = "free"
         /\ UNCHANGED <<registryVars, hostVars, request, module, live, fuel, memory,
                        payload, result, audit, returned>>
         /\ freed' = Due /\ payload \in Block
         /\ outcome' \in Outcomes
         /\ view' \in 0..MaxMemory
         /\ \/ touched' = None
            \/ /\ touched' = [block |-> result, view |-> memory] /\ result \in Block
               /\ result.ptr + result.len <= memory
<1>1. freed = <<>> /\ \A b : Append(<<>>, b) = <<b>>
  BY DEF ExecutorInv, LocalsAgree, ResourcesReleased, Due, ToFree, WriteRefused,
      InvokeFails, ResultOutOfBounds,
         OutputTooLarge, ReadResult
<1> USE DEF ExecutorInv, LocalsAgree, ResourcesReleased, Due, TypeOK, CleanupAndFree, Goto, Due
<1>2. CASE WriteRefused
  BY <1>1, <1>2, ExecutorAssumption DEF WriteRefused, Outcomes, ExecutionErrors
<1>3. CASE InvokeFails
  BY <1>1, <1>3, ExecutorAssumption
  DEF InvokeFails, InvokeErrors, Outcomes, ExecutionErrors
<1>4. CASE ResultOutOfBounds \/ OutputTooLarge
  BY <1>1, <1>4, ExecutorAssumption
  DEF ResultOutOfBounds, OutputTooLarge, Outcomes, ExecutionErrors
<1>5. CASE ReadResult
  BY <1>1, <1>5, ExecutorAssumption DEF ReadResult, Outcomes, InBounds, ResultView
<1>6. QED BY <1>2, <1>3, <1>4, <1>5 DEF ToFree

LEMMA ToFreeKeeps ==
  ASSUME ExecutorInv, ToFree PROVE ExecutorInv'
<1>1. /\ pc \in {"write", "invoke", "read"} /\ pc' = "free"
      /\ UNCHANGED <<registryVars, hostVars, request, module, live, fuel, memory,
                     payload, result, audit, returned>>
      /\ freed' = Due /\ payload \in Block
      /\ outcome' \in Outcomes
      /\ view' \in 0..MaxMemory
      /\ \/ touched' = None
         \/ /\ touched' = [block |-> result, view |-> memory] /\ result \in Block
            /\ result.ptr + result.len <= memory
  BY ToFreeFrees
<1>2. freed' \in Seq(Block)
  BY <1>1, ExecutorAssumption DEF Due, ExecutorInv, TypeOK
<1>3. TypeOK'
  BY <1>1, <1>2, PolicyStable DEF ExecutorInv, TypeOK, Phases, hostVars
<1>4. CallAudited'
  BY <1>1 DEF ExecutorInv, CallAudited
<1>5. LocalsAgree'
  BY <1>1, ExecutorAssumption DEF ExecutorInv, LocalsAgree, ResourcesReleased, Due
<1>6. RunningIsAllowed'
  BY <1>1, PolicyStable DEF ExecutorInv, RunningIsAllowed
<1>7. QED BY <1>3, <1>4, <1>5, <1>6 DEF ExecutorInv

(* The ways out of Execute, each with an outcome to log and nothing left   *)
(* undeleted.                                                              *)
Exit ==
  \/ Refuse \/ LoadFails \/ SetFuelFails
  \/ InstantiateFails \/ ExportMissing \/ InputTooLarge
  \/ AllocFails \/ FreeReturns

LEMMA ExitLeaves ==
  ASSUME ExecutorInv, Exit
  PROVE  /\ pc # "idle"
         /\ UNCHANGED <<registryVars, disk, freed>>
         /\ DOMAIN cache' \subseteq Names
         /\ cache' \in [DOMAIN cache' -> Blobs]
         /\ \E o \in Outcomes : Leave(o, live)
<1> DEFINE Kept == /\ pc # "idle"
                   /\ UNCHANGED <<registryVars, disk, freed>>
                   /\ DOMAIN cache' \subseteq Names
                   /\ cache' \in [DOMAIN cache' -> Blobs]
           Left == \E o \in Outcomes : Leave(o, live)
<1>0. live = [store |-> live.store, linker |-> live.linker]
  BY DEF ExecutorInv, TypeOK
<1>1. CASE Refuse
  <2>1. Refusal(request) \in Outcomes
    BY <1>1 DEF Refuse, Refusal, Outcomes, ExecutionErrors
  <2>2. DOMAIN cache' \subseteq Names /\ cache' \in [DOMAIN cache' -> Blobs]
    BY <1>1 DEF Refuse, CacheWithout, ExecutorInv, TypeOK
  <2>3. live = Nothing /\ pc # "idle"
    BY <1>0, <1>1 DEF Refuse, ExecutorInv, LocalsAgree, ResourcesReleased, Due, Nothing
  <2>4. QED BY <1>1, <2>1, <2>2, <2>3 DEF Refuse
<1>2. CASE LoadFails
  <2>1. live = Nothing /\ Kept
    BY <1>0, <1>2 DEF LoadFails, ExecutorInv, TypeOK, LocalsAgree, ResourcesReleased,
                      Nothing, hostVars
  <2>2. LoadErrors(disk[ModuleFile]) \subseteq Outcomes
    <3>1. disk[ModuleFile] \in FileContents
      BY <1>2, RunningModule DEF LoadFails, ExecutorInv, TypeOK
    <3>2. QED BY <3>1 DEF FileContents, LoadErrors, Outcomes, ExecutionErrors
  <2>3. Left
    BY <1>2, <2>1, <2>2 DEF LoadFails
  <2>4. QED BY <2>1, <2>3
<1>3. CASE SetFuelFails
  <2>1. live = StoreOnly /\ Kept
    BY <1>0, <1>3 DEF SetFuelFails, ExecutorInv, TypeOK, LocalsAgree, ResourcesReleased,
                      StoreOnly, hostVars
  <2>2. Left
    BY <1>3, <2>1 DEF SetFuelFails, Outcomes, ExecutionErrors
  <2>3. QED BY <2>1, <2>2
<1>4. CASE \/ InstantiateFails \/ ExportMissing \/ InputTooLarge
           \/ AllocFails \/ FreeReturns
  <2>1. live = StoreAndLinker /\ Kept
    BY <1>0, <1>4
    DEF InstantiateFails, ExportMissing, InputTooLarge, AllocFails, FreeReturns,
        ExecutorInv, TypeOK, LocalsAgree, ResourcesReleased, Due, StoreAndLinker, hostVars
  <2>2. FreeReturns => outcome \in Outcomes
    BY DEF FreeReturns, ExecutorInv, TypeOK, LocalsAgree
  <2>3. Left
    BY <1>4, <2>1, <2>2
    DEF InstantiateFails, ExportMissing, InputTooLarge, AllocFails, FreeReturns,
        Outcomes, ExecutionErrors
  <2>4. QED BY <2>1, <2>3
<1>5. QED BY <1>1, <1>2, <1>3, <1>4 DEF Exit

LEMMA ExitKeeps ==
  ASSUME ExecutorInv, Exit PROVE ExecutorInv'
BY ExitLeaves, LeaveRestores

(* The outcome of an exit is in the audit trail when the call is over. *)
LEMMA ExitAudited ==
  ASSUME ExecutorInv, Exit
  PROVE  \E o \in Outcomes : audit' = <<"start", o>> /\ returned' = o /\ pc' = "idle"
<1>1. audit = <<"start">>
  BY ExitLeaves DEF ExecutorInv, CallAudited
<1>2. QED BY <1>1, ExitLeaves, AppendToOne DEF Leave

LEMMA CallStepKeeps ==
  ASSUME ExecutorInv, CallStep PROVE ExecutorInv'
BY AdmitKeeps, LoadFromCacheKeeps, LoadFromDiskKeeps, CreateStoreKeeps, SetFuelKeeps,
   GuestRunsKeeps, InstantiateKeeps, AllocReturnsKeeps, WritePayloadKeeps,
   InvokeReturnsKeeps, ToFreeKeeps, ExitKeeps
DEF CallStep, Exit, ToFree

(* The start of a call, and what happens around calls. *)
LEMMA ExecuteKeeps ==
  ASSUME ExecutorInv, NEW r \in Requests, Execute(r) PROVE ExecutorInv'
<1>1. RegistryTypeOK'
  BY PolicyStable DEF Execute, ExecutorInv, TypeOK
<1>2. TypeOK'
  BY <1>1 DEF Execute, ExecutorInv, TypeOK, Goto, Phases, hostVars
<1>3. CallAudited' /\ LocalsAgree' /\ RunningIsAllowed'
  BY DEF Execute, ExecutorInv, CallAudited, LocalsAgree, ResourcesReleased, Due,
      RunningIsAllowed, Goto
<1>4. QED BY <1>2, <1>3 DEF ExecutorInv

LEMMA OwnerKeeps ==
  ASSUME ExecutorInv, ReloadManifest \/ Revoke \/ ClearCache PROVE ExecutorInv'
<1>1. pc = "idle" /\ UNCHANGED callVars /\ UNCHANGED disk
  BY DEF ReloadManifest, Revoke, ClearCache, hostVars
<1>2. RegistryTypeOK'
  BY LoadManifestType, RevokeModuleType, PolicyStable
  DEF ReloadManifest, Revoke, ClearCache, ExecutorInv, TypeOK
<1>3. DOMAIN cache' \subseteq Names /\ cache' \in [DOMAIN cache' -> Blobs]
  BY DEF ReloadManifest, Revoke, ClearCache, NoModules, ExecutorInv, TypeOK, hostVars
<1>4. TypeOK'
  BY <1>1, <1>2, <1>3 DEF ExecutorInv, TypeOK, callVars
<1>5. CallAudited' /\ LocalsAgree' /\ RunningIsAllowed'
  BY <1>1 DEF ExecutorInv, CallAudited, LocalsAgree, ResourcesReleased, Due,
      RunningIsAllowed, callVars
<1>6. QED BY <1>4, <1>5 DEF ExecutorInv

LEMMA ReplaceFileKeeps ==
  ASSUME ExecutorInv, ReplaceFile PROVE ExecutorInv'
<1>1. RegistryTypeOK' /\ GenerateSystemPolicy' = GenerateSystemPolicy
  BY PolicyStable DEF ReplaceFile, ExecutorInv, TypeOK
<1>2. disk' \in [Paths -> FileContents]
  BY DEF ReplaceFile, ExecutorInv, TypeOK
<1>3. TypeOK'
  BY <1>1, <1>2 DEF ReplaceFile, ExecutorInv, TypeOK, callVars
<1>4. CallAudited' /\ LocalsAgree' /\ RunningIsAllowed'
  BY <1>1 DEF ReplaceFile, ExecutorInv, CallAudited, LocalsAgree, ResourcesReleased, Due,
      RunningIsAllowed, callVars
<1>5. QED BY <1>3, <1>4 DEF ExecutorInv

LEMMA StutterKeeps ==
  ASSUME ExecutorInv, UNCHANGED vars PROVE ExecutorInv'
<1>1. RegistryTypeOK' /\ GenerateSystemPolicy' = GenerateSystemPolicy
  BY PolicyStable DEF vars, ExecutorInv, TypeOK
<1>2. TypeOK'
  BY <1>1 DEF ExecutorInv, TypeOK, vars, callVars, hostVars
<1>3. CallAudited' /\ LocalsAgree' /\ RunningIsAllowed'
  BY <1>1 DEF ExecutorInv, CallAudited, LocalsAgree, ResourcesReleased, Due,
      RunningIsAllowed, vars, callVars
<1>4. QED BY <1>2, <1>3 DEF ExecutorInv

LEMMA InvPreserved == ExecutorInv /\ [Next]_vars => ExecutorInv'
BY CallStepKeeps, ExecuteKeeps, OwnerKeeps, ReplaceFileKeeps, StutterKeeps
DEF Next, WiredNext

LEMMA InvInitially ==
  ASSUME RegistryTypeOK, ExecutorInit PROVE ExecutorInv
<1>1. TypeOK
  BY ExecutorAssumption DEF ExecutorInit, TypeOK, NoModules, Phases, Nothing
<1>2. CallAudited /\ LocalsAgree /\ RunningIsAllowed
  BY DEF ExecutorInit, CallAudited, LocalsAgree, ResourcesReleased, Nothing,
      RunningIsAllowed
<1>3. QED BY <1>1, <1>2 DEF ExecutorInv

LEMMA ExecutorInvariant == Spec => []ExecutorInv
<1>1. Init => ExecutorInv
  BY RegistryInitType, InvInitially DEF Init
<1>2. QED BY <1>1, InvPreserved, PTL DEF Spec

-----------------------------------------------------------------------------
(* Type correctness of the executor and the registry under it. *)
THEOREM ExecutorTypeCorrect == Spec => []TypeOK
<1>1. ExecutorInv => TypeOK
  BY DEF ExecutorInv
<1>2. QED BY ExecutorInvariant, <1>1, PTL

(* From admission to return, a call runs only what the system policy       *)
(* allows, through every revocation and reload.                            *)
THEOREM OnlyAllowedRuns == Spec => []RunningIsAllowed
<1>1. ExecutorInv => RunningIsAllowed
  BY DEF ExecutorInv
<1>2. QED BY ExecutorInvariant, <1>1, PTL

(* The checks of Execute and the filter of GenerateSystemPolicy are two    *)
(* copies of one rule, up to the pattern of a name and the empty function. *)
THEOREM AdmissionIsThePolicy == Spec => []AdmissionMatchesPolicy
<1>1. ASSUME NEW n \in Names, NEW f \in Functions, NEW size \in PayloadSizes
      PROVE  Refusal([module |-> n, function |-> f, size |-> size]) = None
               <=> <<n, f>> \in GenerateSystemPolicy /\ n \in RegexNames /\ f # EmptyFunction
  <2> DEFINE r == [module |-> n, function |-> f, size |-> size]
  <2>1. r \in Requests /\ r.module = n /\ r.function = f
    BY DEF Requests
  <2> HIDE DEF r
  <2>2. CASE <<n, f>> \in GenerateSystemPolicy /\ n \in RegexNames /\ f # EmptyFunction
    <3>1. PreFlightCheck(r) /\ Trusted(n) /\ AbiCompatible(n)
      BY <2>1, <2>2, PolicyMember, ExecutorAssumption DEF PreFlightCheck, Trusted
    <3>2. Refusal(r) = None
      BY <2>1, <2>2, <3>1 DEF Refusal
    <3>3. QED BY <2>2, <3>2 DEF r
  <2>3. CASE Refusal(r) = None
    <3>1. <<n, f>> \in GenerateSystemPolicy
      BY <2>1, <2>3, AdmissionIsPolicy
    <3>2. PreFlightCheck(r) /\ n \in RegexNames
      BY <2>1, <2>3, ExecutorAssumption DEF Refusal, Outcomes, ExecutionErrors
    <3>3. QED BY <2>1, <2>3, <3>1, <3>2 DEF PreFlightCheck, r
  <2>4. QED BY <2>2, <2>3 DEF r
<1>2. ExecutorInv => AdmissionMatchesPolicy
  BY <1>1 DEF AdmissionMatchesPolicy
<1>3. QED BY ExecutorInvariant, <1>2, PTL

(* The host touches guest memory only inside its present bounds.           *)
THEOREM HostStaysInBounds == Spec => []HostAccessInBounds
<1>1. ExecutorInv => HostAccessInBounds
  BY DEF ExecutorInv, LocalsAgree, HostAccessInBounds
<1>2. QED BY ExecutorInvariant, <1>1, PTL

(* Store and linker do not outlive a call, whichever exit it takes.        *)
THEOREM NothingLeaks == Spec => []ResourcesReleased
<1>1. ExecutorInv => ResourcesReleased
  BY DEF ExecutorInv, LocalsAgree, ResourcesReleased
<1>2. QED BY ExecutorInvariant, <1>1, PTL

(* Each exit hands back the block of its phase, and no call hands back two. *)
THEOREM BlocksFreedOnce == Spec => FreedExactlyOnce
<1> DEFINE DueBlock == CASE result # None -> <<result>>
                         [] result = None /\ payload # None -> <<payload>>
                         [] OTHER -> <<>>
<1>1. ASSUME ExecutorInv, Next, pc # "idle", pc' = "idle" PROVE freed' = DueBlock
  <2>1. Exit
    BY <1>1, ToFreeFrees
    DEF Next, WiredNext, Execute, ReloadManifest, Revoke, ClearCache, ReplaceFile, callVars,
        CallStep, Exit, ToFree, Admit, LoadFromCache, LoadFromDisk, CreateStore, SetFuel,
        GuestRuns, Instantiate, AllocReturns, WritePayload, InvokeReturns, Goto
  <2>2. freed' = freed
    BY <1>1, <2>1, ExitLeaves
  <2>3. CASE FreeReturns
    BY <1>1, <2>2, <2>3 DEF FreeReturns, ExecutorInv, LocalsAgree, Due
  <2>4. CASE ~FreeReturns
    <3>1. pc \notin {"write", "invoke", "read", "free"}
      BY <1>1, <2>1, <2>4
      DEF Exit, Refuse, LoadFails, SetFuelFails, InstantiateFails, ExportMissing,
          InputTooLarge, AllocFails
    <3>2. result = None /\ payload = None /\ freed = <<>>
      BY <1>1, <3>1 DEF ExecutorInv, TypeOK, LocalsAgree
    <3>3. QED BY <2>2, <3>2
  <2>5. QED BY <2>3, <2>4
<1>2. ASSUME ExecutorInv, [Next]_vars
      PROVE  [pc # "idle" /\ pc' = "idle" => freed' = DueBlock]_vars
  BY <1>1, <1>2
<1>3. QED BY ExecutorInvariant, <1>2, PTL DEF Spec, FreedExactlyOnce

(* Bytes enter the cache verified, and leave it before others take their   *)
(* place.                                                                  *)
LEMMA CacheChanges ==
  ASSUME ExecutorInv, Next, NEW n \in DOMAIN cache'
  PROVE  /\ n \notin DOMAIN cache =>
              Trusted(n) /\ Sha256[cache'[n]] = tracked_modules[n].sha256
         /\ n \in DOMAIN cache => cache'[n] = cache[n]
<1>1. CASE LoadFromDisk
  BY <1>1, RunningModule DEF LoadFromDisk, ChecksumMatches
<1>2. CASE Refuse
  BY <1>2 DEF Refuse, CacheWithout
<1>3. CASE ClearCache
  BY <1>3 DEF ClearCache, NoModules
<1>4. CASE ~LoadFromDisk /\ ~Refuse /\ ~ClearCache
  BY <1>4
  DEF Next, WiredNext, CallStep, Execute, ReloadManifest, Revoke, ReplaceFile, hostVars,
      Admit, LoadFromCache, LoadFails, SetFuelFails,
      CreateStore, SetFuel, GuestRuns, InstantiateFails, ExportMissing, InputTooLarge,
      Instantiate, AllocFails, AllocReturns, WriteRefused, WritePayload, InvokeFails,
      InvokeReturns, ResultOutOfBounds, OutputTooLarge, ReadResult, FreeReturns
<1>5. QED BY <1>1, <1>2, <1>3, <1>4

THEOREM CacheIsVerified == Spec => OnlyVerifiedBytesEnterCache
<1> DEFINE Entered == \A n \in DOMAIN cache' :
                        /\ n \notin DOMAIN cache =>
                             Trusted(n) /\ Sha256[cache'[n]] = tracked_modules[n].sha256
                        /\ n \in DOMAIN cache => cache'[n] = cache[n]
<1>1. ASSUME ExecutorInv, [Next]_vars PROVE [Entered]_vars
  BY <1>1, CacheChanges
<1>2. QED BY ExecutorInvariant, <1>1, PTL DEF Spec, OnlyVerifiedBytesEnterCache

-----------------------------------------------------------------------------
(* Without a reload the digest a module was verified against stays the one *)
(* the registry demands: a revocation only takes trust away.               *)
CacheAgrees ==
  \A n \in DOMAIN cache :
    n \in DOMAIN tracked_modules /\ Sha256[cache[n]] = tracked_modules[n].sha256

WiredInv == ExecutorInv /\ CacheAgrees /\ VerifiedExecution

LEMMA WiredRegistryStable ==
  ASSUME ExecutorInv, WiredNext \/ UNCHANGED vars
  PROVE  /\ DOMAIN tracked_modules' = DOMAIN tracked_modules
         /\ \A n \in DOMAIN tracked_modules :
              tracked_modules'[n].sha256 = tracked_modules[n].sha256
         /\ UNCHANGED tracked_modules \/ Revoke
<1>1. CASE Revoke
  <2>1. PICK m \in DOMAIN tracked_modules :
          tracked_modules' = [tracked_modules EXCEPT ![m].trusted = FALSE]
    BY <1>1 DEF Revoke, RevokeModule
  <2>2. [tracked_modules[m] EXCEPT !.trusted = FALSE].sha256 = tracked_modules[m].sha256
    BY DEF ExecutorInv, TypeOK, RegistryTypeOK, RegisteredModule
  <2>3. tracked_modules \in [DOMAIN tracked_modules -> RegisteredModule]
    BY DEF ExecutorInv, TypeOK, RegistryTypeOK
  <2>4. QED BY <1>1, <2>1, <2>2, <2>3
<1>2. CASE ~Revoke
  <2>1. UNCHANGED tracked_modules
    BY <1>2
    DEF WiredNext, vars, registryVars, CallStep, Execute, ClearCache, ReplaceFile,
        Refuse, Admit, LoadFromCache, LoadFromDisk, LoadFails, SetFuelFails,
        CreateStore, SetFuel, GuestRuns, InstantiateFails, ExportMissing, InputTooLarge,
        Instantiate, AllocFails, AllocReturns, WriteRefused, WritePayload, InvokeFails,
        InvokeReturns, ResultOutOfBounds, OutputTooLarge, ReadResult, FreeReturns
  <2>2. QED BY <2>1
<1>3. QED BY <1>1, <1>2

LEMMA WiredStep ==
  ASSUME WiredInv, [WiredNext]_vars PROVE WiredInv'
<1>1. ExecutorInv'
  BY InvPreserved DEF WiredInv, Next
<1>2. CacheAgrees'
  <2>1. CASE UNCHANGED vars
    BY <2>1 DEF WiredInv, CacheAgrees, vars, hostVars, registryVars
  <2>2. CASE WiredNext
    <3>1. ASSUME NEW n \in DOMAIN cache'
          PROVE  /\ n \in DOMAIN tracked_modules
                 /\ Sha256[cache'[n]] = tracked_modules[n].sha256
      BY <2>2, CacheChanges DEF WiredInv, CacheAgrees, Next, Trusted
    <3>2. QED BY <2>2, <3>1, WiredRegistryStable DEF WiredInv, CacheAgrees
  <2>3. QED BY <2>1, <2>2
<1>3. VerifiedExecution'
  <2> SUFFICES ASSUME module' # None
               PROVE  Sha256[module'] = tracked_modules'[request'.module].sha256
    BY DEF VerifiedExecution
  <2>1. CASE LoadFromCache \/ LoadFromDisk
    BY <2>1 DEF LoadFromCache, LoadFromDisk, ChecksumMatches, WiredInv, CacheAgrees,
                registryVars
  <2>2. CASE ~LoadFromCache /\ ~LoadFromDisk
    <3>1. pc # "idle" /\ pc # "admit" /\ UNCHANGED <<module, request>>
      BY <2>2 DEF WiredInv, ExecutorInv, LocalsAgree, WiredNext, vars, callVars,
          CallStep, Execute,
        Revoke, ClearCache, ReplaceFile,
        Refuse, Admit, LoadFails, SetFuelFails,
        CreateStore, SetFuel, GuestRuns, InstantiateFails, ExportMissing, InputTooLarge,
        Instantiate, AllocFails, AllocReturns, WriteRefused, WritePayload, InvokeFails,
        InvokeReturns, ResultOutOfBounds, OutputTooLarge, ReadResult, FreeReturns, Leave
    <3>2. request.module \in DOMAIN tracked_modules
      BY <3>1, RunningModule DEF WiredInv
    <3>3. QED BY <3>1, <3>2, WiredRegistryStable DEF WiredInv, VerifiedExecution
  <2>3. QED BY <2>1, <2>2
<1>4. QED BY <1>1, <1>2, <1>3 DEF WiredInv

(* In the program as main.cpp wires it, a call never runs bytes other than *)
(* the ones whose digest the registry holds, though files change at any    *)
(* time.  (With a reload in between it may: see the run MCWasmReload.)     *)
THEOREM WiredProgramIsVerified == WiredSpec => []VerifiedExecution
<1>1. WiredInit => WiredInv
  <2> SUFFICES ASSUME WiredInit PROVE WiredInv
    OBVIOUS
  <2>1. PICK doc \in Documents :
          /\ Readable(doc)
          /\ ReadableNames(doc) = DOMAIN doc.modules
          /\ tracked_modules = [n \in DOMAIN doc.modules |-> Profile(doc.modules[n])]
          /\ origin = doc.modules
    BY DEF WiredInit
  <2>2. tracked_modules = ParsedModules(doc)
    BY <2>1 DEF ParsedModules
  <2>3. RegistryTypeOK
    BY <2>1, <2>2, ParsedType DEF WiredInit, RegistryTypeOK
  <2>4. ExecutorInv
    BY <2>3, InvInitially DEF WiredInit
  <2>5. CacheAgrees /\ VerifiedExecution
    BY DEF WiredInit, ExecutorInit, NoModules, CacheAgrees, VerifiedExecution
  <2>6. QED BY <2>4, <2>5 DEF WiredInv
<1>2. WiredInv => VerifiedExecution
  BY DEF WiredInv
<1>3. QED BY <1>1, <1>2, WiredStep, PTL DEF WiredSpec

(* A refusal for lack of trust or a foreign ABI leaves nothing cached.     *)
THEOREM RefusalsEvict == Spec => RefusalEvicts
<1> DEFINE Evicted == pc = "admit" /\ pc' = "idle"
                      /\ returned' \in {"UntrustedModule", "ModuleLoadError"}
                        => request.module \notin DOMAIN cache'
<1>1. ASSUME ExecutorInv, [Next]_vars PROVE [Evicted]_vars
  <2> SUFFICES ASSUME Next, pc = "admit", pc' = "idle",
                      returned' \in {"UntrustedModule", "ModuleLoadError"}
               PROVE  request.module \notin DOMAIN cache'
    BY <1>1
  <2>1. CASE Refuse
    BY <2>1 DEF Refuse, Leave, Evicting, CacheWithout
  <2>2. ~Refuse => pc' = pc \/ pc' = "load"
    BY DEF Next, WiredNext, CallStep, Execute, ReloadManifest, Revoke, ClearCache,
        ReplaceFile, callVars, Goto,
        Admit, LoadFromCache, LoadFromDisk, LoadFails, SetFuelFails,
        CreateStore, SetFuel, GuestRuns, InstantiateFails, ExportMissing, InputTooLarge,
        Instantiate, AllocFails, AllocReturns, WriteRefused, WritePayload, InvokeFails,
        InvokeReturns, ResultOutOfBounds, OutputTooLarge, ReadResult, FreeReturns
  <2>3. QED BY <2>1, <2>2
<1>2. QED BY ExecutorInvariant, <1>1, PTL DEF Spec, RefusalEvicts

-----------------------------------------------------------------------------
(* The executor seen through its audit trail.                              *)
AuditedOpen == IF Len(audit) = 1 THEN request ELSE None
AuditedOutcome == IF Len(audit) = 2 THEN audit[2] ELSE None

LEMMA IdleIsClosed ==
  ASSUME CallAudited, pc = "idle"
  PROVE  AuditedOpen = None /\ AuditedOutcome = returned
BY DEF CallAudited, AuditedOpen, AuditedOutcome

LEMMA RunningIsOpen ==
  ASSUME CallAudited, pc # "idle"
  PROVE  /\ AuditedOpen = request /\ request \in Requests /\ request # None
         /\ AuditedOutcome = None /\ returned = None
BY ExecutorAssumption DEF CallAudited, AuditedOpen, AuditedOutcome

(* A step of the executor is the return of the abstract call, its start,   *)
(* or none of the kernel's business.                                       *)
LEMMA ContractStep ==
  ASSUME ExecutorInv, [Next]_vars PROVE [Contract!Next]_(Contract!vars)
<1>1. CallAudited /\ CallAudited'
  BY InvPreserved DEF ExecutorInv
<1>2. ASSUME Exit PROVE \E o \in Outcomes : Contract!Return(o)
  <2>1. pc # "idle"
    BY <1>2, ExitLeaves
  <2>2. PICK o \in Outcomes : audit' = <<"start", o>> /\ returned' = o
    BY <1>2, ExitAudited
  <2>3. AuditedOpen' = None /\ AuditedOutcome' = o
    BY <2>2 DEF AuditedOpen, AuditedOutcome
  <2>4. QED
    BY <1>1, <2>1, <2>2, <2>3, RunningIsOpen
    DEF Contract!Return, AuditedOpen, AuditedOutcome
<1>3. ASSUME NEW r \in Requests, Execute(r) PROVE Contract!Start(r)
  <2>1. AuditedOpen = None
    BY <1>1, <1>3, IdleIsClosed DEF Execute
  <2>2. AuditedOpen' = r /\ AuditedOutcome' = None /\ returned' = None
    BY <1>3 DEF Execute, AuditedOpen, AuditedOutcome
  <2>3. QED BY <2>1, <2>2 DEF Contract!Start, AuditedOpen, AuditedOutcome
<1>4. ASSUME UNCHANGED <<request, audit, returned>> PROVE UNCHANGED Contract!vars
  BY <1>4 DEF Contract!vars
<1>5. Exit \/ (\E r \in Requests : Execute(r)) \/ UNCHANGED <<request, audit, returned>>
  BY DEF Next, WiredNext, vars, callVars, CallStep, Exit, ReloadManifest, Revoke,
     ClearCache, ReplaceFile, Admit, LoadFromCache, LoadFromDisk, CreateStore, SetFuel,
     GuestRuns, Instantiate, AllocReturns, WriteRefused, WritePayload, InvokeFails,
     InvokeReturns, ResultOutOfBounds, OutputTooLarge, ReadResult
<1>6. QED BY <1>2, <1>3, <1>4, <1>5 DEF Contract!Next

(* The safety part of ImplementsContract: whatever the guest does, each    *)
(* call has one audited start and one audited outcome, the one returned.   *)
THEOREM RefinesContract == Spec => Contract!Init /\ [][Contract!Next]_(Contract!vars)
<1>1. Init => Contract!Init
  BY DEF Init, ExecutorInit, Contract!Init
<1>2. QED BY ExecutorInvariant, ContractStep, <1>1, PTL DEF Spec

-----------------------------------------------------------------------------
(***************************************************************************)
(* Why a call returns.  CallLeft bounds the steps it still has before it:  *)
(* the phases ahead, and the fuel the guest may still burn in them.        *)
(***************************************************************************)
PhasesLeft ==
  CASE pc = "admit" -> 10
    [] pc = "load" -> 9
    [] pc = "store" -> 8
    [] pc = "fuel" -> 7
    [] pc = "instantiate" -> 6
    [] pc = "alloc" -> 5
    [] pc = "write" -> 4
    [] pc = "invoke" -> 3
    [] pc = "read" -> 2
    [] pc = "free" -> 1
    [] OTHER -> 0

FuelAhead ==
  CASE pc \in {"admit", "load", "store", "fuel"} -> MaxFuel
    [] pc \in {"instantiate", "alloc", "write", "invoke", "read", "free"} -> fuel
    [] OTHER -> 0

CallLeft == PhasesLeft + FuelAhead

(* Every step of a call brings its return nearer, in the guest as in the   *)
(* host, and nothing that happens meanwhile takes it further away: after   *)
(* MaxFuel + 10 steps at the latest Execute has returned.                   *)
CallDescends ==
  [][pc # "idle" =>
       /\ CallLeft \in 1..(MaxFuel + 10)
       /\ CallLeft' \in 0..CallLeft
       /\ CallStep => CallLeft' < CallLeft]_vars

LEMMA CallLeftType ==
  ASSUME TypeOK
  PROVE  /\ PhasesLeft \in 0..10 /\ FuelAhead \in 0..MaxFuel
         /\ CallLeft \in 0..(MaxFuel + 10)
         /\ pc # "idle" => CallLeft > 0
<1>1. PhasesLeft \in 0..10 /\ (pc # "idle" => PhasesLeft > 0)
  BY DEF TypeOK, Phases, PhasesLeft
<1>2. FuelAhead \in 0..MaxFuel
  BY ExecutorAssumption DEF TypeOK, FuelAhead
<1>3. QED BY <1>1, <1>2, ExecutorAssumption DEF CallLeft

LEMMA ExitDescends ==
  ASSUME ExecutorInv, Exit PROVE CallLeft' < CallLeft
<1>1. pc # "idle" /\ pc' = "idle"
  BY ExitLeaves DEF Leave
<1>2. CallLeft' = 0
  BY <1>1 DEF CallLeft, PhasesLeft, FuelAhead
<1>3. CallLeft > 0
  BY <1>1, CallLeftType DEF ExecutorInv
<1>4. QED BY <1>2, <1>3

(* The steps on which the call goes on: one phase further, or a unit of    *)
(* fuel less.                                                              *)
LEMMA OnwardDescends ==
  ASSUME TypeOK, CallStep, ~Exit PROVE CallLeft' < CallLeft
<1>1. fuel \in Nat /\ MaxFuel \in Nat /\ fuel <= MaxFuel
  BY ExecutorAssumption DEF TypeOK
<1> USE <1>1 DEF CallLeft, PhasesLeft, FuelAhead, Goto
<1>2. CASE Admit
  BY <1>2 DEF Admit
<1>3. CASE LoadFromCache \/ LoadFromDisk
  BY <1>3 DEF LoadFromCache, LoadFromDisk
<1>4. CASE CreateStore \/ SetFuel
  BY <1>4 DEF CreateStore, SetFuel
<1>5. CASE GuestRuns
  BY <1>5 DEF GuestRuns, GuestPhases, Burn
<1>6. CASE Instantiate
  BY <1>6 DEF Instantiate
<1>7. CASE AllocReturns
  BY <1>7 DEF AllocReturns
<1>8. CASE WritePayload
  BY <1>8 DEF WritePayload
<1>9. CASE InvokeReturns
  BY <1>9 DEF InvokeReturns
<1>10. CASE ToFree
  BY <1>10 DEF ToFree, WriteRefused, InvokeFails, ResultOutOfBounds, OutputTooLarge,
               ReadResult, CleanupAndFree
<1>11. QED
  BY <1>2, <1>3, <1>4, <1>5, <1>6, <1>7, <1>8, <1>9, <1>10 DEF CallStep, Exit, ToFree

(* A call cannot go on forever, though the guest may loop wherever it is   *)
(* called, in its free as well.                                            *)
THEOREM CallAlwaysDescends == Spec => CallDescends
<1>1. ASSUME ExecutorInv, [Next]_vars
      PROVE  [pc # "idle" =>
                /\ CallLeft \in 1..(MaxFuel + 10)
                /\ CallLeft' \in 0..CallLeft
                /\ CallStep => CallLeft' < CallLeft]_vars
  <2> SUFFICES ASSUME pc # "idle", vars' # vars
               PROVE  /\ CallLeft \in 1..(MaxFuel + 10)
                      /\ CallLeft' \in 0..CallLeft
                      /\ CallStep => CallLeft' < CallLeft
    OBVIOUS
  <2>1. CallLeft \in 1..(MaxFuel + 10)
    BY <1>1, CallLeftType, ExecutorAssumption DEF ExecutorInv
  <2>2. CallLeft' \in Nat
    <3>1. fuel' \in Nat /\ MaxFuel \in Nat
      BY <1>1, InvPreserved, ExecutorAssumption DEF ExecutorInv, TypeOK
    <3>2. PhasesLeft' \in Nat
      BY DEF PhasesLeft
    <3>3. FuelAhead' \in Nat
      BY <3>1 DEF FuelAhead
    <3>4. \A m, n \in Nat : m + n \in Nat
      OBVIOUS
    <3>5. PhasesLeft' + FuelAhead' \in Nat
      BY <3>2, <3>3, <3>4
    <3>6. QED BY <3>5 DEF CallLeft
  <2>3. CallStep => CallLeft' < CallLeft
    BY <1>1, ExitDescends, OnwardDescends DEF ExecutorInv
  <2>4. ReplaceFile => CallLeft' = CallLeft
    BY DEF ReplaceFile, callVars, CallLeft, PhasesLeft, FuelAhead
  <2>5. CallStep \/ ReplaceFile
    BY <1>1 DEF Next, WiredNext, Execute, Revoke, ClearCache, ReloadManifest
  <2>6. CallLeft' <= CallLeft
    BY <2>1, <2>2, <2>3, <2>4, <2>5
  <2>7. QED BY <2>1, <2>2, <2>3, <2>6
<1>2. QED BY ExecutorInvariant, <1>1, PTL DEF Spec, CallDescends
=============================================================================
