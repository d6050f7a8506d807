-------------------------- MODULE KernelProcessProofs --------------------------
(***************************************************************************)
(* What the runs of the kernel keep, for any number of runs, calls, faults *)
(* and requests.                                                           *)
(*                                                                         *)
(* A step of one run leaves every other run alone but for the file, so the *)
(* invariant is SinkInv of the file (FileAuditSinkProofs) and a RunInv of  *)
(* each run by itself.  RunInv ties where main stands to what the run has  *)
(* reported: how a trail may go on depends on the phase, which the trail   *)
(* itself does not show.                                                   *)
(***************************************************************************)
EXTENDS KernelProcess, FileAuditSinkProofs

Closing == {"boot_registry_failed", "status_snapshot"}
Serving == {"mounted", "loop", "call"}

TrailInv(r) ==
  LET s == reported[r] IN
  /\ ReadsAsABoot(s)
  /\ pc[r] \in {"unborn", "boot_start"} => s = <<>>
  /\ pc[r] = "unborn" => stream[r] = "closed"
  /\ pc[r] \in {"brain", "executor"} => Len(s) = 1
  /\ pc[r] = "mounting" => Len(s) = 2 /\ s[2] = Selected("wasm")
  /\ pc[r] \in Serving =>
       /\ Len(s) > 1
       /\ s[2] = Selected("stub") \/ (Len(s) > 2 /\ s[3].event = "boot_registry_loaded")
  /\ pc[r] \in BootPhases \cup {"loop", "call"} => \A n \in DOMAIN s : s[n].event \notin Closing
  /\ pc[r] \in BootPhases => \A n \in DOMAIN s : ~IsStart(s[n]) /\ ~IsEnd(s[n])
  /\ pc[r] = "loop" => ~IsStart(s[Len(s)])

BrainInv(r) ==
  /\ pc[r] \in {"unborn", "boot_start", "brain"} => brain_kind[r] = "mock" /\ last_error[r] = "none"
  /\ pc[r] \in {"executor", "mounting", "mounted"} =>
       /\ (brain_kind[r] = "llama_cpp") <=> (brain[r] = "llama")
       /\ (last_error[r] # "none") <=> (brain_kind[r] = "mock_fallback")
  /\ pc[r] \in BootPhases => last_error[r] \in {"none", "llama_cpp init failed"}

MountInv(r) ==
  /\ pc[r] = "mounting" => executor_type[r] = "wasm"
  /\ pc[r] \in Serving => executor[r] = executor_type[r] /\ system_policy[r] \in Policies
  /\ executor[r] = "stub" => /\ prompt_capabilities[r] = {<<"echo", "print">>}
                             /\ pc[r] \in Serving => system_policy[r] = StubPolicy

CallInv(r) ==
  /\ pc[r] \in BootPhases \cup {"loop"} => request[r] = None
  /\ pc[r] \in BootPhases => outcome[r] = None
  /\ pc[r] = "call" => /\ request[r] \in Requests
                       /\ request[r].allowed_exports = system_policy[r]
                       /\ outcome[r] = None
                       /\ reported[r][Len(reported[r])] = Started(request[r])

OfferInv(r) ==
  executor[r] = "stub" =>
    \A n \in DOMAIN reported[r] :
      LET e == reported[r][n] IN
      IsEnd(e) =>
        e.outcome \in IF <<e.module, e.function>> \in prompt_capabilities[r]
                      THEN {"success", "InvalidArguments"}
                      ELSE {"CapabilityDenied"}

SnapshotInv(r) ==
  \A n \in DOMAIN reported[r] :
    LET e == reported[r][n] IN
    e.event = "status_snapshot" =>
      /\ e.executor = executor[r]
      /\ (e.brain = "llama_cpp") <=> (brain[r] = "llama")
      /\ (e.error # "none") <=> (e.brain = "mock_fallback")

RunInv(r) == TrailInv(r) /\ BrainInv(r) /\ MountInv(r) /\ CallInv(r) /\ OfferInv(r) /\ SnapshotInv(r)

IInv == TypeOK /\ SinkInv /\ \A r \in Runs : RunInv(r)

Local(r) ==
  <<pc[r], stream[r], reported[r], executor_type[r], brain[r], brain_kind[r], last_error[r],
    executor[r], system_policy[r], prompt_capabilities[r], request[r], outcome[r]>>

USE DEF environmentVars, brainVars, mountVars, callVars

LEMMA EventParts ==
  /\ [event : {"status_snapshot"}, executor : {"stub", "wasm"},
      brain : {"mock", "llama_cpp", "mock_fallback"},
      error : {"none", "llama_cpp init failed"}] \subseteq Events
  /\ \A q \in Asked : Started(q) \in Events
  /\ \A q \in Asked, o \in Outcomes : Ended(q, o) \in Events
  /\ \A k \in {"boot_start", "boot_registry_loaded", "boot_registry_failed"} :
       SystemEvent(k) \in Events
  /\ \A x \in {"stub", "wasm"} : Selected(x) \in Events
<1> DEFINE A == {SystemEvent(k) : k \in {"boot_start", "boot_registry_loaded", "boot_registry_failed"}}
           B == {Selected(x) : x \in {"stub", "wasm"}}
           C == [event : {"status_snapshot"}, executor : {"stub", "wasm"},
                 brain : {"mock", "llama_cpp", "mock_fallback"},
                 error : {"none", "llama_cpp init failed"}]
           D == {Started(q) : q \in Asked}
           E == {Ended(q, o) : q \in Asked, o \in Outcomes}
<1>1. Events = A \cup B \cup C \cup D \cup E
  BY DEF Events
<1>2. /\ \A q \in Asked : Started(q) \in D
      /\ \A q \in Asked, o \in Outcomes : Ended(q, o) \in E
      /\ \A k \in {"boot_start", "boot_registry_loaded", "boot_registry_failed"} :
           SystemEvent(k) \in A
      /\ \A x \in {"stub", "wasm"} : Selected(x) \in B
  OBVIOUS
<1>3. /\ C \subseteq Events /\ D \subseteq Events /\ E \subseteq Events
      /\ A \subseteq Events /\ B \subseteq Events
  <2> HIDE DEF A, B, C, D, E
  <2> QED
    BY <1>1
<1>4. /\ \A q \in Asked : Started(q) \in Events
      /\ \A q \in Asked, o \in Outcomes : Ended(q, o) \in Events
      /\ \A k \in {"boot_start", "boot_registry_loaded", "boot_registry_failed"} :
           SystemEvent(k) \in Events
      /\ \A x \in {"stub", "wasm"} : Selected(x) \in Events
  <2> HIDE DEF A, B, C, D, E
  <2> QED
    BY <1>2, <1>3
<1> HIDE DEF A, B, D, E
<1> QED
  BY <1>3, <1>4, Zenon

-----------------------------------------------------------------------------
LEMMA InitIInv ==
  ASSUME Init
  PROVE  IInv
<1>1. SinkTypeOK(Events) /\ SinkInv
  BY SinkInitInv DEF Init
<1>2. TypeOK
  BY <1>1 DEF Init, TypeOK, BootPhases
<1>3. ASSUME NEW r \in Runs PROVE RunInv(r)
  <2>1. /\ pc[r] = "unborn" /\ stream[r] = "closed" /\ reported[r] = <<>>
        /\ brain_kind[r] = "mock" /\ last_error[r] = "none"
        /\ executor[r] = None /\ request[r] = None /\ outcome[r] = None
        /\ prompt_capabilities[r] = {}
    BY DEF Init, SinkInit
  <2>2. TrailInv(r)
    BY <2>1 DEF TrailInv, ReadsAsABoot, Serving
  <2>3. BrainInv(r) /\ CallInv(r) /\ OfferInv(r) /\ SnapshotInv(r)
    BY <2>1 DEF BrainInv, CallInv, OfferInv, SnapshotInv, BootPhases
  <2>4. MountInv(r)
    BY <2>1, ProcessAssumption DEF MountInv, Serving
  <2> QED
    BY <2>2, <2>3, <2>4 DEF RunInv
<1> QED
  BY <1>1, <1>2, <1>3 DEF IInv

(* A run that a step leaves alone keeps its invariant. *)
LEMMA LeftAlone ==
  ASSUME NEW r \in Runs, RunInv(r), UNCHANGED Local(r)
  PROVE  RunInv(r)'
<1> USE DEF Local, RunInv
<1>1. TrailInv(r)'
  BY DEF TrailInv
<1>2. BrainInv(r)' /\ MountInv(r)' /\ CallInv(r)'
  BY DEF BrainInv, MountInv, CallInv
<1>3. OfferInv(r)' /\ SnapshotInv(r)'
  BY DEF OfferInv, SnapshotInv
<1> QED
  BY <1>1, <1>2, <1>3

(* The invariant after a step of one run. *)
LEMMA OneRun ==
  ASSUME IInv, NEW r \in Runs, TypeOK', SinkInv', RunInv(r)',
         \A q \in Runs \ {r} : UNCHANGED Local(q)
  PROVE  IInv'
<1>1. ASSUME NEW q \in Runs \ {r} PROVE RunInv(q)'
  BY <1>1, LeftAlone DEF IInv
<1> QED
  BY <1>1 DEF IInv

(* What logging an event does. *)
LEMMA LogFacts ==
  ASSUME TypeOK, SinkInv, NEW r \in Runs, NEW e \in Events, Log(r, e)
  PROVE  /\ SinkTypeOK(Events)' /\ SinkInv'
         /\ reported[r] \in Seq(Events)
         /\ reported'[r] = Append(reported[r], e)
         /\ \A q \in Runs \ {r} : reported'[q] = reported[q] /\ stream'[q] = stream[q]
<1>1. SinkTypeOK(Events)
  BY DEF TypeOK
<1>2. SinkTypeOK(Events)' /\ SinkInv'
  BY <1>1, LogInv
<1>3. reported' = [reported EXCEPT ![r] = Append(@, e)]
  BY DEF Log
<1>4. stream' \in {stream, [stream EXCEPT ![r] = "failed"]}
  BY DEF Log, AppendJsonLine
<1> QED
  BY <1>1, <1>2, <1>3, <1>4 DEF SinkTypeOK

(* How a trail may go on. *)
Follows(s, e) ==
  LET n == Len(s) + 1 IN
  /\ (n = 1) <=> (e.event = "boot_start")
  /\ (n = 2) <=> (e.event = "boot_executor_selected")
  /\ e.event \in {"boot_registry_loaded", "boot_registry_failed"} =>
       n = 3 /\ s[2] = Selected("wasm")
  /\ IsStart(e) =>
       /\ n > 2
       /\ s[2] = Selected("stub") \/ (n > 3 /\ s[3].event = "boot_registry_loaded")
  /\ IsEnd(e) => /\ n > 1 /\ IsStart(s[n - 1])
                 /\ s[n - 1].module = e.module
                 /\ s[n - 1].function = e.function
  /\ n > 1 => s[n - 1].event \notin Closing /\ (IsStart(s[n - 1]) => IsEnd(e))

LEMMA TrailGoesOn ==
  ASSUME NEW s \in Seq(Events), NEW e \in Events, ReadsAsABoot(s), Follows(s, e)
  PROVE  ReadsAsABoot(Append(s, e))
<1> DEFINE t == Append(s, e)
           k == Len(s) + 1
<1>1. /\ k \in Nat /\ DOMAIN s = 1..Len(s) /\ DOMAIN t = 1..k /\ Len(t) = k /\ t[k] = e
      /\ \A n \in DOMAIN s : n \in DOMAIN t /\ t[n] = s[n]
  OBVIOUS
<1>2. ASSUME NEW n \in DOMAIN t, n # k
      PROVE  /\ (n = 1) <=> (t[n].event = "boot_start")
             /\ (n = 2) <=> (t[n].event = "boot_executor_selected")
             /\ t[n].event \in {"boot_registry_loaded", "boot_registry_failed"} =>
                  n = 3 /\ t[2] = Selected("wasm")
             /\ t[n].event \in Closing => n = Len(t)
             /\ IsStart(t[n]) => t[2] = Selected("stub") \/ t[3].event = "boot_registry_loaded"
             /\ IsStart(t[n]) /\ n < Len(t) => IsEnd(t[n + 1])
             /\ IsEnd(t[n]) => /\ n > 1 /\ IsStart(t[n - 1])
                               /\ t[n - 1].module = t[n].module
                               /\ t[n - 1].function = t[n].function
  <2>1. n \in DOMAIN s /\ t[n] = s[n] /\ n \in Nat /\ n > 0
    BY <1>1, <1>2
  <2>2. /\ (n = 1) <=> (s[n].event = "boot_start")
        /\ (n = 2) <=> (s[n].event = "boot_executor_selected")
        /\ s[n].event \in {"boot_registry_loaded", "boot_registry_failed"} =>
             n = 3 /\ s[2] = Selected("wasm")
        /\ s[n].event \in Closing => n = Len(s)
        /\ IsStart(s[n]) => s[2] = Selected("stub") \/ s[3].event = "boot_registry_loaded"
        /\ IsStart(s[n]) /\ n < Len(s) => IsEnd(s[n + 1])
        /\ IsEnd(s[n]) => /\ n > 1 /\ IsStart(s[n - 1])
                          /\ s[n - 1].module = s[n].module
                          /\ s[n - 1].function = s[n].function
    BY <2>1 DEF ReadsAsABoot, Closing
  <2>3. IsStart(s[n]) => n > 2
    BY <2>1, <2>2 DEF IsStart
  <2>4. n > 1 => n - 1 \in DOMAIN s /\ t[n - 1] = s[n - 1]
    BY <1>1, <2>1
  <2>5. n > 2 => 2 \in DOMAIN s /\ 3 \in DOMAIN s /\ t[2] = s[2] /\ t[3] = s[3]
    BY <1>1, <2>1
  <2>6. s[n].event \notin Closing
    <3>1. CASE n = Len(s)
      BY <1>1, <2>1, <3>1 DEF Follows
    <3>2. CASE n # Len(s)
      BY <2>2, <3>2
    <3> QED
      BY <3>1, <3>2
  <2>7. IsStart(t[n]) => IsEnd(t[n + 1])
    <3>1. CASE n = Len(s)
      BY <1>1, <2>1, <3>1 DEF Follows
    <3>2. CASE n # Len(s)
      BY <1>1, <2>1, <2>2, <3>2
    <3> QED
      BY <3>1, <3>2
  <2> HIDE DEF t, k
  <2> QED
    BY <2>1, <2>2, <2>3, <2>4, <2>5, <2>6, <2>7
<1>3. /\ (k = 1) <=> (e.event = "boot_start")
      /\ (k = 2) <=> (e.event = "boot_executor_selected")
      /\ e.event \in {"boot_registry_loaded", "boot_registry_failed"} =>
           k = 3 /\ t[2] = Selected("wasm")
      /\ IsStart(e) => t[2] = Selected("stub") \/ t[3].event = "boot_registry_loaded"
      /\ IsEnd(e) => /\ k > 1 /\ IsStart(t[k - 1])
                     /\ t[k - 1].module = e.module
                     /\ t[k - 1].function = e.function
  <2>1. k > 1 => k - 1 \in DOMAIN s
    BY <1>1
  <2>2. k > 2 => 2 \in DOMAIN s
    BY <1>1
  <2>3. k > 3 => 3 \in DOMAIN s
    BY <1>1
  <2>4. /\ (k = 1) <=> (e.event = "boot_start")
        /\ (k = 2) <=> (e.event = "boot_executor_selected")
        /\ e.event \in {"boot_registry_loaded", "boot_registry_failed"} =>
             k = 3 /\ s[2] = Selected("wasm")
        /\ IsStart(e) =>
             /\ k > 2
             /\ s[2] = Selected("stub") \/ (k > 3 /\ s[3].event = "boot_registry_loaded")
        /\ IsEnd(e) => /\ k > 1 /\ IsStart(s[k - 1])
                       /\ s[k - 1].module = e.module
                       /\ s[k - 1].function = e.function
    BY DEF Follows
  <2> HIDE DEF t, k
  <2>5. /\ k > 1 => t[k - 1] = s[k - 1]
        /\ k > 2 => t[2] = s[2]
        /\ k > 3 => t[3] = s[3]
    BY <1>1, <2>1, <2>2, <2>3
  <2> QED
    BY <2>4, <2>5
<1>4. ReadsAsABoot(t)
  <2> HIDE DEF t, k
  <2> SUFFICES ASSUME NEW n \in DOMAIN t
               PROVE  LET e0 == t[n] IN
                      /\ (n = 1) <=> (e0.event = "boot_start")
                      /\ (n = 2) <=> (e0.event = "boot_executor_selected")
                      /\ e0.event \in {"boot_registry_loaded", "boot_registry_failed"} =>
                           n = 3 /\ t[2] = Selected("wasm")
                      /\ e0.event \in {"boot_registry_failed", "status_snapshot"} => n = Len(t)
                      /\ IsStart(e0) => t[2] = Selected("stub") \/ t[3].event = "boot_registry_loaded"
                      /\ IsStart(e0) /\ n < Len(t) => IsEnd(t[n + 1])
                      /\ IsEnd(e0) => /\ n > 1 /\ IsStart(t[n - 1])
                                      /\ t[n - 1].module = e0.module
                                      /\ t[n - 1].function = e0.function
    BY DEF ReadsAsABoot
  <2>1. CASE n = k
    BY <1>1, <1>3, <2>1
  <2>2. CASE n # k
    BY <1>2, <2>2 DEF Closing
  <2> QED
    BY <2>1, <2>2
<1> QED
  BY <1>4

LEMMA TrailFacts ==
  ASSUME IInv, NEW r \in Runs
  PROVE  /\ reported[r] \in Seq(Events)
         /\ Len(reported[r]) \in Nat /\ DOMAIN reported[r] = 1..Len(reported[r])
<1>1. reported[r] \in Seq(Events)
  BY DEF IInv, TypeOK, SinkTypeOK
<1> QED
  BY <1>1

LEMMA LoggedTrail ==
  ASSUME IInv, NEW r \in Runs, NEW e \in Events, Log(r, e), Follows(reported[r], e)
  PROVE  /\ SinkTypeOK(Events)' /\ SinkInv'
         /\ reported[r] \in Seq(Events)
         /\ ReadsAsABoot(reported'[r])
         /\ Len(reported[r]) \in Nat /\ Len(reported'[r]) = Len(reported[r]) + 1
         /\ DOMAIN reported[r] = 1..Len(reported[r])
         /\ reported'[r][Len(reported[r]) + 1] = e
         /\ \A n \in DOMAIN reported[r] : reported'[r][n] = reported[r][n]
         /\ \A n \in DOMAIN reported'[r] : n \in DOMAIN reported[r] \/ n = Len(reported[r]) + 1
         /\ \A q \in Runs \ {r} : reported'[q] = reported[q] /\ stream'[q] = stream[q]
<1>1. /\ SinkTypeOK(Events)' /\ SinkInv'
      /\ reported[r] \in Seq(Events)
      /\ reported'[r] = Append(reported[r], e)
      /\ \A q \in Runs \ {r} : reported'[q] = reported[q] /\ stream'[q] = stream[q]
  BY LogFacts DEF IInv
<1>2. ReadsAsABoot(reported[r])
  BY DEF IInv, RunInv, TrailInv
<1>3. ReadsAsABoot(reported'[r])
  BY <1>1, <1>2, TrailGoesOn
<1> QED
  BY <1>1, <1>3

LEMMA StartStep ==
  ASSUME IInv, NEW r \in Runs, Start(r)
  PROVE  IInv'
<1>1. PICK e \in Environments[r] :
        /\ status_mode' = [status_mode EXCEPT ![r] = e.status_mode]
        /\ executor_type' = [executor_type EXCEPT ![r] = e.executor_type]
        /\ llama' = [llama EXCEPT ![r] = e.llama]
  BY DEF Start
<1>2. e.status_mode \in BOOLEAN /\ e.executor_type \in {"stub", "wasm"} /\ e.llama \in BOOLEAN
  BY ProcessAssumption
<1>3. /\ pc[r] = "unborn" /\ pc' = [pc EXCEPT ![r] = "boot_start"]
      /\ Open(r) /\ UNCHANGED <<brainVars, mountVars, callVars>>
  BY DEF Start, At, Goto
<1>4. SinkTypeOK(Events) /\ SinkInv /\ reported[r] = <<>> /\ stream[r] = "closed"
  BY <1>3 DEF IInv, TypeOK, RunInv, TrailInv
<1>5. SinkTypeOK(Events)' /\ SinkInv'
  BY <1>3, <1>4, OpenInv
<1>6. reported' = reported /\ stream' \in {stream, [stream EXCEPT ![r] = "good"]}
  BY <1>3 DEF Open
<1>7. TypeOK'
  BY <1>1, <1>2, <1>3, <1>5 DEF IInv, TypeOK, BootPhases
<1>8. ASSUME NEW q \in Runs \ {r} PROVE UNCHANGED Local(q)
  <2>1. stream'[q] = stream[q] /\ reported'[q] = reported[q]
    BY <1>4, <1>6 DEF SinkTypeOK
  <2>2. pc'[q] = pc[q] /\ executor_type'[q] = executor_type[q]
    BY <1>1, <1>3 DEF IInv, TypeOK
  <2> QED
    BY <1>3, <2>1, <2>2 DEF Local
<1>9. RunInv(r)'
  <2>1. /\ pc'[r] = "boot_start" /\ reported'[r] = <<>>
        /\ brain_kind'[r] = "mock" /\ last_error'[r] = "none" 
        /\ request'[r] = None /\ outcome'[r] = None
        /\ UNCHANGED <<executor, prompt_capabilities>>
    BY <1>3, <1>4, <1>6 DEF IInv, TypeOK, RunInv, BrainInv, CallInv, BootPhases
  <2>2. TrailInv(r)'
    BY <2>1 DEF TrailInv, ReadsAsABoot, Serving
  <2>3. BrainInv(r)' /\ CallInv(r)' /\ OfferInv(r)' /\ SnapshotInv(r)'
    BY <2>1 DEF BrainInv, CallInv, OfferInv, SnapshotInv, BootPhases
  <2>4. MountInv(r)'
    BY <2>1 DEF IInv, RunInv, MountInv, Serving
  <2> QED
    BY <2>2, <2>3, <2>4 DEF RunInv
<1> QED
  BY <1>5, <1>7, <1>8, <1>9, OneRun

LEMMA BootStartStep ==
  ASSUME IInv, NEW r \in Runs, BootStart(r)
  PROVE  IInv'
<1> DEFINE e == SystemEvent("boot_start")
<1>1. /\ pc[r] = "boot_start" /\ pc' = [pc EXCEPT ![r] = "brain"]
      /\ Log(r, e) /\ UNCHANGED <<environmentVars, brainVars, mountVars, callVars>>
  BY DEF BootStart, At, Goto
<1>2. e \in Events /\ e.event = "boot_start"
  BY DEF Events, SystemEvent
<1> HIDE DEF e
<1>3. reported[r] = <<>>
  BY <1>1 DEF IInv, RunInv, TrailInv
<1>4. Follows(reported[r], e)
  BY <1>2, <1>3 DEF Follows, IsStart, IsEnd
<1>5. /\ SinkTypeOK(Events)' /\ SinkInv'
      /\ ReadsAsABoot(reported'[r])
      /\ Len(reported'[r]) = 1 /\ reported'[r][1] = e
      /\ \A n \in DOMAIN reported'[r] : n = 1
      /\ \A q \in Runs \ {r} : reported'[q] = reported[q] /\ stream'[q] = stream[q]
  <2>1. /\ SinkTypeOK(Events)' /\ SinkInv'
        /\ ReadsAsABoot(reported'[r])
        /\ Len(reported'[r]) = Len(reported[r]) + 1
        /\ reported'[r][Len(reported[r]) + 1] = e
        /\ \A n \in DOMAIN reported'[r] : n \in DOMAIN reported[r] \/ n = Len(reported[r]) + 1
        /\ \A q \in Runs \ {r} : reported'[q] = reported[q] /\ stream'[q] = stream[q]
    BY <1>1, <1>2, <1>4, LoggedTrail
  <2> QED
    BY <1>3, <2>1
<1>6. TypeOK'
  BY <1>1, <1>5 DEF IInv, TypeOK, BootPhases
<1>7. \A q \in Runs \ {r} : UNCHANGED Local(q)
  BY <1>1, <1>5 DEF IInv, TypeOK, Local
<1>8. RunInv(r)'
  <2>1. pc'[r] = "brain"
    BY <1>1 DEF IInv, TypeOK
  <2>2. TrailInv(r)'
    BY <1>2, <1>5, <2>1 DEF TrailInv, Serving, Closing, IsStart, IsEnd
  <2>3. BrainInv(r)' /\ MountInv(r)' /\ CallInv(r)'
    BY <1>1, <2>1 DEF IInv, RunInv, BrainInv, MountInv, CallInv, BootPhases, Serving
  <2>4. OfferInv(r)' /\ SnapshotInv(r)'
    BY <1>2, <1>5 DEF OfferInv, SnapshotInv, IsEnd
  <2> QED
    BY <2>2, <2>3, <2>4 DEF RunInv
<1> QED
  BY <1>5, <1>6, <1>7, <1>8, OneRun

(* The steps that log nothing and keep the trail and the stream. *)
LEMMA SilentStep ==
  ASSUME IInv, NEW r \in Runs,
         SelectMock(r) \/ SelectLlama(r) \/ FallBackToMock(r) \/ MountThrows(r) \/ EnterLoop(r)
         \/ Stop(r)
  PROVE  IInv'
<1>1. UNCHANGED <<sinkVars, environmentVars, mountVars, callVars>>
  BY DEF SelectMock, SelectLlama, FallBackToMock, MountThrows, EnterLoop, Stop
<1>2. SinkTypeOK(Events)' /\ SinkInv'
  BY <1>1, SinkUnchanged DEF IInv, TypeOK
<1>3. /\ pc \in [Runs -> BootPhases \cup {"failing", "ending", "loop", "call"} \cup Over]
      /\ brain \in [Runs -> {None, "mock", "llama"}]
      /\ brain_kind \in [Runs -> {"mock", "llama_cpp", "mock_fallback"}]
      /\ last_error \in [Runs -> {"none", "llama_cpp init failed", "Registry fail",
                                  "WasmExecutor fatal exception"}]
  BY DEF IInv, TypeOK
<1>4. /\ pc' \in [Runs -> BootPhases \cup {"failing", "ending", "loop", "call"} \cup Over]
      /\ brain' \in [Runs -> {None, "mock", "llama"}]
      /\ brain_kind' \in [Runs -> {"mock", "llama_cpp", "mock_fallback"}]
      /\ last_error' \in [Runs -> {"none", "llama_cpp init failed", "Registry fail",
                                   "WasmExecutor fatal exception"}]
      /\ \A q \in Runs \ {r} : /\ pc'[q] = pc[q] /\ brain'[q] = brain[q]
                              /\ brain_kind'[q] = brain_kind[q] /\ last_error'[q] = last_error[q]
  BY <1>3 DEF SelectMock, SelectLlama, FallBackToMock, MountThrows, EnterLoop, Stop, Goto, BootPhases
<1>5. TypeOK'
  BY <1>1, <1>2, <1>4 DEF IInv, TypeOK
<1>6. \A q \in Runs \ {r} : UNCHANGED Local(q)
  BY <1>1, <1>4 DEF Local, sinkVars
<1>7. TrailInv(r) /\ BrainInv(r) /\ MountInv(r) /\ CallInv(r) /\ OfferInv(r) /\ SnapshotInv(r)
  BY DEF IInv, RunInv
<1>8. \/ pc[r] = "brain" /\ pc'[r] = "executor"
      \/ pc[r] = "mounting" /\ pc'[r] = "failing" /\ UNCHANGED brain
      \/ pc[r] = "mounted" /\ pc'[r] = "loop" /\ UNCHANGED brain
      \/ pc[r] = "loop" /\ pc'[r] = "ending" /\ UNCHANGED brain
  BY <1>3 DEF SelectMock, SelectLlama, FallBackToMock, MountThrows, EnterLoop, Stop, At, Goto
<1>9. RunInv(r)'
  <2>1. TrailInv(r)'
    <3>1. reported' = reported /\ stream' = stream
      BY <1>1 DEF sinkVars
    <3>2. pc[r] = "mounted" => ~IsStart(reported[r][Len(reported[r])])
      <4>1. ASSUME pc[r] = "mounted" PROVE Len(reported[r]) \in DOMAIN reported[r]
        BY <1>7, <4>1, TrailFacts DEF TrailInv, Serving
      <4> QED
        BY <1>7, <4>1 DEF TrailInv, BootPhases
    <3> QED
      BY <1>7, <1>8, <3>1, <3>2 DEF TrailInv, BootPhases, Serving
  <2>2. BrainInv(r)'
    BY <1>3, <1>7
       DEF BrainInv, BootPhases, SelectMock, SelectLlama, FallBackToMock, MountThrows, EnterLoop,
           Stop, At, Goto
  <2>3. MountInv(r)' /\ CallInv(r)'
    BY <1>1, <1>7, <1>8 DEF MountInv, CallInv, BootPhases, Serving
  <2>4. OfferInv(r)'
    BY <1>1, <1>7 DEF OfferInv, sinkVars
  <2>5. SnapshotInv(r)'
    <3>1. CASE UNCHANGED brain
      BY <1>1, <1>7, <3>1 DEF SnapshotInv, sinkVars
    <3>2. CASE pc[r] = "brain"
      BY <1>1, <1>7, <3>2 DEF SnapshotInv, TrailInv, BootPhases, Closing, sinkVars
    <3> QED
      BY <1>8, <3>1, <3>2
  <2> QED
    BY <2>1, <2>2, <2>3, <2>4, <2>5 DEF RunInv
<1> QED
  BY <1>2, <1>5, <1>9, <1>6, OneRun

(* An executor is mounted, or chosen: the boot goes on. *)
LEMMA MountStubStep ==
  ASSUME IInv, NEW r \in Runs, MountStub(r)
  PROVE  IInv'
<1> DEFINE e == Selected("stub")
<1>1. /\ pc[r] = "executor" /\ pc' = [pc EXCEPT ![r] = "mounted"] /\ executor_type[r] = "stub"
      /\ executor' = [executor EXCEPT ![r] = "stub"]
      /\ system_policy' = [system_policy EXCEPT ![r] = StubPolicy]
      /\ prompt_capabilities' = [prompt_capabilities EXCEPT ![r] = {<<"echo", "print">>}]
      /\ Log(r, e) /\ UNCHANGED <<environmentVars, brainVars, callVars>>
  BY DEF MountStub, At, Goto
<1>2. e \in Events /\ e.event = "boot_executor_selected"
  BY DEF Events, Selected
<1>3. Len(reported[r]) = 1 /\ \A n \in DOMAIN reported[r] :
        reported[r][n].event \notin Closing /\ ~IsStart(reported[r][n]) /\ ~IsEnd(reported[r][n])
  BY <1>1 DEF IInv, RunInv, TrailInv, BootPhases
<1>4. Follows(reported[r], e)
  <2>1. 1 \in DOMAIN reported[r]
    BY <1>3, TrailFacts
  <2> HIDE DEF e
  <2> QED
    BY <1>2, <1>3, <2>1 DEF Follows, IsStart, IsEnd
<1>5. /\ SinkTypeOK(Events)' /\ SinkInv'
      /\ ReadsAsABoot(reported'[r])
      /\ Len(reported'[r]) = 2 /\ reported'[r][2] = e
      /\ \A n \in DOMAIN reported'[r] :
           /\ reported'[r][n].event \notin Closing
           /\ ~IsStart(reported'[r][n]) /\ ~IsEnd(reported'[r][n])
      /\ \A q \in Runs \ {r} : reported'[q] = reported[q] /\ stream'[q] = stream[q]
  <2> HIDE DEF e
  <2>1. /\ SinkTypeOK(Events)' /\ SinkInv'
        /\ ReadsAsABoot(reported'[r])
        /\ Len(reported'[r]) = Len(reported[r]) + 1
        /\ reported'[r][Len(reported[r]) + 1] = e
        /\ \A n \in DOMAIN reported[r] : reported'[r][n] = reported[r][n]
        /\ \A n \in DOMAIN reported'[r] : n \in DOMAIN reported[r] \/ n = Len(reported[r]) + 1
        /\ \A q \in Runs \ {r} : reported'[q] = reported[q] /\ stream'[q] = stream[q]
    BY <1>1, <1>2, <1>4, LoggedTrail
  <2> QED
    BY <1>2, <1>3, <2>1 DEF IsStart, IsEnd, Closing
<1>6. TypeOK'
  BY <1>1, <1>5 DEF IInv, TypeOK, BootPhases, Policies
<1>7. \A q \in Runs \ {r} : UNCHANGED Local(q)
  BY <1>1, <1>5 DEF IInv, TypeOK, Local
<1>8. RunInv(r)'
  <2>1. /\ pc'[r] = "mounted" /\ executor'[r] = "stub" /\ system_policy'[r] = StubPolicy
        /\ prompt_capabilities'[r] = {<<"echo", "print">>}
    BY <1>1 DEF IInv, TypeOK
  <2>2. TrailInv(r)'
    BY <1>5, <2>1 DEF TrailInv, Serving, BootPhases
  <2>3. BrainInv(r)' /\ CallInv(r)'
    BY <1>1, <2>1 DEF IInv, RunInv, BrainInv, CallInv, BootPhases
  <2>4. MountInv(r)'
    BY <1>1, <2>1 DEF MountInv, Policies
  <2>5. OfferInv(r)' /\ SnapshotInv(r)'
    BY <1>5 DEF OfferInv, SnapshotInv, Closing
  <2> QED
    BY <2>2, <2>3, <2>4, <2>5 DEF RunInv
<1> QED
  BY <1>5, <1>6, <1>7, <1>8, OneRun

LEMMA SelectWasmStep ==
  ASSUME IInv, NEW r \in Runs, SelectWasm(r)
  PROVE  IInv'
<1> DEFINE e == Selected("wasm")
<1>1. /\ pc[r] = "executor" /\ pc' = [pc EXCEPT ![r] = "mounting"]
      /\ executor_type[r] = "wasm" /\ Log(r, e)
      /\ UNCHANGED <<environmentVars, brainVars, mountVars, callVars>>
  BY DEF SelectWasm, At, Goto
<1>2. e \in Events /\ e.event = "boot_executor_selected"
  BY DEF Events, Selected
<1>3. Len(reported[r]) = 1 /\ \A n \in DOMAIN reported[r] :
        reported[r][n].event \notin Closing /\ ~IsStart(reported[r][n]) /\ ~IsEnd(reported[r][n])
  BY <1>1 DEF IInv, RunInv, TrailInv, BootPhases
<1>4. Follows(reported[r], e)
  <2>1. 1 \in DOMAIN reported[r]
    BY <1>3, TrailFacts
  <2> HIDE DEF e
  <2> QED
    BY <1>2, <1>3, <2>1 DEF Follows, IsStart, IsEnd
<1>5. /\ SinkTypeOK(Events)' /\ SinkInv'
      /\ ReadsAsABoot(reported'[r])
      /\ Len(reported'[r]) = 2 /\ reported'[r][2] = e
      /\ \A n \in DOMAIN reported'[r] :
           /\ reported'[r][n].event \notin Closing
           /\ ~IsStart(reported'[r][n]) /\ ~IsEnd(reported'[r][n])
      /\ \A q \in Runs \ {r} : reported'[q] = reported[q] /\ stream'[q] = stream[q]
  <2> HIDE DEF e
  <2>1. /\ SinkTypeOK(Events)' /\ SinkInv'
        /\ ReadsAsABoot(reported'[r])
        /\ Len(reported'[r]) = Len(reported[r]) + 1
        /\ reported'[r][Len(reported[r]) + 1] = e
        /\ \A n \in DOMAIN reported[r] : reported'[r][n] = reported[r][n]
        /\ \A n \in DOMAIN reported'[r] : n \in DOMAIN reported[r] \/ n = Len(reported[r]) + 1
        /\ \A q \in Runs \ {r} : reported'[q] = reported[q] /\ stream'[q] = stream[q]
    BY <1>1, <1>2, <1>4, LoggedTrail
  <2> QED
    BY <1>2, <1>3, <2>1 DEF IsStart, IsEnd, Closing
<1>6. TypeOK'
  BY <1>1, <1>5 DEF IInv, TypeOK, BootPhases
<1>7. \A q \in Runs \ {r} : UNCHANGED Local(q)
  BY <1>1, <1>5 DEF IInv, TypeOK, Local
<1>8. RunInv(r)'
  <2>1. pc'[r] = "mounting"
    BY <1>1 DEF IInv, TypeOK
  <2>2. TrailInv(r)'
    BY <1>5, <2>1 DEF TrailInv, Serving, BootPhases
  <2>3. BrainInv(r)' /\ MountInv(r)' /\ CallInv(r)'
    BY <1>1, <2>1 DEF IInv, RunInv, BrainInv, MountInv, CallInv, BootPhases, Serving
  <2>4. OfferInv(r)' /\ SnapshotInv(r)'
    BY <1>5 DEF OfferInv, SnapshotInv, Closing
  <2> QED
    BY <2>2, <2>3, <2>4 DEF RunInv
<1> QED
  BY <1>5, <1>6, <1>7, <1>8, OneRun

(* The registry is mounted, or is not. *)
LEMMA MountWasmStep ==
  ASSUME IInv, NEW r \in Runs, MountWasm(r)
  PROVE  IInv'
<1> DEFINE e == SystemEvent("boot_registry_loaded")
<1>1. /\ pc[r] = "mounting" /\ pc' = [pc EXCEPT ![r] = "mounted"]
      /\ executor' = [executor EXCEPT ![r] = "wasm"]
      /\ Log(r, e) /\ UNCHANGED <<environmentVars, brainVars, callVars>>
  BY DEF MountWasm, At, Goto
<1>2. PICK p \in WasmPolicies :
        /\ system_policy' = [system_policy EXCEPT ![r] = p]
        /\ prompt_capabilities' = [prompt_capabilities EXCEPT ![r] = Exports(p)]
  BY DEF MountWasm
<1>3. e \in Events /\ e.event = "boot_registry_loaded"
  BY DEF Events, SystemEvent
<1>4. /\ Len(reported[r]) = 2 /\ reported[r][2] = Selected("wasm") /\ executor_type[r] = "wasm"
      /\ \A n \in DOMAIN reported[r] :
           reported[r][n].event \notin Closing /\ ~IsStart(reported[r][n]) /\ ~IsEnd(reported[r][n])
  BY <1>1 DEF IInv, RunInv, TrailInv, MountInv, BootPhases
<1> HIDE DEF e
<1>5. Follows(reported[r], e)
  <2>1. 2 \in DOMAIN reported[r]
    BY <1>4, TrailFacts
  <2> QED
    BY <1>3, <1>4, <2>1 DEF Follows, IsStart, IsEnd
<1>6. /\ SinkTypeOK(Events)' /\ SinkInv'
      /\ ReadsAsABoot(reported'[r])
      /\ Len(reported'[r]) = 3 /\ reported'[r][3] = e
      /\ \A n \in DOMAIN reported'[r] :
           /\ reported'[r][n].event \notin Closing
           /\ ~IsStart(reported'[r][n]) /\ ~IsEnd(reported'[r][n])
      /\ \A q \in Runs \ {r} : reported'[q] = reported[q] /\ stream'[q] = stream[q]
  <2>1. /\ SinkTypeOK(Events)' /\ SinkInv'
        /\ ReadsAsABoot(reported'[r])
        /\ Len(reported'[r]) = Len(reported[r]) + 1
        /\ reported'[r][Len(reported[r]) + 1] = e
        /\ \A n \in DOMAIN reported[r] : reported'[r][n] = reported[r][n]
        /\ \A n \in DOMAIN reported'[r] : n \in DOMAIN reported[r] \/ n = Len(reported[r]) + 1
        /\ \A q \in Runs \ {r} : reported'[q] = reported[q] /\ stream'[q] = stream[q]
    BY <1>1, <1>3, <1>5, LoggedTrail
  <2> QED
    BY <1>3, <1>4, <2>1 DEF IsStart, IsEnd, Closing
<1>7. TypeOK'
  <2>1. prompt_capabilities' \in [Runs -> {{}, {<<"echo", "print">>}}
                                       \cup {Exports(p0) : p0 \in WasmPolicies}]
    BY <1>2 DEF IInv, TypeOK
  <2>2. system_policy' \in [Runs -> Policies \cup {<<>>}]
    BY <1>2 DEF IInv, TypeOK, Policies
  <2> QED
    BY <1>1, <1>6, <2>1, <2>2 DEF IInv, TypeOK, BootPhases
<1>8. \A q \in Runs \ {r} : UNCHANGED Local(q)
  BY <1>1, <1>2, <1>6 DEF IInv, TypeOK, Local
<1>9. RunInv(r)'
  <2>1. pc'[r] = "mounted" /\ executor'[r] = "wasm" /\ system_policy'[r] = p
    BY <1>1, <1>2 DEF IInv, TypeOK
  <2>2. TrailInv(r)'
    BY <1>3, <1>6, <2>1 DEF TrailInv, Serving, BootPhases
  <2>3. BrainInv(r)' /\ CallInv(r)'
    BY <1>1, <2>1 DEF IInv, RunInv, BrainInv, CallInv, BootPhases
  <2>4. MountInv(r)'
    BY <1>1, <1>4, <2>1 DEF MountInv, Policies
  <2>5. OfferInv(r)' /\ SnapshotInv(r)'
    BY <1>6 DEF OfferInv, SnapshotInv, Closing
  <2> QED
    BY <2>2, <2>3, <2>4, <2>5 DEF RunInv
<1> QED
  BY <1>6, <1>7, <1>8, <1>9, OneRun

LEMMA RegistryFailsStep ==
  ASSUME IInv, NEW r \in Runs, RegistryFails(r)
  PROVE  IInv'
<1> DEFINE e == SystemEvent("boot_registry_failed")
<1>1. /\ pc[r] = "mounting" /\ pc' = [pc EXCEPT ![r] = "failing"]
      /\ last_error' = [last_error EXCEPT ![r] = "Registry fail"]
      /\ Log(r, e) /\ UNCHANGED <<environmentVars, brain, brain_kind, mountVars, callVars>>
  BY DEF RegistryFails, At, Goto
<1>2. e \in Events /\ e.event = "boot_registry_failed"
  BY DEF Events, SystemEvent
<1>3. /\ Len(reported[r]) = 2 /\ reported[r][2] = Selected("wasm")
      /\ \A n \in DOMAIN reported[r] :
           reported[r][n].event \notin Closing /\ ~IsStart(reported[r][n]) /\ ~IsEnd(reported[r][n])
  BY <1>1 DEF IInv, RunInv, TrailInv, BootPhases
<1> HIDE DEF e
<1>4. Follows(reported[r], e)
  <2>1. 2 \in DOMAIN reported[r]
    BY <1>3, TrailFacts
  <2> QED
    BY <1>2, <1>3, <2>1 DEF Follows, IsStart, IsEnd
<1>5. /\ SinkTypeOK(Events)' /\ SinkInv'
      /\ ReadsAsABoot(reported'[r])
      /\ \A n \in DOMAIN reported'[r] :
           ~IsEnd(reported'[r][n]) /\ reported'[r][n].event # "status_snapshot"
      /\ \A q \in Runs \ {r} : reported'[q] = reported[q] /\ stream'[q] = stream[q]
  <2>1. /\ SinkTypeOK(Events)' /\ SinkInv'
        /\ ReadsAsABoot(reported'[r])
        /\ reported'[r][Len(reported[r]) + 1] = e
        /\ \A n \in DOMAIN reported[r] : reported'[r][n] = reported[r][n]
        /\ \A n \in DOMAIN reported'[r] : n \in DOMAIN reported[r] \/ n = Len(reported[r]) + 1
        /\ \A q \in Runs \ {r} : reported'[q] = reported[q] /\ stream'[q] = stream[q]
    BY <1>1, <1>2, <1>4, LoggedTrail
  <2> QED
    BY <1>2, <1>3, <2>1 DEF IsEnd, Closing
<1>6. TypeOK'
  BY <1>1, <1>5 DEF IInv, TypeOK, BootPhases
<1>7. \A q \in Runs \ {r} : UNCHANGED Local(q)
  BY <1>1, <1>5 DEF IInv, TypeOK, Local
<1>8. RunInv(r)'
  <2>1. pc'[r] = "failing"
    BY <1>1 DEF IInv, TypeOK
  <2>2. TrailInv(r)'
    BY <1>5, <2>1 DEF TrailInv, Serving, BootPhases
  <2>3. BrainInv(r)' /\ MountInv(r)' /\ CallInv(r)'
    BY <1>1, <2>1 DEF IInv, RunInv, BrainInv, MountInv, CallInv, BootPhases, Serving
  <2>4. OfferInv(r)' /\ SnapshotInv(r)'
    BY <1>5 DEF OfferInv, SnapshotInv
  <2> QED
    BY <2>2, <2>3, <2>4 DEF RunInv
<1> QED
  BY <1>5, <1>6, <1>7, <1>8, OneRun

LEMMA SnapshotIsEvent ==
  ASSUME IInv, NEW r \in Runs, pc[r] = "mounted"
  PROVE  Snapshot(r) \in Events
<1>1. /\ last_error[r] \in {"none", "llama_cpp init failed"}
      /\ executor_type[r] \in {"stub", "wasm"}
      /\ brain_kind[r] \in {"mock", "llama_cpp", "mock_fallback"}
  BY DEF IInv, TypeOK, RunInv, BrainInv, BootPhases
<1>2. Snapshot(r) \in [event : {"status_snapshot"}, executor : {"stub", "wasm"},
                       brain : {"mock", "llama_cpp", "mock_fallback"},
                       error : {"none", "llama_cpp init failed"}]
  BY <1>1 DEF Snapshot
<1> QED
  BY <1>2, EventParts

(* The snapshot is taken of what is mounted, before the run ends. *)
LEMMA ReportStatusStep ==
  ASSUME IInv, NEW r \in Runs, ReportStatus(r)
  PROVE  IInv'
<1> DEFINE e == Snapshot(r)
<1>1. /\ pc[r] = "mounted" /\ pc' = [pc EXCEPT ![r] = "ending"]
      /\ Log(r, e) /\ UNCHANGED <<environmentVars, brainVars, mountVars, callVars>>
  BY DEF ReportStatus, At, Goto
<1>2. /\ executor[r] = executor_type[r]
      /\ (brain_kind[r] = "llama_cpp") <=> (brain[r] = "llama")
      /\ (last_error[r] # "none") <=> (brain_kind[r] = "mock_fallback")
  BY <1>1 DEF IInv, RunInv, BrainInv, MountInv, Serving
<1>3. e \in Events /\ e.event = "status_snapshot"
  BY <1>1, SnapshotIsEvent DEF Snapshot
<1>4. /\ e.executor = executor[r]
      /\ (e.brain = "llama_cpp") <=> (brain[r] = "llama")
      /\ (e.error # "none") <=> (e.brain = "mock_fallback")
  BY <1>2 DEF Snapshot
<1>5. /\ Len(reported[r]) > 1
      /\ \A n \in DOMAIN reported[r] :
           reported[r][n].event \notin Closing /\ ~IsStart(reported[r][n]) /\ ~IsEnd(reported[r][n])
  BY <1>1 DEF IInv, RunInv, TrailInv, BootPhases, Serving
<1> HIDE DEF e
<1>6. Follows(reported[r], e)
  <2>1. Len(reported[r]) \in DOMAIN reported[r] /\ Len(reported[r]) \in Nat
    BY <1>5, TrailFacts
  <2> QED
    BY <1>3, <1>5, <2>1 DEF Follows, IsStart, IsEnd
<1>7. /\ SinkTypeOK(Events)' /\ SinkInv'
      /\ ReadsAsABoot(reported'[r])
      /\ \A n \in DOMAIN reported'[r] :
           \/ reported'[r][n] = e
           \/ ~IsEnd(reported'[r][n]) /\ reported'[r][n].event # "status_snapshot"
      /\ \A q \in Runs \ {r} : reported'[q] = reported[q] /\ stream'[q] = stream[q]
  <2>1. /\ SinkTypeOK(Events)' /\ SinkInv'
        /\ ReadsAsABoot(reported'[r])
        /\ reported'[r][Len(reported[r]) + 1] = e
        /\ \A n \in DOMAIN reported[r] : reported'[r][n] = reported[r][n]
        /\ \A n \in DOMAIN reported'[r] : n \in DOMAIN reported[r] \/ n = Len(reported[r]) + 1
        /\ \A q \in Runs \ {r} : reported'[q] = reported[q] /\ stream'[q] = stream[q]
    BY <1>1, <1>3, <1>6, LoggedTrail
  <2> QED
    BY <1>5, <2>1 DEF Closing
<1>8. TypeOK'
  BY <1>1, <1>7 DEF IInv, TypeOK, BootPhases
<1>9. \A q \in Runs \ {r} : UNCHANGED Local(q)
  BY <1>1, <1>7 DEF IInv, TypeOK, Local
<1>10. RunInv(r)'
  <2>1. pc'[r] = "ending"
    BY <1>1 DEF IInv, TypeOK
  <2>2. TrailInv(r)'
    BY <1>7, <2>1 DEF TrailInv, Serving, BootPhases
  <2>3. BrainInv(r)' /\ MountInv(r)' /\ CallInv(r)'
    BY <1>1, <2>1 DEF IInv, RunInv, BrainInv, MountInv, CallInv, BootPhases, Serving
  <2>4. OfferInv(r)'
    BY <1>3, <1>7 DEF OfferInv, IsEnd
  <2>5. SnapshotInv(r)'
    BY <1>1, <1>4, <1>7 DEF SnapshotInv
  <2> QED
    BY <2>2, <2>3, <2>4, <2>5 DEF RunInv
<1> QED
  BY <1>7, <1>8, <1>9, <1>10, OneRun

(* The process ends, by itself or not. *)
LEMMA EndStep ==
  ASSUME IInv, NEW r \in Runs, Return(r) \/ Crash(r)
  PROVE  IInv'
<1>1. /\ pc[r] # "unborn"
      /\ pc' \in {[pc EXCEPT ![r] = "exited"], [pc EXCEPT ![r] = "dead"]}
      /\ UNCHANGED <<environmentVars, brainVars, mountVars, callVars>>
  BY DEF Return, Crash, Goto, Live
<1>2. SinkTypeOK(Events)' /\ SinkInv'
  <2>1. SinkTypeOK(Events) /\ SinkInv
    BY DEF IInv, TypeOK
  <2>2. CASE Return(r)
    BY <2>1, <2>2, CloseInv DEF Return
  <2>3. CASE Crash(r)
    BY <2>1, <2>3, VanishInv DEF Crash
  <2> QED
    BY <2>2, <2>3
<1>3. reported' = reported /\ stream' = [stream EXCEPT ![r] = "closed"]
  BY DEF Return, Crash, Close, Vanish
<1>4. TypeOK'
  BY <1>1, <1>2 DEF IInv, TypeOK, Over
<1>5. \A q \in Runs \ {r} : UNCHANGED Local(q)
  BY <1>1, <1>3 DEF IInv, TypeOK, SinkTypeOK, Local
<1>6. RunInv(r)'
  <2>1. pc'[r] \in Over
    BY <1>1 DEF IInv, TypeOK, Over
  <2>2. TrailInv(r)'
    BY <1>3, <2>1 DEF IInv, RunInv, TrailInv, Serving, BootPhases, Over
  <2>3. BrainInv(r)' /\ MountInv(r)' /\ CallInv(r)'
    BY <1>1, <2>1 DEF IInv, RunInv, BrainInv, MountInv, CallInv, BootPhases, Serving, Over
  <2>4. OfferInv(r)' /\ SnapshotInv(r)'
    BY <1>1, <1>3 DEF IInv, RunInv, OfferInv, SnapshotInv
  <2> QED
    BY <2>2, <2>3, <2>4 DEF RunInv
<1> QED
  BY <1>2, <1>4, <1>5, <1>6, OneRun

LEMMA PowerFailsStep ==
  ASSUME IInv, PowerFails
  PROVE  IInv'
<1>1. /\ LosePower
      /\ pc' = [r \in Runs |-> IF Live(r) THEN "dead" ELSE pc[r]]
      /\ UNCHANGED <<environmentVars, brainVars, mountVars, callVars>>
  BY DEF PowerFails
<1>2. SinkTypeOK(Events)' /\ SinkInv'
  BY <1>1, LosePowerInv DEF IInv, TypeOK
<1>3. reported' = reported /\ stream' = [r \in Runs |-> "closed"]
  BY <1>1 DEF LosePower
<1>4. TypeOK'
  BY <1>1, <1>2 DEF IInv, TypeOK, Over
<1>5. ASSUME NEW r \in Runs PROVE RunInv(r)'
  <2>1. pc'[r] \in Over \/ (pc[r] = "unborn" /\ pc'[r] = "unborn")
    BY <1>1 DEF IInv, TypeOK, Live, Over
  <2>2. stream'[r] = "closed"
    BY <1>3
  <2>3. TrailInv(r)'
    BY <1>3, <2>1, <2>2 DEF IInv, RunInv, TrailInv, Serving, BootPhases, Over
  <2>4. BrainInv(r)' /\ MountInv(r)' /\ CallInv(r)'
    BY <1>1, <2>1 DEF IInv, RunInv, BrainInv, MountInv, CallInv, BootPhases, Serving, Over
  <2>5. OfferInv(r)' /\ SnapshotInv(r)'
    BY <1>1, <1>3 DEF IInv, RunInv, OfferInv, SnapshotInv
  <2> QED
    BY <2>3, <2>4, <2>5 DEF RunInv
<1> QED
  BY <1>2, <1>4, <1>5 DEF IInv

(* Execute begins: the request is the brain's, the policy the one mounted. *)
LEMMA CallStep ==
  ASSUME IInv, NEW r \in Runs, NEW q \in Asked, Call(r, q)
  PROVE  IInv'
<1> DEFINE e == Started(q)
           p == RequestFor(r, q)
<1>1. /\ pc[r] = "loop" /\ pc' = [pc EXCEPT ![r] = "call"]
      /\ request' = [request EXCEPT ![r] = p]
      /\ outcome' = [outcome EXCEPT ![r] = None]
      /\ Log(r, e) /\ UNCHANGED <<environmentVars, brainVars, mountVars>>
  BY DEF Call, At, Goto
<1>2. e \in Events /\ e.event = "execution_start"
  BY EventParts DEF Started
<1>3. p.allowed_exports = system_policy[r] /\ Started(p) = e
  BY DEF RequestFor, Started
<1>4. p \in Requests
  BY <1>1 DEF RequestFor, Requests, IInv, RunInv, MountInv, Serving
<1> HIDE DEF e, p
<1>5. /\ Len(reported[r]) > 1
      /\ reported[r][2] = Selected("stub")
           \/ (Len(reported[r]) > 2 /\ reported[r][3].event = "boot_registry_loaded")
      /\ \A n \in DOMAIN reported[r] : reported[r][n].event \notin Closing
      /\ ~IsStart(reported[r][Len(reported[r])])
  BY <1>1 DEF IInv, RunInv, TrailInv, Serving
<1>6. Follows(reported[r], e)
  <2>1. Len(reported[r]) \in DOMAIN reported[r] /\ Len(reported[r]) \in Nat
    BY <1>5, TrailFacts
  <2> QED
    BY <1>2, <1>5, <2>1 DEF Follows, IsStart, IsEnd
<1>7. /\ SinkTypeOK(Events)' /\ SinkInv'
      /\ ReadsAsABoot(reported'[r])
      /\ Len(reported[r]) \in Nat /\ Len(reported'[r]) = Len(reported[r]) + 1
      /\ DOMAIN reported[r] = 1..Len(reported[r])
      /\ reported'[r][Len(reported[r]) + 1] = e
      /\ \A n \in DOMAIN reported[r] : reported'[r][n] = reported[r][n]
      /\ \A n \in DOMAIN reported'[r] : n \in DOMAIN reported[r] \/ n = Len(reported[r]) + 1
      /\ \A x \in Runs \ {r} : reported'[x] = reported[x] /\ stream'[x] = stream[x]
  BY <1>1, <1>2, <1>6, LoggedTrail
<1>8. \A n \in DOMAIN reported'[r] :
        \/ n \in DOMAIN reported[r] /\ reported'[r][n] = reported[r][n]
        \/ reported'[r][n] = e
  BY <1>7
<1>9. TypeOK'
  BY <1>1, <1>4, <1>7 DEF IInv, TypeOK
<1>10. \A x \in Runs \ {r} : UNCHANGED Local(x)
  BY <1>1, <1>7 DEF IInv, TypeOK, Local
<1>11. RunInv(r)'
  <2>1. pc'[r] = "call" /\ request'[r] = p /\ outcome'[r] = None
    BY <1>1 DEF IInv, TypeOK
  <2>2. TrailInv(r)'
    <3>1. \A n \in DOMAIN reported'[r] : reported'[r][n].event \notin Closing
      BY <1>2, <1>5, <1>8 DEF Closing
    <3>2. /\ Len(reported'[r]) > 1
          /\ reported'[r][2] = Selected("stub")
               \/ (Len(reported'[r]) > 2 /\ reported'[r][3].event = "boot_registry_loaded")
      <4>1. 2 \in DOMAIN reported[r] /\ (Len(reported[r]) > 2 => 3 \in DOMAIN reported[r])
        BY <1>5, <1>7
      <4> QED
        BY <1>5, <1>7, <4>1
    <3> QED
      BY <1>7, <2>1, <3>1, <3>2 DEF TrailInv, BootPhases
  <2>3. BrainInv(r)'
    BY <2>1 DEF BrainInv, BootPhases
  <2>4. MountInv(r)'
    BY <1>1, <2>1 DEF IInv, RunInv, MountInv, Serving
  <2>5. CallInv(r)'
    BY <1>1, <1>3, <1>4, <1>7, <2>1 DEF CallInv, BootPhases
  <2>6. OfferInv(r)'
    BY <1>1, <1>2, <1>8 DEF IInv, RunInv, OfferInv, IsEnd
  <2>7. SnapshotInv(r)'
    BY <1>1, <1>2, <1>5, <1>8 DEF SnapshotInv, Closing
  <2> QED
    BY <2>2, <2>3, <2>4, <2>5, <2>6, <2>7 DEF RunInv
<1> QED
  BY <1>7, <1>9, <1>10, <1>11, OneRun

(* What the stub answers under its own policy. *)
LEMMA StubAnswers ==
  ASSUME NEW q, q.allowed_exports = StubPolicy
  PROVE  Answer(q) \in IF <<q.module_name, q.function_name>> \in {<<"echo", "print">>}
                       THEN {"success", "InvalidArguments"}
                       ELSE {"CapabilityDenied"}
<1>1. PreFlightCheck(q) <=> q.module_name = "echo" /\ q.function_name = "print"
  <2>1. DOMAIN StubPolicy = {"echo"} /\ StubPolicy["echo"] = <<"print">>
    BY DEF StubPolicy
  <2>2. DOMAIN <<"print">> = {1} /\ <<"print">>[1] = "print"
    OBVIOUS
  <2> QED
    BY <2>1, <2>2, StubAssumption DEF PreFlightCheck
<1>2. CASE q.module_name = "echo" /\ q.function_name = "print"
  BY <1>1, <1>2 DEF Answer
<1>3. CASE ~(q.module_name = "echo" /\ q.function_name = "print")
  BY <1>1, <1>3 DEF Answer
<1> QED
  BY <1>2, <1>3

(* Execute answers, and logs the answer. *)
LEMMA AnswersStep ==
  ASSUME IInv, NEW r \in Runs, NEW o \in Outcomes, Answers(r, o)
  PROVE  IInv'
<1> DEFINE e == Ended(request[r], o)
<1>1. /\ pc[r] = "call" /\ pc' = [pc EXCEPT ![r] = "loop"]
      /\ executor[r] = "stub" => o = Answer(request[r])
      /\ request' = [request EXCEPT ![r] = None]
      /\ outcome' = [outcome EXCEPT ![r] = o]
      /\ Log(r, e) /\ UNCHANGED <<environmentVars, brainVars, mountVars>>
  BY DEF Answers, At, Goto
<1>2. /\ request[r] \in Requests /\ request[r].allowed_exports = system_policy[r]
      /\ reported[r][Len(reported[r])] = Started(request[r])
      /\ executor[r] = "stub" => /\ prompt_capabilities[r] = {<<"echo", "print">>}
                                 /\ system_policy[r] = StubPolicy
  BY <1>1 DEF IInv, RunInv, CallInv, MountInv, Serving
<1>3. e \in Events
  <2>1. PICK q \in Asked : /\ request[r].module_name = q.module_name
                           /\ request[r].function_name = q.function_name
    BY <1>2 DEF Requests
  <2>2. e = Ended(q, o)
    BY <2>1 DEF Ended
  <2> HIDE DEF e
  <2> QED
    BY <2>2, EventParts
<1>4. /\ IsEnd(e) /\ e.event \in {"execution_success", "execution_failure"}
      /\ e.module = request[r].module_name /\ e.function = request[r].function_name
      /\ e.outcome = o
  BY DEF Ended, IsEnd
<1> HIDE DEF e
<1>5. /\ Len(reported[r]) > 1
      /\ reported[r][2] = Selected("stub")
           \/ (Len(reported[r]) > 2 /\ reported[r][3].event = "boot_registry_loaded")
      /\ \A n \in DOMAIN reported[r] : reported[r][n].event \notin Closing
  BY <1>1 DEF IInv, RunInv, TrailInv, Serving
<1>6. Follows(reported[r], e)
  <2>1. Len(reported[r]) \in DOMAIN reported[r] /\ Len(reported[r]) \in Nat
    BY <1>5, TrailFacts
  <2>2. LET s == reported[r][Len(reported[r])] IN
        IsStart(s) /\ s.module = e.module /\ s.function = e.function
    BY <1>2, <1>4 DEF Started, IsStart
  <2> QED
    BY <1>4, <1>5, <2>1, <2>2 DEF Follows, IsStart
<1>7. /\ SinkTypeOK(Events)' /\ SinkInv'
      /\ ReadsAsABoot(reported'[r])
      /\ Len(reported[r]) \in Nat /\ Len(reported'[r]) = Len(reported[r]) + 1
      /\ DOMAIN reported[r] = 1..Len(reported[r])
      /\ reported'[r][Len(reported[r]) + 1] = e
      /\ \A n \in DOMAIN reported[r] : reported'[r][n] = reported[r][n]
      /\ \A n \in DOMAIN reported'[r] : n \in DOMAIN reported[r] \/ n = Len(reported[r]) + 1
      /\ \A x \in Runs \ {r} : reported'[x] = reported[x] /\ stream'[x] = stream[x]
  BY <1>1, <1>3, <1>6, LoggedTrail
<1>8. \A n \in DOMAIN reported'[r] :
        \/ n \in DOMAIN reported[r] /\ reported'[r][n] = reported[r][n]
        \/ reported'[r][n] = e
  BY <1>7
<1>9. TypeOK'
  BY <1>1, <1>7 DEF IInv, TypeOK
<1>10. \A x \in Runs \ {r} : UNCHANGED Local(x)
  BY <1>1, <1>7 DEF IInv, TypeOK, Local
<1>11. RunInv(r)'
  <2>1. pc'[r] = "loop" /\ request'[r] = None
    BY <1>1 DEF IInv, TypeOK
  <2>2. TrailInv(r)'
    <3>1. \A n \in DOMAIN reported'[r] : reported'[r][n].event \notin Closing
      BY <1>4, <1>5, <1>8 DEF Closing
    <3>2. /\ Len(reported'[r]) > 1
          /\ reported'[r][2] = Selected("stub")
               \/ (Len(reported'[r]) > 2 /\ reported'[r][3].event = "boot_registry_loaded")
      <4>1. 2 \in DOMAIN reported[r] /\ (Len(reported[r]) > 2 => 3 \in DOMAIN reported[r])
        BY <1>5, <1>7
      <4> QED
        BY <1>5, <1>7, <4>1
    <3>3. ~IsStart(reported'[r][Len(reported'[r])])
      BY <1>4, <1>7 DEF IsStart
    <3> QED
      BY <1>7, <2>1, <3>1, <3>2, <3>3 DEF TrailInv, BootPhases
  <2>3. BrainInv(r)'
    BY <2>1 DEF BrainInv, BootPhases
  <2>4. MountInv(r)'
    BY <1>1, <2>1 DEF IInv, RunInv, MountInv, Serving
  <2>5. CallInv(r)'
    BY <2>1 DEF CallInv, BootPhases
  <2>6. OfferInv(r)'
    <3>1. executor[r] = "stub" =>
            e.outcome \in IF <<e.module, e.function>> \in prompt_capabilities[r]
                          THEN {"success", "InvalidArguments"}
                          ELSE {"CapabilityDenied"}
      BY <1>1, <1>2, <1>4, StubAnswers
    <3> QED
      BY <1>1, <1>8, <3>1 DEF IInv, RunInv, OfferInv
  <2>7. SnapshotInv(r)'
    BY <1>1, <1>4, <1>5, <1>8 DEF SnapshotInv, Closing
  <2> QED
    BY <2>2, <2>3, <2>4, <2>5, <2>6, <2>7 DEF RunInv
<1> QED
  BY <1>7, <1>9, <1>10, <1>11, OneRun

LEMMA NextIInv ==
  ASSUME IInv, [Next]_vars
  PROVE  IInv'
<1>1. CASE Next
  <2>1. CASE PowerFails
    BY <2>1, PowerFailsStep
  <2>2. ASSUME NEW r \in Runs, Start(r) PROVE IInv'
    BY <2>2, StartStep
  <2>3. ASSUME NEW r \in Runs, Stop(r) PROVE IInv'
    BY <2>3, SilentStep
  <2>4. ASSUME NEW r \in Runs, Crash(r) PROVE IInv'
    BY <2>4, EndStep
  <2>5. ASSUME NEW r \in Runs, NEW q \in Asked, Call(r, q) PROVE IInv'
    BY <2>5, CallStep
  <2>6. ASSUME NEW r \in Runs, MainStep(r) PROVE IInv'
    <3>1. CASE SelectMock(r) \/ SelectLlama(r) \/ FallBackToMock(r) \/ MountThrows(r) \/ EnterLoop(r)
      BY <3>1, SilentStep
    <3>2. CASE BootStart(r)
      BY <3>2, BootStartStep
    <3>3. CASE MountStub(r) \/ SelectWasm(r) \/ MountWasm(r)
      BY <3>3, MountStubStep, SelectWasmStep, MountWasmStep
    <3>4. CASE RegistryFails(r) \/ ReportStatus(r) \/ Return(r)
      BY <3>4, RegistryFailsStep, ReportStatusStep, EndStep
    <3>5. ASSUME NEW o \in Outcomes, Answers(r, o) PROVE IInv'
      BY <3>5, AnswersStep
    <3> QED
      BY <2>6, <3>1, <3>2, <3>3, <3>4, <3>5 DEF MainStep
  <2> QED
    BY <1>1, <2>1, <2>2, <2>3, <2>4, <2>5, <2>6 DEF Next
<1>2. CASE UNCHANGED vars
  <2>1. SinkTypeOK(Events)' /\ SinkInv'
    BY <1>2, SinkUnchanged DEF IInv, TypeOK, vars
  <2>2. TypeOK'
    BY <1>2, <2>1 DEF IInv, TypeOK, vars
  <2>3. ASSUME NEW r \in Runs PROVE RunInv(r)'
    <3>1. UNCHANGED Local(r)
      BY <1>2 DEF vars, sinkVars, Local
    <3> QED
      BY <3>1, LeftAlone DEF IInv
  <2> QED
    BY <2>1, <2>2, <2>3 DEF IInv
<1> QED
  BY <1>1, <1>2

-----------------------------------------------------------------------------
(* The contract of the executor, seen through the events of a run.         *)
LastOutcome(s) == IF Len(s) > 0 /\ IsEnd(s[Len(s)]) THEN s[Len(s)].outcome ELSE None

LEMMA ContractKept ==
  ASSUME NEW r \in Runs, request'[r] = request[r], outcome'[r] = outcome[r],
         LastOutcome(reported'[r]) = LastOutcome(reported[r])
  PROVE  UNCHANGED Contract(r)!vars
BY DEF Contract!vars, LastOutcome

LEMMA BootKeepsContract ==
  ASSUME IInv, NEW r \in Runs, pc[r] \in BootPhases, NEW e \in Events, Log(r, e), ~IsEnd(e),
         UNCHANGED callVars
  PROVE  UNCHANGED Contract(r)!vars
<1>1. reported'[r] = Append(reported[r], e) /\ reported[r] \in Seq(Events)
  BY LogFacts DEF IInv
<1>2. Len(reported'[r]) > 0 /\ reported'[r][Len(reported'[r])] = e
  BY <1>1
<1>3. LastOutcome(reported'[r]) = None
  BY <1>2 DEF LastOutcome
<1>4. LastOutcome(reported[r]) = None
  <2>1. Len(reported[r]) > 0 => Len(reported[r]) \in DOMAIN reported[r]
    BY <1>1
  <2> QED
    BY <2>1 DEF LastOutcome, IInv, RunInv, TrailInv
<1> QED
  BY <1>3, <1>4, ContractKept

LEMMA ContractCall ==
  ASSUME IInv, NEW r \in Runs, NEW q \in Asked, Call(r, q)
  PROVE  Contract(r)!Next
<1>1. /\ pc[r] = "loop" /\ Log(r, Started(q))
      /\ request'[r] = RequestFor(r, q) /\ outcome'[r] = None
  BY DEF Call, At, IInv, TypeOK
<1>2. request[r] = None
  BY <1>1 DEF IInv, RunInv, CallInv
<1>3. RequestFor(r, q) \in Requests
  BY <1>1 DEF RequestFor, Requests, IInv, RunInv, MountInv, Serving
<1>4. reported'[r] = Append(reported[r], Started(q)) /\ reported[r] \in Seq(Events)
  BY <1>1, LogFacts, EventParts DEF IInv
<1>5. LastOutcome(reported'[r]) = None
  <2>1. reported'[r][Len(reported'[r])] = Started(q)
    BY <1>4
  <2>2. ~IsEnd(Started(q))
    BY DEF Started, IsEnd
  <2> QED
    BY <2>1, <2>2 DEF LastOutcome
<1>6. Contract(r)!Start(RequestFor(r, q))
  BY <1>1, <1>2, <1>5 DEF Contract!Start, LastOutcome
<1> QED
  BY <1>3, <1>6 DEF Contract!Next

LEMMA ContractAnswer ==
  ASSUME IInv, NEW r \in Runs, NEW o \in Outcomes, Answers(r, o)
  PROVE  Contract(r)!Next
<1> DEFINE e == Ended(request[r], o)
<1>1. /\ pc[r] = "call" /\ Log(r, e)
      /\ request'[r] = None /\ outcome'[r] = o
  BY DEF Answers, At, IInv, TypeOK
<1>2. request[r] \in Requests /\ request[r] # None
  BY <1>1, ProcessAssumption DEF IInv, RunInv, CallInv
<1>3. e \in Events
  <2>1. PICK q \in Asked : /\ request[r].module_name = q.module_name
                           /\ request[r].function_name = q.function_name
    BY <1>2 DEF Requests
  <2>2. e = Ended(q, o)
    BY <2>1 DEF Ended
  <2> HIDE DEF e
  <2> QED
    BY <2>2, EventParts
<1>4. IsEnd(e) /\ e.outcome = o
  BY DEF Ended, IsEnd
<1> HIDE DEF e
<1>5. reported'[r] = Append(reported[r], e) /\ reported[r] \in Seq(Events)
  BY <1>1, <1>3, LogFacts DEF IInv
<1>6. Len(reported'[r]) > 0 /\ reported'[r][Len(reported'[r])] = e
  BY <1>5
<1>7. Contract(r)!Return(o)
  BY <1>1, <1>2, <1>4, <1>6 DEF Contract!Return
<1> QED
  BY <1>7 DEF Contract!Next

(* What a run does is not seen in the calls and the trail of another. *)
OfRun(x) ==
  \/ Start(x) \/ Stop(x) \/ Crash(x)
  \/ \E q \in Asked : Call(x, q)
  \/ MainStep(x)

LEMMA OthersKeepContract ==
  ASSUME IInv, NEW x \in Runs, NEW r \in Runs, r # x, OfRun(x)
  PROVE  UNCHANGED Contract(r)!vars
<1>1. /\ DOMAIN reported = Runs /\ DOMAIN request = Runs /\ DOMAIN outcome = Runs
  BY DEF IInv, TypeOK, SinkTypeOK
<1>2. ASSUME NEW e, Log(x, e) PROVE reported'[r] = reported[r]
  BY <1>1, <1>2 DEF Log
<1>3. CASE BootStart(x) \/ MountStub(x) \/ SelectWasm(x) \/ MountWasm(x) \/ RegistryFails(x)
           \/ ReportStatus(x)
  <2>1. UNCHANGED callVars
    BY <1>3 DEF BootStart, MountStub, SelectWasm, MountWasm, RegistryFails, ReportStatus
  <2>2. PICK e : Log(x, e)
    BY <1>3 DEF BootStart, MountStub, SelectWasm, MountWasm, RegistryFails, ReportStatus
  <2> QED
    BY <1>2, <2>1, <2>2, ContractKept
<1>4. CASE Start(x) \/ Stop(x) \/ Crash(x) \/ SelectMock(x) \/ SelectLlama(x) \/ FallBackToMock(x)
           \/ MountThrows(x) \/ EnterLoop(x) \/ Return(x)
  <2>1. UNCHANGED callVars
    BY <1>4 DEF Start, Stop, Crash, SelectMock, SelectLlama, FallBackToMock, MountThrows,
                EnterLoop, Return
  <2>2. reported' = reported
    BY <1>4 DEF Start, Stop, Crash, SelectMock, SelectLlama, FallBackToMock, MountThrows,
                EnterLoop, Return, Open, Vanish, Close, sinkVars
  <2> QED
    BY <2>1, <2>2, ContractKept
<1>5. ASSUME NEW q \in Asked, Call(x, q) PROVE UNCHANGED Contract(r)!vars
  <2>1. request'[r] = request[r] /\ outcome'[r] = outcome[r] /\ Log(x, Started(q))
    BY <1>1, <1>5 DEF Call
  <2> QED
    BY <1>2, <2>1, ContractKept
<1>6. ASSUME NEW o \in Outcomes, Answers(x, o) PROVE UNCHANGED Contract(r)!vars
  <2>1. request'[r] = request[r] /\ outcome'[r] = outcome[r] /\ Log(x, Ended(request[x], o))
    BY <1>1, <1>6 DEF Answers
  <2> QED
    BY <1>2, <2>1, ContractKept
<1> QED
  BY <1>3, <1>4, <1>5, <1>6 DEF OfRun, MainStep

LEMMA OwnKeepsContract ==
  ASSUME IInv, NEW r \in Runs, OfRun(r)
  PROVE  Contract(r)!Next \/ UNCHANGED Contract(r)!vars
<1>1. CASE Start(r) \/ Stop(r) \/ Crash(r) \/ SelectMock(r) \/ SelectLlama(r) \/ FallBackToMock(r)
           \/ MountThrows(r) \/ EnterLoop(r) \/ Return(r)
  <2>1. UNCHANGED callVars
    BY <1>1 DEF Start, Stop, Crash, SelectMock, SelectLlama, FallBackToMock, MountThrows,
                EnterLoop, Return
  <2>2. reported' = reported
    BY <1>1 DEF Start, Stop, Crash, SelectMock, SelectLlama, FallBackToMock, MountThrows,
                EnterLoop, Return, Open, Vanish, Close, sinkVars
  <2> QED
    BY <2>1, <2>2, ContractKept
<1>2. ASSUME NEW k \in {"boot_start", "boot_registry_loaded", "boot_registry_failed"}
      PROVE  SystemEvent(k) \in Events /\ ~IsEnd(SystemEvent(k))
  BY EventParts DEF SystemEvent, IsEnd
<1>3. ASSUME NEW y \in {"stub", "wasm"}
      PROVE  Selected(y) \in Events /\ ~IsEnd(Selected(y))
  BY EventParts DEF Selected, IsEnd
<1>4. CASE BootStart(r) \/ MountWasm(r) \/ RegistryFails(r)
  <2>1. PICK k \in {"boot_start", "boot_registry_loaded", "boot_registry_failed"} :
          Log(r, SystemEvent(k))
    BY <1>4 DEF BootStart, MountWasm, RegistryFails
  <2>2. pc[r] \in BootPhases /\ UNCHANGED callVars
    BY <1>4 DEF BootStart, MountWasm, RegistryFails, At, BootPhases
  <2> QED
    BY <1>2, <2>1, <2>2, BootKeepsContract
<1>5. CASE MountStub(r) \/ SelectWasm(r)
  <2>1. PICK y \in {"stub", "wasm"} : Log(r, Selected(y))
    BY <1>5 DEF MountStub, SelectWasm
  <2>2. pc[r] \in BootPhases /\ UNCHANGED callVars
    BY <1>5 DEF MountStub, SelectWasm, At, BootPhases
  <2> QED
    BY <1>3, <2>1, <2>2, BootKeepsContract
<1>6. CASE ReportStatus(r)
  <2>1. pc[r] = "mounted" /\ Log(r, Snapshot(r)) /\ UNCHANGED callVars
    BY <1>6 DEF ReportStatus, At
  <2>2. Snapshot(r) \in Events
    BY <2>1, SnapshotIsEvent
  <2>3. ~IsEnd(Snapshot(r))
    BY DEF Snapshot, IsEnd
  <2>4. pc[r] \in BootPhases
    BY <2>1 DEF BootPhases
  <2> QED
    BY <2>1, <2>2, <2>3, <2>4, BootKeepsContract
<1>7. ASSUME NEW q \in Asked, Call(r, q) PROVE Contract(r)!Next
  BY <1>7, ContractCall
<1>8. ASSUME NEW o \in Outcomes, Answers(r, o) PROVE Contract(r)!Next
  BY <1>8, ContractAnswer
<1> QED
  BY <1>1, <1>4, <1>5, <1>6, <1>7, <1>8 DEF OfRun, MainStep

LEMMA ContractStep ==
  ASSUME IInv, [Next]_vars, NEW r \in Runs
  PROVE  Contract(r)!Next \/ UNCHANGED Contract(r)!vars
<1>1. CASE UNCHANGED vars
  BY <1>1, ContractKept DEF vars, sinkVars
<1>2. CASE PowerFails
  BY <1>2, ContractKept DEF PowerFails, LosePower
<1>3. ASSUME NEW x \in Runs, OfRun(x)
      PROVE  Contract(r)!Next \/ UNCHANGED Contract(r)!vars
  BY <1>3, OthersKeepContract, OwnKeepsContract
<1> QED
  BY <1>1, <1>2, <1>3 DEF Next, OfRun

-----------------------------------------------------------------------------
(* IInv holds in every state the kernel, its crashes and the power reach.  *)
THEOREM KernelInductive == Spec => []IInv
<1> QED
  BY InitIInv, NextIInv, PTL DEF Spec

(* Main, its environment and every record of the audit file keep their     *)
(* types: no run goes on to serve without an executor and a policy.        *)
THEOREM KernelTypeCorrect == Spec => []TypeOK
<1>1. IInv => TypeOK
  BY DEF IInv
<1> QED
  BY <1>1, KernelInductive, PTL

(* What the file keeps of a run is a prefix of what the run has reported,  *)
(* whatever short writes, crashes, overlapping runs and power losses there *)
(* were.                                                                   *)
THEOREM FileKeepsPrefixes == Spec => []RecordsAreAPrefix
<1>1. IInv => RecordsAreAPrefix
  BY DEF IInv, SinkInv
<1> QED
  BY <1>1, KernelInductive, PTL

(* Every run of main.cpp tells its boot and its calls in the one order.    *)
THEOREM RunsReadAsBoots == Spec => []EveryRunReadsAsABoot
<1>1. IInv => EveryRunReadsAsABoot
  BY DEF IInv, RunInv, TrailInv, EveryRunReadsAsABoot
<1> QED
  BY <1>1, KernelInductive, PTL

(* A call that is being executed is in the file before it runs, so that a  *)
(* crash inside it can be named.                                           *)
THEOREM CallsAreOnRecord == Spec => []RunningCallIsOnRecord
<1>1. ASSUME IInv PROVE RunningCallIsOnRecord
  <2> SUFFICES ASSUME NEW r \in Runs, pc[r] = "call", stream[r] = "good"
               PROVE  \E i \in DOMAIN file :
                        /\ file[i].run = r /\ file[i].n = Len(reported[r]) /\ file[i].whole
                        /\ file[i].event = Started(request[r])
                        /\ Legible(i) \/ file[i - 1].run # r
    BY DEF RunningCallIsOnRecord
  <2>1. /\ Len(reported[r]) > 0
        /\ reported[r][Len(reported[r])] = Started(request[r])
    BY <1>1, TrailFacts DEF IInv, RunInv, TrailInv, CallInv, Serving
  <2>2. /\ RecordsAreAPrefix
        /\ \A i \in DOMAIN file : file[i].run = r => file[i].whole
    BY <1>1 DEF IInv, SinkInv, GoodInv
  <2>3. PICK i \in DOMAIN file : file[i].run = r /\ file[i].n = Len(reported[r])
    BY <1>1, <2>1 DEF IInv, SinkInv, GoodInv
  <2>4. file[i].whole /\ file[i].event = Started(request[r])
    BY <2>1, <2>2, <2>3 DEF RecordsAreAPrefix
  <2>5. i # 1 => i - 1 \in DOMAIN file
    <3>1. file \in Seq(Fragments(Events))
      BY <1>1 DEF IInv, TypeOK, SinkTypeOK
    <3> QED
      BY <3>1
  <2>6. Legible(i) \/ file[i - 1].run # r
    BY <2>2, <2>4, <2>5 DEF Legible
  <2> QED
    BY <2>3, <2>4, <2>6
<1> QED
  BY <1>1, KernelInductive, PTL

(* The stub, its policy and its prompt agree on echo::print.               *)
THEOREM StubServesItsOffer == Spec => []OfferedCallsAreServed
<1>1. IInv => OfferedCallsAreServed
  BY DEF IInv, RunInv, OfferInv, OfferedCallsAreServed
<1> QED
  BY <1>1, KernelInductive, PTL

(* A status snapshot names the brain and the executor that are mounted.    *)
THEOREM SnapshotsAreTrue == Spec => []SnapshotIsTrue
<1>1. IInv => SnapshotIsTrue
  BY DEF IInv, RunInv, SnapshotInv, SnapshotIsTrue
<1> QED
  BY <1>1, KernelInductive, PTL

(* Seen through its events, every run keeps the contract of IExecutor.     *)
THEOREM RunsKeepContract == Spec => TrailsKeepContract
<1>1. Init => \A r \in Runs : Contract(r)!Init
  <2> SUFFICES ASSUME Init, NEW r \in Runs PROVE Contract(r)!Init
    OBVIOUS
  <2>1. request[r] = None /\ outcome[r] = None /\ reported[r] = <<>>
    BY DEF Init, SinkInit
  <2>2. LastOutcome(reported[r]) = None
    BY <2>1 DEF LastOutcome
  <2> QED
    BY <2>1, <2>2 DEF Contract!Init, LastOutcome
<1>2. IInv /\ [Next]_vars => \A r \in Runs : Contract(r)!Next \/ UNCHANGED Contract(r)!vars
  BY ContractStep
<1> QED
  BY <1>1, <1>2, KernelInductive, PTL DEF Spec, TrailsKeepContract

-----------------------------------------------------------------------------
(***************************************************************************)
(* Why a run comes to an end, or to its operator.  StepsAhead bounds the   *)
(* steps main can still take by itself from where it stands; in the loop,  *)
(* and when the run is over, there is none.                                *)
(***************************************************************************)
StepsAhead(phase) ==
  CASE phase = "boot_start" -> 6
    [] phase = "brain" -> 5
    [] phase = "executor" -> 4
    [] phase = "mounting" -> 3
    [] phase = "mounted" -> 2
    [] phase \in {"call", "failing", "ending"} -> 1
    [] OTHER -> 0

(* Every step main takes by itself brings the run nearer to its end or its *)
(* operator, and no other run, crash or loss of power takes it away again: *)
(* a run is set going only by its start and by its operator, and by the    *)
(* latter only when it is no status run.                                   *)
WaitsOnlyForTheOperator ==
  [][\A r \in Runs :
       /\ MainStep(r) => StepsAhead(pc'[r]) < StepsAhead(pc[r])
       /\ StepsAhead(pc'[r]) > StepsAhead(pc[r]) =>
            \/ Start(r)
            \/ ~status_mode[r] /\ (Stop(r) \/ \E q \in Asked : Call(r, q))]_vars

(* What it takes of the invariant: a status run never reaches the loop.    *)
StatusInv == \A r \in Runs : status_mode[r] => pc[r] \notin {"loop", "call"}

LEMMA GotoMoves ==
  ASSUME TypeOK, NEW r \in Runs, NEW phase, Goto(r, phase)
  PROVE  pc'[r] = phase /\ \A s \in Runs \ {r} : pc'[s] = pc[s]
BY Zenon DEF TypeOK, Goto

LEMMA MainMoves ==
  ASSUME TypeOK, NEW r \in Runs, MainStep(r)
  PROVE  /\ StepsAhead(pc'[r]) < StepsAhead(pc[r])
         /\ \A s \in Runs \ {r} : pc'[s] = pc[s]
         /\ UNCHANGED status_mode
         /\ pc'[r] \in {"loop", "call"} => ~status_mode[r] \/ pc[r] = "call"
<1>1. /\ \A s \in Runs \ {r} : pc'[s] = pc[s]
      /\ UNCHANGED status_mode
      /\ \/ pc[r] = "boot_start" /\ pc'[r] = "brain"
         \/ pc[r] = "brain" /\ pc'[r] = "executor"
         \/ pc[r] = "executor" /\ pc'[r] \in {"mounting", "mounted"}
         \/ pc[r] = "mounting" /\ pc'[r] \in {"mounted", "failing"}
         \/ pc[r] = "mounted" /\ pc'[r] = "ending"
         \/ pc[r] = "mounted" /\ pc'[r] = "loop" /\ ~status_mode[r]
         \/ pc[r] \in {"failing", "ending"} /\ pc'[r] = "exited"
         \/ pc[r] = "call" /\ pc'[r] = "loop"
  <2>1. CASE BootStart(r)
    BY <2>1, GotoMoves DEF BootStart, At
  <2>2. CASE SelectMock(r) \/ SelectLlama(r) \/ FallBackToMock(r)
    <3>1. pc[r] = "brain" /\ Goto(r, "executor") /\ UNCHANGED status_mode
      BY <2>2, Zenon DEF SelectMock, SelectLlama, FallBackToMock, At
    <3> QED
      BY <3>1, GotoMoves
  <2>3. CASE MountStub(r) \/ SelectWasm(r)
    BY <2>3, GotoMoves DEF MountStub, SelectWasm, At
  <2>4. CASE MountWasm(r) \/ RegistryFails(r) \/ MountThrows(r)
    <3>1. /\ pc[r] = "mounting" /\ UNCHANGED status_mode
          /\ Goto(r, "mounted") \/ Goto(r, "failing")
      BY <2>4, Zenon DEF MountWasm, RegistryFails, MountThrows, At
    <3> QED
      BY <3>1, GotoMoves
  <2>5. CASE ReportStatus(r) \/ EnterLoop(r)
    BY <2>5, GotoMoves DEF ReportStatus, EnterLoop, At
  <2>6. CASE Return(r)
    BY <2>6, GotoMoves DEF Return
  <2>7. ASSUME NEW o \in Outcomes, Answers(r, o)
        PROVE  /\ \A s \in Runs \ {r} : pc'[s] = pc[s]
               /\ UNCHANGED status_mode
               /\ pc[r] = "call" /\ pc'[r] = "loop"
    BY <2>7, GotoMoves DEF Answers, At
  <2> QED
    BY <2>1, <2>2, <2>3, <2>4, <2>5, <2>6, <2>7 DEF MainStep
<1> QED
  BY <1>1 DEF StepsAhead

(* The operator, and what ends a run from outside.                         *)
LEMMA OtherMoves ==
  ASSUME TypeOK, NEW r \in Runs,
         Start(r) \/ Stop(r) \/ Crash(r) \/ \E q \in Asked : Call(r, q)
  PROVE  /\ \A s \in Runs \ {r} : pc'[s] = pc[s] /\ status_mode'[s] = status_mode[s]
         /\ Start(r) => pc'[r] = "boot_start"
         /\ Stop(r) => pc[r] = "loop" /\ pc'[r] = "ending"
         /\ Crash(r) => pc'[r] = "dead"
         /\ ~Start(r) => UNCHANGED status_mode
         /\ (\E q \in Asked : Call(r, q)) => pc[r] = "loop"
<1>1. CASE Start(r)
  <2>1. PICK e \in Environments[r] : status_mode' = [status_mode EXCEPT ![r] = e.status_mode]
    BY <1>1 DEF Start
  <2>2. \A s \in Runs \ {r} : status_mode'[s] = status_mode[s]
    BY <2>1, Zenon DEF TypeOK
  <2> QED
    BY <1>1, <2>2, GotoMoves DEF Start, Stop, Crash, Call, At, Live
<1>2. CASE Stop(r)
  BY <1>2, GotoMoves DEF Start, Stop, Crash, Call, At
<1>3. CASE Crash(r)
  BY <1>3, GotoMoves DEF Start, Stop, Crash, Call, At, Live
<1>4. ASSUME NEW q \in Asked, Call(r, q)
      PROVE  /\ \A s \in Runs \ {r} : pc'[s] = pc[s]
             /\ UNCHANGED status_mode
             /\ pc[r] = "loop" /\ pc'[r] = "call"
  BY <1>4, GotoMoves DEF Call, At
<1>5. CASE \E q \in Asked : Call(r, q)
  <2>1. /\ \A s \in Runs \ {r} : pc'[s] = pc[s]
        /\ UNCHANGED status_mode
        /\ pc[r] = "loop" /\ pc'[r] = "call"
    BY <1>4, <1>5
  <2>2. ~Start(r) /\ ~Stop(r) /\ ~Crash(r)
    <3>1. Start(r) => pc'[r] = "boot_start"
      BY GotoMoves DEF Start
    <3>2. Stop(r) => pc'[r] = "ending"
      BY GotoMoves DEF Stop
    <3>3. Crash(r) => pc'[r] = "dead"
      BY GotoMoves DEF Crash
    <3> QED
      BY <2>1, <3>1, <3>2, <3>3
  <2> QED
    BY <2>1, <2>2
<1> QED
  BY <1>1, <1>2, <1>3, <1>5

LEMMA StatusKept ==
  ASSUME TypeOK, StatusInv, [Next]_vars
  PROVE  StatusInv'
<1> SUFFICES ASSUME NEW s \in Runs, status_mode'[s]
             PROVE  pc'[s] \notin {"loop", "call"}
  BY DEF StatusInv
<1>1. ASSUME NEW r \in Runs, MainStep(r) PROVE pc'[s] \notin {"loop", "call"}
  BY <1>1, MainMoves DEF StatusInv
<1>2. ASSUME NEW r \in Runs,
             Start(r) \/ Stop(r) \/ Crash(r) \/ \E q \in Asked : Call(r, q)
      PROVE  pc'[s] \notin {"loop", "call"}
  <2>1. CASE s # r
    BY <1>2, <2>1, OtherMoves DEF StatusInv
  <2>2. CASE s = r
    BY <1>2, <2>2, OtherMoves DEF StatusInv
  <2> QED
    BY <2>1, <2>2
<1>3. CASE PowerFails
  BY <1>3 DEF PowerFails, StatusInv
<1>4. CASE UNCHANGED vars
  BY <1>4 DEF vars, StatusInv
<1> QED
  BY <1>1, <1>2, <1>3, <1>4 DEF Next

(* A run comes to its operator or to its end.  Above all a status run,     *)
(* which has no operator, ends by itself.                                  *)
THEOREM RunsWaitOnlyForOperators == Spec => WaitsOnlyForTheOperator
<1>1. Init => StatusInv
  BY DEF Init, StatusInv
<1>2. TypeOK /\ StatusInv /\ [Next]_vars => StatusInv'
  BY StatusKept
<1>3. ASSUME TypeOK, StatusInv, Next, NEW s \in Runs
      PROVE  /\ MainStep(s) => StepsAhead(pc'[s]) < StepsAhead(pc[s])
             /\ StepsAhead(pc'[s]) > StepsAhead(pc[s]) =>
                  \/ Start(s)
                  \/ ~status_mode[s] /\ (Stop(s) \/ \E q \in Asked : Call(s, q))
  <2>1. StepsAhead(pc[s]) \in Nat /\ StepsAhead(pc'[s]) \in Nat
    BY DEF StepsAhead
  <2>2. MainStep(s) => StepsAhead(pc'[s]) < StepsAhead(pc[s])
    BY <1>3, MainMoves
  <2> SUFFICES ASSUME StepsAhead(pc'[s]) > StepsAhead(pc[s]), ~Start(s)
               PROVE  ~status_mode[s] /\ (Stop(s) \/ \E q \in Asked : Call(s, q))
    BY <2>2
  <2>3. pc'[s] # pc[s] /\ pc'[s] # "dead"
    BY <2>1 DEF StepsAhead
  <2>4. ~PowerFails
    BY <1>3, <2>3 DEF PowerFails
  <2>5. ASSUME NEW r \in Runs, MainStep(r) PROVE FALSE
    BY <1>3, <2>1, <2>3, <2>5, MainMoves
  <2>6. PICK r \in Runs : Start(r) \/ Stop(r) \/ Crash(r) \/ \E q \in Asked : Call(r, q)
    BY <1>3, <2>4, <2>5 DEF Next
  <2>7. r = s
    BY <1>3, <2>3, <2>6, OtherMoves
  <2>8. Stop(s) \/ \E q \in Asked : Call(s, q)
    BY <1>3, <2>3, <2>6, <2>7, OtherMoves
  <2>9. pc[s] = "loop"
    BY <1>3, <2>8, OtherMoves
  <2> QED
    BY <1>3, <2>8, <2>9 DEF StatusInv
<1>4. TypeOK /\ StatusInv /\ [Next]_vars =>
        [\A r \in Runs :
           /\ MainStep(r) => StepsAhead(pc'[r]) < StepsAhead(pc[r])
           /\ StepsAhead(pc'[r]) > StepsAhead(pc[r]) =>
                \/ Start(r)
                \/ ~status_mode[r] /\ (Stop(r) \/ \E q \in Asked : Call(r, q))]_vars
  BY <1>3
<1> QED
  BY <1>1, <1>2, <1>4, KernelTypeCorrect, PTL DEF Spec, WaitsOnlyForTheOperator
===============================================================================
