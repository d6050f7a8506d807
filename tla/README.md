# Project ARCHITECT: specifications, model checks and proofs

TLA+ modules that model the kernel of Project ARCHITECT, the TLC
configurations that check them on small instances, and theorems that the TLA+
proof system checks for every value of the constants.  `PROJECT.json` lists the
runs, says for each definition which lines of the source it stands for, and
lists the hazards the properties are aimed at.

## 1. The system

The program is a single-threaded loop: an operator types a line, a language
model ("brain") answers with a JSON document, the Warden checks the document,
the kernel dispatches the intent it holds, and one kind of intent runs a guest
function in a WebAssembly sandbox ("Seraph").  After a failure the kernel goes
round again by itself with the failure as feedback.

| component | source | state it keeps | operations |
|---|---|---|---|
| Cognitive loop | `core/CognitiveLoop` | `AgentContext`: stimulus, feedback, `recovery_attempts` | `run`, `DispatchIntent` |
| Warden engine | `warden/WardenEngine`, `PromptAssembler` | compiled grammar, `next_frame_id_` | `EnforceCognition`, `NextFrameId`, `BuildPrompt` |
| Intent validation and grammar | `warden/WardenEngine` (`DeserializeIntentOnly`), `GrammarConstraints`, `CognitiveFrame` | none | `DeserializeIntentOnly`, `GetCognitiveFrameGrammar` |
| Mock brain | `warden/MockBrainBackend` | none | `Generate` |
| Llama backend | `warden/LlamaCppBackend` | model, context, `ready_` | constructor, `Generate`, `Shutdown` |
| Module registry | `seraph/ModuleRegistry` | `tracked_modules_`, `manifest_version_` | `LoadManifest`, `ReloadManifest`, `RevokeModule`, `GetModuleProfile`, `GenerateSystemPolicy`, `DescribePromptCapabilities`, `GetDiagnostics` |
| SHA-256 | `ModuleRegistry::ComputeSha256` | none | digest of a file |
| Wasm executor | `seraph/WasmExecutor`, `SeraphGuestAbi` | `cached_modules_`, the wasmtime engine; per call store, linker, guest memory, fuel | `Execute`, `ClearCache`, `InspectCacheCount` |
| Executor stub | `seraph/ExecutorStub` | none | `Execute` |
| Audit sink | `seraph/FileAuditSink`, `IAuditSink` | an append-only file | `Log...` |
| Diagnostics | `seraph/ExecutionDiagnostics` | none | `GetSemanticFeedback` |
| Boot | `main.cpp` | environment | chooses brain and executor, loads the manifest once, status mode |

How they interact.  `main` builds the brain, the engine, the registry, the
executor and the audit sink, copies the policy and the prompt capabilities out
of the registry, and gives them to the loop.  The loop calls
`EnforceCognition`, which calls the brain, and `Execute`, which reads the
registry on every call and reports to the audit sink.  All calls are
synchronous; there are no threads, queues or messages.  Runs of the program
share one thing, the audit file, to which each appends its lines; a `--status`
run may do so while a kernel serves its operator.

What is hard here is therefore not the interleaving of threads but

* the order of calls over a long life: loads that fail half-way, revocations,
  reloads, and a module cache that outlives them;
* what the outside does between two steps of a call: files that are replaced,
  guest code that traps, loops, grows its memory, or returns any pointer;
* error paths: ten exits of `Execute` behind the creation of the store, each
  with its own clean-up;
* one rule written down several times: who may be called, and what a legal
  document is;
* a retry loop with one counter for two kinds of failure;
* the file: a process that is killed in a call, a log that cannot be opened, a
  write that stops short and is tried again when the file is closed, the loss
  of what was flushed but not on disk, and two runs that mix their lines;
* the boot: seven ways out of it, each with its own events, and a fallback that
  changes three variables;
* numbers at their limits: words that wrap, a context that is one token short,
  batch sizes of 0, a file that just fits its last SHA-256 block.

What makes each component correct:

* Registry: the table comes from one manifest; a failed load leaves a prefix of
  it; trust is granted by a manifest only; the summaries agree.
* Executor: a call runs only what the policy allows and only verified bytes; it
  touches guest memory only inside its present bounds; it releases what it
  holds on every exit; it is audited once; it returns.
* Validation: exactly the four documented pairings are accepted, and the
  grammar keeps none of them from the brain, nor anything but control
  characters in their texts.
* Warden: frame ids without gaps.
* Loop: a bounded number of attempts per line, feedback that belongs to the
  attempt before, no failure dropped, and always a return to the operator.
* Llama backend: each request has a context of its own; what a request or the
  constructor allocates is freed on every exit; a request fails only for a
  cause and always ends; one that could be answered never ends the process.
* Stub: what the prompt offers is served, anything else is denied.
* Audit sink: whatever goes wrong, the file holds of each run a beginning
  without gaps, in order, and names the call that was running.
* Boot: the trail of a run can be read without the program, and the status
  names what is mounted.
* SHA-256: no two files are padded to the same blocks.

## 2. Modules

```
ExecutorContract <--refined by-- WasmExecutor --EXTENDS--> ModuleRegistry    Sha256
   ^         ^
   |         +------refined by, for each run-- KernelProcess --EXTENDS--> FileAuditSink
   | INSTANCE                                        +----------EXTENDS--> ExecutorStub
CognitiveLoop --EXTENDS--> WardenEngine --EXTENDS--> IntentSchema <-- MockBrainBackend
   |
   +--refines--> KernelSession                                  LlamaCppBackend
```

**ModuleRegistry.**  `tracked_modules` is the map of the class,
`manifest_version` the field of that name; `load_result` is what the latest
load returned and `origin` a history variable: the `modules` object the table
was last filled from.  `LoadManifest` picks any of the `Documents` a file may
hold.  `LoadRejected` is a load that stops before `clear()`, `LoadModules` one
that goes past it; the latter reads the entries in key order up to the first
malformed one (`ReadableNames`).  Names are numbers, since the JSON object is
sorted by key; a field that is missing or of a wrong JSON type is `Absent`.

**WasmExecutor.**  One call of `Execute` is cut where the outside can act: the
read of the module file and every entry into the guest.  `pc` names the phase,
and each early return of the code is an action of its own that ends in `Leave`
(log, return, delete), at once or, behind `CleanupAndFree`, when the guest's
`seraph_free` has come back (`FreeReturns`): that is guest code as well, on
what is left of the fuel, and `outcome` is what the call will return then.
`live` counts the stores and linkers created and not deleted, so that one
deleted twice shows as a negative number; `view` the memory size fetched together with the memory pointer, `touched` the
host's latest access, `freed` the blocks handed to the guest's `free`, `audit`
the events of the call.  The guest is external: `GuestRuns` burns fuel, and
each guest call may trap, return any word, or grow the memory.
`ReloadManifest`, `Revoke` and `ClearCache` happen between calls, since the
executor is called on the one thread; `ReplaceFile` at any time.
`WiredSpec` is the same without reloads and with the load of `main.cpp` as
initial state.

**ExecutorContract** is what the kernel may assume of any `IExecutor`: `Start`
and `Return`.  `WasmExecutor` implements it through its audit trail
(`ImplementsContract`), and `CognitiveLoop` uses it as its executor, so the two
halves of the system are joined by it.

**IntentSchema** is `DeserializeIntentOnly` with its helpers, next to the table
of pairings the prompt spells out (`Pairings`) and the language of the GBNF
grammar (`Derives`).  A document is abstracted to the kinds of its fields, to
the integers near the limits, with a minus sign as a kind of its own (the parser
reads -0 as a signed number, the grammar has no sign), and to the class of its
text: one that grammar and parser both take (`"json"`), one that only the
grammar derives (`"loose"`: leading zeros, raw control characters), one that
only the parser takes because it spells the same document in another way
(`"respelled"`: other key order or white space, `\u` where it is not needed) or
because it holds a control character that JSON writes with `\u` alone
(`"control"`), and one that neither takes.

**WardenEngine** is `EnforceCognition`: the prompt, the verdict, the frame id.
The brain is a parameter.

**CognitiveLoop** is `run()` with `DispatchIntent`: `head` of the loop,
`cognize`, `dispatch`, `execute`.  `lines`, `tries`, `failure` and `frames` are
history variables.  **KernelSession** is the operator's view of it: a line is
worked on with a budget of three attempts.  **MockBrainBackend** is the mock's
`Generate` as a function of the prompt.

**LlamaCppBackend** is the object and one request of `Generate` after the other.
`models`, `contexts` and `samplers` count what llama.cpp has allocated and not
freed, `cells` the tokens in the context.  Each exit of `Generate` is an action:
those that llama.cpp causes (`TokenizeFails`, `SamplersFail`, `ChunkRefused`,
`TokenRefused`) set `faulted`, those of the arithmetic (`PromptTooLong`,
`ContextFull`) do not.  `ContextBatch` is the batch size `CreateContext` works
out and `BatchSize` the one `Generate` cuts the prompt by; llama.cpp limits the
first to the length of the context (`Limited`), and asserts that a batch is
within that limit, so a larger chunk ends the process (`ChunkAborts`).  The
constructor loads the model and verifies it with a context (`LoadModel`,
`VerifyContext`), or gives it back (`ContextFails`).  A sampler that has joined the chain is freed with it.

**FileAuditSink** is the file and the `ofstream` of each run.  The file is a
sequence of fragments, whole lines or torn ones; `AppendJsonLine` writes one,
stops short and leaves the stream failed and the line in its buffer, or finds
the stream failed and does nothing.  `Close` is the destructor, which tries the
buffered line once more; `Vanish` is a process that dies; `LosePower` takes an
end of the file away.  `reported` is a history variable: what a run has passed
to the four `Log` functions.

**ExecutorStub** is the answer of the stub to a request: its checks, in order.

**KernelProcess** is `main.cpp`, once for every run, over that file: each step
that logs is an action, and so is each way out of the boot.  `Start` reads the
environment.  The loop is present as the calls of `Execute` it leads to, with
the stub's answer or any answer of the Wasm executor.  `Crash` and `PowerFails`
may happen between any two steps.  Seen through `request`, `outcome` and the
events, each run refines `ExecutorContract` (`TrailsKeepContract`), the contract
that `CognitiveLoop` is written against: so the stub keeps it too.

**Sha256** is the padding of `ComputeSha256` and the indices its loop reads.

The modules `MC*` give the constants their values.  Definitions whose comment
begins with "Slip:" are plausible mistakes in the definition that follows; each
property is known to fail when one of them takes the place of the original.

## 3. Runs and their bounds

| run | instance | result |
|---|---|---|
| `Registry` | 3 names, 14 manifests: one for each check that can fail, before and after `clear()`; for the digest, 31 lengths around the block boundaries with three endings | 13,468 states, holds |
| `WasmPolicy` | 4 names (one empty, one that the name pattern excludes), 5 manifests, 2 blobs, 2 files, memory of one cell | 96,384 states, holds |
| `WasmMemory` | 1 module; words of 2 bits, so that a sum can wrap; memory of 0..3 cells, 2 units of fuel, payloads of 1..3 against a limit of 2 | 6,996 states, holds, with liveness |
| `WasmWired` | as `WasmPolicy`, one load | 17,792 states, holds |
| `WasmReload` | as `WasmPolicy` | violated: finding 1 |
| `WasmAdmission` | as `WasmPolicy` | violated: finding 3 |
| `IntentSchema` | all documents of up to 3 payload fields, in five classes of texts; `ByteMax` = 3, `Word64Max` = 7 with values on both sides of both | 260,197 states, holds |
| `IntentGrammar` | the same | violated: finding 2 |
| `KernelLoop` | 3 lines of 2 kinds, a brain with 9 answers, an executor with 3 outcomes | 7,709 states, holds, with liveness |
| `MockLoop` | the mock brain, three denials and a success | violated: finding 4 |
| `LlamaBackend` | contexts of 1 to 5 tokens, prompts of 1 to 3, `n_predict` -1, 0 and 2, batch sizes 0, 1, 2, micro-batch sizes 0, 1, 3 | 9,882 states, holds, with liveness |
| `KernelRuns` | two runs, a kernel (stub or wasm) and a `--status` (stub, or wasm with llama); 3 requests, 5 events per run, one fault | 484,372 states, holds, with liveness |

Why the bounds are enough.  The registry and the executor treat names
uniformly: three names give a malformed entry with an entry before and one
behind it, and the names of `WasmPolicy` are one of each class the checks
distinguish.  The manifests contain each pair of generations that matters: same
name with another digest, with another path, without trust, with another ABI.
A 2-bit word with a 3-cell memory has in-bounds, out-of-bounds and wrapping
sums.  Fuel of 2 separates "some left" from "none left".  Three lines suffice
to carry state from one line to the next and beyond a spent budget; the
counters involved are at most 3.  Contexts, prompts and `n_predict` are chosen
so that their sum is below, at and above `n_ctx`, with chunks that divide the
prompt and chunks that do not, and with contexts shorter than a batch.  Two runs of the program give every overlap and
every succession of a crash and a later start; the one fault can be any of
failed open, short write, crash and power loss.

The artificial guards: `MaxLines`, the lines of the operator (`CognitiveLoop`);
`MaxEvents`, the events of a run, tested where a call begins, so that 5 allow a
kernel one call, and `MaxFaults`, the faults in the life of the file
(`KernelProcess`, `FileAuditSink`).  A second call of a run differs from the
first only in the events before it.  The theorems of section 5 hold for all
values of these constants: any number of runs, calls and faults.

`CHECK_DEADLOCK FALSE` is set where the system stops: the loop after `exit`, the
llama backend after `Shutdown` or an abort, the runs of `KernelProcess` when all are over,
and the writer of documents of `MCIntentSchema` when a document is complete.

Fairness.  The program has one thread, which goes on with what it is doing:
weak fairness of `CallStep` in the executor, of `KernelStep` in the loop, of
`RequestStep` in the llama backend and of `MainStep` in each run of the program
(waiting for the operator, `Stop` and `Call`, is not part of it).  That
llama.cpp should ever refuse a call is not asked for, nor that its model ends
its text.  Nothing is assumed of the operator, the owner of the registry, the
files or the brain's and the guest's choices.  In the executor the thread may stay inside
the guest; that every call still returns (`ExecuteReturns`) rests on the fuel,
which `GuestRuns` burns and nothing gives back.  In the loop, weak fairness
stands for a brain and an executor that return: generation is limited by
`n_predict`, execution by the fuel; `EveryRequestIsAnswered` and
`ExecuteReturns` are these two facts.

## 4. Findings

1. `WasmReload`: the cache is looked up by name only (`WasmExecutor.cpp:110`).
   After `ReloadManifest` has installed another digest for a name, the bytes
   cached before still run.  `OnlyVerifiedBytesEnterCache` holds, so the bytes
   were verified once, against the old manifest.  The program as `main.cpp`
   wires it never reloads, and for it the property is proved.
2. `IntentGrammar`: the grammar chooses intent and payload independently
   (`GrammarConstraints.cpp:6`), while `docs/JSON_CONTRACT.md` calls the four
   structures the grammar.  `GrammarMatchesTheWarden` says that mismatched pairs,
   oversized numbers and text that is no JSON are all it derives beyond the
   Warden.  The gap on the other side is small: what the Warden takes can be
   derived in its plain spelling, unless it holds control characters.
3. `WasmAdmission`: the policy and the prompt list every export of a trusted
   module of the right ABI, whatever its name (`ModuleRegistry.cpp:174-204`);
   `Execute` refuses empty names (`WasmExecutor.cpp:40`) and module names outside
   its pattern (lines 77-81).  A brain that asks for such an entry of
   its "Available capabilities" is told that the request was unauthorized.
   `AdmissionMatchesPolicy` says that these two checks are the only difference.
4. `MockLoop`: the mock brain looks for "SERAPH REJECTION"
   (`MockBrainBackend.cpp:11`), which no feedback contains; it repeats a denied
   request until the recovery limit.

Another disagreement needs no run of its own, since `AcceptsExactlyThePairings`
says it: a root with any key beside `intent_type` and `payload` is refused
(`WardenEngine.cpp:197`), and `docs/JSON_CONTRACT.md` shows its four structures
with `frame_id` and `timestamp_ms` at the root, and its `InvokeSeraph` payload
without `target_function`.

## 5. Proofs

Assumptions: those named `RegistryAssumption`, `ExecutorAssumption`,
`SchemaAssumption`, `LoopAssumption`, `BackendAssumption`, `StubAssumption` and
`ProcessAssumption`, which TLC evaluates in the runs of their modules.  They say that the constants have the right types, that `None`
and the placeholders are not members of the sets they are added to, that a brain
has an answer to every prompt, that a manifest has finitely many entries, and
that a context and a prompt are not empty.

* `ModuleRegistryProofs`: type correctness, `SingleGeneration`,
  `PartialLoadIsPrefix`, `TrustComesFromManifest`, `SummariesAgree`.
  `RegistryInv` is the conjunction of the first three state properties; it is
  inductive as it stands, one lemma for loads and one for revocations.
  `SummariesNeverDiffer` needs besides that the table is finite
  (`FiniteTable`): then the pairs the policy lists are the image of the list
  positions the diagnostics count (`PairAt`), and there are at most as many.
* `WasmExecutorProofs`: type correctness and every safety property of the
  executor.  The invariant `ExecutorInv` adds to `TypeOK` where a call stands in
  its audit trail (`CallAudited`) and which locals hold a value in which phase
  (`LocalsAgree`): without them nothing says that the objects an exit deletes
  are the ones that exist, or that an exit logs the second event.  `Due` says
  for the time in the guest's free which outcome goes with which block; that
  the block has been handed over is settled when `FreeReturns` leaves.  One lemma
  treats all exits through `Leave`, one lemma each the steps that go on.  What
  `AdmissionIsThePolicy` states is the agreement of two filters up to the two
  checks of finding 3.  The
  memory bound holds for every word size and memory size: the sum is taken in
  the integers, as the code takes it in 64 bits.  `WiredProgramIsVerified`
  strengthens the invariant by `CacheAgrees` (every cached module has the
  registered digest), which a reload would break; that is finding 1 seen from
  the proof.  `RefinesContract` is the safety part of `ImplementsContract`, and
  `CallAlwaysDescends` the argument behind `ExecuteReturns`.
* `CognitiveLoopProofs`: type correctness, every safety property of the loop and
  `RefinesSession`, the safety part of `ImplementsSession`.  The invariant adds
  `CountersAgree` and `FramesAgree`, which tie `recovery_attempts` to `tries`
  and `next_frame_id` to `frames` at each position of the loop.
  `WorkAlwaysDescends` is the argument behind `EveryLineIsAnswered`.
* `LlamaCppBackendProofs`: type correctness and the four safety properties
  of the backend, for every configuration and prompt length.  The invariant ties
  the samplers and the limits of the context to the phase of the request.
  `LlamaAbortsLongPromptsOnly` compares the two batch sizes under llama.cpp's
  limit: no chunk is larger than the first (`FirstChunk`), and that one is above
  the limit only when the context is shorter than both prompt and batch.
  `LlamaAlwaysDescends` is the argument behind
  `EveryRequestIsAnswered`.
* `FileAuditSinkProofs`: `SinkInv` is kept by every operation of the sink.
  `RecordsAreAPrefix` is not inductive: that the next record fits depends on
  what the file holds of the run so far.  `SinkInv` adds for a good stream that
  every event of the run is in the file, whole, and for a failed one that the
  file ends for the run at the buffered event or just before it.
* `KernelProcessProofs`: every safety property of `KernelProcess` and, as
  `RunsKeepContract`, its refinement, for any number of runs, calls and faults.
  To `SinkInv` the invariant adds for each run what its trail looks like at each
  place of `main` (`TrailInv`), which brain and executor are mounted there
  (`BrainInv`, `MountInv`), and what the open call and the logged outcomes have
  to do with the policy (`CallInv`, `OfferInv`, `SnapshotInv`).  The lemma
  `TrailGoesOn` says which event may follow a trail; each step that logs is
  then a case of it.  Steps of one run leave the invariant of the others alone
  (`LeftAlone`, `OneRun`).  `RunsWaitOnlyForOperators` is the argument behind
  `StatusRunEnds`; it adds that a status run never reaches the loop
  (`StatusInv`).
* `IntentSchemaProofs`: `AcceptsExactlyThePairings` and
  `GrammarMatchesTheWarden` for every document, with fields of any name and
  arrays and objects of any size, and for all limits (`AcceptsPairings`,
  `GrammarMatches`).  There is no induction: each intent is a case.  That what is
  accepted can be derived goes through the plain spelling of a document, which
  has the same kinds (`PlainKeepsKind`) and no minus zero (`PlainValues`).  That the
  writer of `MCIntentSchema` produces nothing but documents
  (`WriterWritesDocuments`) carries both over to the specification the run
  checks: `AlwaysExactlyThePairings` and `GrammarAlwaysMatches`.
* `Sha256Proofs`: the padding is exact for every length (`PaddingIsExact`), and
  the loop never reads behind the buffer (`WalkStaysInside`).
  `BlocksAlwaysHoldTheFile` is `BlocksHoldTheFile` for every file whose length
  in bits is below 2^64, the range of the code's `uint64_t`: the eight length
  bytes are unrolled one by one (`Reread`), so no induction is needed.  From it
  follows `PaddingIsInjective`: two files with the same blocks are one.

The four theorems that end in "Descends", or say for whom a run waits, are the
part of the liveness properties that does not need fairness.  Each gives a
measure (`CallLeft`, `WorkLeft`, `RequestLeft`, `StepsAhead`) in the natural
numbers which every step of the one thread lowers and which nothing that
happens meanwhile raises; the measure also says how many steps there can be:

| measure | at most | lowered by | raised by |
|---|---|---|---|
| `CallLeft` | `MaxFuel` + 10 | every phase of a call, every unit of fuel | nothing within the call |
| `WorkLeft` | 11 after a line is accepted | every step of the work on it | nothing before the kernel is back at the operator |
| `RequestLeft` | prompt + `n_predict` + 6 | every call of llama.cpp, refused or not | nothing within the request |
| `StepsAhead` of a run | 6 | every step of its `main` | its start; its operator, if it is no status run |

What is left of the liveness properties is that the thread does take a step
while the measure is positive.  That needs ENABLED, which the prover does not
do; TLC checks it in `WasmMemory`, `KernelLoop`, `LlamaBackend` and
`KernelRuns`, with the liveness part of the refinements.

Only model-checked, therefore: the liveness properties (`ExecuteReturns`,
`EveryLineIsAnswered`, `EveryRequestIsAnswered`, `StatusRunEnds`) and the
liveness part of `ImplementsContract` and `ImplementsSession`.  Every safety
property that a run checks is stated by a theorem.

## 6. Not modelled, and what is left

Not modelled: the compression rounds of SHA-256 (in the executor the digest is a
constant function from blobs to digests), time stamps and durations (nothing
reads them), texts and console output, the wasmtime and llama.cpp libraries and
the JSON parser beyond their results, tests and build.

Assumed of what is external:

* `ofstream`: a stream that has failed takes no more until it is closed, and
  then tries the line in its buffer once: the `flush` in front of `close`
  (`FileAuditSink.cpp:26`) does nothing on a stream that is not good, and has
  nothing to write on one that is.  A line is handed over in one write, and the
  appends of two processes are atomic against each other; `flush` reaches the
  system, not the disk.  The mutex of the sink has one user.
* llama.cpp: it refuses a batch that does not fit the cells left, limits the
  batch size of a context to `n_ctx` and aborts on a batch above that, may
  refuse any other call, and returns from each.  `n_ctx` is taken as configured,
  without rounding.  Prompts have a token, and `n_ctx` is positive.
  `llama_backend_init` and `llama_backend_free` are left out.
* The registry in a run of the program: `KernelProcess` takes the policy and the
  capabilities from one table (`ModuleRegistry!SummariesAgree`).  They are copies
  made at boot; nobody in the program revokes or reloads afterwards, so they
  cannot get stale there.  What a reload would do is finding 1.

The abort is reported here and not as a finding, since no text of the repository
speaks of it: with `ARCHITECT_N_CTX` below `ARCHITECT_N_BATCH` (1024 and 512 by
default) a prompt longer than the context ends the kernel instead of being
answered with `GenerationFailed`.  `OnlyLongPromptsAbort` says that nothing else does.

One hazard has no property: fuel that runs out in `alloc` is reported as
`GuestTrap`, in the guest function as `FuelExhausted` (`WasmExecutor.cpp:245`).
Both are modelled (`AllocFails`, `InvokeFails`); no text of the repository says
which is meant.

Every component is modelled, SHA-256 in part.  What could still be added: the
rounds of SHA-256 on words cut in halves, against known digests; the loop, the
executor and the file in one state space, where today the contract joins them in
pairs.
