------------------------- MODULE LlamaCppBackendProofs -------------------------
(***************************************************************************)
(* For every set of configurations and every length of prompt: what        *)
(* LlamaCppBackend keeps whatever llama.cpp refuses.  The invariants are   *)
(* not inductive alone.  A failure is explained by the length of prompt    *)
(* and answer because the context holds what the request has decoded; it   *)
(* does so because the request began in a context of its own; and nothing  *)
(* is left of the samplers because each of them but the chain is a member  *)
(* of the chain by the time an exit can be taken.  No chunk but the first  *)
(* is above the limit of the context, because none is larger than it.      *)
(***************************************************************************)
EXTENDS LlamaCppBackend, TLAPS

Budget == IF config_.n_predict > 0 THEN config_.n_predict ELSE 0

(* What a request in progress knows of its context. *)
RequestInv ==
  /\ pc \in InRequest => ctx_ /\ returned = None
  /\ pc \in {"tokenize", "samplers"} => offset = 0
  /\ pc \in {"tokenize", "samplers", "prompt"} => result = 0
  /\ pc = "generate" => result <= Budget
  /\ ctx_ => n_batch = Limited(BatchSize)
  /\ pc = "prompt" /\ offset > 0 => Lesser(BatchSize, prompt_tokens) <= n_batch

(* Before the object is built there is nothing to free but a model that is *)
(* loaded, and in a request the chain owns every other sampler.            *)
OwnerInv ==
  /\ pc = "unbuilt" => ~ctx_ /\ ~model_
  /\ pc = "loaded" => ~ctx_ /\ model_
  /\ samplers \subseteq {"chain"} \cup chain

IInv ==
  /\ TypeOK /\ NothingLeaks /\ ContextHoldsTheRequest /\ FailureHasACause
  /\ OnlyLongPromptsAbort /\ RequestInv /\ OwnerInv

(* The constants are configurations of integers; a batch is never empty.   *)
LEMMA ConfigFacts ==
  ASSUME TypeOK
  PROVE  /\ config_.n_ctx \in Nat \ {0}
         /\ config_.n_predict \in Int
         /\ BatchSize \in Nat \ {0} /\ UBatchSize \in Nat \ {0}
         /\ ContextBatch = BatchSize
         /\ Limited(BatchSize) \in Nat \ {0} /\ Limited(ContextUBatch) \in Nat
         /\ PromptLengths \subseteq Nat \ {0}
         /\ None # "GenerationFailed"
BY BackendAssumption
   DEF TypeOK, BackendAssumption, BatchSize, UBatchSize, ContextBatch, ContextUBatch, Limited,
       Lesser, BrainErrors

(* A chunk is what is left of the prompt, or a batch of it. *)
LEMMA ChunkFacts ==
  ASSUME TypeOK, offset < prompt_tokens
  PROVE  /\ Chunk \in Nat \ {0}
         /\ Chunk <= prompt_tokens - offset
         /\ Chunk <= BatchSize
<1>1. prompt_tokens \in Nat /\ offset \in Nat
  BY DEF TypeOK
<1> QED
  BY <1>1, ConfigFacts DEF Chunk, Lesser

LEMMA InitIInv ==
  ASSUME Init
  PROVE  IInv
BY BackendAssumption
   DEF Init, IInv, TypeOK, NothingLeaks, ContextHoldsTheRequest, FailureHasACause,
       OnlyLongPromptsAbort, RequestInv, OwnerInv, InRequest, Places, BrainErrors

USE DEF objectVars, localVars, contextVars, vars

(* A context that is created has the batch size Generate cuts the prompt   *)
(* by, as far as it is long enough.                                        *)
LEMMA CreatedFacts ==
  ASSUME TypeOK, NEW remaining, Created(remaining), UNCHANGED config_
  PROVE  /\ ctx_' = TRUE /\ contexts' = remaining + 1 /\ cells' = 0
         /\ n_batch' \in Nat /\ n_ubatch' \in Nat
         /\ n_batch' = Limited(BatchSize)'
<1>1. n_batch' = Limited(BatchSize) /\ n_ubatch' = Limited(ContextUBatch)
  BY ConfigFacts DEF Created
<1>2. Limited(BatchSize)' = Limited(BatchSize)
  BY DEF Limited, BatchSize
<1> QED
  BY <1>1, <1>2, ConfigFacts DEF Created

(* The object is built, destroyed or asked while it is not ready. *)
LEMMA ObjectStep ==
  ASSUME IInv,
         NoModel \/ LoadModel \/ VerifyContext \/ ContextFails \/ Shutdown \/ Unavailable
  PROVE  IInv'
<1> USE DEF IInv, TypeOK, NothingLeaks, ContextHoldsTheRequest, FailureHasACause,
            OnlyLongPromptsAbort, RequestInv, OwnerInv, InRequest, Places, BrainErrors
<1>1. CASE NoModel
  BY <1>1 DEF NoModel
<1>2. CASE LoadModel
  BY <1>2 DEF LoadModel
<1>3. CASE VerifyContext
  <2>1. UNCHANGED config_ /\ Created(contexts)
    BY <1>3 DEF VerifyContext
  <2> HIDE DEF TypeOK
  <2>2. /\ ctx_' = TRUE /\ contexts' = contexts + 1 /\ cells' = 0
        /\ n_batch' \in Nat /\ n_ubatch' \in Nat /\ n_batch' = Limited(BatchSize)'
    BY <2>1, CreatedFacts
  <2> USE DEF TypeOK
  <2> QED
    BY <1>3, <2>2 DEF VerifyContext
<1>4. CASE ContextFails
  <2>1. models = 1 /\ ~ctx_ /\ contexts = 0
    BY <1>4 DEF ContextFails
  <2>2. models' = 0 /\ contexts' = 0 /\ ctx_' = FALSE /\ model_' = FALSE /\ pc' = "idle"
    BY <1>4, <2>1 DEF ContextFails
  <2>3. TypeOK' /\ NothingLeaks'
    BY <1>4, <2>2 DEF ContextFails
  <2> QED
    BY <1>4, <2>2, <2>3 DEF ContextFails
<1>5. CASE Shutdown
  <2>1. Destroyed = 0 /\ (IF model_ THEN models - 1 ELSE models) = 0
    BY DEF Destroyed
  <2>2. contexts' = 0 /\ models' = 0 /\ ctx_' = FALSE /\ model_' = FALSE
    BY <1>5, <2>1 DEF Shutdown, NotCreated
  <2>3. TypeOK'
    <3>1. /\ prompt_tokens' \in Nat /\ offset' \in Nat /\ result' \in Nat
          /\ models' \in Nat /\ contexts' \in Nat /\ cells' \in Nat
          /\ n_batch' \in Nat /\ n_ubatch' \in Nat
      BY <1>5, <2>2 DEF Shutdown, NotCreated
    <3>2. /\ samplers' \subseteq {"chain", "grammar", "greedy"}
          /\ chain' \subseteq {"grammar", "greedy"}
          /\ ready_' \in BOOLEAN /\ faulted' \in BOOLEAN
          /\ returned' \in {None, "text"} \cup BrainErrors
      BY <1>5 DEF Shutdown
    <3> QED
      BY <1>5, <2>2, <3>1, <3>2 DEF Shutdown
  <2>4. NothingLeaks'
    BY <1>5, <2>2 DEF Shutdown
  <2>5. ContextHoldsTheRequest' /\ FailureHasACause' /\ OnlyLongPromptsAbort'
        /\ RequestInv' /\ OwnerInv'
    BY <1>5 DEF Shutdown, NotCreated
  <2> QED
    BY <2>3, <2>4, <2>5
<1>6. CASE Unavailable
  BY <1>6, BackendAssumption DEF Unavailable, Return, BatchSize, Limited, Budget
<1> QED
  BY <1>1, <1>2, <1>3, <1>4, <1>5, <1>6

(* A request begins. *)
LEMMA GenerateStep ==
  ASSUME IInv, NEW n \in PromptLengths, Generate(n)
  PROVE  IInv'
<1>1. n \in Nat \ {0}
  BY BackendAssumption
<1>2. CASE Created(Destroyed) /\ pc' = "tokenize" /\ faulted' = FALSE /\ returned' = None
  <2>1. /\ ctx_' = TRUE /\ contexts' = Destroyed + 1 /\ cells' = 0
        /\ n_batch' \in Nat /\ n_ubatch' \in Nat /\ n_batch' = Limited(BatchSize)'
    BY <1>2, CreatedFacts DEF IInv, Generate
  <2>2. Destroyed = 0
    BY DEF IInv, TypeOK, NothingLeaks, Destroyed
  <2>3. TypeOK'
    <3>1. /\ prompt_tokens' \in Nat /\ offset' \in Nat /\ result' \in Nat
          /\ models' \in Nat /\ contexts' \in Nat /\ cells' \in Nat
          /\ n_batch' \in Nat /\ n_ubatch' \in Nat
      BY <1>1, <1>2, <2>1, <2>2 DEF IInv, TypeOK, Places, Generate
    <3>2. /\ samplers' \subseteq {"chain", "grammar", "greedy"}
          /\ chain' \subseteq {"grammar", "greedy"}
          /\ config_' \in Configs
          /\ ready_' \in BOOLEAN /\ model_' \in BOOLEAN /\ ctx_' \in BOOLEAN
      BY <2>1 DEF IInv, TypeOK, Places, Generate
    <3> QED
      BY <1>2, <3>1, <3>2 DEF TypeOK, InRequest, Places
  <2>6. NothingLeaks'
    BY <1>2, <2>1, <2>2 DEF IInv, NothingLeaks, Generate
  <2>4. ContextHoldsTheRequest' /\ FailureHasACause' /\ OnlyLongPromptsAbort'
    BY <1>2, <2>1, BackendAssumption
       DEF IInv, ContextHoldsTheRequest, FailureHasACause, OnlyLongPromptsAbort, BrainErrors,
           Generate
  <2>5. RequestInv' /\ OwnerInv'
    BY <1>2, <2>1 DEF IInv, RequestInv, OwnerInv, InRequest, Generate
  <2> QED
    BY <2>3, <2>4, <2>5, <2>6 DEF IInv
<1>3. CASE NotCreated(Destroyed) /\ Return("BackendUnavailable") /\ Fault
  <2>1. Destroyed = 0
    BY DEF IInv, TypeOK, NothingLeaks, Destroyed
  <2>2. TypeOK' /\ NothingLeaks'
    BY <1>1, <1>3, <2>1
       DEF IInv, TypeOK, Places, NothingLeaks, BrainErrors, Generate, NotCreated, Return, Fault
  <2>3. ContextHoldsTheRequest' /\ FailureHasACause' /\ OnlyLongPromptsAbort'
    BY <1>3 DEF ContextHoldsTheRequest, FailureHasACause, OnlyLongPromptsAbort, Return, Fault
  <2>4. RequestInv' /\ OwnerInv'
    BY <1>3 DEF IInv, RequestInv, OwnerInv, InRequest, Generate, NotCreated, Return
  <2> QED
    BY <2>2, <2>3, <2>4 DEF IInv
<1> QED
  BY <1>2, <1>3 DEF Generate

(* Up to the sampler chain. *)
LEMMA PreparationStep ==
  ASSUME IInv, Tokenize \/ InitChain \/ AddGrammar \/ AddGreedy
  PROVE  IInv'
<1> USE DEF IInv, TypeOK, NothingLeaks, ContextHoldsTheRequest, FailureHasACause,
            OnlyLongPromptsAbort, RequestInv, OwnerInv, InRequest, Places, BrainErrors, BatchSize,
            Limited, Budget
<1>1. CASE Tokenize
  BY <1>1 DEF Tokenize
<1>2. CASE InitChain
  BY <1>2 DEF InitChain
<1>3. CASE AddGrammar
  BY <1>3 DEF AddGrammar
<1>4. CASE AddGreedy
  BY <1>4 DEF AddGreedy
<1> QED
  BY <1>1, <1>2, <1>3, <1>4

(* The first chunk is the largest: when it is within the limit of the      *)
(* context so are the others, and it is not when the context is shorter    *)
(* than both a batch and the prompt.                                       *)
LEMMA FirstChunk ==
  ASSUME IInv, pc = "prompt", offset < prompt_tokens
  PROVE  IF Chunk <= n_batch
         THEN Lesser(BatchSize, prompt_tokens) <= n_batch
         ELSE offset = 0 /\ config_.n_ctx < prompt_tokens /\ config_.n_ctx < BatchSize
<1>1. /\ prompt_tokens \in Nat /\ offset \in Nat /\ n_batch \in Nat
      /\ BatchSize \in Nat \ {0} /\ config_.n_ctx \in Nat \ {0}
  BY ConfigFacts DEF IInv, TypeOK
<1>2. /\ n_batch = Lesser(BatchSize, config_.n_ctx)
      /\ offset > 0 => Lesser(BatchSize, prompt_tokens) <= n_batch
  BY DEF IInv, RequestInv, InRequest, Limited
<1> QED
  BY <1>1, <1>2 DEF Chunk, Lesser

(* The prompt is decoded, and the answer token by token. *)
LEMMA DecodeStep ==
  ASSUME IInv, DecodeChunk \/ ChunkAborts \/ BeginGeneration \/ GenerateToken
  PROVE  IInv'
<1> USE ConfigFacts
    DEF IInv, TypeOK, NothingLeaks, ContextHoldsTheRequest, FailureHasACause,
        OnlyLongPromptsAbort, RequestInv, OwnerInv, InRequest, Places, BrainErrors, BatchSize,
        Limited, Budget
<1>1. CASE DecodeChunk
  <2>1. /\ Chunk \in Nat \ {0} /\ Chunk <= prompt_tokens - offset
        /\ Lesser(BatchSize, prompt_tokens) <= n_batch
    BY <1>1, ChunkFacts, FirstChunk DEF DecodeChunk
  <2>2. Lesser(BatchSize, prompt_tokens)' = Lesser(BatchSize, prompt_tokens)
    BY <1>1 DEF DecodeChunk, Lesser
  <2>3. TypeOK' /\ NothingLeaks'
    BY <1>1, <2>1 DEF DecodeChunk, Decode
  <2>4. ContextHoldsTheRequest' /\ FailureHasACause' /\ OnlyLongPromptsAbort' /\ OwnerInv'
    BY <1>1, <2>1 DEF DecodeChunk, Decode
  <2>5. RequestInv'
    BY <1>1, <2>1, <2>2 DEF DecodeChunk
  <2> QED
    BY <2>3, <2>4, <2>5
<1>2. CASE BeginGeneration
  BY <1>2 DEF BeginGeneration
<1>3. CASE GenerateToken
  BY <1>3 DEF GenerateToken, Decode, Wanted
<1>4. CASE ChunkAborts
  <2>1. offset = 0 /\ config_.n_ctx < prompt_tokens /\ config_.n_ctx < BatchSize
    BY <1>4, ChunkFacts, FirstChunk DEF ChunkAborts
  <2> QED
    BY <1>4, <2>1 DEF ChunkAborts
<1> QED
  BY <1>1, <1>2, <1>3, <1>4

(* The answer is returned, or there is no room for it. *)
LEMMA EndStep ==
  ASSUME IInv, PromptTooLong \/ ContextFull \/ EndGeneration
  PROVE  IInv'
<1> USE ConfigFacts
    DEF IInv, TypeOK, NothingLeaks, ContextHoldsTheRequest, FailureHasACause,
        OnlyLongPromptsAbort, RequestInv, OwnerInv, InRequest, Places, BrainErrors, BatchSize,
        Limited, Budget, Leave, Return
<1>1. CASE PromptTooLong
  BY <1>1, ChunkFacts DEF PromptTooLong, Fits
<1>2. CASE ContextFull
  BY <1>2 DEF ContextFull, Fits, Wanted
<1>3. CASE EndGeneration
  BY <1>3 DEF EndGeneration
<1> QED
  BY <1>1, <1>2, <1>3

(* llama.cpp refuses a call. *)
LEMMA FaultStep ==
  ASSUME IInv, LibraryFault
  PROVE  IInv'
<1> USE DEF IInv, TypeOK, NothingLeaks, ContextHoldsTheRequest, FailureHasACause,
            OnlyLongPromptsAbort, RequestInv, OwnerInv, InRequest, Places, BrainErrors, BatchSize,
            Limited, Budget, Leave, Return, Fault
<1>1. CASE TokenizeFails
  BY <1>1 DEF TokenizeFails
<1>2. CASE SamplersFail
  BY <1>2 DEF SamplersFail
<1>3. CASE ChunkRefused
  BY <1>3 DEF ChunkRefused
<1>4. CASE TokenRefused
  BY <1>4 DEF TokenRefused
<1> QED
  BY <1>1, <1>2, <1>3, <1>4 DEF LibraryFault

LEMMA NextIInv ==
  ASSUME IInv, [Next]_vars
  PROVE  IInv'
<1>1. CASE UNCHANGED vars
  BY <1>1
     DEF IInv, TypeOK, NothingLeaks, ContextHoldsTheRequest, FailureHasACause,
         OnlyLongPromptsAbort, RequestInv, OwnerInv, InRequest, Places, BrainErrors, BatchSize,
         Limited, Budget
<1> QED
  BY <1>1, ObjectStep, GenerateStep, PreparationStep, DecodeStep, EndStep, FaultStep
     DEF Next, RequestStep

(* The inductive invariant holds of every reachable state. *)
THEOREM LlamaInductive == Spec => []IInv
BY InitIInv, NextIInv, PTL DEF Spec

(* Every variable keeps its type; above all no counter of allocated        *)
(* objects falls below zero, that is, nothing is freed twice.              *)
THEOREM LlamaTypeCorrect == Spec => []TypeOK
<1>1. IInv => TypeOK
  BY DEF IInv
<1> QED
  BY <1>1, LlamaInductive, PTL

(* Whatever way requests end, contexts, models and samplers are freed.     *)
THEOREM LlamaFrees == Spec => []NothingLeaks
<1>1. IInv => NothingLeaks
  BY DEF IInv
<1> QED
  BY <1>1, LlamaInductive, PTL

(* A request is decoded in a context that holds nothing else. *)
THEOREM LlamaIsolates == Spec => []ContextHoldsTheRequest
<1>1. IInv => ContextHoldsTheRequest
  BY DEF IInv
<1> QED
  BY <1>1, LlamaInductive, PTL

(* A request fails only by llama.cpp's refusal or for want of room. *)
THEOREM LlamaFailsForCause == Spec => []FailureHasACause
<1>1. IInv => FailureHasACause
  BY DEF IInv
<1> QED
  BY <1>1, LlamaInductive, PTL

(* A chunk above the limit of the context is the first one of a prompt that *)
(* is longer than the context.                                             *)
THEOREM LlamaAbortsLongPromptsOnly == Spec => []OnlyLongPromptsAbort
<1>1. IInv => OnlyLongPromptsAbort
  BY DEF IInv
<1> QED
  BY <1>1, LlamaInductive, PTL

-----------------------------------------------------------------------------
(***************************************************************************)
(* Why a request is answered.  RequestLeft bounds the calls of llama.cpp   *)
(* it still has before it: the samplers to build, the prompt to decode, a  *)
(* chunk of at least one token at a time, and the answer to sample.        *)
(***************************************************************************)
SamplersLeft == IF samplers = {} THEN 5 ELSE IF samplers = {"chain"} THEN 4 ELSE 3
PromptLeft == (prompt_tokens - offset) + Budget

RequestLeft ==
  CASE pc = "tokenize" -> 6 + PromptLeft
    [] pc = "samplers" -> SamplersLeft + PromptLeft
    [] pc = "prompt" -> 2 + PromptLeft
    [] pc = "generate" -> 1 + (Budget - result)
    [] OTHER -> 0

(* Every step while a request is in progress, a refusal of llama.cpp too,  *)
(* brings its end nearer: it comes after at most as many steps as the      *)
(* prompt has tokens, n_predict allows, and six more.                      *)
RequestDescends ==
  [][(pc \in InRequest) =>
       /\ RequestLeft \in 1..(6 + prompt_tokens + Budget)
       /\ RequestLeft' \in 0..(RequestLeft - 1)]_vars

LEMMA RequestLeftType ==
  ASSUME IInv
  PROVE  /\ RequestLeft \in Nat
         /\ pc \in InRequest => RequestLeft \in 1..(6 + prompt_tokens + Budget)
<1>1. /\ Budget \in Nat /\ prompt_tokens \in Nat /\ offset \in Nat /\ result \in Nat
      /\ SamplersLeft \in 3..5
  BY ConfigFacts DEF IInv, TypeOK, Budget, SamplersLeft
<1>2. /\ pc \in {"tokenize", "samplers", "prompt"} => offset <= prompt_tokens
      /\ pc = "generate" => result <= Budget
  BY <1>1 DEF IInv, RequestInv, ContextHoldsTheRequest
<1> QED
  BY <1>1, <1>2 DEF RequestLeft, PromptLeft, InRequest

(* The exits. *)
LEMMA ReturnDescends ==
  ASSUME IInv, pc \in InRequest, pc' \in {"idle", "aborted"}
  PROVE  RequestLeft' \in 0..(RequestLeft - 1)
<1>1. RequestLeft' = 0
  BY DEF RequestLeft
<1> QED
  BY <1>1, RequestLeftType

(* The steps on which the request goes on. *)
LEMMA OnwardDescends ==
  ASSUME IInv, Tokenize \/ InitChain \/ AddGrammar \/ AddGreedy
               \/ DecodeChunk \/ BeginGeneration \/ GenerateToken
  PROVE  RequestLeft' \in 0..(RequestLeft - 1)
<1>1. /\ Budget \in Nat /\ prompt_tokens \in Nat /\ offset \in Nat /\ result \in Nat
      /\ config_.n_predict \in Int
  BY ConfigFacts DEF IInv, TypeOK, Budget
<1>2. UNCHANGED config_ /\ Budget' = Budget
  BY DEF Tokenize, InitChain, AddGrammar, AddGreedy, DecodeChunk, BeginGeneration,
         GenerateToken, Budget
<1>3. /\ pc \in {"tokenize", "samplers"} => offset = 0
      /\ pc = "prompt" => offset <= prompt_tokens /\ result = 0
      /\ pc = "generate" => result <= Budget
  BY DEF IInv, RequestInv, ContextHoldsTheRequest
<1> USE <1>1, <1>2, <1>3 DEF RequestLeft, PromptLeft, SamplersLeft
<1>4. CASE Tokenize
  BY <1>4 DEF Tokenize
<1>5. CASE InitChain
  BY <1>5 DEF InitChain
<1>6. CASE AddGrammar
  BY <1>6 DEF AddGrammar
<1>7. CASE AddGreedy
  BY <1>7 DEF AddGreedy
<1>8. CASE DecodeChunk
  BY <1>8, ChunkFacts DEF DecodeChunk, IInv
<1>9. CASE BeginGeneration
  BY <1>9 DEF BeginGeneration
<1>10. CASE GenerateToken
  BY <1>10 DEF GenerateToken, Wanted, Budget
<1> QED
  BY <1>4, <1>5, <1>6, <1>7, <1>8, <1>9, <1>10

(* No request goes on forever, though the model may never end its text.    *)
THEOREM LlamaAlwaysDescends == Spec => RequestDescends
<1>1. ASSUME IInv, [Next]_vars
      PROVE  [(pc \in InRequest) =>
                /\ RequestLeft \in 1..(6 + prompt_tokens + Budget)
                /\ RequestLeft' \in 0..(RequestLeft - 1)]_vars
  <2> SUFFICES ASSUME Next, pc \in InRequest
               PROVE  /\ RequestLeft \in 1..(6 + prompt_tokens + Budget)
                      /\ RequestLeft' \in 0..(RequestLeft - 1)
    BY <1>1
  <2>1. RequestLeft \in 1..(6 + prompt_tokens + Budget)
    BY <1>1, RequestLeftType
  <2>2. RequestStep \/ LibraryFault
    BY DEF Next, InRequest, NoModel, LoadModel, VerifyContext, ContextFails, Shutdown,
           Unavailable, Generate
  <2>3. \/ pc' \in {"idle", "aborted"}
        \/ Tokenize \/ InitChain \/ AddGrammar \/ AddGreedy
        \/ DecodeChunk \/ BeginGeneration \/ GenerateToken
    BY <2>2 DEF RequestStep, LibraryFault, PromptTooLong, ChunkAborts, ContextFull, EndGeneration,
       TokenizeFails, SamplersFail, ChunkRefused, TokenRefused, Leave, Return
  <2> QED
    BY <1>1, <2>1, <2>3, ReturnDescends, OnwardDescends
<1> QED
  BY <1>1, LlamaInductive, PTL DEF Spec, RequestDescends
===============================================================================
