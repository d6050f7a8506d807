---------------------------- MODULE LlamaCppBackend ----------------------------
(***************************************************************************)
(* The brain on llama.cpp (warden/LlamaCppBackend): one model for the life *)
(* of the object, a context that every request creates anew, and in        *)
(* Generate a sampler chain, a prompt that is decoded in chunks, and one   *)
(* token after the other up to n_predict.                                  *)
(*                                                                         *)
(* llama.cpp is external.  It may refuse any call (Fault), it refuses a    *)
(* batch that no longer fits the cells of the context, and a sampler that  *)
(* has been added to a chain is freed with the chain.  It limits the batch *)
(* size of a context to the context's length, and it does not refuse a     *)
(* batch above that limit: an assertion ends the process.  Tokens are      *)
(* counted, not spelled.  A build without ARCHITECT_ENABLE_LLAMA has no    *)
(* such object that is ready.                                              *)
(***************************************************************************)
EXTENDS Integers

CONSTANTS
  Configs,        \* LlamaBackendConfig: [model_path, n_ctx, n_predict, n_batch, n_ubatch]
  PromptLengths,  \* tokens of the prompts
  EmptyPath,      \* the empty model_path
  None            \* no result yet

BrainErrors == {"BackendUnavailable", "GenerationFailed"}

ASSUME BackendAssumption ==
  /\ \A c \in Configs : /\ c.n_ctx \in Nat \ {0}
                        /\ {c.n_predict, c.n_batch, c.n_ubatch} \subseteq Int
  /\ PromptLengths \subseteq Nat \ {0}
  /\ None \notin {"text"} \cup BrainErrors

VARIABLES
  config_, ready_, model_, ctx_,  \* the object; model_ and ctx_: TRUE when not null
  pc,         \* where the object or the request is: a member of Places
  prompt_tokens,                  \* locals of Generate
  offset,
  result,     \* pieces appended to the result
  models, contexts,               \* llama.cpp: objects allocated and not freed
  samplers,   \* the same, of the request
  chain,      \* members of the sampler chain, freed with it
  cells,      \* tokens the context holds
  n_batch, n_ubatch,              \* limits of the context
  faulted,    \* history: llama.cpp refused a call of this request for a reason of its own
  returned    \* history: what the latest request returned

objectVars == <<config_, ready_, model_>>
localVars == <<prompt_tokens, offset, result>>
contextVars == <<ctx_, contexts, cells, n_batch, n_ubatch>>
vars == <<objectVars, localVars, contextVars, pc, models, samplers, chain, faulted, returned>>

(* In a request, and elsewhere. *)
InRequest == {"tokenize", "samplers", "prompt", "generate"}
Places == InRequest \cup {"unbuilt", "loaded", "idle", "destroyed", "aborted"}

TypeOK ==
  /\ config_ \in Configs
  /\ ready_ \in BOOLEAN /\ model_ \in BOOLEAN /\ ctx_ \in BOOLEAN
  /\ pc \in Places
  /\ prompt_tokens \in Nat /\ offset \in Nat /\ result \in Nat
  /\ models \in Nat /\ contexts \in Nat
  /\ samplers \subseteq {"chain", "grammar", "greedy"}
  /\ chain \subseteq {"grammar", "greedy"}
  /\ cells \in Nat
  /\ n_batch \in Nat /\ n_ubatch \in Nat
  /\ faulted \in BOOLEAN
  /\ returned \in {None, "text"} \cup BrainErrors

Init ==
  /\ config_ \in Configs
  /\ ready_ = FALSE /\ model_ = FALSE /\ ctx_ = FALSE
  /\ pc = "unbuilt"
  /\ prompt_tokens = 0 /\ offset = 0 /\ result = 0
  /\ models = 0 /\ contexts = 0 /\ samplers = {} /\ chain = {}
  /\ cells = 0 /\ n_batch = 0 /\ n_ubatch = 0
  /\ faulted = FALSE /\ returned = None

-----------------------------------------------------------------------------
(* The object. *)
Lesser(a, b) == IF a < b THEN a ELSE b

BatchSize == IF config_.n_batch > 0 THEN config_.n_batch ELSE 512
UBatchSize == IF config_.n_ubatch > 0 THEN config_.n_ubatch ELSE 256

(* Slip: CreateContext falls back to another batch size than Generate. *)
ContextBatch_OtherDefault == IF config_.n_batch > 0 THEN config_.n_batch ELSE UBatchSize

(* The batch size CreateContext works out for itself. *)
ContextBatch == IF config_.n_batch > 0 THEN config_.n_batch ELSE 512
ContextUBatch == Lesser(UBatchSize, ContextBatch)

(* What llama.cpp makes of a batch size that is asked for. *)
Limited(batch) == Lesser(batch, config_.n_ctx)

(* CreateContext behind a DestroyContext, or for the first time: what it   *)
(* leaves of the contexts the object holds.                                *)
Created(remaining) ==
  /\ ctx_' = TRUE
  /\ contexts' = remaining + 1
  /\ cells' = 0
  /\ n_batch' = Limited(ContextBatch)
  /\ n_ubatch' = Limited(ContextUBatch)

NotCreated(remaining) ==
  /\ ctx_' = FALSE
  /\ contexts' = remaining
  /\ cells' = 0
  /\ UNCHANGED <<n_batch, n_ubatch>>

(* Slip: DestroyContext frees a context that is not there. *)
Destroyed_Always == contexts - 1

(* DestroyContext: llama_free when there is a context. *)
Destroyed == IF ctx_ THEN contexts - 1 ELSE contexts

(* No path, or the file is no model. *)
NoModel ==
  /\ pc = "unbuilt"
  /\ pc' = "idle"
  /\ UNCHANGED <<objectVars, localVars, contextVars, models, samplers, chain, faulted, returned>>

LoadModel ==
  /\ pc = "unbuilt"
  /\ config_.model_path # EmptyPath
  /\ pc' = "loaded"
  /\ model_' = TRUE
  /\ models' = models + 1
  /\ UNCHANGED <<config_, ready_, localVars, contextVars, samplers, chain, faulted, returned>>

VerifyContext ==
  /\ pc = "loaded"
  /\ pc' = "idle"
  /\ Created(contexts)
  /\ ready_' = TRUE
  /\ UNCHANGED <<config_, model_, localVars, models, samplers, chain, faulted, returned>>

(* Without a context the model is given back. *)
ContextFails ==
  /\ pc = "loaded"
  /\ pc' = "idle"
  /\ model_' = FALSE
  /\ models' = models - 1
  /\ UNCHANGED <<config_, ready_, localVars, contextVars, samplers, chain, faulted, returned>>

Shutdown ==
  /\ pc = "idle"
  /\ pc' = "destroyed"
  /\ NotCreated(Destroyed)
  /\ model_' = FALSE
  /\ models' = IF model_ THEN models - 1 ELSE models
  /\ ready_' = FALSE
  /\ UNCHANGED <<config_, localVars, samplers, chain, faulted, returned>>

-----------------------------------------------------------------------------
(* Generate *)
Return(r) == pc' = "idle" /\ returned' = r

Fault == faulted' = TRUE

(* Not ready: refused before anything is touched. *)
Unavailable ==
  /\ pc = "idle"
  /\ ~ready_ \/ ~model_
  /\ Return("BackendUnavailable")
  /\ faulted' = FALSE
  /\ UNCHANGED <<objectVars, localVars, contextVars, models, samplers, chain>>

(* Slip: a request goes on in the context the one before has left. *)
Generate_ReusesContext(n) ==
  /\ pc = "idle"
  /\ ready_ /\ model_ /\ ctx_
  /\ pc' = "tokenize"
  /\ prompt_tokens' = n /\ offset' = 0 /\ result' = 0
  /\ faulted' = FALSE /\ returned' = None
  /\ UNCHANGED <<objectVars, contextVars, models, samplers, chain>>

(* The request begins with a context of its own. *)
Generate(n) ==
  /\ pc = "idle"
  /\ ready_ /\ model_
  /\ prompt_tokens' = n /\ offset' = 0 /\ result' = 0
  /\ \/ Created(Destroyed) /\ pc' = "tokenize" /\ faulted' = FALSE /\ returned' = None
     \/ NotCreated(Destroyed) /\ Return("BackendUnavailable") /\ Fault
  /\ UNCHANGED <<objectVars, models, samplers, chain>>

Tokenize ==
  /\ pc = "tokenize"
  /\ pc' = "samplers"
  /\ UNCHANGED <<objectVars, localVars, contextVars, models, samplers, chain, faulted, returned>>

TokenizeFails ==
  /\ pc = "tokenize"
  /\ Return("GenerationFailed") /\ Fault
  /\ UNCHANGED <<objectVars, localVars, contextVars, models, samplers, chain>>

InitChain ==
  /\ pc = "samplers"
  /\ samplers = {}
  /\ samplers' = {"chain"}
  /\ UNCHANGED <<objectVars, localVars, contextVars, pc, models, chain, faulted, returned>>

AddGrammar ==
  /\ pc = "samplers"
  /\ samplers = {"chain"}
  /\ samplers' = samplers \cup {"grammar"}
  /\ chain' = {"grammar"}
  /\ UNCHANGED <<objectVars, localVars, contextVars, pc, models, faulted, returned>>

(* Without a grammar right behind InitChain. *)
AddGreedy ==
  /\ pc = "samplers"
  /\ "chain" \in samplers
  /\ samplers' = samplers \cup {"greedy"}
  /\ chain' = chain \cup {"greedy"}
  /\ pc' = "prompt"
  /\ UNCHANGED <<objectVars, localVars, contextVars, models, faulted, returned>>

(* The exits behind the tokens: llama_sampler_free takes the members of    *)
(* the chain along; the context stays until the next request.              *)
Leave(r) ==
  /\ Return(r)
  /\ samplers' = samplers \ ({"chain"} \cup chain)
  /\ chain' = {}

(* Slip: the exits between the samplers free nothing. *)
SamplersFail_LeaksChain ==
  /\ pc = "samplers"
  /\ Return("GenerationFailed") /\ Fault
  /\ UNCHANGED <<objectVars, localVars, contextVars, models, samplers, chain>>

(* No chain, no grammar, or no greedy sampler. *)
SamplersFail ==
  /\ pc = "samplers"
  /\ Leave("GenerationFailed") /\ Fault
  /\ UNCHANGED <<objectVars, localVars, contextVars, models>>

(* llama_decode of count tokens.  One token is never above the limit. *)
Fits(count) == cells + count <= config_.n_ctx
Decode(count) == Fits(count) /\ cells' = cells + count

(* Slip: the prompt is cut by n_batch as it is configured. *)
Chunk_NoDefault == Lesser(config_.n_batch, prompt_tokens - offset)

Chunk == Lesser(BatchSize, prompt_tokens - offset)

DecodeChunk ==
  /\ pc = "prompt"
  /\ offset < prompt_tokens
  /\ Chunk <= n_batch
  /\ Decode(Chunk)
  /\ offset' = offset + Chunk
  /\ UNCHANGED <<objectVars, ctx_, contexts, n_batch, n_ubatch, pc, prompt_tokens, result,
                 models, samplers, chain, faulted, returned>>

PromptTooLong ==
  /\ pc = "prompt"
  /\ offset < prompt_tokens
  /\ Chunk <= n_batch
  /\ ~Fits(Chunk)
  /\ Leave("GenerationFailed")
  /\ UNCHANGED <<objectVars, localVars, contextVars, models, faulted>>

ChunkRefused ==
  /\ pc = "prompt"
  /\ offset < prompt_tokens
  /\ Chunk <= n_batch
  /\ Leave("GenerationFailed") /\ Fault
  /\ UNCHANGED <<objectVars, localVars, contextVars, models>>

(* The process ends inside llama_decode, which has looked at nothing else. *)
ChunkAborts ==
  /\ pc = "prompt"
  /\ offset < prompt_tokens
  /\ Chunk > n_batch
  /\ pc' = "aborted"
  /\ UNCHANGED <<objectVars, localVars, contextVars, models, samplers, chain, faulted, returned>>

BeginGeneration ==
  /\ pc = "prompt"
  /\ ~(offset < prompt_tokens)
  /\ pc' = "generate"
  /\ UNCHANGED <<objectVars, localVars, contextVars, models, samplers, chain, faulted, returned>>

(* Slip: the loop runs once more. *)
Wanted_OneMore == result <= config_.n_predict

Wanted == result < config_.n_predict

(* A token is sampled, appended and fed back, the last one too. *)
GenerateToken ==
  /\ pc = "generate"
  /\ Wanted
  /\ Decode(1)
  /\ result' = result + 1
  /\ UNCHANGED <<objectVars, ctx_, contexts, n_batch, n_ubatch, pc, prompt_tokens, offset,
                 models, samplers, chain, faulted, returned>>

ContextFull ==
  /\ pc = "generate"
  /\ Wanted
  /\ ~Fits(1)
  /\ Leave("GenerationFailed")
  /\ result' = result + 1
  /\ UNCHANGED <<objectVars, prompt_tokens, offset, contextVars, models, faulted>>

(* The token has no text, or is refused when it is fed back. *)
TokenRefused ==
  /\ pc = "generate"
  /\ Wanted
  /\ Leave("GenerationFailed") /\ Fault
  /\ result' \in {result, result + 1}
  /\ UNCHANGED <<objectVars, prompt_tokens, offset, contextVars, models>>

(* The model ends its text, or has said as much as it may. *)
EndGeneration ==
  /\ pc = "generate"
  /\ Leave("text")
  /\ UNCHANGED <<objectVars, localVars, contextVars, models, faulted>>

-----------------------------------------------------------------------------
RequestStep ==
  \/ Tokenize
  \/ InitChain \/ AddGrammar \/ AddGreedy
  \/ DecodeChunk \/ PromptTooLong \/ ChunkAborts \/ BeginGeneration
  \/ GenerateToken \/ ContextFull \/ EndGeneration

LibraryFault == TokenizeFails \/ SamplersFail \/ ChunkRefused \/ TokenRefused

Next ==
  \/ NoModel \/ LoadModel \/ VerifyContext \/ ContextFails \/ Shutdown
  \/ Unavailable
  \/ \E n \in PromptLengths : Generate(n)
  \/ RequestStep
  \/ LibraryFault

(* The one thread goes on, and each call of llama.cpp comes back.  That it *)
(* should ever refuse one is not asked for.                                *)
Fairness == WF_vars(RequestStep)

Spec == Init /\ [][Next]_vars /\ Fairness

-----------------------------------------------------------------------------
(* Nine exits of Generate and four of Initialize: whatever way the         *)
(* requests before have ended, the pointers of the object are all that is  *)
(* allocated, a context never outlives its model, no sampler outlives its  *)
(* request, and a destroyed object has left nothing behind.  (What an      *)
(* aborted process held is gone with it.)                                  *)
NothingLeaks ==
  /\ contexts = (IF ctx_ THEN 1 ELSE 0)
  /\ models = (IF model_ THEN 1 ELSE 0)
  /\ ctx_ => model_
  /\ pc \notin {"samplers", "prompt", "generate", "aborted"} => samplers = {}
  /\ pc = "destroyed" => ~ctx_ /\ ~model_

(* Requests are isolated: the context holds exactly what this request has  *)
(* decoded so far, and the first token is sampled when the whole prompt    *)
(* has been.                                                               *)
ContextHoldsTheRequest ==
  /\ pc \in {"tokenize", "samplers"} => cells = 0
  /\ pc = "prompt" => cells = offset /\ offset <= prompt_tokens
  /\ pc = "generate" => cells = prompt_tokens + result

(* A request fails only because llama.cpp refused a call, or because       *)
(* prompt and n_predict together are longer than the context: a request    *)
(* that just fits is answered, in whatever chunks the prompt is decoded.   *)
FailureHasACause ==
  returned = "GenerationFailed" =>
    faulted \/ prompt_tokens + (IF config_.n_predict > 0 THEN config_.n_predict ELSE 0)
                 > config_.n_ctx

(* The batch size is worked out in two places, when the context is created *)
(* and when the prompt is cut, and llama.cpp limits the one and not the    *)
(* other: a chunk above the context's limit, which ends the process, is    *)
(* the first one of a prompt longer than the context, and the context is   *)
(* shorter than a batch.  No request that could be answered meets it.      *)
OnlyLongPromptsAbort ==
  pc = "aborted" =>
    /\ offset = 0
    /\ config_.n_ctx < prompt_tokens
    /\ config_.n_ctx < BatchSize

(* A brain that is never done would hang the kernel, which has one thread: *)
(* every request is answered, though the model may never end its text, but *)
(* for those that end the process.                                         *)
EveryRequestIsAnswered == pc \in InRequest ~> pc \in {"idle", "aborted"}
===============================================================================
