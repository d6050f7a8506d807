--------------------------- MODULE MCLlamaCppBackend ---------------------------
(* Constants of LlamaCppBackend for TLC: contexts of 1 to 5 tokens, so     *)
(* that prompt and answer are shorter than, as long as and longer than the *)
(* context; batch sizes that are given, that are 0 and take the default,   *)
(* that divide the prompt and that do not, and that are longer than the    *)
(* context; n_predict below 0, 0 and above.                                *)
EXTENDS LlamaCppBackend

MCConfigs ==
  [model_path : {"", "model.gguf"}, n_ctx : 1..5, n_predict : {-1, 0, 2},
   n_batch : {0, 1, 2}, n_ubatch : {0, 1, 3}]
===============================================================================
