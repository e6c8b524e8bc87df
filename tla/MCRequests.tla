----------------------------- MODULE MCRequests -----------------------------
(* Requests with programs of at most three settings, taken from those that *)
(* can meet on their way: one of each kind of treatment.                   *)
EXTENDS Requests

MCKinds == {"ollama", "llama_cpp", "unsloth"}

Limits == {<<"options", "max_tokens">>, <<"options", "max_completion_tokens">>,
           <<"options", "num_predict">>, <<"load_params", "num_predict">>}
Sampling == {<<"arg", "temperature">>, <<"options", "temperature">>,
             <<"options", "top_p">>, <<"options", "tfs_z">>, <<"arg", "model">>,
             <<"arg", "tools">>}
Loading == {<<"arg", "context_length">>, <<"options", "num_ctx">>,
            <<"load_params", "num_ctx">>, <<"arg", "ngl">>, <<"arg", "gpu_layers">>,
            <<"arg", "threads">>, <<"options", "num_thread">>}
Server == {<<"arg", "num_parallel">>, <<"arg", "flash_attn">>,
           <<"arg", "return_usage">>, <<"arg", "unknown">>}

MCFocuses ==
  {F \in SUBSET Limits \cup SUBSET Sampling \cup SUBSET Loading \cup SUBSET Server :
     Cardinality(F) = 3}
  \cup {{s, t} : s \in Limits \cup Sampling, t \in Loading \cup Server}

(* One server, and two names of a limit.                                   *)
OpenAIKinds == {"llama_cpp"}
LimitFocuses == {{<<"options", "max_tokens">>, <<"options", "num_predict">>}}

=============================================================================
