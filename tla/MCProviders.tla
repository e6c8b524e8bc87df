---------------------------- MODULE MCProviders ----------------------------
(* Providers with an alias of Ollama at another address, alone and beside  *)
(* an entry for Ollama itself.                                             *)
EXTENDS Providers, TLC

CONSTANTS m1, m2

MCNames == {"lm_studio", "ollama", "unsloth", "llama_cpp", "alias"}
MCDefaultPort == [lm_studio |-> ":1234", ollama |-> ":11434", unsloth |-> ":8895",
                  llama_cpp |-> ":8080"]
MCAddresses == {":1234", ":11434", ":8895", ":8080", ":9000"}

Alias == "alias" :> [provider |-> "ollama", address |-> ":9000"]
At9000(k) == k :> [provider |-> k, address |-> ":9000"]

MCRegistries ==
  { <<>>, At9000("ollama"), Alias,
    Alias @@ "ollama" :> [provider |-> "ollama", address |-> "default"] }

MCModels == {m1, m2}
MCLoaded ==
  [a \in MCAddresses |->
     CASE a = ":1234" -> {<<m1, 1>>, <<m1, 2>>}
       [] a \in {":11434", ":8895"} -> {<<m1, 1>>, <<m2, 1>>}
       [] OTHER -> {<<m1, 1>>}]

=============================================================================
