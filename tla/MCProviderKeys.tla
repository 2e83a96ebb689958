--------------------------- MODULE MCProviderKeys ---------------------------
(* Two providers, two keys, a server and a terminal. *)
EXTENDS Comparison

CONSTANTS k1, k2, cli, server

MCProviders == <<"openai", "gemini">>

\* The server has an empty ARBITER_GEMINI_API_KEY, the terminal OpenAI's own variable.
MCArbiterVar ==
  [process \in {cli, server} |->
     [p \in {"openai", "gemini"} |->
        IF process = server /\ p = "gemini" THEN Blank ELSE Unset]]

MCProviderVar ==
  [process \in {cli, server} |->
     [p \in {"openai", "gemini"} |-> IF process = cli /\ p = "openai" THEN k1 ELSE Unset]]

MCStored == [p \in {"openai", "gemini"} |-> IF p = "gemini" THEN k1 ELSE Unset]

\* A key that works until something happens to it, and one that was revoked.
MCAccount ==
  {[p \in {"openai", "gemini"} |-> [k \in {k1, k2} |-> IF k = k1 THEN "works" ELSE "void"]]}

MCRefusal == [p \in {"openai", "gemini"} |-> IF p = "gemini" THEN 400 ELSE 401]

Model(id, family, prompt, completion, open) ==
  [id |-> id, family |-> family, prompt |-> prompt, completion |-> completion, open |-> open]

\* Two models to a panel: three lists say what longer ones would.
MCCatalogue ==
  LET llamaA == Model("llama-a", "llama", "0", "0", TRUE)
      llamaB == Model("llama-b", "llama", "0", "0", TRUE)
      qwenA == Model("qwen-a", "qwen", "0", "0", TRUE)
      qwenB == Model("qwen-b", "qwen", "0", "paid", TRUE)
      gemma == Model("gemma-a", "gemma", "0", "unquoted", TRUE)
      gemini == Model("gemini-a", "gemini", "0", "0", FALSE)
  IN  {<<qwenB, gemma, gemini>>, <<gemini, llamaA, llamaB, qwenB>>, <<llamaA, llamaB, qwenA>>}

MCPanelSpec ==
  {<<>>,
   <<[provider |-> "gemini", model |-> "a"], [provider |-> "gemini", model |-> "b"],
     [provider |-> "openai", model |-> "default"]>>,
   <<[provider |-> "gemini", model |-> "default"], [provider |-> "mock", model |-> "a"]>>}
=============================================================================
