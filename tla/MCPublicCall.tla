---------------------------- MODULE MCPublicCall ----------------------------
EXTENDS PublicCall

MCRoute(id, pool, provider, priority) ==
  [id |-> id, pool |-> pool, provider |-> provider, priority |-> priority, timeout |-> 1, enabled |-> TRUE]

MCPool(provider) ==
  [malformed |-> FALSE, provider |-> provider, style |-> StyleOf(provider), enabled |-> TRUE,
   baseCooldown |-> 1, maxCooldown |-> 2,
   credentials |-> << [id |-> provider, enabled |-> TRUE, weight |-> 1, maxInFlight |-> 1] >>]

MCModel(capabilities, routes) ==
  [malformed |-> FALSE, enabled |-> TRUE, capabilities |-> capabilities,
   billing |-> [input |-> 3, output |-> 7, minimum |-> 2],
   limits |-> [context |-> 24, input |-> 12, default |-> 10, output |-> 12],
   routes |-> routes]

AllChat == {"chat_completions", "streaming", "tools", "vision", "json_mode"}

MCBundle ==
  [sameRevision |-> TRUE,
   models |->
     ("open" :> MCModel(AllChat, << MCRoute(3, "o", "openai", 1), MCRoute(2, "p", "perplexity", 0) >>)) @@
     ("claude" :> MCModel(AllChat, << MCRoute(4, "a", "anthropic", 0) >>)) @@
     ("cloud" :> MCModel(AllChat \ {"vision"}, << MCRoute(5, "c", "cloudflare-workers-ai", 0) >>)) @@
     ("plain" :> MCModel({"chat_completions"}, << MCRoute(6, "c", "cloudflare-workers-ai", 0) >>)) @@
     ("embed" :> MCModel({"embeddings"}, << MCRoute(7, "o", "openai", 0), MCRoute(8, "a", "anthropic", 0) >>)),
   pools |->
     ("o" :> MCPool("openai")) @@ ("p" :> MCPool("perplexity")) @@ ("a" :> MCPool("anthropic")) @@
     ("c" :> MCPool("cloudflare-workers-ai"))]

\* The bundle, and one with each thing validation looks at changed.
MCBundles ==
  {MCBundle,
   [MCBundle EXCEPT !.sameRevision = FALSE],
   [MCBundle EXCEPT !.models["open"].malformed = TRUE],
   [MCBundle EXCEPT !.models["open"].limits.context = 23],
   [MCBundle EXCEPT !.models["open"].limits.default = 13],
   [MCBundle EXCEPT !.models["open"].routes[1].id = 2],
   [MCBundle EXCEPT !.models["open"].routes[1].timeout = 2],
   [MCBundle EXCEPT !.models["claude"].routes[1].enabled = FALSE],
   [MCBundle EXCEPT !.models["claude"].routes[1].pool = "o"],
   [MCBundle EXCEPT !.models["claude"].routes[1].pool = "none"],
   [MCBundle EXCEPT !.pools["a"].enabled = FALSE],
   [MCBundle EXCEPT !.pools["a"].style = "openai-compatible"],
   [MCBundle EXCEPT !.pools["a"].baseCooldown = 3],
   [MCBundle EXCEPT !.pools["a"].credentials[1].enabled = FALSE],
   [MCBundle EXCEPT !.pools["a"].enabled = FALSE, !.pools["a"].credentials[1].enabled = FALSE,
                    !.models["claude"].enabled = FALSE, !.models["embed"].enabled = FALSE,
                    !.models["open"].enabled = FALSE, !.models["cloud"].enabled = FALSE]}

MCKeys ==
  {[allowlist |-> {}, spendLimit |-> NotGiven],
   [allowlist |-> {"plain", "embed"}, spendLimit |-> 9]}

MCBody ==
  [endpoint |-> "chat.completions", fields |-> "known", model |-> "open", options |-> "good",
   messages |-> << Plain("user", "string", << <<"text", 1>> >>) >>, instructions |-> <<>>,
   format |-> "text", tools |-> <<>>, choice |-> <<"absent">>, stream |-> FALSE,
   maxCompletion |-> NotGiven, maxTokens |-> NotGiven, sampling |-> {}]

\* The messages a conversation is made of, numbered by their place.
MCMessages(i) ==
  {Plain("system", "string", << <<"text", i>> >>),
   Plain("user", "string", << <<"text", i>> >>),
   Plain("user", "parts", << <<"https", i>>, <<"text", i>>, <<"raw", i>> >>),
   Plain("assistant", "string", << <<"text", i>> >>),
   [role |-> "assistant", form |-> "null", content |-> <<>>, calls |-> << 10 * i, 10 * i + 1 >>,
    answers |-> NotGiven],
   [role |-> "tool", form |-> "string", content |-> << <<"text", i>> >>, calls |-> <<>>, answers |-> 10 + i]}

MCConversations ==
  {<<a>> : a \in MCMessages(1)} \cup (MCMessages(1) \X MCMessages(2))
    \cup (MCMessages(1) \X MCMessages(2) \X MCMessages(3))

MCStreams ==
  {[MCBody EXCEPT !.model = "open", !.stream = TRUE],
   [MCBody EXCEPT !.model = "claude", !.stream = TRUE],
   [MCBody EXCEPT !.endpoint = "responses", !.model = "cloud", !.stream = TRUE]}

MCBodies ==
  {[MCBody EXCEPT !.model = m, !.messages = c] : m \in {"claude", "cloud"}, c \in MCConversations}
  \cup {[MCBody EXCEPT !.model = m, !.maxCompletion = a, !.maxTokens = b, !.sampling = x] :
          m \in {"open", "claude", "cloud", "plain", "none"}, a \in {NotGiven, 1, 2, 13}, b \in {NotGiven, 0, 2},
          x \in {{}, {"top_p"}, {"top_p", "temperature"}}}
  \cup {[MCBody EXCEPT !.model = m, !.tools = t, !.choice = c] :
          m \in {"claude", "plain"}, t \in {<<>>, <<1>>, <<1, 1>>, <<1, 2>>},
          c \in {<<"absent">>, <<"none">>, <<"auto">>, <<"required">>, <<"function", 2>>}}
  \cup {[MCBody EXCEPT !.model = m, !.format = f, !.stream = s] :
          m \in {"open", "plain"}, f \in {"json_object", "json_schema"}, s \in BOOLEAN}
  \cup {[MCBody EXCEPT !.endpoint = e, !.model = m, !.fields = f, !.options = o] :
          e \in {"chat.completions", "responses", "embeddings"}, m \in {"open", "plain", "embed"},
          f \in {"known", "unknown", "unsupported", "tolerated"}, o \in {"good", "bad"}}
  \cup {[MCBody EXCEPT !.endpoint = "responses", !.model = m, !.messages = c, !.instructions = i,
                       !.maxCompletion = l] :
          m \in {"claude", "open"}, c \in MCMessages(1) \X MCMessages(2), i \in {<<>>, << <<"text", 0>> >>},
          l \in {NotGiven, 2}}
  \cup {[MCBody EXCEPT !.endpoint = "embeddings", !.model = "embed", !.messages = c] :
          c \in {<<>>} \cup MCConversations}
  \cup MCStreams

MCAnswers ==
  {[shape |-> s, text |-> <<1, 2, 3>>, finish |-> f, usage |-> u] :
     s \in {"completion", "message", "bare", "vectors", "none"}, f \in {"stop", "length", "max_tokens"},
     u \in {NoUsage} \cup {[known |-> TRUE, prompt |-> 3, completion |-> n, total |-> 4] : n \in {1, 5}}}

MCBeginnings == {<< <<CR, LF>>, <<BOM>> >>, << <<CR>>, <<>> >>}

MCOpenAiEvents ==
  {Event("message", <<"usage", n>>) : n \in 1..2}
  \cup {Event("message", <<"bad usage", 1>>), Event("message", <<"finish", 1>>), Event("notice", <<"text", 1>>),
        Event("message", Oversized), [event |-> "message", data |-> << <<Done>>, <<>> >>]}
=============================================================================
