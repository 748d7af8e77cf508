----------------------------- MODULE Providers -----------------------------
(***************************************************************************)
(* What the gateway sends to a provider and how it reads the answer        *)
(* (packages/core/src/providers.ts): one body of a public request becomes  *)
(* the body of an OpenAI-compatible, an Anthropic or a Cloudflare request, *)
(* and whatever comes back becomes an OpenAI completion.                   *)
(***************************************************************************)
EXTENDS Requests

NoUsage == [known |-> FALSE, prompt |-> 0, completion |-> 0]

(***************************************************************************)
(* normalizeProviderUsage: counts that are not safe integers, or whose     *)
(* total is not their sum, are no usage at all.                            *)
(***************************************************************************)
Usage(prompt, completion) == [known |-> TRUE, prompt |-> prompt, completion |-> completion]

NormalizeUsage(usage) ==
  IF usage.known /\ usage.total = usage.prompt + usage.completion
  THEN Usage(usage.prompt, usage.completion) ELSE NoUsage

-----------------------------------------------------------------------------
(* Requests.                                                               *)

\* upstreamBody: some providers know the limit under its new name only, and
\* some refuse stream_options.
OpenAiBody(provider, body) ==
  [style |-> "openai-compatible", system |-> <<>>, messages |-> body.messages,
   field |-> IF provider = "openai" THEN "max_completion_tokens" ELSE "max_tokens",
   limit |-> body.limit, stream |-> body.stream,
   includeUsage |-> body.stream /\ provider # "perplexity",
   tools |-> body.tools, choice |-> body.choice, sampling |-> body.sampling]

\* Mutant of CloudflareBody: the limit keeps a name Cloudflare does not know.
CloudflareBodyRenamed(body) ==
  [style |-> "cloudflare-rest", system |-> <<>>, messages |-> body.messages,
   field |-> "max_completion_tokens", limit |-> body.limit, stream |-> body.stream,
   includeUsage |-> FALSE, tools |-> body.tools, choice |-> body.choice, sampling |-> body.sampling]

\* cloudflareRequestBody: no stream_options.
CloudflareBody(body) ==
  [style |-> "cloudflare-rest", system |-> <<>>, messages |-> body.messages,
   field |-> "max_tokens", limit |-> body.limit, stream |-> body.stream,
   includeUsage |-> FALSE, tools |-> body.tools, choice |-> body.choice, sampling |-> body.sampling]

\* The part of a sequence of blocks whose kinds are among those given.
BlocksOf(blocks, kinds) ==
  FlattenSeq([i \in DOMAIN blocks |-> IF blocks[i][1] \in kinds THEN <<blocks[i]>> ELSE <<>>])

TextBlocks(message) == BlocksOf(message.content, {"text"})

(***************************************************************************)
(* anthropicUserBlocks: images become image blocks.  An image that is      *)
(* given in place but not in base64 has no source and is left out.         *)
(***************************************************************************)
UserBlocks(message) ==
  FlattenSeq([i \in DOMAIN message.content |->
                LET part == message.content[i]
                IN  IF part[1] = "text" THEN <<part>>
                    ELSE IF part[1] \in {"https", "base64"} THEN << <<"image", part[2]>> >>
                    ELSE <<>>])

\* A message as a turn of an Anthropic conversation.
Turn(message) ==
  CASE message.role = "tool" ->
         [role |-> "user", content |-> << <<"tool_result", message.answers>> >>]
    [] message.role = "assistant" ->
         [role |-> "assistant",
          content |-> TextBlocks(message)
                        \o [i \in DOMAIN message.calls |-> <<"tool_use", message.calls[i]>>]]
    [] message.role = "user" -> [role |-> "user", content |-> UserBlocks(message)]

Results(blocks) == BlocksOf(blocks, {"tool_result"})
Others(blocks) ==
  FlattenSeq([i \in DOMAIN blocks |-> IF blocks[i][1] = "tool_result" THEN <<>> ELSE <<blocks[i]>>])

\* Mutant of FoldTurn: a folded turn keeps its blocks in the order of the messages.
FoldTurnInOrder(folded, turn) ==
  IF folded # <<>> /\ Last(folded).role = turn.role
  THEN [folded EXCEPT ![Len(folded)].content = @ \o turn.content]
  ELSE Append(folded, turn)

(***************************************************************************)
(* Turns of one role that follow each other become one; the results of     *)
(* tools lead it.                                                          *)
(***************************************************************************)
FoldTurn(folded, turn) ==
  IF folded # <<>> /\ Last(folded).role = turn.role
  THEN [folded EXCEPT ![Len(folded)].content =
          IF turn.role = "user" THEN Results(turn.content) \o @ \o Others(turn.content)
          ELSE @ \o turn.content]
  ELSE Append(folded, turn)

Conversation(messages) ==
  LET fold[i \in 0..Len(messages)] ==
        IF i = 0 THEN <<>>
        ELSE IF FromSystem(messages[i]) THEN fold[i - 1] ELSE FoldTurn(fold[i - 1], Turn(messages[i]))
  IN  fold[Len(messages)]

\* tool_choice in the words of Anthropic; auto is what it does by default.
AnthropicChoice(body) ==
  CASE body.tools = <<>> \/ body.choice \in {<<"absent">>, <<"auto">>} -> <<"absent">>
    [] body.tools # <<>> /\ body.choice = <<"none">> -> <<"none">>
    [] body.tools # <<>> /\ body.choice = <<"required">> -> <<"any">>
    [] body.tools # <<>> /\ Len(body.choice) = 2 -> <<"tool", body.choice[2]>>

\* What system and developer messages say becomes a field of its own.
SystemText(messages) ==
  FlattenSeq([i \in DOMAIN messages |-> IF FromSystem(messages[i]) THEN messages[i].content ELSE <<>>])

\* anthropicRequestBody; temperature wins over top_p.
AnthropicBody(body) ==
  [style |-> "anthropic-messages", system |-> SystemText(body.messages),
   messages |-> Conversation(body.messages),
   field |-> "max_tokens", limit |-> body.limit, stream |-> body.stream, includeUsage |-> FALSE,
   tools |-> body.tools, choice |-> AnthropicChoice(body),
   sampling |-> IF "temperature" \in body.sampling THEN {"temperature"} ELSE body.sampling]

(***************************************************************************)
(* Whether buildProviderRequest can build the request at all.  The gateway *)
(* passes no native Cloudflare binding (aiPublic.ts:119), which would send *)
(* embeddings to Cloudflare too.                                           *)
(***************************************************************************)
Buildable(route, pools, endpoint) ==
  /\ pools[route.pool].provider = route.provider
  /\ endpoint = "embeddings" => pools[route.pool].style = "openai-compatible"

UpstreamRequest(route, pools, body) ==
  CASE pools[route.pool].style = "openai-compatible" -> OpenAiBody(route.provider, body)
    [] pools[route.pool].style = "anthropic-messages" -> AnthropicBody(body)
    [] pools[route.pool].style = "cloudflare-rest" -> CloudflareBody(body)

-----------------------------------------------------------------------------
(* Answers that are not streams.                                           *)

FinishReason(stopReason) ==
  CASE stopReason = "max_tokens" -> "length"
    [] stopReason = "tool_use" -> "tool_calls"
    [] stopReason = "refusal" -> "content_filter"
    [] OTHER -> "stop"

Completion(text, finish, usage) == [ok |-> TRUE, text |-> text, finish |-> finish, usage |-> usage]
InvalidAnswer == [ok |-> FALSE, text |-> <<>>, finish |-> "none", usage |-> NoUsage]

(***************************************************************************)
(* An answer is a record of its shape, its text, what it stopped for and   *)
(* its usage.  Cloudflare wraps an OpenAI completion, or a bare response   *)
(* whose usage may be outside of the result.                               *)
(***************************************************************************)
NormalizeOpenAi(answer) ==
  IF answer.shape = "completion"
  THEN Completion(answer.text, answer.finish, NormalizeUsage(answer.usage)) ELSE InvalidAnswer

NormalizeAnthropic(answer) ==
  IF answer.shape = "message"
  THEN Completion(answer.text, FinishReason(answer.finish), NormalizeUsage(answer.usage)) ELSE InvalidAnswer

NormalizeCloudflare(answer) ==
  CASE answer.shape = "completion" -> NormalizeOpenAi(answer)
    [] answer.shape = "bare" -> Completion(answer.text, "stop", NormalizeUsage(answer.usage))
    [] OTHER -> InvalidAnswer

\* Only the input of an embeddings call counts.
NormalizeEmbeddings(answer) ==
  IF answer.shape = "vectors"
  THEN Completion(<<>>, "stop", IF answer.usage.known THEN Usage(answer.usage.prompt, 0) ELSE NoUsage)
  ELSE InvalidAnswer

NormalizeAnswer(style, endpoint, answer) ==
  CASE endpoint = "embeddings" -> NormalizeEmbeddings(answer)
    [] endpoint # "embeddings" /\ style = "cloudflare-rest" -> NormalizeCloudflare(answer)
    [] endpoint # "embeddings" /\ style = "anthropic-messages" -> NormalizeAnthropic(answer)
    [] endpoint # "embeddings" /\ style = "openai-compatible" -> NormalizeOpenAi(answer)
=============================================================================
