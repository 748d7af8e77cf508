----------------------------- MODULE Requests ------------------------------
(***************************************************************************)
(* How the public endpoints turn the body of a request into a call that    *)
(* can be reserved and sent (prepareAutonomia... of                        *)
(* packages/core/src/inference.ts).                                        *)
(*                                                                         *)
(* A body is a record of the fields the checks tell apart.  A message is a *)
(* record of its role, the form of its content ("string", "parts" or       *)
(* "null"), the parts of the content, the tool calls of an assistant and   *)
(* the tool call a tool message answers.  A part is a pair of its kind and *)
(* a number that tells it from the other parts.  "options" stands for the  *)
(* fields whose checks look at nothing else (penalties, seed, n, stop,     *)
(* stream_options, template arguments, the idempotency key).               *)
(***************************************************************************)
EXTENDS Integers, Catalog, Sums, FiniteSetsExt

CONSTANTS
  MaxMessages,      \* the most messages of a request, 256
  MaxItems,         \* the most inputs of an embeddings request, 2048
  RequestTokens,    \* tokens every estimate starts with, 32
  MessageTokens,    \* tokens every message adds to the estimate, 8
  PartTokens,       \* tokens the text of a part adds to the estimate
  ImageTokens       \* tokens an image adds to the estimate, 1000

ASSUME RequestsAssumption ==
  {MaxMessages, MaxItems, RequestTokens, MessageTokens, PartTokens, ImageTokens} \subseteq Nat

NotGiven == -1

Rejected(code) == [ok |-> FALSE, code |-> code]

(***************************************************************************)
(* Checks are pairs of what must hold and the error if it does not; the    *)
(* first that fails decides.                                               *)
(***************************************************************************)
FirstError(checks) ==
  LET failed == {i \in DOMAIN checks : ~checks[i][1]}
  IN  IF failed = {} THEN "none" ELSE checks[Min(failed)][2]

Images == {"https", "base64", "raw"}

PartValid(part) == part[1] \in {"text"} \cup Images

\* What a message must look like; parts are for users of models that see.
MessageValid(message, vision) ==
  /\ message.role \in {"system", "developer", "user", "assistant", "tool"}
  /\ (message.role = "tool") = (message.answers # NotGiven)
  /\ message.calls # <<>> => message.role = "assistant"
  /\ CASE message.calls # <<>> -> message.form \in {"string", "null"}
       [] message.calls = <<>> /\ message.form = "parts" ->
            /\ message.role = "user"
            /\ vision
            /\ message.content # <<>>
            /\ \A part \in Range(message.content) : PartValid(part)
       [] OTHER -> message.form = "string" /\ message.content # <<>>

MessagesValid(messages, vision) ==
  /\ Len(messages) \in 1..MaxMessages
  /\ \A message \in Range(messages) : MessageValid(message, vision)

UsesTools(body) ==
  \/ body.tools # <<>>
  \/ body.choice # <<"absent">>
  \/ \E message \in Range(body.messages) : message.role = "tool" \/ message.calls # <<>>

\* max_completion_tokens and max_tokens are one limit under two names.
RequestedLimit(body) == IF body.maxCompletion # NotGiven THEN body.maxCompletion ELSE body.maxTokens

OutputLimit(model, body) ==
  IF RequestedLimit(body) = NotGiven THEN model.limits.default ELSE RequestedLimit(body)

PartsOf(messages) ==
  Total([i \in DOMAIN messages |-> Len(messages[i].content) + Len(messages[i].calls)], Len(messages))

ImagesIn(content) == Cardinality({i \in DOMAIN content : content[i][1] \in Images})

ImagesOf(messages) == Total([i \in DOMAIN messages |-> ImagesIn(messages[i].content)], Len(messages))

\* The size of the input, its tools included, as the reservation counts it.
EstimateInput(body) ==
  RequestTokens + MessageTokens * Len(body.messages)
    + PartTokens * (PartsOf(body.messages) + Len(body.tools))
    + ImageTokens * ImagesOf(body.messages)

Known(bundle, body) == body.model \in EnabledModels(bundle)

Model(bundle, body) == bundle.models[body.model]

Allowed(key, body) == key.allowlist = {} \/ body.model \in key.allowlist

\* Checks that do not need a model, and those of a model that was found.
\* "tolerated" fields are those a client may send and nobody reads.
Entry(bundle, key, body, capability) ==
  << <<body.fields # "unknown", "unsupported_parameter">>,
     <<body.fields = "tolerated" => body.endpoint # "embeddings", "unsupported_parameter">>,
     <<body.fields # "unsupported",
       IF body.endpoint = "responses" THEN "unsupported_feature" ELSE "unsupported_parameter">>,
     <<Known(bundle, body), "model_not_found">>,
     <<Allowed(key, body), "model_not_allowed">>,
     <<Known(bundle, body) => capability \in Model(bundle, body).capabilities, "unsupported_feature">> >>

ChatChecks(model, body) ==
  << <<body.format = "json_object" => "json_mode" \in model.capabilities, "unsupported_feature">>,
     <<body.format = "json_schema" => "structured_outputs" \in model.capabilities, "unsupported_feature">>,
     <<MessagesValid(body.messages, "vision" \in model.capabilities), "invalid_request">>,
     <<UsesTools(body) => "tools" \in model.capabilities, "unsupported_feature">>,
     <<IsInjective(body.tools), "invalid_request">>,
     <<body.choice # <<"absent">> => body.tools # <<>>, "invalid_request">>,
     <<Len(body.choice) = 2 => body.choice[2] \in Range(body.tools), "invalid_request">>,
     <<body.stream => "streaming" \in model.capabilities, "unsupported_feature">>,
     <<body.maxCompletion # NotGiven /\ body.maxTokens # NotGiven => body.maxCompletion = body.maxTokens,
       "invalid_request">>,
     <<OutputLimit(model, body) \in 1..model.limits.output, "invalid_request">>,
     <<body.options = "good", "invalid_request">>,
     <<WithinLimits(model, EstimateInput(body), OutputLimit(model, body)),
       "context_length_exceeded">> >>

ReservedOutput(model, body) == OutputLimit(model, body)

\* prepareAutonomiaChatBody.
PrepareChat(bundle, key, body, endpoint) ==
  LET entry == FirstError(Entry(bundle, key, body, "chat_completions"))
      model == Model(bundle, body)
      error == IF entry # "none" THEN entry ELSE FirstError(ChatChecks(model, body))
      estimate == EstimateInput(body)
      reserved == Cost(model, estimate, ReservedOutput(model, body))
  IN  IF error # "none" THEN Rejected(error)
      ELSE IF key.spendLimit # NotGiven /\ reserved > key.spendLimit THEN Rejected("spend_limit_exceeded")
      ELSE [ok |-> TRUE, endpoint |-> endpoint, model |-> body.model, stream |-> body.stream,
            estimate |-> estimate, limit |-> OutputLimit(model, body), reserved |-> reserved,
            body |-> [messages |-> body.messages, stream |-> body.stream,
                      limit |-> OutputLimit(model, body), tools |-> body.tools, choice |-> body.choice,
                      sampling |-> body.sampling]]

-----------------------------------------------------------------------------
(* The responses endpoint: a bridge to the one above.                      *)

ItemValid(item) ==
  /\ item.role \in {"system", "developer", "user", "assistant"}
  /\ IF item.form = "parts" THEN item.role = "user"
     ELSE item.form = "string" /\ item.content # <<>>

Plain(role, form, content) ==
  [role |-> role, form |-> form, content |-> content, calls |-> <<>>, answers |-> NotGiven]

\* The instructions become a system message before the items.
InputMessages(body) ==
  (IF body.instructions = <<>> THEN <<>> ELSE <<Plain("system", "string", body.instructions)>>)
    \o [i \in DOMAIN body.messages |->
          Plain(body.messages[i].role, body.messages[i].form, body.messages[i].content)]

FromSystem(message) == message.role \in {"system", "developer"}

ResponsesChecks(model, body) ==
  << <<body.stream => "streaming" \in model.capabilities, "unsupported_feature">>,
     <<\A item \in Range(body.messages) : ItemValid(item), "invalid_request">>,
     <<\E item \in Range(body.messages) : ~FromSystem(item), "invalid_request">> >>

\* prepareAutonomiaResponsesRequest.
PrepareResponses(bundle, key, body) ==
  LET entry == FirstError(Entry(bundle, key, body, "chat_completions"))
      error == IF entry # "none" THEN entry
               ELSE FirstError(ResponsesChecks(Model(bundle, body), body))
  IN  IF error # "none" THEN Rejected(error)
      ELSE PrepareChat(bundle, key,
                       [body EXCEPT !.messages = InputMessages(body), !.maxTokens = NotGiven,
                                    !.tools = <<>>, !.choice = <<"absent">>, !.format = "text"],
                       "responses")

-----------------------------------------------------------------------------
(* The embeddings endpoint: no stream and no output.                       *)

EmbeddingsChecks(model, body) ==
  << <<Len(body.messages) \in 1..MaxItems, "invalid_request">>,
     <<\A item \in Range(body.messages) : item.content # <<>>, "invalid_request">>,
     <<body.options = "good", "invalid_request">>,
     \* this error of the pricing is not translated as it is for a chat
     <<WithinLimits(model, RequestTokens + PartTokens * PartsOf(body.messages), 0),
       "service_unavailable">> >>

\* prepareAutonomiaEmbeddingsRequest.
PrepareEmbeddings(bundle, key, body) ==
  LET entry == FirstError(Entry(bundle, key, body, "embeddings"))
      model == Model(bundle, body)
      error == IF entry # "none" THEN entry ELSE FirstError(EmbeddingsChecks(model, body))
      estimate == RequestTokens + PartTokens * PartsOf(body.messages)
      reserved == Cost(model, estimate, 0)
  IN  IF error # "none" THEN Rejected(error)
      ELSE IF key.spendLimit # NotGiven /\ reserved > key.spendLimit THEN Rejected("spend_limit_exceeded")
      ELSE [ok |-> TRUE, endpoint |-> "embeddings", model |-> body.model, stream |-> FALSE,
            estimate |-> estimate, limit |-> 0, reserved |-> reserved,
            body |-> [messages |-> body.messages, stream |-> FALSE, limit |-> 0,
                      tools |-> <<>>, choice |-> <<"absent">>, sampling |-> {}]]

Prepare(bundle, key, body) ==
  CASE body.endpoint = "chat.completions" -> PrepareChat(bundle, key, body, "chat.completions")
    [] body.endpoint = "responses" -> PrepareResponses(bundle, key, body)
    [] body.endpoint = "embeddings" -> PrepareEmbeddings(bundle, key, body)
=============================================================================
