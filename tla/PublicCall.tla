----------------------------- MODULE PublicCall -----------------------------
(***************************************************************************)
(* One call of a public endpoint from the start of the gateway to the last *)
(* byte the client reads: the configuration is checked, the request is     *)
(* prepared and priced, sent to a provider of one of three kinds, and its  *)
(* answer, a body or a stream of events that arrives in pieces, is told to *)
(* the client, charged, and kept for a replay                              *)
(* (apps/gateway/src/routes/aiPublic.ts and what it calls).                *)
(*                                                                         *)
(* Reservations, retries and the faults of the database are in Inference;  *)
(* here a settlement succeeds or fails in one step, and the route of the   *)
(* call is any of its candidates.                                          *)
(***************************************************************************)
EXTENDS Chunks

CONSTANTS
  Bundles,          \* the configurations a gateway may be started with
  Keys,             \* the API keys a request may come under
  Bodies,           \* the bodies of requests
  Answers,          \* what a provider may answer outside of a stream
  Beginnings,       \* pairs of a line end a provider may use and what it may send first
  OpenAiEvents,     \* what an OpenAI or a Cloudflare stream may hold
  MaxEvents,        \* bound on the events of a stream before its last
  MaxUnread,        \* bound on the tokens that wait while the provider writes
  MaxSplits,        \* bound on the chunks that end within an event
  CharsPerPiece     \* the characters of a piece of text

Texts == Seq(STRING \X Nat)
Messages == [role : STRING, form : STRING, content : Texts, calls : Seq(Nat), answers : Int]
ToolChoices == {<<"absent">>, <<"none">>, <<"auto">>, <<"required">>} \cup ({"function"} \X Nat)
NewLines == {<<LF>>, <<CR>>, <<CR, LF>>}

\* Prices and limits are whole numbers.
ASSUME BundlesAssumption ==
  \A bundle \in Bundles : \A id \in DOMAIN bundle.models :
    /\ bundle.models[id].billing \in [input : Nat, output : Nat, minimum : Nat]
    /\ bundle.models[id].limits \in [context : Nat, input : Nat, default : Nat, output : Nat]

\* The fields of a request; content that is not in parts is text.
ASSUME BodiesAssumption ==
  /\ Bodies \subseteq
       [endpoint : {"chat.completions", "responses", "embeddings"}, fields : STRING, model : STRING,
        options : STRING, messages : Seq(Messages), instructions : Seq({"text"} \X Nat), format : STRING,
        tools : Seq(Nat), choice : ToolChoices, stream : BOOLEAN, maxCompletion : Int, maxTokens : Int,
        sampling : SUBSET STRING]
  /\ \A body \in Bodies : \A message \in Range(body.messages) :
       message.form # "parts" => \A part \in Range(message.content) : part[1] = "text"

\* A usage a provider reports has counts.
ASSUME AnswersAssumption ==
  /\ CharsPerPiece \in Nat
  /\ \A answer \in Answers :
       /\ answer.text \in Seq(Nat)
       /\ answer.usage.known \in BOOLEAN
       /\ {answer.usage.prompt, answer.usage.completion} \subseteq Nat

\* The lines of an event have no line ends.
ASSUME StreamsAssumption ==
  /\ Beginnings \subseteq NewLines \X {<<>>, <<BOM>>}
  /\ \A event \in OpenAiEvents :
       /\ event \in [event : STRING, data : Seq(Seq(Token \ {CR, LF}))]
       /\ event.event \notin {"\r", "\n"}
       /\ event.data # <<>>

VARIABLES
  stage,            \* where the call is
  gateway,          \* the bundle and the key of the call
  call,             \* the prepared call
  sent,             \* the request the provider got
  stream,           \* the provider's end of the stream
  written,          \* the events the provider wrote to their end
  parser,           \* the parser of the provider's stream
  parsed,           \* the events the parser returned
  adapter,          \* the adapter of an Anthropic stream
  queue,            \* what the loop of the endpoint has to read
  pump,             \* the loop of the endpoint
  bridge,           \* the bridge of a responses stream
  frames,           \* what the client was told
  charge,           \* what became of the reservation
  replay            \* what is kept for a replay

vars == <<stage, gateway, call, sent, stream, written, parser, parsed, adapter, queue, pump, bridge,
          frames, charge, replay>>

Uncharged == [state |-> "none", source |-> "none", input |-> 0, output |-> 0]
Marked == [Uncharged EXCEPT !.state = "marked"]
Refunded == [Uncharged EXCEPT !.state = "refunded"]
Charge(source, usage) ==
  [state |-> "settled", source |-> source, input |-> usage.prompt, output |-> usage.completion]

(***************************************************************************)
(* received is the last usage the provider reported, pieces how much text  *)
(* it sent, terminal which of finalizeStream and failStream was called     *)
(* first: the other one returns the same promise.                          *)
(***************************************************************************)
NewPump == [state |-> "reading", received |-> NoUsage, pieces |-> 0, terminal |-> "none", cancelled |-> FALSE]

Unsent == [style |-> "none"]

NewStream == [text |-> <<>>, newline |-> <<LF>>, state |-> "open", splits |-> 0]

PublicCallInit ==
  /\ stage = "starting"
  /\ gateway \in [bundle : Bundles, key : Keys]
  /\ call = Rejected("none") /\ sent = Unsent
  /\ stream = NewStream /\ written = <<>>
  /\ parser = NewParser /\ parsed = <<>> /\ adapter = NewAdapter /\ queue = <<>>
  /\ pump = NewPump /\ bridge = NewBridge
  /\ frames = <<>> /\ charge = Uncharged /\ replay = <<>>

streamVars == <<stream, written, parser, parsed, adapter, queue, pump, bridge>>
tellVars == <<frames, charge, replay>>

CallModel == gateway.bundle.models[call.model]

-----------------------------------------------------------------------------
(* Up to the answer.                                                       *)

\* assertAutonomiaConfigBundleAtStartup: a bad configuration ends the start.
Start ==
  /\ stage = "starting"
  /\ stage' = IF BundleValid(gateway.bundle) THEN "listening" ELSE "refused"
  /\ UNCHANGED <<gateway, call, sent, streamVars, tellVars>>

Receive(body) ==
  /\ stage = "listening"
  /\ call' = Prepare(gateway.bundle, gateway.key, body)
  /\ stage' = IF call'.ok THEN "reserved" ELSE "rejected"
  /\ UNCHANGED <<gateway, sent, streamVars, tellVars>>

\* invokeProviderRoute; a request that cannot be built is never sent.
Send(route) ==
  /\ stage = "reserved"
  /\ route \in CandidateRoutes(CallModel)
  /\ IF Buildable(route, gateway.bundle.pools, call.endpoint)
     THEN /\ stage' = "sent"
          /\ sent' = UpstreamRequest(route, gateway.bundle.pools, call.body)
          /\ UNCHANGED charge
     ELSE /\ stage' = "over" /\ charge' = Refunded /\ UNCHANGED sent
  /\ UNCHANGED <<gateway, call, streamVars, frames, replay>>

-----------------------------------------------------------------------------
(* Answers that are not streams.                                           *)

EstimateTokens(pieces) == CeilDivide(pieces * CharsPerPiece, 4) + 8

Smaller(a, b) == IF a < b THEN a ELSE b

\* Mutant of Estimated: the limit of the call does not bound the estimate.
EstimatedUncapped(pieces) == Usage(call.estimate, EstimateTokens(pieces))

\* What a call is charged for if the provider reported no usage.
Estimated(pieces) ==
  Usage(call.estimate,
        IF call.endpoint = "embeddings" THEN 0 ELSE Smaller(EstimateTokens(pieces), call.limit))

\* executeJson: settled first, then told; an answer that makes no sense is marked.
AnswerBody(answer) ==
  LET result == NormalizeAnswer(sent.style, call.endpoint, answer)
      source == IF result.usage.known THEN "provider" ELSE "estimate"
      usage == IF result.usage.known THEN result.usage ELSE Estimated(Len(result.text))
      body == Frame(IF call.endpoint = "responses" /\ result.finish = "length" THEN "incomplete" ELSE "completed",
                    result.text, usage)
  IN  /\ stage = "sent"
      /\ ~call.stream
      /\ stage' = "over"
      /\ \/ ~result.ok /\ charge' = Marked /\ UNCHANGED <<frames, replay>>
         \/ result.ok /\ charge' = Marked /\ UNCHANGED <<frames, replay>>   \* the settlement failed
         \/ /\ result.ok
            /\ charge' = Charge(source, usage)
            /\ frames' = <<body>>
            /\ replay' \in {<<>>, <<body>>}                                 \* the save may fail
      /\ UNCHANGED <<gateway, call, sent, streamVars>>

-----------------------------------------------------------------------------
(* The provider and its stream.                                            *)

(***************************************************************************)
(* The loop of the endpoint gets through what was parsed before the next   *)
(* chunk, or a cancel, has its turn: nothing it waits for in between is    *)
(* outside of the process.  So nothing is lost if the provider writes      *)
(* between these turns only.                                               *)
(***************************************************************************)
Waiting == stage = "streaming" /\ pump.state = "reading" /\ queue = <<>>

OpenStream(newline, start) ==
  /\ stage = "sent"
  /\ call.stream
  /\ stage' = "streaming"
  /\ stream' = [stream EXCEPT !.newline = newline, !.text = start]
  /\ UNCHANGED <<gateway, call, sent, written, parser, parsed, adapter, queue, pump, bridge, tellVars>>

Anthropic == sent.style = "anthropic-messages"

KindOf(event) == PayloadOf(event)[1]

\* Whether the provider said that its answer is complete.
Finished(events) ==
  \E event \in Range(events) : KindOf(event) = IF Anthropic THEN "message_stop" ELSE "[DONE]"

Event(name, payload) == [event |-> name, data |-> << <<payload>> >>]

(***************************************************************************)
(* What an Anthropic stream may hold next: a start, blocks with the next   *)
(* number, deltas of the last block, what it stopped for, its end, and     *)
(* text that is no JSON and errors anywhere.                               *)
(***************************************************************************)
AnthropicEvents ==
  LET next == Cardinality({i \in DOMAIN written : KindOf(written[i]) \in {"text_start", "tool_start"}})
      Of(payload) == Event("message", payload)
      Started(kind) == Of(<<kind, next - 1>>) \in Range(written)
  IN  {Event("error", <<"error", 0>>), Of(Garbled)}
      \cup (IF written = <<>> THEN {Of(<<"message_start", 1>>)}
            ELSE {Of(<<"text_start", next>>), Of(<<"tool_start", next>>)})
      \cup (IF Started("text_start") THEN {Of(<<"text", next - 1>>)} ELSE {})
      \cup (IF Started("tool_start") THEN {Of(<<"args", next - 1>>)} ELSE {})
      \cup (IF next > 0 THEN {Of(<<"message_delta", n>>) : n \in 1..2} ELSE {})

Ending == IF Anthropic THEN Event("message", <<"message_stop", 0>>) ELSE Event("message", Done)

\* The lines of an event; the blank line completes it.
LinesOf(event) ==
  (IF event.event = "message" THEN <<>> ELSE << <<EventField, <<event.event, 0>> >> >>)
    \o [i \in DOMAIN event.data |-> <<DataField>> \o event.data[i]]
    \o << <<>> >>

TextOf(event) ==
  FlattenSeq([i \in DOMAIN LinesOf(event) |-> LinesOf(event)[i] \o stream.newline])

Write(event) ==
  /\ Waiting /\ stream.state = "open"
  /\ ~Finished(written)
  /\ Len(stream.text) <= MaxUnread
  /\ event # Ending => Len(written) < MaxEvents
  /\ written' = Append(written, event)
  /\ stream' = [stream EXCEPT !.text = @ \o TextOf(event)]
  /\ UNCHANGED <<stage, gateway, call, sent, parser, parsed, adapter, queue, pump, bridge, tellVars>>

\* The stream ends, perhaps within an event that never becomes complete.
EndStream(partial) ==
  /\ Waiting /\ stream.state = "open"
  /\ stream' = [stream EXCEPT !.text = @ \o partial, !.state = "ended"]
  /\ UNCHANGED <<stage, gateway, call, sent, written, parser, parsed, adapter, queue, pump, bridge, tellVars>>

\* The connection to the provider breaks, or its time is over.
BreakStream ==
  /\ Waiting /\ stream.state = "open"
  /\ stream' = [stream EXCEPT !.text = <<>>, !.state = "broken"]
  /\ UNCHANGED <<stage, gateway, call, sent, written, parser, parsed, adapter, queue, pump, bridge, tellVars>>

-----------------------------------------------------------------------------
(* The gateway reads the stream.                                           *)

MayRead == Waiting /\ ~pump.cancelled

\* What the adapter has for the loop: an error throws away what was not read yet.
Handed(next) ==
  IF next.state = "failed" THEN {SubSeq(next.out, 1, n) \o <<Reading("failure")>> : n \in 0..Len(next.out)}
  ELSE {next.out}

(***************************************************************************)
(* The parser gets n tokens, or all there are; with the end of the stream  *)
(* it gets the last ones.                                                  *)
(***************************************************************************)
Hear(chunk, final, rest) ==
  LET fed == Feed(parser, chunk, final)
      heard == AdaptAll(adapter, fed.events)
      over == final \/ heard.state = "stopped"
      next == IF fed.parser.broken THEN [heard EXCEPT !.state = "failed"]
              ELSE IF over /\ heard.state # "failed" THEN CloseAdapter(heard) ELSE heard
      read == [i \in DOMAIN fed.events |-> ReadEvent(fed.events[i])]
  IN  /\ parser' = fed.parser
      /\ parsed' = parsed \o fed.events
      /\ IF Anthropic
         THEN adapter' = [next EXCEPT !.out = <<>>] /\ queue' \in Handed(next)
         ELSE /\ adapter' = adapter
              /\ queue' = read \o (IF fed.parser.broken \/ final THEN <<Reading("failure")>> ELSE <<>>)
      /\ stream' = rest
      /\ UNCHANGED <<stage, gateway, call, sent, written, pump, bridge, tellVars>>

ReadChunk ==
  /\ MayRead
  /\ stream.text # <<>>
  /\ Hear(stream.text, FALSE, [stream EXCEPT !.text = <<>>])

ReadPart(n) ==
  /\ MayRead
  /\ n < Len(stream.text)
  /\ stream.splits < MaxSplits
  /\ Hear(SubSeq(stream.text, 1, n), FALSE,
          [stream EXCEPT !.text = SubSeq(@, n + 1, Len(@)), !.splits = @ + 1])

ReadEnd ==
  /\ MayRead
  /\ stream.text = <<>> /\ stream.state = "ended"
  /\ Hear(<<>>, TRUE, [stream EXCEPT !.state = "read"])

ReadError ==
  /\ MayRead
  /\ stream.state = "broken"
  /\ queue' = <<Reading("failure")>>
  /\ stream' = [stream EXCEPT !.state = "lost"]
  /\ UNCHANGED <<stage, gateway, call, sent, written, parser, parsed, adapter, pump, bridge, tellVars>>

-----------------------------------------------------------------------------
(* The loop of the endpoint.                                               *)

Told(more) == IF pump.cancelled THEN frames ELSE frames \o more

\* What the client is told of a chunk.
FramesOf(chunk) == IF call.endpoint = "responses" THEN Translate(bridge, chunk) ELSE <<chunk>>

\* Mutant of Heard: later reports of a usage are ignored.
HeardFirst(chunk) ==
  [pump EXCEPT !.received = IF chunk.usage.known /\ ~@.known THEN chunk.usage ELSE @,
               !.pieces = @ + Pieces(chunk)]

\* What the loop keeps of a chunk.
Heard(chunk) ==
  [pump EXCEPT !.received = IF chunk.usage.known THEN chunk.usage ELSE @,
               !.pieces = @ + Pieces(chunk)]

PumpChunk ==
  LET chunk == Head(queue)
  IN  /\ pump.state = "reading" /\ queue # <<>>
      /\ chunk.kind = "chunk"
      /\ queue' = Tail(queue)
      /\ pump' = Heard(chunk)
      /\ frames' = frames \o FramesOf(chunk)
      /\ bridge' = Bridged(bridge, chunk)
      /\ UNCHANGED <<stage, gateway, call, sent, stream, written, parser, parsed, adapter, charge, replay>>

\* [DONE] finalizes the stream, anything that cannot be read fails it.
PumpEnd ==
  /\ pump.state = "reading"
  /\ \/ /\ queue # <<>> /\ Head(queue).kind = "done"
        /\ pump' = [pump EXCEPT !.state = "finalizing", !.terminal = "finalize"]
     \/ /\ queue # <<>> /\ Head(queue).kind = "failure"
        /\ pump' = [pump EXCEPT !.state = "failing", !.terminal = "fail"]
     \/ /\ queue = <<>> /\ pump.cancelled
        /\ pump' = [pump EXCEPT !.state = "failing"]
  /\ queue' = <<>>
  /\ UNCHANGED <<stage, gateway, call, sent, stream, written, parser, parsed, adapter, bridge, tellVars>>

\* The client goes away: the provider is aborted and the stream fails.
Cancel ==
  /\ stage = "streaming" /\ ~pump.cancelled
  /\ queue = <<>>
  /\ pump' = [pump EXCEPT !.cancelled = TRUE,
                           !.terminal = IF @ = "none" THEN "fail" ELSE @]
  /\ UNCHANGED <<stage, gateway, call, sent, stream, written, parser, parsed, adapter, queue, bridge, tellVars>>

\* The promise of finalizeStream or failStream: it looks at the usage now.
Settle ==
  /\ pump.terminal # "none" /\ charge.state = "none"
  /\ charge' \in {IF pump.received.known THEN Charge("provider", pump.received)
                  ELSE IF pump.terminal = "finalize" THEN Charge("estimate", Estimated(pump.pieces))
                  ELSE Marked,
                  Marked}                                    \* the settlement failed
  /\ UNCHANGED <<stage, gateway, call, sent, stream, written, parser, parsed, adapter, queue, pump, bridge,
                 frames, replay>>

\* Mutant of Settled: the loop does not wait for the settlement.
SettledOrNot == TRUE

Settled == charge.state # "none"

LastFrames == IF call.endpoint = "responses" THEN Finale(bridge) ELSE <<Reading("done")>>

Over(more) ==
  /\ stage' = "over"
  /\ pump' = [pump EXCEPT !.state = "over"]
  /\ frames' = Told(more)

(***************************************************************************)
(* The stream was read to its end.  A chat is kept for a replay before its *)
(* last frame is told, a response after its last frames were.  A           *)
(* settlement that failed fails the stream.                                *)
(***************************************************************************)
Finalized ==
  /\ pump.state = "finalizing" /\ Settled
  /\ UNCHANGED <<gateway, call, sent, stream, written, parser, parsed, adapter, queue, bridge, charge>>
  /\ IF charge.state = "marked"
     THEN pump' = [pump EXCEPT !.state = "failing"] /\ UNCHANGED <<stage, frames, replay>>
     ELSE IF call.endpoint = "responses"
     THEN /\ Over(LastFrames)
          /\ replay' \in IF pump.cancelled THEN {<<>>} ELSE {<<>>, frames \o LastFrames}
     ELSE /\ pump' = [pump EXCEPT !.state = "closing"]
          /\ replay' \in IF frames = <<>> THEN {<<>>} ELSE {<<>>, frames \o LastFrames}
          /\ UNCHANGED <<stage, frames>>

Closed ==
  /\ pump.state = "closing"
  /\ Over(LastFrames)
  /\ UNCHANGED <<gateway, call, sent, stream, written, parser, parsed, adapter, queue, bridge, charge, replay>>

Failed ==
  /\ pump.state = "failing" /\ Settled
  /\ Over(<<Reading("error")>>)
  /\ UNCHANGED <<gateway, call, sent, stream, written, parser, parsed, adapter, queue, bridge, charge, replay>>

-----------------------------------------------------------------------------

PublicCallNext ==
  \/ Start
  \/ \E body \in Bodies : Receive(body)
  \/ /\ stage = "reserved"
     /\ \E route \in CandidateRoutes(CallModel) : Send(route)
  \/ \E answer \in Answers : AnswerBody(answer)
  \/ \E beginning \in Beginnings : OpenStream(beginning[1], beginning[2])
  \/ /\ stage = "streaming"
     /\ \E event \in (IF Anthropic THEN AnthropicEvents ELSE OpenAiEvents) \cup {Ending} : Write(event)
  \/ \E partial \in {<<>>, <<DataField, Done>> \o stream.newline} : EndStream(partial)
  \/ BreakStream
  \/ ReadChunk
  \/ \E n \in 1..Len(stream.text) : ReadPart(n)
  \/ ReadEnd
  \/ ReadError
  \/ PumpChunk
  \/ PumpEnd
  \/ Cancel
  \/ Settle
  \/ Finalized
  \/ Closed
  \/ Failed

PublicCallSpec == PublicCallInit /\ [][PublicCallNext]_vars

-----------------------------------------------------------------------------
(* Properties of requests.                                                 *)

(***************************************************************************)
(* A gateway that started can serve what it accepts: a call that was       *)
(* prepared has a route to try, and every route it may try leads to a pool *)
(* in use that has a credential and can be asked for it                    *)
(* (validation.ts:472-489, inference.ts:926).  Embeddings are left out:    *)
(* validation lets a model that embeds name any provider.                  *)
(***************************************************************************)
StartedIsServable ==
  stage = "reserved" =>
    /\ CandidateRoutes(CallModel) # {}
    /\ \A route \in CandidateRoutes(CallModel) :
         /\ route.pool \in DOMAIN gateway.bundle.pools
         /\ gateway.bundle.pools[route.pool].enabled
         /\ Enabled(gateway.bundle.pools[route.pool].credentials) # {}
         /\ call.endpoint # "embeddings" => Buildable(route, gateway.bundle.pools, call.endpoint)

(***************************************************************************)
(* The provider is told the very limit the reservation was priced with,    *)
(* whichever of the two public names or the default of the model it came   *)
(* from, and Anthropic and Cloudflare by the only name they know;          *)
(* OpenAI-compatible providers take either name (inference.ts:799-806,     *)
(* 891; providers.ts:198, 219, 350-354).                                   *)
(***************************************************************************)
LimitReachesUpstream ==
  sent # Unsent /\ call.endpoint # "embeddings" =>
    /\ sent.style # "openai-compatible" => sent.field = "max_tokens"
    /\ sent.limit \in 1..CallModel.limits.output
    /\ call.reserved = Cost(CallModel, call.estimate, sent.limit)

\* The texts and images of a message, in their order.
AskedParts(message) ==
  LET kept == BlocksOf(message.content, {"text", "https", "base64"})
  IN  [i \in DOMAIN kept |-> IF kept[i][1] = "text" THEN kept[i] ELSE <<"image", kept[i][2]>>]

\* What a message asks of the provider, block for block.
Asked(message) ==
  CASE FromSystem(message) -> <<>>
    [] message.role = "tool" -> << <<"tool_result", message.answers>> >>
    [] OTHER -> AskedParts(message) \o [i \in DOMAIN message.calls |-> <<"tool_use", message.calls[i]>>]

(***************************************************************************)
(* A conversation survives its translation: every text, image and tool     *)
(* call that was not said by the system, in their order, and the results   *)
(* of tools reach Anthropic, in turns of alternating roles that begin with *)
(* the results; and a client that forbids tools is not overruled           *)
(* (providers.ts:331-349, 367-386).  Images that are neither fetched nor   *)
(* base64 are left out: the code drops them.                               *)
(***************************************************************************)
ConversationSurvives ==
  sent # Unsent /\ call.endpoint # "embeddings" /\ Anthropic =>
    LET asked == FlattenSeq([i \in DOMAIN call.body.messages |-> Asked(call.body.messages[i])])
        got == FlattenSeq([i \in DOMAIN sent.messages |-> sent.messages[i].content])
    IN  /\ Others(got) = Others(asked)
        /\ Range(Results(got)) = Range(Results(asked)) /\ Len(got) = Len(asked)
        /\ \A i \in 2..Len(sent.messages) : sent.messages[i].role # sent.messages[i - 1].role
        /\ \A turn \in Range(sent.messages) : Results(turn.content) \o Others(turn.content) = turn.content
        /\ call.body.choice = <<"none">> => sent.choice = <<"none">>

-----------------------------------------------------------------------------
(* Properties of answers.                                                  *)

(***************************************************************************)
(* The events the parser returns are those the provider wrote to their     *)
(* end, one for one, wherever the chunks begin and end; nothing is made of *)
(* an event that was cut off (sse.ts:33, 48-55, 118-123).                  *)
(***************************************************************************)
ParsedAsWritten ==
  /\ IsPrefix(parsed, written)
  /\ stream.state = "read" /\ ~parser.broken => parsed = written

Successful == frames # <<>> /\ Last(frames).kind \in {"done", "completed", "incomplete"}

ToldText ==
  FlattenSeq([i \in DOMAIN frames |-> IF frames[i].kind \in {"chunk", "text delta"} THEN frames[i].text
                                      ELSE <<>>])

\* What the provider sent before it ended its stream or an error ended it.
Sound(events) ==
  LET bad == {i \in DOMAIN events :
                IF Anthropic THEN PayloadOf(events[i]) = Done
                ELSE KindOf(events[i]) \notin {"text", "legacy", "finish", "usage", "bad usage"}}
  IN  IF bad = {} THEN events ELSE SubSeq(events, 1, Min(bad) - 1)

\* The numbers of the events of some kinds.
Said(events, kinds) ==
  FlattenSeq([i \in DOMAIN events |-> IF KindOf(events[i]) \in kinds THEN <<PayloadOf(events[i])[2]>>
                                      ELSE <<>>])

WrittenText == Said(Sound(parsed), IF Anthropic THEN {"text"} ELSE {"text", "legacy"})

(***************************************************************************)
(* A client that is told of a success was told everything, and the call    *)
(* was charged; a stream that is kept for a replay is the one the client   *)
(* was told, or would have been had it stayed, and was charged too         *)
(* (aiPublic.ts:400-415, 633-650).  That the provider had finished is not  *)
(* asked of Anthropic streams: see TruncationIsTold.                       *)
(***************************************************************************)
SuccessIsComplete ==
  /\ Successful =>
       /\ charge.state = "settled"
       /\ call.stream => ToldText = WrittenText /\ (Anthropic \/ Finished(parsed))
  /\ replay # <<>> => charge.state = "settled" /\ IsPrefix(frames, replay)

(***************************************************************************)
(* A stream the provider did not finish never ends like one it did         *)
(* (core/README.md:13: hardened against truncated terminal events).        *)
(***************************************************************************)
TruncationIsTold == Successful /\ call.stream => Finished(parsed)

\* The usage the provider reported, as a reader of its events would count it.
Reported ==
  LET starts == Said(Sound(parsed), {"message_start"})
      ends == Said(Sound(parsed), {"message_delta"})
      usages == Said(Sound(parsed), {"usage"})
  IN  IF Anthropic
      THEN Usage(IF starts = <<>> THEN 0 ELSE 2 * Last(starts), IF ends = <<>> THEN 0 ELSE 5 * Last(ends))
      ELSE IF usages = <<>> THEN NoUsage ELSE UsageOf(Last(usages))

\* The frames that tell a usage.
ToldUsages == {i \in DOMAIN frames : frames[i].usage.known}

(***************************************************************************)
(* What a client is charged for is what the provider reported last, and    *)
(* what the client is told; nothing is told of an estimate on a stream     *)
(* (aiPublic.ts:386-391; inference.ts:1804-1811, 1918-1961, 2003-2017).    *)
(***************************************************************************)
ToldAsCharged ==
  charge.state = "settled" =>
    /\ call.stream /\ charge.source = "provider" => Usage(charge.input, charge.output) = Reported
    /\ call.stream /\ charge.source = "estimate" => ToldUsages = {}
    /\ ToldUsages # {} => frames[Max(ToldUsages)].usage = Usage(charge.input, charge.output)

(***************************************************************************)
(* The reservation covers the call: no charge for an input of the size     *)
(* that was estimated and an output within the limit exceeds it, and an    *)
(* estimate is never larger (inference.ts:1524-1538; pricing.ts:70-84).    *)
(***************************************************************************)
ReservationCovers ==
  charge.state = "settled" =>
    /\ charge.source = "estimate" => charge.input <= call.estimate /\ charge.output <= call.limit
    /\ charge.input <= call.estimate /\ charge.output <= call.limit =>
         Cost(CallModel, charge.input, charge.output) <= call.reserved

Kinds(told) == [i \in DOMAIN told |-> told[i].kind]

\* Whether the provider said last that it stopped at the limit.
CutOff ==
  LET ends == Said(Sound(parsed), IF Anthropic THEN {"message_delta"} ELSE {"finish"})
  IN  ends # <<>> /\ IF Anthropic THEN Last(ends) = 2 ELSE Last(ends) # 0

(***************************************************************************)
(* The events of a response come in the order the protocol gives them: it  *)
(* is opened once, text comes in deltas, and the end repeats the whole     *)
(* text and says whether the answer was cut off (inference.ts:1332-1337).  *)
(***************************************************************************)
ResponsesInOrder ==
  call.ok /\ call.stream /\ call.endpoint = "responses" /\ frames # <<>> =>
    LET kinds == Kinds(frames)
        whole(end) == <<"text done", "part done", "item done", end>>
    IN  /\ \/ kinds = <<"error">>
           \/ \E n \in 0..Len(frames) :
                \E end \in {<<>>, <<"error">>, whole("completed"), whole("incomplete")} :
                  kinds = <<"created", "item added", "part added">> \o [i \in 1..n |-> "text delta"] \o end
        /\ \A i \in DOMAIN frames :
             kinds[i] \in {"text done", "part done", "item done", "completed", "incomplete"} =>
               frames[i].text = ToldText
        /\ Successful => (Last(kinds) = "incomplete") = CutOff

ToldCalls == FlattenSeq([i \in DOMAIN frames |-> frames[i].tools])

(***************************************************************************)
(* A client that puts tool calls together by their place, as clients of    *)
(* OpenAI do, gets those of the provider: the places count from zero in    *)
(* the order of the calls, and no argument ends up in another call         *)
(* (providers.ts:553-556).                                                 *)
(***************************************************************************)
ToolCallsReassemble ==
  LET starts == {i \in DOMAIN ToldCalls : ~ToldCalls[i].args}
  IN  /\ \A i \in starts : ToldCalls[i].place = Cardinality({j \in starts : j < i})
      /\ \A i \in DOMAIN ToldCalls \ starts : \E j \in starts :
           /\ j < i
           /\ ToldCalls[j].place = ToldCalls[i].place
           /\ ToldCalls[j].block = ToldCalls[i].block
=============================================================================
