------------------------------- MODULE Chunks -------------------------------
(***************************************************************************)
(* The events of a model stream and what becomes of them: the chunks the   *)
(* endpoints read from an OpenAI-compatible or a Cloudflare stream         *)
(* (normalizeStreamChunk of packages/core/src/inference.ts), the adapter   *)
(* that makes such a stream of an Anthropic one (anthropicOpenAiChunks of  *)
(* packages/core/src/providers.ts), and the bridge that makes events of    *)
(* the responses endpoint of chunks (createAutonomiaResponsesStreamBridge).*)
(*                                                                         *)
(* The payload of an event is a pair of its kind and a number: of a piece  *)
(* of text, of a usage, of a content block.                                *)
(***************************************************************************)
EXTENDS Providers, Sse

Done == <<"[DONE]", 0>>
Garbled == <<"garbled", 0>>

(***************************************************************************)
(* The payload in the data of an event.  A second, empty line does not     *)
(* disturb JSON, but makes a string other than [DONE]; no payload is none  *)
(* that can be read.                                                       *)
(***************************************************************************)
PayloadOf(event) ==
  LET payload == IF event.data[1] = <<>> THEN Garbled ELSE event.data[1][1]
  IN  IF payload = Done /\ Len(event.data) > 1 THEN Garbled ELSE payload

Chunk(text, tools, finish, usage) ==
  [kind |-> "chunk", text |-> text, tools |-> tools, finish |-> finish, usage |-> usage]

\* Whatever else is told or read.
Frame(kind, text, usage) ==
  [kind |-> kind, text |-> text, tools |-> <<>>, finish |-> "none", usage |-> usage]

Reading(kind) == Frame(kind, <<>>, NoUsage)

\* The usage a provider reports under a number.
UsageOf(n) == Usage(2 * n, 5 * n)

\* What the loop of an endpoint reads from an event of an OpenAI stream.
ReadEvent(event) ==
  LET payload == PayloadOf(event)
      kind == payload[1]
      n == payload[2]
  IN  CASE payload = Done -> Reading("done")
        [] kind \in {"text", "legacy"} -> Chunk(<<n>>, <<>>, "none", NoUsage)
        [] kind = "finish" -> Chunk(<<>>, <<>>, IF n = 0 THEN "stop" ELSE "length", NoUsage)
        [] kind = "usage" -> Chunk(<<>>, <<>>, "none", UsageOf(n))
        [] kind = "bad usage" -> Chunk(<<>>, <<>>, "none", NoUsage)
        [] OTHER -> Reading("failure")     \* no JSON, an error, or nothing of these

Pieces(chunk) == Len(chunk.text) + Cardinality({i \in DOMAIN chunk.tools : chunk.tools[i].args})

-----------------------------------------------------------------------------
(* The adapter of Anthropic streams.                                       *)

(***************************************************************************)
(* input and output are the usage reported so far, finish what the answer  *)
(* stopped for, ordinals the place of the tool call of a content block,    *)
(* out what was written to the stream the endpoint reads.                  *)
(***************************************************************************)
NewAdapter ==
  [state |-> "reading", input |-> 0, output |-> 0, finish |-> "none", ordinals |-> <<>>, out |-> <<>>]

\* A tool call of a chunk: its place among the calls, and the block it is of.
ToolDelta(place, block, args) == << [place |-> place, block |-> block, args |-> args] >>

\* Mutant of Place: a call is told under the number of its content block.
PlaceOfBlock(adapter, block) == block

Place(adapter, block) == IF block \in DOMAIN adapter.ordinals THEN adapter.ordinals[block] ELSE 0

Emit(adapter, chunk) == [adapter EXCEPT !.out = Append(@, chunk)]

StartTool(adapter, block) ==
  LET place == Cardinality(DOMAIN adapter.ordinals)
      known == [adapter EXCEPT !.ordinals =
                  [b \in DOMAIN @ \cup {block} |-> IF b = block THEN place ELSE @[b]]]
  IN  Emit(known, Chunk(<<>>, ToolDelta(Place(known, block), block, FALSE), "none", NoUsage))

Conclude(adapter, n) ==
  LET finish == IF n = 2 THEN FinishReason("max_tokens") ELSE FinishReason("end_turn")
  IN  Emit([adapter EXCEPT !.finish = finish, !.output = 5 * n], Chunk(<<>>, <<>>, finish, NoUsage))

Adapt(adapter, event) ==
  LET payload == PayloadOf(event)
      kind == payload[1]
      n == payload[2]
  IN  IF adapter.state # "reading" \/ payload = Garbled THEN adapter
      ELSE IF payload = Done THEN [adapter EXCEPT !.state = "stopped"]
      ELSE IF kind = "error" \/ event.event = "error" THEN [adapter EXCEPT !.state = "failed"]
      ELSE CASE kind = "message_start" ->
                  Emit([adapter EXCEPT !.input = 2 * n], Chunk(<<>>, <<>>, "none", NoUsage))
             [] kind = "tool_start" -> StartTool(adapter, n)
             [] kind = "text" -> Emit(adapter, Chunk(<<n>>, <<>>, "none", NoUsage))
             [] kind = "args" ->
                  Emit(adapter, Chunk(<<>>, ToolDelta(Place(adapter, n), n, TRUE), "none", NoUsage))
             [] kind = "message_delta" -> Conclude(adapter, n)
             [] OTHER -> adapter     \* ping, the start of a text, and events nobody knows

\* What becomes of the adapter when the parser returned events.
AdaptAll(adapter, events) ==
  LET adapt[i \in 0..Len(events)] ==
        IF i = 0 THEN [adapter EXCEPT !.out = <<>>] ELSE Adapt(adapt[i - 1], events[i])
  IN  adapt[Len(events)]

\* The end of the stream, however it came: a usage and [DONE].
CloseAdapter(adapter) ==
  [adapter EXCEPT
     !.state = "closed",
     !.out = @ \o << Chunk(<<>>, <<>>, "none", Usage(adapter.input, adapter.output)), Reading("done") >>]

-----------------------------------------------------------------------------
(* The bridge of the responses endpoint.                                   *)

NewBridge == [started |-> FALSE, text |-> <<>>, finish |-> "none", usage |-> NoUsage]

Opening(bridge) ==
  IF bridge.started THEN <<>>
  ELSE << Frame("created", <<>>, NoUsage), Frame("item added", <<>>, NoUsage),
          Frame("part added", <<>>, NoUsage) >>

\* Mutant of Translate: the events that open a response are left to its end.
TranslateUnopened(bridge, chunk) ==
  IF chunk.text = <<>> THEN <<>> ELSE << Frame("text delta", chunk.text, NoUsage) >>

Translate(bridge, chunk) ==
  Opening(bridge)
    \o (IF chunk.text = <<>> THEN <<>> ELSE << Frame("text delta", chunk.text, NoUsage) >>)

Bridged(bridge, chunk) ==
  [started |-> TRUE,
   text |-> bridge.text \o chunk.text,
   finish |-> IF chunk.finish = "none" THEN bridge.finish ELSE chunk.finish,
   usage |-> IF chunk.usage.known THEN chunk.usage ELSE bridge.usage]

Finale(bridge) ==
  Opening(bridge)
    \o << Frame("text done", bridge.text, NoUsage), Frame("part done", bridge.text, NoUsage),
          Frame("item done", bridge.text, NoUsage),
          Frame(IF bridge.finish = "length" THEN "incomplete" ELSE "completed", bridge.text, bridge.usage) >>
=============================================================================
