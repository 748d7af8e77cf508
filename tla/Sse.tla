-------------------------------- MODULE Sse --------------------------------
(***************************************************************************)
(* The server-sent-events parser (packages/core/src/sse.ts): chunks of     *)
(* decoded text go in, events come out.                                    *)
(*                                                                         *)
(* Text is a sequence of tokens: line ends, the byte order mark, the start *)
(* of a field or of a comment, and the values of fields, each a pair of a  *)
(* string and a number.  A chunk may end between any two tokens, so a      *)
(* line, a field and the two characters of a CRLF may be split.            *)
(***************************************************************************)
EXTENDS Naturals, Sequences, SequencesExt

Token == STRING \X Nat

CR == <<"\r", 0>>
LF == <<"\n", 0>>
BOM == <<"BOM", 0>>
Comment == <<":", 0>>
DataField == <<"data:", 0>>
EventField == <<"event:", 0>>

\* A value that is longer than maxEventCharacters.
Oversized == <<"oversized", 0>>

(***************************************************************************)
(* buffer is the text after the last line end, data the data lines and     *)
(* event the name of the event that is being read; fresh says that no text *)
(* was decoded yet, broken that the parser threw.                          *)
(***************************************************************************)
NewParser == [buffer |-> <<>>, data |-> <<>>, event |-> "message", fresh |-> TRUE, broken |-> FALSE]

StripBom(parser, chunk) ==
  IF parser.fresh /\ chunk # <<>> /\ Head(chunk) = BOM THEN Tail(chunk) ELSE chunk

\* Mutant of LineEnds: a CR at the end of a chunk ends its line at once.
LineEndsAtOnce(text, final) ==
  {i \in DOMAIN text :
     \/ text[i] = LF
     \/ text[i] = CR /\ (i = Len(text) \/ text[i + 1] # LF)}

(***************************************************************************)
(* Where the lines of text end.  A CR that is the last character waits for *)
(* the next chunk, which may begin with its LF; a CRLF ends with the LF.   *)
(***************************************************************************)
LineEnds(text, final) ==
  {i \in DOMAIN text :
     \/ text[i] = LF
     \/ text[i] = CR /\ IF i = Len(text) THEN final ELSE text[i + 1] # LF}

TooLong(text) == Oversized \in Range(text)

\* A blank line: the event is over, and counts if it had data.
Dispatch(reading) ==
  [reading EXCEPT
     !.events = IF reading.data = <<>> THEN @
                ELSE Append(@, [event |-> reading.event, data |-> reading.data]),
     !.event = "message",
     !.data = <<>>]

\* The line that was read is over.
ConsumeLine(reading) ==
  LET line == reading.line
      next == [reading EXCEPT !.line = <<>>]
  IN  IF TooLong(line) THEN [next EXCEPT !.broken = TRUE]
      ELSE IF line = <<>> THEN Dispatch(next)
      ELSE [next EXCEPT
              !.data = IF Head(line) = DataField THEN Append(@, Tail(line)) ELSE @,
              !.event = IF Head(line) # EventField THEN @
                        ELSE IF Len(line) = 1 THEN "message" ELSE line[2][1]]

\* A line end is no part of the line, and a CR that does not end one neither.
Advance(reading, token, ends) ==
  IF ends THEN ConsumeLine(reading)
  ELSE IF token = CR THEN reading ELSE [reading EXCEPT !.line = Append(@, token)]

\* What was read of a text: its lines, and what follows the last line end.
Scan(parser, text, final) ==
  LET ends == LineEnds(text, final)
      scan[i \in 0..Len(text)] ==
        IF i = 0
        THEN [line |-> <<>>, data |-> parser.data, event |-> parser.event, events |-> <<>>, broken |-> FALSE]
        ELSE Advance(scan[i - 1], text[i], i \in ends)
  IN  scan[Len(text)]

\* The CR that waits for its LF.
Pending(text, final) ==
  IF text # <<>> /\ Last(text) = CR /\ Len(text) \notin LineEnds(text, final) THEN <<CR>> ELSE <<>>

(***************************************************************************)
(* What the parser is after a chunk, and the events it returns.  What the  *)
(* stream ends with is thrown away unless a blank line completed it.       *)
(***************************************************************************)
Feed(parser, chunk, final) ==
  LET text == parser.buffer \o StripBom(parser, chunk)
      read == Scan(parser, text, final)
      kept == [buffer |-> read.line \o Pending(text, final), data |-> read.data, event |-> read.event,
               fresh |-> parser.fresh /\ chunk = <<>>, broken |-> FALSE]
  IN  IF read.broken \/ TooLong(kept.buffer)
      THEN [parser |-> [NewParser EXCEPT !.broken = TRUE], events |-> <<>>]
      ELSE [parser |-> IF final THEN NewParser ELSE kept, events |-> read.events]
=============================================================================
