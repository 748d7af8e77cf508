---------------------------- MODULE ParsingProofs ----------------------------
(***************************************************************************)
(* That the parser of PublicCall hands the endpoint what the provider      *)
(* wrote (ParsedAsWritten), for any events, any words in their lines, any  *)
(* end of line, and any cut of the text into chunks.                       *)
(*                                                                         *)
(* A follower reads the text token by token and cannot give up.  EventRun  *)
(* says that a follower that has read whole events has exactly those;      *)
(* FeedFollows, that the parser holds what the follower of the same text   *)
(* holds as long as it has not given up.  ParseInv joins the two: the      *)
(* parser that goes on over the text still to come ends with what was      *)
(* written, or it can hand on nothing more (Hopeless).                     *)
(*                                                                         *)
(* The second half proves that the tool calls of a stream can be put       *)
(* together again (ToolCallsReassemble).  An adapter sees a prefix of what *)
(* was written, where every argument follows the start of its block        *)
(* (WellWritten); so it has a place for the block, that of its call        *)
(* (Linked).  ToolInv says so of what was told and is still to be read.    *)
(***************************************************************************)
EXTENDS PublicCallProofs

-----------------------------------------------------------------------------
(* Followers *)

(***************************************************************************)
(* A follower reads a text token by token, keeps the CR it read last until *)
(* the next token says whether it ended a line, and never gives up.        *)
(***************************************************************************)
PlainTokens == Tokens \ {CR, LF}

Followers ==
  [line : Seq(PlainTokens), data : Seq(Seq(Tokens)), event : Words, events : Seq(Events), cr : BOOLEAN]

Follower(line, data, event, events, cr) ==
  [line |-> line, data |-> data, event |-> event, events |-> events, cr |-> cr]

NextData(f) ==
  IF f.line = <<>> THEN <<>> ELSE IF Head(f.line) = DataField THEN Append(f.data, Tail(f.line)) ELSE f.data

NextEvent(f) ==
  IF f.line = <<>> THEN "message"
  ELSE IF Head(f.line) # EventField THEN f.event ELSE IF Len(f.line) = 1 THEN "message" ELSE f.line[2][1]

NextEvents(f) ==
  IF f.line = <<>> /\ f.data # <<>> THEN Append(f.events, [event |-> f.event, data |-> f.data]) ELSE f.events

EndLine(f) == Follower(<<>>, NextData(f), NextEvent(f), NextEvents(f), FALSE)

\* A CR that no LF followed has ended its line.
Caught(f) == IF f.cr THEN EndLine(f) ELSE f

Follow(f, token) ==
  IF token = LF THEN EndLine(f)
  ELSE Follower(IF token = CR THEN Caught(f).line ELSE Append(Caught(f).line, token),
                Caught(f).data, Caught(f).event, Caught(f).events, token = CR)

Steps(text) == [n \in 1..Len(text) |-> [f \in Followers |-> Follow(f, text[n])]]

FollowAll(f, text) == (CHOOSE g \in Chains(Followers, Len(text), f, Steps(text)) : TRUE)[Len(text)]

\* A line that is over, whoever reads it.
LEMMA NextTypes ==
  ASSUME NEW f, f.line \in Seq(Tokens), f.data \in Seq(Seq(Tokens)), f.event \in Words, f.events \in Seq(Events)
  PROVE  NextData(f) \in Seq(Seq(Tokens)) /\ NextEvent(f) \in Words /\ NextEvents(f) \in Seq(Events)
<1> DEFINE line == f.line
           data == f.data
           more == [event |-> f.event, data |-> f.data]
<1>0. line \in Seq(Tokens) /\ data \in Seq(Seq(Tokens)) /\ <<>> \in Seq(Seq(Tokens))
  OBVIOUS
<1> HIDE DEF line
<1>1. line # <<>> => Tail(line) \in Seq(Tokens)
  BY <1>0
<1>2. NextData(f) \in Seq(Seq(Tokens))
  <2> DEFINE rest == Tail(line)
  <2> HIDE DEF data, rest
  <2>1. line # <<>> => Append(data, rest) \in Seq(Seq(Tokens))
    BY <1>0, <1>1 DEF rest
  <2>2. NextData(f) = IF line = <<>> THEN <<>> ELSE IF Head(line) = DataField THEN Append(data, rest) ELSE data
    BY DEF NextData, line, data, rest
  <2> QED
    BY <1>0, <2>1, <2>2
<1>3. line # <<>> /\ Len(line) # 1 => line[2][1] \in Words
  <2>1. line # <<>> /\ Len(line) # 1 => 2 \in 1..Len(line)
    <3> DEFINE m == Len(line)
    <3>1. m \in Nat /\ (line # <<>> => m # 0)
      BY <1>0, EmptySeq
    <3> HIDE DEF m
    <3>2. m # 0 /\ m # 1 => 2 \in 1..m
      BY ONLY <3>1
    <3> QED
      BY <3>1, <3>2 DEF m
  <2>2. line # <<>> /\ Len(line) # 1 => line[2] \in Tokens
    BY <1>0, <2>1
  <2> QED
    BY <2>2, TokenFields
<1>4. NextEvent(f) \in Words
  <2> DEFINE name == line[2][1]
  <2>1. NextEvent(f) = IF line = <<>> THEN "message"
                       ELSE IF Head(line) # EventField THEN f.event ELSE IF Len(line) = 1 THEN "message" ELSE name
    BY DEF NextEvent, line
  <2>2. line # <<>> /\ Len(line) # 1 => name \in Words
    BY <1>3
  <2> HIDE DEF name
  <2> QED
    BY <2>1, <2>2, TokenTypes
<1>5. NextEvents(f) \in Seq(Events)
  <2>1. f.data # <<>> => more \in Events
    BY DEF Events
  <2> HIDE DEF more
  <2>2. f.data # <<>> => Append(f.events, more) \in Seq(Events)
    BY <2>1
  <2> QED
    BY <2>2 DEF NextEvents, more
<1> QED
  BY <1>2, <1>4, <1>5

LEMMA FollowerFields ==
  ASSUME NEW f \in Followers
  PROVE  /\ f.line \in Seq(PlainTokens) /\ f.line \in Seq(Tokens)
         /\ f.data \in Seq(Seq(Tokens)) /\ f.event \in Words /\ f.events \in Seq(Events) /\ f.cr \in BOOLEAN
         /\ f = Follower(f.line, f.data, f.event, f.events, f.cr)
<1>1. Seq(PlainTokens) \subseteq Seq(Tokens)
  <2>1. PlainTokens \subseteq Tokens
    BY DEF PlainTokens
  <2> QED
    BY <2>1, SeqMonotonic
<1> QED
  BY <1>1 DEF Followers, Follower

LEMMA FollowerType ==
  ASSUME NEW line \in Seq(PlainTokens), NEW data \in Seq(Seq(Tokens)), NEW event \in Words,
         NEW events \in Seq(Events), NEW cr \in BOOLEAN
  PROVE  /\ Follower(line, data, event, events, cr) \in Followers
         /\ Follower(line, data, event, events, cr).line = line
         /\ Follower(line, data, event, events, cr).data = data
         /\ Follower(line, data, event, events, cr).event = event
         /\ Follower(line, data, event, events, cr).events = events
         /\ Follower(line, data, event, events, cr).cr = cr
BY DEF Follower, Followers

LEMMA EndLineType ==
  ASSUME NEW f \in Followers
  PROVE  /\ EndLine(f) \in Followers /\ EndLine(f).cr = FALSE
         /\ Caught(f) \in Followers /\ Caught(f).cr = FALSE
<1>1. NextData(f) \in Seq(Seq(Tokens)) /\ NextEvent(f) \in Words /\ NextEvents(f) \in Seq(Events)
  BY FollowerFields, NextTypes
<1>2. <<>> \in Seq(PlainTokens)
  OBVIOUS
<1>3. EndLine(f) \in Followers /\ EndLine(f).cr = FALSE
  BY <1>1, <1>2 DEF EndLine, Follower, Followers
<1> QED
  BY <1>3, FollowerFields DEF Caught

LEMMA FollowType ==
  ASSUME NEW f \in Followers, NEW token \in Tokens
  PROVE  Follow(f, token) \in Followers
<1> DEFINE c == Caught(f)
           line == IF token = CR THEN c.line ELSE Append(c.line, token)
<1>1. c \in Followers
  BY EndLineType
<1> HIDE DEF c
<1>2. CASE token = LF
  BY <1>2, EndLineType DEF Follow
<1>3. CASE token # LF
  <2>1. c.line \in Seq(PlainTokens)
    BY <1>1, FollowerFields
  <2>2. token # CR => token \in PlainTokens
    BY <1>3 DEF PlainTokens
  <2>3. line \in Seq(PlainTokens)
    BY <2>1, <2>2
  <2> HIDE DEF line
  <2>4. Follow(f, token) = Follower(line, c.data, c.event, c.events, token = CR)
    BY <1>3 DEF Follow, c, line
  <2> QED
    BY <1>1, <2>3, <2>4, FollowerFields DEF Follower, Followers
<1> QED
  BY <1>2, <1>3

\* A follower after every token of a text: a chain of steps.
LEMMA FollowChain ==
  ASSUME NEW f \in Followers, NEW text \in Seq(Tokens)
  PROVE  \E g \in [0..Len(text) -> Followers] :
            /\ g[0] = f
            /\ \A n \in 1..Len(text) : g[n] = Follow(g[n - 1], text[n])
            /\ FollowAll(f, text) = g[Len(text)]
<1> DEFINE N == Len(text)
           F == Steps(text)
           g == CHOOSE g \in Chains(Followers, N, f, F) : TRUE
<1>1. N \in Nat /\ \A n \in 1..N : text[n] \in Tokens
  BY ElementOfSeq
<1>2. F = [n \in 1..N |-> [x \in Followers |-> Follow(x, text[n])]]
  BY DEF Steps
<1>3. FollowAll(f, text) = g[N]
  BY DEF FollowAll
<1> HIDE DEF N, F
<1>4. F \in [1..N -> [Followers -> Followers]]
  BY <1>1, <1>2, FollowType
<1>5. g \in Chains(Followers, N, f, F)
  <2>1. Chains(Followers, N, f, F) # {}
    BY <1>1, <1>4, Recursion
  <2> QED
    BY <2>1
<1> HIDE DEF g
<1>6. g \in [0..N -> Followers] /\ g[0] = f /\ \A n \in 1..N : g[n] = F[n][g[n - 1]]
  BY <1>5 DEF Chains
<1>7. ASSUME NEW n \in 1..N PROVE g[n] = Follow(g[n - 1], text[n])
  <2>1. n - 1 \in 0..N
    BY <1>1
  <2>2. g[n - 1] \in Followers
    BY <1>6, <2>1
  <2> QED
    BY <1>2, <1>6, <2>2
<1> QED
  BY <1>3, <1>6, <1>7 DEF N

LEMMA FollowAllType ==
  ASSUME NEW f \in Followers, NEW text \in Seq(Tokens)
  PROVE  FollowAll(f, text) \in Followers
<1>1. PICK g \in [0..Len(text) -> Followers] : FollowAll(f, text) = g[Len(text)]
  BY FollowChain
<1>2. Len(text) \in 0..Len(text)
  OBVIOUS
<1> QED
  BY <1>1, <1>2

LEMMA FollowNothing ==
  ASSUME NEW f \in Followers
  PROVE  FollowAll(f, <<>>) = f
<1> DEFINE text == <<>>
<1>1. text \in Seq(Tokens) /\ Len(text) = 0
  OBVIOUS
<1> HIDE DEF text
<1>2. PICK g \in [0..Len(text) -> Followers] : g[0] = f /\ FollowAll(f, text) = g[Len(text)]
  BY <1>1, FollowChain, ZenonT(30)
<1> QED
  BY <1>1, <1>2 DEF text

LEMMA FollowAppend ==
  ASSUME NEW f \in Followers, NEW s \in Seq(Tokens), NEW x \in Tokens
  PROVE  FollowAll(f, Append(s, x)) = Follow(FollowAll(f, s), x)
<1> DEFINE t == Append(s, x)
<1>0. Len(s) \in Nat
  OBVIOUS
<1>1. t \in Seq(Tokens) /\ Len(t) = Len(s) + 1 /\ t[Len(s) + 1] = x /\ \A n \in 1..Len(s) : t[n] = s[n]
  BY AppendProperties
<1> HIDE DEF t
<1>2. PICK g \in [0..Len(s) -> Followers] : /\ g[0] = f
                                            /\ \A n \in 1..Len(s) : g[n] = Follow(g[n - 1], s[n])
                                            /\ FollowAll(f, s) = g[Len(s)]
  BY FollowChain
<1>3. PICK h \in [0..Len(t) -> Followers] : /\ h[0] = f
                                            /\ \A n \in 1..Len(t) : h[n] = Follow(h[n - 1], t[n])
                                            /\ FollowAll(f, t) = h[Len(t)]
  BY <1>1, FollowChain
<1> DEFINE S == {n \in 0..Len(s) : g[n] = h[n]}
<1>4. 0 \in S
  BY <1>2, <1>3
<1>5. \A n \in 0..Len(s) : n \in S /\ n < Len(s) => n + 1 \in S
  <2> SUFFICES ASSUME NEW n \in 0..Len(s), n \in S, n < Len(s) PROVE n + 1 \in S
    OBVIOUS
  <2>1. n + 1 \in 1..Len(s) /\ n + 1 \in 1..Len(t) /\ (n + 1) - 1 = n /\ n + 1 \in 0..Len(s)
    BY <1>0, <1>1
  <2>2. g[n + 1] = Follow(g[n], s[n + 1]) /\ h[n + 1] = Follow(h[n], t[n + 1]) /\ t[n + 1] = s[n + 1]
    BY <2>1, <1>1, <1>2, <1>3
  <2> QED
    BY <2>1, <2>2
<1>6. g[Len(s)] = h[Len(s)]
  <2> HIDE DEF S
  <2>1. 0..Len(s) \subseteq S
    BY <1>0, <1>4, <1>5, Induction
  <2>2. Len(s) \in 0..Len(s)
    BY <1>0
  <2> QED
    BY <2>1, <2>2 DEF S
<1>7. h[Len(t)] = Follow(h[Len(s)], x)
  <2>1. Len(t) \in 1..Len(t) /\ Len(t) - 1 = Len(s)
    BY <1>0, <1>1
  <2> QED
    BY <1>1, <1>3, <2>1
<1> QED
  BY <1>2, <1>3, <1>6, <1>7 DEF t

LEMMA FollowConcat ==
  ASSUME NEW f \in Followers, NEW s \in Seq(Tokens), NEW t \in Seq(Tokens)
  PROVE  FollowAll(f, s \o t) = FollowAll(FollowAll(f, s), t)
<1> DEFINE S == {u \in Seq(Tokens) : FollowAll(f, s \o u) = FollowAll(FollowAll(f, s), u)}
<1>1. <<>> \in S
  <2>1. s \o <<>> = s /\ <<>> \in Seq(Tokens)
    OBVIOUS
  <2> QED
    BY <2>1, FollowAllType, FollowNothing
<1>2. \A u \in Seq(Tokens), x \in Tokens : u \in S => Append(u, x) \in S
  <2> SUFFICES ASSUME NEW u \in Seq(Tokens), NEW x \in Tokens, u \in S PROVE Append(u, x) \in S
    OBVIOUS
  <2>1. s \o Append(u, x) = Append(s \o u, x) /\ s \o u \in Seq(Tokens) /\ Append(u, x) \in Seq(Tokens)
    OBVIOUS
  <2>2. FollowAll(f, Append(s \o u, x)) = Follow(FollowAll(f, s \o u), x)
    BY <2>1, FollowAppend
  <2>3. FollowAll(FollowAll(f, s), Append(u, x)) = Follow(FollowAll(FollowAll(f, s), u), x)
    BY FollowAllType, FollowAppend
  <2> QED
    BY <2>1, <2>2, <2>3
<1> QED
  <2> HIDE DEF S
  <2>1. Seq(Tokens) \subseteq S
    BY <1>1, <1>2, SeqInduction
  <2> QED
    BY <2>1 DEF S

LEMMA FollowOne ==
  ASSUME NEW f \in Followers, NEW x \in Tokens
  PROVE  FollowAll(f, <<x>>) = Follow(f, x)
<1>1. <<x>> = Append(<<>>, x) /\ <<>> \in Seq(Tokens)
  OBVIOUS
<1> QED
  BY <1>1, FollowAppend, FollowNothing

-----------------------------------------------------------------------------
(* The parser follows its text, wherever the chunks begin and end *)

\* What the parser makes of a line that is not too long.
LEMMA ConsumeIs ==
  ASSUME NEW r \in Readers, ~ConsumeLine(r).broken
  PROVE  /\ ~r.broken
         /\ ConsumeLine(r).line = <<>>
         /\ ConsumeLine(r).data = NextData(r)
         /\ ConsumeLine(r).event = NextEvent(r)
         /\ ConsumeLine(r).events = NextEvents(r)
<1> DEFINE next == [r EXCEPT !.line = <<>>]
           line == r.line
<1>1. next \in Readers /\ next.line = <<>> /\ next.data = r.data /\ next.event = r.event
      /\ next.events = r.events /\ next.broken = r.broken
  <2>1. <<>> \in Seq(Tokens)
    OBVIOUS
  <2> QED
    BY <2>1 DEF Readers
<1>2. ConsumeLine(r) = IF TooLong(line) THEN [next EXCEPT !.broken = TRUE]
                       ELSE IF line = <<>> THEN Dispatch(next)
                       ELSE [next EXCEPT
                               !.data = IF Head(line) = DataField THEN Append(@, Tail(line)) ELSE @,
                               !.event = IF Head(line) # EventField THEN @
                                         ELSE IF Len(line) = 1 THEN "message" ELSE line[2][1]]
  BY DEF ConsumeLine
<1> HIDE DEF next
<1>3. ~TooLong(line)
  <2>1. TooLong(line) => ConsumeLine(r).broken = TRUE
    BY <1>1, <1>2 DEF Readers
  <2> QED
    BY <2>1
<1>4. CASE line = <<>>
  <2> DEFINE event == [event |-> next.event, data |-> next.data]
             more == IF next.data = <<>> THEN next.events ELSE Append(next.events, event)
  <2>1. Dispatch(next) = [next EXCEPT !.events = more, !.event = "message", !.data = <<>>]
    BY <1>1 DEF Dispatch, Readers
  <2> HIDE DEF event
  <2>2. /\ Dispatch(next).broken = r.broken /\ Dispatch(next).line = <<>> /\ Dispatch(next).data = <<>>
        /\ Dispatch(next).event = "message" /\ Dispatch(next).events = more
    BY <1>1, <2>1 DEF Readers
  <2>3. more = NextEvents(r)
    BY <1>1, <1>4 DEF NextEvents, event
  <2> QED
    BY <1>2, <1>3, <1>4, <2>2, <2>3 DEF NextData, NextEvent
<1>5. CASE line # <<>>
  <2> DEFINE data == NextData(r)
             event == NextEvent(r)
  <2>1. data = IF Head(line) = DataField THEN Append(next.data, Tail(line)) ELSE next.data
    BY <1>1, <1>5 DEF NextData
  <2>2. event = IF Head(line) # EventField THEN next.event ELSE IF Len(line) = 1 THEN "message" ELSE line[2][1]
    BY <1>1, <1>5 DEF NextEvent
  <2> HIDE DEF data, event
  <2>3. ConsumeLine(r) = [next EXCEPT !.data = data, !.event = event]
    BY <1>1, <1>2, <1>3, <1>5, <2>1, <2>2 DEF Readers
  <2>4. /\ ConsumeLine(r).broken = r.broken /\ ConsumeLine(r).line = <<>> /\ ConsumeLine(r).data = data
        /\ ConsumeLine(r).event = event /\ ConsumeLine(r).events = r.events
    BY <1>1, <2>3 DEF Readers
  <2>5. NextEvents(r) = r.events
    BY <1>5 DEF NextEvents
  <2> QED
    BY <2>4, <2>5 DEF data, event
<1> QED
  BY <1>4, <1>5

\* A follower that has got as far as the parser, after the events E.
Same(f, r, E) ==
  f.line = r.line /\ f.data = r.data /\ f.event = r.event /\ f.events = E \o r.events

LEMMA SameEnds ==
  ASSUME NEW f \in Followers, NEW r \in Readers, NEW E \in Seq(Events), Same(f, r, E), ~ConsumeLine(r).broken
  PROVE  Same(EndLine(f), ConsumeLine(r), E)
<1> DEFINE more == [event |-> r.event, data |-> r.data]
<1>1. f.line = r.line /\ f.data = r.data /\ f.event = r.event /\ f.events = E \o r.events
  BY DEF Same
<1>2. NextData(f) = NextData(r) /\ NextEvent(f) = NextEvent(r)
  BY <1>1 DEF NextData, NextEvent
<1>3. NextEvents(f) = E \o NextEvents(r)
  <2>1. r.events \in Seq(Events) /\ (r.data # <<>> => more \in Events)
    BY DEF Readers, Events
  <2>2. NextEvents(r) = IF r.line = <<>> /\ r.data # <<>> THEN Append(r.events, more) ELSE r.events
    BY DEF NextEvents
  <2>3. NextEvents(f) = IF r.line = <<>> /\ r.data # <<>> THEN Append(E \o r.events, more) ELSE E \o r.events
    BY <1>1 DEF NextEvents
  <2> HIDE DEF more
  <2>4. r.data # <<>> => Append(E \o r.events, more) = E \o Append(r.events, more)
    BY <2>1, SMTT(30)
  <2> QED
    BY <2>2, <2>3, <2>4
<1>4. /\ EndLine(f).line = <<>> /\ EndLine(f).data = NextData(f) /\ EndLine(f).event = NextEvent(f)
      /\ EndLine(f).events = NextEvents(f)
  BY DEF EndLine, Follower
<1> QED
  BY <1>2, <1>3, <1>4, ConsumeIs DEF Same

\* The end of a line forgets whether a CR was waiting.
LEMMA EndLineOf ==
  ASSUME NEW f, NEW cr
  PROVE  EndLine(Follower(f.line, f.data, f.event, f.events, cr)) = EndLine(f)
<1> DEFINE g == Follower(f.line, f.data, f.event, f.events, cr)
<1>1. g.line = f.line /\ g.data = f.data /\ g.event = f.event /\ g.events = f.events
  BY DEF Follower
<1> HIDE DEF g
<1>2. NextData(g) = NextData(f) /\ NextEvent(g) = NextEvent(f) /\ NextEvents(g) = NextEvents(f)
  BY <1>1 DEF NextData, NextEvent, NextEvents
<1>3. EndLine(g) = EndLine(f)
  BY <1>2 DEF EndLine
<1> QED
  BY <1>3 DEF g

\* One token: the parser knows at once whether it ends a line, the follower one token later.
LEMMA AdvanceFollows ==
  ASSUME NEW f \in Followers, NEW r \in Readers, NEW E \in Seq(Events), NEW token \in Tokens,
         NEW before \in BOOLEAN, NEW ends \in BOOLEAN,
         f.cr => (before <=> token # LF), token = LF => ends, token \notin {CR, LF} => ~ends,
         Same(IF f.cr /\ before THEN EndLine(f) ELSE f, r, E),
         ~Advance(r, token, ends).broken
  PROVE  LET h == Follow(f, token)
         IN  /\ ~r.broken
             /\ h.cr <=> token = CR
             /\ Same(IF h.cr /\ ends THEN EndLine(h) ELSE h, Advance(r, token, ends), E)
<1> DEFINE c == Caught(f)
           h == Follow(f, token)
           a == Advance(r, token, ends)
<1>1. c \in Followers /\ EndLine(f) \in Followers
  BY EndLineType
<1>2. CR # LF
  BY DEF CR, LF
<1>3. CASE token = LF
  <2>1. h = EndLine(f) /\ a = ConsumeLine(r) /\ Same(f, r, E)
    BY <1>3 DEF Follow, Advance
  <2> HIDE DEF h, a
  <2>2. h.cr = FALSE
    BY <2>1, EndLineType
  <2>3. Same(h, a, E) /\ ~r.broken
    BY <2>1, SameEnds, ConsumeIs DEF a
  <2> QED
    BY <1>2, <1>3, <2>2, <2>3 DEF h, a
<1>4. CASE token = CR
  <2>1. h = Follower(c.line, c.data, c.event, c.events, TRUE)
    BY <1>2, <1>4 DEF Follow
  <2>2. Same(c, r, E)
    BY <1>2, <1>4 DEF Caught
  <2>3. h.cr = TRUE /\ h.line = c.line /\ h.data = c.data /\ h.event = c.event /\ h.events = c.events
    BY <2>1 DEF Follower
  <2>4. EndLine(h) = EndLine(c)
    BY <2>1, EndLineOf
  <2> HIDE DEF c, h
  <2>5. CASE ends
    <3>1. a = ConsumeLine(r)
      BY <2>5 DEF Advance
    <3>2. Same(EndLine(c), a, E) /\ ~r.broken
      BY <1>1, <2>2, <3>1, SameEnds, ConsumeIs
    <3> QED
      BY <1>4, <2>3, <2>4, <2>5, <3>2 DEF h
  <2>6. CASE ~ends
    <3>1. a = r
      BY <1>4, <2>6 DEF Advance
    <3>2. Same(h, r, E)
      BY <2>2, <2>3 DEF Same
    <3> QED
      BY <1>4, <2>3, <2>6, <3>1, <3>2 DEF h
  <2> QED
    BY <2>5, <2>6
<1>5. CASE token # LF /\ token # CR
  <2>1. h = Follower(Append(c.line, token), c.data, c.event, c.events, FALSE)
    BY <1>5 DEF Follow
  <2>2. Same(c, r, E)
    BY <1>5 DEF Caught
  <2>3. a = [r EXCEPT !.line = Append(@, token)]
    BY <1>5 DEF Advance
  <2> DEFINE line == Append(r.line, token)
  <2>4. h.cr = FALSE /\ h.line = line /\ h.data = c.data /\ h.event = c.event /\ h.events = c.events
    BY <2>1, <2>2 DEF Follower, Same
  <2>5. a.line = line /\ a.data = r.data /\ a.event = r.event /\ a.events = r.events /\ a.broken = r.broken
    BY <2>3 DEF Readers
  <2> HIDE DEF c, h, a, line
  <2>6. Same(h, a, E)
    BY <2>2, <2>4, <2>5 DEF Same
  <2>7. ~r.broken
    BY <2>5 DEF a
  <2> QED
    BY <1>5, <2>4, <2>6, <2>7 DEF h, a
<1> QED
  BY <1>3, <1>4, <1>5

\* A whole text.
LEMMA ScanFollows ==
  ASSUME NEW q \in Parsers, NEW text \in Seq(Tokens), NEW final \in BOOLEAN, NEW E \in Seq(Events),
         ~Scan(q, text, final).broken
  PROVE  LET f == FollowAll(Follower(<<>>, q.data, q.event, E, FALSE), text)
             g == IF final THEN Caught(f) ELSE f
         IN  /\ Same(g, Scan(q, text, final), E)
             /\ Pending(text, final) = IF g.cr THEN <<CR>> ELSE <<>>
<1> DEFINE N == Len(text)
           ends == LineEnds(text, final)
           f0 == Follower(<<>>, q.data, q.event, E, FALSE)
           f(n) == FollowAll(f0, SubSeq(text, 1, n))
           r0 == [line |-> <<>>, data |-> q.data, event |-> q.event, events |-> <<>>, broken |-> FALSE]
<1>1. N \in Nat /\ \A n \in 1..N : text[n] \in Tokens
  BY ElementOfSeq
<1>2. PICK g \in [0..N -> Readers] :
        /\ g[0] = r0
        /\ \A n \in 1..N : g[n] = Advance(g[n - 1], text[n], n \in ends)
        /\ Scan(q, text, final) = g[N]
  BY ScanChain
<1>3. f0 \in Followers /\ f0.line = <<>> /\ f0.data = q.data /\ f0.event = q.event /\ f0.events = E /\ f0.cr = FALSE
  <2>1. q.data \in Seq(Seq(Tokens)) /\ q.event \in Words /\ <<>> \in Seq(PlainTokens)
    BY DEF Parsers
  <2> QED
    BY <2>1 DEF Follower, Followers
<1> HIDE DEF f0
<1>4. ASSUME NEW n \in 1..N
      PROVE  /\ n \in ends <=> \/ text[n] = LF
                               \/ text[n] = CR /\ IF n = N THEN final ELSE text[n + 1] # LF
             /\ (n \in ends) \in BOOLEAN
  BY DEF LineEnds
<1>5. \A n \in 0..N : SubSeq(text, 1, n) \in Seq(Tokens) /\ f(n) \in Followers
  <2>1. \A n \in 0..N : SubSeq(text, 1, n) \in Seq(Tokens)
    BY <1>1
  <2> QED
    BY <1>3, <2>1, FollowAllType
<1>6. f(0) = f0
  <2>1. SubSeq(text, 1, 0) = <<>>
    OBVIOUS
  <2> QED
    BY <1>3, <2>1, FollowNothing
<1>7. \A n \in 0..N : n < N => f(n + 1) = Follow(f(n), text[n + 1])
  <2> SUFFICES ASSUME NEW n \in 0..N, n < N PROVE f(n + 1) = Follow(f(n), text[n + 1])
    OBVIOUS
  <2>1. SubSeq(text, 1, n + 1) = Append(SubSeq(text, 1, n), text[n + 1])
    BY <1>1
  <2>2. text[n + 1] \in Tokens
    BY <1>1
  <2> QED
    BY <1>3, <1>5, <2>1, <2>2, FollowAppend, ZenonT(30)
<1>8. f(N) = FollowAll(f0, text)
  <2>1. SubSeq(text, 1, N) = text
    OBVIOUS
  <2> QED
    BY <2>1
<1> HIDE DEF f
<1> DEFINE Fine(n) == /\ f(n).cr <=> n # 0 /\ text[n] = CR
                      /\ ~g[n].broken => Same(IF f(n).cr /\ n \in ends THEN EndLine(f(n)) ELSE f(n), g[n], E)
           S == {n \in 0..N : Fine(n)}
<1>9. 0 \in S
  <2>1. Same(f0, r0, E)
    <3>1. E \o <<>> = E
      OBVIOUS
    <3> QED
      BY <1>3, <3>1 DEF Same
  <2>2. 0 \in 0..N
    BY <1>1
  <2>3. f(0).cr = FALSE /\ Same(f(0), g[0], E)
    BY <1>2, <1>3, <1>6, <2>1
  <2>4. Same(IF f(0).cr /\ 0 \in ends THEN EndLine(f(0)) ELSE f(0), g[0], E)
    BY <2>3
  <2> HIDE DEF N, ends
  <2> QED
    BY <2>2, <2>3, <2>4
<1>10. \A n \in 0..N : n \in S /\ n < N => n + 1 \in S
  <2> SUFFICES ASSUME NEW n \in 0..N, Fine(n), n < N PROVE n + 1 \in 0..N /\ Fine(n + 1)
    OBVIOUS
  <2> DEFINE m == n + 1
             token == text[m]
             before == n \in ends
             end == m \in ends
  <2>1. m \in 1..N /\ m \in 0..N /\ m # 0 /\ m - 1 = n /\ (n # 0 => n \in 1..N /\ n # N)
    BY <1>1
  <2>2. token \in Tokens /\ f(n) \in Followers /\ g[n] \in Readers
    BY <1>1, <1>2, <1>5, <2>1
  <2>3. f(m) = Follow(f(n), token) /\ g[m] = Advance(g[n], token, end)
    BY <1>2, <1>7, <2>1
  <2>4. CR # LF
    BY DEF CR, LF
  <2>5. (token = LF => end) /\ (token \notin {CR, LF} => ~end)
    BY <1>4, <2>1
  <2>6. f(n).cr => (before <=> token # LF)
    <3> SUFFICES ASSUME f(n).cr PROVE before <=> token # LF
      OBVIOUS
    <3>1. n # 0 /\ text[n] = CR
      OBVIOUS
    <3> QED
      BY <1>4, <2>1, <2>4, <3>1
  <2> HIDE DEF m, token
  <2>7. f(m).cr <=> token = CR
    <3> DEFINE c == Caught(f(n))
    <3>1. Follow(f(n), token) = IF token = LF THEN EndLine(f(n))
                                ELSE Follower(IF token = CR THEN c.line ELSE Append(c.line, token),
                                              c.data, c.event, c.events, token = CR)
      BY DEF Follow
    <3>2. EndLine(f(n)).cr = FALSE
      BY <2>2, EndLineType
    <3>3. Follower(IF token = CR THEN c.line ELSE Append(c.line, token),
                   c.data, c.event, c.events, token = CR).cr = (token = CR)
      BY DEF Follower
    <3> QED
      BY <2>3, <2>4, <3>1, <3>2, <3>3
  <2>8. ASSUME ~g[m].broken
        PROVE  Same(IF f(m).cr /\ end THEN EndLine(f(m)) ELSE f(m), g[m], E)
    <3> DEFINE fn == f(n)
               gn == g[n]
    <3>1. before \in BOOLEAN /\ end \in BOOLEAN
      OBVIOUS
    <3>2. ~gn.broken
      <4>1. CASE end
        <5>1. g[m] = ConsumeLine(gn)
          BY <2>3, <4>1 DEF Advance
        <5> QED
          BY <2>2, <2>8, <5>1, ConsumeIs
      <4>2. CASE ~end
        <5>1. g[m] = gn \/ g[m] = [gn EXCEPT !.line = Append(@, token)]
          BY <2>3, <4>2 DEF Advance
        <5> QED
          BY <2>2, <2>8, <5>1 DEF Readers
      <4> QED
        BY <4>1, <4>2
    <3>3. Same(IF fn.cr /\ before THEN EndLine(fn) ELSE fn, gn, E)
      BY <3>2
    <3> HIDE DEF before, end, fn, gn
    <3>4. LET h == Follow(fn, token)
          IN  Same(IF h.cr /\ end THEN EndLine(h) ELSE h, Advance(gn, token, end), E)
      BY <2>2, <2>3, <2>5, <2>6, <2>8, <3>1, <3>3, AdvanceFollows DEF fn, gn
    <3> QED
      BY <2>3, <3>4 DEF fn, gn
  <2> QED
    BY <2>1, <2>7, <2>8 DEF m, token
<1>11. Fine(N)
  <2> HIDE DEF Fine
  <2>1. 0..N \subseteq S
    <3> HIDE DEF S
    <3> QED
      BY <1>1, <1>9, <1>10, Induction
  <2> QED
    BY <1>1, <2>1
<1> DEFINE h == FollowAll(f0, text)
           k == IF final THEN Caught(h) ELSE h
<1>12. h \in Followers /\ (h.cr <=> N # 0 /\ text[N] = CR)
       /\ Same(IF h.cr /\ N \in ends THEN EndLine(h) ELSE h, Scan(q, text, final), E)
  BY <1>1, <1>2, <1>5, <1>8, <1>11
<1>13. N # 0 /\ text[N] = CR => (N \in ends <=> final)
  <2>1. CR # LF
    BY DEF CR, LF
  <2> QED
    BY <1>1, <1>4, <2>1
<1> HIDE DEF h
<1>14. Same(k, Scan(q, text, final), E)
  BY <1>12, <1>13 DEF Caught
<1>15. Pending(text, final) = IF k.cr THEN <<CR>> ELSE <<>>
  <2>1. text # <<>> <=> N # 0
    BY EmptySeq
  <2>2. Last(text) = text[N]
    BY DEF Last
  <2>3. k.cr <=> h.cr /\ ~final
    BY <1>12, EndLineType
  <2> QED
    BY <1>12, <1>13, <2>1, <2>2, <2>3 DEF Pending
<1> QED
  BY <1>14, <1>15 DEF h, f0

\* A line without line ends is only added to.
LEMMA FollowPlain ==
  ASSUME NEW f \in Followers, NEW s \in Seq(PlainTokens)
  PROVE  LET h == FollowAll(f, s)
             c == Caught(f)
         IN  /\ s \in Seq(Tokens) /\ h \in Followers
             /\ h.cr => f.cr
             /\ Caught(h) = Follower(c.line \o s, c.data, c.event, c.events, FALSE)
             /\ ~f.cr => ~h.cr
<1> DEFINE c == Caught(f)
           Fine(t) == LET h == FollowAll(f, t)
                      IN  /\ h.cr => f.cr
                          /\ Caught(h) = Follower(c.line \o t, c.data, c.event, c.events, FALSE)
           S == {t \in Seq(PlainTokens) : Fine(t)}
<1>0. Seq(PlainTokens) \subseteq Seq(Tokens) /\ c \in Followers /\ c.cr = FALSE
  <2>1. PlainTokens \subseteq Tokens
    BY DEF PlainTokens
  <2> QED
    BY <2>1, SeqMonotonic, EndLineType
<1>c. c.line \in Seq(PlainTokens) /\ c = Follower(c.line, c.data, c.event, c.events, c.cr)
  BY <1>0, FollowerFields
<1>1. <<>> \in S
  <2>1. FollowAll(f, <<>>) = f
    BY FollowNothing
  <2>2. c.line \o <<>> = c.line
    BY <1>c
  <2>3. <<>> \in Seq(PlainTokens)
    OBVIOUS
  <2> QED
    BY <1>0, <1>c, <2>1, <2>2, <2>3
<1>2. \A t \in Seq(PlainTokens), x \in PlainTokens : t \in S => Append(t, x) \in S
  <2> SUFFICES ASSUME NEW t \in Seq(PlainTokens), NEW x \in PlainTokens, t \in S PROVE Append(t, x) \in S
    OBVIOUS
  <2>0. Append(t, x) \in Seq(PlainTokens)
    BY AppendProperties
  <2> DEFINE h == FollowAll(f, t)
             k == FollowAll(f, Append(t, x))
             d == Caught(h)
  <2>1. t \in Seq(Tokens) /\ x \in Tokens /\ x # CR /\ x # LF
    BY <1>0 DEF PlainTokens
  <2>2. k = Follow(h, x)
    BY <2>1, FollowAppend
  <2>3. k = Follower(Append(d.line, x), d.data, d.event, d.events, FALSE)
    BY <2>1, <2>2 DEF Follow
  <2>4. d = Follower(c.line \o t, c.data, c.event, c.events, FALSE)
    OBVIOUS
  <2> HIDE DEF d, h, k
  <2>5. d.line = c.line \o t /\ d.data = c.data /\ d.event = c.event /\ d.events = c.events
    BY <2>4 DEF Follower
  <2> HIDE DEF c
  <2>6. Append(c.line \o t, x) = c.line \o Append(t, x)
    <3> DEFINE line == c.line
    <3>1. line \in Seq(PlainTokens) /\ t \in Seq(PlainTokens) /\ x \in PlainTokens
      BY <1>c
    <3> HIDE DEF line
    <3>2. <<x>> \in Seq(PlainTokens) /\ line \o t \in Seq(PlainTokens)
      BY ONLY <3>1
    <3>3. Append(line \o t, x) = (line \o t) \o <<x>> /\ Append(t, x) = t \o <<x>>
      BY ONLY <3>1, <3>2, SMTT(30)
    <3>4. (line \o t) \o <<x>> = line \o (t \o <<x>>)
      BY ONLY <3>1, <3>2
    <3> QED
      BY <3>3, <3>4 DEF line
  <2>7. k = Follower(c.line \o Append(t, x), c.data, c.event, c.events, FALSE)
    BY <2>3, <2>5, <2>6
  <2>8. k.cr = FALSE
    BY <2>3 DEF Follower
  <2>9. Caught(k) = k
    BY <2>8 DEF Caught
  <2>10. Fine(Append(t, x))
    BY <2>7, <2>8, <2>9 DEF k
  <2> HIDE DEF Fine
  <2> QED
    BY <2>0, <2>10
<1>3. s \in S
  <2> HIDE DEF S
  <2>1. Seq(PlainTokens) \subseteq S
    BY <1>1, <1>2, SeqInduction
  <2> QED
    BY <2>1
<1>4. s \in Seq(Tokens)
  BY <1>0
<1>5. FollowAll(f, s).cr \in BOOLEAN /\ FollowAll(f, s) \in Followers
  BY <1>4, FollowAllType, FollowerFields
<1> QED
  BY <1>3, <1>4, <1>5

\* What the parser keeps of a text: the line it is in, and the CR that waits for its LF.
Waits(f) == IF f.cr THEN <<CR>> ELSE <<>>

Holds(q, f) ==
  q.buffer = f.line \o Waits(f) /\ q.data = f.data /\ q.event = f.event

\* Reading the buffer once more leads where reading it once has led.
LEMMA BufferFollows ==
  ASSUME NEW f \in Followers
  PROVE  /\ f.line \o Waits(f) \in Seq(Tokens)
         /\ FollowAll(Follower(<<>>, f.data, f.event, f.events, FALSE), f.line \o Waits(f)) = f
<1> DEFINE f0 == Follower(<<>>, f.data, f.event, f.events, FALSE)
           line == f.line
           h == FollowAll(f0, line)
<1>1. f0 \in Followers /\ f0.line = <<>> /\ f0.data = f.data /\ f0.event = f.event /\ f0.events = f.events
      /\ f0.cr = FALSE
  <2>1. <<>> \in Seq(PlainTokens)
    OBVIOUS
  <2> QED
    BY <2>1, FollowerFields DEF Follower, Followers
<1>2. line \in Seq(PlainTokens) /\ line \in Seq(Tokens)
  BY FollowerFields
<1> HIDE DEF f0, line
<1>3. Caught(f0) = f0
  BY <1>1 DEF Caught
<1>4. h = Follower(line, f.data, f.event, f.events, FALSE)
  <2>1. Caught(h) = Follower(Caught(f0).line \o line, Caught(f0).data, Caught(f0).event, Caught(f0).events, FALSE)
        /\ (~f0.cr => ~h.cr)
    BY <1>1, <1>2, FollowPlain
  <2>2. ~h.cr /\ Caught(h) = Follower(<<>> \o line, f.data, f.event, f.events, FALSE)
    BY <1>1, <1>3, <2>1
  <2>3. <<>> \o line = line
    BY <1>2
  <2> QED
    BY <2>3, <2>2 DEF Caught
<1>5. f = Follower(line, f.data, f.event, f.events, f.cr) /\ f.cr \in BOOLEAN
  BY FollowerFields DEF line
<1>6. CR \in Tokens /\ <<CR>> \in Seq(Tokens)
  <2>1. CR \in Tokens
    BY TokenTypes
  <2> QED
    BY <2>1
<1>7. CASE f.cr
  <2>1. Waits(f) = <<CR>>
    BY <1>7 DEF Waits
  <2>2. FollowAll(f0, line \o <<CR>>) = FollowAll(h, <<CR>>) /\ h \in Followers
    BY <1>1, <1>2, <1>6, FollowConcat, FollowAllType
  <2>3. FollowAll(h, <<CR>>) = Follow(h, CR)
    BY <1>6, <2>2, FollowOne
  <2> HIDE DEF h
  <2>4. h.cr = FALSE /\ h.line = line /\ h.data = f.data /\ h.event = f.event /\ h.events = f.events
    BY <1>4 DEF Follower
  <2>5. Follow(h, CR) = Follower(line, f.data, f.event, f.events, TRUE)
    <3>1. CR # LF
      BY DEF CR, LF
    <3>2. Caught(h) = h
      BY <2>4 DEF Caught
    <3> QED
      BY <2>4, <3>1, <3>2 DEF Follow
  <2>6. line \o <<CR>> \in Seq(Tokens)
    BY <1>2, <1>6
  <2>7. Follower(line, f.data, f.event, f.events, TRUE) = f
    BY <1>5, <1>7
  <2> QED
    BY <2>1, <2>2, <2>3, <2>5, <2>6, <2>7 DEF f0, line
<1>8. CASE ~f.cr
  <2>1. Waits(f) = <<>> /\ line \o <<>> = line
    BY <1>2, <1>8 DEF Waits
  <2>2. h = f
    BY <1>4, <1>5, <1>8
  <2> QED
    BY <1>2, <2>1, <2>2 DEF f0, line
<1> QED
  BY <1>5, <1>7, <1>8

\* Events are only added.
Extends(s, t) == \E u \in Seq(Events) : t = s \o u

LEMMA ExtendsAgain ==
  ASSUME NEW s \in Seq(Events), NEW t \in Seq(Events), NEW u, Extends(s, t), Extends(t, u)
  PROVE  Extends(s, u)
<1>1. PICK a \in Seq(Events) : t = s \o a
  BY DEF Extends
<1>2. PICK b \in Seq(Events) : u = t \o b
  BY DEF Extends
<1>3. u = s \o (a \o b) /\ a \o b \in Seq(Events)
  BY <1>1, <1>2
<1> QED
  BY <1>3 DEF Extends

LEMMA EndLineExtends ==
  ASSUME NEW f \in Followers
  PROVE  Extends(f.events, f.events) /\ Extends(f.events, EndLine(f).events) /\ Extends(f.events, Caught(f).events)
<1> DEFINE x == [event |-> f.event, data |-> f.data]
           s == f.events
<1>1. s \in Seq(Events) /\ (f.data # <<>> => x \in Events)
  BY FollowerFields DEF Events
<1>2. EndLine(f).events = s \/ (f.data # <<>> /\ EndLine(f).events = Append(s, x))
  <2>1. EndLine(f).events = NextEvents(f)
    BY DEF EndLine, Follower
  <2>2. NextEvents(f) = IF f.line = <<>> /\ f.data # <<>> THEN Append(s, x) ELSE s
    BY DEF NextEvents
  <2> HIDE DEF s, x
  <2> QED
    BY <2>1, <2>2
<1> HIDE DEF x, s
<1>3. Extends(s, s)
  <2>1. s = s \o <<>> /\ <<>> \in Seq(Events)
    BY <1>1
  <2> QED
    BY <2>1 DEF Extends
<1>4. f.data # <<>> => Extends(s, Append(s, x))
  <2>1. f.data # <<>> => Append(s, x) = s \o <<x>> /\ <<x>> \in Seq(Events)
    BY <1>1
  <2> QED
    BY <2>1 DEF Extends
<1> QED
  BY <1>2, <1>3, <1>4 DEF Caught, s

LEMMA FollowExtends ==
  ASSUME NEW f \in Followers, NEW text \in Seq(Tokens)
  PROVE  Extends(f.events, FollowAll(f, text).events)
<1> DEFINE S == {t \in Seq(Tokens) : Extends(f.events, FollowAll(f, t).events)}
<1>1. <<>> \in S
  BY FollowNothing, EndLineExtends
<1>2. \A t \in Seq(Tokens), x \in Tokens : t \in S => Append(t, x) \in S
  <2> SUFFICES ASSUME NEW t \in Seq(Tokens), NEW x \in Tokens, t \in S PROVE Append(t, x) \in S
    OBVIOUS
  <2> DEFINE h == FollowAll(f, t)
  <2>1. FollowAll(f, Append(t, x)) = Follow(h, x) /\ h \in Followers /\ Follow(h, x) \in Followers
    BY FollowAppend, FollowAllType, FollowType
  <2>2. Extends(f.events, h.events)
    OBVIOUS
  <2> HIDE DEF h
  <2>3. Follow(h, x).events \in {EndLine(h).events, Caught(h).events}
    BY DEF Follow, Follower
  <2>4. Extends(h.events, Follow(h, x).events)
    BY <2>1, <2>3, EndLineExtends
  <2>5. f.events \in Seq(Events) /\ h.events \in Seq(Events)
    BY <2>1, FollowerFields
  <2>6. Extends(f.events, Follow(h, x).events)
    BY <2>2, <2>4, <2>5, ExtendsAgain
  <2> QED
    BY <2>1, <2>6
<1> QED
  <2> HIDE DEF S
  <2>1. Seq(Tokens) \subseteq S
    BY <1>1, <1>2, SeqInduction
  <2> QED
    BY <2>1 DEF S

LEMMA ExtendsPrefix ==
  ASSUME NEW s \in Seq(Events), NEW t \in Seq(Events), Extends(s, t)
  PROVE  IsPrefix(s, t)
<1>1. PICK u \in Seq(Events) : t = s \o u
  BY DEF Extends
<1>2. Len(s) \in Nat /\ Len(u) \in Nat /\ Len(t) = Len(s) + Len(u) /\ \A i \in 1..Len(s) : t[i] = s[i]
  BY <1>1
<1>3. Len(s) <= Len(t)
  BY <1>2
<1>4. SubSeq(t, 1, Len(s)) = SubSeq(s, 1, Len(s))
  BY <1>2
<1> QED
  BY <1>3, <1>4 DEF IsPrefix

\* A chunk: the parser goes where the follower goes, and returns the events it added.
LEMMA FeedFollows ==
  ASSUME NEW q \in Parsers, NEW f \in Followers, Holds(q, f), NEW chunk \in Seq(Tokens), NEW final \in BOOLEAN,
         ~Feed(q, chunk, final).parser.broken
  PROVE  LET h == FollowAll(f, StripBom(q, chunk))
             k == IF final THEN Caught(h) ELSE h
         IN  /\ k.events = f.events \o Feed(q, chunk, final).events
             /\ ~final => /\ Holds(Feed(q, chunk, final).parser, h)
                          /\ Feed(q, chunk, final).parser.fresh = (q.fresh /\ chunk = <<>>)
<1> DEFINE s == StripBom(q, chunk)
           text == q.buffer \o s
           read == Scan(q, text, final)
           kept == [buffer |-> read.line \o Pending(text, final), data |-> read.data, event |-> read.event,
                    fresh |-> q.fresh /\ chunk = <<>>, broken |-> FALSE]
           E == f.events
           f0 == Follower(<<>>, q.data, q.event, E, FALSE)
           h == FollowAll(f, s)
           k == IF final THEN Caught(h) ELSE h
<1>1. s \in Seq(Tokens)
  BY DEF StripBom
<1>2. Feed(q, chunk, final) =
        IF read.broken \/ TooLong(kept.buffer)
        THEN [parser |-> [NewParser EXCEPT !.broken = TRUE], events |-> <<>>]
        ELSE [parser |-> IF final THEN NewParser ELSE kept, events |-> read.events]
  BY DEF Feed
<1> HIDE DEF s
<1>3. q.buffer = f.line \o Waits(f) /\ q.data = f.data /\ q.event = f.event
  BY DEF Holds
<1>4. q.buffer \in Seq(Tokens) /\ FollowAll(f0, q.buffer) = f
  BY <1>3, BufferFollows
<1>5. text \in Seq(Tokens)
  BY <1>1, <1>4
<1>6. f0 \in Followers
  <2>1. <<>> \in Seq(PlainTokens) /\ FALSE \in BOOLEAN
    OBVIOUS
  <2> QED
    BY <1>3, <2>1, FollowerFields DEF Follower, Followers
<1> HIDE DEF f0
<1>7. FollowAll(f0, text) = h
  BY <1>1, <1>4, <1>6, FollowConcat
<1> HIDE DEF h, text, kept
<1>8. ~read.broken /\ ~TooLong(kept.buffer)
  <2>1. [NewParser EXCEPT !.broken = TRUE].broken
    BY DEF NewParser
  <2> QED
    BY <1>2, <2>1
<1>9. Feed(q, chunk, final).parser = (IF final THEN NewParser ELSE kept) /\ Feed(q, chunk, final).events = read.events
  BY <1>2, <1>8
<1>10. Same(k, read, E) /\ Pending(text, final) = IF k.cr THEN <<CR>> ELSE <<>>
  <2>1. E \in Seq(Events)
    BY FollowerFields
  <2> HIDE DEF E
  <2> QED
    BY <1>5, <1>7, <1>8, <2>1, ScanFollows DEF f0
<1> HIDE DEF read
<1>11. k.events = E \o Feed(q, chunk, final).events
  BY <1>9, <1>10 DEF Same
<1>12. ASSUME ~final PROVE Holds(kept, h) /\ kept.fresh = (q.fresh /\ chunk = <<>>)
  BY <1>10, <1>12 DEF Same, Holds, Waits, kept
<1> QED
  BY <1>9, <1>11, <1>12 DEF h, s

-----------------------------------------------------------------------------
(* What a follower makes of the text of an event *)

\* A line and its end.
LEMMA LineRun ==
  ASSUME NEW f \in Followers, NEW nl \in NewLines, NEW line \in Seq(PlainTokens),
         Caught(f).line = <<>>, f.cr => nl = <<CR>>
  PROVE  LET c == Caught(f)
             h == FollowAll(f, line \o nl)
         IN  /\ line \o nl \in Seq(Tokens) /\ h \in Followers
             /\ Caught(h) = EndLine(Follower(line, c.data, c.event, c.events, FALSE))
             /\ h.cr => nl = <<CR>>
<1> DEFINE c == Caught(f)
           g == FollowAll(f, line)
           m == Follower(line, c.data, c.event, c.events, FALSE)
           n == Follower(line, c.data, c.event, c.events, TRUE)
           h == FollowAll(f, line \o nl)
<1>1. line \in Seq(Tokens) /\ g \in Followers /\ (g.cr => f.cr)
  BY FollowPlain
<1>2. Caught(g) = Follower(c.line \o line, c.data, c.event, c.events, FALSE)
  BY FollowPlain
<1>3. Caught(g) = m
  <2>1. <<>> \o line = line
    OBVIOUS
  <2> QED
    BY <1>2, <2>1
<1>4. CR \in Tokens /\ LF \in Tokens /\ CR # LF
  <2>1. CR # LF
    BY DEF CR, LF
  <2> QED
    BY <2>1, TokenTypes
<1>5. nl \in Seq(Tokens)
  <2>1. <<LF>> \in Seq(Tokens) /\ <<CR>> \in Seq(Tokens) /\ <<CR, LF>> \in Seq(Tokens)
    BY <1>4
  <2> QED
    BY <2>1 DEF NewLines
<1>6. line \o nl \in Seq(Tokens) /\ h = FollowAll(g, nl) /\ h \in Followers
  <2>1. line \o nl \in Seq(Tokens)
    BY <1>1, <1>5
  <2> QED
    BY <1>1, <1>5, <2>1, FollowConcat, FollowAllType
<1>7. n.cr = TRUE /\ n.line = line /\ n.data = c.data /\ n.event = c.event /\ n.events = c.events
  BY DEF Follower
<1>8. m.cr = FALSE /\ m.line = line /\ m.data = c.data /\ m.event = c.event /\ m.events = c.events
  BY DEF Follower
<1>9. Follow(g, CR) = n /\ n \in Followers
  <2>1. Follow(g, CR) = Follower(Caught(g).line, Caught(g).data, Caught(g).event, Caught(g).events, TRUE)
    BY <1>4 DEF Follow
  <2>2. Follow(g, CR) \in Followers
    BY <1>1, <1>4, FollowType
  <2> HIDE DEF m
  <2> QED
    BY <1>3, <1>8, <2>1, <2>2
<1>10. EndLine(n) = EndLine(m)
  <2>1. EndLine(Follower(m.line, m.data, m.event, m.events, TRUE)) = EndLine(m)
    BY EndLineOf
  <2> HIDE DEF m
  <2> QED
    BY <1>8, <2>1
<1> HIDE DEF c, g, m, n, h
<1>11. CASE nl = <<CR>>
  <2>1. h = n
    BY <1>1, <1>4, <1>6, <1>9, <1>11, FollowOne
  <2>2. Caught(h) = EndLine(m)
    BY <1>7, <1>10, <2>1 DEF Caught
  <2> QED
    BY <1>6, <1>11, <2>2 DEF m, c, h
<1>12. CASE nl = <<LF>>
  <2>1. nl # <<CR>>
    BY <1>4, <1>12
  <2>2. ~g.cr
    BY <1>1, <2>1
  <2>3. g = m
    BY <1>3, <2>2 DEF Caught
  <2>4. h = EndLine(g)
    <3>1. h = Follow(g, LF)
      BY <1>1, <1>4, <1>6, <1>12, FollowOne
    <3> QED
      BY <3>1 DEF Follow
  <2>5. ~h.cr
    BY <1>1, <2>4, EndLineType
  <2>6. Caught(h) = EndLine(m)
    BY <2>3, <2>4, <2>5 DEF Caught
  <2> QED
    BY <1>6, <2>5, <2>6 DEF m, c, h
<1>13. CASE nl = <<CR, LF>>
  <2>1. nl # <<CR>>
    BY <1>13
  <2>2. nl = Append(<<CR>>, LF) /\ <<CR>> \in Seq(Tokens)
    BY <1>4, <1>13
  <2>3. h = Follow(FollowAll(g, <<CR>>), LF)
    BY <1>1, <1>4, <1>6, <2>2, FollowAppend
  <2>4. FollowAll(g, <<CR>>) = n
    BY <1>1, <1>4, <1>9, FollowOne
  <2>5. h = EndLine(n)
    BY <2>3, <2>4 DEF Follow
  <2>6. ~h.cr
    BY <1>9, <2>5, EndLineType
  <2>7. Caught(h) = EndLine(m)
    BY <1>10, <2>5, <2>6 DEF Caught
  <2> QED
    BY <1>6, <2>6, <2>7 DEF m, c, h
<1> QED
  BY <1>11, <1>12, <1>13 DEF NewLines

\* Between two events.
Clean(events) == Follower(<<>>, <<>>, "message", events, FALSE)

PlainEvents ==
  {event \in Events : event.data \in Seq(Seq(PlainTokens)) /\ <<event.event, 0>> \in PlainTokens}

Ended(nl) == [line \in Seq(Tokens) |-> line \o nl]
DataLine == [line \in Seq(Tokens) |-> <<DataField>> \o line]
NameLine(event) == IF event.event = "message" THEN <<>> ELSE << <<EventField, <<event.event, 0>> >> >>

LEMMA LineTypes ==
  ASSUME NEW nl \in NewLines
  PROVE  /\ nl \in Seq(Tokens)
         /\ Ended(nl) \in [Seq(Tokens) -> Seq(Tokens)]
         /\ DataLine \in [Seq(Tokens) -> Seq(Tokens)]
         /\ DataField \in PlainTokens /\ EventField \in PlainTokens /\ DataField # EventField
<1>1. CR \in Tokens /\ LF \in Tokens /\ DataField \in Tokens /\ EventField \in Tokens
  BY TokenTypes
<1>2. nl \in Seq(Tokens)
  <2>1. <<LF>> \in Seq(Tokens) /\ <<CR>> \in Seq(Tokens) /\ <<CR, LF>> \in Seq(Tokens)
    BY <1>1
  <2> QED
    BY <2>1 DEF NewLines
<1>3. ASSUME NEW line \in Seq(Tokens) PROVE line \o nl \in Seq(Tokens) /\ <<DataField>> \o line \in Seq(Tokens)
  <2>1. <<DataField>> \in Seq(Tokens)
    BY <1>1
  <2> QED
    BY <1>2, <2>1
<1>4. Ended(nl) \in [Seq(Tokens) -> Seq(Tokens)]
  BY <1>3 DEF Ended
<1>5. DataLine \in [Seq(Tokens) -> Seq(Tokens)]
  BY <1>3 DEF DataLine
<1>6. DataField \in PlainTokens /\ EventField \in PlainTokens /\ DataField # EventField
  BY <1>1 DEF PlainTokens, DataField, EventField, CR, LF
<1> QED
  BY <1>2, <1>4, <1>5, <1>6

\* The text of the data lines of an event.
DataText(data, nl) == Collect(Mapped(data, DataLine), Ended(nl))

LEMMA DataTextAppend ==
  ASSUME NEW nl \in NewLines, NEW data \in Seq(Seq(Tokens)), NEW x \in Seq(Tokens)
  PROVE  /\ DataText(<<>>, nl) = <<>>
         /\ DataText(data, nl) \in Seq(Tokens)
         /\ DataText(Append(data, x), nl) = DataText(data, nl) \o ((<<DataField>> \o x) \o nl)
<1> DEFINE lines == Mapped(data, DataLine)
           line == <<DataField>> \o x
           e == Ended(nl)
<1>1. Mapped(Append(data, x), DataLine) = Append(lines, DataLine[x]) /\ lines \in Seq(Seq(Tokens))
  BY LineTypes, MappedAppend, MappedType
<1>2. DataLine[x] = line /\ line \in Seq(Tokens)
  <2>1. <<DataField>> \in Seq(Tokens)
    BY TokenTypes
  <2> QED
    BY <2>1 DEF DataLine
<1>3. e \in [Seq(Tokens) -> Seq(Tokens)] /\ e[line] = line \o nl
  <2> HIDE DEF line
  <2> QED
    BY <1>2, LineTypes DEF Ended
<1>4. DataText(<<>>, nl) = <<>>
  <2>1. Mapped(<<>>, DataLine) = <<>>
    BY DEF Mapped
  <2> QED
    BY <2>1, CollectEmpty DEF DataText
<1> HIDE DEF lines, line, e
<1>5. Collect(Append(lines, line), e) = Collect(lines, e) \o e[line]
  <2> DEFINE A == Seq(Tokens)
  <2>1. lines \in Seq(A) /\ line \in A /\ e \in [A -> Seq(Tokens)]
    BY <1>1, <1>2, <1>3
  <2> HIDE DEF A
  <2> QED
    BY ONLY <2>1, CollectAppend
<1>6. Collect(lines, e) \in Seq(Tokens)
  BY ONLY <1>1, <1>3, CollectType
<1> QED
  BY <1>1, <1>2, <1>3, <1>4, <1>5, <1>6 DEF DataText, lines, line, e

\* The data lines of an event.
LEMMA DataRun ==
  ASSUME NEW f \in Followers, NEW nl \in NewLines, NEW data \in Seq(Seq(PlainTokens)),
         Caught(f).line = <<>>, f.cr => nl = <<CR>>
  PROVE  LET c == Caught(f)
             h == FollowAll(f, DataText(data, nl))
         IN  /\ DataText(data, nl) \in Seq(Tokens) /\ h \in Followers
             /\ Caught(h) = Follower(<<>>, c.data \o data, c.event, c.events, FALSE)
             /\ h.cr => nl = <<CR>>
<1> DEFINE c == Caught(f)
           Text(d) == DataText(d, nl)
           Fine(d) == /\ Text(d) \in Seq(Tokens) /\ FollowAll(f, Text(d)) \in Followers
                      /\ Caught(FollowAll(f, Text(d))) = Follower(<<>>, c.data \o d, c.event, c.events, FALSE)
                      /\ FollowAll(f, Text(d)).cr => nl = <<CR>>
           A == Seq(PlainTokens)
           S == {d \in Seq(A) : Fine(d)}
<1>0. A \subseteq Seq(Tokens) /\ Seq(A) \subseteq Seq(Seq(Tokens))
  <2>1. PlainTokens \subseteq Tokens
    BY DEF PlainTokens
  <2>2. A \subseteq Seq(Tokens)
    BY <2>1, SeqMonotonic
  <2> QED
    BY <2>2, SeqMonotonic
<1>1. c \in Followers /\ c.line = <<>> /\ c.data \in Seq(Seq(Tokens)) /\ c.cr = FALSE
      /\ c = Follower(c.line, c.data, c.event, c.events, c.cr)
  BY EndLineType, FollowerFields
<1>2. <<>> \in S
  <2>1. Text(<<>>) = <<>>
    BY DataTextAppend, EmptyTypes
  <2>2. FollowAll(f, <<>>) = f
    BY FollowNothing
  <2>3. <<>> \in Seq(Tokens) /\ <<>> \in Seq(A)
    OBVIOUS
  <2> DEFINE d == c.data
  <2>4. d \o <<>> = d
    <3>1. d \in Seq(Seq(Tokens))
      BY <1>1
    <3> HIDE DEF d
    <3> QED
      BY <3>1
  <2>5. Caught(f) = Follower(<<>>, c.data \o <<>>, c.event, c.events, FALSE)
    BY <1>1, <2>4
  <2>6. Fine(<<>>)
    BY <2>1, <2>2, <2>3, <2>5
  <2> HIDE DEF Fine, A
  <2> QED
    BY <2>3, <2>6
<1>3. \A d \in Seq(A), x \in A : d \in S => Append(d, x) \in S
  <2> SUFFICES ASSUME NEW d \in Seq(A), NEW x \in A, d \in S PROVE Append(d, x) \in S
    OBVIOUS
  <2> DEFINE g == FollowAll(f, Text(d))
             line == <<DataField>> \o x
             k == Caught(g)
             text == Text(d)
             more == line \o nl
             h == FollowAll(f, Text(Append(d, x)))
             m == Follower(line, k.data, k.event, k.events, FALSE)
             all == c.data \o d
             next == c.data \o Append(d, x)
  <2>0. Append(d, x) \in Seq(A)
    <3> HIDE DEF A
    <3> QED
      OBVIOUS
  <2>1. /\ text \in Seq(Tokens) /\ g \in Followers
        /\ k = Follower(<<>>, all, c.event, c.events, FALSE)
        /\ g.cr => nl = <<CR>>
    OBVIOUS
  <2>2. x \in Seq(Tokens) /\ d \in Seq(Seq(Tokens)) /\ x \in Seq(PlainTokens)
    BY <1>0
  <2>3. line \in Seq(PlainTokens) /\ line # <<>> /\ Head(line) = DataField /\ Tail(line) = x
    BY <2>2, LineTypes
  <2>4. Text(Append(d, x)) = text \o more
    BY <2>2, DataTextAppend
  <2>5. Append(all, x) = next
    <3> DEFINE a == c.data
    <3>1. a \in Seq(Seq(Tokens)) /\ d \in Seq(Seq(Tokens)) /\ x \in Seq(Tokens)
      BY <1>1, <2>2
    <3> HIDE DEF a
    <3> DEFINE B == Seq(Tokens)
    <3>2. a \in Seq(B) /\ d \in Seq(B) /\ x \in B
      BY <3>1
    <3> HIDE DEF B
    <3>3. a \o Append(d, x) = Append(a \o d, x) /\ a \o d \in Seq(B)
      BY ONLY <3>2, ConcatThenAppend
    <3> QED
      BY <3>3 DEF a
  <2> HIDE DEF text, g, k, line, more, all, next, Text, S, A, c
  <2>6. k.line = <<>> /\ k.data = all /\ k.event = c.event /\ k.events = c.events
    BY <2>1 DEF Follower
  <2>7. /\ more \in Seq(Tokens) /\ FollowAll(g, more) \in Followers
        /\ Caught(FollowAll(g, more)) = EndLine(m)
        /\ FollowAll(g, more).cr => nl = <<CR>>
    BY <2>1, <2>3, <2>6, LineRun DEF k, more
  <2>8. FollowAll(f, text \o more) = FollowAll(g, more) /\ text \o more \in Seq(Tokens)
    BY <2>1, <2>7, FollowConcat DEF g, text
  <2>9. m.line = line /\ m.data = all /\ m.event = c.event /\ m.events = c.events
    BY <2>6 DEF Follower
  <2> HIDE DEF m
  <2>10. NextData(m) = next /\ NextEvent(m) = c.event /\ NextEvents(m) = c.events
    BY <2>3, <2>5, <2>9, LineTypes DEF NextData, NextEvent, NextEvents
  <2>11. EndLine(m) = Follower(<<>>, next, c.event, c.events, FALSE)
    BY <2>10 DEF EndLine
  <2>12. Fine(Append(d, x))
    BY <2>4, <2>7, <2>8, <2>11 DEF next
  <2> HIDE DEF Fine
  <2> QED
    BY <2>0, <2>12 DEF S
<1>4. data \in S
  <2> HIDE DEF S
  <2>1. Seq(A) \subseteq S
    <3> HIDE DEF A
    <3> QED
      BY <1>2, <1>3, SeqInduction
  <2> QED
    BY <2>1
<1> QED
  BY <1>4

\* The text of an event is that of its lines.
LEMMA TextIs ==
  ASSUME NEW event \in PlainEvents, stream.newline \in NewLines
  PROVE  /\ NameLine(event) \in Seq(Seq(PlainTokens)) /\ event.data \in Seq(Seq(PlainTokens))
         /\ TextOf(event) = Collect(NameLine(event), Ended(stream.newline))
                              \o (DataText(event.data, stream.newline) \o (<<>> \o stream.newline))
<1> DEFINE nl == stream.newline
           e == Ended(nl)
           name == NameLine(event)
           data == Mapped(event.data, DataLine)
           blank == << <<>> >>
           lines == LinesOf(event)
           T == Seq(Tokens)
<1>1. Seq(PlainTokens) \subseteq T /\ Seq(Seq(PlainTokens)) \subseteq Seq(T)
  <2>1. PlainTokens \subseteq Tokens
    BY DEF PlainTokens
  <2>2. Seq(PlainTokens) \subseteq Seq(Tokens)
    BY <2>1, SeqMonotonic
  <2> QED
    BY <2>2, SeqMonotonic
<1>2. event \in Events /\ event.data \in Seq(Seq(PlainTokens)) /\ <<event.event, 0>> \in PlainTokens
  BY DEF PlainEvents
<1>3. name \in Seq(Seq(PlainTokens))
  <2>1. <<EventField, <<event.event, 0>> >> \in Seq(PlainTokens)
    BY <1>2, LineTypes DEF NewLines
  <2> QED
    BY <2>1 DEF NameLine
<1>4. data \in Seq(T) /\ name \in Seq(T) /\ blank \in Seq(T)
  <2>1. data \in Seq(T)
    BY <1>1, <1>2, LineTypes, MappedType
  <2>2. <<>> \in T
    OBVIOUS
  <2> HIDE DEF T
  <2>3. blank \in Seq(T)
    BY <2>2
  <2> QED
    BY <1>1, <1>3, <2>1, <2>3
<1>5. e \in [T -> T] /\ nl \in T
  BY LineTypes
<1>6. lines = name \o (data \o blank) /\ lines \in Seq(T)
  <2>1. data = [i \in DOMAIN event.data |-> <<DataField>> \o event.data[i]]
    <3> DEFINE d == event.data
    <3>1. d \in Seq(T)
      BY <1>1, <1>2
    <3> HIDE DEF d
    <3>2. \A i \in DOMAIN d : d[i] \in T
      BY <3>1
    <3>3. Mapped(d, DataLine) = [i \in DOMAIN d |-> <<DataField>> \o d[i]]
      BY <3>2 DEF Mapped, DataLine
    <3> QED
      BY <3>3 DEF d
  <2>2. lines = (name \o data) \o blank
    BY <2>1 DEF LinesOf, NameLine
  <2> HIDE DEF name, data, blank, T, lines
  <2>3. (name \o data) \o blank = name \o (data \o blank) /\ name \o (data \o blank) \in Seq(T)
    BY ONLY <1>4
  <2> QED
    BY <2>2, <2>3
<1>7. TextOf(event) = Collect(lines, e)
  <2>1. TextOf(event) = FlattenSeq([i \in DOMAIN lines |-> lines[i] \o nl])
    BY DEF TextOf
  <2> HIDE DEF lines
  <2>2. \A i \in DOMAIN lines : lines[i] \in T
    <3> HIDE DEF T
    <3> QED
      BY <1>6
  <2>3. Mapped(lines, e) = [i \in DOMAIN lines |-> lines[i] \o nl]
    BY <2>2 DEF Mapped, Ended
  <2> QED
    BY <2>1, <2>3 DEF Collect
<1>8. Collect(lines, e) = Collect(name, e) \o (Collect(data, e) \o e[<<>>])
  <2>1. <<>> \in T /\ data \o blank \in Seq(T)
    <3>1. <<>> \in T
      OBVIOUS
    <3> HIDE DEF data, blank, T
    <3> QED
      BY <1>4, <3>1
  <2> HIDE DEF name, data, lines, e
  <2>2. Collect(blank, e) = e[<<>>]
    BY <1>5, <2>1, CollectOne
  <2> HIDE DEF blank
  <2>3. Collect(data \o blank, e) = Collect(data, e) \o Collect(blank, e)
    BY <1>4, <1>5, CollectConcat
  <2>4. Collect(name \o (data \o blank), e) = Collect(name, e) \o Collect(data \o blank, e)
    <3> DEFINE rest == data \o blank
    <3>1. rest \in Seq(T)
      BY <2>1
    <3> HIDE DEF rest
    <3>2. Collect(name \o rest, e) = Collect(name, e) \o Collect(rest, e)
      BY <1>4, <1>5, <3>1, CollectConcat, SMTT(30)
    <3> QED
      BY <3>2 DEF rest
  <2> QED
    BY <1>6, <2>2, <2>3, <2>4
<1>9. e[<<>>] = <<>> \o nl
  <2>1. <<>> \in Seq(Tokens)
    OBVIOUS
  <2> QED
    BY <2>1 DEF Ended
<1> QED
  BY <1>2, <1>3, <1>7, <1>8, <1>9 DEF DataText

\* The lines before the data: the name of an event that has one.
LEMMA NameRun ==
  ASSUME NEW f \in Followers, NEW events \in Seq(Events), NEW event \in PlainEvents, NEW nl \in NewLines,
         Caught(f) = Clean(events), f.cr => nl = <<CR>>
  PROVE  LET text == Collect(NameLine(event), Ended(nl))
             h == FollowAll(f, text)
         IN  /\ text \in Seq(Tokens) /\ h \in Followers
             /\ Caught(h) = Follower(<<>>, <<>>, event.event, events, FALSE)
             /\ h.cr => nl = <<CR>>
<1> DEFINE text == Collect(NameLine(event), Ended(nl))
           h == FollowAll(f, text)
           token == <<event.event, 0>>
           line == <<EventField, token>>
           m == Follower(line, <<>>, "message", events, FALSE)
<1>1. CASE event.event = "message"
  <2>1. text = <<>>
    BY <1>1, CollectEmpty DEF NameLine
  <2>2. FollowAll(f, <<>>) = f /\ <<>> \in Seq(Tokens)
    BY FollowNothing
  <2> QED
    BY <1>1, <2>1, <2>2 DEF Clean
<1>2. CASE event.event # "message"
  <2>1. token \in PlainTokens /\ token[1] = event.event
    BY DEF PlainEvents
  <2> HIDE DEF token
  <2>2. line \in Seq(PlainTokens) /\ line # <<>> /\ Head(line) = EventField /\ Len(line) = 2 /\ line[2] = token
    BY <2>1, LineTypes
  <2>3. NameLine(event) = <<line>>
    BY <1>2 DEF NameLine, token
  <2> HIDE DEF line
  <2>4. line \in Seq(Tokens)
    <3>1. PlainTokens \subseteq Tokens
      BY DEF PlainTokens
    <3> QED
      BY <2>2, <3>1, SeqMonotonic
  <2>5. text = line \o nl
    <3>1. Collect(<<line>>, Ended(nl)) = Ended(nl)[line]
      <4> DEFINE e == Ended(nl)
      <4>1. e \in [Seq(Tokens) -> Seq(Tokens)]
        BY LineTypes
      <4> HIDE DEF e
      <4>2. Collect(<<line>>, e) = e[line]
        BY <2>4, <4>1, CollectOne
      <4> QED
        BY <4>2 DEF e
    <3> QED
      BY <2>3, <2>4, <3>1 DEF Ended
  <2>6. /\ Caught(f).line = <<>> /\ Caught(f).data = <<>> /\ Caught(f).event = "message"
        /\ Caught(f).events = events
    BY DEF Clean, Follower
  <2>7. /\ line \o nl \in Seq(Tokens) /\ FollowAll(f, line \o nl) \in Followers
        /\ Caught(FollowAll(f, line \o nl)) = EndLine(m)
        /\ FollowAll(f, line \o nl).cr => nl = <<CR>>
    BY <2>2, <2>6, LineRun
  <2>8. m.line = line /\ m.data = <<>> /\ m.event = "message" /\ m.events = events
    BY DEF Follower
  <2> HIDE DEF m
  <2>9. NextData(m) = <<>> /\ NextEvent(m) = event.event /\ NextEvents(m) = events
    <3>1. NextData(m) = <<>> /\ NextEvents(m) = events
      BY <2>2, <2>8, LineTypes DEF NextData, NextEvents
    <3>2. NextEvent(m) = line[2][1]
      BY <2>2, <2>8 DEF NextEvent
    <3> QED
      BY <2>1, <2>2, <3>1, <3>2
  <2>10. EndLine(m) = Follower(<<>>, <<>>, event.event, events, FALSE)
    BY <2>9 DEF EndLine
  <2> QED
    BY <2>5, <2>7, <2>10
<1> QED
  BY <1>1, <1>2

\* A whole event.
LEMMA EventRun ==
  ASSUME NEW f \in Followers, NEW events \in Seq(Events), NEW event \in PlainEvents,
         stream.newline \in NewLines, Caught(f) = Clean(events), f.cr => stream.newline = <<CR>>
  PROVE  LET h == FollowAll(f, TextOf(event))
         IN  /\ TextOf(event) \in Seq(Tokens) /\ h \in Followers
             /\ Caught(h) = Clean(Append(events, event))
             /\ h.cr => stream.newline = <<CR>>
<1> DEFINE nl == stream.newline
           a == Collect(NameLine(event), Ended(nl))
           b == DataText(event.data, nl)
           z == <<>>
           d == z \o nl
           f1 == FollowAll(f, a)
           f2 == FollowAll(f1, b)
           f3 == FollowAll(f2, d)
           name == event.event
           data == event.data
           c2 == Follower(<<>>, data, name, events, FALSE)
<1>1. TextOf(event) = a \o (b \o d) /\ event \in Events /\ data \in Seq(Seq(PlainTokens))
  BY TextIs DEF PlainEvents
<1>2. /\ a \in Seq(Tokens) /\ f1 \in Followers /\ (f1.cr => nl = <<CR>>)
      /\ Caught(f1) = Follower(<<>>, <<>>, name, events, FALSE)
  BY NameRun
<1>3. data \in Seq(Seq(Tokens)) /\ data # <<>> /\ event = [event |-> name, data |-> data]
  BY <1>1, EventFields
<1> HIDE DEF a, b, f1, nl, data, name
<1>4. Caught(f1).line = <<>> /\ Caught(f1).data = <<>> /\ Caught(f1).event = name /\ Caught(f1).events = events
  BY <1>2 DEF Follower
<1>5. /\ b \in Seq(Tokens) /\ f2 \in Followers /\ (f2.cr => nl = <<CR>>)
      /\ Caught(f2) = c2
  <2>1. <<>> \o data = data
    BY <1>3
  <2>2. nl \in NewLines
    BY DEF nl
  <2>3. /\ b \in Seq(Tokens) /\ f2 \in Followers /\ (f2.cr => nl = <<CR>>)
        /\ Caught(f2) = Follower(<<>>, Caught(f1).data \o data, Caught(f1).event, Caught(f1).events, FALSE)
    BY <1>1, <1>2, <1>4, <2>2, DataRun DEF b, data
  <2> QED
    BY <1>4, <2>1, <2>3
<1>6. Caught(f2).line = <<>> /\ Caught(f2).data = data /\ Caught(f2).event = name /\ Caught(f2).events = events
  BY <1>5 DEF Follower
<1> HIDE DEF f2
<1>7. /\ d \in Seq(Tokens) /\ f3 \in Followers /\ (f3.cr => nl = <<CR>>)
      /\ Caught(f3) = EndLine(c2)
  <2>1. nl \in NewLines /\ z \in Seq(PlainTokens)
    BY DEF nl
  <2> HIDE DEF z
  <2>2. /\ d \in Seq(Tokens) /\ f3 \in Followers /\ (f3.cr => nl = <<CR>>)
        /\ Caught(f3) = EndLine(Follower(z, Caught(f2).data, Caught(f2).event, Caught(f2).events, FALSE))
    BY <1>5, <1>6, <2>1, LineRun
  <2> QED
    BY <1>6, <2>2 DEF z
<1>8. c2.line = <<>> /\ c2.data = data /\ c2.event = name /\ c2.events = events
  BY DEF Follower
<1> HIDE DEF c2, d, f3
<1>9. EndLine(c2) = Clean(Append(events, event))
  <2>1. NextData(c2) = <<>> /\ NextEvent(c2) = "message" /\ NextEvents(c2) = Append(events, event)
    BY <1>3, <1>8 DEF NextData, NextEvent, NextEvents
  <2> QED
    BY <2>1 DEF EndLine, Clean
<1>10. FollowAll(f, a \o (b \o d)) = f3 /\ a \o (b \o d) \in Seq(Tokens)
  <2>1. b \o d \in Seq(Tokens) /\ a \o (b \o d) \in Seq(Tokens)
    BY <1>2, <1>5, <1>7
  <2>2. FollowAll(f, a \o (b \o d)) = FollowAll(f1, b \o d)
    BY <1>2, <2>1, FollowConcat DEF f1
  <2>3. FollowAll(f1, b \o d) = f3
    BY <1>2, <1>5, <1>7, FollowConcat DEF f2, f3
  <2> QED
    BY <2>1, <2>2, <2>3
<1> QED
  BY <1>1, <1>7, <1>9, <1>10 DEF nl

\* The text of an event begins with the name of a field.
Begins(text) == text # <<>> /\ Head(text) # BOM

LEMMA BeginsConcat ==
  ASSUME NEW s \in Seq(Tokens), NEW t \in Seq(Tokens)
  PROVE  /\ Begins(s) => Begins(s \o t)
         /\ s # <<>> => s \o t # <<>> /\ Head(s \o t) = Head(s) /\ Tail(s \o t) = Tail(s) \o t
         /\ <<>> \o t = t
<1>1. ASSUME s # <<>> PROVE s \o t # <<>> /\ Head(s \o t) = Head(s) /\ Tail(s \o t) = Tail(s) \o t
  <2>1. /\ Len(s) \in Nat /\ Len(s) # 0 /\ Len(t) \in Nat /\ Len(s \o t) = Len(s) + Len(t)
        /\ (s \o t)[1] = s[1] /\ s \o t \in Seq(Tokens)
    BY <1>1, EmptySeq
  <2>2. Len(s \o t) # 0
    BY <2>1
  <2>3. s \o t # <<>>
    BY <2>2
  <2>4. Head(s \o t) = Head(s)
    BY <1>1, <2>1, <2>3
  <2>5. Tail(s \o t) = Tail(s) \o t
    <3> DEFINE u == Tail(s \o t)
               v == Tail(s) \o t
               n == Len(s)
               m == Len(t)
    <3>1. n \in Nat /\ n # 0 /\ m \in Nat
      BY <2>1
    <3>2. u \in Seq(Tokens) /\ Len(u) = n + m - 1 /\ \A i \in 1..(n + m - 1) : u[i] = (s \o t)[i + 1]
      BY <2>1, <2>3
    <3>3. Tail(s) \in Seq(Tokens) /\ Len(Tail(s)) = n - 1 /\ \A i \in 1..(n - 1) : Tail(s)[i] = s[i + 1]
      BY <1>1
    <3>4. v \in Seq(Tokens) /\ Len(v) = n + m - 1
      BY <3>1, <3>3
    <3>5. ASSUME NEW i \in 1..(n + m - 1) PROVE u[i] = v[i]
      <4>1. CASE i <= n - 1
        <5>1. i \in 1..(n - 1) /\ i + 1 \in 1..n
          BY <3>1, <4>1
        <5>2. v[i] = Tail(s)[i]
          BY <3>3, <5>1
        <5>3. (s \o t)[i + 1] = s[i + 1]
          BY <5>1
        <5> QED
          BY <3>2, <3>3, <5>1, <5>2, <5>3
      <4>2. CASE ~(i <= n - 1)
        <5>1. i + 1 \in (n + 1)..(n + m) /\ i - (n - 1) = (i + 1) - n /\ (i + 1) - n \in 1..m
          BY <3>1, <4>2
        <5>2. v[i] = t[i - (n - 1)]
          BY <3>1, <3>3, <4>2
        <5>3. (s \o t)[i + 1] = t[(i + 1) - n]
          BY <3>1, <5>1
        <5> QED
          BY <3>2, <5>1, <5>2, <5>3
      <4> QED
        BY <4>1, <4>2
    <3> HIDE DEF u, v, n, m
    <3>6. u = v
      BY <3>2, <3>4, <3>5, SeqEqual
    <3> QED
      BY <3>6 DEF u, v
  <2> QED
    BY <2>3, <2>4, <2>5
<1>2. <<>> \o t = t
  OBVIOUS
<1> QED
  BY <1>1, <1>2 DEF Begins

LEMMA LineBegins ==
  ASSUME NEW nl \in NewLines, NEW rest \in Seq(Tokens)
  PROVE  (<<DataField>> \o rest) \o nl \in Seq(Tokens) /\ Begins((<<DataField>> \o rest) \o nl)
<1>1. DataField \in Tokens /\ DataField # BOM
  <2>1. DataField # BOM
    BY DEF DataField, BOM
  <2> QED
    BY <2>1, TokenTypes
<1>2. nl \in Seq(Tokens)
  BY LineTypes
<1>3. <<DataField>> \in Seq(Tokens) /\ <<DataField>> # <<>> /\ Head(<<DataField>>) = DataField
  BY <1>1
<1> DEFINE s == <<DataField>>
<1>4. s \in Seq(Tokens) /\ Begins(s)
  BY <1>1, <1>3 DEF Begins
<1> HIDE DEF s
<1>5. s \o rest \in Seq(Tokens) /\ Begins(s \o rest)
  BY <1>4, BeginsConcat
<1> DEFINE t == s \o rest
<1> HIDE DEF t
<1>6. t \in Seq(Tokens) /\ Begins(t)
  BY <1>5 DEF t
<1>7. t \o nl \in Seq(Tokens) /\ Begins(t \o nl)
  BY <1>2, <1>6, BeginsConcat
<1> QED
  BY <1>7 DEF s, t

LEMMA TextBegins ==
  ASSUME NEW event \in PlainEvents, stream.newline \in NewLines
  PROVE  TextOf(event) \in Seq(Tokens) /\ Begins(TextOf(event))
<1> DEFINE nl == stream.newline
           a == Collect(NameLine(event), Ended(nl))
           b == DataText(event.data, nl)
           d == <<>> \o nl
<1>1. event \in Events /\ TextOf(event) = a \o (b \o d) /\ TextOf(event) \in Seq(Tokens)
  BY TextIs, TextType DEF PlainEvents
<1>2. d \in Seq(Tokens)
  BY LineTypes
<1>3. b \in Seq(Tokens) /\ Begins(b)
  <2> DEFINE A == Seq(Tokens)
             S == {x \in Seq(A) : x # <<>> => DataText(x, nl) \in Seq(Tokens) /\ Begins(DataText(x, nl))}
  <2>1. <<>> \in S
    OBVIOUS
  <2>2. \A x \in Seq(A), y \in A : x \in S => Append(x, y) \in S
    <3> SUFFICES ASSUME NEW x \in Seq(A), NEW y \in A, x \in S PROVE Append(x, y) \in S
      OBVIOUS
    <3> DEFINE t == DataText(x, nl)
               line == (<<DataField>> \o y) \o nl
    <3>0. Append(x, y) \in Seq(A)
      <4> HIDE DEF A
      <4> QED
        OBVIOUS
    <3>1. DataText(Append(x, y), nl) = t \o line /\ DataText(<<>>, nl) = <<>> /\ t \in Seq(Tokens)
      BY DataTextAppend
    <3>2. line \in Seq(Tokens) /\ Begins(line)
      BY LineBegins
    <3>3. x # <<>> => Begins(t)
      OBVIOUS
    <3> HIDE DEF line, nl
    <3>4. x = <<>> => t = <<>>
      BY <3>1
    <3> HIDE DEF t
    <3>5. t \o line \in Seq(Tokens)
      BY <3>1, <3>2
    <3>6. Begins(t \o line)
      <4>1. CASE x = <<>>
        <5>1. t \o line = line
          BY <3>2, <3>4, <4>1, BeginsConcat
        <5> QED
          BY <3>2, <5>1
      <4>2. CASE x # <<>>
        BY <3>1, <3>2, <3>3, <4>2, BeginsConcat
      <4> QED
        BY <4>1, <4>2
    <3> HIDE DEF A
    <3> QED
      BY <3>0, <3>1, <3>5, <3>6
  <2>3. event.data \in S /\ event.data # <<>>
    <3>1. event.data \in Seq(A) /\ event.data # <<>>
      BY <1>1, EventFields
    <3> HIDE DEF S
    <3>2. Seq(A) \subseteq S
      <4> HIDE DEF A
      <4> QED
        BY <2>1, <2>2, SeqInduction
    <3> QED
      BY <3>1, <3>2
  <2> QED
    BY <2>3
<1>4. b \o d \in Seq(Tokens) /\ Begins(b \o d)
  <2> HIDE DEF b, d
  <2> QED
    BY <1>2, <1>3, BeginsConcat
<1>5. Begins(a \o (b \o d))
  <2> DEFINE t == b \o d
  <2> HIDE DEF t
  <2>1. t \in Seq(Tokens) /\ Begins(t)
    BY <1>4 DEF t
  <2>2. CASE event.event = "message"
    <3>1. a = <<>>
      BY <2>2, CollectEmpty DEF NameLine
    <3>2. a \o t = t
      BY <2>1, <3>1, BeginsConcat
    <3> QED
      BY <2>1, <3>2 DEF t
  <2>3. CASE event.event # "message"
    <3> DEFINE token == <<event.event, 0>>
               line == <<EventField, token>>
    <3>1. token \in Tokens /\ EventField \in Tokens /\ EventField # BOM
      <4>1. EventField # BOM
        BY DEF EventField, BOM
      <4> QED
        BY <1>1, <4>1, EventFields, TokenTypes
    <3>2. line \in Seq(Tokens) /\ Begins(line)
      <4> HIDE DEF token
      <4>1. line \in Seq(Tokens) /\ line # <<>> /\ Head(line) = EventField
        BY <3>1
      <4> QED
        BY <3>1, <4>1 DEF Begins
    <3>3. line \o nl \in Seq(Tokens) /\ Begins(line \o nl)
      <4>1. nl \in Seq(Tokens)
        BY LineTypes
      <4> HIDE DEF line
      <4> QED
        BY <3>2, <4>1, BeginsConcat
    <3>4. NameLine(event) = <<line>>
      BY <2>3 DEF NameLine
    <3> HIDE DEF line
    <3>5. a = line \o nl
      <4> DEFINE e == Ended(nl)
      <4>1. e \in [Seq(Tokens) -> Seq(Tokens)]
        BY LineTypes
      <4> HIDE DEF e
      <4>2. Collect(<<line>>, e) = e[line]
        BY <3>2, <4>1, CollectOne
      <4> QED
        BY <3>2, <3>4, <4>2 DEF e, Ended
    <3> HIDE DEF a
    <3>6. Begins(a \o t)
      BY <2>1, <3>3, <3>5, BeginsConcat
    <3> QED
      BY <3>6 DEF t
  <2> QED
    BY <2>2, <2>3
<1> QED
  BY <1>1, <1>5

\* What comes after the first chunk keeps its byte order mark, if it has one.
LEMMA StripConcat ==
  ASSUME NEW q, NEW s \in Seq(Tokens), NEW t \in Seq(Tokens),
         \/ s # <<>>
         \/ t = <<>>
         \/ Begins(t)
         \/ ~q.fresh
  PROVE  /\ StripBom(q, s \o t) = StripBom(q, s) \o t
         /\ StripBom(q, s) \in Seq(Tokens)
<1>1. StripBom(q, s) \in Seq(Tokens)
  BY DEF StripBom
<1>2. CASE s # <<>>
  <2>1. s \o t # <<>> /\ Head(s \o t) = Head(s) /\ Tail(s \o t) = Tail(s) \o t
    BY <1>2, BeginsConcat
  <2> DEFINE st == s \o t
  <2>2. StripBom(q, st) = IF q.fresh /\ Head(s) = BOM THEN Tail(s) \o t ELSE st
    <3> HIDE DEF st
    <3> QED
      BY <2>1 DEF StripBom, st
  <2>3. StripBom(q, s) = IF q.fresh /\ Head(s) = BOM THEN Tail(s) ELSE s
    BY <1>2 DEF StripBom
  <2> QED
    BY <1>1, <2>2, <2>3
<1>3. CASE s = <<>>
  <2>1. s \o t = t /\ StripBom(q, s) = <<>> /\ <<>> \o t = t
    BY <1>3 DEF StripBom
  <2>2. StripBom(q, t) = t
    BY <1>3 DEF StripBom, Begins
  <2> QED
    BY <1>1, <2>1, <2>2
<1> QED
  BY <1>2, <1>3

\* What a provider writes has no line ends but those of its lines.
LEMMA OpenAiPlain == OpenAiEvents \subseteq PlainEvents
<1> SUFFICES ASSUME NEW event \in OpenAiEvents PROVE event \in PlainEvents
  OBVIOUS
<1>1. event.data \in Seq(Seq(Token \ {CR, LF})) /\ event.event \notin {"\r", "\n"}
  BY StreamsAssumption
<1>2. Token \ {CR, LF} \subseteq PlainTokens
  BY DEF Token, Tokens, Words, PlainTokens
<1>3. event \in Events
  BY OpenAiEventsType
<1>4. Seq(Token \ {CR, LF}) \subseteq Seq(PlainTokens)
  BY <1>2, SeqMonotonic
<1>5. event.data \in Seq(Seq(PlainTokens))
  BY <1>1, <1>4, SeqMonotonic
<1>6. <<event.event, 0>> \in PlainTokens
  <2>1. <<event.event, 0>> \in Tokens
    BY <1>3, EventFields, TokenTypes
  <2>2. <<event.event, 0>> # CR /\ <<event.event, 0>> # LF
    BY <1>1 DEF CR, LF
  <2> QED
    BY <2>1, <2>2 DEF PlainTokens
<1> QED
  BY <1>3, <1>5, <1>6 DEF PlainEvents

LEMMA MessagePlain ==
  ASSUME NEW name \in {"message", "error"}, NEW payload, payload[1] \notin {"\r", "\n"},
         Event(name, payload) \in Events
  PROVE  Event(name, payload) \in PlainEvents
<1> DEFINE event == Event(name, payload)
           data == event.data
<1>1. event.event = name /\ data = << <<payload>> >>
  BY DEF Event
<1>2. payload \in PlainTokens
  <2>1. data \in Seq(Seq(Tokens)) /\ 1 \in 1..Len(data) /\ data[1] = <<payload>>
    <3>1. data \in Seq(Seq(Tokens))
      BY DEF Events
    <3>2. Len(data) = 1 /\ data[1] = <<payload>>
      BY <1>1
    <3> HIDE DEF data
    <3> QED
      BY <3>1, <3>2
  <2>2. <<payload>> \in Seq(Tokens)
    <3> DEFINE T == Seq(Tokens)
    <3>1. data \in Seq(T) /\ 1 \in 1..Len(data)
      BY <2>1
    <3> HIDE DEF data, T
    <3>2. data[1] \in T
      BY <3>1, ElementOfSeq
    <3> QED
      BY <2>1, <3>2 DEF T
  <2>3. payload \in Tokens
    <3> DEFINE s == <<payload>>
    <3>1. Len(s) = 1 /\ s[1] = payload /\ s \in Seq(Tokens)
      BY <2>2
    <3> HIDE DEF s
    <3> QED
      BY <3>1
  <2>4. payload # CR /\ payload # LF
    <3>1. CR[1] = "\r" /\ LF[1] = "\n"
      BY DEF CR, LF
    <3> QED
      BY <3>1
  <2> QED
    BY <2>3, <2>4 DEF PlainTokens
<1>3. data \in Seq(Seq(PlainTokens))
  <2>1. <<payload>> \in Seq(PlainTokens)
    BY <1>2
  <2> DEFINE line == <<payload>>
  <2> HIDE DEF line
  <2>2. <<line>> \in Seq(Seq(PlainTokens))
    BY <2>1 DEF line
  <2> QED
    BY <1>1, <2>2 DEF line
<1>4. <<name, 0>> \in PlainTokens
  <2>1. <<name, 0>> \in Tokens
    BY TokenTypes
  <2>2. <<name, 0>> # CR /\ <<name, 0>> # LF
    BY DEF CR, LF
  <2> QED
    BY <2>1, <2>2 DEF PlainTokens
<1> HIDE DEF event
<1>5. event \in PlainEvents
  BY <1>1, <1>3, <1>4 DEF PlainEvents, event
<1> QED
  BY <1>5 DEF event

LEMMA AnthropicPlain == PublicCallTypeOK => AnthropicEvents \cup {Ending} \subseteq PlainEvents
<1> SUFFICES ASSUME PublicCallTypeOK PROVE AnthropicEvents \cup {Ending} \subseteq PlainEvents
  OBVIOUS
<1> DEFINE Kinds0 == {"error", "garbled", "message_start", "text_start", "tool_start", "text", "args",
                      "message_delta", "message_stop", "[DONE]"}
           IsMessage(event) ==
             \E name \in {"message", "error"}, kind \in Kinds0 :
               \E n : event = Event(name, <<kind, n>>)
<1>1. ASSUME NEW event \in AnthropicEvents PROVE IsMessage(event)
  <2> DEFINE next == Cardinality({i \in DOMAIN written : KindOf(written[i]) \in {"text_start", "tool_start"}})
  <2> HIDE DEF next
  <2>1. \/ event = Event("error", <<"error", 0>>)
        \/ event = Event("message", Garbled)
        \/ event = Event("message", <<"message_start", 1>>)
        \/ event = Event("message", <<"text_start", next>>)
        \/ event = Event("message", <<"tool_start", next>>)
        \/ event = Event("message", <<"text", next - 1>>)
        \/ event = Event("message", <<"args", next - 1>>)
        \/ \E n \in 1..2 : event = Event("message", <<"message_delta", n>>)
    BY DEF AnthropicEvents, next
  <2> QED
    BY <2>1 DEF Garbled
<1>2. IsMessage(Ending)
  BY DEF Ending, Done
<1>3. ASSUME NEW event \in Events, IsMessage(event) PROVE event \in PlainEvents
  <2>1. PICK name \in {"message", "error"}, kind \in Kinds0 :
               \E n : event = Event(name, <<kind, n>>)
    BY <1>3
  <2> PICK n : event = Event(name, <<kind, n>>)
    BY <2>1
  <2> DEFINE payload == <<kind, n>>
  <2>2. payload[1] \notin {"\r", "\n"}
    OBVIOUS
  <2> HIDE DEF payload
  <2>3. Event(name, payload) \in PlainEvents
    BY <1>3, <2>2, MessagePlain DEF payload
  <2> QED
    BY <2>3 DEF payload
<1> HIDE DEF IsMessage
<1> QED
  BY <1>1, <1>2, <1>3, AnthropicEventsType

-----------------------------------------------------------------------------
(* The parser and the provider *)

(***************************************************************************)
(* A follower that has read all that the parser has read will have seen,   *)
(* at the end of what is still unread, all that was written.  The parser   *)
(* that gave up tells the endpoint at once.                                *)
(***************************************************************************)
Follows(f) ==
  LET h == FollowAll(f, StripBom(parser, stream.text))
  IN  /\ Holds(parser, f)
      /\ f.events = parsed
      /\ Caught(h).events = written
      /\ stream.state = "open" => Caught(h) = Clean(written) /\ (h.cr => stream.newline = <<CR>>)

Hopeless == queue # <<>> /\ queue[Len(queue)].kind = "failure"

ParseInv ==
  /\ IsPrefix(parsed, written)
  /\ stream.state = "read" /\ ~parser.broken => parsed = written
  /\ stream.state \in {"broken", "read", "lost"} => stream.text = <<>>
  /\ parser.broken /\ pump.state = "reading" => Hopeless
  /\ stream.state \in {"open", "ended"} /\ ~parser.broken => \E f \in Followers : Follows(f)

LEMMA SeenPrefix ==
  ASSUME NEW f \in Followers, NEW text \in Seq(Tokens)
  PROVE  IsPrefix(f.events, Caught(FollowAll(f, text)).events)
<1> DEFINE h == FollowAll(f, text)
<1>1. h \in Followers /\ Extends(f.events, h.events)
  BY FollowAllType, FollowExtends
<1> HIDE DEF h
<1>2. Extends(h.events, Caught(h).events)
  BY <1>1, EndLineExtends
<1>3. f.events \in Seq(Events) /\ h.events \in Seq(Events) /\ Caught(h).events \in Seq(Events)
  BY <1>1, EndLineType, FollowerFields
<1>4. Extends(f.events, Caught(h).events)
  BY <1>1, <1>2, <1>3, ExtendsAgain
<1>5. IsPrefix(f.events, Caught(h).events)
  BY <1>3, <1>4, ExtendsPrefix
<1> QED
  BY <1>5 DEF h

\* Before anything was read, whether or not a byte order mark is to come.
LEMMA FreshFollower ==
  ASSUME NEW start \in {<<>>, <<BOM>>}
  PROVE  LET f == Clean(<<>>)
         IN  /\ f \in Followers /\ f.events = <<>> /\ f.cr = FALSE
             /\ Holds(NewParser, f)
             /\ FollowAll(f, StripBom(NewParser, start)) = f /\ Caught(f) = f
             /\ IsPrefix(<<>>, <<>>)
<1> DEFINE f == Clean(<<>>)
           text == StripBom(NewParser, start)
<1>1. f \in Followers /\ f.line = <<>> /\ f.data = <<>> /\ f.event = "message" /\ f.events = <<>> /\ f.cr = FALSE
  <2>1. <<>> \in Seq(PlainTokens) /\ <<>> \in Seq(Seq(Tokens)) /\ <<>> \in Seq(Events) /\ "message" \in Words
        /\ FALSE \in BOOLEAN
    BY TokenTypes
  <2> QED
    BY <2>1 DEF Clean, Follower, Followers
<1>2. text = <<>>
  <2>1. NewParser.fresh
    BY DEF NewParser
  <2>2. CASE start = <<>>
    BY <2>2 DEF StripBom
  <2>3. CASE start = <<BOM>>
    <3>1. <<BOM>> # <<>> /\ Head(<<BOM>>) = BOM /\ Tail(<<BOM>>) = <<>>
      OBVIOUS
    <3> QED
      BY <2>1, <2>3, <3>1 DEF StripBom
  <2> QED
    BY <2>2, <2>3
<1> HIDE DEF f, text
<1>3. FollowAll(f, text) = f /\ Caught(f) = f
  BY <1>1, <1>2, FollowNothing DEF Caught
<1>4. NewParser.buffer = <<>> /\ NewParser.data = <<>> /\ NewParser.event = "message"
  BY DEF NewParser
<1>5. Holds(NewParser, f)
  <2>1. Waits(f) = <<>>
    BY <1>1 DEF Waits
  <2>2. <<>> \o <<>> = <<>>
    OBVIOUS
  <2> QED
    BY <1>1, <1>4, <2>1, <2>2 DEF Holds
<1>6. IsPrefix(<<>>, <<>>)
  <2>1. <<>> \in Seq(Tokens)
    OBVIOUS
  <2>2. IsPrefix(f.events, Caught(FollowAll(f, text)).events)
    BY <1>1, <1>2, <2>1, SeenPrefix
  <2> QED
    BY <1>1, <1>3, <2>2
<1> QED
  BY <1>1, <1>3, <1>5, <1>6 DEF f, text

LEMMA ParseInit == PublicCallInit => ParseInv
<1> SUFFICES ASSUME PublicCallInit PROVE ParseInv
  OBVIOUS
<1> DEFINE f == Clean(<<>>)
<1>1. stream.text = <<>> /\ stream.state = "open" /\ written = <<>> /\ parsed = <<>> /\ parser = NewParser
      /\ ~parser.broken
  BY DEF PublicCallInit, NewStream, NewParser
<1>2. /\ f \in Followers /\ f.events = <<>> /\ f.cr = FALSE /\ Holds(NewParser, f)
      /\ FollowAll(f, StripBom(NewParser, <<>>)) = f /\ Caught(f) = f
      /\ IsPrefix(<<>>, <<>>)
  BY FreshFollower
<1>3. f = Clean(written)
  BY <1>1
<1> HIDE DEF f
<1>4. Follows(f)
  BY <1>1, <1>2, <1>3 DEF Follows
<1> QED
  BY <1>1, <1>2, <1>4 DEF ParseInv

\* The provider begins.
LEMMA ParseOpen ==
  ASSUME ControlInv, PublicCallTypeOK, NEW beginning \in Beginnings, OpenStream(beginning[1], beginning[2])
  PROVE  ParseInv'
<1> DEFINE f == Clean(<<>>)
           start == beginning[2]
<1>1. start \in {<<>>, <<BOM>>}
  BY StreamsAssumption
<1>2. Pristine /\ stream' = [stream EXCEPT !.newline = beginning[1], !.text = start]
      /\ UNCHANGED <<written, parser, parsed>>
  BY DEF OpenStream, ControlInv
<1> HIDE DEF start
<1>3. stream'.text = start /\ stream'.state = "open" /\ written' = <<>> /\ parsed' = <<>>
      /\ parser' = NewParser /\ ~NewParser.broken
  BY <1>2 DEF Pristine, NewStream, NewParser
<1>4. /\ f \in Followers /\ f.events = <<>> /\ f.cr = FALSE /\ Holds(NewParser, f)
      /\ FollowAll(f, StripBom(NewParser, start)) = f /\ Caught(f) = f
      /\ IsPrefix(<<>>, <<>>)
  BY <1>1, FreshFollower
<1>5. f = Clean(written')
  BY <1>3
<1> HIDE DEF f
<1>6. Holds(parser, f)'
  BY <1>3, <1>4 DEF Holds
<1>7. Follows(f)'
  BY <1>3, <1>4, <1>5, <1>6 DEF Follows
<1> QED
  BY <1>3, <1>4, <1>7 DEF ParseInv

\* What leaves the parser, its stream and the last of the queue alone.
LEMMA ParseKept ==
  ASSUME ParseInv, UNCHANGED <<stream, written, parser, parsed>>,
         pump'.state = "reading" => pump.state = "reading" /\ (Hopeless => Hopeless')
  PROVE  ParseInv'
<1>1. ASSUME NEW f \in Followers, Follows(f) PROVE Follows(f)'
  BY <1>1 DEF Follows
<1> QED
  BY <1>1 DEF ParseInv

\* The provider writes an event.
LEMMA ParseWrite ==
  ASSUME PublicCallTypeOK, PublicCallTypeOK', ParseInv, NEW event \in PlainEvents, Write(event)
  PROVE  ParseInv'
<1> DEFINE text == stream.text
           more == TextOf(event)
           seen == StripBom(parser, text)
<1>1. /\ stream.state = "open" /\ queue = <<>> /\ pump.state = "reading"
      /\ written' = Append(written, event)
      /\ stream' = [stream EXCEPT !.text = @ \o TextOf(event)]
      /\ UNCHANGED <<parser, parsed, queue, pump>>
  BY DEF Write, Waiting
<1>2. text \in Seq(Tokens) /\ stream.newline \in NewLines /\ written \in Seq(Events) /\ written' \in Seq(Events)
  BY DEF PublicCallTypeOK
<1>3. stream'.text = text \o more /\ stream'.newline = stream.newline /\ stream'.state = "open"
  BY <1>1 DEF PublicCallTypeOK
<1>4. ~parser.broken
  BY <1>1 DEF ParseInv, Hopeless
<1>5. PICK f \in Followers : Follows(f)
  BY <1>1, <1>4 DEF ParseInv
<1>6. more \in Seq(Tokens) /\ Begins(more)
  BY <1>2, TextBegins
<1>7. StripBom(parser, text \o more) = seen \o more /\ seen \in Seq(Tokens)
  <2> HIDE DEF more, text
  <2> QED
    BY <1>2, <1>6, StripConcat DEF seen
<1> DEFINE h == FollowAll(f, seen)
           k == FollowAll(h, more)
<1>8. /\ Holds(parser, f) /\ f.events = parsed
      /\ Caught(h) = Clean(written) /\ (h.cr => stream.newline = <<CR>>)
  BY <1>1, <1>5 DEF Follows
<1> HIDE DEF seen, text
<1>9. h \in Followers
  BY <1>7, FollowAllType
<1> HIDE DEF h
<1>10. Caught(k) = Clean(Append(written, event)) /\ (k.cr => stream.newline = <<CR>>)
  BY <1>2, <1>8, <1>9, EventRun
<1> HIDE DEF more
<1>11. FollowAll(f, seen \o more) = k
  BY <1>6, <1>7, FollowConcat DEF h
<1> HIDE DEF k
<1>12. Follows(f)'
  <2>1. Holds(parser, f)' /\ parsed' = parsed /\ StripBom(parser', stream'.text) = seen \o more
    BY <1>1, <1>3, <1>7, <1>8 DEF Holds
  <2>2. Clean(written').events = written'
    BY DEF Clean, Follower
  <2> QED
    BY <1>1, <1>3, <1>8, <1>10, <1>11, <2>1, <2>2 DEF Follows
<1>13. IsPrefix(parsed, written)'
  <2>1. IsPrefix(f.events, Caught(FollowAll(f, seen \o more)).events)
    <3> DEFINE all == seen \o more
    <3>1. all \in Seq(Tokens)
      BY <1>6, <1>7
    <3> HIDE DEF all
    <3> QED
      BY <3>1, SeenPrefix DEF all
  <2>2. Caught(k).events = written'
    BY <1>1, <1>10 DEF Clean, Follower
  <2> QED
    BY <1>1, <1>8, <1>11, <2>1, <2>2
<1> QED
  BY <1>1, <1>3, <1>4, <1>12, <1>13 DEF ParseInv

\* The stream ends, perhaps within an event.
LEMMA ParseEnd ==
  ASSUME PublicCallTypeOK, PublicCallTypeOK', ParseInv,
         NEW partial \in {<<>>, <<DataField, Done>> \o stream.newline}, EndStream(partial)
  PROVE  ParseInv'
<1> DEFINE text == stream.text
           seen == StripBom(parser, text)
           line == <<DataField, Done>>
           nl == stream.newline
<1>1. /\ stream.state = "open" /\ queue = <<>> /\ pump.state = "reading"
      /\ stream' = [stream EXCEPT !.text = @ \o partial, !.state = "ended"]
      /\ UNCHANGED <<written, parser, parsed, queue, pump>>
  BY DEF EndStream, Waiting
<1>2. text \in Seq(Tokens) /\ nl \in NewLines /\ written \in Seq(Events)
  BY DEF PublicCallTypeOK
<1>3. stream'.text = text \o partial /\ stream'.state = "ended"
  BY <1>1 DEF PublicCallTypeOK
<1>4. ~parser.broken
  BY <1>1 DEF ParseInv, Hopeless
<1>5. PICK f \in Followers : Follows(f)
  BY <1>1, <1>4 DEF ParseInv
<1>6. line \in Seq(PlainTokens) /\ line \in Seq(Tokens) /\ line # <<>> /\ Head(line) = DataField /\ Begins(line)
  <2>1. Done \in PlainTokens /\ DataField \in PlainTokens /\ DataField # BOM
    <3>1. Done # CR /\ Done # LF /\ DataField # BOM
      BY DEF Done, CR, LF, DataField, BOM
    <3> QED
      BY <3>1, TokenTypes, LineTypes DEF PlainTokens, NewLines
  <2>2. Seq(PlainTokens) \subseteq Seq(Tokens)
    <3>1. PlainTokens \subseteq Tokens
      BY DEF PlainTokens
    <3> QED
      BY <3>1, SeqMonotonic
  <2>3. line \in Seq(PlainTokens) /\ line # <<>> /\ Head(line) = DataField
    BY <2>1
  <2> HIDE DEF line
  <2> QED
    BY <2>1, <2>2, <2>3 DEF Begins
<1>7. /\ partial \in Seq(Tokens) /\ (partial = <<>> \/ Begins(partial))
  <2>1. nl \in Seq(Tokens)
    BY <1>2, LineTypes
  <2> HIDE DEF line, nl
  <2>2. line \o nl \in Seq(Tokens) /\ Begins(line \o nl)
    BY <1>6, <2>1, BeginsConcat
  <2>3. <<>> \in Seq(Tokens)
    OBVIOUS
  <2> QED
    BY <2>2, <2>3 DEF line, nl
<1>8. StripBom(parser, text \o partial) = seen \o partial /\ seen \in Seq(Tokens)
  <2> HIDE DEF text
  <2> QED
    BY <1>2, <1>7, StripConcat DEF seen
<1> DEFINE h == FollowAll(f, seen)
           k == FollowAll(h, partial)
<1>9. /\ Holds(parser, f) /\ f.events = parsed
      /\ Caught(h) = Clean(written) /\ (h.cr => nl = <<CR>>)
  BY <1>1, <1>5 DEF Follows
<1> HIDE DEF seen, text
<1>10. h \in Followers
  BY <1>8, FollowAllType
<1> HIDE DEF h
<1>11. Caught(k).events = written
  <2>1. Caught(h).line = <<>> /\ Caught(h).data = <<>> /\ Caught(h).event = "message" /\ Caught(h).events = written
    BY <1>9 DEF Clean, Follower
  <2>2. CASE partial = <<>>
    <3>1. k = h
      BY <1>10, <2>2, FollowNothing
    <3> QED
      BY <2>1, <3>1
  <2>3. CASE partial = line \o nl
    <3> DEFINE m == Follower(line, <<>>, "message", written, FALSE)
    <3>1. Caught(FollowAll(h, line \o nl)) = EndLine(m)
      <4> HIDE DEF line, nl, m
      <4> QED
        BY <1>2, <1>6, <1>9, <1>10, <2>1, LineRun DEF m
    <3>2. m.line = line /\ m.events = written
      BY DEF Follower
    <3>3. EndLine(m).events = NextEvents(m)
      BY DEF EndLine, Follower
    <3> HIDE DEF m, line
    <3>4. NextEvents(m) = written
      BY <1>6, <3>2 DEF NextEvents
    <3> QED
      BY <2>3, <3>1, <3>3, <3>4
  <2> QED
    BY <2>2, <2>3
<1>12. FollowAll(f, seen \o partial) = k
  BY <1>7, <1>8, FollowConcat DEF h
<1> HIDE DEF k
<1>13. Follows(f)'
  <2>1. Holds(parser, f)' /\ parsed' = parsed /\ StripBom(parser', stream'.text) = seen \o partial
    BY <1>1, <1>3, <1>8, <1>9 DEF Holds
  <2> QED
    BY <1>1, <1>3, <1>9, <1>11, <1>12, <2>1 DEF Follows
<1>14. IsPrefix(parsed, written)'
  BY <1>1 DEF ParseInv
<1> QED
  BY <1>1, <1>3, <1>4, <1>13, <1>14 DEF ParseInv

\* A parser that gives up ends what the endpoint has to read.
LEMMA GivesUp ==
  ASSUME PublicCallTypeOK, NEW chunk \in Seq(Tokens), NEW final \in BOOLEAN, NEW rest,
         Hear(chunk, final, rest), Feed(parser, chunk, final).parser.broken
  PROVE  Hopeless' /\ parsed' = parsed
<1> DEFINE fed == Feed(parser, chunk, final)
           heard == AdaptAll(adapter, fed.events)
           next == [heard EXCEPT !.state = "failed"]
           failure == Reading("failure")
<1>1. parser \in Parsers /\ adapter \in Adapters /\ parsed \in Seq(Events)
  BY DEF PublicCallTypeOK
<1>2. fed.events = <<>> /\ fed.events \in Seq(Events)
  BY <1>1, FeedType
<1>3. heard \in Adapters
  BY <1>1, <1>2, AdaptAllType
<1>4. failure \in Readings /\ failure.kind = "failure"
  BY FrameTypes DEF Reading, Frame
<1>5. /\ parsed' = parsed \o fed.events
      /\ IF Anthropic THEN queue' \in Handed(next)
         ELSE queue' = [i \in DOMAIN fed.events |-> ReadEvent(fed.events[i])] \o <<failure>>
  BY DEF Hear
<1> HIDE DEF fed, heard, failure
<1>6. parsed' = parsed
  BY <1>1, <1>2, <1>5
<1>7. next.state = "failed" /\ next.out \in Seq(Readings)
  BY <1>3 DEF Adapters
<1> HIDE DEF next
<1>8. \E s \in Seq(Readings) : queue' = s \o <<failure>>
  <2>1. CASE Anthropic
    <3>1. Handed(next) = {SubSeq(next.out, 1, n) \o <<failure>> : n \in 0..Len(next.out)}
      BY <1>7 DEF Handed, failure
    <3>2. \A n \in 0..Len(next.out) : SubSeq(next.out, 1, n) \in Seq(Readings)
      BY <1>7
    <3> QED
      BY <1>5, <2>1, <3>1, <3>2
  <2>2. CASE ~Anthropic
    <3>1. [i \in DOMAIN fed.events |-> ReadEvent(fed.events[i])] = <<>>
      BY <1>2
    <3> QED
      BY <1>5, <2>2, <3>1, EmptyTypes
  <2> QED
    BY <2>1, <2>2
<1>9. Hopeless'
  <2>1. PICK s \in Seq(Readings) : queue' = s \o <<failure>>
    BY <1>8
  <2>2. <<failure>> \in Seq(Readings)
    BY <1>4
  <2>3. Len(queue') = Len(s) + 1 /\ queue'[Len(s) + 1] = failure /\ queue' # <<>>
    BY <1>4, <2>1, <2>2
  <2> QED
    BY <1>4, <2>3 DEF Hopeless
<1> QED
  BY <1>6, <1>9

\* A chunk that is not the last one.
LEMMA ParseRead ==
  ASSUME PublicCallTypeOK, ParseInv, MayRead, NEW chunk \in Seq(Tokens), NEW more \in Seq(Tokens), NEW rest,
         chunk # <<>>, stream.text = chunk \o more, Hear(chunk, FALSE, rest),
         rest.text = more, rest.state = stream.state, rest.newline = stream.newline
  PROVE  ParseInv'
<1> DEFINE fed == Feed(parser, chunk, FALSE)
           text == stream.text
           head == StripBom(parser, chunk)
<1>1. /\ queue = <<>> /\ pump.state = "reading" /\ pump' = pump
      /\ parser' = fed.parser /\ parsed' = parsed \o fed.events
      /\ stream' = rest /\ written' = written
  BY DEF Hear, MayRead, Waiting
<1>2. parser \in Parsers /\ stream.state \in {"open", "ended", "broken", "read", "lost"}
  BY DEF PublicCallTypeOK
<1>3. text # <<>>
  BY BeginsConcat
<1>4. stream.state \in {"open", "ended"} /\ ~parser.broken
  BY <1>1, <1>2, <1>3 DEF ParseInv, Hopeless
<1>5. PICK f \in Followers : Follows(f)
  BY <1>4 DEF ParseInv
<1>6. CASE fed.parser.broken
  <2>1. Hopeless' /\ parsed' = parsed
    BY <1>6, GivesUp
  <2> QED
    BY <1>1, <1>4, <1>6, <2>1 DEF ParseInv
<1>7. CASE ~fed.parser.broken
  <2> DEFINE k == FollowAll(f, StripBom(parser, text))
  <2>1. /\ Holds(parser, f) /\ f.events = parsed
        /\ Caught(k).events = written
        /\ stream.state = "open" => Caught(k) = Clean(written) /\ (k.cr => stream.newline = <<CR>>)
    BY <1>5 DEF Follows
  <2>2. StripBom(parser, text) = head \o more /\ head \in Seq(Tokens)
    <3> HIDE DEF head
    <3> QED
      BY StripConcat DEF head
  <2>3. PICK h \in Followers : h = FollowAll(f, head)
    <3> HIDE DEF head
    <3> QED
      BY <2>2, FollowAllType
  <2>4. /\ FollowAll(f, head).events = f.events \o fed.events
        /\ Holds(fed.parser, FollowAll(f, head))
        /\ fed.parser.fresh = (parser.fresh /\ chunk = <<>>)
    BY <1>2, <1>7, <2>1, FeedFollows
  <2> HIDE DEF head, text, fed
  <2>5. FollowAll(f, head \o more) = FollowAll(h, more)
    BY <2>2, <2>3, FollowConcat
  <2>6. StripBom(parser', more) = more
    BY <1>1, <2>4 DEF StripBom
  <2>7. Holds(parser, h)' /\ h.events = parsed'
    BY <1>1, <2>1, <2>3, <2>4 DEF Holds
  <2>8. k = FollowAll(h, StripBom(parser', stream'.text))
    BY <1>1, <2>2, <2>5, <2>6
  <2> HIDE DEF k
  <2>9. Follows(h)'
    BY <1>1, <2>1, <2>7, <2>8 DEF Follows
  <2>10. IsPrefix(h.events, Caught(k).events)
    BY <1>1, <2>6, <2>8, SeenPrefix
  <2> QED
    BY <1>1, <1>4, <1>7, <2>1, <2>7, <2>10, <2>9 DEF ParseInv, fed
<1> QED
  BY <1>6, <1>7

\* The end of the stream.
LEMMA ParseReadEnd ==
  ASSUME PublicCallTypeOK, ParseInv, ReadEnd
  PROVE  ParseInv'
<1> DEFINE chunk == <<>>
           fed == Feed(parser, chunk, TRUE)
           rest == [stream EXCEPT !.state = "read"]
<1>1. /\ queue = <<>> /\ pump.state = "reading" /\ pump' = pump
      /\ stream.text = <<>> /\ stream.state = "ended"
      /\ parser' = fed.parser /\ parsed' = parsed \o fed.events
      /\ stream' = rest /\ written' = written /\ Hear(chunk, TRUE, rest)
  BY DEF ReadEnd, Hear, MayRead, Waiting
<1>2. parser \in Parsers /\ rest.text = <<>> /\ rest.state = "read" /\ chunk \in Seq(Tokens)
      /\ parsed \in Seq(Events) /\ written \in Seq(Events)
  BY <1>1 DEF PublicCallTypeOK
<1>3. ~parser.broken
  BY <1>1 DEF ParseInv, Hopeless
<1>4. PICK f \in Followers : Follows(f)
  BY <1>1, <1>3 DEF ParseInv
<1> HIDE DEF chunk, rest
<1>5. CASE fed.parser.broken
  <2>1. Hopeless' /\ parsed' = parsed
    BY <1>1, <1>2, <1>5, GivesUp
  <2> QED
    BY <1>1, <1>2, <1>5, <2>1 DEF ParseInv
<1>6. CASE ~fed.parser.broken
  <2>1. StripBom(parser, chunk) = <<>> /\ FollowAll(f, <<>>) = f
    BY FollowNothing DEF StripBom, chunk
  <2>2. Holds(parser, f) /\ f.events = parsed /\ Caught(f).events = written
    BY <1>1, <1>4, <2>1 DEF Follows, chunk
  <2>3. Caught(f).events = parsed'
    <3>1. Caught(FollowAll(f, StripBom(parser, chunk))).events = f.events \o fed.events
      BY <1>2, <1>6, <2>2, FeedFollows
    <3> HIDE DEF fed
    <3> QED
      BY <1>1, <2>1, <2>2, <3>1
  <2>4. IsPrefix(written, written)
    <3> DEFINE e == Caught(f)
               none == <<>>
    <3>1. e \in Followers /\ e.cr = FALSE /\ none \in Seq(Tokens)
      BY EndLineType, EmptyTypes
    <3> HIDE DEF e
    <3>2. FollowAll(e, <<>>) = e /\ Caught(e) = e
      BY <3>1, FollowNothing DEF Caught
    <3>3. IsPrefix(e.events, Caught(FollowAll(e, none)).events)
      BY <3>1, SeenPrefix
    <3> QED
      BY <2>2, <3>2, <3>3 DEF e
  <2> QED
    BY <1>1, <1>2, <1>6, <2>2, <2>3, <2>4 DEF ParseInv
<1> QED
  BY <1>5, <1>6

\* The endpoint reads a chunk from the queue.
LEMMA StillHopeless ==
  ASSUME PublicCallTypeOK, PumpChunk, Hopeless
  PROVE  Hopeless'
<1>1. queue \in Seq(Readings) /\ queue # <<>> /\ Head(queue).kind = "chunk" /\ queue' = Tail(queue)
      /\ queue[Len(queue)].kind = "failure"
  BY DEF PumpChunk, Hopeless, PublicCallTypeOK
<1>2. Len(queue) \in Nat /\ Len(queue) # 0 /\ Head(queue) = queue[1]
  BY <1>1, EmptySeq
<1>3. Len(queue) # 1
  BY <1>1, <1>2
<1>4. Len(Tail(queue)) = Len(queue) - 1 /\ Tail(queue)[Len(queue) - 1] = queue[Len(queue)]
  BY <1>1, <1>2, <1>3
<1>5. Tail(queue) # <<>>
  BY <1>2, <1>3, <1>4
<1> QED
  BY <1>1, <1>4, <1>5 DEF Hopeless

LEMMA ParseStep ==
  ASSUME PublicCallTypeOK, PublicCallTypeOK', ControlInv, ParseInv, [PublicCallNext]_vars
  PROVE  ParseInv'
<1>0. /\ stream \in [text : Seq(Tokens), newline : NewLines, state : {"open", "ended", "broken", "read", "lost"},
                     splits : Nat]
      /\ queue \in Seq(Readings)
      /\ pump \in [state : {"reading", "finalizing", "closing", "failing", "over"}, received : Usages,
                   pieces : Nat, terminal : {"none", "finalize", "fail"}, cancelled : BOOLEAN]
  BY DEF PublicCallTypeOK, PumpType
\* Up to the answer, and after the stream.
<1>1. ASSUME UNCHANGED <<stream, written, parser, parsed, queue>>,
             pump'.state = "reading" => pump.state = "reading"
      PROVE  ParseInv'
  BY <1>1, ParseKept DEF Hopeless
<1>2. CASE Start
  BY <1>1, <1>2 DEF Start, streamVars
<1>3. CASE \E body \in Bodies : Receive(body)
  BY <1>1, <1>3 DEF Receive, streamVars
<1>4. CASE stage = "reserved" /\ \E route \in CandidateRoutes(CallModel) : Send(route)
  BY <1>1, <1>4 DEF Send, streamVars
<1>5. CASE \E answer \in Answers : AnswerBody(answer)
  BY <1>1, <1>5 DEF AnswerBody, streamVars
<1>6. CASE \E beginning \in Beginnings : OpenStream(beginning[1], beginning[2])
  BY <1>6, ParseOpen
<1>7. CASE /\ stage = "streaming"
           /\ \E event \in (IF Anthropic THEN AnthropicEvents ELSE OpenAiEvents) \cup {Ending} : Write(event)
  <2>1. PICK event \in (IF Anthropic THEN AnthropicEvents ELSE OpenAiEvents) \cup {Ending} : Write(event)
    BY <1>7
  <2>2. event \in PlainEvents
    BY OpenAiPlain, AnthropicPlain
  <2> QED
    BY <2>1, <2>2, ParseWrite
<1>8. CASE \E partial \in {<<>>, <<DataField, Done>> \o stream.newline} : EndStream(partial)
  BY <1>8, ParseEnd
<1>9. CASE BreakStream
  <2>1. /\ queue = <<>> /\ pump.state = "reading"
        /\ UNCHANGED <<written, parser, parsed, queue, pump>>
        /\ stream' = [stream EXCEPT !.text = <<>>, !.state = "broken"]
    BY <1>9 DEF BreakStream, Waiting
  <2>2. stream'.text = <<>> /\ stream'.state = "broken"
    BY <1>0, <2>1
  <2>3. ~parser.broken
    BY <2>1 DEF ParseInv, Hopeless
  <2> QED
    BY <2>1, <2>2, <2>3 DEF ParseInv
<1>10. CASE ReadChunk
  <2> DEFINE text == stream.text
             none == <<>>
             rest == [stream EXCEPT !.text = <<>>]
  <2>1. MayRead /\ text # <<>> /\ Hear(text, FALSE, rest)
    BY <1>10 DEF ReadChunk
  <2>2. rest.text = none /\ rest.state = stream.state /\ rest.newline = stream.newline
    BY <1>0
  <2>3. text \in Seq(Tokens) /\ none \in Seq(Tokens) /\ text = text \o none
    BY <1>0
  <2> HIDE DEF rest, none
  <2> QED
    BY <2>1, <2>2, <2>3, ParseRead
<1>11. CASE \E n \in 1..Len(stream.text) : ReadPart(n)
  <2> DEFINE text == stream.text
  <2>1. PICK n \in 1..Len(text) : ReadPart(n)
    BY <1>11
  <2> DEFINE chunk == SubSeq(text, 1, n)
             more == SubSeq(text, n + 1, Len(text))
             rest == [stream EXCEPT !.text = SubSeq(@, n + 1, Len(@)), !.splits = @ + 1]
  <2>2. MayRead /\ Hear(chunk, FALSE, rest)
    BY <2>1 DEF ReadPart
  <2>3. rest.text = more /\ rest.state = stream.state /\ rest.newline = stream.newline
    BY <1>0
  <2>4. text \in Seq(Tokens)
    BY <1>0
  <2> HIDE DEF text
  <2>5. chunk \in Seq(Tokens) /\ more \in Seq(Tokens) /\ chunk # <<>> /\ text = chunk \o more
    <3>1. chunk \in Seq(Tokens) /\ more \in Seq(Tokens) /\ Len(chunk) = n /\ n # 0
      BY <2>4
    <3>2. chunk # <<>>
      BY <3>1
    <3>3. text = chunk \o more
      BY <2>4
    <3> QED
      BY <3>1, <3>2, <3>3
  <2> HIDE DEF chunk, more, rest
  <2> QED
    BY <2>2, <2>3, <2>5, ParseRead DEF text
<1>12. CASE ReadEnd
  BY <1>12, ParseReadEnd
<1>13. CASE ReadError
  <2> DEFINE failure == Reading("failure")
  <2>1. /\ stream.state = "broken" /\ UNCHANGED <<written, parser, parsed, pump>>
        /\ stream' = [stream EXCEPT !.state = "lost"] /\ queue' = <<failure>>
    BY <1>13 DEF ReadError
  <2>2. stream'.text = stream.text /\ stream'.state = "lost"
    BY <1>0, <2>1
  <2>3. failure.kind = "failure"
    BY DEF Reading, Frame
  <2> HIDE DEF failure
  <2>4. Hopeless'
    BY <2>1, <2>3 DEF Hopeless
  <2> QED
    BY <2>1, <2>2, <2>4 DEF ParseInv
<1>14. CASE PumpChunk
  <2>1. UNCHANGED <<stream, written, parser, parsed>> /\ pump.state = "reading"
    BY <1>14 DEF PumpChunk
  <2> QED
    BY <1>14, <2>1, ParseKept, StillHopeless
<1>15. CASE PumpEnd
  <2>1. pump'.state # "reading" /\ UNCHANGED <<stream, written, parser, parsed>>
    BY <1>0, <1>15 DEF PumpEnd
  <2> QED
    BY <2>1, ParseKept
<1>16. CASE Cancel
  <2>1. pump'.state = pump.state /\ UNCHANGED <<stream, written, parser, parsed, queue>>
    BY <1>0, <1>16 DEF Cancel
  <2> QED
    BY <1>1, <2>1
<1>17. CASE Settle
  BY <1>1, <1>17 DEF Settle
<1>18. CASE Finalized
  <2>1. pump'.state # "reading" /\ UNCHANGED <<stream, written, parser, parsed, queue>>
    BY <1>0, <1>18 DEF Finalized, Over
  <2> QED
    BY <1>1, <2>1
<1>19. CASE Closed \/ Failed
  <2>1. pump'.state # "reading" /\ UNCHANGED <<stream, written, parser, parsed, queue>>
    BY <1>0, <1>19 DEF Closed, Failed, Over
  <2> QED
    BY <1>1, <2>1
<1>20. CASE UNCHANGED vars
  BY <1>1, <1>20 DEF vars
<1> QED
  BY <1>2, <1>3, <1>4, <1>5, <1>6, <1>7, <1>8, <1>9, <1>10, <1>11, <1>12, <1>13, <1>14, <1>15, <1>16, <1>17,
     <1>18, <1>19, <1>20 DEF PublicCallNext

(***************************************************************************)
(* The events the parser returns are those the provider wrote to their     *)
(* end, one for one, wherever the chunks begin and end and whichever line  *)
(* ends the provider uses (sse.ts:33, 48-55, 118-123).                     *)
(***************************************************************************)
THEOREM ParsingIsFaithful == PublicCallSpec => []ParsedAsWritten
<1>1. PublicCallInit => CallInv /\ ParseInv
  BY CallInvInit, ParseInit
<1>2. CallInv /\ ParseInv /\ [PublicCallNext]_vars => (CallInv /\ ParseInv)'
  BY CallInvStep, ParseStep DEF CallInv
<1>3. ParseInv => ParsedAsWritten
  BY DEF ParseInv, ParsedAsWritten
<1> QED
  BY <1>1, <1>2, <1>3, PTL DEF PublicCallSpec

-----------------------------------------------------------------------------
(* Tool calls in the chunks of a stream *)

\* The tool calls of what was read or told, put together.
ToolsIn == [r \in Readings \cup Frames |-> r.tools]
ToolsOf(s) == Collect(s, ToolsIn)

Starts(d) == {i \in DOMAIN d : ~d[i].args}
StartsBefore(d, i) == {j \in Starts(d) : j < i}

\* ToolCallsReassemble, of any tool calls.
Reassembles(d) ==
  /\ \A i \in Starts(d) : d[i].place = Cardinality(StartsBefore(d, i))
  /\ \A i \in DOMAIN d \ Starts(d) : \E j \in Starts(d) :
       /\ j < i
       /\ d[j].place = d[i].place
       /\ d[j].block = d[i].block

LEMMA ToolsType == ToolsIn \in [Readings \cup Frames -> Seq(ToolDeltas)]
<1>1. \A r \in Readings \cup Frames : r.tools \in Seq(ToolDeltas)
  BY DEF Readings, Frames
<1> QED
  BY <1>1 DEF ToolsIn

\* What collecting tool calls does.
LEMMA ToolsConcat ==
  ASSUME NEW s \in Seq(Readings \cup Frames), NEW t \in Seq(Readings \cup Frames)
  PROVE  /\ s \o t \in Seq(Readings \cup Frames)
         /\ ToolsOf(s) \in Seq(ToolDeltas)
         /\ ToolsOf(s \o t) = ToolsOf(s) \o ToolsOf(t)
         /\ ToolsOf(<<>>) = <<>>
<1> DEFINE A == Readings \cup Frames
<1>1. ToolsIn \in [A -> Seq(ToolDeltas)] /\ s \in Seq(A) /\ t \in Seq(A)
  BY ToolsType
<1> HIDE DEF A
<1>2. s \o t \in Seq(A)
  BY ONLY <1>1
<1>3. Collect(s, ToolsIn) \in Seq(ToolDeltas)
  BY <1>1, CollectType
<1>4. Collect(s \o t, ToolsIn) = Collect(s, ToolsIn) \o Collect(t, ToolsIn)
  BY <1>1, CollectConcat
<1> QED
  BY <1>2, <1>3, <1>4, CollectEmpty DEF ToolsOf, A

LEMMA ToolsOfOne ==
  ASSUME NEW r \in Readings \cup Frames
  PROVE  <<r>> \in Seq(Readings \cup Frames) /\ ToolsOf(<<r>>) = r.tools
<1> DEFINE A == Readings \cup Frames
<1>1. ToolsIn \in [A -> Seq(ToolDeltas)] /\ r \in A
  BY ToolsType
<1>2. ToolsIn[r] = r.tools
  BY DEF ToolsIn
<1> HIDE DEF A
<1>3. Collect(<<r>>, ToolsIn) = ToolsIn[r] /\ <<r>> \in Seq(A)
  BY <1>1, CollectOne
<1> QED
  BY <1>2, <1>3 DEF ToolsOf, A

\* Frames without tool calls.
LEMMA NoTools ==
  ASSUME NEW s \in Seq(Readings \cup Frames), \A i \in 1..Len(s) : s[i].tools = <<>>
  PROVE  ToolsOf(s) = <<>>
<1> DEFINE A == {r \in Readings \cup Frames : r.tools = <<>>}
           S == {t \in Seq(A) : ToolsOf(t) = <<>>}
<1>1. s \in Seq(A)
  <2>1. \A i \in 1..Len(s) : s[i] \in A
    OBVIOUS
  <2> HIDE DEF A
  <2>2. Len(s) \in Nat /\ s = [i \in 1..Len(s) |-> s[i]]
    OBVIOUS
  <2> QED
    BY <2>1, <2>2, SeqDef
<1>2. <<>> \in S
  BY CollectEmpty DEF ToolsOf
<1>3. \A t \in Seq(A), x \in A : t \in S => Append(t, x) \in S
  <2> SUFFICES ASSUME NEW t \in Seq(A), NEW x \in A, t \in S PROVE Append(t, x) \in S
    OBVIOUS
  <2>1. t \in Seq(Readings \cup Frames) /\ x \in Readings \cup Frames /\ x.tools = <<>> /\ ToolsOf(t) = <<>>
    BY SeqMonotonic
  <2>2. ToolsOf(<<x>>) = <<>> /\ <<x>> \in Seq(Readings \cup Frames)
    BY <2>1, ToolsOfOne
  <2>3. ToolsOf(t \o <<x>>) = <<>> \o <<>>
    BY <2>1, <2>2, ToolsConcat, ZenonT(30)
  <2> HIDE DEF A
  <2>4. Append(t, x) = t \o <<x>> /\ Append(t, x) \in Seq(A)
    OBVIOUS
  <2> QED
    BY <2>3, <2>4
<1>4. Seq(A) \subseteq S
  <2> HIDE DEF A, S
  <2> QED
    BY <1>2, <1>3, SeqInduction
<1> QED
  BY <1>1, <1>4

\* What was told so far reassembles if what is told in the end does.
LEMMA ReassemblesFront ==
  ASSUME NEW s \in Seq(ToolDeltas), NEW t \in Seq(ToolDeltas), Reassembles(s \o t)
  PROVE  Reassembles(s)
<1> DEFINE d == s \o t
<1>1. /\ DOMAIN s = 1..Len(s) /\ DOMAIN d = 1..Len(d) /\ Len(s) \in Nat /\ Len(d) \in Nat /\ Len(s) <= Len(d)
      /\ \A i \in 1..Len(s) : d[i] = s[i]
  <2>1. /\ d \in Seq(ToolDeltas) /\ Len(s) \in Nat /\ Len(t) \in Nat /\ Len(d) = Len(s) + Len(t)
        /\ \A i \in 1..Len(s) : d[i] = s[i]
    BY ConcatMembers
  <2> HIDE DEF d
  <2> QED
    BY <2>1
<1>2. Reassembles(d)
  OBVIOUS
<1> HIDE DEF d
<1>3. \A i \in 1..Len(s) : i \in Starts(s) <=> i \in Starts(d)
  BY <1>1 DEF Starts
<1>4. Starts(s) \subseteq 1..Len(s) /\ Starts(d) \subseteq 1..Len(d)
  BY <1>1 DEF Starts
<1>5. ASSUME NEW i \in 1..Len(s) PROVE StartsBefore(s, i) = StartsBefore(d, i)
  <2>1. ASSUME NEW j, j \in Starts(d), j < i PROVE j \in Starts(s)
    <3>1. j \in 1..Len(s)
      BY <1>1, <1>4, <2>1
    <3> QED
      BY <1>3, <2>1, <3>1
  <2>2. ASSUME NEW j, j \in Starts(s) PROVE j \in Starts(d)
    BY <1>3, <1>4, <2>2
  <2> QED
    BY <2>1, <2>2 DEF StartsBefore
<1>6. ASSUME NEW i \in Starts(s) PROVE s[i].place = Cardinality(StartsBefore(s, i))
  BY <1>1, <1>2, <1>3, <1>4, <1>5, <1>6 DEF Reassembles
<1>7. ASSUME NEW i \in DOMAIN s \ Starts(s)
      PROVE  \E j \in Starts(s) : j < i /\ s[j].place = s[i].place /\ s[j].block = s[i].block
  <2>1. i \in DOMAIN d \ Starts(d)
    BY <1>1, <1>3, <1>7
  <2>2. PICK j \in Starts(d) : j < i /\ d[j].place = d[i].place /\ d[j].block = d[i].block
    BY <1>2, <2>1 DEF Reassembles
  <2>3. j \in 1..Len(s) /\ i \in 1..Len(s)
    BY <1>1, <1>4, <1>7, <2>2
  <2> QED
    BY <1>1, <1>3, <2>2, <2>3
<1> QED
  BY <1>6, <1>7 DEF Reassembles

LEMMA ReassemblesHalf ==
  ASSUME NEW t \in Seq(ToolDeltas), NEW f \in Seq(ToolDeltas), NEW v \in Seq(ToolDeltas), Reassembles(t \o (f \o v))
  PROVE  Reassembles(t \o f) /\ f \o <<>> = f
<1>1. t \o (f \o v) = (t \o f) \o v
  BY ConcatAssociative, SMTT(30)
<1>2. t \o f \in Seq(ToolDeltas) /\ f \o <<>> = f
  OBVIOUS
<1> QED
  BY <1>1, <1>2, ReassemblesFront

\* One tool call more.
LEMMA StartsMore ==
  ASSUME NEW d \in Seq(ToolDeltas), NEW x \in ToolDeltas
  PROVE  LET e == Append(d, x)
             n == Len(d) + 1
         IN  /\ e \in Seq(ToolDeltas) /\ DOMAIN d = 1..Len(d) /\ DOMAIN e = 1..n /\ n \in Nat /\ n \notin 1..Len(d)
             /\ \A i \in 1..Len(d) : e[i] = d[i] /\ i < n
             /\ e[n] = x
             /\ Starts(d) \subseteq 1..Len(d)
             /\ IsFiniteSet(Starts(d))
             /\ Starts(e) = Starts(d) \cup (IF x.args THEN {} ELSE {n})
             /\ \A i \in 1..Len(d) : StartsBefore(e, i) = StartsBefore(d, i)
             /\ StartsBefore(e, n) = Starts(d)
<1> DEFINE e == Append(d, x)
           n == Len(d) + 1
<1>1. /\ e \in Seq(ToolDeltas) /\ DOMAIN d = 1..Len(d) /\ Len(d) \in Nat /\ DOMAIN e = 1..n /\ n \in Nat
      /\ \A i \in 1..Len(d) : e[i] = d[i]
      /\ e[n] = x
  OBVIOUS
<1> HIDE DEF e
<1>2. n \notin 1..Len(d) /\ \A i \in 1..Len(d) : i < n /\ ~(n < i)
  BY <1>1
<1>3. 1..n = 1..Len(d) \cup {n}
  BY <1>1
<1> HIDE DEF n
<1>4. Starts(d) \subseteq 1..Len(d)
  BY <1>1 DEF Starts
<1>5. IsFiniteSet(Starts(d))
  BY <1>1, <1>4, FS_Interval, FS_Subset
<1>6. Starts(e) = Starts(d) \cup (IF x.args THEN {} ELSE {n})
  BY <1>1, <1>2, <1>3 DEF Starts
<1>7. ASSUME NEW i \in 1..Len(d) PROVE StartsBefore(e, i) = StartsBefore(d, i)
  BY <1>2, <1>6 DEF StartsBefore
<1>8. StartsBefore(e, n) = Starts(d)
  <2>1. ~(n < n)
    BY <1>1
  <2> QED
    BY <1>2, <1>4, <1>6, <2>1 DEF StartsBefore
<1> QED
  BY <1>1, <1>2, <1>4, <1>5, <1>6, <1>7, <1>8 DEF e, n

\* A call that begins gets the next place.
LEMMA BeginCall ==
  ASSUME NEW d \in Seq(ToolDeltas), Reassembles(d), NEW x \in ToolDeltas,
         ~x.args, x.place = Cardinality(Starts(d))
  PROVE  LET e == Append(d, x)
         IN  /\ Reassembles(e)
             /\ Cardinality(Starts(e)) = Cardinality(Starts(d)) + 1
             /\ \E k \in Starts(e) : e[k] = x
             /\ \A i \in Starts(d) : i \in Starts(e) /\ e[i] = d[i]
<1> DEFINE e == Append(d, x)
           n == Len(d) + 1
<1>1. /\ DOMAIN d = 1..Len(d) /\ DOMAIN e = 1..n /\ n \in Nat /\ n \notin 1..Len(d)
      /\ \A i \in 1..Len(d) : e[i] = d[i] /\ i < n
      /\ e[n] = x
      /\ Starts(d) \subseteq 1..Len(d)
      /\ IsFiniteSet(Starts(d))
      /\ Starts(e) = Starts(d) \cup {n}
      /\ \A i \in 1..Len(d) : StartsBefore(e, i) = StartsBefore(d, i)
      /\ StartsBefore(e, n) = Starts(d)
  BY StartsMore
<1>2. DOMAIN e = DOMAIN d \cup {n}
  BY <1>1
<1> HIDE DEF e, n
<1>3. Cardinality(Starts(e)) = Cardinality(Starts(d)) + 1
  <2>1. n \notin Starts(d) /\ IsFiniteSet(Starts(d)) /\ Starts(e) = Starts(d) \cup {n}
    BY <1>1
  <2>2. Cardinality(Starts(d) \cup {n}) = Cardinality(Starts(d)) + 1
    BY ONLY <2>1, FS_AddElement
  <2> QED
    BY <2>1, <2>2
<1>4. ASSUME NEW i \in Starts(e) PROVE e[i].place = Cardinality(StartsBefore(e, i))
  BY <1>1, <1>4 DEF Reassembles
<1>5. ASSUME NEW i \in DOMAIN e \ Starts(e)
      PROVE  \E j \in Starts(e) : j < i /\ e[j].place = e[i].place /\ e[j].block = e[i].block
  <2>1. i \in DOMAIN d \ Starts(d) /\ i \in 1..Len(d)
    BY <1>1, <1>2, <1>5
  <2>2. PICK j \in Starts(d) : j < i /\ d[j].place = d[i].place /\ d[j].block = d[i].block
    BY <2>1 DEF Reassembles
  <2> QED
    BY <1>1, <2>1, <2>2
<1> QED
  BY <1>1, <1>3, <1>4, <1>5 DEF Reassembles, e, n

\* An argument gets the place of its call.
LEMMA AddArgument ==
  ASSUME NEW d \in Seq(ToolDeltas), Reassembles(d), NEW x \in ToolDeltas, x.args,
         NEW j \in Starts(d), d[j].place = x.place, d[j].block = x.block
  PROVE  LET e == Append(d, x)
         IN  /\ Reassembles(e)
             /\ Starts(e) = Starts(d)
             /\ \A i \in Starts(d) : e[i] = d[i]
<1> DEFINE e == Append(d, x)
           n == Len(d) + 1
<1>1. /\ DOMAIN d = 1..Len(d) /\ DOMAIN e = 1..n /\ n \in Nat /\ n \notin 1..Len(d)
      /\ \A i \in 1..Len(d) : e[i] = d[i] /\ i < n
      /\ e[n] = x
      /\ Starts(d) \subseteq 1..Len(d)
      /\ Starts(e) = Starts(d) \cup (IF x.args THEN {} ELSE {n})
      /\ \A i \in 1..Len(d) : StartsBefore(e, i) = StartsBefore(d, i)
  BY StartsMore
<1>2. DOMAIN e = DOMAIN d \cup {n} /\ Starts(e) = Starts(d)
  BY <1>1
<1> HIDE DEF e, n
<1>3. ASSUME NEW i \in Starts(e) PROVE e[i].place = Cardinality(StartsBefore(e, i))
  BY <1>1, <1>2, <1>3 DEF Reassembles
<1>4. ASSUME NEW i \in DOMAIN e \ Starts(e)
      PROVE  \E k \in Starts(e) : k < i /\ e[k].place = e[i].place /\ e[k].block = e[i].block
  <2>1. CASE i = n
    BY <1>1, <1>2, <2>1
  <2>2. CASE i # n
    BY <1>1, <1>2, <1>4, <2>2 DEF Reassembles
  <2> QED
    BY <2>1, <2>2
<1> QED
  BY <1>1, <1>2, <1>3, <1>4 DEF Reassembles, e

-----------------------------------------------------------------------------
(* Tool calls of an Anthropic stream *)

\* What a provider writes of tools: no block starts twice, and arguments are of a block that has started.
WellWritten(w) ==
  /\ \A i \in DOMAIN w : KindOf(w[i]) = "tool_start" =>
       \A j \in DOMAIN w : j < i => PayloadOf(w[j]) # PayloadOf(w[i])
  /\ \A i \in DOMAIN w : KindOf(w[i]) = "args" =>
       \E j \in DOMAIN w : j < i /\ PayloadOf(w[j]) = <<"tool_start", PayloadOf(w[i])[2]>>

(***************************************************************************)
(* What an adapter knows of the events it was given, if d are the tool     *)
(* calls it has made of them: every block that has started has a place,    *)
(* that of its call.                                                       *)
(***************************************************************************)
Linked(d, ordinals, events) ==
  /\ Cardinality(DOMAIN ordinals) = Cardinality(Starts(d))
  /\ \A b \in DOMAIN ordinals : \E j \in Starts(d) : d[j].place = ordinals[b] /\ d[j].block = b
  /\ \A n \in Nat : n \in DOMAIN ordinals <=> \E i \in DOMAIN events : PayloadOf(events[i]) = <<"tool_start", n>>

LEMMA WellFront ==
  ASSUME NEW u \in Seq(Events), NEW w \in Seq(Events), WellWritten(w), Len(u) <= Len(w),
         \A i \in 1..Len(u) : u[i] = w[i]
  PROVE  WellWritten(u)
<1>1. DOMAIN u = 1..Len(u) /\ DOMAIN w = 1..Len(w) /\ Len(u) \in Nat /\ Len(w) \in Nat
  OBVIOUS
<1>2. \A i \in 1..Len(u) : i \in 1..Len(w) /\ \A j \in 1..Len(w) : j < i => j \in 1..Len(u)
  BY <1>1
<1>3. ASSUME NEW i \in DOMAIN u, KindOf(u[i]) = "tool_start", NEW j \in DOMAIN u, j < i
      PROVE  PayloadOf(u[j]) # PayloadOf(u[i])
  BY <1>1, <1>2, <1>3 DEF WellWritten
<1>4. ASSUME NEW i \in DOMAIN u, KindOf(u[i]) = "args"
      PROVE  \E j \in DOMAIN u : j < i /\ PayloadOf(u[j]) = <<"tool_start", PayloadOf(u[i])[2]>>
  BY <1>1, <1>2, <1>4 DEF WellWritten
<1> QED
  BY <1>3, <1>4 DEF WellWritten

\* One event more, of which the adapter makes no call.
LEMMA LinkedOther ==
  ASSUME NEW d \in Seq(ToolDeltas), NEW ordinals, NEW events \in Seq(Events), Linked(d, ordinals, events),
         NEW event \in Events, PayloadOf(event)[1] # "tool_start"
  PROVE  Linked(d, ordinals, Append(events, event))
<1> DEFINE more == Append(events, event)
           n == Len(events) + 1
<1>1. /\ DOMAIN events = 1..Len(events) /\ DOMAIN more = 1..n /\ Len(events) \in Nat
      /\ \A i \in 1..Len(events) : more[i] = events[i]
      /\ more[n] = event
  OBVIOUS
<1>2. DOMAIN more = DOMAIN events \cup {n}
  BY <1>1
<1> HIDE DEF more, n
<1>3. \A m \in Nat : PayloadOf(event) # <<"tool_start", m>>
  OBVIOUS
<1>4. ASSUME NEW m \in Nat
      PROVE  (\E i \in DOMAIN more : PayloadOf(more[i]) = <<"tool_start", m>>)
               <=> \E i \in DOMAIN events : PayloadOf(events[i]) = <<"tool_start", m>>
  BY <1>1, <1>2, <1>3
<1> QED
  BY <1>4 DEF Linked, more

\* The start of a call.
LEMMA LinkedStart ==
  ASSUME NEW d \in Seq(ToolDeltas), NEW ordinals \in Ordinals, IsFiniteSet(DOMAIN ordinals),
         NEW events \in Seq(Events), Linked(d, ordinals, events), Reassembles(d),
         NEW event \in Events, NEW m \in Nat, PayloadOf(event) = <<"tool_start", m>>,
         WellWritten(Append(events, event))
  PROVE  LET place == Cardinality(DOMAIN ordinals)
             x == [place |-> place, block |-> m, args |-> FALSE]
         IN  /\ x \in ToolDeltas
             /\ Reassembles(Append(d, x))
             /\ Linked(Append(d, x), Extended(ordinals, m, place), Append(events, event))
<1> DEFINE place == Cardinality(DOMAIN ordinals)
           x == [place |-> place, block |-> m, args |-> FALSE]
           e == Append(d, x)
           next == Extended(ordinals, m, place)
           more == Append(events, event)
           n == Len(events) + 1
<1>1. /\ DOMAIN events = 1..Len(events) /\ DOMAIN more = 1..n /\ Len(events) \in Nat
      /\ \A i \in 1..Len(events) : more[i] = events[i] /\ i < n
      /\ more[n] = event
  OBVIOUS
<1>2. DOMAIN more = DOMAIN events \cup {n} /\ n \in DOMAIN more
  BY <1>1
<1> HIDE DEF n
<1>3. m \notin DOMAIN ordinals
  <2>1. ASSUME NEW i \in DOMAIN events, PayloadOf(events[i]) = <<"tool_start", m>> PROVE FALSE
    <3>1. WellWritten(more)
      OBVIOUS
    <3> HIDE DEF more
    <3>2. /\ KindOf(more[n]) = "tool_start" /\ i < n /\ i \in DOMAIN more
          /\ PayloadOf(more[i]) = PayloadOf(more[n])
      BY <1>1, <1>2, <2>1 DEF KindOf
    <3> QED
      BY <1>2, <3>1, <3>2 DEF WellWritten
  <2> QED
    BY <2>1 DEF Linked
<1>4. place \in Nat
  BY FS_CardinalityType
<1>5. /\ DOMAIN next = DOMAIN ordinals \cup {m}
      /\ next[m] = place
      /\ \A b \in DOMAIN ordinals : next[b] = ordinals[b]
  BY <1>3, OrdinalsType
<1>6. Cardinality(DOMAIN next) = place + 1
  BY <1>3, <1>5, FS_AddElement
<1>7. place = Cardinality(Starts(d))
  BY DEF Linked
<1> HIDE DEF place, next
<1>8. x \in ToolDeltas /\ ~x.args /\ x.place = place /\ x.block = m
  BY <1>4 DEF ToolDeltas
<1> HIDE DEF x
<1>9. /\ Reassembles(e)
      /\ Cardinality(Starts(e)) = Cardinality(Starts(d)) + 1
      /\ \E k \in Starts(e) : e[k] = x
      /\ \A i \in Starts(d) : i \in Starts(e) /\ e[i] = d[i]
  <2>1. x \in ToolDeltas /\ ~x.args /\ x.place = Cardinality(Starts(d))
    BY <1>7, <1>8
  <2> QED
    BY ONLY <2>1, d \in Seq(ToolDeltas), Reassembles(d), BeginCall
<1> HIDE DEF e
<1>10. ASSUME NEW b \in DOMAIN next PROVE \E j \in Starts(e) : e[j].place = next[b] /\ e[j].block = b
  <2>1. CASE b = m
    BY <1>5, <1>8, <1>9, <2>1
  <2>2. CASE b # m
    <3>1. PICK j \in Starts(d) : d[j].place = ordinals[b] /\ d[j].block = b
      BY <1>5, <1>10, <2>2 DEF Linked
    <3> QED
      BY <1>5, <1>9, <1>10, <2>2, <3>1
  <2> QED
    BY <2>1, <2>2
<1> HIDE DEF more
<1>11. ASSUME NEW k \in Nat
       PROVE  k \in DOMAIN next <=> \E i \in DOMAIN more : PayloadOf(more[i]) = <<"tool_start", k>>
  <2>1. k \in DOMAIN ordinals <=> \E i \in DOMAIN events : PayloadOf(events[i]) = <<"tool_start", k>>
    BY DEF Linked
  <2>2. (\E i \in DOMAIN more : PayloadOf(more[i]) = <<"tool_start", k>>)
          <=> (k = m \/ \E i \in DOMAIN events : PayloadOf(events[i]) = <<"tool_start", k>>)
    <3>1. \A i \in DOMAIN events : i \in DOMAIN more /\ more[i] = events[i]
      BY <1>1, <1>2
    <3>2. PayloadOf(more[n]) = <<"tool_start", m>>
      BY <1>1
    <3>3. <<"tool_start", m>> = <<"tool_start", k>> <=> m = k
      OBVIOUS
    <3> QED
      BY <1>2, <3>1, <3>2, <3>3
  <2> QED
    BY <1>5, <2>1, <2>2
<1>12. Linked(e, next, more)
  BY <1>6, <1>7, <1>9, <1>10, <1>11 DEF Linked
<1> QED
  BY <1>8, <1>9, <1>12 DEF x, e, next, place, more

\* Arguments of a call.
LEMMA LinkedArgument ==
  ASSUME NEW d \in Seq(ToolDeltas), NEW a \in Adapters, NEW events \in Seq(Events),
         Linked(d, a.ordinals, events), Reassembles(d),
         NEW event \in Events, NEW m \in Nat, PayloadOf(event) = <<"args", m>>,
         WellWritten(Append(events, event))
  PROVE  LET x == [place |-> Place(a, m), block |-> m, args |-> TRUE]
         IN  /\ x \in ToolDeltas
             /\ Reassembles(Append(d, x))
             /\ Linked(Append(d, x), a.ordinals, Append(events, event))
<1> DEFINE x == [place |-> Place(a, m), block |-> m, args |-> TRUE]
           e == Append(d, x)
           more == Append(events, event)
           n == Len(events) + 1
<1>1. /\ DOMAIN events = 1..Len(events) /\ DOMAIN more = 1..n /\ Len(events) \in Nat
      /\ \A i \in 1..Len(events) : more[i] = events[i] /\ i < n
      /\ more[n] = event
      /\ ~(n < n)
  OBVIOUS
<1>2. DOMAIN more = DOMAIN events \cup {n} /\ n \in DOMAIN more
  BY <1>1
<1> HIDE DEF n
<1>3. m \in DOMAIN a.ordinals
  <2>1. KindOf(more[n]) = "args" /\ PayloadOf(more[n])[2] = m
    BY <1>1 DEF KindOf
  <2>2. WellWritten(more)
    OBVIOUS
  <2> HIDE DEF more
  <2>3. PICK i \in DOMAIN more : i < n /\ PayloadOf(more[i]) = <<"tool_start", PayloadOf(more[n])[2]>>
    BY <1>2, <2>1, <2>2 DEF WellWritten
  <2>4. i \in DOMAIN events /\ PayloadOf(events[i]) = <<"tool_start", m>>
    BY <1>1, <1>2, <2>1, <2>3, SMTT(30)
  <2> QED
    BY <2>4 DEF Linked
<1>4. Place(a, m) = a.ordinals[m]
  BY <1>3 DEF Place
<1>5. x \in ToolDeltas /\ x.args = TRUE /\ x.place = a.ordinals[m] /\ x.block = m
  BY <1>4, PlaceType DEF ToolDeltas
<1> HIDE DEF x
<1>6. PICK j \in Starts(d) : d[j].place = x.place /\ d[j].block = x.block
  BY <1>3, <1>5 DEF Linked
<1>7. Reassembles(e) /\ Starts(e) = Starts(d) /\ \A i \in Starts(d) : e[i] = d[i]
  BY <1>5, <1>6, AddArgument
<1>8. Linked(d, a.ordinals, more)
  BY LinkedOther
<1> HIDE DEF e, more
<1>9. Linked(e, a.ordinals, more)
  BY <1>7, <1>8 DEF Linked
<1> QED
  BY <1>5, <1>7, <1>9 DEF x, e, more

\* The tool calls of one chunk more.
LEMMA OutTools ==
  ASSUME NEW d \in Seq(ToolDeltas), NEW out \in Seq(Readings), NEW r \in Readings
  PROVE  /\ ToolsOf(out) \in Seq(ToolDeltas) /\ d \o ToolsOf(out) \in Seq(ToolDeltas)
         /\ r.tools = <<>> => d \o ToolsOf(Append(out, r)) = d \o ToolsOf(out)
         /\ \A x \in ToolDeltas : r.tools = <<x>> => d \o ToolsOf(Append(out, r)) = Append(d \o ToolsOf(out), x)
<1> DEFINE t == ToolsOf(out)
           A == Readings \cup Frames
<1>1. out \in Seq(A) /\ r \in A
  <2>1. Readings \subseteq A /\ r \in A
    OBVIOUS
  <2> HIDE DEF A
  <2> QED
    BY <2>1, SeqMonotonic
<1>2. t \in Seq(ToolDeltas) /\ ToolsOf(out \o <<r>>) = t \o r.tools
  BY <1>1, ToolsConcat, ToolsOfOne
<1> HIDE DEF t
<1>3. Append(out, r) = out \o <<r>>
  OBVIOUS
<1>4. d \o t \in Seq(ToolDeltas)
  BY <1>2
<1>5. ASSUME r.tools = <<>> PROVE d \o (t \o r.tools) = d \o t
  BY <1>2, <1>5
<1>6. ASSUME NEW x \in ToolDeltas, r.tools = <<x>> PROVE d \o (t \o r.tools) = Append(d \o t, x)
  BY <1>2, <1>6
<1> QED
  BY <1>2, <1>3, <1>4, <1>5, <1>6 DEF t

\* The tool calls d and those an adapter has made since.
Tooled(d, a, events) ==
  /\ Reassembles(d \o ToolsOf(a.out))
  /\ a.state = "reading" => Linked(d \o ToolsOf(a.out), a.ordinals, events)

LEMMA AdaptTools ==
  ASSUME NEW d \in Seq(ToolDeltas), NEW a \in Adapters, NEW events \in Seq(Events), NEW event \in Events,
         Tooled(d, a, events), WellWritten(Append(events, event))
  PROVE  Tooled(d, Adapt(a, event), Append(events, event))
<1> DEFINE payload == PayloadOf(event)
           kind == payload[1]
           n == payload[2]
           next == Adapt(a, event)
           more == Append(events, event)
           e == d \o ToolsOf(a.out)
           Out(chunk) == Append(a.out, chunk)
<1>1. payload \in Tokens /\ n \in Nat /\ payload = <<kind, n>>
  BY PayloadType, TokenFields
<1>2. a.out \in Seq(Readings) /\ a.ordinals \in Ordinals /\ IsFiniteSet(DOMAIN a.ordinals)
  BY AdapterFields
<1>3. /\ Done[1] = "[DONE]" /\ Garbled[1] = "garbled"
      /\ Chunk(<<>>, <<>>, "none", NoUsage) \in Readings
      /\ \A finish \in {"stop", "length"} : Chunk(<<>>, <<>>, finish, NoUsage) \in Readings
      /\ Chunk(<<n>>, <<>>, "none", NoUsage) \in Readings
  <2>1. <<>> \in Seq(Nat) /\ <<>> \in Seq(ToolDeltas) /\ <<n>> \in Seq(Nat)
    BY <1>1
  <2>2. {"none", "stop", "length"} \subseteq Finishes
    BY DEF Finishes
  <2> QED
    BY <2>1, <2>2, FrameTypes DEF Done, Garbled
<1>4. \A finish, text, tools : Chunk(text, tools, finish, NoUsage).tools = tools
  BY DEF Chunk
<1>5. e \in Seq(ToolDeltas)
  <2>1. ToolsOf(a.out) \in Seq(ToolDeltas)
    BY <1>2, <1>3, OutTools
  <2> QED
    BY <2>1
<1>6. Reassembles(e) /\ (a.state = "reading" => Linked(e, a.ordinals, events))
  BY DEF Tooled
\* An event that starts no call, and a chunk without tools.
<1>7. ASSUME NEW b, b.out = a.out, b.ordinals = a.ordinals,
             b.state = "reading" => a.state = "reading" /\ kind # "tool_start"
      PROVE  Tooled(d, b, more)
  <2>1. d \o ToolsOf(b.out) = e
    BY <1>7
  <2> HIDE DEF e, more
  <2>2. b.state = "reading" => Linked(e, b.ordinals, more)
    BY <1>5, <1>6, <1>7, LinkedOther DEF more
  <2> QED
    BY <1>6, <2>1, <2>2 DEF Tooled
<1>8. ASSUME NEW b, NEW chunk \in Readings, chunk.tools = <<>>, b.out = Out(chunk), b.ordinals = a.ordinals,
             a.state = "reading", kind # "tool_start"
      PROVE  Tooled(d, b, more)
  <2>1. d \o ToolsOf(b.out) = e
    BY <1>2, <1>8, OutTools, SMTT(30)
  <2> HIDE DEF e, more
  <2>2. Linked(e, b.ordinals, more)
    BY <1>5, <1>6, <1>8, LinkedOther DEF more
  <2> QED
    BY <1>6, <2>1, <2>2 DEF Tooled
<1>9. CASE (a.state # "reading" \/ payload = Garbled) /\ next = a
  BY <1>3, <1>7, <1>9
<1>10. CASE next = [a EXCEPT !.state = "stopped"] \/ next = [a EXCEPT !.state = "failed"]
  <2>1. next.out = a.out /\ next.ordinals = a.ordinals /\ next.state # "reading"
    BY <1>10 DEF Adapters
  <2> QED
    BY <1>7, <2>1
<1>11. CASE /\ a.state = "reading" /\ kind = "message_start"
            /\ next = [a EXCEPT !.input = 2 * n, !.out = Out(Chunk(<<>>, <<>>, "none", NoUsage))]
  <2> DEFINE chunk == Chunk(<<>>, <<>>, "none", NoUsage)
  <2>1. next.out = Out(chunk) /\ next.ordinals = a.ordinals
    BY <1>11 DEF Adapters
  <2>2. chunk \in Readings /\ chunk.tools = <<>>
    BY <1>3, <1>4
  <2> HIDE DEF chunk, next, more
  <2>3. Tooled(d, next, more)
    BY <1>8, <1>11, <2>1, <2>2
  <2> QED
    BY <2>3 DEF next, more
<1>12. CASE a.state = "reading" /\ kind = "text" /\ next = [a EXCEPT !.out = Out(Chunk(<<n>>, <<>>, "none", NoUsage))]
  <2> DEFINE chunk == Chunk(<<n>>, <<>>, "none", NoUsage)
  <2>1. next.out = Out(chunk) /\ next.ordinals = a.ordinals
    BY <1>12 DEF Adapters
  <2>2. chunk \in Readings /\ chunk.tools = <<>>
    BY <1>3, <1>4
  <2> HIDE DEF chunk, next, more
  <2>3. Tooled(d, next, more)
    BY <1>8, <1>12, <2>1, <2>2
  <2> QED
    BY <2>3 DEF next, more
<1>13. CASE a.state = "reading" /\ kind = "message_delta" /\ next = Conclude(a, n)
  <2> DEFINE finish == IF n = 2 THEN "length" ELSE "stop"
  <2>1. next = [a EXCEPT !.finish = finish, !.output = 5 * n, !.out = Out(Chunk(<<>>, <<>>, finish, NoUsage))]
    BY <1>1, <1>13, ConcludeType
  <2>2. next.out = Out(Chunk(<<>>, <<>>, finish, NoUsage)) /\ next.ordinals = a.ordinals
    BY <2>1 DEF Adapters
  <2> DEFINE chunk == Chunk(<<>>, <<>>, finish, NoUsage)
  <2>3. chunk \in Readings /\ chunk.tools = <<>>
    BY <1>3, <1>4
  <2> HIDE DEF finish
  <2>4. next.out = Out(chunk)
    BY <2>2
  <2> HIDE DEF next, chunk, more
  <2>5. Tooled(d, next, more)
    BY <1>8, <1>13, <2>2, <2>3, <2>4
  <2> QED
    BY <2>5 DEF next, more
<1>14. CASE a.state = "reading" /\ kind = "tool_start" /\ next = StartTool(a, n)
  <2> DEFINE place == Cardinality(DOMAIN a.ordinals)
             x == [place |-> place, block |-> n, args |-> FALSE]
             chunk == Chunk(<<>>, <<x>>, "none", NoUsage)
             known == Extended(a.ordinals, n, place)
  <2>1. next = [a EXCEPT !.ordinals = known, !.out = Append(a.out, chunk)]
    BY <1>1, <1>14, StartToolType DEF ToolDelta
  <2>2. next.ordinals = known /\ next.out = Append(a.out, chunk) /\ next.state = "reading"
    BY <1>14, <2>1 DEF Adapters
  <2>3. place \in Nat
    BY <1>2, FS_CardinalityType
  <2>4. chunk \in Readings /\ chunk.tools = <<x>>
    <3>1. Chunk(<<>>, ToolDelta(place, n, FALSE), "none", NoUsage) \in Readings
      BY <1>1, <2>3, ToolChunk
    <3> QED
      BY <3>1 DEF ToolDelta, Chunk
  <2>5. payload = <<"tool_start", n>>
    BY <1>1, <1>14
  <2> HIDE DEF e, more, payload
  <2>6. x \in ToolDeltas /\ Reassembles(Append(e, x)) /\ Linked(Append(e, x), known, more)
    BY <1>1, <1>2, <1>5, <1>6, <1>14, <2>5, LinkedStart DEF payload, more
  <2> HIDE DEF next, x, chunk, known
  <2>7. d \o ToolsOf(next.out) = Append(e, x)
    BY <1>2, <2>2, <2>4, <2>6, OutTools, SMTT(30) DEF e
  <2> QED
    BY <2>2, <2>6, <2>7 DEF Tooled, next, more
<1>15. CASE /\ a.state = "reading" /\ kind = "args"
            /\ next = [a EXCEPT !.out = Out(Chunk(<<>>, ToolDelta(Place(a, n), n, TRUE), "none", NoUsage))]
  <2> DEFINE x == [place |-> Place(a, n), block |-> n, args |-> TRUE]
             chunk == Chunk(<<>>, <<x>>, "none", NoUsage)
  <2>1. next.ordinals = a.ordinals /\ next.out = Append(a.out, chunk) /\ next.state = "reading"
    BY <1>15 DEF Adapters, ToolDelta
  <2>2. chunk \in Readings /\ chunk.tools = <<x>>
    <3>1. Place(a, n) \in Nat
      BY PlaceType
    <3>2. Chunk(<<>>, ToolDelta(Place(a, n), n, TRUE), "none", NoUsage) \in Readings
      BY <1>1, <3>1, ToolChunk
    <3> QED
      BY <3>2 DEF ToolDelta, Chunk
  <2>3. payload = <<"args", n>>
    BY <1>1, <1>15
  <2> HIDE DEF e, more, payload
  <2>4. x \in ToolDeltas /\ Reassembles(Append(e, x)) /\ Linked(Append(e, x), a.ordinals, more)
    BY <1>1, <1>5, <1>6, <1>15, <2>3, LinkedArgument DEF payload, more
  <2> HIDE DEF next, x, chunk
  <2>5. d \o ToolsOf(next.out) = Append(e, x)
    BY <1>2, <2>1, <2>2, <2>4, OutTools DEF e
  <2> QED
    BY <2>1, <2>4, <2>5 DEF Tooled, next, more
<1>16. CASE /\ a.state = "reading"
            /\ kind \notin {"message_start", "tool_start", "text", "args", "message_delta"}
            /\ next = a
  BY <1>7, <1>16
<1> HIDE DEF next
<1> QED
  BY <1>9, <1>10, <1>11, <1>12, <1>13, <1>14, <1>15, <1>16, AdaptCases, ZenonT(30) DEF next

LEMMA AdaptAllTools ==
  ASSUME NEW d \in Seq(ToolDeltas), NEW a \in Adapters, NEW events \in Seq(Events), NEW more \in Seq(Events),
         Reassembles(d), a.state = "reading" => Linked(d, a.ordinals, events), WellWritten(events \o more)
  PROVE  Tooled(d, AdaptAll(a, more), events \o more)
<1>1. PICK g \in [0..Len(more) -> Adapters] :
        /\ g[0] = [a EXCEPT !.out = <<>>]
        /\ \A n \in 1..Len(more) : g[n] = Adapt(g[n - 1], more[n])
        /\ AdaptAll(a, more) = g[Len(more)]
  BY AdaptChain
<1> DEFINE N == Len(more)
           U(n) == events \o SubSeq(more, 1, n)
           S == {n \in 0..N : Tooled(d, g[n], U(n))}
<1>2. N \in Nat
  OBVIOUS
<1>3. U(0) = events /\ U(N) = events \o more
  <2>1. SubSeq(more, 1, 0) = <<>> /\ SubSeq(more, 1, N) = more
    OBVIOUS
  <2>2. events \o <<>> = events
    OBVIOUS
  <2> QED
    BY <2>1, <2>2
<1>4. ASSUME NEW n \in 0..N, n < N
      PROVE  U(n) \in Seq(Events) /\ U(n + 1) = Append(U(n), more[n + 1]) /\ more[n + 1] \in Events
  <2> DEFINE s == SubSeq(more, 1, n)
             e == more[n + 1]
  <2>1. s \in Seq(Events) /\ e \in Events /\ SubSeq(more, 1, n + 1) = Append(s, e)
    BY <1>2, <1>4
  <2> HIDE DEF s, e
  <2>2. events \o s \in Seq(Events)
    BY ONLY <2>1, events \in Seq(Events)
  <2>3. events \o Append(s, e) = Append(events \o s, e)
    BY ONLY <2>1, events \in Seq(Events)
  <2> QED
    BY <2>1, <2>2, <2>3 DEF s, e
<1>5. ASSUME NEW n \in 0..N PROVE U(n) \in Seq(Events) /\ WellWritten(U(n))
  <2> DEFINE s == SubSeq(more, 1, n)
             u == events \o s
             w == events \o more
             k == Len(events)
  <2>1. s \in Seq(Events) /\ Len(s) = n /\ \A i \in 1..n : s[i] = more[i]
    BY <1>2
  <2> HIDE DEF s
  <2>2. /\ u \in Seq(Events) /\ k \in Nat /\ Len(u) = k + n
        /\ \A i \in 1..k : u[i] = events[i]
        /\ \A i \in 1..n : u[k + i] = s[i]
    BY <2>1, ConcatMembers
  <2>3. /\ w \in Seq(Events) /\ Len(w) = k + N
        /\ \A i \in 1..k : w[i] = events[i]
        /\ \A i \in 1..N : w[k + i] = more[i]
    BY ConcatMembers
  <2>4. WellWritten(w)
    OBVIOUS
  <2> HIDE DEF u, w, k, N
  <2>5. ASSUME NEW i \in 1..Len(u) PROVE u[i] = w[i]
    <3>1. CASE i <= k
      BY <2>2, <2>3, <2>5, <3>1
    <3>2. CASE i > k
      <4>1. i - k \in 1..n /\ i - k \in 1..N /\ k + (i - k) = i
        BY <1>2, <2>2, <2>5, <3>2
      <4> QED
        BY <2>1, <2>2, <2>3, <4>1, ZenonT(30)
    <3> QED
      BY <2>2, <2>5, <3>1, <3>2
  <2>6. Len(u) <= Len(w)
    BY <1>2, <2>2, <2>3
  <2>7. WellWritten(u)
    BY <2>2, <2>3, <2>4, <2>5, <2>6, WellFront
  <2> QED
    BY <2>2, <2>7 DEF u, s
<1> HIDE DEF U, N
<1>6. 0 \in S
  <2>1. g[0].out = <<>> /\ g[0].state = a.state /\ g[0].ordinals = a.ordinals
    BY <1>1 DEF Adapters
  <2>2. d \o ToolsOf(<<>>) = d
    BY CollectEmpty DEF ToolsOf
  <2>3. Tooled(d, g[0], U(0))
    BY <1>3, <2>1, <2>2 DEF Tooled
  <2> QED
    BY <1>2, <2>3
<1>7. \A n \in 0..N : n \in S /\ n < N => n + 1 \in S
  <2> SUFFICES ASSUME NEW n \in 0..N, n \in S, n < N PROVE n + 1 \in S
    OBVIOUS
  <2>1. n + 1 \in 0..N /\ n + 1 \in 1..N /\ (n + 1) - 1 = n
    BY <1>2
  <2>2. g[n] \in Adapters /\ g[n + 1] = Adapt(g[n], more[n + 1])
    BY <1>1, <2>1 DEF N
  <2>3. /\ U(n) \in Seq(Events) /\ more[n + 1] \in Events
        /\ U(n + 1) = Append(U(n), more[n + 1]) /\ WellWritten(U(n + 1))
    BY <1>4, <1>5, <2>1
  <2>4. Tooled(d, g[n + 1], U(n + 1))
    BY <2>2, <2>3, AdaptTools
  <2> QED
    BY <2>1, <2>4
<1>8. N \in S
  <2> HIDE DEF S
  <2>1. 0..N \subseteq S
    BY <1>2, <1>6, <1>7, Induction
  <2>2. N \in 0..N
    BY <1>2
  <2> QED
    BY <2>1, <2>2
<1>9. Tooled(d, g[N], events \o more)
  BY <1>3, <1>8
<1> QED
  BY <1>1, <1>9 DEF N

-----------------------------------------------------------------------------
(* What a provider writes of tools *)

BlocksBegun(w) == {i \in DOMAIN w : KindOf(w[i]) \in {"text_start", "tool_start"}}

\* A block has the number of the blocks before it.
WellNumbered(w) ==
  /\ WellWritten(w)
  /\ \A i \in DOMAIN w : KindOf(w[i]) = "tool_start" => PayloadOf(w[i])[2] < Cardinality(BlocksBegun(w))

LEMMA WriteTools ==
  ASSUME NEW w \in Seq(Events), WellNumbered(w), NEW event \in Events,
         \/ KindOf(event) \notin {"text_start", "tool_start", "args"}
         \/ KindOf(event) \in {"text_start", "tool_start"} /\ PayloadOf(event)[2] = Cardinality(BlocksBegun(w))
         \/ KindOf(event) = "args" /\ \E j \in DOMAIN w : PayloadOf(w[j]) = <<"tool_start", PayloadOf(event)[2]>>
  PROVE  WellNumbered(Append(w, event))
<1> DEFINE more == Append(w, event)
           n == Len(w) + 1
           blocks == BlocksBegun(w)
           count == Cardinality(blocks)
           last == PayloadOf(event)[2]
<1>1. /\ DOMAIN w = 1..Len(w) /\ DOMAIN more = 1..n /\ Len(w) \in Nat
      /\ \A i \in 1..Len(w) : more[i] = w[i] /\ i < n /\ w[i] \in Events
      /\ \A i \in 1..n : ~(n < i)
      /\ \A i \in 1..n : i # n => i \in 1..Len(w)
      /\ more[n] = event
      /\ n \in 1..n /\ n \notin 1..Len(w)
  OBVIOUS
<1>2. DOMAIN more = DOMAIN w \cup {n}
  BY <1>1
<1> HIDE DEF more, n
<1>3. IsFiniteSet(blocks) /\ count \in Nat /\ blocks \subseteq 1..Len(w)
  <2>1. blocks \subseteq 1..Len(w)
    BY <1>1 DEF BlocksBegun
  <2>2. IsFiniteSet(1..Len(w))
    BY <1>1, FS_Interval
  <2>3. IsFiniteSet(blocks)
    BY <2>1, <2>2, FS_Subset
  <2> HIDE DEF blocks
  <2> QED
    BY <2>1, <2>3, FS_CardinalityType
<1>4. BlocksBegun(more) = IF KindOf(event) \in {"text_start", "tool_start"} THEN blocks \cup {n} ELSE blocks
  BY <1>1, <1>2 DEF BlocksBegun
<1>5. Cardinality(BlocksBegun(more)) = IF KindOf(event) \in {"text_start", "tool_start"} THEN count + 1 ELSE count
  <2>1. n \notin blocks
    BY <1>1, <1>3
  <2> HIDE DEF blocks
  <2> QED
    BY <1>3, <1>4, <2>1, FS_AddElement
<1>6. last \in Nat /\ \A i \in DOMAIN w : PayloadOf(w[i])[2] \in Nat
  BY <1>1, PayloadType, TokenFields
<1>7. \A i \in DOMAIN w : KindOf(w[i]) = "tool_start" => PayloadOf(w[i])[2] < count
  BY DEF WellNumbered
<1>8. WellWritten(w)
  BY DEF WellNumbered
<1> HIDE DEF blocks, count
<1>9. \/ KindOf(event) \notin {"text_start", "tool_start", "args"}
      \/ KindOf(event) \in {"text_start", "tool_start"} /\ last = count
      \/ KindOf(event) = "args" /\ \E j \in DOMAIN w : PayloadOf(w[j]) = <<"tool_start", last>>
  BY DEF count, blocks
<1>10. ASSUME NEW i \in DOMAIN more, KindOf(more[i]) = "tool_start", NEW j \in DOMAIN more, j < i
       PROVE  PayloadOf(more[j]) # PayloadOf(more[i])
  <2>1. j \in DOMAIN w /\ more[j] = w[j]
    BY <1>1, <1>10
  <2>2. CASE i = n
    <3>1. KindOf(event) = "tool_start" /\ last = count
      BY <1>1, <1>9, <1>10, <2>2
    <3>2. KindOf(w[j]) = "tool_start" => PayloadOf(w[j])[2] # last
      BY <1>3, <1>6, <1>7, <2>1, <3>1
    <3> QED
      BY <1>1, <2>1, <2>2, <3>1, <3>2 DEF KindOf
  <2>3. CASE i # n
    <3>1. i \in DOMAIN w /\ more[i] = w[i]
      BY <1>1, <1>10, <2>3
    <3> QED
      BY <1>8, <1>10, <2>1, <3>1 DEF WellWritten
  <2> QED
    BY <2>2, <2>3
<1>11. ASSUME NEW i \in DOMAIN more, KindOf(more[i]) = "args"
       PROVE  \E j \in DOMAIN more : j < i /\ PayloadOf(more[j]) = <<"tool_start", PayloadOf(more[i])[2]>>
  <2>1. CASE i = n
    <3>1. PICK j \in DOMAIN w : PayloadOf(w[j]) = <<"tool_start", last>>
      BY <1>1, <1>9, <1>11, <2>1
    <3> QED
      BY <1>1, <1>2, <2>1, <3>1
  <2>2. CASE i # n
    <3>1. i \in DOMAIN w /\ more[i] = w[i]
      BY <1>1, <1>11, <2>2
    <3>2. PICK j \in DOMAIN w : j < i /\ PayloadOf(w[j]) = <<"tool_start", PayloadOf(w[i])[2]>>
      BY <1>8, <1>11, <3>1 DEF WellWritten
    <3> QED
      BY <1>1, <1>2, <3>1, <3>2
  <2> QED
    BY <2>1, <2>2
<1>12. ASSUME NEW i \in DOMAIN more, KindOf(more[i]) = "tool_start"
       PROVE  PayloadOf(more[i])[2] < Cardinality(BlocksBegun(more))
  <2>1. CASE i = n
    BY <1>1, <1>3, <1>5, <1>9, <1>12, <2>1
  <2>2. CASE i # n
    <3>1. i \in DOMAIN w /\ more[i] = w[i]
      BY <1>1, <1>12, <2>2
    <3>2. PayloadOf(w[i])[2] < count
      BY <1>7, <1>12, <3>1
    <3> QED
      BY <1>3, <1>5, <1>6, <3>1, <3>2
  <2> QED
    BY <2>1, <2>2
<1>13. WellWritten(more)
  BY <1>10, <1>11 DEF WellWritten
<1> QED
  BY <1>12, <1>13 DEF WellNumbered, more

-----------------------------------------------------------------------------
(* The invariant of tool calls *)

(***************************************************************************)
(* The tool calls of what was told and of what the endpoint has to read    *)
(* reassemble, and the adapter knows their places.  A response tells no    *)
(* tool calls, and no chunk of an OpenAI stream of this model has any.     *)
(***************************************************************************)
ToolsUnread == ToolsOf(frames) \o ToolsOf(queue)

ToolInv ==
  /\ Anthropic => WellNumbered(written)
  /\ call.endpoint = "responses" => ToolsOf(frames) = <<>>
  /\ ~Anthropic => ToolsOf(frames) = <<>> /\ ToolsOf(queue) = <<>>
  /\ Anthropic /\ call.endpoint # "responses" =>
       /\ Reassembles(ToolsUnread)
       /\ pump.state = "reading" /\ adapter.state = "reading" => Linked(ToolsUnread, adapter.ordinals, parsed)

LEMMA NothingCalled ==
  /\ WellNumbered(<<>>) /\ Reassembles(<<>>) /\ Linked(<<>>, <<>>, <<>>)
  /\ ToolsOf(<<>>) = <<>> /\ <<>> \o <<>> = <<>>
<1>1. Starts(<<>>) = {} /\ BlocksBegun(<<>>) = {} /\ DOMAIN <<>> = {}
  BY DEF Starts, BlocksBegun
<1>2. Cardinality({}) = 0
  BY FS_EmptySet
<1>3. ToolsOf(<<>>) = <<>>
  BY CollectEmpty DEF ToolsOf
<1>4. <<>> \o <<>> = <<>>
  OBVIOUS
<1> QED
  BY <1>1, <1>2, <1>3, <1>4 DEF WellNumbered, WellWritten, Reassembles, Linked

\* Nothing was written, read or told that has tools.
LEMMA ToolFresh ==
  ASSUME written' = <<>>, queue' = <<>>, ToolsOf(frames') = <<>>, adapter' = NewAdapter, parsed' = <<>>
  PROVE  ToolInv'
<1>1. adapter'.ordinals = <<>>
  BY DEF NewAdapter
<1>2. ToolsUnread' = <<>>
  BY NothingCalled DEF ToolsUnread
<1> QED
  BY <1>1, <1>2, NothingCalled DEF ToolInv

\* Nothing changed that has tools.
LEMMA ToolKept ==
  ASSUME ToolInv, UNCHANGED <<call, sent, written, parsed, adapter, queue, frames>>,
         pump'.state = "reading" => pump.state = "reading"
  PROVE  ToolInv'
<1>1. ToolsUnread' = ToolsUnread /\ (Anthropic' <=> Anthropic)
  BY DEF ToolsUnread, Anthropic
<1> QED
  BY <1>1 DEF ToolInv

LEMMA ToolInit == PublicCallInit => ToolInv
<1> SUFFICES ASSUME PublicCallInit PROVE ToolInv
  OBVIOUS
<1>1. written = <<>> /\ queue = <<>> /\ frames = <<>> /\ adapter.ordinals = <<>> /\ parsed = <<>>
  BY DEF PublicCallInit, NewAdapter
<1>2. ToolsUnread = <<>>
  BY <1>1, NothingCalled DEF ToolsUnread
<1> QED
  BY <1>1, <1>2, NothingCalled DEF ToolInv

LEMMA ToolsTyped ==
  ASSUME PublicCallTypeOK
  PROVE  /\ frames \in Seq(Readings \cup Frames) /\ queue \in Seq(Readings \cup Frames)
         /\ ToolsOf(frames) \in Seq(ToolDeltas) /\ ToolsOf(queue) \in Seq(ToolDeltas)
         /\ ToolsUnread \in Seq(ToolDeltas)
<1>1. frames \in Seq(Frames) /\ queue \in Seq(Readings)
  BY DEF PublicCallTypeOK
<1> DEFINE A == Readings \cup Frames
<1>2. Readings \subseteq A /\ Frames \subseteq A
  OBVIOUS
<1> HIDE DEF A
<1>3. frames \in Seq(A) /\ queue \in Seq(A)
  BY <1>1, <1>2, SeqMonotonic
<1>4. ToolsOf(frames) \in Seq(ToolDeltas) /\ ToolsOf(queue) \in Seq(ToolDeltas)
  BY <1>3, ToolsConcat DEF A
<1>5. ToolsUnread \in Seq(ToolDeltas)
  BY <1>4 DEF ToolsUnread
<1> QED
  BY <1>3, <1>4, <1>5 DEF A

\* The loop of the endpoint ended: what it has not read does not matter any more.
LEMMA ToolEnds ==
  ASSUME PublicCallTypeOK, ToolInv, UNCHANGED <<call, sent, written, parsed, adapter>>, queue' = <<>>,
         ToolsOf(frames') = ToolsOf(frames), pump'.state # "reading"
  PROVE  ToolInv'
<1>1. Anthropic' <=> Anthropic
  BY DEF Anthropic
<1> DEFINE t == ToolsOf(frames)
           q == ToolsOf(queue)
<1>2. t \in Seq(ToolDeltas) /\ q \in Seq(ToolDeltas)
  BY ToolsTyped
<1> HIDE DEF t, q
<1>3. t \o <<>> = t
  BY <1>2
<1>4. ToolsUnread' = t
  BY <1>3, NothingCalled DEF ToolsUnread, t
<1>5. Reassembles(t \o q) => Reassembles(t)
  BY <1>2, ReassemblesFront
<1>6. Reassembles(ToolsUnread) => Reassembles(ToolsUnread')
  BY <1>4, <1>5 DEF ToolsUnread, t, q
<1> QED
  BY <1>1, <1>6, NothingCalled DEF ToolInv

-----------------------------------------------------------------------------
(* What the client is told besides chunks has no tools *)

LEMMA QuietFrames ==
  ASSUME NEW kind, NEW text, NEW usage
  PROVE  Frame(kind, text, usage).tools = <<>>
BY DEF Frame

LEMMA OpeningTools == \A b : Opening(b) \in Seq(Readings \cup Frames) /\ ToolsOf(Opening(b)) = <<>>
<1> SUFFICES ASSUME NEW b PROVE Opening(b) \in Seq(Readings \cup Frames) /\ ToolsOf(Opening(b)) = <<>>
  OBVIOUS
<1>1. Opening(b) \in Seq(Readings \cup Frames)
  <2>1. Opening(b) \in Seq(Frames) /\ Frames \subseteq Readings \cup Frames
    BY OpeningType
  <2> QED
    BY <2>1, SeqMonotonic
<1>2. \A i \in 1..Len(Opening(b)) : Opening(b)[i].tools = <<>>
  <2> DEFINE x == Frame("created", <<>>, NoUsage)
             y == Frame("item added", <<>>, NoUsage)
             z == Frame("part added", <<>>, NoUsage)
  <2>1. x.tools = <<>> /\ y.tools = <<>> /\ z.tools = <<>>
    BY QuietFrames
  <2>2. Opening(b) = IF b.started THEN <<>> ELSE <<x, y, z>>
    BY DEF Opening
  <2> HIDE DEF x, y, z
  <2>3. \A i \in 1..Len(<<x, y, z>>) : <<x, y, z>>[i].tools = <<>>
    BY <2>1
  <2> QED
    BY <2>2, <2>3
<1> QED
  BY <1>1, <1>2, NoTools

LEMMA TranslateTools ==
  ASSUME NEW b \in Bridges, NEW chunk \in Readings
  PROVE  Translate(b, chunk) \in Seq(Readings \cup Frames) /\ ToolsOf(Translate(b, chunk)) = <<>>
<1> DEFINE A == Readings \cup Frames
           more == IF chunk.text = <<>> THEN <<>> ELSE << Frame("text delta", chunk.text, NoUsage) >>
           o == Opening(b)
<1>1. o \in Seq(A) /\ ToolsOf(o) = <<>>
  BY OpeningTools
<1>2. more \in Seq(A) /\ ToolsOf(more) = <<>>
  <2> DEFINE f == Frame("text delta", chunk.text, NoUsage)
  <2>1. f \in Frames /\ f.tools = <<>>
    BY ChunkTypes, FrameTypes, QuietFrames
  <2> HIDE DEF f
  <2>2. <<f>> \in Seq(A) /\ ToolsOf(<<f>>) = <<>>
    BY <2>1, ToolsOfOne
  <2>3. <<>> \in Seq(A) /\ ToolsOf(<<>>) = <<>>
    BY NothingCalled
  <2> QED
    BY <2>2, <2>3 DEF f
<1>3. Translate(b, chunk) = o \o more
  BY DEF Translate
<1> HIDE DEF o, more
<1>4. o \o more \in Seq(A) /\ ToolsOf(o \o more) = <<>>
  BY <1>1, <1>2, ToolsConcat, NothingCalled
<1> QED
  BY <1>3, <1>4

LEMMA LastTools ==
  ASSUME PublicCallTypeOK
  PROVE  /\ LastFrames \in Seq(Readings \cup Frames) /\ ToolsOf(LastFrames) = <<>>
         /\ <<Reading("error")>> \in Seq(Readings \cup Frames) /\ ToolsOf(<<Reading("error")>>) = <<>>
<1> DEFINE A == Readings \cup Frames
<1>1. \A kind \in {"done", "error"} : Reading(kind) \in A /\ Reading(kind).tools = <<>>
  BY FrameTypes, QuietFrames DEF Reading
<1>2. \A kind \in {"done", "error"} : <<Reading(kind)>> \in Seq(A) /\ ToolsOf(<<Reading(kind)>>) = <<>>
  BY <1>1, ToolsOfOne
<1>3. Finale(bridge) \in Seq(A) /\ ToolsOf(Finale(bridge)) = <<>>
  <2> DEFINE o == Opening(bridge)
             x == Frame("text done", bridge.text, NoUsage)
             y == Frame("part done", bridge.text, NoUsage)
             z == Frame("item done", bridge.text, NoUsage)
             e == Frame(IF bridge.finish = "length" THEN "incomplete" ELSE "completed", bridge.text, bridge.usage)
             t == <<x, y, z, e>>
  <2>1. bridge.text \in Seq(Nat) /\ bridge.usage \in Usages
    BY DEF PublicCallTypeOK, BridgeType, Bridges
  <2>2. x \in A /\ y \in A /\ z \in A /\ e \in A
    BY <2>1, FrameTypes
  <2>3. x.tools = <<>> /\ y.tools = <<>> /\ z.tools = <<>> /\ e.tools = <<>>
    BY QuietFrames
  <2>4. Finale(bridge) = o \o t
    BY DEF Finale
  <2>5. o \in Seq(A) /\ ToolsOf(o) = <<>>
    BY OpeningTools
  <2> HIDE DEF o, x, y, z, e, A
  <2>6. t \in Seq(A) /\ \A i \in 1..Len(t) : t[i].tools = <<>>
    BY <2>2, <2>3
  <2> HIDE DEF t
  <2>7. ToolsOf(t) = <<>>
    BY <2>6, NoTools DEF A
  <2> QED
    BY <2>4, <2>5, <2>6, <2>7, ToolsConcat, NothingCalled DEF A
<1> QED
  BY <1>2, <1>3 DEF LastFrames

\* Frames without tools add no tool calls to what was told.
LEMMA ToldQuietly ==
  ASSUME PublicCallTypeOK, NEW more \in Seq(Readings \cup Frames), ToolsOf(more) = <<>>
  PROVE  ToolsOf(frames \o more) = ToolsOf(frames) /\ ToolsOf(Told(more)) = ToolsOf(frames)
<1> DEFINE t == ToolsOf(frames)
<1>1. t \in Seq(ToolDeltas) /\ ToolsOf(frames \o more) = t \o <<>>
  <2>1. frames \in Seq(Readings \cup Frames) /\ t \in Seq(ToolDeltas)
    BY ToolsTyped
  <2>2. ToolsOf(frames \o more) = t \o ToolsOf(more)
    BY <2>1, ToolsConcat
  <2> QED
    BY <2>1, <2>2
<1> HIDE DEF t
<1>2. t \o <<>> = t
  BY <1>1
<1> QED
  BY <1>1, <1>2 DEF Told, t

-----------------------------------------------------------------------------
(* Steps that move tool calls *)

LEMMA ToolWrite ==
  ASSUME PublicCallTypeOK, ToolInv, stage = "streaming",
         NEW event \in (IF Anthropic THEN AnthropicEvents ELSE OpenAiEvents) \cup {Ending}, Write(event)
  PROVE  ToolInv'
<1>1. UNCHANGED <<call, sent, parsed, adapter, queue, pump, frames>> /\ written' = Append(written, event)
  BY DEF Write, tellVars
<1>2. (Anthropic' <=> Anthropic) /\ ToolsUnread' = ToolsUnread
  BY <1>1 DEF Anthropic, ToolsUnread
<1>3. ASSUME Anthropic PROVE WellNumbered(Append(written, event))
  <2> DEFINE next == Cardinality(BlocksBegun(written))
             kinds == {"message", "error"}
  <2>1. written \in Seq(Events) /\ WellNumbered(written) /\ event \in Events
    BY <1>3, AnthropicEventsType DEF PublicCallTypeOK, ToolInv
  <2>2. \A name, payload : PayloadOf(Event(name, payload)) = payload
    <3> SUFFICES ASSUME NEW name, NEW payload PROVE PayloadOf(Event(name, payload)) = payload
      OBVIOUS
    <3>1. Event(name, payload).data = << <<payload>> >>
      BY DEF Event
    <3>2. << <<payload>> >>[1] = <<payload>> /\ <<payload>> # <<>> /\ <<payload>>[1] = payload
          /\ ~(Len(<< <<payload>> >>) > 1)
      OBVIOUS
    <3> QED
      BY <3>1, <3>2 DEF PayloadOf
  <2>3. next = Cardinality({i \in DOMAIN written : KindOf(written[i]) \in {"text_start", "tool_start"}})
    BY DEF BlocksBegun
  <2> HIDE DEF next
  <2>4. \/ event = Event("error", <<"error", 0>>)
        \/ event = Event("message", <<"garbled", 0>>)
        \/ event = Event("message", <<"message_start", 1>>)
        \/ event = Event("message", <<"text_start", next>>)
        \/ event = Event("message", <<"tool_start", next>>)
        \/ event = Event("message", <<"text", next - 1>>)
        \/ /\ event = Event("message", <<"args", next - 1>>)
           /\ Event("message", <<"tool_start", next - 1>>) \in Range(written)
        \/ \E n \in 1..2 : event = Event("message", <<"message_delta", n>>)
        \/ event = Event("message", <<"message_stop", 0>>)
    BY <1>3, <2>3 DEF AnthropicEvents, Ending, Garbled
  <2>5. PayloadOf(event) = <<"args", next - 1>> /\ Event("message", <<"tool_start", next - 1>>) \in Range(written)
          => \E j \in DOMAIN written : PayloadOf(written[j]) = <<"tool_start", PayloadOf(event)[2]>>
    BY <2>2 DEF Range
  <2>6. \/ KindOf(event) \notin {"text_start", "tool_start", "args"}
        \/ KindOf(event) \in {"text_start", "tool_start"} /\ PayloadOf(event)[2] = next
        \/ KindOf(event) = "args" /\ PayloadOf(event) = <<"args", next - 1>>
           /\ Event("message", <<"tool_start", next - 1>>) \in Range(written)
    BY <2>2, <2>4 DEF KindOf
  <2> QED
    BY <2>1, <2>5, <2>6, WriteTools DEF next
<1> QED
  BY <1>1, <1>2, <1>3 DEF ToolInv

\* The endpoint tells a chunk.
LEMMA ToolPump ==
  ASSUME PublicCallTypeOK, ToolInv, PumpChunk
  PROVE  ToolInv'
<1> DEFINE A == Readings \cup Frames
           chunk == Head(queue)
           rest == Tail(queue)
           t == ToolsOf(frames)
           q == ToolsOf(rest)
           u == chunk.tools
<1>1. UNCHANGED <<call, sent, written, parsed, adapter>> /\ pump.state = "reading"
  BY DEF PumpChunk
<1>2. queue # <<>> /\ queue' = rest /\ frames' = frames \o FramesOf(chunk)
  BY DEF PumpChunk
<1>3. queue \in Seq(Readings) /\ frames \in Seq(A) /\ t \in Seq(ToolDeltas) /\ bridge \in Bridges
  BY ToolsTyped DEF PublicCallTypeOK, BridgeType
<1>4. chunk \in Readings /\ rest \in Seq(Readings) /\ queue = <<chunk>> \o rest
  BY <1>2, <1>3
<1> HIDE DEF chunk, rest
<1>5. /\ rest \in Seq(A) /\ <<chunk>> \in Seq(A) /\ ToolsOf(<<chunk>>) = chunk.tools
      /\ q \in Seq(ToolDeltas) /\ chunk.tools \in Seq(ToolDeltas)
      /\ ToolsOf(queue) = chunk.tools \o q
      /\ ToolsOf(frames \o <<chunk>>) = t \o chunk.tools
  <2>1. Readings \subseteq A /\ chunk \in A
    BY <1>4
  <2>2. rest \in Seq(A)
    <3> HIDE DEF A
    <3> QED
      BY <1>4, <2>1, SeqMonotonic
  <2>3. <<chunk>> \in Seq(A) /\ ToolsOf(<<chunk>>) = chunk.tools
    BY <2>1, ToolsOfOne
  <2> QED
    BY <1>3, <1>4, <2>2, <2>3, ToolsConcat, ZenonT(30)
<1> HIDE DEF t, q, u, A
<1>6. t \o (chunk.tools \o q) = (t \o chunk.tools) \o q
  <2>1. t \in Seq(ToolDeltas) /\ u \in Seq(ToolDeltas) /\ q \in Seq(ToolDeltas)
    BY <1>3, <1>5 DEF u
  <2>2. t \o (u \o q) = (t \o u) \o q
    BY ONLY <2>1
  <2> QED
    BY <2>2 DEF u
<1>7. (Anthropic' <=> Anthropic) /\ (pump'.state = "reading" => pump.state = "reading")
  BY <1>1 DEF Anthropic
<1>8. CASE call.endpoint = "responses"
  <2>1. FramesOf(chunk) = Translate(bridge, chunk)
    BY <1>8 DEF FramesOf
  <2>2. ToolsOf(frames') = t
    BY <1>2, <1>3, <1>4, <2>1, TranslateTools, ToldQuietly DEF t
  <2>3. ~Anthropic => chunk.tools \o q = <<>>
    BY <1>5 DEF ToolInv
  <2>4. chunk.tools \o q = <<>> => q = <<>>
    BY <1>5
  <2> QED
    BY <1>1, <1>2, <1>7, <1>8, <2>2, <2>3, <2>4 DEF ToolInv, t, q
<1>9. CASE call.endpoint # "responses"
  <2>1. ToolsOf(frames') = t \o chunk.tools /\ ToolsOf(queue') = q
    BY <1>2, <1>5, <1>9 DEF FramesOf, q
  <2>2. ToolsUnread' = ToolsUnread
    BY <1>5, <1>6, <2>1 DEF ToolsUnread, t
  <2>3. ~Anthropic => t = <<>> /\ chunk.tools \o q = <<>>
    BY <1>5 DEF ToolInv, t
  <2>4. chunk.tools \o q = <<>> => q = <<>> /\ chunk.tools = <<>>
    BY <1>5
  <2>5. ~Anthropic => t \o chunk.tools = <<>> /\ q = <<>>
    BY <2>3, <2>4, NothingCalled
  <2> QED
    BY <1>1, <1>7, <1>9, <2>1, <2>2, <2>5 DEF ToolInv
<1> QED
  BY <1>8, <1>9

\* A stream that broke.
LEMMA ToolError ==
  ASSUME PublicCallTypeOK, ToolInv, ReadError
  PROVE  ToolInv'
<1>1. /\ queue = <<>> /\ queue' = <<Reading("failure")>>
      /\ UNCHANGED <<call, sent, written, parsed, adapter, pump, frames>>
  BY DEF ReadError, MayRead, Waiting, tellVars
<1>2. ToolsOf(<<Reading("failure")>>) = <<>>
  <2>1. Reading("failure") \in Readings /\ Reading("failure").tools = <<>>
    BY FrameTypes, QuietFrames DEF Reading
  <2> QED
    BY <2>1, ToolsOfOne
<1>3. ToolsOf(queue') = ToolsOf(queue)
  BY <1>1, <1>2, NothingCalled
<1>4. ToolsUnread' = ToolsUnread /\ (Anthropic' <=> Anthropic)
  BY <1>1, <1>3 DEF ToolsUnread, Anthropic
<1> QED
  BY <1>1, <1>3, <1>4 DEF ToolInv

-----------------------------------------------------------------------------
(* Reading a stream that has tool calls *)

LEMMA SplitFront ==
  ASSUME NEW A, NEW s \in Seq(A), NEW n \in 0..Len(s)
  PROVE  SubSeq(s, 1, n) \in Seq(A) /\ \E t \in Seq(A) : s = SubSeq(s, 1, n) \o t
<1> DEFINE t == SubSeq(s, n + 1, Len(s))
<1>1. t \in Seq(A) /\ SubSeq(s, 1, n) \in Seq(A)
  OBVIOUS
<1>2. s = SubSeq(s, 1, n) \o t
  <2> DEFINE h == SubSeq(s, 1, n)
  <2>1. h \in Seq(A) /\ Len(h) = n /\ \A i \in 1..n : h[i] = s[i]
    OBVIOUS
  <2>2. Len(t) = Len(s) - n /\ \A i \in 1..Len(s) : i > n => t[i - n] = s[i]
    OBVIOUS
  <2> HIDE DEF h, t
  <2>3. Len(h \o t) = Len(s) /\ \A i \in 1..Len(s) : (h \o t)[i] = s[i]
    BY <1>1, <2>1, <2>2
  <2>4. h \o t \in Seq(A)
    BY <1>1, <2>1
  <2> DEFINE c == h \o t
  <2>5. c \in Seq(A) /\ Len(s) = Len(c) /\ \A i \in 1..Len(s) : s[i] = c[i]
    BY <2>3, <2>4
  <2> HIDE DEF c
  <2>6. s = c
    BY <2>5, SeqEqual
  <2> QED
    BY <2>6 DEF c, h
<1> QED
  BY <1>1, <1>2

\* No event of an OpenAI stream of the model has tool calls.
LEMMA ReadQuietly ==
  ASSUME NEW events \in Seq(Events)
  PROVE  LET read == [i \in DOMAIN events |-> ReadEvent(events[i])]
         IN  read \in Seq(Readings) /\ \A i \in 1..Len(read) : read[i].tools = <<>>
<1> DEFINE read == [i \in DOMAIN events |-> ReadEvent(events[i])]
<1>1. \A e \in Events : ReadEvent(e) \in Readings
  BY ReadEventType
<1>2. \A e : ReadEvent(e).tools = <<>>
  <2>1. \A kind \in {"done", "failure"} : Reading(kind).tools = <<>>
    BY DEF Reading, Frame
  <2>2. \A text, finish, usage : Chunk(text, <<>>, finish, usage).tools = <<>>
    BY DEF Chunk
  <2> QED
    BY <2>1, <2>2 DEF ReadEvent
<1>3. DOMAIN events = 1..Len(events) /\ Len(events) \in Nat /\ \A i \in DOMAIN events : events[i] \in Events
  OBVIOUS
<1>4. read \in [1..Len(events) -> Readings]
  BY <1>1, <1>3
<1> HIDE DEF read
<1>5. read \in Seq(Readings) /\ Len(read) = Len(events)
  BY <1>3, <1>4
<1>6. \A i \in 1..Len(read) : read[i].tools = <<>>
  BY <1>2, <1>3, <1>5 DEF read
<1> QED
  BY <1>5, <1>6 DEF read

\* A chunk of the stream was heard.
LEMMA ToolHear ==
  ASSUME PublicCallTypeOK, ToolInv, MayRead,
         NEW chunk \in Seq(Tokens), NEW final \in BOOLEAN, NEW rest, Hear(chunk, final, rest),
         IsPrefix(parsed', written')
  PROVE  ToolInv'
<1>1. parser \in Parsers /\ parsed \in Seq(Events) /\ adapter \in Adapters /\ written \in Seq(Events)
  BY DEF PublicCallTypeOK
<1>2. PICK events \in Seq(Events) : events = Feed(parser, chunk, final).events
  BY <1>1, FeedType
<1>3. PICK heard \in Adapters : heard = AdaptAll(adapter, events)
  BY <1>1, AdaptAllType
<1>4. PICK broken \in BOOLEAN : broken <=> Feed(parser, chunk, final).parser.broken
  OBVIOUS
<1>5. PICK s \in Seq(Events) : s = parsed \o events
  <2>1. parsed \o events \in Seq(Events)
    BY <1>1
  <2> QED
    BY <2>1
<1> DEFINE over == final \/ heard.state = "stopped"
           next == IF broken THEN [heard EXCEPT !.state = "failed"]
                   ELSE IF over /\ heard.state # "failed" THEN CloseAdapter(heard) ELSE heard
           last == IF broken \/ final THEN <<Reading("failure")>> ELSE <<>>
           read == [i \in DOMAIN events |-> ReadEvent(events[i])]
           t == ToolsOf(frames)
           A == Readings \cup Frames
<1>6. /\ parsed' = s
      /\ Anthropic => adapter' = [next EXCEPT !.out = <<>>] /\ queue' \in Handed(next)
      /\ ~Anthropic => adapter' = adapter /\ queue' = read \o last
  BY <1>2, <1>3, <1>4, <1>5 DEF Hear
<1>7. UNCHANGED <<call, sent, written, pump, frames>> /\ queue = <<>> /\ pump.state = "reading"
  BY DEF Hear, tellVars, MayRead, Waiting
<1>8. (Anthropic' <=> Anthropic) /\ t \in Seq(ToolDeltas) /\ ToolsUnread = t /\ ToolsOf(queue) = <<>>
  <2>1. t \in Seq(ToolDeltas)
    BY ToolsTyped
  <2> HIDE DEF t
  <2>2. t \o <<>> = t
    BY <2>1
  <2> QED
    BY <1>7, <2>1, <2>2, NothingCalled DEF ToolsUnread, t, Anthropic
<1>9. CASE ~Anthropic
  <2>1. read \in Seq(A) /\ ToolsOf(read) = <<>>
    <3>1. read \in Seq(Readings) /\ \A i \in 1..Len(read) : read[i].tools = <<>>
      BY ReadQuietly
    <3> HIDE DEF read
    <3>2. read \in Seq(A)
      <4>1. Readings \subseteq A
        OBVIOUS
      <4> HIDE DEF A
      <4> QED
        BY <3>1, <4>1, SeqMonotonic
    <3> QED
      BY <3>1, <3>2, NoTools
  <2>2. last \in Seq(A) /\ ToolsOf(last) = <<>>
    <3>1. Reading("failure") \in A /\ Reading("failure").tools = <<>>
      BY FrameTypes, QuietFrames DEF Reading
    <3>2. <<Reading("failure")>> \in Seq(A) /\ ToolsOf(<<Reading("failure")>>) = <<>>
      BY <3>1, ToolsOfOne
    <3>3. <<>> \in Seq(A)
      OBVIOUS
    <3> QED
      BY <3>2, <3>3, NothingCalled
  <2>3. ToolsOf(queue') = <<>>
    <3> HIDE DEF read, last
    <3> QED
      BY <1>6, <1>9, <2>1, <2>2, ToolsConcat, NothingCalled
  <2> QED
    BY <1>7, <1>8, <1>9, <2>3 DEF ToolInv
<1>10. CASE Anthropic /\ call.endpoint = "responses"
  BY <1>7, <1>8, <1>10 DEF ToolInv
<1>11. CASE Anthropic /\ call.endpoint # "responses"
  <2> DEFINE out == heard.out
             o == ToolsOf(out)
  <2>1. heard.out \in Seq(Readings) /\ heard.state \in {"reading", "stopped", "failed", "closed"}
        /\ heard \in [state : {"reading", "stopped", "failed", "closed"}, input : Nat, output : Nat,
                      finish : Finishes, ordinals : Ordinals, out : Seq(Readings)]
    BY AdapterFields
  <2>2. out \in Seq(A) /\ o \in Seq(ToolDeltas)
    <3>1. Readings \subseteq A
      OBVIOUS
    <3>2. out \in Seq(A)
      <4> HIDE DEF A
      <4> QED
        BY <2>1, <3>1, SeqMonotonic
    <3> HIDE DEF out
    <3> QED
      BY <3>2, ToolsConcat
  <2>3. Reassembles(t) /\ (adapter.state = "reading" => Linked(t, adapter.ordinals, parsed))
    BY <1>7, <1>8, <1>11 DEF ToolInv
  <2>4. WellWritten(s)
    <3>1. Len(s) <= Len(written) /\ SubSeq(s, 1, Len(s)) = SubSeq(written, 1, Len(s))
      BY <1>6, <1>7 DEF IsPrefix
    <3>2. \A i \in 1..Len(s) : s[i] = written[i]
      <4>1. \A i \in 1..Len(s) : SubSeq(s, 1, Len(s))[i] = s[i] /\ SubSeq(written, 1, Len(s))[i] = written[i]
        BY <1>1, <3>1
      <4> QED
        BY <3>1, <4>1
    <3>3. WellWritten(written)
      BY <1>11 DEF ToolInv, WellNumbered
    <3> QED
      BY <1>1, <3>1, <3>2, <3>3, WellFront
  <2>5. Tooled(t, heard, s)
    <3> HIDE DEF t
    <3> QED
      BY <1>1, <1>3, <1>5, <1>8, <2>3, <2>4, AdaptAllTools
  <2>6. Reassembles(t \o o) /\ (heard.state = "reading" => Linked(t \o o, heard.ordinals, s))
    BY <2>5 DEF Tooled
  <2>7. CASE broken \/ heard.state = "failed"
    <3>1. next.state = "failed" /\ next.out = heard.out /\ adapter'.state = "failed"
      <4>1. next = [heard EXCEPT !.state = "failed"]
        BY <2>1, <2>7
      <4> HIDE DEF next
      <4> QED
        BY <1>6, <1>11, <2>1, <4>1
    <3> HIDE DEF next
    <3>2. PICK n \in 0..Len(out) : queue' = SubSeq(out, 1, n) \o <<Reading("failure")>>
      BY <1>6, <1>11, <3>1 DEF Handed
    <3> DEFINE front == SubSeq(out, 1, n)
    <3>3. PICK u \in Seq(A) : out = front \o u
      <4> HIDE DEF A, out
      <4> QED
        BY <2>2, SplitFront
    <3>4. front \in Seq(A)
      <4> HIDE DEF A, out
      <4> QED
        BY <2>2, SplitFront
    <3>5. Reading("failure") \in A /\ Reading("failure").tools = <<>>
      BY FrameTypes, QuietFrames DEF Reading
    <3>6. <<Reading("failure")>> \in Seq(A) /\ ToolsOf(<<Reading("failure")>>) = <<>>
      BY <3>5, ToolsOfOne
    <3> DEFINE f == ToolsOf(front)
               v == ToolsOf(u)
    <3> HIDE DEF front, out
    <3>7. /\ f \in Seq(ToolDeltas) /\ v \in Seq(ToolDeltas) /\ o = f \o v
          /\ ToolsOf(queue') = f \o <<>>
      BY <3>2, <3>3, <3>4, <3>6, ToolsConcat, ZenonT(30) DEF front
    <3> HIDE DEF t, o, f, v
    <3>8. Reassembles(t \o f) /\ f \o <<>> = f
      BY <1>8, <2>6, <3>7, ReassemblesHalf
    <3>9. ToolsUnread' = t \o f
      BY <1>7, <3>7, <3>8 DEF ToolsUnread, t
    <3> QED
      BY <1>7, <1>8, <1>11, <3>1, <3>8, <3>9 DEF ToolInv
  <2>8. CASE ~broken /\ heard.state # "failed" /\ over
    <3> DEFINE end == << Chunk(<<>>, <<>>, "none", Usage(heard.input, heard.output)), Reading("done") >>
    <3>1. next = [heard EXCEPT !.state = "closed", !.out = heard.out \o end] /\ end \in Seq(Readings)
      BY <2>8, CloseType
    <3>2. next.state = "closed" /\ next.out = out \o end /\ adapter'.state = "closed"
      <4> HIDE DEF next, end
      <4> QED
        BY <1>6, <1>11, <2>1, <3>1
    <3>3. queue' = out \o end
      <4> HIDE DEF next, end, out
      <4> QED
        BY <1>6, <1>11, <3>2 DEF Handed
    <3>4. end \in Seq(A)
      <4>1. Readings \subseteq A
        OBVIOUS
      <4> HIDE DEF A, end
      <4> QED
        BY <3>1, <4>1, SeqMonotonic
    <3>5. ToolsOf(end) = <<>>
      <4>1. Reading("done").tools = <<>> /\ \A usage : Chunk(<<>>, <<>>, "none", usage).tools = <<>>
        BY DEF Reading, Frame, Chunk
      <4>2. \A i \in 1..Len(end) : end[i].tools = <<>>
        BY <4>1
      <4> HIDE DEF end
      <4> QED
        BY <3>4, <4>2, NoTools
    <3> HIDE DEF next, end, out
    <3>6. ToolsOf(queue') = o \o <<>>
      BY <2>2, <3>3, <3>4, <3>5, ToolsConcat
    <3> HIDE DEF t, o
    <3>7. o \o <<>> = o
      BY <2>2
    <3>8. ToolsUnread' = t \o o
      BY <1>7, <3>6, <3>7 DEF ToolsUnread, t
    <3> QED
      BY <1>7, <1>8, <1>11, <2>6, <3>2, <3>8 DEF ToolInv
  <2>9. CASE ~broken /\ heard.state # "failed" /\ ~over
    <3>1. next = heard
      BY <2>9
    <3>2. /\ adapter'.state = heard.state /\ adapter'.ordinals = heard.ordinals
          /\ queue' = out
      <4> HIDE DEF next
      <4> QED
        BY <1>6, <1>11, <2>1, <2>9, <3>1 DEF Handed
    <3> HIDE DEF next, out
    <3>3. ToolsUnread' = t \o o
      BY <1>7, <3>2 DEF ToolsUnread
    <3> HIDE DEF t, o
    <3> QED
      BY <1>6, <1>7, <1>8, <1>11, <2>6, <3>2, <3>3 DEF ToolInv, t
  <2> QED
    BY <2>7, <2>8, <2>9
<1> QED
  BY <1>9, <1>10, <1>11

LEMMA ToolStep ==
  ASSUME PublicCallTypeOK, PublicCallTypeOK', RequestInv, ControlInv, ParseInv', ToolInv, [PublicCallNext]_vars
  PROVE  ToolInv'
<1>0. stream.text \in Seq(Tokens) /\ PumpType /\ frames' \in Seq(Frames)
  BY DEF PublicCallTypeOK
<1>1. ASSUME stage \notin {"streaming", "over"}, UNCHANGED streamVars,
             frames' = frames \/ \E kind, text, usage : frames' = <<Frame(kind, text, usage)>>
      PROVE  ToolInv'
  <2>1. written' = <<>> /\ queue' = <<>> /\ adapter' = NewAdapter /\ parsed' = <<>> /\ frames = <<>>
    BY <1>1 DEF ControlInv, Pristine, streamVars
  <2>2. ToolsOf(frames') = <<>>
    <3>1. CASE frames' = frames
      BY <2>1, <3>1, NothingCalled
    <3>2. CASE \E kind, text, usage : frames' = <<Frame(kind, text, usage)>>
      <4>1. PICK kind, text, usage : frames' = <<Frame(kind, text, usage)>>
        BY <3>2
      <4> DEFINE f == Frame(kind, text, usage)
      <4>2. f.tools = <<>>
        BY QuietFrames
      <4> HIDE DEF f
      <4>3. f \in Frames
        BY <1>0, <4>1 DEF f
      <4> QED
        BY <4>1, <4>2, <4>3, ToolsOfOne DEF f
    <3> QED
      BY <1>1, <3>1, <3>2
  <2> QED
    BY <2>1, <2>2, ToolFresh
<1>2. CASE Start
  BY <1>1, <1>2 DEF Start, tellVars
<1>3. CASE \E body \in Bodies : Receive(body)
  BY <1>1, <1>3 DEF Receive, tellVars
<1>4. CASE stage = "reserved" /\ \E route \in CandidateRoutes(CallModel) : Send(route)
  BY <1>1, <1>4 DEF Send
<1>5. CASE \E answer \in Answers : AnswerBody(answer)
  BY <1>1, <1>5, AnswerCases
<1>6. CASE \E beginning \in Beginnings : OpenStream(beginning[1], beginning[2])
  BY <1>6, ToolKept DEF OpenStream, tellVars
<1>7. CASE /\ stage = "streaming"
           /\ \E event \in (IF Anthropic THEN AnthropicEvents ELSE OpenAiEvents) \cup {Ending} : Write(event)
  BY <1>7, ToolWrite
<1>8. CASE \E partial \in {<<>>, <<DataField, Done>> \o stream.newline} : EndStream(partial)
  BY <1>8, ToolKept DEF EndStream, tellVars
<1>9. CASE BreakStream
  BY <1>9, ToolKept DEF BreakStream, tellVars
<1>10. ASSUME MayRead, NEW chunk \in Seq(Tokens), NEW final \in BOOLEAN, NEW rest, Hear(chunk, final, rest)
       PROVE  ToolInv'
  BY <1>10, ToolHear DEF ParseInv
<1>11. CASE ReadChunk
  BY <1>0, <1>10, <1>11 DEF ReadChunk
<1>12. CASE \E n \in 1..Len(stream.text) : ReadPart(n)
  <2>1. PICK n \in 1..Len(stream.text) : ReadPart(n)
    BY <1>12
  <2> DEFINE text == stream.text
  <2> HIDE DEF text
  <2>2. SubSeq(text, 1, n) \in Seq(Tokens)
    BY <1>0, <2>1 DEF text
  <2> QED
    BY <1>10, <2>1, <2>2 DEF ReadPart, text
<1>13. CASE ReadEnd
  <2>1. <<>> \in Seq(Tokens)
    BY EmptyTypes
  <2> QED
    BY <1>10, <1>13, <2>1 DEF ReadEnd
<1>14. CASE ReadError
  BY <1>14, ToolError
<1>15. CASE PumpChunk
  BY <1>15, ToolPump
<1>16. CASE PumpEnd
  <2>1. pump'.state # "reading" /\ queue' = <<>> /\ UNCHANGED <<call, sent, written, parsed, adapter, frames>>
    BY <1>0, <1>16 DEF PumpEnd, PumpType, tellVars
  <2> QED
    BY <2>1, ToolEnds
<1>17. CASE Cancel
  <2>1. pump'.state = pump.state /\ UNCHANGED <<call, sent, written, parsed, adapter, queue, frames>>
    BY <1>0, <1>17 DEF Cancel, PumpType, tellVars
  <2> QED
    BY <2>1, ToolKept
<1>18. CASE Settle
  BY <1>18, ToolKept DEF Settle
<1>19. CASE Finalized \/ Closed \/ Failed
  <2>1. pump.state # "reading" /\ pump'.state # "reading"
        /\ UNCHANGED <<call, sent, written, parsed, adapter, queue>>
    BY <1>0, <1>19 DEF Finalized, Closed, Failed, Over, PumpType
  <2>2. queue' = <<>>
    BY <2>1 DEF ControlInv
  <2>3. frames' = frames \/ frames' = Told(LastFrames) \/ frames' = Told(<<Reading("error")>>)
    BY <1>19 DEF Finalized, Closed, Failed, Over
  <2>4. ToolsOf(frames') = ToolsOf(frames)
    BY <2>3, LastTools, ToldQuietly
  <2> QED
    BY <2>1, <2>2, <2>4, ToolEnds
<1>20. CASE UNCHANGED vars
  BY <1>20, ToolKept DEF vars
<1> QED
  BY <1>2, <1>3, <1>4, <1>5, <1>6, <1>7, <1>8, <1>9, <1>11, <1>12, <1>13, <1>14, <1>15, <1>16, <1>17,
     <1>18, <1>19, <1>20 DEF PublicCallNext

\* Collecting the tool calls of the frames is what ToldCalls does.
LEMMA ToldCallsAre ==
  ASSUME PublicCallTypeOK
  PROVE  ToldCalls = ToolsOf(frames)
<1>1. frames \in Seq(Readings \cup Frames)
  BY ToolsTyped
<1>2. DOMAIN frames = 1..Len(frames) /\ \A i \in DOMAIN frames : frames[i] \in Readings \cup Frames
  BY <1>1
<1>3. \A i \in DOMAIN frames : ToolsIn[frames[i]] = frames[i].tools
  BY <1>2 DEF ToolsIn
<1>4. [i \in DOMAIN frames |-> frames[i].tools] = [i \in DOMAIN frames |-> ToolsIn[frames[i]]]
  BY <1>3
<1> QED
  BY <1>4 DEF ToldCalls, ToolsOf, Collect, Mapped

LEMMA ToldReassemble ==
  ASSUME PublicCallTypeOK, ToolInv
  PROVE  ToolCallsReassemble
<1> DEFINE t == ToolsOf(frames)
<1>1. Reassembles(t)
  <2>1. t \in Seq(ToolDeltas) /\ ToolsOf(queue) \in Seq(ToolDeltas)
    BY ToolsTyped
  <2>2. CASE t = <<>>
    BY <2>2, NothingCalled
  <2>3. CASE t # <<>>
    <3>1. Reassembles(t \o ToolsOf(queue))
      BY <2>3 DEF ToolInv, ToolsUnread
    <3> QED
      BY <2>1, <3>1, ReassemblesFront
  <2> QED
    BY <2>2, <2>3
<1>2. ToldCalls = t
  BY ToldCallsAre
<1> HIDE DEF t
<1> QED
  BY <1>1, <1>2 DEF ToolCallsReassemble, Reassembles, Starts, StartsBefore

(***************************************************************************)
(* A client that puts the tool calls it was told together by their place   *)
(* gets those of the provider: the adapter counts the calls from zero and  *)
(* gives arguments the place of their block's call, however text and tools *)
(* follow one another, whatever arrives together, and wherever the stream  *)
(* breaks (providers.ts:553-556).                                          *)
(***************************************************************************)
THEOREM ToolCallsFit == PublicCallSpec => []ToolCallsReassemble
<1>1. PublicCallInit => CallInv /\ ParseInv /\ ToolInv
  BY CallInvInit, ParseInit, ToolInit
<1>2. CallInv /\ ParseInv /\ ToolInv /\ [PublicCallNext]_vars => (CallInv /\ ParseInv /\ ToolInv)'
  BY CallInvStep, ParseStep, ToolStep DEF CallInv
<1>3. CallInv /\ ToolInv => ToolCallsReassemble
  BY ToldReassemble DEF CallInv
<1> QED
  BY <1>1, <1>2, <1>3, PTL DEF PublicCallSpec
=============================================================================
