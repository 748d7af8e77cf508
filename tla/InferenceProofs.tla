-------------------------- MODULE InferenceProofs --------------------------
(* Theorems about Inference, for every value of its constants. *)
EXTENDS Inference, BillingProofs

-----------------------------------------------------------------------------
(***************************************************************************)
(* The inductive invariant.  What it says of one handler is split by what  *)
(* it is about: the row it works on, the time it has left, the work the    *)
(* provider did for it, and how it ends.  Handlers own distinct rows, and  *)
(* a row that the sweep read as stale is still overdue if it is still open.*)
(***************************************************************************)

\* The steps in which a handler holds a reservation that it may still need.
Working == Attempting \cup {"dispatch", "attempt"}

Running == Working \cup {"refund", "mark"}

Open(r) == reservation[r].state = "reserved"

RowFine(c) ==
    /\ c.pc \in {"idle", "reserve"} => c.id = NoId
    /\ c.pc \in Running \/ c.consumed \/ c.chargeable \/ c.refused \/ c.outcome = "ok" => c.id # NoId
    /\ c.id # NoId => request[c.id].status # "none" /\ expires[c.id] = c.deadline

TimeFine(c) ==
    /\ c.pc \in Working /\ now < c.deadline => Open(c.id) /\ ~reservation[c.id].overdue
    /\ c.pc \in Attempting => c.slack < Buffer /\ c.route \in 1..Len(PoolOf)
    /\ c.pc = "claim" => c.attempts < MaxAttempts
    /\ c.pc \in {"claim", "audit"} => now + TimeoutOf[c.route] + Buffer <= c.deadline + c.slack
    /\ c.pc \in {"calling", "streaming"} => now <= c.ends /\ c.ends + Buffer <= c.deadline + c.slack
    /\ c.pc \in {"release", "settle"} => now + Buffer <= c.deadline + c.slack

WorkFine(c) ==
    /\ c.pc = "dispatch" => (Open(c.id) => request[c.id].status = "reserved")
    /\ c.pc \in {"streaming", "settle"} => c.consumed
    /\ c.pc = "release" /\ c.error = "none" => c.consumed
    /\ c.consumed => c.pc \in {"streaming", "release", "settle", "mark", "done"}
    /\ c.consumed /\ c.pc = "release" => c.error \in {"none", "unknown"}
    /\ c.consumed \/ c.pc \in Working \ {"dispatch"}
       => (Open(c.id) => request[c.id].dispatched)

EndFine(c) ==
    /\ c.outcome = "ok" => c.pc = "done" /\ reservation[c.id].state = "settled"
    /\ c.id # NoId /\ reservation[c.id].state = "settled" => c.consumed
    /\ c.id # NoId /\ c.pc = "done" /\ ~c.faulty => ~Open(c.id)
    /\ c.pc = "streaming" => c.error = "none"
    /\ c.refused => c.pc \in {"mark", "done"} /\ reservation[c.id].state # "settled"
    /\ c.chargeable =>
         /\ c.pc \in {"release", "settle", "mark", "done"}
         /\ c.pc = "release" => c.error = "none" /\ (c.terminal # "fail" \/ c.usage)
         /\ ~c.faulty /\ ~c.refused => /\ c.pc # "mark"
                                       /\ c.pc = "done" => reservation[c.id].state = "settled"

Fine(c) == RowFine(c) /\ TimeFine(c) /\ WorkFine(c) /\ EndFine(c)

HandlersFine == \A h \in Handlers : Fine(call[h])

OwnRows == \A g, h \in Handlers : g # h /\ call[g].id # NoId => call[g].id # call[h].id

SweepFine ==
    \A m \in Maintainers : \A row \in sweep[m].rows :
        /\ request[row[1]].status # "none"
        /\ sweep[m].phase = "stale" /\ Open(row[1]) =>
             /\ reservation[row[1]].overdue
             /\ ~row[2] => \A h \in Handlers : call[h].id = row[1] => ~call[h].consumed

IInv == InferenceTypeOK /\ RowsCoherent /\ HandlersFine /\ OwnRows /\ SweepFine

-----------------------------------------------------------------------------
(* Initial states *)

LEMMA IdleCallType == IdleCall \in Call
<1>1. 1 \in 1..(Len(PoolOf) + 1) /\ 0 \in 0..MaxAttempts /\ 0 \in 0..Buffer
  BY InferenceAssumption
<1>2. QED
  BY <1>1 DEF IdleCall, Call, Steps, Errors

LEMMA IInvInit == InferenceInit => IInv
<1> SUFFICES ASSUME InferenceInit PROVE IInv
  OBVIOUS
<1>1. TypeOK /\ RowsCoherent
  BY TypeInit, CoherentInit DEF InferenceInit
<1>2. call \in [Handlers -> Call]
  BY IdleCallType DEF InferenceInit
<1>3. InferenceTypeOK
  BY <1>1, <1>2, InferenceAssumption DEF InferenceInit, InferenceTypeOK
<1>4. HandlersFine
  BY DEF InferenceInit, HandlersFine, Fine, RowFine, TimeFine, WorkFine, EndFine, IdleCall,
         Running, Working, Attempting
<1>5. OwnRows
  BY DEF InferenceInit, OwnRows, IdleCall
<1>6. SweepFine
  BY DEF InferenceInit, Init, SweepFine
<1>7. QED
  BY <1>1, <1>3, <1>4, <1>5, <1>6 DEF IInv

-----------------------------------------------------------------------------
(* What a step of one handler, or of nobody, leaves true of the others *)

LEMMA TimeoutType ==
  ASSUME NEW n \in 1..Len(PoolOf)
  PROVE  TimeoutOf[n] \in Nat /\ TimeoutOf[n] > 0
BY InferenceAssumption

\* A step that touches no row: only the handler itself must be looked at.
LEMMA QuietStep ==
  ASSUME IInv, InferenceTypeOK', NEW h \in Handlers, NEW next \in Call,
         call' = [call EXCEPT ![h] = next], UNCHANGED <<vars, expires, now>>,
         next.id = call[h].id, Fine(next),
         next.consumed => call[h].consumed \/ (call[h].id # NoId => ~reservation[call[h].id].overdue)
  PROVE  IInv'
<1>1. /\ call \in [Handlers -> Call]
      /\ \A g \in Handlers : call'[g] = IF g = h THEN next ELSE call[g]
      /\ \A g \in Handlers : call'[g].id = call[g].id
  BY DEF IInv, InferenceTypeOK
<1>2. UNCHANGED <<request, reservation, sweep>>
  BY DEF vars
<1>3. RowsCoherent'
  BY <1>2 DEF IInv, RowsCoherent
<1>4. HandlersFine'
  <2>1. \A g \in Handlers : RowFine(call'[g]) /\ TimeFine(call'[g]) /\ WorkFine(call'[g]) /\ EndFine(call'[g])
    BY <1>1 DEF IInv, HandlersFine, Fine
  <2>2. \A g \in Handlers : RowFine(call[g])'
    BY <1>2, <2>1 DEF RowFine
  <2>3. \A g \in Handlers : TimeFine(call[g])'
    BY <1>2, <2>1 DEF TimeFine, Open
  <2>4. \A g \in Handlers : WorkFine(call[g])'
    BY <1>2, <2>1 DEF WorkFine, Open
  <2>5. \A g \in Handlers : EndFine(call[g])'
    BY <1>2, <2>1 DEF EndFine, Open
  <2>6. QED
    BY <2>2, <2>3, <2>4, <2>5 DEF HandlersFine, Fine
<1>5. OwnRows'
  BY <1>1 DEF IInv, OwnRows
<1>6. SweepFine'
  <2>1. \A m \in Maintainers : \A row \in sweep[m].rows :
          sweep[m].phase = "stale" /\ Open(row[1]) /\ ~row[2] =>
            \A g \in Handlers : call[g].id = row[1] => ~call'[g].consumed
    <3>1. SUFFICES ASSUME NEW m \in Maintainers, NEW row \in sweep[m].rows, NEW g \in Handlers,
                          sweep[m].phase = "stale", Open(row[1]), ~row[2], call[g].id = row[1]
                   PROVE  ~call'[g].consumed
      OBVIOUS
    <3>2. ~call[g].consumed /\ reservation[row[1]].overdue
      BY <3>1 DEF IInv, SweepFine
    <3>3. row[1] \in RequestIds
      BY <3>1 DEF IInv, InferenceTypeOK, TypeOK, Sweep
    <3>4. call[g].id # NoId
      BY <3>1, <3>3, InferenceAssumption
    <3>5. QED
      BY <1>1, <3>1, <3>2, <3>4
  <2>2. QED
    BY <1>1, <1>2, <2>1 DEF IInv, SweepFine, Open
<1>7. QED
  BY <1>3, <1>4, <1>5, <1>6 DEF IInv

\* What the rest of the system may do to a row that a handler still needs.
Moves(q) ==
    /\ expires'[q] = expires[q]
    /\ request'[q].status # "none"
    /\ reservation'[q].state = "settled" <=> reservation[q].state = "settled"
    /\ reservation'[q].state = "reserved" =>
         /\ Open(q)
         /\ reservation[q].overdue => reservation'[q].overdue
         /\ request[q].dispatched => request'[q].dispatched
         /\ request'[q].status = request[q].status
    /\ Open(q) /\ ~reservation[q].overdue /\ now < expires[q]
       => reservation'[q].state = "reserved" /\ ~reservation'[q].overdue

LEMMA OthersFine ==
  ASSUME IInv, NEW g \in Handlers, call'[g] = call[g], now' = now,
         call[g].id # NoId => Moves(call[g].id)
  PROVE  Fine(call[g])'
<1>1. /\ call[g] \in Call
      /\ RowFine(call[g]) /\ TimeFine(call[g]) /\ WorkFine(call[g]) /\ EndFine(call[g])
  BY DEF IInv, InferenceTypeOK, HandlersFine, Fine
<1>2. \/ call[g].pc \in Running \/ call[g].consumed \/ call[g].chargeable \/ call[g].refused
      \/ call[g].outcome = "ok"
      => call[g].id # NoId
  BY <1>1 DEF RowFine
<1>3. RowFine(call[g])'
  BY <1>1, <1>2 DEF RowFine, Moves
<1>4. TimeFine(call[g])'
  BY <1>1, <1>2 DEF TimeFine, RowFine, Moves, Open, Running
<1>5. WorkFine(call[g])'
  BY <1>1, <1>2 DEF WorkFine, Moves, Open, Running, Working
<1>6. EndFine(call[g])'
  BY <1>1, <1>2 DEF EndFine, Moves, Open
<1>7. QED
  BY <1>3, <1>4, <1>5, <1>6 DEF Fine

\* A step of handler h that calls the store for its own row.
LEMMA StoreStep ==
  ASSUME IInv, InferenceTypeOK', RowsCoherent', NEW h \in Handlers, NEW next \in Call,
         call' = [call EXCEPT ![h] = next], now' = now, sweep' = sweep,
         Fine(next)', next.consumed => call[h].consumed,
         next.id = call[h].id \/ (next.id \in RequestIds /\ request[next.id].status = "none"),
         \A q \in RequestIds : request[q].status # "none" =>
            \/ Moves(q)
            \/ /\ q = call[h].id
               /\ request'[q].status # "none"
               /\ reservation'[q].state = "reserved" =>
                    Open(q) /\ (reservation[q].overdue => reservation'[q].overdue)
  PROVE  IInv'
<1>1. /\ call \in [Handlers -> Call]
      /\ \A g \in Handlers : call'[g] = IF g = h THEN next ELSE call[g]
  BY DEF IInv, InferenceTypeOK
<1>2. \A g \in Handlers : call[g].id # NoId =>
          /\ call[g].id \in RequestIds /\ request[call[g].id].status # "none"
          /\ g # h => call[g].id # call[h].id
  <2>1. \A g \in Handlers : call[g].id \in RequestIds \cup {NoId}
    BY <1>1 DEF Call
  <2>2. QED
    BY <2>1 DEF IInv, HandlersFine, Fine, RowFine, OwnRows
<1>3. HandlersFine'
  <2>1. ASSUME NEW g \in Handlers, g # h PROVE Fine(call[g])'
    BY <1>1, <1>2, <2>1, OthersFine
  <2>2. RowFine(next)' /\ TimeFine(next)' /\ WorkFine(next)' /\ EndFine(next)'
    BY DEF Fine
  <2>3. Fine(call[h])'
    BY <1>1, <2>2 DEF Fine, RowFine, TimeFine, WorkFine, EndFine, Open
  <2>4. QED
    BY <2>1, <2>3 DEF HandlersFine
<1>4. OwnRows'
  BY <1>1, <1>2 DEF IInv, OwnRows
<1>5. SweepFine'
  <2>1. SUFFICES ASSUME NEW m \in Maintainers, NEW row \in sweep[m].rows
                 PROVE  /\ request'[row[1]].status # "none"
                        /\ sweep[m].phase = "stale" /\ reservation'[row[1]].state = "reserved" =>
                             /\ reservation'[row[1]].overdue
                             /\ ~row[2] => \A g \in Handlers : call'[g].id = row[1] => ~call'[g].consumed
    BY DEF SweepFine, Open
  <2>2. row[1] \in RequestIds /\ request[row[1]].status # "none"
    BY DEF IInv, SweepFine, InferenceTypeOK, TypeOK, Sweep
  <2>3. request'[row[1]].status # "none"
    BY <2>2 DEF Moves
  <2>4. ASSUME sweep[m].phase = "stale", reservation'[row[1]].state = "reserved"
        PROVE  /\ Open(row[1]) /\ reservation'[row[1]].overdue
               /\ ~row[2] => \A g \in Handlers : call[g].id = row[1] => ~call[g].consumed
    BY <2>2, <2>4 DEF Moves, IInv, SweepFine
  <2>5. ASSUME NEW g \in Handlers, call'[g].id = row[1], call'[g].consumed
        PROVE  call[g].id = row[1] /\ call[g].consumed
    BY <1>1, <2>2, <2>5
  <2>6. QED
    BY <2>3, <2>4, <2>5
<1>6. QED
  BY <1>3, <1>4, <1>5 DEF IInv

\* A step of the sweep, of the administrator, or of a deadline.
LEMMA SystemStep ==
  ASSUME IInv, InferenceTypeOK', RowsCoherent', SweepFine', UNCHANGED <<call, now>>,
         \A q \in RequestIds : request[q].status # "none" => Moves(q)
  PROVE  IInv'
<1>1. \A g \in Handlers : call[g].id # NoId =>
         call[g].id \in RequestIds /\ request[call[g].id].status # "none"
  <2>1. \A g \in Handlers : call[g].id \in RequestIds \cup {NoId}
    BY DEF IInv, InferenceTypeOK, Call
  <2>2. QED
    BY <2>1 DEF IInv, HandlersFine, Fine, RowFine
<1>2. HandlersFine'
  BY <1>1, OthersFine DEF HandlersFine
<1>3. OwnRows'
  BY DEF IInv, OwnRows
<1>4. QED
  BY <1>2, <1>3 DEF IInv

-----------------------------------------------------------------------------
(* Steps of a handler that do not change the rows *)

LEMMA QuietKeeps ==
  ASSUME IInv, NEW h \in Handlers, NEW next \in Call,
         call' = [call EXCEPT ![h] = next], UNCHANGED <<vars, expires, now>>,
         leases' \subseteq Leases, faults' \in 0..MaxFaults, crashes' \in 0..MaxCrashes,
         next.id = call[h].id, Fine(next),
         next.consumed => call[h].consumed \/ (call[h].id # NoId => ~reservation[call[h].id].overdue)
  PROVE  IInv'
<1>1. TypeOK'
  BY DEF IInv, InferenceTypeOK, TypeOK, vars
<1>2. InferenceTypeOK'
  BY <1>1 DEF IInv, InferenceTypeOK
<1>3. QED
  BY <1>2, QuietStep

\* The next record of a handler that takes a step without touching the rows.
Good(c, next) ==
    /\ next \in Call /\ Fine(next) /\ next.id = c.id
    /\ next.consumed => c.consumed \/ (c.id # NoId => ~reservation[c.id].overdue)

LEMMA Numbers ==
  /\ Len(PoolOf) \in Nat /\ MaxAttempts \in Nat /\ Ttl \in Nat /\ Buffer \in Nat /\ Buffer > 0
  /\ MaxTime \in Nat /\ MaxFaults \in Nat /\ MaxCrashes \in Nat
  /\ 0 \in 0..Buffer
BY InferenceAssumption

LEMMA Fields ==
  ASSUME NEW c \in Call
  PROVE  /\ c.deadline \in Nat /\ c.route \in 1..(Len(PoolOf) + 1) /\ c.attempts \in 0..MaxAttempts
         /\ c.ends \in Nat /\ c.slack \in 0..Buffer
BY DEF Call

\* The clock cannot reach the deadline before the attempt has been settled.
LEMMA StillHeld ==
  ASSUME NEW c \in Call, Fine(c), now \in Nat, c.pc \in Attempting
  PROVE  Open(c.id) /\ ~reservation[c.id].overdue
<1>1. now < c.deadline
  <2>1. c.slack < Buffer /\ c.route \in 1..Len(PoolOf)
    BY DEF Fine, TimeFine
  <2>2. TimeoutOf[c.route] \in Nat
    BY <2>1, TimeoutType
  <2>3. CASE c.pc \in {"claim", "audit"}
    BY <2>1, <2>2, <2>3, Fields, Numbers, SMTT(30) DEF Fine, TimeFine
  <2>4. CASE c.pc \in {"calling", "streaming"}
    BY <2>1, <2>4, Fields, Numbers DEF Fine, TimeFine
  <2>5. CASE c.pc \in {"release", "settle"}
    BY <2>1, <2>5, Fields, Numbers DEF Fine, TimeFine
  <2>6. QED
    BY <2>3, <2>4, <2>5 DEF Attempting
<1>2. QED
  BY <1>1 DEF Fine, TimeFine, Working

LEMMA GoodPrepare ==
  ASSUME NEW c \in Call, Fine(c), c.pc = "idle", NEW stream \in BOOLEAN, NEW t \in Nat
  PROVE  Good(c, [c EXCEPT !.pc = "reserve", !.stream = stream, !.deadline = t])
<1> DEFINE next == [c EXCEPT !.pc = "reserve", !.stream = stream, !.deadline = t]
<1>1. next \in Call /\ next.id = c.id /\ next.consumed = c.consumed
  BY DEF Call, Steps
<1>2. Fine(next)
  BY DEF Call, Fine, RowFine, TimeFine, WorkFine, EndFine, Running, Working, Attempting, Open
<1>3. QED
  BY <1>1, <1>2 DEF Good

LEMMA GoodGiveUp ==
  ASSUME NEW c \in Call, Fine(c), c.pc = "attempt"
  PROVE  Good(c, [c EXCEPT !.pc = "refund"])
<1> DEFINE next == [c EXCEPT !.pc = "refund"]
<1>1. next \in Call /\ next.id = c.id /\ next.consumed = c.consumed
  BY DEF Call, Steps
<1>2. Fine(next)
  BY DEF Call, Fine, RowFine, TimeFine, WorkFine, EndFine, Running, Working, Attempting, Open
<1>3. QED
  BY <1>1, <1>2 DEF Good

LEMMA GoodFit ==
  ASSUME NEW c \in Call, Fine(c), c.pc = "attempt", now \in Nat,
         c.route <= Len(PoolOf), c.attempts < MaxAttempts,
         now + TimeoutOf[c.route] + Buffer <= c.deadline
  PROVE  Good(c, [c EXCEPT !.pc = "claim", !.slack = 0])
<1> DEFINE next == [c EXCEPT !.pc = "claim", !.slack = 0]
<1>1. next \in Call /\ next.id = c.id /\ next.consumed = c.consumed
  BY Numbers DEF Call, Steps
<1>2. RowFine(next) /\ WorkFine(next) /\ EndFine(next)
  BY DEF Call, Fine, RowFine, WorkFine, EndFine, Running, Working, Attempting
<1>3. TimeFine(next)
  <2>1. /\ next.pc = "claim" /\ next.slack = 0 /\ next.route = c.route
        /\ next.deadline = c.deadline /\ next.attempts = c.attempts
    BY DEF Call
  <2>2. c.pc \in Working
    BY DEF Working
  <2> HIDE DEF next
  <2>3. QED
    BY <1>1, <2>1, <2>2, Numbers, Fields DEF Fine, TimeFine, Working
<1>4. QED
  BY <1>1, <1>2, <1>3 DEF Good, Fine

LEMMA GoodSkip ==
  ASSUME NEW c \in Call, Fine(c), c.pc \in {"attempt", "claim"}, c.route <= Len(PoolOf)
  PROVE  Good(c, [c EXCEPT !.pc = "attempt", !.route = @ + 1, !.tried = {}])
<1> DEFINE next == [c EXCEPT !.pc = "attempt", !.route = @ + 1, !.tried = {}]
<1>1. c.route + 1 \in 1..(Len(PoolOf) + 1)
  BY Fields, Numbers
<1>2. next \in Call /\ next.id = c.id /\ next.consumed = c.consumed
  BY <1>1 DEF Call, Steps
<1>3. Fine(next)
  BY DEF Call, Fine, RowFine, TimeFine, WorkFine, EndFine, Running, Working, Attempting, Open
<1>4. QED
  BY <1>2, <1>3 DEF Good

LEMMA NextAttemptTyped ==
  ASSUME NEW c \in Call, Fine(c), c.pc = "claim"
  PROVE  c.attempts + 1 \in 0..MaxAttempts
<1>1. c.attempts < MaxAttempts
  BY DEF Fine, TimeFine
<1>2. QED
  BY <1>1, Fields, Numbers

LEMMA GoodTake ==
  ASSUME NEW c \in Call, Fine(c), c.pc = "claim", NEW k \in Credentials
  PROVE  Good(c, [c EXCEPT !.pc = "audit", !.claim = k, !.tried = @ \cup {k}, !.attempts = @ + 1])
<1> DEFINE next == [c EXCEPT !.pc = "audit", !.claim = k, !.tried = @ \cup {k}, !.attempts = @ + 1]
<1>1. c.attempts + 1 \in 0..MaxAttempts
  BY NextAttemptTyped
<1>2. next \in Call /\ next.id = c.id /\ next.consumed = c.consumed
  BY <1>1 DEF Call, Steps
<1>3. Fine(next)
  BY DEF Call, Fine, RowFine, TimeFine, WorkFine, EndFine, Running, Working, Attempting, Open
<1>4. QED
  BY <1>2, <1>3 DEF Good

LEMMA GoodStart ==
  ASSUME NEW c \in Call, Fine(c), c.pc = "audit", now \in Nat
  PROVE  Good(c, [c EXCEPT !.pc = "calling", !.ends = now + TimeoutOf[c.route]])
<1> DEFINE next == [c EXCEPT !.pc = "calling", !.ends = now + TimeoutOf[c.route]]
<1>1. c.route \in 1..Len(PoolOf) /\ TimeoutOf[c.route] \in Nat
  BY TimeoutType DEF Fine, TimeFine, Attempting
<1>2. next \in Call /\ next.id = c.id /\ next.consumed = c.consumed
  <2>1. now + TimeoutOf[c.route] \in Nat
    BY <1>1
  <2>2. QED
    BY <2>1 DEF Call, Steps
<1>3. RowFine(next) /\ WorkFine(next) /\ EndFine(next)
  BY DEF Call, Fine, RowFine, WorkFine, EndFine, Running, Working, Attempting
<1>4. TimeFine(next)
  <2>1. /\ next.pc = "calling" /\ next.slack = c.slack /\ next.route = c.route
        /\ next.deadline = c.deadline /\ next.ends = now + TimeoutOf[c.route]
    BY DEF Call
  <2>2. c.pc \in Working /\ c.pc \in Attempting
    BY DEF Working, Attempting
  <2>3. /\ now + TimeoutOf[c.route] + Buffer <= c.deadline + c.slack
        /\ now < c.deadline => Open(c.id) /\ ~reservation[c.id].overdue
        /\ c.slack < Buffer /\ c.route \in 1..Len(PoolOf)
    BY <2>2 DEF Fine, TimeFine
  <2>4. now <= now + TimeoutOf[c.route]
    BY <1>1
  <2> HIDE DEF next
  <2>5. QED
    BY <1>2, <2>1, <2>3, <2>4 DEF TimeFine
<1>5. QED
  BY <1>2, <1>3, <1>4 DEF Good, Fine

\* The database failed, or the process died, where no reservation is lost for it.
LEMMA GoodFault ==
  ASSUME NEW c \in Call, Fine(c), NEW pc, NEW left \in SUBSET (0..MaxAttempts),
         NEW outcome \in {"none", "rejected", "error"},
         \/ c.pc \in {"reserve", "dispatch", "refund", "mark"} /\ pc = "done"
         \/ c.pc = "claim" /\ pc = "refund"
         \/ c.pc = "settle" /\ pc = "mark"
         \/ c.pc \notin {"idle", "done"} /\ pc = "done"
  PROVE  Good(c, [c EXCEPT !.pc = pc, !.outcome = outcome, !.faulty = TRUE, !.left = left])
<1> DEFINE next == [c EXCEPT !.pc = pc, !.outcome = outcome, !.faulty = TRUE, !.left = left]
<1>1. next \in Call /\ next.id = c.id /\ next.consumed = c.consumed
  <2>1. pc \in Steps
    BY DEF Steps
  <2>2. QED
    BY <2>1 DEF Call
<1>2. RowFine(next) /\ TimeFine(next)
  BY DEF Call, Fine, RowFine, TimeFine, Running, Working, Attempting, Open
<1>3. /\ next.pc = pc /\ next.error = c.error /\ next.outcome # "ok" /\ next.faulty
      /\ next.chargeable = c.chargeable /\ next.refused = c.refused /\ pc \in {"done", "refund", "mark"}
  BY DEF Call
<1> HIDE DEF next
<1>4. WorkFine(next)
  BY <1>1, <1>3 DEF Fine, WorkFine, Working, Attempting
<1>5. EndFine(next)
  BY <1>1, <1>3 DEF Fine, EndFine
<1>6. QED
  BY <1>1, <1>2, <1>4, <1>5 DEF Good, Fine, next

LEMMA GoodReject ==
  ASSUME NEW c \in Call, Fine(c), c.pc = "reserve"
  PROVE  Good(c, [c EXCEPT !.pc = "done", !.outcome = "rejected"])
<1> DEFINE next == [c EXCEPT !.pc = "done", !.outcome = "rejected"]
<1>1. next \in Call /\ next.id = c.id /\ next.consumed = c.consumed
  BY DEF Call, Steps
<1>2. Fine(next)
  BY DEF Call, Fine, RowFine, TimeFine, WorkFine, EndFine, Running, Working, Attempting, Open
<1>3. QED
  BY <1>1, <1>2 DEF Good

\* The attempt is over without an answer.
LEMMA GoodThrow ==
  ASSUME NEW c \in Call, Fine(c), now \in Nat, NEW error \in {"retry", "clean", "unknown"},
         NEW consumed \in BOOLEAN, NEW faulty \in BOOLEAN,
         \/ c.pc = "audit" /\ error = "clean" /\ ~consumed
         \/ c.pc = "calling" /\ (consumed => error = "unknown")
  PROVE  Good(c, [c EXCEPT !.pc = "release", !.error = error, !.consumed = consumed, !.faulty = faulty])
<1> DEFINE next == [c EXCEPT !.pc = "release", !.error = error, !.consumed = consumed, !.faulty = faulty]
<1>1. next \in Call /\ next.id = c.id
  <2>1. error \in Errors
    BY DEF Errors
  <2>2. QED
    BY <2>1, ZenonT(30) DEF Call, Steps
<1>2. c.pc \in Attempting /\ c.pc \in Working /\ c.pc \in Running
  BY DEF Attempting, Working, Running
<1>3. Open(c.id) /\ ~reservation[c.id].overdue
  BY <1>2, StillHeld
<1>4. RowFine(next)
  BY DEF Call, Fine, RowFine, Running, Working, Attempting
<1>5. WorkFine(next) /\ EndFine(next)
  BY <1>3 DEF Call, Fine, WorkFine, EndFine, Working, Attempting, Open
<1>6. TimeFine(next)
  <2>1. /\ next.pc = "release" /\ next.slack = c.slack /\ next.route = c.route
        /\ next.deadline = c.deadline
    BY DEF Call
  <2>2. c.route \in 1..Len(PoolOf) /\ TimeoutOf[c.route] \in Nat
    BY <1>2, TimeoutType DEF Fine, TimeFine
  <2> HIDE DEF next
  <2>3. now + Buffer <= c.deadline + c.slack
    <3>1. CASE c.pc = "audit"
      BY <2>2, <3>1, Numbers, Fields DEF Fine, TimeFine
    <3>2. CASE c.pc = "calling"
      BY <3>2, Numbers, Fields DEF Fine, TimeFine
    <3>3. QED
      BY <3>1, <3>2
  <2>4. QED
    BY <1>1, <1>2, <1>3, <2>1, <2>3 DEF Fine, TimeFine
<1>7. QED
  BY <1>1, <1>3, <1>4, <1>5, <1>6 DEF Good, Fine

LEMMA GoodAnswer ==
  ASSUME NEW c \in Call, Fine(c), now \in Nat, c.pc = "calling", NEW reading \in BOOLEAN,
         NEW pc \in {"streaming", "release"}
  PROVE  Good(c, [c EXCEPT !.pc = pc, !.reading = reading, !.error = "none", !.consumed = TRUE])
<1> DEFINE next == [c EXCEPT !.pc = pc, !.reading = reading, !.error = "none", !.consumed = TRUE]
<1>1. next \in Call /\ next.id = c.id
  BY ZenonT(30) DEF Call, Steps, Errors
<1>2. c.pc \in Attempting /\ c.pc \in Working /\ c.pc \in Running
  BY DEF Attempting, Working, Running
<1>3. Open(c.id) /\ ~reservation[c.id].overdue
  BY <1>2, StillHeld
<1>4. RowFine(next)
  BY DEF Call, Fine, RowFine, Running, Working, Attempting
<1>5. WorkFine(next) /\ EndFine(next)
  BY <1>3 DEF Call, Fine, WorkFine, EndFine, Working, Attempting, Open
<1>6. TimeFine(next)
  <2>1. /\ next.pc = pc /\ next.slack = c.slack /\ next.route = c.route
        /\ next.deadline = c.deadline /\ next.ends = c.ends
    BY DEF Call
  <2> HIDE DEF next
  <2>2. now + Buffer <= c.deadline + c.slack
    BY Numbers, Fields DEF Fine, TimeFine
  <2>3. QED
    BY <1>1, <1>2, <1>3, <2>1, <2>2 DEF Fine, TimeFine
<1>7. QED
  BY <1>1, <1>3, <1>4, <1>5, <1>6 DEF Good, Fine

\* The stream goes on, or ends.
LEMMA GoodEnd ==
  ASSUME NEW c \in Call, Fine(c), now \in Nat, c.pc = "streaming",
         NEW terminal \in {"finalize", "fail"}, NEW reading \in BOOLEAN
  PROVE  Good(c, [c EXCEPT !.pc = "release", !.terminal = terminal, !.reading = reading,
                           !.chargeable = @ \/ terminal = "finalize" \/ c.usage])
<1> DEFINE known == c.chargeable \/ terminal = "finalize" \/ c.usage
           next == [c EXCEPT !.pc = "release", !.terminal = terminal, !.reading = reading,
                             !.chargeable = known]
<1>1. next \in Call /\ next.id = c.id /\ next.consumed = c.consumed
  <2>1. known \in BOOLEAN
    OBVIOUS
  <2> HIDE DEF known
  <2>2. QED
    BY <2>1, ZenonT(30) DEF Call, Steps
<1>2. ~c.chargeable /\ c.error = "none" /\ c.consumed
  BY DEF Fine, EndFine, WorkFine
<1>3. RowFine(next) /\ WorkFine(next)
  BY <1>2 DEF Call, Fine, RowFine, WorkFine, Running, Working, Attempting
<1>4. EndFine(next)
  BY <1>2 DEF Call, Fine, EndFine
<1>5. TimeFine(next)
  <2>1. /\ next.pc = "release" /\ next.slack = c.slack /\ next.route = c.route
        /\ next.deadline = c.deadline
    BY DEF Call
  <2>2. c.pc \in Attempting /\ c.pc \in Working
    BY DEF Attempting, Working
  <2> HIDE DEF next
  <2>3. now + Buffer <= c.deadline + c.slack
    BY Numbers, Fields DEF Fine, TimeFine
  <2>4. QED
    BY <1>1, <2>1, <2>2, <2>3 DEF Fine, TimeFine
<1>6. QED
  BY <1>1, <1>3, <1>4, <1>5 DEF Good, Fine

LEMMA GoodUsage ==
  ASSUME NEW c \in Call, Fine(c), NEW reading \in BOOLEAN
  PROVE  Good(c, [c EXCEPT !.usage = TRUE, !.reading = reading])
<1> DEFINE next == [c EXCEPT !.usage = TRUE, !.reading = reading]
<1>1. next \in Call /\ next.id = c.id /\ next.consumed = c.consumed
  BY DEF Call
<1>2. Fine(next)
  BY DEF Call, Fine, RowFine, TimeFine, WorkFine, EndFine
<1>3. QED
  BY <1>1, <1>2 DEF Good

Released(c, pc, left, faulty) ==
    [c EXCEPT !.claim = NoCredential, !.ends = 0, !.pc = pc, !.left = left, !.faulty = faulty]

LEMMA ReleaseTyped ==
  ASSUME NEW c \in Call, NEW left \in SUBSET (0..MaxAttempts), NEW faulty \in BOOLEAN, NEW pc \in Steps
  PROVE  LET next == Released(c, pc, left, faulty)
         IN  /\ next \in Call
             /\ next.pc = pc /\ next.id = c.id /\ next.deadline = c.deadline /\ next.route = c.route
             /\ next.attempts = c.attempts /\ next.error = c.error /\ next.slack = c.slack
             /\ next.terminal = c.terminal /\ next.usage = c.usage /\ next.chargeable = c.chargeable
             /\ next.consumed = c.consumed /\ next.faulty = faulty /\ next.outcome = c.outcome
             /\ next.refused = c.refused
BY DEF Call, Released

\* The lease is given back, or left to expire.
LEMMA GoodRelease ==
  ASSUME NEW c \in Call, Fine(c), c.pc = "release", NEW left \in SUBSET (0..MaxAttempts), NEW faulty \in BOOLEAN,
         c.faulty => faulty, NEW pc,
         \/ c.error = "retry" /\ pc = "attempt"
         \/ c.error = "clean" /\ pc = "refund"
         \/ c.error = "unknown" /\ pc = "mark"
         \/ c.error = "none" /\ pc = IF c.terminal = "fail" /\ ~c.usage THEN "mark" ELSE "settle"
  PROVE  Good(c, [c EXCEPT !.claim = NoCredential, !.ends = 0, !.pc = pc,
                           !.left = left, !.faulty = faulty])
<1> DEFINE next == Released(c, pc, left, faulty)
<1>1. pc \in {"attempt", "refund", "mark", "settle"}
  OBVIOUS
<1>2. /\ next \in Call
      /\ next.pc = pc /\ next.id = c.id /\ next.deadline = c.deadline /\ next.route = c.route
      /\ next.attempts = c.attempts /\ next.error = c.error /\ next.slack = c.slack
      /\ next.terminal = c.terminal /\ next.usage = c.usage /\ next.chargeable = c.chargeable
      /\ next.consumed = c.consumed /\ next.faulty = faulty /\ next.outcome = c.outcome
      /\ next.refused = c.refused
  <2>1. pc \in Steps
    BY <1>1 DEF Steps
  <2>2. QED
    BY <2>1, ReleaseTyped
<1> HIDE DEF next
<1>3. RowFine(next)
  BY <1>1, <1>2 DEF Fine, RowFine, Running, Working, Attempting
<1>4. TimeFine(next)
  BY <1>1, <1>2 DEF Fine, TimeFine, Working, Attempting
<1>5. WorkFine(next)
  BY <1>2 DEF Fine, WorkFine, Working, Attempting
<1>6. EndFine(next)
  BY <1>2 DEF Fine, EndFine
<1>7. QED
  BY <1>2, <1>3, <1>4, <1>5, <1>6 DEF Good, Fine, next, Released

\* What is known of the handler that takes a step.
LEMMA Mine ==
  ASSUME IInv, NEW h \in Handlers
  PROVE  /\ call[h] \in Call /\ Fine(call[h])
         /\ leases \subseteq Leases /\ faults \in 0..MaxFaults
         /\ crashes \in 0..MaxCrashes /\ now \in Nat
BY InferenceAssumption DEF IInv, HandlersFine, InferenceTypeOK

LEMMA GoodStep ==
  ASSUME IInv, NEW h \in Handlers, NEW next, Good(call[h], next),
         call' = [call EXCEPT ![h] = next], UNCHANGED <<vars, expires, now>>,
         leases' \subseteq Leases, faults' \in 0..MaxFaults, crashes' \in 0..MaxCrashes
  PROVE  IInv'
BY QuietKeeps DEF Good

\* A failed database step, or a restart, that changes no row.
LEMMA FaultSteps ==
  ASSUME IInv, NEW h \in Handlers,
         \/ ReserveFails(h) \/ ClaimFails(h) \/ (\E k \in Credentials : ClaimLost(h, k))
         \/ MoneyFails(h) \/ Crash(h)
  PROVE  IInv'
<1> DEFINE c == call[h]
           orphan == IF c.claim = NoCredential THEN c.left ELSE c.left \cup {c.attempts}
           faulted(pc, outcome, left) ==
             [c EXCEPT !.pc = pc, !.outcome = outcome, !.faulty = TRUE, !.left = left]
<1>1. c \in Call /\ Fine(c)
  BY Mine
<1>2. /\ leases \subseteq Leases /\ faults \in 0..MaxFaults
      /\ crashes \in 0..MaxCrashes
      /\ faults < MaxFaults => faults + 1 \in 0..MaxFaults
      /\ crashes < MaxCrashes => crashes + 1 \in 0..MaxCrashes
  BY Mine, Numbers
<1>3. /\ c.left \in SUBSET (0..MaxAttempts) /\ orphan \in SUBSET (0..MaxAttempts)
      /\ c.outcome \in {"none", "ok", "rejected", "error"}
  BY <1>1 DEF Call
<1>4. c.outcome = "ok" => c.pc = "done"
  BY <1>1 DEF Fine, EndFine
<1> HIDE DEF c
<1>5. /\ [[c EXCEPT !.pc = "done", !.outcome = "error"] EXCEPT !.faulty = TRUE]
            = faulted("done", "error", c.left)
      /\ \A pc \in Steps : [[c EXCEPT !.pc = pc] EXCEPT !.faulty = TRUE]
            = faulted(pc, c.outcome, c.left)
  BY <1>1 DEF Call
<1> HIDE DEF faulted
<1>6. ASSUME NEW pc \in Steps,
             \/ At(h, "claim") /\ pc = "refund"
             \/ At(h, "settle") /\ pc = "mark",
             DbFault(h, Goto(h, pc)), UNCHANGED vars
      PROVE  IInv'
  <2>1. c.outcome \in {"none", "rejected", "error"}
    BY <1>3, <1>4, <1>6 DEF At, c
  <2>2. Good(c, faulted(pc, c.outcome, c.left))
    BY <1>1, <1>3, <1>6, <2>1, GoodFault DEF faulted, At, c
  <2>3. call' = [call EXCEPT ![h] = faulted(pc, c.outcome, c.left)]
    BY <1>5, <1>6 DEF DbFault, Goto, c
  <2>4. QED
    BY <1>2, <1>6, <2>2, <2>3, GoodStep DEF DbFault, c
<1>7. ASSUME c.pc \in {"reserve", "dispatch", "refund", "mark"},
             DbFault(h, Answer(h, "error")), UNCHANGED vars
      PROVE  IInv'
  <2>1. Good(c, faulted("done", "error", c.left))
    BY <1>1, <1>3, <1>7, GoodFault DEF faulted
  <2>2. call' = [call EXCEPT ![h] = faulted("done", "error", c.left)]
    BY <1>5, <1>7 DEF DbFault, Answer, c
  <2>3. QED
    BY <1>2, <1>7, <2>1, <2>2, GoodStep DEF DbFault, c
<1>8. CASE Crash(h)
  <2>1. Good(c, faulted("done", "error", orphan))
    BY <1>1, <1>3, <1>8, GoodFault DEF faulted, Crash, At, c
  <2>2. [[c EXCEPT !.pc = "done", !.outcome = "error"] EXCEPT !.faulty = TRUE,
           !.left = IF c.claim = NoCredential THEN @ ELSE @ \cup {c.attempts}]
          = faulted("done", "error", orphan)
    BY <1>1 DEF Call, faulted
  <2>3. call' = [call EXCEPT ![h] = faulted("done", "error", orphan)]
    BY <1>8, <2>2 DEF Crash, Answer, c
  <2>4. QED
    BY <1>2, <1>8, <2>1, <2>3, GoodStep DEF Crash, c
<1>9. CASE ReserveFails(h)
  BY <1>7, <1>9 DEF ReserveFails, At, c
<1>10. CASE ClaimFails(h)
  <2>1. "refund" \in Steps
    BY DEF Steps
  <2>2. At(h, "claim") /\ DbFault(h, Goto(h, "refund")) /\ UNCHANGED vars
    BY <1>10 DEF ClaimFails
  <2>3. QED
    BY <1>6, <2>1, <2>2
<1>11. CASE MoneyFails(h)
  <2>1. "mark" \in Steps
    BY DEF Steps
  <2>2. CASE At(h, "settle") /\ DbFault(h, Goto(h, "mark"))
    BY <1>6, <1>11, <2>1, <2>2 DEF MoneyFails
  <2>3. CASE (At(h, "refund") \/ At(h, "mark")) /\ DbFault(h, Answer(h, "error"))
    BY <1>7, <1>11, <2>3 DEF MoneyFails, At, c
  <2>4. QED
    BY <1>11, <2>2, <2>3 DEF MoneyFails
<1>12. ASSUME NEW k \in Credentials, ClaimLost(h, k) PROVE IInv'
  <2> DEFINE lost == c.left \cup {c.attempts + 1}
  <2>1. c.pc = "claim" /\ c.outcome \in {"none", "rejected", "error"}
    BY <1>3, <1>4, <1>12 DEF ClaimLost, At, c
  <2>2. c.attempts + 1 \in 0..MaxAttempts
    BY <1>1, <2>1, NextAttemptTyped
  <2>3. lost \in SUBSET (0..MaxAttempts)
    BY <1>3, <2>2
  <2>4. Good(c, faulted("refund", c.outcome, lost))
    BY <1>1, <2>1, <2>3, GoodFault DEF faulted
  <2>5. [[c EXCEPT !.pc = "refund"] EXCEPT !.faulty = TRUE, !.left = @ \cup {c.attempts + 1}]
          = faulted("refund", c.outcome, lost)
    BY <1>1 DEF Call, faulted
  <2> HIDE DEF lost
  <2>6. call' = [call EXCEPT ![h] = faulted("refund", c.outcome, lost)]
    BY <1>12, <2>5 DEF ClaimLost, Goto, c
  <2>7. leases' \subseteq Leases
    <3>1. leases' = leases \cup {<<h, k, c.attempts + 1>>}
      BY <1>12 DEF ClaimLost, c
    <3>2. QED
      BY <1>2, <2>2, <3>1 DEF Leases
  <2>8. QED
    BY <1>2, <1>12, <2>4, <2>6, <2>7, GoodStep DEF ClaimLost, c
<1>13. QED
  BY <1>8, <1>9, <1>10, <1>11, <1>12

\* The loop head and the claim.
LEMMA LoopSteps ==
  ASSUME IInv, NEW h \in Handlers,
         \/ \E stream \in BOOLEAN : Prepare(h, stream)
         \/ NextAttempt(h) \/ NothingToClaim(h)
         \/ \E k \in Credentials : Claim(h, k)
  PROVE  IInv'
<1> DEFINE c == call[h]
<1>1. /\ c \in Call /\ Fine(c) /\ leases \subseteq Leases
      /\ faults \in 0..MaxFaults /\ crashes \in 0..MaxCrashes /\ now \in Nat
  BY Mine
<1> HIDE DEF c
<1>2. ASSUME NEW stream \in BOOLEAN, Prepare(h, stream)
      PROVE  IInv'
  <2>1. now + Ttl \in Nat /\ c.pc = "idle"
    <3>1. c.pc = "idle"
      BY <1>2 DEF Prepare, At, c
    <3>2. QED
      BY <1>1, <3>1, Numbers
  <2>2. Good(c, [c EXCEPT !.pc = "reserve", !.stream = stream, !.deadline = now + Ttl])
    BY <1>1, <2>1, GoodPrepare
  <2>3. QED
    BY <1>1, <1>2, <2>2, GoodStep DEF Prepare, Local, c
<1>3. CASE NextAttempt(h)
  <2>1. c.pc = "attempt" /\ c.route \in 1..(Len(PoolOf) + 1) /\ c.attempts \in 0..MaxAttempts
    BY <1>1, <1>3, Fields DEF NextAttempt, At, c
  <2>2. CASE c.route > Len(PoolOf) \/ c.attempts >= MaxAttempts
    <3>1. Good(c, [c EXCEPT !.pc = "refund"])
      BY <1>1, <2>1, GoodGiveUp
    <3>2. QED
      BY <1>1, <1>3, <2>2, <3>1, GoodStep DEF NextAttempt, Local, Goto, c
  <2>3. CASE ~(c.route > Len(PoolOf) \/ c.attempts >= MaxAttempts) /\ FitsReservation(h)
    <3>1. c.route <= Len(PoolOf) /\ c.attempts < MaxAttempts
      BY <2>1, <2>3, Numbers
    <3>2. now + TimeoutOf[c.route] + Buffer <= c.deadline
      BY <2>3 DEF FitsReservation, c
    <3>3. Good(c, [c EXCEPT !.pc = "claim", !.slack = 0])
      BY <1>1, <2>1, <3>1, <3>2, GoodFit
    <3>4. QED
      BY <1>1, <1>3, <2>3, <3>3, GoodStep DEF NextAttempt, Local, c
  <2>4. CASE ~(c.route > Len(PoolOf) \/ c.attempts >= MaxAttempts) /\ ~FitsReservation(h)
    <3>1. c.route <= Len(PoolOf)
      BY <2>1, <2>4, Numbers
    <3>2. Good(c, [c EXCEPT !.pc = "attempt", !.route = @ + 1, !.tried = {}])
      BY <1>1, <2>1, <3>1, GoodSkip
    <3>3. [c EXCEPT !.pc = "attempt", !.route = @ + 1, !.tried = {}]
            = [c EXCEPT !.route = @ + 1, !.tried = {}]
      BY <1>1, <2>1 DEF Call
    <3>4. QED
      BY <1>1, <1>3, <2>4, <3>2, <3>3, GoodStep DEF NextAttempt, Local, c
  <2>5. QED
    BY <2>2, <2>3, <2>4
<1>4. CASE NothingToClaim(h)
  <2>1. c.pc = "claim" /\ c.route <= Len(PoolOf)
    BY <1>1, <1>4, Numbers DEF NothingToClaim, At, c, Fine, TimeFine, Attempting
  <2>2. Good(c, [c EXCEPT !.pc = "attempt", !.route = @ + 1, !.tried = {}])
    BY <1>1, <2>1, GoodSkip
  <2>3. QED
    BY <1>1, <1>4, <2>2, GoodStep DEF NothingToClaim, Local, c
<1>5. ASSUME NEW k \in Credentials, Claim(h, k)
      PROVE  IInv'
  <2>1. c.pc = "claim"
    BY <1>5 DEF Claim, At, c
  <2>2. Good(c, [c EXCEPT !.pc = "audit", !.claim = k, !.tried = @ \cup {k}, !.attempts = @ + 1])
    BY <1>1, <2>1, GoodTake
  <2>3. leases' \subseteq Leases
    <3>1. leases' = leases \cup {<<h, k, c.attempts + 1>>} /\ c.attempts + 1 \in 0..MaxAttempts
      BY <1>1, <1>5, <2>1, NextAttemptTyped DEF Claim, c
    <3>2. QED
      BY <1>1, <3>1 DEF Leases
  <2>4. QED
    BY <1>1, <1>5, <2>2, <2>3, GoodStep DEF Claim, Local, c
<1>6. QED
  BY <1>2, <1>3, <1>4, <1>5

\* The provider call, up to its answer or error.
LEMMA CallSteps ==
  ASSUME IInv, NEW h \in Handlers,
         \/ StartAttempt(h) \/ AuditFails(h)
         \/ ProviderRejects(h, "retry") \/ ProviderRejects(h, "clean")
         \/ \E consumed \in BOOLEAN : ProviderUnknown(h, consumed)
         \/ ProviderAnswers(h)
  PROVE  IInv'
<1> DEFINE c == call[h]
           thrown(error, consumed, faulty) ==
             [c EXCEPT !.pc = "release", !.error = error, !.consumed = consumed, !.faulty = faulty]
<1>1. /\ c \in Call /\ Fine(c) /\ leases \subseteq Leases
      /\ faults \in 0..MaxFaults /\ crashes \in 0..MaxCrashes /\ now \in Nat
  BY Mine
<1>2. faults < MaxFaults => faults + 1 \in 0..MaxFaults
  BY <1>1, Numbers
<1>3. c.consumed \in BOOLEAN /\ c.faulty \in BOOLEAN /\ c.stream \in BOOLEAN
  BY <1>1 DEF Call
<1>4. c.pc \in {"audit", "calling"} => c.consumed = FALSE
  BY <1>1, <1>3 DEF Fine, WorkFine
<1> HIDE DEF c
<1>5. CASE StartAttempt(h)
  <2>1. Good(c, [c EXCEPT !.pc = "calling", !.ends = now + TimeoutOf[c.route]])
    BY <1>1, <1>5, GoodStart DEF StartAttempt, At, c
  <2>2. QED
    BY <1>1, <1>5, <2>1, GoodStep DEF StartAttempt, Local, c
<1>6. CASE AuditFails(h)
  <2>1. Good(c, thrown("clean", FALSE, TRUE))
    BY <1>1, <1>6, GoodThrow DEF AuditFails, At, c
  <2>2. thrown("clean", FALSE, TRUE)
          = [[[c EXCEPT !.pc = "release"] EXCEPT !.error = "clean"] EXCEPT !.faulty = TRUE]
    <3>1. c.consumed = FALSE
      BY <1>4, <1>6 DEF AuditFails, At, c
    <3>2. QED
      BY <1>1, <3>1 DEF Call
  <2> HIDE DEF thrown
  <2>3. QED
    BY <1>1, <1>2, <1>6, <2>1, <2>2, GoodStep DEF AuditFails, DbFault, Goto, c
<1>7. ASSUME NEW error \in {"retry", "clean"}, ProviderRejects(h, error)
      PROVE  IInv'
  <2>1. c.pc = "calling"
    BY <1>7 DEF ProviderRejects, At, c
  <2>2. Good(c, thrown(error, FALSE, c.faulty))
    BY <1>1, <1>3, <2>1, GoodThrow
  <2>3. thrown(error, FALSE, c.faulty) = [[c EXCEPT !.pc = "release"] EXCEPT !.error = error]
    <3>1. c.consumed = FALSE
      BY <1>4, <2>1
    <3>2. QED
      BY <1>1, <3>1 DEF Call
  <2> HIDE DEF thrown
  <2>4. QED
    BY <1>1, <1>7, <2>2, <2>3, GoodStep DEF ProviderRejects, Local, Goto, c
<1>8. ASSUME NEW consumed \in BOOLEAN, ProviderUnknown(h, consumed)
      PROVE  IInv'
  <2>1. c.pc = "calling"
    BY <1>8 DEF ProviderUnknown, At, c
  <2>2. Good(c, thrown("unknown", consumed, c.faulty))
    BY <1>1, <1>3, <2>1, GoodThrow
  <2>3. thrown("unknown", consumed, c.faulty)
          = [[c EXCEPT !.pc = "release"] EXCEPT !.error = "unknown", !.consumed = consumed]
    BY <1>1 DEF Call
  <2> HIDE DEF thrown
  <2>4. QED
    BY <1>1, <1>8, <2>2, <2>3, GoodStep DEF ProviderUnknown, Local, Goto, c
<1>9. CASE ProviderAnswers(h)
  <2> DEFINE pc == IF c.stream THEN "streaming" ELSE "release"
  <2>1. c.pc = "calling" /\ pc \in {"streaming", "release"}
    BY <1>9 DEF ProviderAnswers, At, c
  <2>2. call' = [call EXCEPT ![h] = [c EXCEPT !.pc = pc, !.reading = c.stream, !.error = "none",
                                              !.consumed = TRUE]]
    BY <1>9 DEF ProviderAnswers, Local, c
  <2> HIDE DEF pc
  <2>3. Good(c, [c EXCEPT !.pc = pc, !.reading = c.stream, !.error = "none", !.consumed = TRUE])
    BY <1>1, <1>3, <2>1, GoodAnswer
  <2>4. QED
    BY <1>1, <1>9, <2>2, <2>3, GoodStep DEF ProviderAnswers, Local, c
<1>10. QED
  BY <1>5, <1>6, <1>7, <1>8, <1>9

\* The stream, in any order of chunks, completion and cancel; then the release.
LEMMA StreamSteps ==
  ASSUME IInv, NEW h \in Handlers,
         \/ StreamUsage(h) \/ StreamDone(h) \/ StreamBreaks(h) \/ ClientCancels(h) \/ LateUsage(h)
         \/ Release(h) \/ ReleaseFails(h)
  PROVE  IInv'
<1> DEFINE c == call[h]
<1>1. /\ c \in Call /\ Fine(c) /\ leases \subseteq Leases
      /\ faults \in 0..MaxFaults /\ crashes \in 0..MaxCrashes /\ now \in Nat
  BY Mine
<1>2. faults < MaxFaults => faults + 1 \in 0..MaxFaults
  BY <1>1, Numbers
<1>3. /\ c.reading \in BOOLEAN /\ c.faulty \in BOOLEAN /\ c.left \in SUBSET (0..MaxAttempts)
      /\ c.attempts \in 0..MaxAttempts /\ c.error \in Errors
  BY <1>1 DEF Call
<1> HIDE DEF c
<1>4. CASE StreamUsage(h)
  <2>1. Good(c, [c EXCEPT !.usage = TRUE, !.reading = c.reading])
    BY <1>1, <1>3, GoodUsage
  <2>2. [c EXCEPT !.usage = TRUE, !.reading = c.reading] = [c EXCEPT !.usage = TRUE]
    BY <1>1 DEF Call
  <2>3. QED
    BY <1>1, <1>4, <2>1, <2>2, GoodStep DEF StreamUsage, Local, c
<1>5. CASE LateUsage(h)
  <2>1. Good(c, [c EXCEPT !.usage = TRUE, !.reading = FALSE])
    BY <1>1, GoodUsage
  <2>2. QED
    BY <1>1, <1>5, <2>1, GoodStep DEF LateUsage, Local, c
<1>6. ASSUME NEW terminal \in {"finalize", "fail"}, NEW reading \in BOOLEAN,
             At(h, "streaming"), EndStream(h, terminal, reading)
      PROVE  IInv'
  <2> DEFINE next == [c EXCEPT !.pc = "release", !.terminal = terminal, !.reading = reading,
                               !.chargeable = @ \/ terminal = "finalize" \/ c.usage]
  <2>1. Good(c, next)
    BY <1>1, <1>6, GoodEnd DEF At, c
  <2>2. call' = [call EXCEPT ![h] = next]
    <3>1. [[c EXCEPT !.pc = "release"] EXCEPT !.terminal = terminal, !.reading = reading,
             !.chargeable = @ \/ terminal = "finalize" \/ c.usage] = next
      BY <1>1 DEF Call
    <3> HIDE DEF next
    <3>2. QED
      BY <1>6, <3>1 DEF EndStream, Local, Goto, c
  <2> HIDE DEF next
  <2>3. QED
    BY <1>1, <1>6, <2>1, <2>2, GoodStep DEF EndStream, Local, c
<1>7. ASSUME NEW left \in SUBSET (0..MaxAttempts), NEW faulty \in BOOLEAN, c.faulty => faulty, At(h, "release"),
             call' = [call EXCEPT ![h] = [AfterRelease(h) EXCEPT !.left = left, !.faulty = faulty]],
             UNCHANGED <<vars, expires, now>>,
             leases' \subseteq leases, faults' \in 0..MaxFaults, crashes' \in 0..MaxCrashes
      PROVE  IInv'
  <2> DEFINE pc == CASE c.error = "retry" -> "attempt"
                     [] c.error = "clean" -> "refund"
                     [] c.error = "unknown" -> "mark"
                     [] c.error = "none" ->
                          IF c.terminal = "fail" /\ ~c.usage THEN "mark" ELSE "settle"
             next == [c EXCEPT !.claim = NoCredential, !.ends = 0, !.pc = pc,
                               !.left = left, !.faulty = faulty]
  <2>1. \/ c.error = "retry" /\ pc = "attempt"
        \/ c.error = "clean" /\ pc = "refund"
        \/ c.error = "unknown" /\ pc = "mark"
        \/ c.error = "none" /\ pc = IF c.terminal = "fail" /\ ~c.usage THEN "mark" ELSE "settle"
    BY <1>3 DEF Errors
  <2>2. [AfterRelease(h) EXCEPT !.left = left, !.faulty = faulty]
          = [[c EXCEPT !.claim = NoCredential, !.ends = 0, !.pc = pc]
               EXCEPT !.left = left, !.faulty = faulty]
    BY DEF AfterRelease, c
  <2> HIDE DEF pc
  <2>3. [[c EXCEPT !.claim = NoCredential, !.ends = 0, !.pc = pc]
           EXCEPT !.left = left, !.faulty = faulty] = next
    BY <1>1 DEF Call
  <2>4. c.pc = "release"
    BY <1>7 DEF At, c
  <2>5. Good(c, next)
    BY <1>1, <1>7, <2>1, <2>4, GoodRelease
  <2> HIDE DEF next
  <2>6. QED
    BY <1>1, <1>7, <2>2, <2>3, <2>5, GoodStep DEF c
<1>8. AfterRelease(h) = [AfterRelease(h) EXCEPT !.left = c.left, !.faulty = c.faulty]
  <2> DEFINE pc == CASE c.error = "retry" -> "attempt"
                     [] c.error = "clean" -> "refund"
                     [] c.error = "unknown" -> "mark"
                     [] c.error = "none" ->
                          IF c.terminal = "fail" /\ ~c.usage THEN "mark" ELSE "settle"
             next == [c EXCEPT !.claim = NoCredential, !.ends = 0, !.pc = pc]
  <2>1. AfterRelease(h) = next
    BY DEF AfterRelease, c
  <2> HIDE DEF pc
  <2>2. next = [next EXCEPT !.left = c.left, !.faulty = c.faulty]
    BY <1>1 DEF Call
  <2> HIDE DEF next
  <2>3. QED
    BY <2>1, <2>2
<1>9. CASE Release(h)
  BY <1>1, <1>3, <1>7, <1>8, <1>9 DEF Release, Local
<1>10. CASE ReleaseFails(h)
  <2> DEFINE left == c.left \cup {c.attempts}
  <2>1. [[AfterRelease(h) EXCEPT !.left = @ \cup {c.attempts}] EXCEPT !.faulty = TRUE]
          = [AfterRelease(h) EXCEPT !.left = left, !.faulty = TRUE]
    BY <1>1 DEF AfterRelease, Call, c
  <2>2. left \in SUBSET (0..MaxAttempts)
    BY <1>3
  <2> HIDE DEF left
  <2>3. call' = [call EXCEPT ![h] = [AfterRelease(h) EXCEPT !.left = left, !.faulty = TRUE]]
    BY <1>10, <2>1 DEF ReleaseFails, DbFault, c
  <2>4. QED
    BY <1>1, <1>2, <1>7, <1>10, <2>2, <2>3 DEF ReleaseFails, DbFault
<1>11. QED
  BY <1>4, <1>5, <1>6, <1>9, <1>10 DEF StreamDone, StreamBreaks, ClientCancels

-----------------------------------------------------------------------------
(* Steps of a handler that call the store *)

\* A row as far as a handler looks at it.
SameRow(q) ==
    /\ reservation'[q] = reservation[q]
    /\ request'[q].status = request[q].status
    /\ request'[q].dispatched = request[q].dispatched

LEMMA SameRowMoves ==
  ASSUME NEW q \in RequestIds, request[q].status # "none", SameRow(q), expires'[q] = expires[q]
  PROVE  Moves(q)
BY DEF SameRow, Moves, Open

LEMMA StoreKeepsTypes ==
  ASSUME IInv, [Next]_vars
  PROVE  TypeOK' /\ RowsCoherent'
BY TypeStep, StepEffect DEF IInv, InferenceTypeOK

LEMMA ReserveMoves ==
  ASSUME TypeOK, NEW r \in RequestIds, NEW k \in ApiKeys, NEW i \in IdempotencyKeys \cup {NoKey},
         NEW f \in Fingerprints, NEW amount \in Amounts, NEW row \in ReplayRow,
         Fresh(r), Reserve(r, k, i, f, amount, row)
  PROVE  /\ [Next]_vars /\ request[r].status = "none"
         /\ request'[r].status = "reserved" /\ ~request'[r].dispatched
         /\ reservation'[r].state = "reserved" /\ ~reservation'[r].overdue
         /\ sweep' = sweep
         /\ \A q \in RequestIds : q # r => SameRow(q)
<1>1. [Next]_vars
  BY DEF Next
<1>2. request[r].status = "none" /\ sweep' = sweep
  BY DEF Reserve
<1>3. /\ reservation'[r] = [state |-> "reserved", reserved |-> amount, charged |-> 0,
                            refunded |-> 0, overdue |-> FALSE]
      /\ \A q \in RequestIds : q # r => reservation'[q] = reservation[q]
  BY DEF Reserve, TypeOK
<1>4. /\ request'[r] = [status |-> "reserved", apiKey |-> k, idempotencyKey |-> i, fingerprint |-> f,
                        reserved |-> amount, charged |-> 0, refunded |-> 0, dispatched |-> FALSE]
      /\ \A q \in RequestIds : q # r => request'[q] = Unbound(k, i)[q]
  BY DEF Reserve, Unbound
<1>5. \A q \in RequestIds : /\ Unbound(k, i)[q].status = request[q].status
                            /\ Unbound(k, i)[q].dispatched = request[q].dispatched
  BY DEF Unbound, TypeOK, Request
<1>6. QED
  BY <1>1, <1>2, <1>3, <1>4, <1>5 DEF SameRow

\* What the other operations do to the row they are called for, and to the others.
LEMMA OperationMoves ==
  ASSUME TypeOK, NEW r \in RequestIds, request[r].status # "none", NEW op \in 1..4,
         \/ op = 1 /\ MarkDispatched(r)
         \/ op = 2 /\ \E actual \in Costs, zeroUsage \in BOOLEAN : Settle(r, actual, zeroUsage)
         \/ op = 3 /\ Refund(r)
         \/ op = 4 /\ MarkNeedsReconciliation(r)
  PROVE  /\ [Next]_vars /\ sweep' = sweep
         /\ request'[r].status # "none"
         /\ op = 1 => /\ reservation'[r] = reservation[r] /\ request'[r].dispatched
                      /\ request'[r].status = "dispatched"
         /\ op = 2 => reservation'[r].state = "settled"
         /\ op = 3 => reservation'[r].state = "refunded"
         /\ op = 4 => reservation'[r].state = "needs_reconciliation"
         /\ \A q \in RequestIds : q # r => SameRow(q)
<1>1. request \in [RequestIds -> Request] /\ reservation \in [RequestIds -> Reservation]
  BY DEF TypeOK
<1>2. CASE op = 1 /\ MarkDispatched(r)
  <2>1. [Next]_vars
    BY <1>2 DEF Next
  <2>2. /\ request' = [request EXCEPT ![r] = [request[r] EXCEPT !.status = "dispatched", !.dispatched = TRUE]]
        /\ reservation' = reservation /\ sweep' = sweep
    BY <1>2 DEF MarkDispatched
  <2>3. request'[r].status = "dispatched" /\ request'[r].dispatched
    BY <1>1, <2>2 DEF Request
  <2>4. QED
    BY <1>1, <1>2, <2>1, <2>2, <2>3 DEF SameRow
<1>3. ASSUME op = 2, NEW actual \in Costs, NEW zeroUsage \in BOOLEAN, Settle(r, actual, zeroUsage)
      PROVE  /\ [Next]_vars /\ sweep' = sweep
             /\ request'[r].status # "none" /\ reservation'[r].state = "settled"
             /\ \A q \in RequestIds : q # r => SameRow(q)
  <2>1. [Next]_vars
    BY <1>3 DEF Next
  <2>2. PICK charged, refunded :
          /\ request' = [request EXCEPT ![r] = [request[r] EXCEPT
                           !.status = "succeeded", !.charged = charged, !.refunded = refunded]]
          /\ reservation' = [reservation EXCEPT
                               ![r] = [state |-> "settled", reserved |-> reservation[r].reserved,
                                       charged |-> charged, refunded |-> refunded, overdue |-> FALSE]]
          /\ sweep' = sweep
    BY <1>3 DEF Settle
  <2>3. request'[r].status = "succeeded" /\ reservation'[r].state = "settled"
    BY <1>1, <2>2 DEF Request
  <2>4. QED
    BY <1>1, <2>1, <2>2, <2>3 DEF SameRow
<1>4. CASE op = 3 /\ Refund(r)
  <2>1. [Next]_vars
    BY <1>4 DEF Next
  <2>2. PICK held :
          /\ request' = [request EXCEPT ![r] = [request[r] EXCEPT
                           !.status = "refunded", !.charged = 0, !.refunded = held]]
          /\ reservation' = [reservation EXCEPT
                               ![r] = [state |-> "refunded", reserved |-> held, charged |-> 0,
                                       refunded |-> held, overdue |-> FALSE]]
          /\ sweep' = sweep
    BY <1>4 DEF Refund, RefundRows
  <2>3. request'[r].status = "refunded" /\ reservation'[r].state = "refunded"
    BY <1>1, <2>2 DEF Request
  <2>4. QED
    BY <1>1, <1>4, <2>1, <2>2, <2>3 DEF SameRow
<1>5. CASE op = 4 /\ MarkNeedsReconciliation(r)
  <2>1. [Next]_vars
    BY <1>5 DEF Next
  <2>2. /\ request' = [request EXCEPT ![r] = [request[r] EXCEPT !.status = "needs_reconciliation"]]
        /\ reservation' = [reservation EXCEPT
                             ![r] = [reservation[r] EXCEPT !.state = "needs_reconciliation", !.overdue = FALSE]]
        /\ sweep' = sweep
    BY <1>5 DEF MarkNeedsReconciliation, QuarantineRows
  <2>3. request'[r].status = "needs_reconciliation" /\ reservation'[r].state = "needs_reconciliation"
    BY <1>1, <2>2 DEF Request, Reservation
  <2>4. QED
    BY <1>1, <1>5, <2>1, <2>2, <2>3 DEF SameRow
<1>6. QED
  BY <1>2, <1>3, <1>4, <1>5

LEMMA InferenceTypeStep ==
  ASSUME IInv, TypeOK', NEW h \in Handlers, NEW next \in Call, call' = [call EXCEPT ![h] = next],
         leases' = leases, now' = now, crashes' = crashes,
         faults' = faults \/ (faults < MaxFaults /\ faults' = faults + 1),
         \/ expires' = expires
         \/ \E r \in RequestIds, t \in Nat : expires' = [expires EXCEPT ![r] = t]
  PROVE  InferenceTypeOK'
<1>1. faults' \in 0..MaxFaults
  BY Numbers DEF IInv, InferenceTypeOK
<1>2. expires' \in [RequestIds -> Nat]
  BY DEF IInv, InferenceTypeOK
<1>3. call' \in [Handlers -> Call]
  BY DEF IInv, InferenceTypeOK
<1>4. QED
  BY <1>1, <1>2, <1>3 DEF IInv, InferenceTypeOK

LEMMA ReserveSteps ==
  ASSUME IInv, NEW h \in Handlers, NEW r \in RequestIds, NEW k \in ApiKeys,
         NEW i \in IdempotencyKeys \cup {NoKey}, NEW f \in Fingerprints, NEW amount \in Amounts,
         NEW row \in ReplayRow, ReserveCall(h, r, k, i, f, amount, row)
  PROVE  IInv'
<1> DEFINE granted == [call[h] EXCEPT !.pc = "dispatch", !.id = r]
           lost == [[call[h] EXCEPT !.pc = "done", !.outcome = "error"] EXCEPT !.faulty = TRUE]
<1>1. call[h] \in Call /\ Fine(call[h]) /\ call[h].pc = "reserve" /\ TypeOK
  BY Mine DEF ReserveCall, At, IInv, InferenceTypeOK
<1>2. /\ call[h].id = NoId /\ ~call[h].consumed /\ ~call[h].chargeable /\ ~call[h].refused
      /\ call[h].outcome # "ok"
  BY <1>1 DEF Fine, RowFine, WorkFine, EndFine
<1>3. CASE ReserveOutcome(k, i, f, amount, row) # "reserved" /\ Local(h, Answer(h, "rejected"))
           /\ UNCHANGED leases
  <2>1. Good(call[h], [call[h] EXCEPT !.pc = "done", !.outcome = "rejected"])
    BY <1>1, GoodReject
  <2>2. QED
    BY <1>3, <2>1, Mine, GoodStep DEF Local, Answer
<1>4. ASSUME Reserve(r, k, i, f, amount, row), expires' = [expires EXCEPT ![r] = call[h].deadline],
             NEW next \in {granted, lost}, call' = [call EXCEPT ![h] = next],
             UNCHANGED <<leases, now, crashes>>,
             faults' = faults \/ (faults < MaxFaults /\ faults' = faults + 1)
      PROVE  IInv'
  <2>1. /\ [Next]_vars /\ request[r].status = "none"
        /\ request'[r].status = "reserved" /\ ~request'[r].dispatched
        /\ reservation'[r].state = "reserved" /\ ~reservation'[r].overdue
        /\ sweep' = sweep
        /\ \A q \in RequestIds : q # r => SameRow(q)
    BY <1>1, <1>4, ReserveMoves DEF ReserveCall
  <2>2. TypeOK' /\ RowsCoherent'
    BY <2>1, StoreKeepsTypes
  <2>3. granted \in Call /\ lost \in Call
    BY <1>1 DEF Call, Steps
  <2>4. call[h].deadline \in Nat /\ expires \in [RequestIds -> Nat]
    BY <1>1 DEF Call, IInv, InferenceTypeOK
  <2>5. InferenceTypeOK'
    BY <1>4, <2>2, <2>3, <2>4, InferenceTypeStep
  <2>6. /\ expires'[r] = call[h].deadline
        /\ \A q \in RequestIds : q # r => expires'[q] = expires[q]
    BY <1>4, <2>4
  <2>7. \A q \in RequestIds : request[q].status # "none" => Moves(q)
    BY <2>1, <2>6, SameRowMoves
  <2>8. ~next.consumed /\ (next.id = call[h].id \/ next.id = r)
    BY <1>1, <1>2, <1>4 DEF Call
  <2>9. Fine(next)'
    <3>1. CASE next = granted
      <4>1. /\ next.pc = "dispatch" /\ next.id = r /\ next.deadline = call[h].deadline
            /\ ~next.consumed /\ ~next.chargeable /\ ~next.refused /\ next.outcome # "ok"
        BY <1>1, <1>2, <3>1 DEF Call
      <4>2. r # NoId
        BY InferenceAssumption
      <4> HIDE DEF granted, lost
      <4>3. RowFine(next)' /\ TimeFine(next)'
        BY <2>1, <2>6, <4>1, <4>2 DEF RowFine, TimeFine, Open, Attempting
      <4>4. WorkFine(next)' /\ EndFine(next)'
        BY <2>1, <4>1, <4>2 DEF WorkFine, EndFine, Open
      <4>5. QED
        BY <4>3, <4>4 DEF Fine
    <3>2. CASE next = lost
      <4>1. /\ next.pc = "done" /\ next.id = NoId
            /\ ~next.consumed /\ ~next.chargeable /\ ~next.refused /\ next.outcome = "error"
        BY <1>1, <1>2, <3>2 DEF Call
      <4> HIDE DEF granted, lost
      <4>2. RowFine(next)' /\ TimeFine(next)'
        BY <4>1 DEF RowFine, TimeFine, Running, Working, Attempting
      <4>3. WorkFine(next)' /\ EndFine(next)'
        BY <4>1 DEF WorkFine, EndFine, Working, Attempting
      <4>4. QED
        BY <4>2, <4>3 DEF Fine
    <3>3. QED
      BY <1>4, <3>1, <3>2
  <2>10. next \in Call
    BY <1>4, <2>3
  <2> HIDE DEF granted, lost
  <2>11. QED
    BY <1>4, <2>1, <2>2, <2>5, <2>7, <2>8, <2>9, <2>10, StoreStep
<1>5. QED
  <2>1. [call[h] EXCEPT !.pc = "dispatch", !.id = r] = granted
        /\ [Answer(h, "error") EXCEPT !.faulty = TRUE] = lost
    BY DEF Answer
  <2> HIDE DEF granted, lost
  <2>2. QED
    BY <1>3, <1>4, <2>1 DEF ReserveCall

\* What a handler that holds a row may count on when it calls the store.
LEMMA MyRow ==
  ASSUME IInv, NEW h \in Handlers, call[h].pc \in Running
  PROVE  /\ call[h].id \in RequestIds /\ call[h].id # NoId
         /\ request[call[h].id].status # "none"
         /\ expires[call[h].id] = call[h].deadline
<1>1. call[h] \in Call /\ Fine(call[h])
  BY Mine
<1>2. call[h].id \in RequestIds \cup {NoId}
  BY <1>1 DEF Call
<1>3. QED
  BY <1>1, <1>2 DEF Fine, RowFine

\* A call of the store for the handler's own row, however the answer arrives.
LEMMA OwnCall ==
  ASSUME IInv, NEW h \in Handlers, call[h].pc \in Running, NEW op \in 1..4,
         \/ op = 1 /\ MarkDispatched(call[h].id)
         \/ op = 2 /\ \E actual \in Costs, zeroUsage \in BOOLEAN : Settle(call[h].id, actual, zeroUsage)
         \/ op = 3 /\ Refund(call[h].id)
         \/ op = 4 /\ MarkNeedsReconciliation(call[h].id),
         NEW next \in Call, call' = [call EXCEPT ![h] = next],
         UNCHANGED <<leases, expires, now, crashes>>,
         faults' = faults \/ (faults < MaxFaults /\ faults' = faults + 1),
         next.id = call[h].id, next.consumed = call[h].consumed, next.deadline = call[h].deadline,
         next.chargeable = call[h].chargeable, next.refused = call[h].refused,
         call[h].faulty => next.faulty, next.pc \in {"attempt", "mark", "done"},
         next.pc = "attempt" => op = 1, next.pc = "mark" => next.faulty,
         next.pc = "done" /\ ~next.faulty => op # 1 /\ (call[h].chargeable => op = 2 \/ call[h].refused),
         next.outcome = "ok" => next.pc = "done" /\ op = 2,
         op = 2 => call[h].consumed /\ ~call[h].refused, op = 1 => call[h].pc = "dispatch",
         call[h].chargeable => next.pc \in {"mark", "done"}
  PROVE  IInv'
<1> DEFINE r == call[h].id
<1>1. /\ r \in RequestIds /\ r # NoId /\ request[r].status # "none" /\ expires[r] = call[h].deadline
      /\ call[h] \in Call /\ Fine(call[h]) /\ TypeOK
  BY MyRow, Mine DEF IInv, InferenceTypeOK
<1>2. /\ [Next]_vars /\ sweep' = sweep
      /\ request'[r].status # "none"
      /\ op = 1 => /\ reservation'[r] = reservation[r] /\ request'[r].dispatched
                   /\ request'[r].status = "dispatched"
      /\ op = 2 => reservation'[r].state = "settled"
      /\ op = 3 => reservation'[r].state = "refunded"
      /\ op = 4 => reservation'[r].state = "needs_reconciliation"
      /\ \A q \in RequestIds : q # r => SameRow(q)
  BY <1>1, OperationMoves
<1> HIDE DEF r
<1>3. TypeOK' /\ RowsCoherent'
  BY <1>2, StoreKeepsTypes
<1>4. InferenceTypeOK'
  BY <1>3, InferenceTypeStep
<1>5. \A q \in RequestIds : request[q].status # "none" =>
        \/ Moves(q)
        \/ /\ q = r /\ request'[q].status # "none"
           /\ reservation'[q].state = "reserved" =>
                Open(q) /\ (reservation[q].overdue => reservation'[q].overdue)
  BY <1>2, SameRowMoves DEF Open
<1>6. next.id = r /\ expires'[r] = next.deadline
  BY <1>1 DEF r
<1>7. RowFine(next)'
  BY <1>1, <1>2, <1>6 DEF RowFine
<1>8. TimeFine(next)'
  <2>1. next.pc \in Working => op = 1 /\ next.pc = "attempt"
    BY DEF Working, Attempting
  <2>2. next.pc \notin Attempting
    BY DEF Attempting
  <2>3. op = 1 /\ now < next.deadline => Open(r) /\ ~reservation[r].overdue
    BY <1>1 DEF Fine, TimeFine, Working, r
  <2>4. QED
    BY <1>2, <1>6, <2>1, <2>2, <2>3 DEF TimeFine, Open, Attempting
<1>9. WorkFine(next)'
  <2>1. call[h].consumed => call[h].pc # "dispatch"
    BY <1>1 DEF Fine, WorkFine
  <2>2. next.consumed => next.pc \in {"mark", "done"}
    BY <2>1
  <2>3. op = 1 => ~next.consumed
    BY <2>1
  <2>4. QED
    BY <1>2, <1>6, <2>2, <2>3 DEF WorkFine, Open
<1>10. EndFine(next)'
  <2>1. ASSUME reservation'[r].state = "settled" PROVE next.consumed
    <3>1. CASE op = 1
      BY <1>1, <1>2, <2>1, <3>1 DEF Fine, EndFine, r
    <3>2. CASE op = 2
      BY <3>2
    <3>3. QED
      BY <1>2, <2>1, <3>1, <3>2
  <2>2. next.pc = "done" /\ ~next.faulty => reservation'[r].state # "reserved"
    BY <1>2
  <2>3. next.refused => next.pc \in {"mark", "done"} /\ reservation'[r].state # "settled"
    BY <1>1, <1>2 DEF Fine, EndFine, r
  <2>4. QED
    BY <1>2, <1>6, <2>1, <2>2, <2>3 DEF EndFine, Open
<1>11. QED
  BY <1>2, <1>3, <1>4, <1>5, <1>7, <1>8, <1>9, <1>10, StoreStep DEF Fine, r

\* The row is already in other hands: the handler goes on without touching it.
LEMMA GoodFinish ==
  ASSUME NEW c \in Call, Fine(c), c.pc \in {"refund", "mark"}, ~Open(c.id)
  PROVE  Good(c, [c EXCEPT !.pc = "done", !.outcome = "error"])
<1> DEFINE next == [c EXCEPT !.pc = "done", !.outcome = "error"]
<1>1. next \in Call /\ next.id = c.id /\ next.consumed = c.consumed
  BY DEF Call, Steps
<1>2. Fine(next)
  BY DEF Call, Fine, RowFine, TimeFine, WorkFine, EndFine, Running, Working, Attempting
<1>3. QED
  BY <1>1, <1>2 DEF Good

LEMMA GoodDispatched ==
  ASSUME NEW c \in Call, Fine(c), c.pc = "dispatch", request[c.id].status # "reserved"
  PROVE  Good(c, [c EXCEPT !.pc = "attempt"])
<1> DEFINE next == [c EXCEPT !.pc = "attempt"]
<1>1. next \in Call /\ next.id = c.id /\ next.consumed = c.consumed
  BY DEF Call, Steps
<1>2. Fine(next)
  BY DEF Call, Fine, RowFine, TimeFine, WorkFine, EndFine, Running, Working, Attempting
<1>3. QED
  BY <1>1, <1>2 DEF Good

LEMMA DispatchSteps ==
  ASSUME IInv, NEW h \in Handlers, DispatchCall(h)
  PROVE  IInv'
<1> DEFINE c == call[h]
           sent == [c EXCEPT !.pc = "attempt"]
           lost == [c EXCEPT !.pc = "done", !.outcome = "error", !.faulty = TRUE, !.left = c.left]
<1>1. /\ c \in Call /\ Fine(c) /\ leases \subseteq Leases
      /\ faults \in 0..MaxFaults /\ crashes \in 0..MaxCrashes /\ now \in Nat
  BY Mine
<1>2. c.pc = "dispatch" /\ c.pc \in Running
  BY DEF DispatchCall, At, Running, Working
<1>3. /\ ~c.consumed /\ ~c.chargeable /\ ~c.refused /\ c.outcome # "ok"
      /\ c.left \in SUBSET (0..MaxAttempts)
  BY <1>1, <1>2 DEF Fine, WorkFine, EndFine, Call
<1> HIDE DEF c
<1>4. /\ sent \in Call /\ sent.pc = "attempt" /\ sent.id = c.id /\ sent.consumed = c.consumed
      /\ sent.deadline = c.deadline /\ sent.chargeable = c.chargeable /\ sent.faulty = c.faulty
      /\ sent.refused = c.refused /\ sent.outcome = c.outcome
  BY <1>1 DEF Call, Steps
<1>5. /\ lost \in Call /\ lost.pc = "done" /\ lost.id = c.id /\ lost.consumed = c.consumed
      /\ lost.deadline = c.deadline /\ lost.chargeable = c.chargeable /\ lost.faulty = TRUE
      /\ lost.refused = c.refused /\ lost.outcome = "error"
  BY <1>1, <1>3 DEF Call, Steps
<1>6. lost = [[c EXCEPT !.pc = "done", !.outcome = "error"] EXCEPT !.faulty = TRUE]
  BY <1>1 DEF Call
<1>7. Good(c, lost)
  BY <1>1, <1>2, <1>3, GoodFault
<1>8. request[c.id].status # "reserved" => Good(c, sent)
  BY <1>1, <1>2, GoodDispatched
<1> HIDE DEF sent, lost
<1>9. PICK next \in {sent, lost} :
         /\ call' = [call EXCEPT ![h] = next]
         /\ UNCHANGED <<leases, expires, now, crashes>>
         /\ faults' = faults \/ (faults < MaxFaults /\ faults' = faults + 1)
  BY <1>6 DEF DispatchCall, Stored, DbFault, Goto, Answer, c, sent
<1>10. CASE request[c.id].status = "reserved"
  <2>1. MarkDispatched(c.id)
    BY <1>10 DEF DispatchCall, c
  <2>2. 1 \in 1..4 /\ 1 # 2 /\ 1 # 3 /\ 1 # 4
    OBVIOUS
  <2>3. /\ next \in Call /\ next.id = c.id /\ next.consumed = c.consumed /\ next.deadline = c.deadline
        /\ next.chargeable = c.chargeable /\ next.refused = c.refused
        /\ (c.faulty => next.faulty) /\ next.outcome # "ok"
        /\ next.pc \in {"attempt", "done"} /\ (next.pc = "done" => next.faulty)
    BY <1>3, <1>4, <1>5, <1>9
  <2>4. QED
    <3>1. /\ MarkDispatched(call[h].id) /\ call[h].pc = "dispatch" /\ call[h].pc \in Running
          /\ ~call[h].chargeable /\ ~call[h].consumed
      BY <1>2, <1>3, <2>1 DEF c
    <3>2. /\ next \in Call /\ next.id = call[h].id /\ next.consumed = call[h].consumed
          /\ next.deadline = call[h].deadline /\ next.chargeable = call[h].chargeable
          /\ next.refused = call[h].refused
          /\ (call[h].faulty => next.faulty) /\ next.pc \in {"attempt", "mark", "done"}
          /\ next.outcome # "ok" /\ next.pc # "mark" /\ (next.pc = "done" => next.faulty)
      BY <2>3 DEF c
    <3>3. QED
      BY <1>9, <2>2, <3>1, <3>2, OwnCall
<1>11. CASE request[c.id].status # "reserved"
  <2>1. UNCHANGED vars
    BY <1>11 DEF DispatchCall, c
  <2>2. faults' \in 0..MaxFaults
    BY <1>1, <1>9, Numbers
  <2>3. Good(c, next)
    BY <1>7, <1>8, <1>9, <1>11
  <2>4. QED
    BY <1>1, <1>9, <2>1, <2>2, <2>3, GoodStep DEF c
<1>12. QED
  BY <1>10, <1>11

\* The usage has no cost to charge: the handler goes on to mark the reservation.
LEMMA GoodRefuse ==
  ASSUME NEW c \in Call, Fine(c), c.pc = "settle", now \in Nat
  PROVE  Good(c, [[c EXCEPT !.pc = "mark"] EXCEPT !.refused = TRUE])
<1> DEFINE next == [[c EXCEPT !.pc = "mark"] EXCEPT !.refused = TRUE]
<1>1. /\ next \in Call /\ next.id = c.id /\ next.consumed = c.consumed /\ next.refused
      /\ next.pc = "mark" /\ next.outcome = c.outcome /\ next.chargeable = c.chargeable
      /\ next.deadline = c.deadline
  BY DEF Call, Steps
<1>2. Open(c.id) /\ c.id # NoId
  BY StillHeld DEF Attempting, Running, Working, Fine, RowFine
<1> HIDE DEF next
<1>3. RowFine(next) /\ TimeFine(next)
  BY <1>1, <1>2 DEF Fine, RowFine, TimeFine, Working, Attempting
<1>4. WorkFine(next) /\ EndFine(next)
  BY <1>1, <1>2 DEF Fine, WorkFine, EndFine, Working, Attempting, Open
<1>5. QED
  BY <1>1, <1>3, <1>4 DEF Good, Fine, next

LEMMA MoneySteps ==
  ASSUME IInv, NEW h \in Handlers,
         \/ \E actual \in Costs, estimated, zeroUsage \in BOOLEAN : SettleCall(h, actual, estimated, zeroUsage)
         \/ CostOverflows(h) \/ RefundCall(h) \/ MarkCall(h)
  PROVE  IInv'
<1> DEFINE c == call[h]
           over(outcome) == [c EXCEPT !.pc = "done", !.outcome = outcome]
           lost == [[c EXCEPT !.pc = "mark"] EXCEPT !.faulty = TRUE]
           worthless == [[c EXCEPT !.pc = "mark"] EXCEPT !.refused = TRUE]
<1>1. /\ c \in Call /\ Fine(c) /\ leases \subseteq Leases
      /\ faults \in 0..MaxFaults /\ crashes \in 0..MaxCrashes /\ now \in Nat
  BY Mine
<1>2. /\ c.pc = "settle" => c.consumed /\ ~c.refused
      /\ c.pc = "refund" => ~c.chargeable
      /\ c.pc = "mark" /\ c.chargeable => c.faulty \/ c.refused
      /\ c.pc \in {"settle", "refund", "mark"} => c.outcome # "ok" /\ c.pc \in Running
  BY <1>1 DEF Fine, WorkFine, EndFine, Running, Working, Attempting
<1> HIDE DEF c
<1>3. \A outcome \in {"ok", "error"} :
        /\ over(outcome) \in Call /\ over(outcome).pc = "done" /\ over(outcome).id = c.id
        /\ over(outcome).consumed = c.consumed /\ over(outcome).deadline = c.deadline
        /\ over(outcome).chargeable = c.chargeable /\ over(outcome).faulty = c.faulty
        /\ over(outcome).refused = c.refused /\ over(outcome).outcome = outcome
  BY <1>1 DEF Call, Steps
<1>4. /\ lost \in Call /\ lost.pc = "mark" /\ lost.id = c.id /\ lost.consumed = c.consumed
      /\ lost.deadline = c.deadline /\ lost.chargeable = c.chargeable /\ lost.faulty = TRUE
      /\ lost.refused = c.refused /\ lost.outcome = c.outcome
  BY <1>1 DEF Call, Steps
<1>5. c.pc \in {"refund", "mark"} /\ ~Open(c.id) => Good(c, over("error"))
  BY <1>1, GoodFinish
<1>6. Answer(h, "ok") = over("ok") /\ Answer(h, "error") = over("error")
  BY DEF Answer, c
<1>7. /\ [Goto(h, "mark") EXCEPT !.faulty = TRUE] = lost
      /\ [Goto(h, "mark") EXCEPT !.refused = TRUE] = worthless
  BY DEF Goto, c
<1>8. c.pc = "settle" => Good(c, worthless) /\ Open(c.id)
  BY <1>1, GoodRefuse, StillHeld DEF Attempting
<1> HIDE DEF over, lost, worthless
<1>9. ASSUME NEW actual \in Costs, NEW estimated \in BOOLEAN, NEW zeroUsage \in BOOLEAN,
             SettleCall(h, actual, estimated, zeroUsage), Settle(c.id, actual, zeroUsage)
      PROVE  IInv'
  <2>1. c.pc = "settle"
    BY <1>9 DEF SettleCall, At, c
  <2>2. Settleable(c.id, actual, zeroUsage)
    BY <1>9 DEF Settle
  <2>3. PICK outcome \in {"ok", "error"} : Stored(h, over(outcome)) \/ DbFault(h, Goto(h, "mark"))
    BY <1>6, <1>9, <2>2 DEF SettleCall, c
  <2>4. PICK next \in {over(outcome), lost} :
          /\ call' = [call EXCEPT ![h] = next]
          /\ UNCHANGED <<leases, expires, now, crashes>>
          /\ faults' = faults \/ (faults < MaxFaults /\ faults' = faults + 1)
    BY <1>7, <2>3 DEF Stored, DbFault
  <2>5. \E a \in Costs, z \in BOOLEAN : Settle(call[h].id, a, z)
    BY <1>9 DEF c
  <2>6. 2 \in 1..4
    OBVIOUS
  <2>7. /\ next \in Call /\ next.id = c.id /\ next.consumed = c.consumed /\ next.deadline = c.deadline
        /\ next.chargeable = c.chargeable /\ next.refused = c.refused /\ (c.faulty => next.faulty)
        /\ next.outcome = "ok" => next.pc = "done"
        /\ next.pc \in {"mark", "done"} /\ (next.pc = "mark" => next.faulty)
    BY <1>2, <1>3, <1>4, <2>1, <2>3, <2>4
  <2>8. c.consumed /\ ~c.refused /\ c.pc \in Running /\ 2 # 1
    BY <1>2, <2>1
  <2>9. QED
    BY <2>4, <2>5, <2>6, <2>7, <2>8, OwnCall DEF c
<1>10. ASSUME c.pc \in {"refund", "mark"}, Stored(h, over("error")),
             NEW op \in 3..4, op = 3 => c.pc = "refund",
             IF Open(c.id) THEN \/ op = 3 /\ Refund(c.id)
                                \/ op = 4 /\ MarkNeedsReconciliation(c.id)
             ELSE UNCHANGED vars
      PROVE  IInv'
  <2>1. CASE Open(c.id)
    <3>1. /\ op \in 1..4 /\ op # 1 /\ op # 2
          /\ (op = 3 /\ Refund(call[h].id)) \/ (op = 4 /\ MarkNeedsReconciliation(call[h].id))
      BY <1>10, <2>1 DEF c
    <3>2. /\ call' = [call EXCEPT ![h] = over("error")]
          /\ UNCHANGED <<leases, expires, now, crashes>> /\ faults' = faults
      BY <1>10 DEF Stored
    <3>3. /\ over("error") \in Call /\ over("error").pc = "done" /\ over("error").id = c.id
          /\ over("error").consumed = c.consumed /\ over("error").deadline = c.deadline
          /\ over("error").chargeable = c.chargeable /\ over("error").faulty = c.faulty
          /\ over("error").refused = c.refused /\ over("error").outcome = "error"
      BY <1>3
    <3>4. c.chargeable => c.faulty \/ c.refused
      BY <1>2, <1>10
    <3>5. c.pc \in Running
      BY <1>2, <1>10
    <3>6. QED
      BY <3>1, <3>2, <3>3, <3>4, <3>5, OwnCall DEF c
  <2>2. CASE ~Open(c.id)
    BY <1>1, <1>5, <1>10, <2>2, GoodStep DEF Stored, c
  <2>3. QED
    BY <2>1, <2>2
<1>11. CASE RefundCall(h)
  <2>1. /\ c.pc = "refund" /\ Stored(h, over("error"))
        /\ IF Open(c.id) THEN Refund(c.id) ELSE UNCHANGED vars
    BY <1>6, <1>11 DEF RefundCall, At, Open, c
  <2>2. 3 \in 3..4
    OBVIOUS
  <2>3. QED
    BY <1>10, <2>1, <2>2
<1>12. CASE MarkCall(h)
  <2>1. /\ c.pc = "mark" /\ Stored(h, over("error"))
        /\ IF Open(c.id) THEN MarkNeedsReconciliation(c.id) ELSE UNCHANGED vars
    BY <1>6, <1>12 DEF MarkCall, At, Open, c
  <2>2. 4 \in 3..4 /\ 4 # 3
    OBVIOUS
  <2>3. QED
    BY <1>10, <2>1, <2>2
<1>13. ASSUME NEW actual \in Costs, NEW estimated \in BOOLEAN, NEW zeroUsage \in BOOLEAN,
              SettleCall(h, actual, estimated, zeroUsage), ~Settleable(c.id, actual, zeroUsage)
       PROVE  IInv'
  <2>1. c.pc = "settle" /\ UNCHANGED vars
    BY <1>13 DEF SettleCall, At, Settle, c
  <2>2. Stored(h, worthless)
    <3>1. reservation[c.id].state = "reserved"
      BY <1>8, <2>1 DEF Open
    <3>2. Stored(h, [Goto(h, "mark") EXCEPT !.refused = TRUE])
      BY <1>13, <3>1 DEF SettleCall, Settle, c
    <3>3. QED
      BY <1>7, <3>2
  <2>3. QED
    BY <1>1, <1>8, <2>1, <2>2, GoodStep DEF Stored, c
<1>14. CASE CostOverflows(h)
  <2>1. c.pc = "settle" /\ Local(h, worthless) /\ leases' = leases
    BY <1>7, <1>14 DEF CostOverflows, At, c
  <2>2. QED
    BY <1>1, <1>8, <2>1, GoodStep DEF Local, c
<1>15. QED
  BY <1>9, <1>11, <1>12, <1>13, <1>14 DEF SettleCall, c

-----------------------------------------------------------------------------
(* The sweep, the administrator, and the clock *)

\* A provider timeout is one of the ways a call or a stream breaks.
LEMMA TimeoutSteps ==
  ASSUME IInv, NEW h \in Handlers, ProviderTimeout(h)
  PROVE  IInv'
BY CallSteps, StreamSteps DEF ProviderTimeout

LEMMA SweepTyped ==
  ASSUME TypeOK
  PROVE  /\ sweep \in [Maintainers -> Sweep]
         /\ \A m \in Maintainers : \A row \in sweep[m].rows : row[1] \in RequestIds
BY DEF TypeOK, Sweep

\* Rows that a sweep still holds stay as described while rows only move on.
LEMMA SweepStaysFine ==
  ASSUME IInv, call' = call,
         \A q \in RequestIds : request[q].status # "none" => Moves(q),
         \A m \in Maintainers :
            \/ sweep'[m].rows = {}
            \/ sweep'[m].rows \subseteq sweep[m].rows /\ sweep'[m].phase = sweep[m].phase
  PROVE  SweepFine'
<1>1. SUFFICES ASSUME NEW m \in Maintainers, NEW row \in sweep'[m].rows
               PROVE  /\ request'[row[1]].status # "none"
                      /\ sweep'[m].phase = "stale" /\ reservation'[row[1]].state = "reserved" =>
                           /\ reservation'[row[1]].overdue
                           /\ ~row[2] => \A g \in Handlers : call'[g].id = row[1] => ~call'[g].consumed
  BY DEF SweepFine, Open
<1>2. row \in sweep[m].rows /\ sweep'[m].phase = sweep[m].phase
  OBVIOUS
<1>3. row[1] \in RequestIds /\ request[row[1]].status # "none"
  BY <1>2, SweepTyped DEF IInv, SweepFine, InferenceTypeOK
<1>4. Moves(row[1])
  BY <1>3
<1>5. sweep[m].phase = "stale" /\ Open(row[1]) =>
        /\ reservation[row[1]].overdue
        /\ ~row[2] => \A g \in Handlers : call[g].id = row[1] => ~call[g].consumed
  BY <1>2 DEF IInv, SweepFine
<1>6. QED
  BY <1>2, <1>4, <1>5 DEF Moves

\* A step of the store by itself.
LEMMA SystemMoves ==
  ASSUME IInv, [Next]_vars, UNCHANGED handlerVars,
         \A q \in RequestIds : request[q].status # "none" => Moves(q),
         SweepFine'
  PROVE  IInv'
<1>1. TypeOK' /\ RowsCoherent'
  BY StoreKeepsTypes
<1>2. InferenceTypeOK'
  BY <1>1 DEF IInv, InferenceTypeOK, handlerVars
<1>3. QED
  BY <1>1, <1>2, SystemStep DEF handlerVars

LEMMA OverdueStep ==
  ASSUME IInv, NEW r \in RequestIds, Overdue(r)
  PROVE  IInv'
<1>1. [Next]_vars /\ UNCHANGED handlerVars /\ request' = request /\ sweep' = sweep
  BY DEF Overdue, PassDeadline, Next
<1>2. /\ reservation \in [RequestIds -> Reservation]
      /\ reservation' = [reservation EXCEPT ![r] = [reservation[r] EXCEPT !.overdue = TRUE]]
      /\ reservation[r].state = "reserved" => expires[r] <= now
  BY DEF Overdue, PassDeadline, IInv, InferenceTypeOK, TypeOK
<1>3. /\ expires[r] \in Nat /\ now \in Nat /\ expires' = expires
  BY <1>1, InferenceAssumption DEF IInv, InferenceTypeOK, handlerVars
<1>4. /\ reservation'[r].state = reservation[r].state /\ reservation'[r].overdue
      /\ \A q \in RequestIds : q # r => reservation'[q] = reservation[q]
  BY <1>2 DEF Reservation
<1>5. ASSUME NEW q \in RequestIds, request[q].status # "none" PROVE Moves(q)
  BY <1>1, <1>2, <1>3, <1>4, <1>5 DEF Moves, Open
<1>6. SweepFine'
  BY <1>1, <1>5, SweepStaysFine DEF handlerVars
<1>7. QED
  BY <1>1, <1>5, <1>6, SystemMoves

\* Steps of the store that change no row of a request.
LEMMA RowsUntouched ==
  ASSUME UNCHANGED <<request, reservation, expires>>, NEW q \in RequestIds, request[q].status # "none"
  PROVE  Moves(q)
BY DEF Moves, Open

LEMMA RevokeStep ==
  ASSUME IInv, NEW k \in ApiKeys, RevokeKey(k), UNCHANGED handlerVars
  PROVE  IInv'
<1>1. [Next]_vars /\ UNCHANGED <<request, reservation, sweep, call, expires>>
  BY DEF RevokeKey, Next, handlerVars
<1>2. \A q \in RequestIds : request[q].status # "none" => Moves(q)
  BY <1>1, RowsUntouched
<1>3. SweepFine'
  BY <1>1, <1>2, SweepStaysFine
<1>4. QED
  BY <1>1, <1>2, <1>3, SystemMoves

LEMMA AbortStep ==
  ASSUME IInv, NEW m \in Maintainers, AbortSweep(m), UNCHANGED handlerVars
  PROVE  IInv'
<1>1. [Next]_vars /\ UNCHANGED <<request, reservation, call, expires>>
  BY DEF AbortSweep, Next, handlerVars
<1>2. \A q \in RequestIds : request[q].status # "none" => Moves(q)
  BY <1>1, RowsUntouched
<1>3. sweep' = [sweep EXCEPT ![m] = [phase |-> "quarantine", rows |-> {}]]
      /\ sweep \in [Maintainers -> Sweep]
  BY SweepTyped DEF AbortSweep, IInv, InferenceTypeOK
<1>4. SweepFine'
  BY <1>1, <1>2, <1>3, SweepStaysFine
<1>5. QED
  BY <1>1, <1>2, <1>4, SystemMoves

\* The two SELECTs: what a sweep reads is described by the rows it reads.
LEMMA ReadSteps ==
  ASSUME IInv, NEW m \in Maintainers, ReadStale(m) \/ ReadQuarantined(m), UNCHANGED handlerVars
  PROVE  IInv'
<1>1. [Next]_vars /\ UNCHANGED <<request, reservation, call, expires>>
  BY DEF ReadStale, ReadQuarantined, Next, SweepStep, handlerVars
<1>2. \A q \in RequestIds : request[q].status # "none" => Moves(q)
  BY <1>1, RowsUntouched
<1>3. PICK phase \in {"stale", "quarantine"}, state \in {"reserved", "needs_reconciliation"} :
        \E b \in SUBSET OverdueIn(state) : sweep' = [sweep EXCEPT ![m] = [phase |-> phase, rows |-> b]]
  BY DEF ReadStale, ReadQuarantined, Batches
<1>4. PICK b \in SUBSET OverdueIn(state) : sweep' = [sweep EXCEPT ![m] = [phase |-> phase, rows |-> b]]
  BY <1>3
<1>5. /\ sweep'[m] = [phase |-> phase, rows |-> b]
      /\ \A n \in Maintainers : n # m => sweep'[n] = sweep[n]
  BY <1>4, SweepTyped DEF IInv, InferenceTypeOK
<1>6. ASSUME NEW row \in b
      PROVE  /\ request[row[1]].status # "none" /\ reservation[row[1]].overdue
             /\ Open(row[1]) /\ ~row[2] => \A g \in Handlers : call[g].id = row[1] => ~call[g].consumed
  <2>1. PICK q \in RequestIds : /\ row = <<q, request[q].dispatched>>
                                /\ reservation[q].state = state /\ reservation[q].overdue
    BY <1>6 DEF OverdueIn
  <2>2. request[q].status # "none"
    <3>1. <<request[q].status, reservation[q].state>> \in
            {<<"none", "none">>, <<"reserved", "reserved">>, <<"dispatched", "reserved">>,
             <<"succeeded", "settled">>, <<"refunded", "refunded">>,
             <<"needs_reconciliation", "needs_reconciliation">>}
      BY DEF IInv, RowsCoherent
    <3>2. QED
      BY <2>1, <3>1
  <2>3. ASSUME NEW g \in Handlers, call[g].id = q, call[g].consumed, Open(q)
        PROVE  request[q].dispatched
    BY <2>3, Mine DEF Fine, WorkFine
  <2>4. QED
    BY <2>1, <2>2, <2>3
<1>7. SweepFine'
  <2>1. SUFFICES ASSUME NEW n \in Maintainers, NEW row \in sweep'[n].rows
                 PROVE  /\ request[row[1]].status # "none"
                        /\ sweep'[n].phase = "stale" /\ Open(row[1]) =>
                             /\ reservation[row[1]].overdue
                             /\ ~row[2] => \A g \in Handlers : call[g].id = row[1] => ~call[g].consumed
    BY <1>1 DEF SweepFine, Open
  <2>2. CASE n = m
    BY <1>5, <1>6, <2>2
  <2>3. CASE n # m
    BY <1>5, <2>3 DEF IInv, SweepFine
  <2>4. QED
    BY <2>2, <2>3
<1>8. QED
  BY <1>1, <1>2, <1>7, SystemMoves

\* One row of a sweep: it is open only if it is overdue, so no handler relies on it.
LEMMA RowSteps ==
  ASSUME IInv, NEW m \in Maintainers, NEW r \in RequestIds, NEW d \in BOOLEAN,
         ReconcileRow(m, r, d) \/ ResolveRow(m, r, d), UNCHANGED handlerVars
  PROVE  /\ IInv'
         /\ \A h \in Handlers : call[h].consumed /\ Open(call[h].id)
                                => reservation'[call[h].id].state # "refunded"
<1>1. [Next]_vars /\ UNCHANGED <<call, now, expires>>
  BY DEF Next, SweepStep, handlerVars
<1>2. /\ <<r, d>> \in sweep[m].rows
      /\ sweep' = [sweep EXCEPT ![m].rows = @ \ {<<r, d>>}]
      /\ sweep \in [Maintainers -> Sweep]
  BY SweepTyped DEF ReconcileRow, ResolveRow, IInv, InferenceTypeOK
<1>3. \A n \in Maintainers : sweep'[n].rows \subseteq sweep[n].rows /\ sweep'[n].phase = sweep[n].phase
  BY <1>2 DEF Sweep
<1>4. request[r].status # "none"
  BY <1>2 DEF IInv, SweepFine
<1>5. request \in [RequestIds -> Request] /\ reservation \in [RequestIds -> Reservation]
  BY DEF IInv, InferenceTypeOK, TypeOK
<1>6. ReconcileRow(m, r, d) /\ Open(r) =>
        reservation[r].overdue /\ (~d => \A g \in Handlers : call[g].id = r => ~call[g].consumed)
  BY <1>2 DEF ReconcileRow, IInv, SweepFine
<1>7. \/ UNCHANGED <<request, reservation>>
      \/ /\ ~Open(r) \/ reservation[r].overdue
         /\ reservation[r].state \in {"reserved", "needs_reconciliation"}
         /\ request'[r].status # "none"
         /\ reservation'[r].state \in {"refunded", "needs_reconciliation"}
         /\ \A q \in RequestIds : q # r => SameRow(q)
         /\ Open(r) /\ reservation'[r].state = "refunded"
            => \A g \in Handlers : call[g].id = r => ~call[g].consumed
  <2>1. CASE UNCHANGED <<money, keyActive, request, reservation, aborts>>
    BY <2>1
  <2>2. CASE /\ QuarantineRows(r) /\ ReconcileRow(m, r, d) /\ Open(r)
    <3>1. /\ request' = [request EXCEPT ![r] = [request[r] EXCEPT !.status = "needs_reconciliation"]]
          /\ reservation' = [reservation EXCEPT
                               ![r] = [reservation[r] EXCEPT !.state = "needs_reconciliation", !.overdue = FALSE]]
      BY <2>2 DEF QuarantineRows
    <3>2. request'[r].status = "needs_reconciliation" /\ reservation'[r].state = "needs_reconciliation"
      BY <1>5, <3>1 DEF Request, Reservation
    <3>3. QED
      BY <1>5, <1>6, <2>2, <3>1, <3>2 DEF SameRow, Open
  <2>3. CASE /\ RefundRows(r)
             /\ \/ ReconcileRow(m, r, d) /\ Open(r) /\ ~d
                \/ reservation[r].state = "needs_reconciliation"
    <3>1. PICK held :
            /\ request' = [request EXCEPT ![r] = [request[r] EXCEPT
                             !.status = "refunded", !.charged = 0, !.refunded = held]]
            /\ reservation' = [reservation EXCEPT
                                 ![r] = [state |-> "refunded", reserved |-> held, charged |-> 0,
                                         refunded |-> held, overdue |-> FALSE]]
      BY <2>3 DEF RefundRows
    <3>2. request'[r].status = "refunded" /\ reservation'[r].state = "refunded"
      BY <1>5, <3>1 DEF Request
    <3>3. QED
      BY <1>5, <1>6, <2>3, <3>1, <3>2 DEF SameRow, Open
  <2>4. QED
    BY <2>1, <2>2, <2>3 DEF ReconcileRow, ResolveRow, Open
<1>8. ASSUME NEW q \in RequestIds, request[q].status # "none" PROVE Moves(q)
  <2>1. CASE UNCHANGED <<request, reservation>>
    BY <1>1, <1>8, <2>1, RowsUntouched
  <2>2. CASE q # r /\ SameRow(q)
    BY <1>1, <1>8, <2>2, SameRowMoves
  <2>3. CASE q = r
    BY <1>1, <1>7, <1>8, <2>3, RowsUntouched DEF Moves, Open
  <2>4. QED
    BY <1>7, <2>1, <2>2, <2>3
<1>9. SweepFine'
  BY <1>1, <1>3, <1>8, SweepStaysFine
<1>10. IInv'
  BY <1>1, <1>8, <1>9, SystemMoves
<1>11. ASSUME NEW h \in Handlers, call[h].consumed, Open(call[h].id)
       PROVE  reservation'[call[h].id].state # "refunded"
  <2>1. call[h].id \in RequestIds \cup {NoId} /\ call[h].id # NoId
    BY <1>11, Mine DEF Call, Fine, RowFine
  <2>2. QED
    BY <1>7, <1>11, <2>1 DEF SameRow, Open
<1>12. QED
  BY <1>10, <1>11

\* Time passes: the guards of Tick are what the deadlines of a handler need.
LEMMA TickStep ==
  ASSUME IInv, Tick
  PROVE  IInv'
<1>1. /\ UNCHANGED <<request, reservation, sweep, expires>> /\ UNCHANGED vars
      /\ now' = now + 1 /\ UNCHANGED <<leases, faults, crashes>> /\ now < MaxTime
  BY DEF Tick, vars
<1>2. now \in 0..MaxTime /\ call \in [Handlers -> Call]
  BY DEF IInv, InferenceTypeOK
<1>3. now' \in 0..MaxTime /\ now \in Nat
  BY <1>1, <1>2, Numbers
<1>4. ASSUME NEW h \in Handlers
      PROVE  /\ call'[h] \in Call /\ call'[h].id = call[h].id /\ call'[h].consumed = call[h].consumed
             /\ Fine(call[h])'
  <2>1. call'[h] = IF InDatabase(h) THEN [call[h] EXCEPT !.slack = @ + 1] ELSE call[h]
    BY DEF Tick
  <2>2. /\ call[h] \in Call /\ RowFine(call[h]) /\ TimeFine(call[h]) /\ WorkFine(call[h]) /\ EndFine(call[h])
    BY Mine DEF Fine
  <2>3. /\ call[h].slack \in 0..Buffer /\ call[h].deadline \in Nat /\ call[h].ends \in Nat
    BY <2>2, Fields
  <2>4. CASE InDatabase(h)
    <3> DEFINE c == call[h]
               m == [c EXCEPT !.slack = c.slack + 1]
    <3>1. c.slack + 1 < Buffer /\ c.pc \in Attempting /\ c.pc \notin {"calling", "streaming"}
      BY <2>4 DEF Tick, InDatabase
    <3>2. c.slack + 1 \in 0..Buffer
      BY <2>3, <3>1, Numbers
    <3>3. /\ m \in Call /\ m.pc = c.pc /\ m.id = c.id /\ m.deadline = c.deadline /\ m.route = c.route
          /\ m.attempts = c.attempts /\ m.error = c.error /\ m.ends = c.ends /\ m.slack = c.slack + 1
          /\ m.terminal = c.terminal /\ m.usage = c.usage /\ m.chargeable = c.chargeable
          /\ m.consumed = c.consumed /\ m.faulty = c.faulty /\ m.outcome = c.outcome
          /\ m.refused = c.refused
      BY <2>2, <3>2 DEF Call
    <3> HIDE DEF m
    <3>4. PICK n \in Call :
            /\ n = call'[h] /\ n.pc = c.pc /\ n.id = c.id /\ n.deadline = c.deadline /\ n.route = c.route
            /\ n.attempts = c.attempts /\ n.error = c.error /\ n.ends = c.ends /\ n.slack = c.slack + 1
            /\ n.terminal = c.terminal /\ n.usage = c.usage /\ n.chargeable = c.chargeable
            /\ n.consumed = c.consumed /\ n.faulty = c.faulty /\ n.outcome = c.outcome
            /\ n.refused = c.refused
      <4>1. m = call'[h]
        BY <2>1, <2>4 DEF m
      <4>2. QED
        BY <3>3, <4>1
    <3> HIDE DEF c
    <3>5. RowFine(n)' /\ WorkFine(n)' /\ EndFine(n)'
      BY <1>1, <2>2, <3>4 DEF RowFine, WorkFine, EndFine, Open, c
    <3>6. TimeFine(n)'
      <4>1. n.pc \in Attempting => n.slack < Buffer /\ n.route \in 1..Len(PoolOf)
        BY <2>2, <3>1, <3>4 DEF TimeFine, c
      <4>2. n.pc \in Working /\ now' < n.deadline => Open(n.id) /\ ~reservation[n.id].overdue
        BY <1>1, <1>3, <2>2, <2>3, <3>4 DEF TimeFine, c
      <4>3. n.pc \in {"claim", "audit"} => now' + TimeoutOf[n.route] + Buffer <= n.deadline + n.slack
        <5>1. c.pc \in Attempting => c.route \in 1..Len(PoolOf)
          BY <2>2 DEF TimeFine, c
        <5>2. TimeoutOf[c.route] \in Nat
          BY <3>1, <5>1, TimeoutType
        <5>3. c.pc \in {"claim", "audit"} => now + TimeoutOf[c.route] + Buffer <= c.deadline + c.slack
          BY <2>2 DEF TimeFine, c
        <5>4. now \in Nat /\ Buffer \in Nat /\ c.deadline \in Nat /\ c.slack \in Nat /\ now' = now + 1
          BY <1>1, <1>3, <2>3, Numbers DEF c
        <5>5. c.pc \in {"claim", "audit"}
              => (now + 1) + TimeoutOf[c.route] + Buffer <= c.deadline + (c.slack + 1)
          BY <5>2, <5>3, <5>4
        <5>6. QED
          BY <3>4, <5>4, <5>5
      <4>4. n.pc \in {"release", "settle"} => now' + Buffer <= n.deadline + n.slack
        <5>1. c.pc \in {"release", "settle"} => now + Buffer <= c.deadline + c.slack
          BY <2>2 DEF TimeFine, c
        <5>2. now \in Nat /\ Buffer \in Nat /\ c.deadline \in Nat /\ c.slack \in Nat /\ now' = now + 1
          BY <1>1, <1>3, <2>3, Numbers DEF c
        <5>3. c.pc \in {"release", "settle"} => (now + 1) + Buffer <= c.deadline + (c.slack + 1)
          BY ONLY <5>1, <5>2
        <5>4. QED
          BY <3>4, <5>2, <5>3
      <4>5. n.pc = "claim" => n.attempts < MaxAttempts
        BY <2>2, <3>4 DEF TimeFine, c
      <4>6. QED
        BY <1>1, <3>1, <3>4, <4>1, <4>2, <4>3, <4>4, <4>5 DEF TimeFine, Open
    <3>7. QED
      BY <3>4, <3>5, <3>6 DEF Fine, RowFine, TimeFine, WorkFine, EndFine, Open, c
  <2>5. CASE ~InDatabase(h)
    <3>1. call[h].pc \in Attempting => call[h].pc \in {"calling", "streaming"}
      BY <2>5 DEF InDatabase
    <3>2. call[h].pc \in {"calling", "streaming"} => now < call[h].ends
      BY DEF Tick, At
    <3>3. PICK c \in Call : c = call[h]
      BY <2>2
    <3>4. c = call'[h]
      BY <2>1, <2>5, <3>3
    <3>5. RowFine(c)' /\ WorkFine(c)' /\ EndFine(c)'
      BY <1>1, <2>2, <3>3 DEF RowFine, WorkFine, EndFine, Open
    <3>6. TimeFine(c)'
      BY <1>1, <1>3, <2>2, <2>3, <3>1, <3>2, <3>3 DEF TimeFine, Open, Attempting
    <3>7. QED
      BY <3>3, <3>4, <3>5, <3>6 DEF Fine, RowFine, TimeFine, WorkFine, EndFine, Open
  <2>6. QED
    BY <2>4, <2>5
<1>5. call' \in [Handlers -> Call]
  <2>1. call' = [h \in Handlers |-> call'[h]]
    BY DEF Tick
  <2>2. QED
    BY <1>4, <2>1
<1>6. TypeOK' /\ RowsCoherent'
  BY <1>1, StoreKeepsTypes
<1>7. InferenceTypeOK'
  BY <1>1, <1>3, <1>5, <1>6 DEF IInv, InferenceTypeOK
<1>8. HandlersFine'
  BY <1>4 DEF HandlersFine
<1>9. OwnRows'
  BY <1>4 DEF IInv, OwnRows
<1>10. SweepFine'
  BY <1>1, <1>4 DEF IInv, SweepFine, Open
<1>11. QED
  BY <1>6, <1>7, <1>8, <1>9, <1>10 DEF IInv

-----------------------------------------------------------------------------
(* The invariant, and every step of the runtime as a step of the store *)

LEMMA HandlerKeeps ==
  ASSUME IInv, NEW h \in Handlers, HandlerStep(h) \/ PeerStep(h) \/ FailureStep(h)
  PROVE  IInv'
<1>1. CASE HandlerStep(h)
  BY <1>1, ReserveSteps, DispatchSteps, LoopSteps, CallSteps, TimeoutSteps, StreamSteps, MoneySteps
     DEF HandlerStep
<1>2. CASE PeerStep(h)
  BY <1>2, LoopSteps, CallSteps, StreamSteps DEF PeerStep
<1>3. CASE FailureStep(h)
  BY <1>3, FaultSteps, CallSteps, StreamSteps DEF FailureStep
<1>4. QED
  BY <1>1, <1>2, <1>3

LEMMA SweepKeeps ==
  ASSUME IInv, NEW m \in Maintainers, Sweeping(m)
  PROVE  IInv'
BY ReadSteps, RowSteps DEF Sweeping, SweepStep

LEMMA StutterKeeps ==
  ASSUME IInv, UNCHANGED inferenceVars
  PROVE  IInv'
<1>1. [Next]_vars /\ UNCHANGED <<request, reservation, sweep, call, expires>> /\ UNCHANGED handlerVars
  BY DEF inferenceVars, handlerVars, vars
<1>2. \A q \in RequestIds : request[q].status # "none" => Moves(q)
  BY <1>1, RowsUntouched
<1>3. SweepFine'
  BY <1>1, <1>2, SweepStaysFine
<1>4. QED
  BY <1>1, <1>2, <1>3, SystemMoves

LEMMA IInvStep == IInv /\ [InferenceNext]_inferenceVars => IInv'
<1> SUFFICES ASSUME IInv, [InferenceNext]_inferenceVars PROVE IInv'
  OBVIOUS
<1>1. CASE InferenceNext
  BY <1>1, HandlerKeeps, OverdueStep, RevokeStep, SweepKeeps, AbortStep, TickStep DEF InferenceNext
<1>2. CASE UNCHANGED inferenceVars
  BY <1>2, StutterKeeps
<1>3. QED
  BY <1>1, <1>2

\* The types of the runtime, and with them everything the invariant says.
THEOREM InferenceInvariant == InferenceSpec => []IInv
BY IInvInit, IInvStep, PTL DEF InferenceSpec

\* The records of handlers, leases, clock and store stay of their types: in particular
\* no handler starts more than MAX_PROVIDER_ATTEMPTS attempts or leaves the routes.
THEOREM InferenceTypeCorrect == InferenceSpec => []InferenceTypeOK
<1>1. IInv => InferenceTypeOK
  BY DEF IInv
<1>2. QED
  BY <1>1, InferenceInvariant, PTL

\* The deadline check of invoke is enough: whatever the number of routes, their timeouts,
\* the retries and the time the database takes within the buffer, the reservation of a
\* request is open and not yet stale while a provider works for it.
THEOREM ReservationOutlivesAttempt == InferenceSpec => []HeldWhileRunning
<1>1. IInv => HeldWhileRunning
  BY Mine, StillHeld DEF HeldWhileRunning, Open
<1>2. QED
  BY <1>1, InferenceInvariant, PTL

\* A successful answer was charged, nothing is charged without work, and a handler that met
\* no failure leaves no open reservation behind.
THEOREM OutcomesMatch == InferenceSpec => []OutcomeMatchesRows
<1>1. IInv => OutcomeMatchesRows
  BY Mine DEF OutcomeMatchesRows, Fine, EndFine, Open, At
<1>2. QED
  BY <1>1, InferenceInvariant, PTL

\* However completion, cancel, late chunks and the awaits of failStream interleave, a
\* stream that ended with its usage known is charged, unless that usage has no cost to
\* charge: then its points wait for maintenance.
THEOREM EndedStreamsAreCharged == InferenceSpec => []EndedStreamIsCharged
<1>1. IInv => EndedStreamIsCharged
  <2> SUFFICES ASSUME IInv, NEW h \in Handlers, At(h, "done"), ~call[h].faulty, call[h].chargeable
               PROVE  IF call[h].refused
                      THEN reservation[call[h].id].state \in {"needs_reconciliation", "refunded"}
                      ELSE reservation[call[h].id].state = "settled"
    BY DEF EndedStreamIsCharged
  <2>1. Fine(call[h]) /\ call[h].id \in RequestIds \cup {NoId}
    BY Mine DEF Call
  <2>2. /\ call[h].id \in RequestIds /\ request[call[h].id].status # "none"
        /\ reservation[call[h].id].state # "reserved"
        /\ call[h].refused => reservation[call[h].id].state # "settled"
        /\ ~call[h].refused => reservation[call[h].id].state = "settled"
    BY <2>1 DEF Fine, RowFine, EndFine, Open, At
  <2>3. <<request[call[h].id].status, reservation[call[h].id].state>> \in
          {<<"none", "none">>, <<"reserved", "reserved">>, <<"dispatched", "reserved">>,
           <<"succeeded", "settled">>, <<"refunded", "refunded">>,
           <<"needs_reconciliation", "needs_reconciliation">>}
    BY <2>2 DEF IInv, RowsCoherent
  <2>4. QED
    BY <2>2, <2>3
<1>2. QED
  BY <1>1, InferenceInvariant, PTL

-----------------------------------------------------------------------------
(* What a handler asks of the store *)

\* The rows of request r after a call of the store that a handler at step pc may make.
Asks(pc, r) ==
    \/ MarkDispatched(r)
    \/ \E actual \in Costs, zeroUsage \in BOOLEAN : Settle(r, actual, zeroUsage)
    \/ pc = "refund" /\ Refund(r)
    \/ MarkNeedsReconciliation(r)

Reserves ==
    \E r \in RequestIds, k \in ApiKeys, i \in IdempotencyKeys \cup {NoKey},
       f \in Fingerprints, amount \in Amounts, row \in ReplayRow :
         Fresh(r) /\ Reserve(r, k, i, f, amount, row)

LEMMA HandlerAsks ==
  ASSUME NEW h \in Handlers, HandlerStep(h) \/ PeerStep(h) \/ FailureStep(h)
  PROVE  \/ UNCHANGED vars
         \/ Reserves
         \/ call[h].pc \in Running /\ Asks(call[h].pc, call[h].id)
<1>1. CASE FailureStep(h)
  BY <1>1 DEF FailureStep, ReserveFails, ClaimFails, ClaimLost, AuditFails, ReleaseFails, MoneyFails, Crash
<1>2. CASE PeerStep(h)
  BY <1>2 DEF PeerStep, Prepare, ProviderRejects, ProviderAnswers, ProviderUnknown, StreamUsage, StreamDone,
              StreamBreaks, ClientCancels, LateUsage, EndStream, Local
<1>3. ASSUME NEW r \in RequestIds, NEW k \in ApiKeys, NEW i \in IdempotencyKeys \cup {NoKey},
             NEW f \in Fingerprints, NEW amount \in Amounts, NEW row \in ReplayRow,
             ReserveCall(h, r, k, i, f, amount, row)
      PROVE  UNCHANGED vars \/ Reserves
  BY <1>3 DEF ReserveCall, Reserves, Local
<1>4. CASE NextAttempt(h) \/ NothingToClaim(h) \/ (\E c \in Credentials : Claim(h, c))
           \/ StartAttempt(h) \/ ProviderTimeout(h) \/ Release(h) \/ CostOverflows(h)
  BY <1>4 DEF NextAttempt, NothingToClaim, Claim, StartAttempt, ProviderTimeout, ProviderUnknown,
              StreamBreaks, EndStream, Release, CostOverflows, Local
<1>5. CASE DispatchCall(h) \/ MarkCall(h) \/ RefundCall(h)
  BY <1>5 DEF DispatchCall, MarkCall, RefundCall, Asks, At, Running, Working, Attempting
<1>6. ASSUME NEW actual \in Costs, NEW estimated \in BOOLEAN, NEW zeroUsage \in BOOLEAN,
             SettleCall(h, actual, estimated, zeroUsage)
      PROVE  UNCHANGED vars \/ (call[h].pc \in Running /\ Asks(call[h].pc, call[h].id))
  <2>1. call[h].pc \in Running
    BY <1>6 DEF SettleCall, At, Running, Working, Attempting
  <2>2. UNCHANGED vars \/ Settle(call[h].id, actual, zeroUsage)
    BY <1>6 DEF SettleCall
  <2>3. QED
    BY <2>1, <2>2 DEF Asks
<1>7. QED
  BY <1>1, <1>2, <1>3, <1>4, <1>5, <1>6 DEF HandlerStep

LEMMA RuntimeStepIsStoreStep ==
  ASSUME IInv, [InferenceNext]_inferenceVars
  PROVE  [Next]_vars
<1>1. ASSUME NEW h \in Handlers, HandlerStep(h) \/ PeerStep(h) \/ FailureStep(h)
      PROVE  [Next]_vars
  <2>1. CASE call[h].pc \in Running /\ Asks(call[h].pc, call[h].id)
    <3>1. call[h].id \in RequestIds
      BY <2>1, MyRow
    <3>2. QED
      BY <2>1, <3>1 DEF Asks, Next
  <2>2. CASE Reserves
    BY <2>2 DEF Reserves, Next
  <2>3. QED
    BY <1>1, <2>1, <2>2, HandlerAsks
<1>2. CASE Tick \/ UNCHANGED inferenceVars
  BY <1>2 DEF Tick, inferenceVars
<1>3. CASE \/ \E r \in RequestIds : Overdue(r)
           \/ \E k \in ApiKeys : RevokeKey(k) /\ UNCHANGED handlerVars
           \/ \E m \in Maintainers : Sweeping(m) \/ (AbortSweep(m) /\ UNCHANGED handlerVars)
  BY <1>3 DEF Overdue, Sweeping, Next
<1>4. QED
  BY <1>1, <1>2, <1>3 DEF InferenceNext

\* The runtime uses the store only through its operations, a new identifier per
\* reservation: what is proved of Billing holds in every behaviour of the runtime.
THEOREM RuntimeIsAStoreClient == InferenceSpec => Spec
<1>1. InferenceInit => Init
  BY DEF InferenceInit
<1>2. IInv /\ [InferenceNext]_inferenceVars => [Next]_vars
  BY RuntimeStepIsStoreStep
<1>3. QED
  BY <1>1, <1>2, InferenceInvariant, PTL DEF InferenceSpec, Spec

\* Points are conserved, limits kept and the ledger explained while requests run, fail,
\* crash and are swept.
THEOREM MoneyOfRuntime == InferenceSpec => [](MoneyConserved /\ SpendWithinLimit /\ LedgerExplainsBalance)
BY RuntimeIsAStoreClient, PointsAreConserved, LimitIsKept, LedgerIsAChain, PTL

-----------------------------------------------------------------------------
(* Work is not given away *)

WorkKept ==
    \A h \in Handlers :
        call[h].consumed /\ reservation[call[h].id].state = "reserved"
        => reservation'[call[h].id].state # "refunded"

LEMMA RowsAsTheyWere ==
  ASSUME UNCHANGED reservation
  PROVE  WorkKept
BY DEF WorkKept

LEMMA HandlerKeepsWork ==
  ASSUME IInv, NEW h \in Handlers, HandlerStep(h) \/ PeerStep(h) \/ FailureStep(h)
  PROVE  WorkKept
<1>1. TypeOK /\ \A g \in Handlers : call[g].consumed
                   => call[g].id \in RequestIds /\ request[call[g].id].status # "none" /\ call[g].pc # "refund"
  <2>1. \A g \in Handlers : call[g].id \in RequestIds \cup {NoId}
    BY Mine DEF Call
  <2>2. QED
    BY <2>1, Mine DEF IInv, InferenceTypeOK, Fine, RowFine, WorkFine
<1>2. CASE Reserves
  <2>1. PICK r \in RequestIds : /\ request[r].status = "none"
                                /\ \A q \in RequestIds : q # r => SameRow(q)
    BY <1>1, <1>2, ReserveMoves DEF Reserves
  <2>2. QED
    BY <1>1, <2>1 DEF WorkKept, SameRow
<1>3. CASE call[h].pc \in Running /\ Asks(call[h].pc, call[h].id)
  <2> DEFINE r == call[h].id
  <2>1. r \in RequestIds /\ request[r].status # "none" /\ r # NoId
    BY <1>3, MyRow
  <2>2. ASSUME NEW op \in 1..4,
               \/ op = 1 /\ MarkDispatched(r)
               \/ op = 2 /\ \E actual \in Costs, zeroUsage \in BOOLEAN : Settle(r, actual, zeroUsage)
               \/ op = 3 /\ Refund(r)
               \/ op = 4 /\ MarkNeedsReconciliation(r),
               op = 3 => call[h].pc = "refund"
        PROVE  WorkKept
    <3>1. /\ op = 1 => reservation'[r] = reservation[r]
          /\ op = 2 => reservation'[r].state = "settled"
          /\ op = 4 => reservation'[r].state = "needs_reconciliation"
          /\ \A q \in RequestIds : q # r => SameRow(q)
      BY <1>1, <2>1, <2>2, OperationMoves
    <3>2. \A g \in Handlers : g # h => call[g].id # r
      BY <2>1 DEF IInv, OwnRows
    <3>3. reservation'[r].state = "refunded" /\ Open(r) => call[h].pc = "refund"
      BY <2>2, <3>1 DEF Open
    <3> HIDE DEF r
    <3>4. \A g \in Handlers : call[g].id = r => g = h
      BY <3>2
    <3>5. QED
      BY <1>1, <3>1, <3>3, <3>4 DEF WorkKept, SameRow, Open
  <2>3. 1 \in 1..4 /\ 2 \in 1..4 /\ 3 \in 1..4 /\ 4 \in 1..4
        /\ 1 # 3 /\ 2 # 3 /\ 4 # 3
    OBVIOUS
  <2> HIDE DEF r
  <2>4. Asks(call[h].pc, r)
    BY <1>3 DEF r
  <2>5. QED
    BY <2>2, <2>3, <2>4 DEF Asks
<1>4. QED
  BY <1>2, <1>3, HandlerAsks, RowsAsTheyWere DEF vars

LEMMA WorkIsKept ==
  ASSUME IInv, [InferenceNext]_inferenceVars
  PROVE  WorkKept
<1>1. ASSUME NEW m \in Maintainers, Sweeping(m)
      PROVE  WorkKept
  <2>1. CASE ReadStale(m) \/ ReadQuarantined(m)
    BY <2>1, RowsAsTheyWere DEF ReadStale, ReadQuarantined
  <2>2. CASE \E r \in RequestIds, d \in BOOLEAN : ReconcileRow(m, r, d) \/ ResolveRow(m, r, d)
    BY <1>1, <2>2, RowSteps DEF WorkKept, Sweeping, Open
  <2>3. QED
    BY <1>1, <2>1, <2>2 DEF Sweeping, SweepStep
<1>2. ASSUME NEW r \in RequestIds, Overdue(r)
      PROVE  WorkKept
  <2>1. \A q \in RequestIds : reservation'[q].state = reservation[q].state
    BY <1>2 DEF Overdue, PassDeadline, IInv, InferenceTypeOK, TypeOK, Reservation
  <2>2. \A g \in Handlers : call[g].consumed => call[g].id \in RequestIds
    BY Mine DEF Call, Fine, RowFine
  <2>3. QED
    BY <2>1, <2>2 DEF WorkKept
<1>3. CASE \/ \E k \in ApiKeys : RevokeKey(k)
           \/ \E m \in Maintainers : AbortSweep(m)
           \/ Tick \/ UNCHANGED inferenceVars
  BY <1>3, RowsAsTheyWere DEF RevokeKey, AbortSweep, Tick, inferenceVars, vars
<1>4. QED
  BY <1>1, <1>2, <1>3, HandlerKeepsWork DEF InferenceNext

\* No step of a handler, of a crash or of a sweep refunds an open reservation for which a
\* provider did work: not even a sweep that read the row before the work began.
THEOREM WorkIsNeverGivenAway == InferenceSpec => NoFreeWork
<1>1. IInv /\ [InferenceNext]_inferenceVars => [WorkKept]_inferenceVars
  BY WorkIsKept
<1>2. [][WorkKept]_inferenceVars => NoFreeWork
  <2>1. [WorkKept]_inferenceVars =>
          [\A h \in Handlers :
             call[h].consumed /\ reservation[call[h].id].state = "reserved"
             => reservation'[call[h].id].state # "refunded"]_inferenceVars
    BY DEF WorkKept
  <2>2. QED
    BY <2>1, PTL DEF NoFreeWork
<1>3. QED
  BY <1>1, <1>2, InferenceInvariant, PTL DEF InferenceSpec

-----------------------------------------------------------------------------
(* Leases come back *)

Leasing == {"audit", "calling", "streaming", "release"}

LeaseInv ==
    /\ leases \subseteq Leases
    /\ call \in [Handlers -> Call]
    /\ LeasesReturned

\* One handler moves: what its leases must be explained by.
LEMMA LeaseStep ==
  ASSUME LeaseInv, NEW h \in Handlers, NEW next, call' = [call EXCEPT ![h] = next],
         \A l \in leases' :
            \/ l \in leases /\ l[1] # h
            \/ l[1] = h /\ l[3] \in next.left
            \/ l = <<h, next.claim, next.attempts>> /\ next.pc \in Leasing
  PROVE  LeasesReturned'
<1>1. /\ \A g \in Handlers : call'[g] = IF g = h THEN next ELSE call[g]
      /\ \A l \in leases : l[1] \in Handlers
  BY DEF LeaseInv, Leases
<1>2. ASSUME NEW l \in leases'
      PROVE  \/ l[3] \in call'[l[1]].left
             \/ /\ l = <<l[1], call'[l[1]].claim, call'[l[1]].attempts>>
                /\ call'[l[1]].pc \in Leasing
  <2>1. CASE l \in leases /\ l[1] # h
    BY <1>1, <2>1 DEF LeaseInv, LeasesReturned, Lease, Leasing
  <2>2. CASE l[1] = h /\ l[3] \in next.left
    BY <1>1, <2>2
  <2>3. CASE l = <<h, next.claim, next.attempts>> /\ next.pc \in Leasing
    <3>1. l[1] = h
      BY <2>3
    <3>2. QED
      BY <1>1, <2>3, <3>1
  <2>4. QED
    BY <1>2, <2>1, <2>2, <2>3
<1>3. QED
  BY <1>2 DEF LeasesReturned, Lease, Leasing

\* What is known of the leases of one handler.
LEMMA LeasesOf ==
  ASSUME LeaseInv, NEW h \in Handlers, NEW l \in leases
  PROVE  /\ l[1] \in Handlers /\ l[2] \in Credentials
         /\ l[1] = h => \/ l[3] \in call[h].left
                        \/ l = <<h, call[h].claim, call[h].attempts>> /\ call[h].pc \in Leasing
BY DEF LeaseInv, Leases, LeasesReturned, Lease, Leasing

\* No lease changes.  Those of the handler that moves were left behind, or are now, or
\* its attempt goes on.
LEMMA LeaseKept ==
  ASSUME LeaseInv, NEW h \in Handlers, NEW next, call' = [call EXCEPT ![h] = next],
         leases' = leases, call[h].left \subseteq next.left,
         \/ call[h].pc \notin Leasing
         \/ call[h].claim \in Credentials => call[h].attempts \in next.left
         \/ /\ next.claim = call[h].claim /\ next.attempts = call[h].attempts
            /\ call[h].pc \in Leasing => next.pc \in Leasing
  PROVE  LeasesReturned'
<1>1. ASSUME NEW l \in leases, l[1] = h
      PROVE  \/ l[3] \in next.left
             \/ l = <<h, next.claim, next.attempts>> /\ next.pc \in Leasing
  <2>1. CASE l[3] \in call[h].left
    BY <2>1
  <2>2. CASE l = <<h, call[h].claim, call[h].attempts>> /\ call[h].pc \in Leasing
    <3>1. l[2] \in Credentials
      BY <1>1, LeasesOf
    <3>2. l[2] = call[h].claim /\ l[3] = call[h].attempts
      BY <2>2
    <3>3. QED
      BY <2>2, <3>1, <3>2
  <2>3. QED
    BY <1>1, <2>1, <2>2, LeasesOf
<1>2. \A l \in leases' :
        \/ l \in leases /\ l[1] # h
        \/ l[1] = h /\ l[3] \in next.left
        \/ l = <<h, next.claim, next.attempts>> /\ next.pc \in Leasing
  BY <1>1
<1>3. QED
  BY ONLY <1>2, LeaseInv, h \in Handlers, call' = [call EXCEPT ![h] = next], LeaseStep

LEMMA LeaseUnchanged ==
  ASSUME LeaseInv, UNCHANGED <<call, leases>>
  PROVE  LeasesReturned'
BY DEF LeaseInv, LeasesReturned, Lease

\* Steps outside an attempt.
LEMMA LeaseOutside ==
  ASSUME LeaseInv, NEW h \in Handlers,
         \/ \E r \in RequestIds, k \in ApiKeys, i \in IdempotencyKeys \cup {NoKey},
               f \in Fingerprints, amount \in Amounts, row \in ReplayRow :
                 ReserveCall(h, r, k, i, f, amount, row)
         \/ DispatchCall(h) \/ NextAttempt(h) \/ NothingToClaim(h)
         \/ \E actual \in Costs, estimated, zeroUsage \in BOOLEAN : SettleCall(h, actual, estimated, zeroUsage)
         \/ CostOverflows(h) \/ RefundCall(h) \/ MarkCall(h)
         \/ \E stream \in BOOLEAN : Prepare(h, stream)
         \/ ReserveFails(h) \/ ClaimFails(h) \/ MoneyFails(h)
  PROVE  LeasesReturned'
<1> DEFINE Same(next) == call' = [call EXCEPT ![h] = next] /\ next.left = call[h].left
<1>1. call[h] \in Call
  BY DEF LeaseInv
<1>2. \A step : /\ Goto(h, step).left = call[h].left
                /\ [Goto(h, step) EXCEPT !.faulty = TRUE].left = call[h].left
                /\ [Goto(h, step) EXCEPT !.refused = TRUE].left = call[h].left
                /\ [Goto(h, step) EXCEPT !.refused = FALSE].left = call[h].left
  BY <1>1 DEF Goto, Call
<1>3. \A outcome : Answer(h, outcome).left = call[h].left
                   /\ [Answer(h, outcome) EXCEPT !.faulty = TRUE].left = call[h].left
  BY <1>1 DEF Answer, Call
<1>4. ASSUME NEW r \in RequestIds, NEW k \in ApiKeys, NEW i \in IdempotencyKeys \cup {NoKey},
             NEW f \in Fingerprints, NEW amount \in Amounts, NEW row \in ReplayRow,
             ReserveCall(h, r, k, i, f, amount, row)
      PROVE  call[h].pc = "reserve" /\ leases' = leases /\ \E next : Same(next)
  <2>1. [call[h] EXCEPT !.pc = "dispatch", !.id = r].left = call[h].left
    BY <1>1 DEF Call
  <2>2. QED
    BY <1>3, <1>4, <2>1 DEF ReserveCall, Local, At
<1>5. ASSUME NEW next, Same(next), leases' = leases, call[h].pc \notin Leasing
      PROVE  LeasesReturned'
  BY <1>5, LeaseKept
<1>6. CASE DispatchCall(h) \/ RefundCall(h) \/ MarkCall(h)
  <2>1. /\ call[h].pc \notin Leasing /\ leases' = leases
        /\ \E next : Same(next)
    BY <1>2, <1>3, <1>6 DEF DispatchCall, RefundCall, MarkCall, Stored, DbFault, At, Leasing
  <2>2. QED
    BY <1>5, <2>1
<1>7. CASE ReserveFails(h) \/ ClaimFails(h) \/ MoneyFails(h)
  <2>1. /\ call[h].pc \notin Leasing /\ leases' = leases
        /\ \E next : Same(next)
    BY <1>2, <1>3, <1>7 DEF ReserveFails, ClaimFails, MoneyFails, DbFault, At, Leasing
  <2>2. QED
    BY <1>5, <2>1
<1>8. CASE CostOverflows(h)
  <2>1. /\ call[h].pc \notin Leasing /\ leases' = leases
        /\ \E next : Same(next)
    BY <1>2, <1>8 DEF CostOverflows, Local, At, Leasing
  <2>2. QED
    BY <1>5, <2>1
<1>9. ASSUME NEW actual \in Costs, NEW estimated \in BOOLEAN, NEW zeroUsage \in BOOLEAN,
             SettleCall(h, actual, estimated, zeroUsage)
      PROVE  LeasesReturned'
  <2>1. call[h].pc \notin Leasing /\ leases' = leases
    BY <1>9 DEF SettleCall, Stored, DbFault, At, Leasing
  <2>2. \/ \E outcome : call' = [call EXCEPT ![h] = Answer(h, outcome)]
        \/ call' = [call EXCEPT ![h] = [Goto(h, "mark") EXCEPT !.faulty = TRUE]]
        \/ \E b \in BOOLEAN : call' = [call EXCEPT ![h] = [Goto(h, "mark") EXCEPT !.refused = b]]
    BY <1>9 DEF SettleCall, Stored, DbFault
  <2>3. QED
    BY <1>2, <1>3, <1>5, <2>1, <2>2
<1>10. CASE NextAttempt(h) \/ NothingToClaim(h) \/ \E stream \in BOOLEAN : Prepare(h, stream)
  <2>1. /\ [call[h] EXCEPT !.pc = "claim", !.slack = 0].left = call[h].left
        /\ [call[h] EXCEPT !.route = @ + 1, !.tried = {}].left = call[h].left
        /\ [call[h] EXCEPT !.pc = "attempt", !.route = @ + 1, !.tried = {}].left = call[h].left
        /\ \A stream \in BOOLEAN :
             [call[h] EXCEPT !.pc = "reserve", !.stream = stream, !.deadline = now + Ttl].left
               = call[h].left
    BY <1>1 DEF Call
  <2>2. call[h].pc \in {"attempt", "claim", "idle"} /\ leases' = leases /\ \E next : Same(next)
    BY <1>2, <1>10, <2>1, ZenonT(30) DEF NextAttempt, NothingToClaim, Prepare, Local, At
  <2>3. QED
    BY <2>2, LeaseKept DEF Leasing
<1>11. QED
  BY <1>4, <1>5, <1>6, <1>7, <1>8, <1>9, <1>10, LeaseKept DEF Leasing

\* An attempt goes on, as far as its lease is concerned.
Kept(c, next) ==
    next.left = c.left /\ next.claim = c.claim /\ next.attempts = c.attempts

\* Steps inside an attempt, a crash, and the end of an attempt.
LEMMA LeaseInside ==
  ASSUME LeaseInv, NEW h \in Handlers,
         \/ \E c \in Credentials : Claim(h, c) \/ ClaimLost(h, c)
         \/ StartAttempt(h) \/ ProviderTimeout(h) \/ Release(h) \/ AuditFails(h) \/ ReleaseFails(h) \/ Crash(h)
         \/ ProviderRejects(h, "retry") \/ ProviderRejects(h, "clean") \/ ProviderAnswers(h)
         \/ \E consumed \in BOOLEAN : ProviderUnknown(h, consumed)
         \/ StreamUsage(h) \/ StreamDone(h) \/ StreamBreaks(h) \/ ClientCancels(h) \/ LateUsage(h)
  PROVE  LeasesReturned'
<1> DEFINE Keeps(next) ==
             /\ call' = [call EXCEPT ![h] = next]
             /\ Kept(call[h], next)
             /\ call[h].pc \in Leasing => next.pc \in Leasing
<1>1. /\ call[h] \in Call
      /\ \A l \in leases : l[1] = h =>
           \/ l[3] \in call[h].left
           \/ l = <<h, call[h].claim, call[h].attempts>> /\ call[h].pc \in Leasing
  BY LeasesOf DEF LeaseInv
<1>2. ASSUME NEW c \in Credentials, Claim(h, c)
      PROVE  LeasesReturned'
  <2> DEFINE next == [call[h] EXCEPT !.pc = "audit", !.claim = c, !.tried = @ \cup {c}, !.attempts = @ + 1]
  <2>1. /\ next.pc \in Leasing /\ next.claim = c /\ next.left = call[h].left
        /\ next.attempts = call[h].attempts + 1
    BY <1>1 DEF Call, Leasing
  <2>2. /\ call[h].pc \notin Leasing /\ leases' = leases \cup {<<h, c, call[h].attempts + 1>>}
        /\ call' = [call EXCEPT ![h] = next]
    BY <1>2 DEF Claim, Local, At, Leasing
  <2> HIDE DEF next
  <2>3. QED
    BY <1>1, <2>1, <2>2, LeaseStep
<1>3. ASSUME NEW c \in Credentials, ClaimLost(h, c)
       PROVE  LeasesReturned'
  <2> DEFINE n == call[h].attempts + 1
             next == [Goto(h, "refund") EXCEPT !.faulty = TRUE, !.left = @ \cup {call[h].attempts + 1}]
  <2>1. next.left = call[h].left \cup {n}
    BY <1>1 DEF Call, Goto
  <2>2. /\ call[h].pc \notin Leasing /\ leases' = leases \cup {<<h, c, n>>}
        /\ call' = [call EXCEPT ![h] = next]
    BY <1>3 DEF ClaimLost, At, Leasing
  <2> HIDE DEF next, n
  <2>3. <<h, c, n>>[1] = h /\ <<h, c, n>>[3] = n
    OBVIOUS
  <2>4. \A l \in leases' :
          \/ l \in leases /\ l[1] # h
          \/ l[1] = h /\ l[3] \in next.left
    BY <1>1, <2>1, <2>2, <2>3
  <2>5. QED
    BY ONLY <2>2, <2>4, LeaseInv, h \in Handlers, LeaseStep
<1>4. CASE Release(h)
  <2>1. AfterRelease(h).left = call[h].left
    BY <1>1 DEF AfterRelease, Call
  <2>2. /\ leases' = leases \ {<<h, call[h].claim, call[h].attempts>>}
        /\ call' = [call EXCEPT ![h] = AfterRelease(h)]
    BY <1>4 DEF Release, Local, Lease
  <2> DEFINE next == AfterRelease(h)
  <2>3. \A l \in leases' :
          \/ l \in leases /\ l[1] # h
          \/ l[1] = h /\ l[3] \in next.left
    BY <1>1, <2>1, <2>2
  <2>4. call' = [call EXCEPT ![h] = next]
    BY <2>2
  <2> HIDE DEF next
  <2>5. QED
    BY ONLY <2>3, <2>4, LeaseInv, h \in Handlers, LeaseStep
<1>5. CASE ReleaseFails(h)
  <2> DEFINE next == [[AfterRelease(h) EXCEPT !.left = @ \cup {call[h].attempts}] EXCEPT !.faulty = TRUE]
  <2>1. next.left = call[h].left \cup {call[h].attempts}
    BY <1>1 DEF AfterRelease, Call
  <2>2. leases' = leases /\ call' = [call EXCEPT ![h] = next]
    BY <1>5 DEF ReleaseFails, DbFault
  <2> HIDE DEF next
  <2>3. QED
    BY <2>1, <2>2, LeaseKept
<1>6. CASE Crash(h)
  <2> DEFINE next == [Answer(h, "error") EXCEPT !.faulty = TRUE,
                        !.left = IF call[h].claim = NoCredential THEN @ ELSE @ \cup {call[h].attempts}]
  <2>1. next.left = IF call[h].claim = NoCredential THEN call[h].left
                    ELSE call[h].left \cup {call[h].attempts}
    BY <1>1 DEF Answer, Call
  <2>2. leases' = leases /\ call' = [call EXCEPT ![h] = next]
    BY <1>6 DEF Crash
  <2> HIDE DEF next
  <2>3. call[h].claim \in Credentials => call[h].attempts \in next.left
    BY <2>1, InferenceAssumption
  <2>4. QED
    BY <2>1, <2>2, <2>3, LeaseKept
<1>7. ASSUME leases' = leases, NEW next, Keeps(next)
      PROVE  LeasesReturned'
  BY <1>7, LeaseKept DEF Kept
<1>8. CASE StartAttempt(h) \/ AuditFails(h)
  <2> DEFINE sent == [call[h] EXCEPT !.pc = "calling", !.ends = now + TimeoutOf[call[h].route]]
             failed == [[Goto(h, "release") EXCEPT !.error = "clean"] EXCEPT !.faulty = TRUE]
  <2>1. /\ Kept(call[h], sent) /\ sent.pc \in Leasing
        /\ Kept(call[h], failed) /\ failed.pc \in Leasing
    BY <1>1 DEF Call, Kept, Goto, Leasing
  <2>2. leases' = leases /\ (call' = [call EXCEPT ![h] = sent] \/ call' = [call EXCEPT ![h] = failed])
    BY <1>8 DEF StartAttempt, AuditFails, Local, DbFault
  <2> HIDE DEF sent, failed
  <2>3. QED
    BY <1>7, <2>1, <2>2
<1>9. ASSUME NEW error \in {"retry", "clean"}, ProviderRejects(h, error)
      PROVE  LeasesReturned'
  <2> DEFINE next == [Goto(h, "release") EXCEPT !.error = error]
  <2>1. Kept(call[h], next) /\ next.pc \in Leasing
    BY <1>1 DEF Call, Kept, Goto, Leasing
  <2>2. leases' = leases /\ call' = [call EXCEPT ![h] = next]
    BY <1>9 DEF ProviderRejects, Local
  <2> HIDE DEF next
  <2>3. QED
    BY <1>7, <2>1, <2>2
<1>10. ASSUME NEW consumed \in BOOLEAN, ProviderUnknown(h, consumed)
      PROVE  LeasesReturned'
  <2> DEFINE next == [Goto(h, "release") EXCEPT !.error = "unknown", !.consumed = consumed]
  <2>1. Kept(call[h], next) /\ next.pc \in Leasing
    BY <1>1 DEF Call, Kept, Goto, Leasing
  <2>2. leases' = leases /\ call' = [call EXCEPT ![h] = next]
    BY <1>10 DEF ProviderUnknown, Local
  <2> HIDE DEF next
  <2>3. QED
    BY <1>7, <2>1, <2>2
<1>11. CASE ProviderAnswers(h)
  <2> DEFINE next == [call[h] EXCEPT !.pc = IF call[h].stream THEN "streaming" ELSE "release",
                                     !.reading = call[h].stream, !.error = "none", !.consumed = TRUE]
  <2>1. Kept(call[h], next) /\ next.pc \in Leasing
    BY <1>1 DEF Call, Kept, Leasing
  <2>2. leases' = leases /\ call' = [call EXCEPT ![h] = next]
    BY <1>11 DEF ProviderAnswers, Local
  <2> HIDE DEF next
  <2>3. QED
    BY <1>7, <2>1, <2>2
<1>12. CASE StreamUsage(h) \/ LateUsage(h)
  <2> DEFINE used == [call[h] EXCEPT !.usage = TRUE]
             late == [call[h] EXCEPT !.usage = TRUE, !.reading = FALSE]
  <2>1. /\ Kept(call[h], used) /\ used.pc = call[h].pc
        /\ Kept(call[h], late) /\ late.pc = call[h].pc
    BY <1>1 DEF Call, Kept
  <2>2. leases' = leases /\ (call' = [call EXCEPT ![h] = used] \/ call' = [call EXCEPT ![h] = late])
    BY <1>12 DEF StreamUsage, LateUsage, Local
  <2> HIDE DEF used, late
  <2>3. QED
    BY <1>7, <2>1, <2>2
<1>13. ASSUME NEW terminal, NEW reading, EndStream(h, terminal, reading)
       PROVE  LeasesReturned'
  <2> DEFINE next == [Goto(h, "release") EXCEPT !.terminal = terminal, !.reading = reading,
                         !.chargeable = @ \/ terminal = "finalize" \/ call[h].usage]
  <2>1. Kept(call[h], next) /\ next.pc \in Leasing
    BY <1>1 DEF Call, Kept, Goto, Leasing
  <2>2. leases' = leases /\ call' = [call EXCEPT ![h] = next]
    BY <1>13 DEF EndStream, Local
  <2> HIDE DEF next
  <2>3. QED
    BY <1>7, <2>1, <2>2
<1>14. QED
  BY <1>2, <1>4, <1>5, <1>8, <1>9, <1>10, <1>11, <1>12, <1>13, <1>3, <1>6
     DEF ProviderTimeout, StreamDone, StreamBreaks, ClientCancels

LEMMA LeaseTick ==
  ASSUME LeaseInv, Tick
  PROVE  LeasesReturned'
<1>1. \A h \in Handlers : call[h] \in Call
  BY DEF LeaseInv
<1>2. \A h \in Handlers : Kept(call[h], call'[h]) /\ call'[h].pc = call[h].pc
  BY <1>1 DEF Tick, Call, Kept
<1>3. leases' = leases /\ \A l \in leases : l[1] \in Handlers
  BY DEF Tick, LeaseInv, Leases
<1>4. QED
  BY <1>2, <1>3 DEF LeasesReturned, LeaseInv, Lease, Kept

\* Every lease belongs to an attempt under way, or to one whose claim lost its answer, whose
\* release failed, or in which the process died.  An audit that fails, a cancel, a timeout, a
\* fallback or a failed settlement leaves none behind, and a lease that is left does not
\* excuse another of the same request.
THEOREM LeasesComeBack == InferenceSpec => []LeasesReturned
<1>1. InferenceInit => LeasesReturned
  BY DEF InferenceInit, LeasesReturned
<1>2. InferenceTypeOK /\ LeasesReturned /\ [InferenceNext]_inferenceVars => LeasesReturned'
  <2> SUFFICES ASSUME LeaseInv, [InferenceNext]_inferenceVars PROVE LeasesReturned'
    BY DEF LeaseInv, InferenceTypeOK
  <2>1. ASSUME NEW h \in Handlers, HandlerStep(h) \/ PeerStep(h) \/ FailureStep(h)
        PROVE  LeasesReturned'
    BY <2>1, LeaseOutside, LeaseInside DEF HandlerStep, PeerStep, FailureStep
  <2>2. CASE Tick
    BY <2>2, LeaseTick
  <2>3. CASE \/ \E r \in RequestIds : Overdue(r)
             \/ \E k \in ApiKeys : RevokeKey(k) /\ UNCHANGED handlerVars
             \/ \E m \in Maintainers : Sweeping(m) \/ (AbortSweep(m) /\ UNCHANGED handlerVars)
             \/ UNCHANGED inferenceVars
    BY <2>3, LeaseUnchanged DEF Overdue, Sweeping, handlerVars, inferenceVars
  <2>4. QED
    BY <2>1, <2>2, <2>3 DEF InferenceNext
<1>3. QED
  BY <1>1, <1>2, InferenceTypeCorrect, PTL DEF InferenceSpec
=============================================================================
