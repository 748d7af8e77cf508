--------------------------- MODULE ReplaysProofs ---------------------------
(* Theorems about Replays, for every value of its constants.                   *)
EXTENDS Replays, BillingProofs

-----------------------------------------------------------------------------
(***************************************************************************)
(* The inductive invariant.  A stored response, and a replayed answer, has *)
(* an attempt that gave it and is over (Answered); an attempt that may     *)
(* still execute holds its key (BusyFine); and a key that was ever used is *)
(* bound to a request with the same body (KeyFine).                        *)
(***************************************************************************)

Busy(c) == c.pc \in {"dispatch", "work"}

\* The money of the attempt's request is decided, with a charge unless the client cut it.
Over(c) ==
    /\ c.id # NoId
    /\ request[c.id].status \notin {"none", "reserved", "dispatched"}
    /\ request[c.id].status = "succeeded" \/ c.cut

RowFine(c) ==
    /\ c.pc \in {"idle", "reserve"} => c.id = NoId
    /\ c.pc \in {"dispatch", "work", "save"} => c.id # NoId
    /\ c.id # NoId => /\ request[c.id].status # "none"
                      /\ request[c.id].apiKey = c.apiKey
                      /\ request[c.id].fingerprint = c.fingerprint

BusyFine(c) ==
    Busy(c) => /\ request[c.id].status = IF c.pc = "dispatch" THEN "reserved" ELSE "dispatched"
               /\ ~reservation[c.id].overdue
               /\ request[c.id].idempotencyKey = c.key

KeyFine(c) ==
    c.id # NoId /\ c.key # NoKey =>
        \E q \in Bound(c.apiKey, c.key) : request[q].fingerprint = c.fingerprint

Fine(c) == RowFine(c) /\ BusyFine(c) /\ KeyFine(c) /\ (c.pc = "save" => Over(c))

AttemptsFine == \A a \in Attempts : Fine(attempt[a])

OwnRows == \A a, b \in Attempts : a # b /\ attempt[a].id # NoId => attempt[a].id # attempt[b].id

SweepFine ==
    \A m \in Maintainers : \A row \in sweep[m].rows :
        /\ request[row[1]].status # "none"
        /\ sweep[m].phase = "stale" /\ reservation[row[1]].state = "reserved"
           => reservation[row[1]].overdue

\* Request q of the question (k, i, f) is over.
Answered(q, k, i, f) ==
    \E b \in Attempts : /\ attempt[b].id = q /\ Over(attempt[b])
                        /\ attempt[b].apiKey = k /\ attempt[b].key = i /\ attempt[b].fingerprint = f

StoredFine ==
    \A k \in ApiKeys, i \in IdempotencyKeys :
        stored[<<k, i>>].body # "none" \/ stored[<<k, i>>].live =>
            Answered(stored[<<k, i>>].request, k, i, stored[<<k, i>>].fingerprint)

ReplaysFine ==
    \A a \in Attempts :
        attempt[a].replayOf # NoId =>
            Answered(attempt[a].replayOf, attempt[a].apiKey, attempt[a].key, attempt[a].fingerprint)

StoreInv == RowsCoherent /\ BoundOnce /\ KeylessUnlessReserved

RInv == /\ ReplayTypeOK /\ StoreInv
        /\ AttemptsFine /\ OwnRows /\ SweepFine /\ StoredFine /\ ReplaysFine

-----------------------------------------------------------------------------
(* Types, and the attempts as clients of the store *)

LEMMA NoResponseType == NoResponse \in StoredResponse
BY BillingAssumption DEF NoResponse, StoredResponse, ReplayRow

LEMMA RowKey == ASSUME NEW k \in ApiKeys, NEW i \in IdempotencyKeys
                PROVE  <<k, i>> \in ApiKeys \X IdempotencyKeys
OBVIOUS

LEMMA AttemptType ==
  ASSUME ReplayTypeOK, NEW a \in Attempts
  PROVE  /\ attempt[a].apiKey \in ApiKeys /\ attempt[a].key \in IdempotencyKeys \cup {NoKey}
         /\ attempt[a].fingerprint \in Fingerprints /\ attempt[a].id \in RequestIds \cup {NoId}
         /\ attempt[a].cut \in BOOLEAN /\ attempt[a].replayOf \in RequestIds \cup {NoId}
         /\ attempt[a].pc \in {"idle", "reserve", "dispatch", "work", "save", "done"}
BY DEF ReplayTypeOK, Attempt

LEMMA LiveRow ==
  ASSUME NEW k \in ApiKeys, NEW i \in IdempotencyKeys \cup {NoKey}, Live(k, i)
  PROVE  i \in IdempotencyKeys /\ stored[<<k, i>>].body # "none"
BY DEF Live, Replayable

LEMMA JoinedType ==
  ASSUME ReplayTypeOK, NEW k \in ApiKeys, NEW i \in IdempotencyKeys \cup {NoKey}
  PROVE  Joined(k, i) \in ReplayRow /\ (Live(k, i) => Joined(k, i) # "none")
<1>1. CASE Live(k, i)
  <2>1. stored[<<k, i>>] \in StoredResponse
    BY <1>1, LiveRow DEF ReplayTypeOK
  <2>2. QED
    BY <1>1, <2>1, LiveRow DEF Joined, StoredResponse
<1>2. CASE ~Live(k, i)
  BY <1>2 DEF Joined, ReplayRow
<1>3. QED
  BY <1>1, <1>2

\* What the store does in a step of attempt a.
Asks(a) ==
    LET c == attempt[a]
    IN  \/ /\ c.pc = "reserve"
           /\ \E r \in RequestIds, amount \in Amounts :
                /\ Fresh(r) /\ Reserve(r, c.apiKey, c.key, c.fingerprint, amount, Joined(c.apiKey, c.key))
                /\ attempt' = [attempt EXCEPT ![a] = [@ EXCEPT !.pc = "dispatch", !.id = r]]
        \/ /\ c.pc = "dispatch" /\ MarkDispatched(c.id)
           /\ attempt' = [attempt EXCEPT ![a].pc = "work"]
        \/ /\ c.pc = "work"
           /\ \E actual \in Costs, zeroUsage \in BOOLEAN : Settle(c.id, actual, zeroUsage)
           /\ \E pc \in {"save", "done"} : attempt' = [attempt EXCEPT ![a].pc = pc]
        \/ /\ c.pc = "work" /\ Refund(c.id)
           /\ attempt' = [attempt EXCEPT ![a].pc = "done"]
        \/ /\ c.pc = "work" /\ MarkNeedsReconciliation(c.id)
           /\ \E cut \in BOOLEAN :
                attempt' = [attempt EXCEPT ![a] = [@ EXCEPT !.pc = IF cut THEN "save" ELSE "done",
                                                           !.cut = cut]]

\* A step of attempt a that leaves the store alone.
Thinks(a) ==
    /\ UNCHANGED vars
    /\ \/ \E k \in ApiKeys, i \in IdempotencyKeys \cup {NoKey}, f \in Fingerprints : Read(a, k, i, f)
       \/ \E body \in ReplayRow \ {"none"} : Save(a, body)
       \/ \E amount \in Amounts : Refused(a, amount)
       \/ Stop(a)

LEMMA AttemptAsksOrThinks ==
  ASSUME NEW a \in Attempts, AttemptStep(a)
  PROVE  (Asks(a) /\ UNCHANGED <<stored, closed>>) \/ Thinks(a)
<1>1. ASSUME NEW r \in RequestIds, NEW amount \in Amounts, ReserveCall(a, r, amount)
      PROVE  Asks(a) /\ UNCHANGED <<stored, closed>>
  BY <1>1 DEF ReserveCall, Asks, At
<1>2. CASE DispatchCall(a)
  BY <1>2 DEF DispatchCall, Asks, At, Goto
<1>3. ASSUME NEW actual \in Costs, NEW zeroUsage \in BOOLEAN, NEW pc \in {"save", "done"},
             SettleCall(a, actual, zeroUsage, pc)
      PROVE  Asks(a) /\ UNCHANGED <<stored, closed>>
  BY <1>3 DEF SettleCall, Asks, At, Goto
<1>4. CASE RefundCall(a)
  BY <1>4 DEF RefundCall, Asks, At, Goto
<1>5. ASSUME NEW cut \in BOOLEAN, MarkCall(a, cut)
      PROVE  Asks(a) /\ UNCHANGED <<stored, closed>>
  BY <1>5 DEF MarkCall, Asks, At
<1>6. ASSUME \/ \E k \in ApiKeys, i \in IdempotencyKeys \cup {NoKey}, f \in Fingerprints : Read(a, k, i, f)
             \/ \E body \in ReplayRow \ {"none"} : Save(a, body)
             \/ \E amount \in Amounts : Refused(a, amount)
             \/ Stop(a)
      PROVE  Thinks(a)
  BY <1>6 DEF Thinks, Read, Save, Refused, Stop
<1>7. QED
  BY <1>1, <1>2, <1>3, <1>4, <1>5, <1>6 DEF AttemptStep

LEMMA AskIsStoreStep ==
  ASSUME ReplayTypeOK, AttemptsFine, NEW a \in Attempts, Asks(a)
  PROVE  Next
<1>1. attempt[a].pc \in {"dispatch", "work"} => attempt[a].id \in RequestIds
  BY AttemptType DEF AttemptsFine, Fine, RowFine
<1>2. Joined(attempt[a].apiKey, attempt[a].key) \in ReplayRow
  BY AttemptType, JoinedType
<1>3. ASSUME attempt[a].pc = "reserve", NEW r \in RequestIds, NEW amount \in Amounts, Fresh(r),
             Reserve(r, attempt[a].apiKey, attempt[a].key, attempt[a].fingerprint, amount,
                     Joined(attempt[a].apiKey, attempt[a].key))
      PROVE  Next
  BY <1>2, <1>3, AttemptType DEF Next
<1>4. ASSUME attempt[a].pc \in {"dispatch", "work"},
             \/ MarkDispatched(attempt[a].id) \/ Refund(attempt[a].id)
             \/ MarkNeedsReconciliation(attempt[a].id)
             \/ \E actual \in Costs, zeroUsage \in BOOLEAN : Settle(attempt[a].id, actual, zeroUsage)
      PROVE  Next
  BY <1>1, <1>4 DEF Next
<1>5. QED
  BY <1>3, <1>4 DEF Asks

LEMMA ReplayStepIsStoreStep ==
  ASSUME ReplayTypeOK, AttemptsFine, [ReplayNext]_<<vars, replayVars>>
  PROVE  [Next]_vars
<1>1. ASSUME NEW a \in Attempts, AttemptStep(a)
      PROVE  [Next]_vars
  BY <1>1, AttemptAsksOrThinks, AskIsStoreStep DEF Thinks
<1>2. ASSUME (\E k \in ApiKeys, i \in IdempotencyKeys : Expire(k, i)) \/ CleanupReplays
      PROVE  UNCHANGED vars
  BY <1>2 DEF Expire, CleanupReplays
<1>3. CASE StoreStep
  BY <1>3 DEF StoreStep, Next
<1>4. QED
  BY <1>1, <1>2, <1>3 DEF ReplayNext

LEMMA ReplayTypeStep ==
  ASSUME ReplayTypeOK, AttemptsFine, StoredFine, [ReplayNext]_<<vars, replayVars>>
  PROVE  ReplayTypeOK'
<1>1. TypeOK'
  BY ReplayStepIsStoreStep, TypeStep DEF ReplayTypeOK
<1>2. /\ attempt \in [Attempts -> Attempt] /\ closed \subseteq RequestIds
      /\ stored \in [ApiKeys \X IdempotencyKeys -> StoredResponse]
  BY DEF ReplayTypeOK
<1>3. ASSUME NEW a \in Attempts, NEW next \in Attempt, attempt' = [attempt EXCEPT ![a] = next],
             UNCHANGED <<stored, closed>>
      PROVE  ReplayTypeOK'
  BY <1>1, <1>2, <1>3 DEF ReplayTypeOK
<1>4. ASSUME NEW a \in Attempts, Asks(a), UNCHANGED <<stored, closed>>
      PROVE  ReplayTypeOK'
  <2>1. \A pc \in {"dispatch", "work", "save", "done"} : [attempt[a] EXCEPT !.pc = pc] \in Attempt
    BY <1>2 DEF Attempt
  <2>2. \A r \in RequestIds : [attempt[a] EXCEPT !.pc = "dispatch", !.id = r] \in Attempt
    BY <1>2 DEF Attempt
  <2>3. \A cut \in BOOLEAN :
          [attempt[a] EXCEPT !.pc = IF cut THEN "save" ELSE "done", !.cut = cut] \in Attempt
    BY <1>2 DEF Attempt
  <2>4. \E next \in Attempt : attempt' = [attempt EXCEPT ![a] = next]
    BY <1>4, <2>1, <2>2, <2>3 DEF Asks
  <2>5. QED
    BY <1>3, <1>4, <2>4
<1>5. ASSUME NEW a \in Attempts, Thinks(a)
      PROVE  ReplayTypeOK'
  <2>1. ASSUME NEW k \in ApiKeys, NEW i \in IdempotencyKeys \cup {NoKey}, NEW f \in Fingerprints,
               Read(a, k, i, f)
        PROVE  ReplayTypeOK'
    <3>1. PICK pc \in {"reserve", "done"}, found \in RequestIds \cup {NoId} :
            attempt' = [attempt EXCEPT ![a] = [pc |-> pc, apiKey |-> k, key |-> i, fingerprint |-> f,
                                               id |-> NoId, cut |-> FALSE, replayOf |-> found]]
      <4>1. ReadOutcome(k, i, f) = "hit" => stored[<<k, i>>] \in StoredResponse
        BY <1>2, LiveRow DEF ReadOutcome
      <4>2. QED
        BY <2>1, <4>1 DEF Read, StoredResponse
    <3>2. [pc |-> pc, apiKey |-> k, key |-> i, fingerprint |-> f,
           id |-> NoId, cut |-> FALSE, replayOf |-> found] \in Attempt
      BY DEF Attempt
    <3>3. QED
      BY <1>3, <2>1, <3>1, <3>2 DEF Read
  <2>2. ASSUME NEW body \in ReplayRow \ {"none"}, Save(a, body)
        PROVE  ReplayTypeOK'
    <3>1. attempt' \in [Attempts -> Attempt] /\ closed' = closed
      BY <1>2, <2>2 DEF Save, Goto, Attempt
    <3>2. [request |-> attempt[a].id, fingerprint |-> attempt[a].fingerprint, body |-> body, live |-> TRUE]
          \in StoredResponse
      BY AttemptType DEF StoredResponse
    <3>3. stored' \in [ApiKeys \X IdempotencyKeys -> StoredResponse]
      BY <1>2, <2>2, <3>2 DEF Save
    <3>4. QED
      BY <1>1, <1>2, <3>1, <3>3 DEF ReplayTypeOK
  <2>3. ASSUME Stop(a) \/ \E amount \in Amounts : Refused(a, amount)
        PROVE  ReplayTypeOK'
    <3>1. [attempt[a] EXCEPT !.pc = "done"] \in Attempt
      BY <1>2 DEF Attempt
    <3>2. attempt' = [attempt EXCEPT ![a] = [attempt[a] EXCEPT !.pc = "done"]]
      BY <1>2, <2>3 DEF Stop, Refused, Goto
    <3>3. QED
      BY <1>3, <2>3, <3>1, <3>2 DEF Stop, Refused
  <2>4. QED
    BY <1>5, <2>1, <2>2, <2>3 DEF Thinks
<1>6. ASSUME NEW k \in ApiKeys, NEW i \in IdempotencyKeys, Expire(k, i)
      PROVE  ReplayTypeOK'
  <2>1. stored[<<k, i>>] \in StoredResponse
    BY <1>2, RowKey
  <2>2. [stored[<<k, i>>] EXCEPT !.live = FALSE] \in StoredResponse
    BY <2>1 DEF StoredResponse
  <2>3. stored' \in [ApiKeys \X IdempotencyKeys -> StoredResponse]
    BY <1>2, <1>6, <2>2 DEF Expire
  <2>4. closed' \subseteq RequestIds
    <3>1. Answered(stored[<<k, i>>].request, k, i, stored[<<k, i>>].fingerprint)
      BY <1>6 DEF Expire, StoredFine
    <3>2. stored[<<k, i>>].request # NoId
      BY <3>1 DEF Answered, Over
    <3>3. stored[<<k, i>>].request \in RequestIds
      BY <2>1, <3>2 DEF StoredResponse
    <3>4. QED
      BY <1>2, <1>6, <3>3 DEF Expire
  <2>5. QED
    BY <1>1, <1>2, <1>6, <2>3, <2>4 DEF Expire, ReplayTypeOK
<1>7. CASE CleanupReplays
  BY <1>1, <1>2, <1>7, NoResponseType DEF CleanupReplays, ReplayTypeOK
<1>8. CASE StoreStep \/ UNCHANGED <<vars, replayVars>>
  BY <1>1, <1>2, <1>8 DEF StoreStep, replayVars, ReplayTypeOK
<1>9. QED
  BY <1>4, <1>5, <1>6, <1>7, <1>8, AttemptAsksOrThinks DEF ReplayNext

-----------------------------------------------------------------------------
(* What a step of the store does to the rows that attempts and sweeps know *)

Untouched(q) == request'[q] = request[q] /\ reservation'[q] = reservation[q]

\* What every step leaves true of a request: who made it, and that it is over.
Moves(q) ==
    /\ request'[q].status # "none"
    /\ request'[q].apiKey = request[q].apiKey /\ request'[q].fingerprint = request[q].fingerprint
    /\ request[q].status \notin {"reserved", "dispatched"}
       => request'[q].status \notin {"reserved", "dispatched"}
    /\ request[q].status = "succeeded" => request'[q].status = "succeeded"

LEMMA StoreInvStep ==
  ASSUME TypeOK, StoreInv, [Next]_vars
  PROVE  StoreInv'
BY StepEffect, BoundOnceStep, KeylessStep DEF StoreInv

LEMMA Coherent ==
  ASSUME RowsCoherent, NEW q \in RequestIds
  PROVE  <<request[q].status, reservation[q].state>> \in
           {<<"none", "none">>, <<"reserved", "reserved">>, <<"dispatched", "reserved">>,
            <<"succeeded", "settled">>, <<"refunded", "refunded">>,
            <<"needs_reconciliation", "needs_reconciliation">>}
BY DEF RowsCoherent

LEMMA RequestsMove ==
  ASSUME TypeOK, StoreInv, [Next]_vars, NEW q \in RequestIds, request[q].status # "none"
  PROVE  Moves(q)
<1>1. RowsCoherent /\ RowsCoherent' /\ Effect
  BY StepEffect DEF StoreInv
<1>2. /\ request'[q].status # "none"
      /\ request'[q].apiKey = request[q].apiKey /\ request'[q].fingerprint = request[q].fingerprint
  <2>1. CASE SameBindings
    BY <2>1 DEF SameBindings, SameBinding
  <2>2. ASSUME NEW r \in RequestIds, NEW k \in ApiKeys, NEW i \in IdempotencyKeys \cup {NoKey},
               NEW f \in Fingerprints, Binds(r, k, i, f)
        PROVE  /\ request'[q].status # "none"
               /\ request'[q].apiKey = request[q].apiKey /\ request'[q].fingerprint = request[q].fingerprint
    BY <2>2 DEF Binds
  <2>3. QED
    BY <1>1, <2>1, <2>2, StepBindings
<1>3. reservation[q].state \in {"settled", "refunded", "needs_reconciliation"}
      => reservation'[q].state \in {"settled", "refunded", "needs_reconciliation"}
  <2>1. reservation \in [RequestIds -> Reservation]
    BY DEF TypeOK
  <2>2. ASSUME NEW r \in RequestIds, NEW k \in ApiKeys, NEW c \in Nat, Take(r, k, c)
        PROVE  reservation[q].state \in {"settled", "refunded", "needs_reconciliation"}
               => reservation'[q].state \in {"settled", "refunded", "needs_reconciliation"}
    BY <2>1, <2>2 DEF Take
  <2>3. ASSUME NEW r \in RequestIds, NEW c \in Nat, EndWith(r, c)
        PROVE  reservation[q].state \in {"settled", "refunded", "needs_reconciliation"}
               => reservation'[q].state \in {"settled", "refunded", "needs_reconciliation"}
    <3>1. PICK s \in {"settled", "refunded"} :
            reservation' = [reservation EXCEPT
                              ![r] = [state |-> s, reserved |-> reservation[r].reserved, charged |-> c,
                                      refunded |-> reservation[r].reserved - c, overdue |-> FALSE]]
      BY <2>3 DEF EndWith
    <3>2. QED
      BY <2>1, <3>1
  <2>4. CASE Quiet
    BY <2>4 DEF Quiet
  <2>5. QED
    BY <1>1, <2>2, <2>3, <2>4 DEF Effect
<1>4. reservation[q].state = "settled" => reservation'[q].state = "settled"
  <2>1. CASE FinalRowsKept
    BY <2>1 DEF FinalRowsKept
  <2>2. CASE UNCHANGED vars
    BY <2>2 DEF vars
  <2>3. QED
    BY <1>1, <2>1, <2>2, FinalStep
<1>5. QED
  <2>1. /\ <<request[q].status, reservation[q].state>> \in
             {<<"none", "none">>, <<"reserved", "reserved">>, <<"dispatched", "reserved">>,
              <<"succeeded", "settled">>, <<"refunded", "refunded">>,
              <<"needs_reconciliation", "needs_reconciliation">>}
        /\ <<request'[q].status, reservation'[q].state>> \in
             {<<"none", "none">>, <<"reserved", "reserved">>, <<"dispatched", "reserved">>,
              <<"succeeded", "settled">>, <<"refunded", "refunded">>,
              <<"needs_reconciliation", "needs_reconciliation">>}
    BY <1>1 DEF RowsCoherent
  <2>2. QED
    BY <1>2, <1>3, <1>4, <2>1 DEF Moves

\* An operation changes one row, which stays reserved only if it is dispatched.
LEMMA OperationRows ==
  ASSUME TypeOK, NEW r \in RequestIds,
         \/ MarkDispatched(r) \/ RefundRows(r) \/ QuarantineRows(r)
         \/ \E actual \in Costs, zeroUsage \in BOOLEAN : Settle(r, actual, zeroUsage)
  PROVE  /\ \A q \in RequestIds : q # r => Untouched(q)
         /\ MarkDispatched(r) => request'[r].status = "dispatched" /\ reservation' = reservation
         /\ RefundRows(r) => reservation'[r].state = "refunded"
         /\ QuarantineRows(r) => /\ request'[r].status = "needs_reconciliation"
                                /\ reservation'[r].state = "needs_reconciliation"
         /\ (\E actual \in Costs, zeroUsage \in BOOLEAN : Settle(r, actual, zeroUsage))
            => request'[r].status = "succeeded" /\ reservation'[r].state = "settled"
<1>1. request \in [RequestIds -> Request] /\ reservation \in [RequestIds -> Reservation]
  BY DEF TypeOK
<1>2. ASSUME MarkDispatched(r)
      PROVE  /\ \A q \in RequestIds : q # r => Untouched(q)
             /\ request'[r].status = "dispatched" /\ reservation' = reservation
  <2>1. /\ request' = [request EXCEPT ![r] = [request[r] EXCEPT !.status = "dispatched", !.dispatched = TRUE]]
        /\ reservation' = reservation
    BY <1>2 DEF MarkDispatched
  <2>2. request'[r].status = "dispatched"
    BY <1>1, <2>1 DEF Request
  <2>3. QED
    BY <1>1, <1>2, <2>1, <2>2 DEF Untouched
<1>3. ASSUME RefundRows(r)
      PROVE  (\A q \in RequestIds : q # r => Untouched(q)) /\ reservation'[r].state = "refunded"
  <2>1. PICK rq, held :
          /\ request' = [request EXCEPT ![r] = rq]
          /\ reservation' = [reservation EXCEPT
                               ![r] = [state |-> "refunded", reserved |-> held, charged |-> 0,
                                       refunded |-> held, overdue |-> FALSE]]
    BY <1>3 DEF RefundRows
  <2>2. QED
    BY <1>1, <1>3, <2>1 DEF Untouched
<1>4. ASSUME QuarantineRows(r)
      PROVE  /\ \A q \in RequestIds : q # r => Untouched(q)
             /\ request'[r].status = "needs_reconciliation"
             /\ reservation'[r].state = "needs_reconciliation"
  <2>1. /\ request' = [request EXCEPT ![r] = [request[r] EXCEPT !.status = "needs_reconciliation"]]
        /\ reservation' = [reservation EXCEPT
                             ![r] = [reservation[r] EXCEPT !.state = "needs_reconciliation", !.overdue = FALSE]]
    BY <1>4 DEF QuarantineRows
  <2>2. request'[r].status = "needs_reconciliation" /\ reservation'[r].state = "needs_reconciliation"
    BY <1>1, <2>1 DEF Request, Reservation
  <2>3. QED
    BY <1>1, <1>4, <2>1, <2>2 DEF Untouched
<1>5. ASSUME NEW actual \in Costs, NEW zeroUsage \in BOOLEAN, Settle(r, actual, zeroUsage)
      PROVE  /\ \A q \in RequestIds : q # r => Untouched(q)
             /\ request'[r].status = "succeeded" /\ reservation'[r].state = "settled"
  <2>1. PICK charged, refunded :
          /\ request' = [request EXCEPT ![r] = [request[r] EXCEPT
                           !.status = "succeeded", !.charged = charged, !.refunded = refunded]]
          /\ reservation' = [reservation EXCEPT
                               ![r] = [state |-> "settled", reserved |-> reservation[r].reserved,
                                       charged |-> charged, refunded |-> refunded, overdue |-> FALSE]]
    BY <1>5 DEF Settle
  <2>2. request'[r].status = "succeeded" /\ reservation'[r].state = "settled"
    BY <1>1, <2>1 DEF Request
  <2>3. QED
    BY <1>1, <2>1, <2>2 DEF Untouched
<1>6. QED
  BY <1>2, <1>3, <1>4, <1>5

LEMMA ReserveRows ==
  ASSUME TypeOK, NEW r \in RequestIds, NEW k, NEW i, NEW f, NEW amount, NEW row,
         Reserve(r, k, i, f, amount, row)
  PROVE  /\ sweep' = sweep /\ ~reservation'[r].overdue
         /\ \A q \in RequestIds : q # r => reservation'[q] = reservation[q]
BY DEF Reserve, TypeOK

-----------------------------------------------------------------------------
(* What every step leaves true *)

\* The attempt is the same as far as its request is concerned.
SameCall(b) ==
    /\ attempt'[b].id = attempt[b].id /\ attempt'[b].apiKey = attempt[b].apiKey
    /\ attempt'[b].key = attempt[b].key /\ attempt'[b].fingerprint = attempt[b].fingerprint
    /\ attempt'[b].cut = attempt[b].cut

\* Attempts whose money is decided are left alone.
Kept == \A b \in Attempts : Over(attempt[b]) => SameCall(b)

LEMMA AttemptRow ==
  ASSUME RInv, NEW a \in Attempts
  PROVE  /\ attempt[a] \in Attempt /\ Fine(attempt[a])
         /\ attempt[a].id # NoId => /\ attempt[a].id \in RequestIds
                                    /\ request[attempt[a].id].status # "none"
         /\ Busy(attempt[a]) => /\ attempt[a].id # NoId
                                /\ request[attempt[a].id].status \in {"reserved", "dispatched"}
                                /\ reservation[attempt[a].id].state = "reserved"
<1>1. /\ attempt[a] \in Attempt /\ attempt[a].id \in RequestIds \cup {NoId}
      /\ Fine(attempt[a]) /\ RowsCoherent
  BY AttemptType DEF RInv, StoreInv, AttemptsFine, ReplayTypeOK
<1>2. Busy(attempt[a]) => /\ attempt[a].id # NoId
                          /\ request[attempt[a].id].status \in {"reserved", "dispatched"}
  BY <1>1 DEF Fine, RowFine, BusyFine, Busy
<1>3. QED
  BY <1>1, <1>2, Coherent DEF Fine, RowFine

LEMMA AnsweredStays ==
  ASSUME RInv, [Next]_vars, Kept, NEW q, NEW k, NEW i, NEW f, Answered(q, k, i, f)
  PROVE  Answered(q, k, i, f)'
<1>1. PICK b \in Attempts : /\ attempt[b].id = q /\ Over(attempt[b])
                            /\ attempt[b].apiKey = k /\ attempt[b].key = i /\ attempt[b].fingerprint = f
  BY DEF Answered
<1>2. q \in RequestIds /\ q # NoId /\ request[q].status # "none"
  BY <1>1, AttemptRow DEF Over
<1>3. Moves(q)
  BY <1>2, RequestsMove DEF RInv, ReplayTypeOK
<1>4. SameCall(b)
  BY <1>1 DEF Kept
<1>5. attempt'[b].id = q /\ Over(attempt[b])'
  BY <1>1, <1>2, <1>3, <1>4 DEF Over, Moves, SameCall
<1>6. QED
  BY <1>1, <1>4, <1>5 DEF Answered, SameCall

LEMMA RepliesStay ==
  ASSUME RInv, [Next]_vars, Kept, NEW a \in Attempts,
         attempt'[a].replayOf = attempt[a].replayOf, attempt'[a].apiKey = attempt[a].apiKey,
         attempt'[a].key = attempt[a].key, attempt'[a].fingerprint = attempt[a].fingerprint
  PROVE  attempt'[a].replayOf # NoId =>
           Answered(attempt[a].replayOf, attempt[a].apiKey, attempt[a].key, attempt[a].fingerprint)'
<1>1. SUFFICES ASSUME attempt[a].replayOf # NoId
               PROVE  Answered(attempt[a].replayOf, attempt[a].apiKey, attempt[a].key,
                               attempt[a].fingerprint)'
  OBVIOUS
<1>2. PICK q, k, i, f : /\ q = attempt[a].replayOf /\ k = attempt[a].apiKey
                        /\ i = attempt[a].key /\ f = attempt[a].fingerprint
  OBVIOUS
<1>3. Answered(q, k, i, f)
  BY <1>1, <1>2 DEF RInv, ReplaysFine
<1>4. Answered(q, k, i, f)'
  BY <1>3, AnsweredStays
<1>5. QED
  BY <1>2, <1>4 DEF Answered

LEMMA StoredStays ==
  ASSUME RInv, [Next]_vars, Kept, NEW k \in ApiKeys, NEW i \in IdempotencyKeys,
         stored'[<<k, i>>].body # "none" \/ stored'[<<k, i>>].live
           => stored[<<k, i>>].body # "none" \/ stored[<<k, i>>].live,
         stored'[<<k, i>>].body # "none" \/ stored'[<<k, i>>].live
           => /\ stored'[<<k, i>>].request = stored[<<k, i>>].request
              /\ stored'[<<k, i>>].fingerprint = stored[<<k, i>>].fingerprint
  PROVE  stored'[<<k, i>>].body # "none" \/ stored'[<<k, i>>].live
           => Answered(stored[<<k, i>>].request, k, i, stored[<<k, i>>].fingerprint)'
<1>1. SUFFICES ASSUME stored'[<<k, i>>].body # "none" \/ stored'[<<k, i>>].live
               PROVE  Answered(stored[<<k, i>>].request, k, i, stored[<<k, i>>].fingerprint)'
  OBVIOUS
<1>2. PICK q, f : q = stored[<<k, i>>].request /\ f = stored[<<k, i>>].fingerprint
  OBVIOUS
<1>3. Answered(q, k, i, f)
  BY <1>1, <1>2 DEF RInv, StoredFine
<1>4. Answered(q, k, i, f)'
  BY <1>3, AnsweredStays
<1>5. QED
  BY <1>1, <1>2, <1>4 DEF Answered

LEMMA KeyStays ==
  ASSUME RInv, [Next]_vars, NEW k, NEW i, NEW f,
         \E q \in Bound(k, i) : request[q].fingerprint = f
  PROVE  \E q \in Bound(k, i)' : request'[q].fingerprint = f
<1>1. PICK q \in RequestIds : /\ i # NoKey /\ request[q].status # "none" /\ request[q].apiKey = k
                              /\ request[q].idempotencyKey = i /\ request[q].fingerprint = f
  BY DEF Bound
<1>2. TypeOK /\ StoreInv
  BY DEF RInv, ReplayTypeOK
<1>3. Moves(q)
  BY <1>1, <1>2, RequestsMove
<1>4. HandedOver
  BY <1>2, KeyMoves DEF StoreInv
<1>5. CASE request'[q].idempotencyKey = i
  BY <1>1, <1>3, <1>5 DEF Bound, Moves
<1>6. CASE request'[q].idempotencyKey # i
  <2>1. PICK r \in RequestIds : /\ request'[r].status = "reserved" /\ request'[r].apiKey = k
                                /\ request'[r].idempotencyKey = i /\ request'[r].fingerprint = f
    BY <1>1, <1>4, <1>6 DEF HandedOver
  <2>2. QED
    BY <1>1, <2>1 DEF Bound
<1>7. QED
  BY <1>5, <1>6

LEMMA KeyFineStays ==
  ASSUME RInv, [Next]_vars, NEW a \in Attempts,
         attempt'[a].id = attempt[a].id, attempt'[a].apiKey = attempt[a].apiKey,
         attempt'[a].key = attempt[a].key, attempt'[a].fingerprint = attempt[a].fingerprint
  PROVE  KeyFine(attempt[a])'
<1>1. SUFFICES ASSUME attempt[a].id # NoId, attempt[a].key # NoKey
               PROVE  \E q \in Bound(attempt[a].apiKey, attempt[a].key)' :
                         request'[q].fingerprint = attempt[a].fingerprint
  BY DEF KeyFine, Bound
<1>2. PICK k, i, f : k = attempt[a].apiKey /\ i = attempt[a].key /\ f = attempt[a].fingerprint
  OBVIOUS
<1>3. \E q \in Bound(k, i) : request[q].fingerprint = f
  BY <1>1, <1>2, AttemptRow DEF Fine, KeyFine
<1>4. \E q \in Bound(k, i)' : request'[q].fingerprint = f
  BY <1>3, KeyStays
<1>5. QED
  BY <1>1, <1>2, <1>4 DEF Bound

\* An attempt that makes no step.
LEMMA OthersFine ==
  ASSUME RInv, [Next]_vars, NEW b \in Attempts, attempt'[b] = attempt[b],
         Busy(attempt[b]) =>
            /\ request'[attempt[b].id].status = request[attempt[b].id].status
            /\ request'[attempt[b].id].idempotencyKey = request[attempt[b].id].idempotencyKey
            /\ reservation'[attempt[b].id].overdue = reservation[attempt[b].id].overdue
  PROVE  Fine(attempt[b])'
<1>1. /\ Fine(attempt[b]) /\ TypeOK /\ StoreInv
      /\ attempt[b].id # NoId => attempt[b].id \in RequestIds /\ request[attempt[b].id].status # "none"
  BY AttemptRow DEF RInv, ReplayTypeOK
<1>2. attempt[b].id # NoId => Moves(attempt[b].id)
  BY <1>1, RequestsMove
<1>3. RowFine(attempt[b])'
  BY <1>1, <1>2 DEF Fine, RowFine, Moves
<1>4. BusyFine(attempt[b])'
  BY <1>1 DEF Fine, BusyFine, Busy
<1>5. KeyFine(attempt[b])'
  BY KeyFineStays
<1>6. (attempt[b].pc = "save" => Over(attempt[b]))'
  BY <1>1, <1>2 DEF Fine, Over, Moves
<1>7. QED
  BY <1>3, <1>4, <1>5, <1>6 DEF Fine

\* Rows that a sweep still holds stay as described while rows only move on.
LEMMA SweepStaysFine ==
  ASSUME RInv, [Next]_vars,
         \A q \in RequestIds : request[q].status # "none" /\ reservation'[q].state = "reserved"
            => /\ reservation[q].state = "reserved"
               /\ reservation[q].overdue => reservation'[q].overdue,
         \A m \in Maintainers :
            \/ sweep'[m].rows = {}
            \/ sweep'[m].rows \subseteq sweep[m].rows /\ sweep'[m].phase = sweep[m].phase
  PROVE  SweepFine'
<1>1. SUFFICES ASSUME NEW m \in Maintainers, NEW row \in sweep'[m].rows
               PROVE  /\ request'[row[1]].status # "none"
                      /\ sweep'[m].phase = "stale" /\ reservation'[row[1]].state = "reserved"
                         => reservation'[row[1]].overdue
  BY DEF SweepFine
<1>2. row \in sweep[m].rows /\ sweep'[m].phase = sweep[m].phase
  OBVIOUS
<1>3. row[1] \in RequestIds /\ TypeOK /\ StoreInv
  BY <1>2 DEF RInv, ReplayTypeOK, TypeOK, Sweep
<1>4. /\ request[row[1]].status # "none"
      /\ sweep[m].phase = "stale" /\ reservation[row[1]].state = "reserved" => reservation[row[1]].overdue
  BY <1>2 DEF RInv, SweepFine
<1>5. Moves(row[1])
  BY <1>3, <1>4, RequestsMove
<1>6. QED
  BY <1>2, <1>3, <1>4, <1>5 DEF Moves

\* How an attempt goes on: another pc, and the same request.
GoesOn(a, pc) ==
    /\ attempt'[a].pc = pc /\ attempt'[a].replayOf = attempt[a].replayOf
    /\ attempt'[a].id = attempt[a].id /\ attempt'[a].apiKey = attempt[a].apiKey
    /\ attempt'[a].key = attempt[a].key /\ attempt'[a].fingerprint = attempt[a].fingerprint
    /\ \A b \in Attempts : b # a => attempt'[b] = attempt[b]

LEMMA PcMoves ==
  ASSUME ReplayTypeOK, NEW a \in Attempts, NEW pc, attempt' = [attempt EXCEPT ![a].pc = pc]
  PROVE  GoesOn(a, pc) /\ attempt'[a].cut = attempt[a].cut
<1>1. attempt \in [Attempts -> Attempt] /\ attempt[a] \in Attempt
  BY DEF ReplayTypeOK
<1>2. attempt' = [attempt EXCEPT ![a] = [attempt[a] EXCEPT !.pc = pc]]
  BY <1>1
<1>3. attempt'[a] = [attempt[a] EXCEPT !.pc = pc] /\ \A b \in Attempts : b # a => attempt'[b] = attempt[b]
  BY <1>1, <1>2
<1>4. QED
  BY <1>1, <1>3 DEF GoesOn, Attempt

\* What is left to show when an attempt goes on and nothing is stored.
LEMMA GoesOnFine ==
  ASSUME RInv, [Next]_vars, NEW a \in Attempts, NEW pc, GoesOn(a, pc),
         Over(attempt[a]) => attempt'[a].cut = attempt[a].cut
  PROVE  /\ OwnRows' /\ ReplaysFine' /\ Kept
         /\ stored' = stored => StoredFine'
<1>1. \A b \in Attempts : attempt'[b].id = attempt[b].id
  BY DEF GoesOn
<1>2. Kept
  BY DEF GoesOn, Kept, SameCall
<1>3. OwnRows'
  BY <1>1 DEF RInv, OwnRows
<1>4. ReplaysFine'
  <2>1. SUFFICES ASSUME NEW b \in Attempts, attempt'[b].replayOf # NoId
                 PROVE  Answered(attempt[b].replayOf, attempt[b].apiKey, attempt[b].key,
                                 attempt[b].fingerprint)'
    BY DEF ReplaysFine
  <2>2. QED
    BY <1>2, <2>1, RepliesStay DEF GoesOn
<1>5. ASSUME stored' = stored PROVE StoredFine'
  BY <1>2, <1>5, StoredStays DEF StoredFine
<1>6. QED
  BY <1>2, <1>3, <1>4, <1>5

\* An attempt that ends, or is about to save, without a row to rely on.
LEMMA EndsFine ==
  ASSUME RInv, [Next]_vars, NEW a \in Attempts, NEW pc \in {"save", "done"}, GoesOn(a, pc),
         pc = "save" => Over(attempt[a])'
  PROVE  Fine(attempt[a])'
<1>1. /\ Fine(attempt[a]) /\ TypeOK /\ StoreInv
      /\ attempt[a].id # NoId => attempt[a].id \in RequestIds /\ request[attempt[a].id].status # "none"
  BY AttemptRow DEF RInv, ReplayTypeOK
<1>2. attempt[a].id # NoId => Moves(attempt[a].id)
  BY <1>1, RequestsMove
<1>3. RowFine(attempt[a])'
  BY <1>1, <1>2 DEF Fine, RowFine, Moves, GoesOn, Over
<1>4. BusyFine(attempt[a])'
  BY DEF BusyFine, Busy, GoesOn
<1>5. KeyFine(attempt[a])'
  BY KeyFineStays DEF GoesOn
<1>6. QED
  BY <1>3, <1>4, <1>5 DEF Fine, GoesOn

LEMMA Unchanged ==
  ASSUME UNCHANGED vars
  PROVE  /\ UNCHANGED <<request, reservation, sweep>>
         /\ \A k, i : Bound(k, i)' = Bound(k, i)
         /\ RInv => SweepFine'
BY DEF vars, Bound, RInv, SweepFine

-----------------------------------------------------------------------------
(* The steps of an attempt that leave the store alone *)

LEMMA ReadStep ==
  ASSUME RInv, NEW a \in Attempts, NEW k \in ApiKeys, NEW i \in IdempotencyKeys \cup {NoKey},
         NEW f \in Fingerprints, Read(a, k, i, f)
  PROVE  AttemptsFine' /\ OwnRows' /\ StoredFine' /\ ReplaysFine'
<1>1. UNCHANGED vars /\ stored' = stored /\ attempt[a].pc = "idle"
  BY DEF Read, At
<1>2. PICK found : found = IF ReadOutcome(k, i, f) = "hit" THEN stored[<<k, i>>].request ELSE NoId
  OBVIOUS
<1>3. PICK pc \in {"reserve", "done"} :
         attempt' = [attempt EXCEPT ![a] = [pc |-> pc, apiKey |-> k, key |-> i, fingerprint |-> f,
                                            id |-> NoId, cut |-> FALSE, replayOf |-> found]]
  <2>1. PICK pc : /\ pc = IF ReadOutcome(k, i, f) = "miss" THEN "reserve" ELSE "done"
                  /\ pc \in {"reserve", "done"}
    OBVIOUS
  <2>2. QED
    BY <1>2, <2>1 DEF Read
<1>4. attempt \in [Attempts -> Attempt]
  BY DEF RInv, ReplayTypeOK
<1>5. /\ attempt'[a].pc = pc /\ attempt'[a].id = NoId /\ attempt'[a].replayOf = found
      /\ attempt'[a].apiKey = k /\ attempt'[a].key = i /\ attempt'[a].fingerprint = f
      /\ \A b \in Attempts : b # a => attempt'[b] = attempt[b]
  BY <1>3, <1>4
<1>6. attempt[a].id = NoId
  BY <1>1, AttemptRow DEF Fine, RowFine
<1>7. Kept
  BY <1>5, <1>6 DEF Kept, Over, SameCall
<1>8. AttemptsFine'
  <2>1. ASSUME NEW b \in Attempts, b # a PROVE Fine(attempt[b])'
    BY <1>1, <1>5, <2>1, Unchanged, OthersFine
  <2>2. Fine(attempt[a])'
    BY <1>5 DEF Fine, RowFine, BusyFine, Busy, KeyFine
  <2>3. QED
    BY <2>1, <2>2 DEF AttemptsFine
<1>9. OwnRows'
  BY <1>5, <1>6 DEF RInv, OwnRows
<1>10. StoredFine'
  BY <1>1, <1>7, StoredStays DEF StoredFine
<1>11. ReplaysFine'
  <2>1. ASSUME NEW b \in Attempts, b # a
        PROVE  attempt'[b].replayOf # NoId =>
                 Answered(attempt[b].replayOf, attempt[b].apiKey, attempt[b].key, attempt[b].fingerprint)'
    <3>1. attempt'[b] = attempt[b]
      BY <1>5, <2>1
    <3>2. QED
      BY <1>1, <1>7, <3>1, RepliesStay
  <2>2. ASSUME found # NoId PROVE Answered(found, k, i, f)'
    <3>1. ReadOutcome(k, i, f) = "hit" /\ found = stored[<<k, i>>].request
      BY <1>2, <2>2
    <3>2. Live(k, i) /\ stored[<<k, i>>].fingerprint = f
      BY <3>1 DEF ReadOutcome
    <3>3. Answered(found, k, i, f)
      BY <3>1, <3>2, LiveRow DEF RInv, StoredFine
    <3>4. QED
      BY <1>1, <1>7, <3>3, AnsweredStays
  <2>3. Answered(attempt[a].replayOf, attempt[a].apiKey, attempt[a].key, attempt[a].fingerprint)'
        <=> Answered(found, k, i, f)'
    BY <1>5 DEF Answered
  <2>4. QED
    BY <1>5, <2>1, <2>2, <2>3 DEF ReplaysFine
<1>12. QED
  BY <1>8, <1>9, <1>10, <1>11

\* Refused, Save and Stop end the attempt.
LEMMA EndStep ==
  ASSUME RInv, NEW a \in Attempts, UNCHANGED vars, attempt' = [attempt EXCEPT ![a].pc = "done"]
  PROVE  /\ AttemptsFine' /\ OwnRows' /\ ReplaysFine' /\ Kept
         /\ stored' = stored => StoredFine'
         /\ attempt[a].pc = "save" => Over(attempt[a])'
<1>1. GoesOn(a, "done") /\ attempt'[a].cut = attempt[a].cut
  BY PcMoves DEF RInv
<1>2. AttemptsFine'
  <2>1. ASSUME NEW b \in Attempts, b # a PROVE Fine(attempt[b])'
    BY <1>1, <2>1, Unchanged, OthersFine DEF GoesOn
  <2>2. Fine(attempt[a])'
    BY <1>1, EndsFine
  <2>3. QED
    BY <2>1, <2>2 DEF AttemptsFine
<1>3. attempt[a].pc = "save" => Over(attempt[a])'
  BY <1>1, AttemptRow, Unchanged DEF Fine, Over, GoesOn
<1>4. QED
  BY <1>1, <1>2, <1>3, GoesOnFine

LEMMA SaveStep ==
  ASSUME RInv, NEW a \in Attempts, NEW body \in ReplayRow \ {"none"}, Save(a, body)
  PROVE  AttemptsFine' /\ OwnRows' /\ StoredFine' /\ ReplaysFine'
<1>1. UNCHANGED vars /\ attempt' = [attempt EXCEPT ![a].pc = "done"] /\ attempt[a].pc = "save"
  BY DEF Save, Goto, At
<1>2. AttemptsFine' /\ OwnRows' /\ ReplaysFine' /\ Kept /\ Over(attempt[a])'
  BY <1>1, EndStep
<1>3. GoesOn(a, "done")
  BY <1>1, PcMoves DEF RInv
<1>4. PICK row : row = [request |-> attempt[a].id, fingerprint |-> attempt[a].fingerprint,
                        body |-> body, live |-> TRUE]
  OBVIOUS
<1>5. \/ stored' = stored
      \/ stored' = [stored EXCEPT ![<<attempt[a].apiKey, attempt[a].key>>] = row]
  BY <1>4 DEF Save
<1>6. /\ stored \in [ApiKeys \X IdempotencyKeys -> StoredResponse]
  BY DEF RInv, ReplayTypeOK
<1>7. StoredFine'
  <2>1. SUFFICES ASSUME NEW k \in ApiKeys, NEW i \in IdempotencyKeys,
                        stored'[<<k, i>>].body # "none" \/ stored'[<<k, i>>].live
                 PROVE  Answered(stored[<<k, i>>].request, k, i, stored[<<k, i>>].fingerprint)'
    BY DEF StoredFine
  <2>2. CASE stored'[<<k, i>>] = stored[<<k, i>>]
    BY <1>1, <1>2, <2>1, <2>2, StoredStays
  <2>3. CASE stored'[<<k, i>>] = row /\ attempt[a].apiKey = k /\ attempt[a].key = i
    <3>1. stored'[<<k, i>>].request = attempt[a].id /\ stored'[<<k, i>>].fingerprint = attempt[a].fingerprint
      BY <1>4, <2>3
    <3>2. QED
      BY <1>2, <1>3, <2>3, <3>1 DEF Answered, GoesOn
  <2>4. QED
    BY <1>5, <1>6, <2>2, <2>3
<1>8. QED
  BY <1>2, <1>7

LEMMA ThinkStep ==
  ASSUME RInv, NEW a \in Attempts, Thinks(a)
  PROVE  AttemptsFine' /\ OwnRows' /\ SweepFine' /\ StoredFine' /\ ReplaysFine'
<1>1. SweepFine'
  BY Unchanged DEF Thinks
<1>2. ASSUME Stop(a) \/ \E amount \in Amounts : Refused(a, amount)
      PROVE  AttemptsFine' /\ OwnRows' /\ StoredFine' /\ ReplaysFine'
  <2>1. UNCHANGED vars /\ attempt' = [attempt EXCEPT ![a].pc = "done"] /\ stored' = stored
    BY <1>2 DEF Stop, Refused, Goto
  <2>2. QED
    BY <2>1, EndStep
<1>3. QED
  BY <1>1, <1>2, ReadStep, SaveStep DEF Thinks

\* Responses expire and are deleted.
LEMMA StorageStep ==
  ASSUME RInv, UNCHANGED <<vars, attempt>>,
         \/ stored' = stored
         \/ CleanupReplays
         \/ \E k \in ApiKeys, i \in IdempotencyKeys : Expire(k, i)
  PROVE  AttemptsFine' /\ OwnRows' /\ SweepFine' /\ StoredFine' /\ ReplaysFine'
<1>1. SweepFine' /\ UNCHANGED <<request, reservation>>
  BY Unchanged
<1>2. AttemptsFine'
  BY <1>1, OthersFine DEF AttemptsFine
<1>3. OwnRows'
  BY DEF RInv, OwnRows
<1>4. Kept
  BY DEF Kept, SameCall
<1>5. ReplaysFine'
  BY <1>4, RepliesStay DEF ReplaysFine
<1>6. StoredFine'
  <2>1. stored \in [ApiKeys \X IdempotencyKeys -> StoredResponse]
    BY DEF RInv, ReplayTypeOK
  <2>2. ASSUME NEW k \in ApiKeys, NEW i \in IdempotencyKeys
        PROVE  \/ stored'[<<k, i>>].body = "none" /\ ~stored'[<<k, i>>].live
               \/ /\ stored'[<<k, i>>].request = stored[<<k, i>>].request
                  /\ stored'[<<k, i>>].fingerprint = stored[<<k, i>>].fingerprint
                  /\ stored'[<<k, i>>].body = stored[<<k, i>>].body
                  /\ stored'[<<k, i>>].live => stored[<<k, i>>].live
    <3>1. CASE stored' = stored
      BY <3>1
    <3>2. CASE CleanupReplays
      <4>1. stored'[<<k, i>>] = IF stored[<<k, i>>].live THEN stored[<<k, i>>] ELSE NoResponse
        BY <2>1, <3>2 DEF CleanupReplays
      <4>2. QED
        BY <4>1 DEF NoResponse
    <3>3. ASSUME NEW j \in ApiKeys, NEW n \in IdempotencyKeys, Expire(j, n)
          PROVE  /\ stored'[<<k, i>>].request = stored[<<k, i>>].request
                 /\ stored'[<<k, i>>].fingerprint = stored[<<k, i>>].fingerprint
                 /\ stored'[<<k, i>>].body = stored[<<k, i>>].body
                 /\ stored'[<<k, i>>].live => stored[<<k, i>>].live
      <4>1. stored' = [stored EXCEPT ![<<j, n>>] = [stored[<<j, n>>] EXCEPT !.live = FALSE]]
        BY <2>1, <3>3, RowKey DEF Expire
      <4>2. stored[<<j, n>>] \in StoredResponse /\ stored[<<k, i>>] \in StoredResponse
        BY <2>1, RowKey
      <4>3. QED
        BY <2>1, <4>1, <4>2, RowKey DEF StoredResponse
    <3>4. QED
      BY <3>1, <3>2, <3>3
  <2>3. QED
    BY <1>4, <2>2, StoredStays DEF StoredFine
<1>7. QED
  BY <1>1, <1>2, <1>3, <1>5, <1>6

-----------------------------------------------------------------------------
(* The steps of an attempt that call the store *)

\* Dispatch, settle, refund and quarantine, for the attempt's own request.
LEMMA CallStep ==
  ASSUME RInv, NEW a \in Attempts, NEW pc, GoesOn(a, pc), UNCHANGED <<stored, sweep>>, Busy(attempt[a]),
         \/ MarkDispatched(attempt[a].id) /\ pc = "work"
         \/ Refund(attempt[a].id) /\ pc = "done"
         \/ /\ MarkNeedsReconciliation(attempt[a].id)
            /\ pc = "done" \/ (pc = "save" /\ attempt'[a].cut)
         \/ /\ \E actual \in Costs, zeroUsage \in BOOLEAN : Settle(attempt[a].id, actual, zeroUsage)
            /\ pc \in {"save", "done"}
  PROVE  AttemptsFine' /\ OwnRows' /\ SweepFine' /\ StoredFine' /\ ReplaysFine'
<1>1. PICK r \in RequestIds : r = attempt[a].id /\ r # NoId
  BY AttemptRow
<1>2. /\ request[r].status \in {"reserved", "dispatched"} /\ reservation[r].state = "reserved"
      /\ TypeOK /\ StoreInv /\ StoreInv' /\ [Next]_vars
      /\ Fine(attempt[a])
  <2>1. /\ request[r].status \in {"reserved", "dispatched"} /\ reservation[r].state = "reserved"
        /\ TypeOK /\ StoreInv /\ Fine(attempt[a])
    BY <1>1, AttemptRow DEF RInv, ReplayTypeOK
  <2>2. [Next]_vars
    BY <1>1 DEF Next
  <2>3. QED
    BY <2>1, <2>2, StoreInvStep
<1>3. /\ \A q \in RequestIds : q # r => Untouched(q)
      /\ \/ MarkDispatched(r) /\ request'[r].status = "dispatched" /\ reservation' = reservation
         \/ reservation'[r].state \in {"refunded", "needs_reconciliation", "settled"}
  BY <1>1, <1>2, OperationRows DEF Refund, MarkNeedsReconciliation
<1>4. request'[r].idempotencyKey = request[r].idempotencyKey
  BY <1>1, <1>2, OperationKeepsBindings
  DEF Refund, MarkNeedsReconciliation, SameBindings, SameBinding, StoreInv
<1>5. ~Over(attempt[a])
  BY <1>1, <1>2 DEF Over
<1>6. OwnRows' /\ ReplaysFine' /\ StoredFine'
  BY <1>2, <1>5, GoesOnFine
<1>7. SweepFine'
  <2>1. ASSUME NEW q \in RequestIds, reservation'[q].state = "reserved"
        PROVE  reservation[q].state = "reserved" /\ (reservation[q].overdue => reservation'[q].overdue)
    <3>1. CASE q # r
      BY <1>3, <2>1, <3>1 DEF Untouched
    <3>2. CASE q = r
      BY <1>3, <2>1, <3>2
    <3>3. QED
      BY <3>1, <3>2
  <2>2. QED
    BY <1>2, <2>1, SweepStaysFine
<1>8. Fine(attempt[a])'
  <2>1. CASE pc = "work"
    <3>1. MarkDispatched(r)
      BY <1>1, <2>1
    <3>2. request'[r].status = "dispatched" /\ reservation' = reservation
      BY <1>2, <3>1, OperationRows
    <3>3. request[r].status = "reserved" /\ Moves(r)
      BY <1>2, <3>1, RequestsMove DEF MarkDispatched
    <3>4. RowFine(attempt[a])'
      BY <1>1, <1>2, <2>1, <3>3 DEF Fine, RowFine, Moves, GoesOn
    <3>5. BusyFine(attempt[a])'
      BY <1>1, <1>2, <1>4, <2>1, <3>2, <3>3 DEF Fine, BusyFine, Busy, GoesOn
    <3>6. KeyFine(attempt[a])'
      BY <1>2, KeyFineStays DEF GoesOn
    <3>7. QED
      BY <2>1, <3>4, <3>5, <3>6 DEF Fine, GoesOn
  <2>2. CASE pc = "done"
    BY <1>2, <2>2, EndsFine
  <2>3. CASE pc = "save"
    <3>1. \/ request'[r].status = "succeeded"
          \/ request'[r].status = "needs_reconciliation" /\ attempt'[a].cut
      BY <1>1, <1>2, <2>3, OperationRows DEF MarkNeedsReconciliation
    <3>2. Over(attempt[a])'
      BY <1>1, <3>1 DEF Over, GoesOn
    <3>3. QED
      BY <1>2, <2>3, <3>2, EndsFine
  <2>4. QED
    BY <2>1, <2>2, <2>3
<1>9. AttemptsFine'
  <2>1. ASSUME NEW b \in Attempts, b # a PROVE Fine(attempt[b])'
    <3>1. attempt'[b] = attempt[b]
      BY <2>1 DEF GoesOn
    <3>2. attempt[b].id # NoId => attempt[b].id \in RequestIds /\ attempt[b].id # r
      BY <1>1, <2>1, AttemptRow DEF RInv, OwnRows
    <3>3. Busy(attempt[b]) => Untouched(attempt[b].id)
      BY <1>3, <3>2, AttemptRow
    <3>4. QED
      BY <1>2, <3>1, <3>3, OthersFine DEF Untouched
  <2>2. QED
    BY <1>8, <2>1 DEF AttemptsFine
<1>10. QED
  BY <1>6, <1>7, <1>9

\* A new request: it takes its key only from a request that is over.
LEMMA ReserveStep ==
  ASSUME RInv, NEW a \in Attempts, NEW r \in RequestIds, NEW amount \in Amounts,
         attempt[a].pc = "reserve", Fresh(r),
         Reserve(r, attempt[a].apiKey, attempt[a].key, attempt[a].fingerprint, amount,
                 Joined(attempt[a].apiKey, attempt[a].key)),
         attempt' = [attempt EXCEPT ![a] = [@ EXCEPT !.pc = "dispatch", !.id = r]],
         UNCHANGED stored
  PROVE  AttemptsFine' /\ OwnRows' /\ SweepFine' /\ StoredFine' /\ ReplaysFine'
<1>1. PICK k \in ApiKeys, i \in IdempotencyKeys \cup {NoKey}, f \in Fingerprints, row \in ReplayRow :
        /\ k = attempt[a].apiKey /\ i = attempt[a].key /\ f = attempt[a].fingerprint
        /\ row = Joined(attempt[a].apiKey, attempt[a].key)
  BY AttemptType, JoinedType DEF RInv
<1>2. Reserve(r, k, i, f, amount, row)
  BY <1>1
<1>3. TypeOK /\ StoreInv /\ [Next]_vars /\ Binds(r, k, i, f)
  <2>1. TypeOK /\ StoreInv
    BY DEF RInv, ReplayTypeOK
  <2>2. [Next]_vars
    BY <1>2 DEF Next
  <2>3. QED
    BY <1>2, <2>1, <2>2, ReserveBinds
<1>4. /\ sweep' = sweep /\ ~reservation'[r].overdue
      /\ \A q \in RequestIds : q # r => reservation'[q] = reservation[q]
  BY <1>2, <1>3, ReserveRows
<1>5. /\ attempt'[a].pc = "dispatch" /\ attempt'[a].id = r /\ attempt'[a].replayOf = attempt[a].replayOf
      /\ attempt'[a].apiKey = k /\ attempt'[a].key = i /\ attempt'[a].fingerprint = f
      /\ \A b \in Attempts : b # a => attempt'[b] = attempt[b]
  <2>1. attempt[a] \in Attempt /\ attempt \in [Attempts -> Attempt]
    BY AttemptRow DEF RInv, ReplayTypeOK
  <2>2. attempt'[a] = [attempt[a] EXCEPT !.pc = "dispatch", !.id = r]
        /\ \A b \in Attempts : b # a => attempt'[b] = attempt[b]
    BY <2>1
  <2>3. QED
    BY <1>1, <2>1, <2>2 DEF Attempt
<1>6. attempt[a].id = NoId /\ request[r].status = "none"
  BY <1>3, AttemptRow DEF Fine, RowFine, Binds
<1>7. Kept
  BY <1>5, <1>6 DEF Kept, Over, SameCall
<1>8. \A b \in Attempts : attempt[b].id # r
  BY <1>6, ReplaysAssumption, AttemptRow
<1>9. OwnRows'
  BY <1>5, <1>8 DEF RInv, OwnRows
<1>10. StoredFine'
  BY <1>3, <1>7, StoredStays DEF StoredFine
<1>11. ReplaysFine'
  <2>1. SUFFICES ASSUME NEW b \in Attempts, attempt'[b].replayOf # NoId
                 PROVE  Answered(attempt[b].replayOf, attempt[b].apiKey, attempt[b].key,
                                 attempt[b].fingerprint)'
    BY DEF ReplaysFine
  <2>2. QED
    BY <1>1, <1>3, <1>5, <1>7, <2>1, RepliesStay
<1>12. SweepFine'
  <2>1. ASSUME NEW q \in RequestIds, request[q].status # "none"
        PROVE  reservation'[q] = reservation[q]
    BY <1>4, <1>6, <2>1
  <2>2. QED
    BY <1>3, <1>4, <2>1, SweepStaysFine
<1>13. AttemptsFine'
  <2>1. ASSUME NEW b \in Attempts, b # a PROVE Fine(attempt[b])'
    <3>1. attempt'[b] = attempt[b]
      BY <1>5, <2>1
    <3>2. ASSUME Busy(attempt[b])
          PROVE  /\ request'[attempt[b].id].status = request[attempt[b].id].status
                 /\ request'[attempt[b].id].idempotencyKey = request[attempt[b].id].idempotencyKey
                 /\ reservation'[attempt[b].id].overdue = reservation[attempt[b].id].overdue
      <4>1. /\ attempt[b].id \in RequestIds /\ attempt[b].id # r
            /\ request[attempt[b].id].status \in {"reserved", "dispatched"}
        BY <1>8, <3>2, AttemptRow
      <4>2. attempt[b].id \notin Bound(k, i)
        BY <1>3, <4>1 DEF Binds
      <4>3. QED
        BY <1>3, <1>4, <4>1, <4>2 DEF Binds
    <3>3. QED
      BY <1>3, <3>1, <3>2, OthersFine
  <2>2. Fine(attempt[a])'
    <3>1. RowFine(attempt[a])'
      BY <1>3, <1>5, <1>8, <1>6, ReplaysAssumption DEF RowFine, Binds
    <3>2. BusyFine(attempt[a])'
      BY <1>3, <1>4, <1>5 DEF BusyFine, Binds
    <3>3. KeyFine(attempt[a])'
      BY <1>3, <1>5 DEF KeyFine, Binds, Bound
    <3>4. QED
      BY <1>5, <3>1, <3>2, <3>3 DEF Fine
  <2>3. QED
    BY <2>1, <2>2 DEF AttemptsFine
<1>14. QED
  BY <1>9, <1>10, <1>11, <1>12, <1>13

LEMMA AskStep ==
  ASSUME RInv, NEW a \in Attempts, Asks(a), UNCHANGED stored
  PROVE  AttemptsFine' /\ OwnRows' /\ SweepFine' /\ StoredFine' /\ ReplaysFine'
<1>1. ReplayTypeOK /\ attempt \in [Attempts -> Attempt] /\ attempt[a] \in Attempt
  BY AttemptRow DEF RInv, ReplayTypeOK
<1>2. CASE attempt[a].pc = "reserve"
  BY <1>2, ReserveStep DEF Asks
<1>3. ASSUME attempt[a].pc = "dispatch", MarkDispatched(attempt[a].id),
             attempt' = [attempt EXCEPT ![a].pc = "work"]
      PROVE  AttemptsFine' /\ OwnRows' /\ SweepFine' /\ StoredFine' /\ ReplaysFine'
  <2>1. GoesOn(a, "work") /\ sweep' = sweep
    BY <1>1, <1>3, PcMoves DEF MarkDispatched
  <2>2. QED
    BY <1>3, <2>1, CallStep DEF Busy
<1>4. ASSUME attempt[a].pc = "work", NEW actual \in Costs, NEW zeroUsage \in BOOLEAN,
             Settle(attempt[a].id, actual, zeroUsage), NEW pc \in {"save", "done"},
             attempt' = [attempt EXCEPT ![a].pc = pc]
      PROVE  AttemptsFine' /\ OwnRows' /\ SweepFine' /\ StoredFine' /\ ReplaysFine'
  <2>1. GoesOn(a, pc) /\ sweep' = sweep
    BY <1>1, <1>4, PcMoves DEF Settle
  <2>2. QED
    BY <1>4, <2>1, CallStep DEF Busy
<1>5. ASSUME attempt[a].pc = "work", Refund(attempt[a].id), attempt' = [attempt EXCEPT ![a].pc = "done"]
      PROVE  AttemptsFine' /\ OwnRows' /\ SweepFine' /\ StoredFine' /\ ReplaysFine'
  <2>1. GoesOn(a, "done") /\ sweep' = sweep
    BY <1>1, <1>5, PcMoves DEF Refund
  <2>2. QED
    BY <1>5, <2>1, CallStep DEF Busy
<1>6. ASSUME attempt[a].pc = "work", MarkNeedsReconciliation(attempt[a].id), NEW cut \in BOOLEAN,
             attempt' = [attempt EXCEPT ![a] = [@ EXCEPT !.pc = IF cut THEN "save" ELSE "done",
                                                        !.cut = cut]]
      PROVE  AttemptsFine' /\ OwnRows' /\ SweepFine' /\ StoredFine' /\ ReplaysFine'
  <2>1. PICK pc : pc = IF cut THEN "save" ELSE "done"
    OBVIOUS
  <2>2. attempt'[a] = [attempt[a] EXCEPT !.pc = pc, !.cut = cut]
        /\ \A b \in Attempts : b # a => attempt'[b] = attempt[b]
    BY <1>1, <1>6, <2>1
  <2>3. GoesOn(a, pc) /\ attempt'[a].cut = cut
    BY <1>1, <2>2 DEF GoesOn, Attempt
  <2>4. sweep' = sweep
    BY <1>6 DEF MarkNeedsReconciliation
  <2>5. pc = "done" \/ (pc = "save" /\ attempt'[a].cut)
    BY <2>1, <2>3
  <2>6. QED
    BY <1>6, <2>3, <2>4, <2>5, CallStep DEF Busy
<1>7. QED
  BY <1>2, <1>3, <1>4, <1>5, <1>6 DEF Asks

-----------------------------------------------------------------------------
(* Deadlines and sweeps: they touch no row that an attempt still works on *)

LEMMA SystemFine ==
  ASSUME RInv, [Next]_vars, UNCHANGED replayVars, SweepFine',
         \A b \in Attempts : Busy(attempt[b]) => Untouched(attempt[b].id)
  PROVE  AttemptsFine' /\ OwnRows' /\ SweepFine' /\ StoredFine' /\ ReplaysFine'
<1>1. UNCHANGED <<attempt, stored>>
  BY DEF replayVars
<1>2. AttemptsFine'
  BY <1>1, OthersFine DEF AttemptsFine, Untouched
<1>3. OwnRows'
  BY <1>1 DEF RInv, OwnRows
<1>4. Kept
  BY <1>1 DEF Kept, SameCall
<1>5. ReplaysFine'
  BY <1>1, <1>4, RepliesStay DEF ReplaysFine
<1>6. StoredFine'
  BY <1>1, <1>4, StoredStays DEF StoredFine
<1>7. QED
  BY <1>2, <1>3, <1>5, <1>6

LEMMA SweepTyped ==
  ASSUME RInv
  PROVE  /\ TypeOK /\ StoreInv /\ sweep \in [Maintainers -> Sweep]
         /\ \A m \in Maintainers : \A row \in sweep[m].rows : row[1] \in RequestIds
BY DEF RInv, ReplayTypeOK, TypeOK, Sweep

LEMMA DeadlineStep ==
  ASSUME RInv, NEW r \in RequestIds, Abandoned(r), PassDeadline(r), UNCHANGED replayVars
  PROVE  AttemptsFine' /\ OwnRows' /\ SweepFine' /\ StoredFine' /\ ReplaysFine'
<1>1. [Next]_vars /\ request' = request /\ sweep' = sweep
  BY DEF PassDeadline, Next
<1>2. /\ reservation'[r].state = reservation[r].state /\ reservation'[r].overdue
      /\ \A q \in RequestIds : q # r => reservation'[q] = reservation[q]
  <2>1. reservation \in [RequestIds -> Reservation]
    BY SweepTyped DEF TypeOK
  <2>2. reservation' = [reservation EXCEPT ![r] = [reservation[r] EXCEPT !.overdue = TRUE]]
    BY DEF PassDeadline
  <2>3. QED
    BY <2>1, <2>2 DEF Reservation
<1>3. \A q \in RequestIds : reservation'[q].state = "reserved" =>
        /\ reservation[q].state = "reserved"
        /\ reservation[q].overdue => reservation'[q].overdue
  BY <1>2
<1>4. SweepFine'
  BY <1>1, <1>3, SweepStaysFine
<1>5. ASSUME NEW b \in Attempts, Busy(attempt[b]) PROVE Untouched(attempt[b].id)
  <2>1. attempt[b].id # r
    BY <1>5 DEF Abandoned, Busy
  <2>2. QED
    BY <1>1, <1>2, <1>5, <2>1, AttemptRow DEF Untouched
<1>6. QED
  BY <1>1, <1>4, <1>5, SystemFine

LEMMA ReadRowsStep ==
  ASSUME RInv, NEW m \in Maintainers, ReadStale(m) \/ ReadQuarantined(m), UNCHANGED replayVars
  PROVE  AttemptsFine' /\ OwnRows' /\ SweepFine' /\ StoredFine' /\ ReplaysFine'
<1>1. [Next]_vars /\ UNCHANGED <<request, reservation>>
  BY DEF ReadStale, ReadQuarantined, Next, SweepStep
<1>2. PICK phase \in {"stale", "quarantine"}, state \in {"reserved", "needs_reconciliation"} :
        \E b \in SUBSET OverdueIn(state) : sweep' = [sweep EXCEPT ![m] = [phase |-> phase, rows |-> b]]
  BY DEF ReadStale, ReadQuarantined, Batches
<1>3. PICK rows \in SUBSET OverdueIn(state) :
        sweep' = [sweep EXCEPT ![m] = [phase |-> phase, rows |-> rows]]
  BY <1>2
<1>4. sweep'[m].rows = rows /\ \A n \in Maintainers : n # m => sweep'[n] = sweep[n]
  BY <1>3, SweepTyped
<1>5. ASSUME NEW row \in rows
      PROVE  request[row[1]].status # "none" /\ reservation[row[1]].overdue
  <2>1. PICK q \in RequestIds : /\ row = <<q, request[q].dispatched>>
                                /\ reservation[q].state = state /\ reservation[q].overdue
    BY <1>5 DEF OverdueIn
  <2>2. request[q].status # "none"
    BY <2>1, SweepTyped, Coherent DEF StoreInv
  <2>3. QED
    BY <2>1, <2>2
<1>6. SweepFine'
  <2>1. SUFFICES ASSUME NEW n \in Maintainers, NEW row \in sweep'[n].rows
                 PROVE  /\ request[row[1]].status # "none"
                        /\ sweep'[n].phase = "stale" /\ reservation[row[1]].state = "reserved"
                           => reservation[row[1]].overdue
    BY <1>1 DEF SweepFine
  <2>2. CASE n = m
    BY <1>4, <1>5, <2>2
  <2>3. CASE n # m
    BY <1>4, <2>3 DEF RInv, SweepFine
  <2>4. QED
    BY <2>2, <2>3
<1>7. QED
  BY <1>1, <1>6, SystemFine DEF Untouched

LEMMA SweepRowStep ==
  ASSUME RInv, NEW m \in Maintainers, NEW r \in RequestIds, NEW d \in BOOLEAN,
         ReconcileRow(m, r, d) \/ ResolveRow(m, r, d), UNCHANGED replayVars
  PROVE  AttemptsFine' /\ OwnRows' /\ SweepFine' /\ StoredFine' /\ ReplaysFine'
<1>1. [Next]_vars /\ <<r, d>> \in sweep[m].rows
  BY DEF Next, SweepStep, ReconcileRow, ResolveRow
<1>2. \A n \in Maintainers : sweep'[n].rows \subseteq sweep[n].rows /\ sweep'[n].phase = sweep[n].phase
  <2>1. sweep' = [sweep EXCEPT ![m].rows = @ \ {<<r, d>>}]
    BY DEF ReconcileRow, ResolveRow
  <2>2. QED
    BY <2>1, SweepTyped DEF Sweep
<1>3. \/ UNCHANGED <<request, reservation>>
      \/ /\ RefundRows(r) \/ QuarantineRows(r)
         /\ \/ reservation[r].state = "reserved" /\ reservation[r].overdue
            \/ reservation[r].state = "needs_reconciliation"
  BY <1>1 DEF ReconcileRow, ResolveRow, RInv, SweepFine
<1>4. CASE UNCHANGED <<request, reservation>>
  <2>1. SweepFine'
    BY <1>1, <1>2, <1>4, SweepStaysFine
  <2>2. QED
    BY <1>1, <1>4, <2>1, SystemFine DEF Untouched
<1>5. CASE /\ RefundRows(r) \/ QuarantineRows(r)
           /\ \/ reservation[r].state = "reserved" /\ reservation[r].overdue
              \/ reservation[r].state = "needs_reconciliation"
  <2>1. /\ reservation'[r].state \in {"refunded", "needs_reconciliation"}
        /\ \A q \in RequestIds : q # r => Untouched(q)
    BY <1>5, SweepTyped, OperationRows
  <2>2. \A q \in RequestIds : reservation'[q].state = "reserved" => reservation'[q] = reservation[q]
    BY <2>1 DEF Untouched
  <2>3. SweepFine'
    BY <1>1, <1>2, <2>2, SweepStaysFine
  <2>4. ASSUME NEW b \in Attempts, Busy(attempt[b]) PROVE Untouched(attempt[b].id)
    <3>1. /\ attempt[b].id \in RequestIds /\ reservation[attempt[b].id].state = "reserved"
          /\ ~reservation[attempt[b].id].overdue
      BY <2>4, AttemptRow DEF Fine, BusyFine
    <3>2. QED
      BY <1>5, <2>1, <3>1
  <2>5. QED
    BY <1>1, <2>3, <2>4, SystemFine
<1>6. QED
  BY <1>3, <1>4, <1>5

LEMMA SystemStep ==
  ASSUME RInv, StoreStep
  PROVE  AttemptsFine' /\ OwnRows' /\ SweepFine' /\ StoredFine' /\ ReplaysFine'
BY DeadlineStep, ReadRowsStep, SweepRowStep DEF StoreStep, SweepStep

-----------------------------------------------------------------------------
(* The invariant *)

LEMMA RInvInit == ReplayInit => RInv
<1> SUFFICES ASSUME ReplayInit PROVE RInv
  OBVIOUS
<1>1. TypeOK /\ StoreInv
  BY TypeInit, CoherentInit, BoundOnceInit, KeylessInit DEF ReplayInit, StoreInv
<1>2. \A a \in Attempts :
        /\ attempt[a].pc = "idle" /\ attempt[a].id = NoId /\ attempt[a].replayOf = NoId
        /\ attempt[a] \in Attempt
  BY BillingAssumption DEF ReplayInit, Attempt
<1>3. \A k \in ApiKeys, i \in IdempotencyKeys : stored[<<k, i>>].body = "none" /\ ~stored[<<k, i>>].live
  BY RowKey DEF ReplayInit, NoResponse
<1>4. ReplayTypeOK
  BY <1>1, <1>2, NoResponseType DEF ReplayInit, ReplayTypeOK
<1>5. AttemptsFine
  BY <1>2 DEF AttemptsFine, Fine, RowFine, BusyFine, Busy, KeyFine
<1>6. OwnRows /\ StoredFine /\ ReplaysFine
  BY <1>2, <1>3 DEF OwnRows, StoredFine, ReplaysFine
<1>7. SweepFine
  BY DEF ReplayInit, Init, SweepFine
<1>8. QED
  BY <1>1, <1>4, <1>5, <1>6, <1>7 DEF RInv

LEMMA RInvStep == RInv /\ [ReplayNext]_<<vars, replayVars>> => RInv'
<1> SUFFICES ASSUME RInv, [ReplayNext]_<<vars, replayVars>> PROVE RInv'
  OBVIOUS
<1>1. ReplayTypeOK' /\ StoreInv'
  BY ReplayTypeStep, ReplayStepIsStoreStep, StoreInvStep DEF RInv, ReplayTypeOK
<1>2. ASSUME NEW a \in Attempts, AttemptStep(a)
      PROVE  AttemptsFine' /\ OwnRows' /\ SweepFine' /\ StoredFine' /\ ReplaysFine'
  BY <1>2, AttemptAsksOrThinks, AskStep, ThinkStep
<1>3. ASSUME NEW k \in ApiKeys, NEW i \in IdempotencyKeys, Expire(k, i)
      PROVE  AttemptsFine' /\ OwnRows' /\ SweepFine' /\ StoredFine' /\ ReplaysFine'
  BY <1>3, StorageStep DEF Expire
<1>4. ASSUME CleanupReplays
      PROVE  AttemptsFine' /\ OwnRows' /\ SweepFine' /\ StoredFine' /\ ReplaysFine'
  BY <1>4, StorageStep DEF CleanupReplays
<1>5. ASSUME UNCHANGED <<vars, replayVars>>
      PROVE  AttemptsFine' /\ OwnRows' /\ SweepFine' /\ StoredFine' /\ ReplaysFine'
  BY <1>5, StorageStep DEF replayVars
<1>6. AttemptsFine' /\ OwnRows' /\ SweepFine' /\ StoredFine' /\ ReplaysFine'
  BY <1>2, <1>3, <1>4, <1>5, SystemStep DEF ReplayNext
<1>7. QED
  BY <1>1, <1>6 DEF RInv

LEMMA ReplaysInvariant == ReplaySpec => []RInv
BY RInvInit, RInvStep, PTL DEF ReplaySpec

-----------------------------------------------------------------------------
(* Theorems *)

\* The variables of Replays keep their types.
THEOREM ReplayTypeCorrect == ReplaySpec => []ReplayTypeOK
<1>1. RInv => ReplayTypeOK
  BY DEF RInv
<1>2. QED
  BY <1>1, ReplaysInvariant, PTL

\* To the store, attempts are callers like any others: what is proved of Billing holds
\* with retries and replays.
THEOREM ReplaysAreAStoreClient == ReplaySpec => Spec
<1>1. ReplayInit => Init
  BY DEF ReplayInit
<1>2. RInv /\ [ReplayNext]_<<vars, replayVars>> => [Next]_vars
  BY ReplayStepIsStoreStep DEF RInv
<1>3. QED
  BY <1>1, <1>2, ReplaysInvariant, PTL DEF ReplaySpec, Spec

\* Two attempts never execute under one idempotency key of an API key at the same time:
\* both would be bound to the key, each by a request of its own.
THEOREM KeyedExecutionsAreSerial == ReplaySpec => []NeverTwiceAtOnce
<1>1. RInv => NeverTwiceAtOnce
  <2> SUFFICES ASSUME RInv, NEW a \in Attempts, NEW b \in Attempts, a # b, attempt[a].key # NoKey,
                      attempt[a].apiKey = attempt[b].apiKey, attempt[a].key = attempt[b].key,
                      Busy(attempt[a]), Busy(attempt[b])
               PROVE  FALSE
    BY DEF NeverTwiceAtOnce, Busy
  <2>1. ASSUME NEW c \in Attempts, Busy(attempt[c])
        PROVE  /\ attempt[c].id \in RequestIds /\ attempt[c].id # NoId
               /\ request[attempt[c].id].status # "none"
               /\ request[attempt[c].id].apiKey = attempt[c].apiKey
               /\ request[attempt[c].id].idempotencyKey = attempt[c].key
    BY <2>1, AttemptRow DEF Fine, RowFine, BusyFine
  <2>2. BoundOnce /\ OwnRows
    BY DEF RInv, StoreInv
  <2>3. attempt[a].id = attempt[b].id
    BY <2>1, <2>2 DEF BoundOnce
  <2>4. QED
    BY <2>1, <2>2, <2>3 DEF OwnRows
<1>2. QED
  BY <1>1, ReplaysInvariant, PTL

LEMMA StoredIsBound == RInv => StoredUnderItsBinding
<1> SUFFICES ASSUME RInv, NEW k \in ApiKeys, NEW i \in IdempotencyKeys, stored[<<k, i>>].body # "none"
             PROVE  \E q \in Bound(k, i) : request[q].fingerprint = stored[<<k, i>>].fingerprint
  BY DEF StoredUnderItsBinding
<1>1. PICK b \in Attempts : /\ Over(attempt[b]) /\ attempt[b].apiKey = k /\ attempt[b].key = i
                            /\ attempt[b].fingerprint = stored[<<k, i>>].fingerprint
  BY DEF RInv, StoredFine, Answered
<1>2. attempt[b].id # NoId /\ attempt[b].key # NoKey
  BY <1>1, BillingAssumption DEF Over
<1>3. QED
  BY <1>1, <1>2, AttemptRow DEF Fine, KeyFine

\* A response, stored however late, has the body of the request its key is bound to.
THEOREM ResponsesMatchBindings == ReplaySpec => []StoredUnderItsBinding
<1>1. QED
  BY StoredIsBound, ReplaysInvariant, PTL

\* A replayed answer is that of a request with the same API key, idempotency key and body,
\* which is over and was charged unless its client cut it short.
THEOREM ReplaysAreFaithful == ReplaySpec => []ReplaysAnswerTheSameRequest
<1>1. RInv => ReplaysAnswerTheSameRequest
  <2> SUFFICES ASSUME RInv, NEW a \in Attempts, attempt[a].replayOf # NoId
               PROVE  \E b \in Attempts :
                        /\ Executes(b, attempt[a].replayOf)
                        /\ attempt[b].apiKey = attempt[a].apiKey
                        /\ attempt[b].key = attempt[a].key
                        /\ attempt[b].fingerprint = attempt[a].fingerprint
                        /\ request[attempt[b].id].status \notin {"reserved", "dispatched"}
                        /\ request[attempt[b].id].status = "succeeded" \/ attempt[b].cut
    BY DEF ReplaysAnswerTheSameRequest
  <2>1. Answered(attempt[a].replayOf, attempt[a].apiKey, attempt[a].key, attempt[a].fingerprint)
    BY DEF RInv, ReplaysFine
  <2>2. QED
    BY <2>1 DEF Answered, Over, Executes
<1>2. QED
  BY <1>1, ReplaysInvariant, PTL

NothingExecutedWhileStored ==
    \A r \in RequestIds :
        request[r].status = "none" /\ request'[r].status # "none"
        => ~Live(request'[r].apiKey, request'[r].idempotencyKey)

LEMMA NoOtherStepCreates ==
  ASSUME RInv, SameBindings
  PROVE  NothingExecutedWhileStored
BY DEF NothingExecutedWhileStored, SameBindings, SameBinding

LEMMA ReserveSeesStored ==
  ASSUME RInv, NEW a \in Attempts, NEW r \in RequestIds, NEW amount \in Amounts,
         Reserve(r, attempt[a].apiKey, attempt[a].key, attempt[a].fingerprint, amount,
                 Joined(attempt[a].apiKey, attempt[a].key))
  PROVE  NothingExecutedWhileStored
<1>1. PICK k \in ApiKeys, i \in IdempotencyKeys \cup {NoKey}, f \in Fingerprints, row \in ReplayRow :
        /\ k = attempt[a].apiKey /\ i = attempt[a].key /\ f = attempt[a].fingerprint
        /\ row = Joined(k, i)
  BY AttemptType, JoinedType DEF RInv
<1>2. Reserve(r, k, i, f, amount, row)
  BY <1>1
<1>3. Binds(r, k, i, f) /\ (Bound(k, i) # {} => row = "none")
  BY <1>2, ReserveBinds DEF RInv, ReplayTypeOK
<1>4. ~Live(k, i)
  <2>1. SUFFICES ASSUME Live(k, i) PROVE FALSE
    OBVIOUS
  <2>2. row # "none"
    BY <1>1, <2>1, JoinedType DEF RInv
  <2>3. Bound(k, i) # {}
    BY <2>1, LiveRow, StoredIsBound DEF StoredUnderItsBinding
  <2>4. QED
    BY <1>3, <2>2, <2>3
<1>5. QED
  BY <1>3, <1>4 DEF NothingExecutedWhileStored, Binds

LEMMA NothingExecutedStep ==
  RInv /\ [ReplayNext]_<<vars, replayVars>> => [NothingExecutedWhileStored]_<<vars, replayVars>>
<1> SUFFICES ASSUME RInv, [ReplayNext]_<<vars, replayVars>> PROVE NothingExecutedWhileStored
  OBVIOUS
<1>1. TypeOK /\ RowsCoherent
  BY DEF RInv, ReplayTypeOK, StoreInv
<1>2. ASSUME NEW a \in Attempts, Asks(a)
      PROVE  NothingExecutedWhileStored
  <2>1. CASE attempt[a].pc = "reserve"
    BY <1>2, <2>1, ReserveSeesStored DEF Asks
  <2>2. CASE attempt[a].pc # "reserve"
    <3>1. Busy(attempt[a])
      BY <1>2, <2>2 DEF Asks, Busy
    <3>2. attempt[a].id \in RequestIds
      BY <3>1, AttemptRow
    <3>3. SameBindings
      BY <1>1, <1>2, <2>2, <3>2, OperationKeepsBindings DEF Asks, Refund, MarkNeedsReconciliation
    <3>4. QED
      BY <3>3, NoOtherStepCreates
  <2>3. QED
    BY <2>1, <2>2
<1>3. ASSUME UNCHANGED request PROVE NothingExecutedWhileStored
  BY <1>3, SameRequestsSameBindings, NoOtherStepCreates
<1>4. CASE StoreStep
  <2>1. ASSUME NEW m \in Maintainers, NEW r \in RequestIds, NEW d \in BOOLEAN,
               ReconcileRow(m, r, d) \/ ResolveRow(m, r, d)
        PROVE  NothingExecutedWhileStored
    BY <1>1, <1>3, <2>1, OperationKeepsBindings, NoOtherStepCreates DEF ReconcileRow, ResolveRow
  <2>2. ASSUME \/ \E r \in RequestIds : PassDeadline(r)
               \/ \E m \in Maintainers : ReadStale(m) \/ ReadQuarantined(m)
        PROVE  NothingExecutedWhileStored
    BY <1>3, <2>2 DEF PassDeadline, ReadStale, ReadQuarantined
  <2>3. QED
    BY <1>4, <2>1, <2>2 DEF StoreStep, SweepStep
<1>5. ASSUME UNCHANGED vars PROVE NothingExecutedWhileStored
  BY <1>3, <1>5 DEF vars
<1>6. ASSUME NEW a \in Attempts, AttemptStep(a) PROVE NothingExecutedWhileStored
  BY <1>2, <1>5, <1>6, AttemptAsksOrThinks DEF Thinks
<1>7. QED
  BY <1>4, <1>5, <1>6 DEF ReplayNext, Expire, CleanupReplays

\* While a response or a tombstone is stored for a key, nothing is executed and nobody pays
\* under it, also when it was stored after the retry had looked for it.
THEOREM StoredMeansNotExecuted == ReplaySpec => NoExecutionWhileStored
<1>1. QED
  BY NothingExecutedStep, ReplaysInvariant, PTL
  DEF ReplaySpec, NoExecutionWhileStored, NothingExecutedWhileStored
=============================================================================
