------------------------------ MODULE Replays ------------------------------
(***************************************************************************)
(* Idempotent replays: gateway/utils/aiIdempotency.ts and its callers in   *)
(* gateway/routes/aiPublic.ts, on top of the billing store.                *)
(*                                                                         *)
(* An API key may opt in to replays.  The response of a request with an    *)
(* Idempotency-Key is then stored, after the money was settled, for a time *)
(* to live; a retry under the same key finds it before anything is         *)
(* reserved.  Reading, reserving, settling and storing are separate        *)
(* transactions: other attempts under the same key run in between.  The    *)
(* attempt loop of the runtime is left to Inference; here a request works  *)
(* and is then settled, refunded or quarantined.                           *)
(***************************************************************************)
EXTENDS Billing

CONSTANTS
    Attempts,   \* HTTP requests, retries included
    NoId        \* no request

ASSUME ReplaysAssumption == NoId \notin RequestIds

VARIABLES
    attempt,    \* [Attempts -> the handler of one HTTP request]
    stored,     \* [ApiKeys \X IdempotencyKeys -> ai_idempotency_replays row]
    closed      \* requests whose response was stored and has expired (read by no guard)

replayVars == <<attempt, stored, closed>>

\* cut: the client cancelled the stream when its last event was already there.
\* replayOf: the request whose stored response was the answer.
Attempt ==
    [pc : {"idle", "reserve", "dispatch", "work", "save", "done"}, apiKey : ApiKeys,
     key : IdempotencyKeys \cup {NoKey}, fingerprint : Fingerprints,
     id : RequestIds \cup {NoId}, cut : BOOLEAN, replayOf : RequestIds \cup {NoId}]

\* body "none" is the absence of the row; a row that is not live has expired.
StoredResponse ==
    [request : RequestIds \cup {NoId}, fingerprint : Fingerprints, body : ReplayRow, live : BOOLEAN]

ReplayTypeOK ==
    /\ TypeOK
    /\ attempt \in [Attempts -> Attempt]
    /\ stored \in [ApiKeys \X IdempotencyKeys -> StoredResponse]
    /\ closed \subseteq RequestIds

NoResponse ==
    [request |-> NoId, fingerprint |-> CHOOSE f \in Fingerprints : TRUE, body |-> "none", live |-> FALSE]

ReplayInit ==
    /\ Init
    /\ attempt = [a \in Attempts |->
                    [pc |-> "idle", apiKey |-> CHOOSE k \in ApiKeys : TRUE, key |-> NoKey,
                     fingerprint |-> CHOOSE f \in Fingerprints : TRUE, id |-> NoId,
                     cut |-> FALSE, replayOf |-> NoId]]
    /\ stored = [b \in ApiKeys \X IdempotencyKeys |-> NoResponse]
    /\ closed = {}

-----------------------------------------------------------------------------
(* What a retry finds *)

Replayable(k, i) == i # NoKey /\ ReplayOptIn[k]

Live(k, i) == Replayable(k, i) /\ stored[<<k, i>>].body # "none" /\ stored[<<k, i>>].live

\* Mutant of Joined: the transaction of reserve does not see the stored responses.
JoinedNothing(k, i) == "none"

\* The replay row as readIdempotency joins it: an expired row counts for nothing.
Joined(k, i) == IF Live(k, i) THEN stored[<<k, i>>].body ELSE "none"

\* Mutant of ReadOutcome: the body of the retry is not compared.
ReadOutcomeAnyBody(k, i, f) ==
    IF ~Live(k, i) THEN "miss"
    ELSE IF stored[<<k, i>>].body = "tombstone" THEN "not_stored"
    ELSE "hit"

\* readAutonomiaIdempotentReplay.
ReadOutcome(k, i, f) ==
    IF ~Live(k, i) THEN "miss"
    ELSE IF stored[<<k, i>>].fingerprint # f THEN "idempotency_conflict"
    ELSE IF stored[<<k, i>>].body = "tombstone" THEN "not_stored"
    ELSE "hit"

-----------------------------------------------------------------------------
(* One attempt *)

At(a, pc) == attempt[a].pc = pc

Goto(a, pc) == attempt' = [attempt EXCEPT ![a].pc = pc]

\* replayForPrepared: a hit is answered at once.  (The row with status 'replayed' that it
\* tries to add to ai_requests is read by reports only.)
Read(a, k, i, f) ==
    /\ At(a, "idle")
    /\ LET outcome == ReadOutcome(k, i, f)
       IN  attempt' = [attempt EXCEPT
                         ![a] = [pc |-> IF outcome = "miss" THEN "reserve" ELSE "done",
                                 apiKey |-> k, key |-> i, fingerprint |-> f, id |-> NoId, cut |-> FALSE,
                                 replayOf |-> IF outcome = "hit" THEN stored[<<k, i>>].request ELSE NoId]]
    /\ UNCHANGED <<vars, stored, closed>>

\* billing.reserve looks the binding and the replay row up again, in its transaction.
ReserveCall(a, r, amount) ==
    /\ At(a, "reserve")
    /\ LET c == attempt[a]
       IN  Fresh(r) /\ Reserve(r, c.apiKey, c.key, c.fingerprint, amount, Joined(c.apiKey, c.key))
    /\ attempt' = [attempt EXCEPT ![a] = [@ EXCEPT !.pc = "dispatch", !.id = r]]
    /\ UNCHANGED <<stored, closed>>

\* Every other outcome is an error for the client; nothing is executed.
Refused(a, amount) ==
    /\ At(a, "reserve")
    /\ LET c == attempt[a]
       IN  ReserveOutcome(c.apiKey, c.key, c.fingerprint, amount, Joined(c.apiKey, c.key)) # "reserved"
    /\ Goto(a, "done")
    /\ UNCHANGED <<vars, stored, closed>>

DispatchCall(a) ==
    /\ At(a, "dispatch")
    /\ MarkDispatched(attempt[a].id)
    /\ Goto(a, "work")
    /\ UNCHANGED <<stored, closed>>

\* A JSON answer or a whole stream is settled, then stored.  A stream that broke or was
\* cancelled after its usage report is settled too, and is not stored unless the last
\* event was already there.
SettleCall(a, actual, zeroUsage, pc) ==
    /\ At(a, "work")
    /\ pc \in {"save", "done"}
    /\ Settle(attempt[a].id, actual, zeroUsage)
    /\ Goto(a, pc)
    /\ UNCHANGED <<stored, closed>>

RefundCall(a) ==
    /\ At(a, "work")
    /\ Refund(attempt[a].id)
    /\ Goto(a, "done")
    /\ UNCHANGED <<stored, closed>>

\* Usage unknown.  When the client cancels a stream whose [DONE] is already buffered,
\* finalizeStream returns the promise of failStream and the loop stores the response.
MarkCall(a, cut) ==
    /\ At(a, "work")
    /\ MarkNeedsReconciliation(attempt[a].id)
    /\ attempt' = [attempt EXCEPT ![a] = [@ EXCEPT !.pc = IF cut THEN "save" ELSE "done", !.cut = cut]]
    /\ UNCHANGED <<stored, closed>>

\* saveAutonomiaIdempotentReplay: INSERT ... ON CONFLICT DO UPDATE, only over an expired
\* row of the same fingerprint.  A response above the limit leaves a tombstone.
Save(a, body) ==
    /\ At(a, "save")
    /\ LET c   == attempt[a]
           row == <<c.apiKey, c.key>>
       IN  stored' = IF /\ Replayable(c.apiKey, c.key)
                        /\ \/ stored[row].body = "none"
                           \/ stored[row].fingerprint = c.fingerprint /\ ~stored[row].live
                     THEN [stored EXCEPT ![row] = [request |-> c.id, fingerprint |-> c.fingerprint,
                                                   body |-> body, live |-> TRUE]]
                     ELSE stored
    /\ Goto(a, "done")
    /\ UNCHANGED <<vars, closed>>

\* The process dies, or an error ends the handler where it is: a failed markDispatched
\* is not refunded, a failed save is swallowed.
Stop(a) ==
    /\ attempt[a].pc \notin {"idle", "done"}
    /\ Goto(a, "done")
    /\ UNCHANGED <<vars, stored, closed>>

-----------------------------------------------------------------------------
(* Time and maintenance *)

\* The time to live of a stored response runs out.
Expire(k, i) ==
    /\ stored[<<k, i>>].live
    /\ stored' = [stored EXCEPT ![<<k, i>>].live = FALSE]
    /\ closed' = closed \cup {stored[<<k, i>>].request}
    /\ UNCHANGED <<vars, attempt>>

\* cleanupAutonomiaIdempotentReplays deletes the expired rows.
CleanupReplays ==
    /\ \E b \in DOMAIN stored : stored[b].body # "none" /\ ~stored[b].live
    /\ stored' = [b \in DOMAIN stored |-> IF stored[b].live THEN stored[b] ELSE NoResponse]
    /\ UNCHANGED <<vars, attempt, closed>>

\* A reservation outlives the handler that works on it (Inference: HeldWhileRunning);
\* one whose handler is gone reaches its deadline.
Abandoned(r) == \A a \in Attempts : attempt[a].id = r => attempt[a].pc \in {"save", "done"}

StoreStep ==
    /\ \/ \E r \in RequestIds : Abandoned(r) /\ PassDeadline(r)
       \/ \E m \in Maintainers : SweepStep(m)
    /\ UNCHANGED replayVars

AttemptStep(a) ==
    \/ \E k \in ApiKeys, i \in IdempotencyKeys \cup {NoKey}, f \in Fingerprints : Read(a, k, i, f)
    \/ \E amount \in Amounts : Refused(a, amount) \/ \E r \in RequestIds : ReserveCall(a, r, amount)
    \/ DispatchCall(a)
    \/ \E actual \in Costs, zeroUsage \in BOOLEAN, pc \in {"save", "done"} :
            SettleCall(a, actual, zeroUsage, pc)
    \/ RefundCall(a)
    \/ \E cut \in BOOLEAN : MarkCall(a, cut)
    \/ \E body \in ReplayRow \ {"none"} : Save(a, body)
    \/ Stop(a)

ReplayNext ==
    \/ \E a \in Attempts : AttemptStep(a)
    \/ \E k \in ApiKeys, i \in IdempotencyKeys : Expire(k, i)
    \/ CleanupReplays
    \/ StoreStep

ReplaySpec == ReplayInit /\ [][ReplayNext]_<<vars, replayVars>>

-----------------------------------------------------------------------------
(* Properties *)

\* The attempt that executes or executed request r.
Executes(a, r) == r # NoId /\ attempt[a].id = r

\* A replayed answer is the answer to the same question: same API key, idempotency key
\* and body, of a request that is over and was charged, unless its client cut it short.
\* (fingerprint check of readAutonomiaIdempotentReplay, save after settlement)
ReplaysAnswerTheSameRequest ==
    \A a \in Attempts : attempt[a].replayOf # NoId =>
        \E b \in Attempts :
            /\ Executes(b, attempt[a].replayOf)
            /\ attempt[b].apiKey = attempt[a].apiKey
            /\ attempt[b].key = attempt[a].key
            /\ attempt[b].fingerprint = attempt[a].fingerprint
            /\ request[attempt[b].id].status \notin {"reserved", "dispatched"}
            /\ request[attempt[b].id].status = "succeeded" \/ attempt[b].cut

\* However retries, crashes and expiries interleave, two attempts never execute under one
\* idempotency key of an API key at the same time.  (classifyIdempotentBinding)
NeverTwiceAtOnce ==
    \A a, b \in Attempts :
        /\ a # b /\ attempt[a].key # NoKey
        /\ attempt[a].apiKey = attempt[b].apiKey /\ attempt[a].key = attempt[b].key
        => ~(attempt[a].pc \in {"dispatch", "work"} /\ attempt[b].pc \in {"dispatch", "work"})

\* A stored response, expired or not, has the body of the request its key is bound to, so
\* the two conflict checks agree and a save never meets a row of another body: the save may
\* come long after the key was handed on.  (WHERE of saveAutonomiaIdempotentReplay)
StoredUnderItsBinding ==
    \A k \in ApiKeys, i \in IdempotencyKeys :
        stored[<<k, i>>].body # "none" =>
            \E q \in Bound(k, i) : request[q].fingerprint = stored[<<k, i>>].fingerprint

\* While a response or a tombstone is stored for a key, nothing is executed and nobody
\* pays under that key, also when it was stored after the retry looked for it.
NoExecutionWhileStored ==
    [][\A r \in RequestIds :
        request[r].status = "none" /\ request'[r].status # "none"
        => ~Live(request'[r].apiKey, request'[r].idempotencyKey)]_<<vars, replayVars>>

\* docs/openapi.yaml on an opt-in window: "resending a completed key with an identical body
\* replays the stored response (...) without a second execution or charge.  When the window
\* expires the key binding is released": a charged request loses its key only after that.
ReleasedOnlyAfterItsWindow ==
    [][\A q \in RequestIds :
        /\ request[q].status = "succeeded"
        /\ request'[q].idempotencyKey # request[q].idempotencyKey
        => q \in closed]_<<vars, replayVars>>

=============================================================================
