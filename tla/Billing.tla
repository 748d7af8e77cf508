------------------------------ MODULE Billing ------------------------------
(***************************************************************************)
(* The billing store of packages/core/src/billing.ts: the tables users     *)
(* (balance), ai_api_keys (spend counters), ai_requests, the reservations  *)
(* and the points ledger, and the transactions that move money between     *)
(* them.  A request reserves its estimated cost before the provider is     *)
(* called, and the reservation is later settled, refunded, or quarantined  *)
(* ("needs_reconciliation") and refunded by the maintenance sweep.         *)
(*                                                                         *)
(* A transaction is one atomic step: SQLite runs it under BEGIN IMMEDIATE  *)
(* (one writer), and on PostgreSQL every row it decides on is locked       *)
(* (SELECT ... FOR UPDATE, or the guarded UPDATE itself).  A call that     *)
(* changes nothing (a rejection, which throws inside the transaction and   *)
(* is rolled back, or a repeated settle) is a stuttering step here; the    *)
(* answer such a call gives is an operator, for the modules that compose   *)
(* the store with its callers.  Here the callers are the most general      *)
(* ones: any operation on any request at any time.                         *)
(***************************************************************************)
EXTENDS Integers, Sequences, FiniteSets, Sums

CONSTANTS
    Users,
    InitialBalance,     \* [Users -> Nat], users.balance_usd_micros when the account is provisioned
    ApiKeys,
    OwnerOf,            \* [ApiKeys -> Users]
    SpendLimit,         \* [ApiKeys -> Nat or NoLimit], ai_api_keys.spend_limit_usd_micros
    NoLimit,            \* the NULL spend limit
    ReplayOptIn,        \* [ApiKeys -> BOOLEAN], idempotency_replay_ttl_seconds > 0
    IdempotencyKeys,    \* values of the Idempotency-Key header
    NoKey,              \* the request has no idempotency key (NULL)
    Fingerprints,       \* SHA-256 digests of request bodies
    Amounts,            \* estimated costs a request may reserve
    Costs,              \* actual costs a caller may settle with
    MaxRequests,        \* bound: the number of requests ever reserved
    Maintainers,        \* processes that run the maintenance sweep
    BatchLimit,         \* rows one sweep handles (AUTONOMIA_RECONCILE_LIMIT)
    MaxAborts           \* bound: sweeps cut short by a database error or a restart

ASSUME BillingAssumption ==
    /\ InitialBalance \in [Users -> Nat]
    /\ OwnerOf \in [ApiKeys -> Users]
    /\ NoLimit \notin Nat
    /\ SpendLimit \in [ApiKeys -> Nat \cup {NoLimit}]
    /\ ReplayOptIn \in [ApiKeys -> BOOLEAN]
    /\ ApiKeys # {} /\ Fingerprints # {}
    /\ NoKey \notin IdempotencyKeys
    /\ Amounts \subseteq Nat
    /\ Costs \subseteq Nat
    /\ MaxRequests \in Nat
    /\ BatchLimit \in Nat \ {0}
    /\ MaxAborts \in Nat

VARIABLES
    balance,        \* [Users -> Nat]
    keyActive,      \* [ApiKeys -> BOOLEAN]: active, not revoked, not expired
    spendUsed,      \* [ApiKeys -> Nat]
    spendReserved,  \* [ApiKeys -> Nat]
    request,        \* [RequestIds -> ai_requests row]
    reservation,    \* [RequestIds -> ai_billing_reservations row]
    ledger,         \* [Users -> Seq(ledger_entries row)] in commit order
    sweep,          \* [Maintainers -> the phase and the rows a sweep still holds]
    aborts          \* sweeps cut short so far

money == <<balance, spendUsed, spendReserved, ledger>>
vars == <<balance, keyActive, spendUsed, spendReserved, request, reservation,
          ledger, sweep, aborts>>

(***************************************************************************)
(* Request identifiers are fresh random strings; here they are numbered in *)
(* the order in which they are reserved.                                   *)
(***************************************************************************)
RequestIds == 1..MaxRequests

\* "succeeded" also stands for "partially_succeeded": settle writes either, nothing tells them apart.
RequestStatus ==
    {"none", "reserved", "dispatched", "succeeded", "refunded", "needs_reconciliation"}

ReservationState == {"none", "reserved", "settled", "refunded", "needs_reconciliation"}

\* What readIdempotency's join finds in ai_idempotency_replays for the key:
\* no row alive ("none"), a stored response, or the oversized-response marker.
ReplayRow == {"none", "body", "tombstone"}

Request ==
    [status : RequestStatus, apiKey : ApiKeys, idempotencyKey : IdempotencyKeys \cup {NoKey},
     fingerprint : Fingerprints, reserved : Nat, charged : Nat, refunded : Nat,
     dispatched : BOOLEAN]

\* overdue: expires_at has passed ("reserved"), or updated_at is older than the
\* quarantine age ("needs_reconciliation").
Reservation ==
    [state : ReservationState, reserved : Nat, charged : Nat, refunded : Nat,
     overdue : BOOLEAN]

LedgerEntry ==
    [request : RequestIds, type : {"ai_usage_reservation", "ai_usage_refund"},
     amount : Nat, before : Nat, after : Nat]

Sweep == [phase : {"stale", "quarantine"}, rows : SUBSET (RequestIds \X BOOLEAN)]

TypeOK ==
    /\ balance \in [Users -> Nat]
    /\ keyActive \in [ApiKeys -> BOOLEAN]
    /\ spendUsed \in [ApiKeys -> Nat]
    /\ spendReserved \in [ApiKeys -> Nat]
    /\ request \in [RequestIds -> Request]
    /\ reservation \in [RequestIds -> Reservation]
    /\ ledger \in [Users -> Seq(LedgerEntry)]
    /\ sweep \in [Maintainers -> Sweep]
    /\ aborts \in 0..MaxAborts

NoRequest ==
    [status |-> "none", apiKey |-> CHOOSE k \in ApiKeys : TRUE, idempotencyKey |-> NoKey,
     fingerprint |-> CHOOSE f \in Fingerprints : TRUE, reserved |-> 0, charged |-> 0,
     refunded |-> 0, dispatched |-> FALSE]

NoReservation ==
    [state |-> "none", reserved |-> 0, charged |-> 0, refunded |-> 0, overdue |-> FALSE]

Init ==
    /\ balance = InitialBalance
    /\ keyActive = [k \in ApiKeys |-> TRUE]
    /\ spendUsed = [k \in ApiKeys |-> 0]
    /\ spendReserved = [k \in ApiKeys |-> 0]
    /\ request = [r \in RequestIds |-> NoRequest]
    /\ reservation = [r \in RequestIds |-> NoReservation]
    /\ ledger = [u \in Users |-> <<>>]
    /\ sweep = [m \in Maintainers |-> [phase |-> "quarantine", rows |-> {}]]
    /\ aborts = 0

-----------------------------------------------------------------------------
(* Helpers *)

Lesser(a, b) == IF a <= b THEN a ELSE b

\* The dialect's MAX(0, a - b).
Monus(a, b) == IF b <= a THEN a - b ELSE 0

UserOf(r) == OwnerOf[request[r].apiKey]

\* The row bound to an idempotency key: (api_key_id, idempotency_key) is unique.
Bound(k, i) ==
    {q \in RequestIds : /\ i # NoKey
                        /\ request[q].status # "none"
                        /\ request[q].apiKey = k
                        /\ request[q].idempotencyKey = i}

\* Mutant of BindingOutcome: an opted-in key whose stored response is missing is
\* "expired" before anyone looks whether its request is still running.
BindingOutcomeAnyStatus(q, row) ==
    IF ReplayOptIn[request[q].apiKey] /\ row = "none" THEN "expired" ELSE "replay"

\* classifyIdempotentBinding of the bound row q, given the joined replay row.
BindingOutcome(q, row) ==
    CASE ~ReplayOptIn[request[q].apiKey] -> "replay"
      [] ReplayOptIn[request[q].apiKey] /\ request[q].status \in {"reserved", "dispatched"} -> "replay"
      [] ReplayOptIn[request[q].apiKey] /\ request[q].status \notin {"reserved", "dispatched"} ->
            CASE row = "tombstone" -> "not_stored"
              [] row = "body" -> "replay"
              [] row = "none" -> "expired"

\* Mutant of Admission: requests in flight do not count against the spend limit.
AdmissionOnUsedOnly(k, amount) ==
    IF ~keyActive[k] THEN "invalid_api_key"
    ELSE IF SpendLimit[k] # NoLimit /\ SpendLimit[k] < spendUsed[k] + amount THEN "spend_limit_exceeded"
    ELSE IF balance[OwnerOf[k]] < amount THEN "insufficient_balance"
    ELSE "reserved"

\* The decision reserve takes from the key row and the user row.
Admission(k, amount) ==
    IF ~keyActive[k] THEN "invalid_api_key"
    ELSE IF /\ SpendLimit[k] # NoLimit
            /\ SpendLimit[k] < spendUsed[k] + spendReserved[k] + amount
         THEN "spend_limit_exceeded"
    ELSE IF balance[OwnerOf[k]] < amount THEN "insufficient_balance"
    ELSE "reserved"

\* What a reserve call answers: the binding of the key is looked at before the
\* insert, and a rejection is thrown only after it.
ReserveOutcome(k, i, f, amount, row) ==
    IF \E q \in Bound(k, i) : request[q].fingerprint # f THEN "idempotency_conflict"
    ELSE IF \E q \in Bound(k, i) : BindingOutcome(q, row) # "expired"
         THEN BindingOutcome(CHOOSE q \in Bound(k, i) : TRUE, row)
    ELSE Admission(k, amount)

\* The requests once the key i of API key k is released.
Unbound(k, i) ==
    [q \in RequestIds |-> IF q \in Bound(k, i) THEN [request[q] EXCEPT !.idempotencyKey = NoKey]
                          ELSE request[q]]

\* A ledger entry of user u and the balance it leaves; an amount of 0 posts nothing.
Post(u, r, type, amount) ==
    LET sign  == IF type = "ai_usage_reservation" THEN -1 ELSE 1
        after == balance[u] + sign * amount
        entry == [request |-> r, type |-> type, amount |-> amount,
                  before |-> balance[u], after |-> after]
    IN  /\ balance' = [balance EXCEPT ![u] = after]
        /\ ledger' = IF amount > 0 THEN [ledger EXCEPT ![u] = Append(@, entry)] ELSE ledger

-----------------------------------------------------------------------------
(* Operations of the store *)

\* reserve: the old binding of the key is released and the new row inserted in
\* the transaction that takes the money.
Reserve(r, k, i, f, amount, row) ==
    /\ request[r].status = "none"
    /\ ReserveOutcome(k, i, f, amount, row) = "reserved"
    /\ request' = [Unbound(k, i) EXCEPT
                    ![r] = [status |-> "reserved", apiKey |-> k, idempotencyKey |-> i,
                            fingerprint |-> f, reserved |-> amount, charged |-> 0,
                            refunded |-> 0, dispatched |-> FALSE]]
    /\ reservation' = [reservation EXCEPT
                        ![r] = [state |-> "reserved", reserved |-> amount, charged |-> 0,
                                refunded |-> 0, overdue |-> FALSE]]
    /\ spendReserved' = [spendReserved EXCEPT ![k] = @ + amount]
    /\ Post(OwnerOf[k], r, "ai_usage_reservation", amount)
    /\ UNCHANGED <<keyActive, spendUsed, sweep, aborts>>

\* markDispatched: a single guarded UPDATE.
MarkDispatched(r) ==
    /\ request[r].status = "reserved"
    /\ request' = [request EXCEPT ![r] = [@ EXCEPT !.status = "dispatched", !.dispatched = TRUE]]
    /\ UNCHANGED <<money, keyActive, reservation, sweep, aborts>>

\* Mutant of Settleable: settle does not look at the state of the reservation.
SettleableAnyState(r, actual, zeroUsage) ==
    /\ reservation[r].state # "none"
    /\ actual > 0 \/ reservation[r].reserved = 0 \/ zeroUsage

\* The WHERE clause of settle: a positive reservation settles at zero only when
\* the provider itself reported 0/0 tokens.
Settleable(r, actual, zeroUsage) ==
    /\ reservation[r].state = "reserved"
    /\ \/ actual > 0
       \/ reservation[r].reserved = 0
       \/ actual = 0 /\ zeroUsage

\* settle: charge at most what was reserved and give back the rest.
Settle(r, actual, zeroUsage) ==
    /\ Settleable(r, actual, zeroUsage)
    /\ LET held    == reservation[r].reserved
           charged == Lesser(actual, held)
           k       == request[r].apiKey
       IN  /\ reservation' = [reservation EXCEPT
                                ![r] = [state |-> "settled", reserved |-> held, charged |-> charged,
                                        refunded |-> held - charged, overdue |-> FALSE]]
           /\ spendReserved' = [spendReserved EXCEPT ![k] = Monus(@, request[r].reserved)]
           /\ spendUsed' = [spendUsed EXCEPT ![k] = @ + charged]
           /\ Post(UserOf(r), r, "ai_usage_refund", held - charged)
           /\ request' = [request EXCEPT
                            ![r] = [@ EXCEPT !.status = "succeeded", !.charged = charged,
                                             !.refunded = held - charged]]
    /\ UNCHANGED <<keyActive, sweep, aborts>>

\* The tables refundFromState changes: everything reserved goes back.
RefundRows(r) ==
    LET held == reservation[r].reserved
        k    == request[r].apiKey
    IN  /\ reservation' = [reservation EXCEPT
                            ![r] = [state |-> "refunded", reserved |-> held, charged |-> 0,
                                    refunded |-> held, overdue |-> FALSE]]
        /\ spendReserved' = [spendReserved EXCEPT ![k] = Monus(@, request[r].reserved)]
        /\ Post(UserOf(r), r, "ai_usage_refund", held)
        /\ request' = [request EXCEPT
                         ![r] = [@ EXCEPT !.status = "refunded", !.charged = 0, !.refunded = held]]
        /\ UNCHANGED <<keyActive, spendUsed, aborts>>

\* Mutant of Refund: any reservation is refunded.
RefundAnyState(r) == reservation[r].state # "none" /\ RefundRows(r) /\ UNCHANGED sweep

Refund(r) ==
    /\ reservation[r].state = "reserved"
    /\ RefundRows(r)
    /\ UNCHANGED sweep

\* The tables markNeedsReconciliation changes: no money moves.
QuarantineRows(r) ==
    /\ reservation' = [reservation EXCEPT
                        ![r] = [@ EXCEPT !.state = "needs_reconciliation", !.overdue = FALSE]]
    /\ request' = [request EXCEPT ![r] = [@ EXCEPT !.status = "needs_reconciliation"]]
    /\ UNCHANGED <<money, keyActive, aborts>>

MarkNeedsReconciliation(r) ==
    /\ reservation[r].state = "reserved"
    /\ QuarantineRows(r)
    /\ UNCHANGED sweep

RevokeKey(k) ==
    /\ keyActive[k]
    /\ keyActive' = [keyActive EXCEPT ![k] = FALSE]
    /\ UNCHANGED <<money, request, reservation, sweep, aborts>>

\* The clock reaches expires_at, or the age at which a quarantine is resolved.
PassDeadline(r) ==
    /\ reservation[r].state \in {"reserved", "needs_reconciliation"}
    /\ ~reservation[r].overdue
    /\ reservation' = [reservation EXCEPT ![r] = [@ EXCEPT !.overdue = TRUE]]
    /\ UNCHANGED <<money, keyActive, request, sweep, aborts>>

-----------------------------------------------------------------------------
(* The maintenance sweep: reconcileStale, then resolveQuarantined.  Each    *)
(* SELECTs its rows, then handles them one transaction at a time.           *)

\* Mutant of OverdueIn: the second SELECT misses the quarantined rows.
OverdueReserved(state) ==
    {<<r, request[r].dispatched>> : r \in {q \in RequestIds : /\ reservation[q].state = "reserved"
                                                              /\ reservation[q].overdue}}

OverdueIn(state) ==
    {<<r, request[r].dispatched>> : r \in {q \in RequestIds : /\ reservation[q].state = state
                                                              /\ reservation[q].overdue}}

\* A SELECT ... LIMIT: all rows, or any BatchLimit of them.
Batches(rows) ==
    {b \in SUBSET rows : Cardinality(b) = Lesser(BatchLimit, Cardinality(rows))}

ReadStale(m) ==
    /\ sweep[m].phase = "quarantine" /\ sweep[m].rows = {}
    /\ \E b \in Batches(OverdueIn("reserved")) :
            sweep' = [sweep EXCEPT ![m] = [phase |-> "stale", rows |-> b]]
    /\ UNCHANGED <<money, keyActive, request, reservation, aborts>>

\* One row of reconcileStale.  The branch is taken on dispatched_at as it was
\* when the row was SELECTed; a row that changed meanwhile is skipped.
ReconcileRow(m, r, wasDispatched) ==
    /\ sweep[m].phase = "stale"
    /\ <<r, wasDispatched>> \in sweep[m].rows
    /\ sweep' = [sweep EXCEPT ![m].rows = @ \ {<<r, wasDispatched>>}]
    /\ IF reservation[r].state # "reserved"
       THEN UNCHANGED <<money, keyActive, request, reservation, aborts>>
       ELSE IF wasDispatched THEN QuarantineRows(r) ELSE RefundRows(r)

ReadQuarantined(m) ==
    /\ sweep[m].phase = "stale" /\ sweep[m].rows = {}
    /\ \E b \in Batches(OverdueIn("needs_reconciliation")) :
            sweep' = [sweep EXCEPT ![m] = [phase |-> "quarantine", rows |-> b]]
    /\ UNCHANGED <<money, keyActive, request, reservation, aborts>>

\* One row of resolveQuarantined.
ResolveRow(m, r, wasDispatched) ==
    /\ sweep[m].phase = "quarantine"
    /\ <<r, wasDispatched>> \in sweep[m].rows
    /\ sweep' = [sweep EXCEPT ![m].rows = @ \ {<<r, wasDispatched>>}]
    /\ IF reservation[r].state = "needs_reconciliation"
       THEN RefundRows(r)
       ELSE UNCHANGED <<money, keyActive, request, reservation, aborts>>

\* An error that is not a state conflict, or a restart, drops the rest of the
\* sweep; the next period starts over.
AbortSweep(m) ==
    /\ aborts < MaxAborts
    /\ sweep[m].rows # {}
    /\ sweep' = [sweep EXCEPT ![m] = [phase |-> "quarantine", rows |-> {}]]
    /\ aborts' = aborts + 1
    /\ UNCHANGED <<money, keyActive, request, reservation>>

SweepStep(m) ==
    \/ ReadStale(m)
    \/ ReadQuarantined(m)
    \/ \E r \in RequestIds, d \in BOOLEAN : ReconcileRow(m, r, d) \/ ResolveRow(m, r, d)

-----------------------------------------------------------------------------

\* The next request to be numbered.
Fresh(r) == request[r].status = "none" /\ \A q \in 1..(r - 1) : request[q].status # "none"

Next ==
    \/ \E r \in RequestIds, k \in ApiKeys, i \in IdempotencyKeys \cup {NoKey},
          f \in Fingerprints, amount \in Amounts, row \in ReplayRow :
            Fresh(r) /\ Reserve(r, k, i, f, amount, row)
    \/ \E r \in RequestIds :
            \/ MarkDispatched(r)
            \/ Refund(r)
            \/ MarkNeedsReconciliation(r)
            \/ PassDeadline(r)
            \/ \E actual \in Costs, zeroUsage \in BOOLEAN : Settle(r, actual, zeroUsage)
    \/ \E k \in ApiKeys : RevokeKey(k)
    \/ \E m \in Maintainers : SweepStep(m) \/ AbortSweep(m)

Spec == Init /\ [][Next]_vars

\* Time passes, and each maintenance loop keeps running.
Fairness ==
    /\ \A r \in RequestIds : WF_vars(PassDeadline(r))
    /\ \A m \in Maintainers : WF_vars(SweepStep(m))

FairSpec == Spec /\ Fairness

-----------------------------------------------------------------------------
(* Properties *)

Held(r) == IF reservation[r].state \in {"reserved", "needs_reconciliation"}
           THEN reservation[r].reserved ELSE 0

HeldThrough(k) == [r \in RequestIds |-> IF request[r].apiKey = k THEN Held(r) ELSE 0]

ChargedThrough(k) ==
    [r \in RequestIds |-> IF request[r].apiKey = k THEN reservation[r].charged ELSE 0]

TakenFrom(u) ==
    [r \in RequestIds |-> IF UserOf(r) = u THEN Held(r) + reservation[r].charged ELSE 0]

\* No points appear or vanish: whatever left a user's balance is held by an open
\* reservation or was charged, across reserve, settle, refund and both sweeps.
MoneyConserved ==
    \A u \in Users : balance[u] + Total(TakenFrom(u), MaxRequests) = InitialBalance[u]

\* The key's counters are the sums of its reservations: the MAX(0, ...) clamp of
\* settle and refund never hides a double release.
KeyCountersMatch ==
    \A k \in ApiKeys :
        /\ spendReserved[k] = Total(HeldThrough(k), MaxRequests)
        /\ spendUsed[k] = Total(ChargedThrough(k), MaxRequests)

\* Concurrent requests of one key never commit the key beyond its spend limit,
\* although the actual cost of each is only known after it was admitted.
SpendWithinLimit ==
    \A k \in ApiKeys :
        SpendLimit[k] # NoLimit => spendUsed[k] + spendReserved[k] <= SpendLimit[k]

\* The ledger of a user is a chain that starts at the first balance, ends at the
\* current one, and in which each entry continues the one before.
LedgerExplainsBalance ==
    \A u \in Users :
        LET log == ledger[u]
        IN  /\ log = <<>> => balance[u] = InitialBalance[u]
            /\ log # <<>> => /\ log[1].before = InitialBalance[u]
                             /\ log[Len(log)].after = balance[u]
            /\ \A n \in 1..Len(log) :
                 log[n].after = IF log[n].type = "ai_usage_refund"
                                THEN log[n].before + log[n].amount
                                ELSE log[n].before - log[n].amount
            /\ \A n \in 1..(Len(log) - 1) : log[n + 1].before = log[n].after

\* ai_requests and its reservation tell the same story in every state: same amounts,
\* and a status that matches the reservation's.
RowsCoherent ==
    \A r \in RequestIds :
        LET q == request[r]
            v == reservation[r]
        IN  /\ q.reserved = v.reserved /\ q.charged = v.charged /\ q.refunded = v.refunded
            /\ <<q.status, v.state>> \in
                 {<<"none", "none">>, <<"reserved", "reserved">>, <<"dispatched", "reserved">>,
                  <<"succeeded", "settled">>, <<"refunded", "refunded">>,
                  <<"needs_reconciliation", "needs_reconciliation">>}
            /\ v.charged + v.refunded =
                 IF v.state \in {"settled", "refunded"} THEN v.reserved ELSE 0

\* Every request is debited once for what it reserved and credited at most once, for
\* exactly what its reservation says was given back.
LedgerMatchesRequests ==
    \A u \in Users : \A n \in 1..Len(ledger[u]) :
        LET e == ledger[u][n]
        IN  /\ UserOf(e.request) = u
            /\ e.amount = IF e.type = "ai_usage_refund"
                          THEN reservation[e.request].refunded
                          ELSE reservation[e.request].reserved
            /\ \A o \in 1..(n - 1) :
                 <<ledger[u][o].request, ledger[u][o].type>> # <<e.request, e.type>>
            /\ e.type = "ai_usage_refund" =>
                 \E o \in 1..(n - 1) : /\ ledger[u][o].request = e.request
                                       /\ ledger[u][o].type = "ai_usage_reservation"

\* At most one request is bound to an idempotency key of an API key.
OneBindingPerKey ==
    \A k \in ApiKeys, i \in IdempotencyKeys : Cardinality(Bound(k, i)) <= 1

\* A key is taken from a request only when the request is over and its API key opted
\* in to replays: one in progress is never executed a second time under its key.
BindingKeptWhileInProgress ==
    [][\A r \in RequestIds :
        request[r].status # "none" /\ request'[r].idempotencyKey # request[r].idempotencyKey
        => /\ request[r].status \notin {"reserved", "dispatched"}
           /\ ReplayOptIn[request[r].apiKey]]_vars

\* A released key is never free: the step that takes it from an ended request gives it
\* to a new request of the same API key with the same body.
KeyHandedOver ==
    [][\A q \in RequestIds :
        request[q].idempotencyKey # NoKey /\ request'[q].idempotencyKey # request[q].idempotencyKey
        => \E r \in RequestIds :
             /\ request[r].status = "none" /\ request'[r].status = "reserved"
             /\ request'[r].apiKey = request[q].apiKey
             /\ request'[r].idempotencyKey = request[q].idempotencyKey
             /\ request'[r].fingerprint = request[q].fingerprint]_vars

FinalRowsKept ==
    \A r \in RequestIds :
        reservation[r].state \in {"settled", "refunded"}
        => /\ reservation'[r] = reservation[r]
           /\ request'[r] = [request[r] EXCEPT !.idempotencyKey = request'[r].idempotencyKey]

\* A settled or refunded reservation is final: no later call, late answer or sweep
\* charges it, gives it back or changes its outcome again.
FinalIsFinal == [][FinalRowsKept]_vars

\* No reservation keeps a user's points for ever, even if the caller that made it is
\* gone: the sweep refunds it, directly or after quarantine.
EveryHoldResolves ==
    \A r \in RequestIds :
        reservation[r].state \in {"reserved", "needs_reconciliation"}
        ~> reservation[r].state \in {"settled", "refunded"}

-----------------------------------------------------------------------------
(* The store implements SpendHold: quarantine, deadlines and sweeps are invisible *)
(* to it, and the counters of the key add up to what it committed.                *)

HoldState(state) ==
    CASE state = "none" -> "none"
      [] state \in {"reserved", "needs_reconciliation"} -> "held"
      [] state = "settled" -> "charged"
      [] state = "refunded" -> "released"

Holds == INSTANCE SpendHold WITH
    HoldIds <- RequestIds,
    wallet <- balance,
    committed <- [k \in ApiKeys |-> spendUsed[k] + spendReserved[k]],
    hold <- [r \in RequestIds |-> [state |-> HoldState(reservation[r].state),
                                   key |-> request[r].apiKey,
                                   amount |-> reservation[r].reserved,
                                   charged |-> reservation[r].charged]]

\* Every operation of the store is one step of SpendHold, or invisible to it.
ImplementsSpendHold == Holds!Spec

=============================================================================
