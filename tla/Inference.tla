----------------------------- MODULE Inference -----------------------------
(***************************************************************************)
(* The inference runtime of packages/core/src/inference.ts as the callers  *)
(* of the billing store: reserve, mark the request dispatched, try         *)
(* provider credentials route by route, release each, and then settle,     *)
(* refund or quarantine the reservation.  A JSON call ends with its        *)
(* answer; a stream goes on in the reader loop of aiPublic.ts, which the   *)
(* client may cancel at any moment.                                        *)
(*                                                                         *)
(* A handler runs one request, one await per step, beside the other        *)
(* handlers, the maintenance sweep and the clock.  A database step may     *)
(* fail without effect, or commit and lose its answer.  The clock is       *)
(* coarse: what matters is whether one more attempt and the settlement     *)
(* buffer fit before the reservation expires.  It does not run past a      *)
(* provider timeout before the handler has seen it, and the database steps *)
(* around one provider call take less than the settlement buffer; both are *)
(* assumptions of the code (a timer fires when it is due; the buffer is    *)
(* enough to settle).                                                      *)
(***************************************************************************)
EXTENDS Billing

CONSTANTS
    Handlers,           \* requests being handled; a handler handles one
    Credentials,
    NoCredential,
    NoId,               \* the handler knows no reservation
    PoolOf,             \* Seq(SUBSET Credentials): the pool of each candidate route
    TimeoutOf,          \* Seq(Nat \ {0}): timeout_ms of each candidate route
    MaxAttempts,        \* MAX_PROVIDER_ATTEMPTS
    Ttl,                \* expiresAt - now when a request is prepared
    Buffer,             \* SETTLEMENT_BUFFER_MS
    MaxTime,            \* bound: the clock stops here
    MaxFaults,          \* bound: failed database steps
    MaxCrashes          \* bound: restarts of the process

ASSUME InferenceAssumption ==
    /\ NoCredential \notin Credentials
    /\ NoId \notin RequestIds
    /\ PoolOf \in Seq(SUBSET Credentials)
    /\ TimeoutOf \in Seq(Nat \ {0}) /\ Len(TimeoutOf) = Len(PoolOf)
    /\ {MaxAttempts, Ttl, Buffer, MaxTime, MaxFaults, MaxCrashes} \subseteq Nat
    /\ Buffer > 0

VARIABLES
    call,       \* [Handlers -> Call]
    leases,     \* SUBSET Leases: credential leases that were taken and not released
    expires,    \* [RequestIds -> Nat]: ai_billing_reservations.expires_at
    now,
    faults, crashes

handlerVars == <<call, leases, expires, now, faults, crashes>>
inferenceVars == <<vars, handlerVars>>

\* The await a handler is at.  From "claim" to "settle" it is inside one attempt.
Steps == {"idle", "reserve", "dispatch", "attempt", "claim", "audit", "calling", "streaming",
          "release", "settle", "refund", "mark", "done"}

Attempting == {"claim", "audit", "calling", "streaming", "release", "settle"}

\* What the last attempt threw: fallback allowed, usage certainly zero, or usage unknown.
Errors == {"none", "retry", "clean", "unknown"}

Call ==
    [pc : Steps, stream : BOOLEAN, id : RequestIds \cup {NoId}, deadline : Nat,
     route : 1..(Len(PoolOf) + 1), tried : SUBSET Credentials, attempts : 0..MaxAttempts,
     claim : Credentials \cup {NoCredential}, error : Errors,
     ends : Nat,                                \* when the provider timeout of this attempt fires
     slack : 0..Buffer,                         \* clock ticks this attempt spent outside the provider
     terminal : {"none", "finalize", "fail"},   \* who set streamContext.terminalPromise
     reading : BOOLEAN,                         \* the reader loop is still awaiting stream events
     usage : BOOLEAN,                           \* streamContext.receivedUsage
     chargeable : BOOLEAN,                      \* ghost: the stream reached [DONE], or ended with its usage known
     consumed : BOOLEAN,                        \* ghost: the provider did work for this request
     faulty : BOOLEAN,                          \* ghost: a database step failed or the process died
     refused : BOOLEAN,                         \* ghost: the reported usage has no cost that can be charged
     left : SUBSET (0..MaxAttempts),            \* ghost: the attempts whose lease nobody will release
     outcome : {"none", "ok", "rejected", "error"}]

\* A lease is one handler's, of one credential, for one attempt: two attempts of a request
\* (of two routes that share a pool) may lease the same credential.
Leases == Handlers \X Credentials \X (0..MaxAttempts)

InferenceTypeOK ==
    /\ TypeOK
    /\ call \in [Handlers -> Call]
    /\ leases \subseteq Leases
    /\ expires \in [RequestIds -> Nat]
    /\ now \in 0..MaxTime
    /\ faults \in 0..MaxFaults
    /\ crashes \in 0..MaxCrashes

IdleCall ==
    [pc |-> "idle", stream |-> FALSE, id |-> NoId, deadline |-> 0, route |-> 1, tried |-> {},
     attempts |-> 0, claim |-> NoCredential, error |-> "none", ends |-> 0, slack |-> 0,
     terminal |-> "none", reading |-> FALSE, usage |-> FALSE, chargeable |-> FALSE,
     consumed |-> FALSE, faulty |-> FALSE, refused |-> FALSE, left |-> {}, outcome |-> "none"]

InferenceInit ==
    /\ Init
    /\ call = [h \in Handlers |-> IdleCall]
    /\ leases = {}
    /\ expires = [r \in RequestIds |-> 0]
    /\ now = 0 /\ faults = 0 /\ crashes = 0

-----------------------------------------------------------------------------
(* Helpers *)

At(h, step) == call[h].pc = step

\* The handler takes a step without touching the store.
Local(h, next) ==
    /\ call' = [call EXCEPT ![h] = next]
    /\ UNCHANGED <<vars, expires, now, faults, crashes>>

\* A step of the store changes call only.
Stored(h, next) ==
    /\ call' = [call EXCEPT ![h] = next]
    /\ UNCHANGED <<leases, expires, now, faults, crashes>>

\* A database step of the handler fails: next is where its error takes the handler.
DbFault(h, next) ==
    /\ faults < MaxFaults
    /\ faults' = faults + 1
    /\ call' = [call EXCEPT ![h] = [next EXCEPT !.faulty = TRUE]]
    /\ UNCHANGED <<leases, expires, now, crashes>>

Goto(h, step) == [call[h] EXCEPT !.pc = step]

Answer(h, outcome) == [call[h] EXCEPT !.pc = "done", !.outcome = outcome]

-----------------------------------------------------------------------------
(* Reserve and dispatch *)

\* The route prepared the request; a later retry of the client is another handler.
Prepare(h, stream) ==
    /\ At(h, "idle")
    /\ now + Ttl <= MaxTime
    /\ Local(h, [call[h] EXCEPT !.pc = "reserve", !.stream = stream, !.deadline = now + Ttl])
    /\ UNCHANGED leases

\* billing.reserve: granted, refused, failed, or granted without the handler knowing.
ReserveCall(h, r, k, i, f, amount, row) ==
    /\ At(h, "reserve")
    /\ Fresh(r)
    /\ \/ /\ Reserve(r, k, i, f, amount, row)
          /\ expires' = [expires EXCEPT ![r] = call[h].deadline]
          /\ \/ /\ call' = [call EXCEPT ![h] = [@ EXCEPT !.pc = "dispatch", !.id = r]]
                /\ UNCHANGED <<leases, now, faults, crashes>>
             \/ /\ faults < MaxFaults /\ faults' = faults + 1
                /\ call' = [call EXCEPT ![h] = [Answer(h, "error") EXCEPT !.faulty = TRUE]]
                /\ UNCHANGED <<leases, now, crashes>>
       \/ /\ ReserveOutcome(k, i, f, amount, row) # "reserved"
          /\ Local(h, Answer(h, "rejected"))
          /\ UNCHANGED leases

\* markDispatched, whose answer is ignored; when it fails nobody refunds.
DispatchCall(h) ==
    /\ At(h, "dispatch")
    /\ IF request[call[h].id].status = "reserved" THEN MarkDispatched(call[h].id) ELSE UNCHANGED vars
    /\ Stored(h, Goto(h, "attempt")) \/ DbFault(h, Answer(h, "error"))

\* reserve or markDispatched fails without effect: the error leaves the runtime as it is.
ReserveFails(h) ==
    /\ At(h, "reserve") \/ At(h, "dispatch")
    /\ DbFault(h, Answer(h, "error"))
    /\ UNCHANGED vars

-----------------------------------------------------------------------------
(* The attempt loop *)

\* Mutant of FitsReservation: the first attempt is exempt from the check.
FitsUnlessFirst(h) ==
    call[h].attempts = 0 \/ now + TimeoutOf[call[h].route] + Buffer <= call[h].deadline

\* One more attempt of the route, and its settlement, fit before the reservation expires.
FitsReservation(h) == now + TimeoutOf[call[h].route] + Buffer <= call[h].deadline

\* The head of the loop: claim for this route, go on to the next, or give up.  Giving
\* up rethrows the last error, always a certain one: the request is refunded.
NextAttempt(h) ==
    /\ At(h, "attempt")
    /\ LET c == call[h]
       IN  Local(h, IF c.route > Len(PoolOf) \/ c.attempts >= MaxAttempts THEN Goto(h, "refund")
                    ELSE IF FitsReservation(h) THEN [c EXCEPT !.pc = "claim", !.slack = 0]
                    ELSE [c EXCEPT !.route = @ + 1, !.tried = {}])
    /\ UNCHANGED leases

\* claimCredential leases a credential of the pool that was not tried yet.
Claim(h, c) ==
    /\ At(h, "claim")
    /\ c \in PoolOf[call[h].route] \ call[h].tried
    /\ leases' = leases \cup {<<h, c, call[h].attempts + 1>>}
    /\ Local(h, [call[h] EXCEPT !.pc = "audit", !.claim = c, !.tried = @ \cup {c}, !.attempts = @ + 1])

\* No credential of the pool is free: the next route.
NothingToClaim(h) ==
    /\ At(h, "claim")
    /\ Local(h, [call[h] EXCEPT !.pc = "attempt", !.route = @ + 1, !.tried = {}])
    /\ UNCHANGED leases

\* The claim throws without having leased anything: nothing was consumed.
ClaimFails(h) ==
    /\ At(h, "claim")
    /\ DbFault(h, Goto(h, "refund"))
    /\ UNCHANGED vars

\* The claim commits and its answer is lost: the handler, which knows of no lease, refunds
\* as well and leaves the lease to expire.
ClaimLost(h, c) ==
    /\ At(h, "claim")
    /\ c \in PoolOf[call[h].route] \ call[h].tried
    /\ faults < MaxFaults /\ faults' = faults + 1
    /\ leases' = leases \cup {<<h, c, call[h].attempts + 1>>}
    /\ call' = [call EXCEPT ![h] = [Goto(h, "refund") EXCEPT !.faulty = TRUE,
                                                            !.left = @ \cup {call[h].attempts + 1}]]
    /\ UNCHANGED <<vars, expires, now, crashes>>

\* attempts.start, then the request goes out with the timeout of the route.
StartAttempt(h) ==
    /\ At(h, "audit")
    /\ Local(h, [call[h] EXCEPT !.pc = "calling", !.ends = now + TimeoutOf[call[h].route]])
    /\ UNCHANGED leases

\* Mutant of AuditFails: the lease is forgotten when there is no audit row.
AuditFailsForgetting(h) ==
    /\ At(h, "audit")
    /\ DbFault(h, [Goto(h, "refund") EXCEPT !.error = "clean", !.claim = NoCredential])
    /\ UNCHANGED vars

\* Without an audit row the provider is not called.
AuditFails(h) ==
    /\ At(h, "audit")
    /\ DbFault(h, [Goto(h, "release") EXCEPT !.error = "clean"])
    /\ UNCHANGED vars

\* An error status: the fallback statuses allow another credential, the others do not.
ProviderRejects(h, error) ==
    /\ At(h, "calling")
    /\ Local(h, [Goto(h, "release") EXCEPT !.error = error])
    /\ UNCHANGED leases

\* The transport breaks, the body is invalid, the client aborts: nobody knows what was used.
ProviderUnknown(h, consumed) ==
    /\ At(h, "calling")
    /\ Local(h, [Goto(h, "release") EXCEPT !.error = "unknown", !.consumed = consumed])
    /\ UNCHANGED leases

ProviderAnswers(h) ==
    /\ At(h, "calling")
    /\ Local(h, [call[h] EXCEPT !.pc = IF call[h].stream THEN "streaming" ELSE "release",
                                !.reading = call[h].stream, !.error = "none", !.consumed = TRUE])
    /\ UNCHANGED leases

-----------------------------------------------------------------------------
(* The stream, read by the loop in aiPublic.ts *)

\* A chunk with the usage report; other chunks change nothing that matters here.
StreamUsage(h) ==
    /\ At(h, "streaming") /\ ~call[h].usage
    /\ Local(h, [call[h] EXCEPT !.usage = TRUE])
    /\ UNCHANGED leases

\* finalizeStream and failStream: the first of them decides how the stream ends.
EndStream(h, terminal, reading) ==
    /\ Local(h, [Goto(h, "release") EXCEPT !.terminal = terminal, !.reading = reading,
                         !.chargeable = @ \/ terminal = "finalize" \/ call[h].usage])
    /\ UNCHANGED leases

StreamDone(h) == At(h, "streaming") /\ EndStream(h, "finalize", FALSE)

\* Invalid JSON, an end without [DONE], an aborted request.
StreamBreaks(h) == At(h, "streaming") /\ EndStream(h, "fail", FALSE)

\* Mutant of ClientCancels: a cancel starts the failure path although the stream
\* is being finalized (terminalPromise is not remembered).
ClientCancelsAnyTime(h) ==
    /\ call[h].stream /\ call[h].terminal # "fail"
    /\ At(h, "streaming") \/ (call[h].terminal = "finalize" /\ (At(h, "release") \/ At(h, "settle")))
    /\ EndStream(h, "fail", TRUE)

\* The client closes the connection; the reader loop is not told.  Once terminalPromise
\* is set this changes nothing.
ClientCancels(h) == At(h, "streaming") /\ EndStream(h, "fail", TRUE)

\* After a cancel the loop still gets the chunk that was already there, records its
\* usage, and dies on the closed controller.
LateUsage(h) ==
    /\ call[h].reading /\ call[h].terminal = "fail" /\ ~At(h, "done")
    /\ Local(h, [call[h] EXCEPT !.usage = TRUE, !.reading = FALSE])
    /\ UNCHANGED leases

\* Mutant of ProviderTimeout: the timer is cleared once the headers are there.
ProviderTimeoutHeadersOnly(h) ==
    /\ At(h, "calling") /\ now >= call[h].ends
    /\ \E consumed \in BOOLEAN : ProviderUnknown(h, consumed)

\* The timer of timeoutSignal fires: for a stream it covers the whole body.
ProviderTimeout(h) ==
    /\ now >= call[h].ends
    /\ StreamBreaks(h) \/ \E consumed \in BOOLEAN : ProviderUnknown(h, consumed)

-----------------------------------------------------------------------------
(* Release, then the money *)

\* Mutant of AfterRelease: a call whose usage is unknown is refunded like the others.
AfterReleaseRefunding(h) ==
    LET c == call[h]
    IN  [c EXCEPT !.claim = NoCredential, !.ends = 0,
                  !.pc = CASE c.error = "retry" -> "attempt"
                           [] c.error \in {"clean", "unknown"} -> "refund"
                           [] c.error = "none" ->
                                IF c.terminal = "fail" /\ ~c.usage THEN "mark" ELSE "settle"]

\* Where the handler goes once the lease is dealt with.  A failed stream reads
\* receivedUsage only now, after the awaits of failStream.
AfterRelease(h) ==
    LET c == call[h]
    IN  [c EXCEPT !.claim = NoCredential, !.ends = 0,
                  !.pc = CASE c.error = "retry" -> "attempt"
                           [] c.error = "clean" -> "refund"
                           [] c.error = "unknown" -> "mark"
                           [] c.error = "none" ->
                                IF c.terminal = "fail" /\ ~c.usage THEN "mark" ELSE "settle"]

\* The lease of the attempt in progress.
Lease(h) == <<h, call[h].claim, call[h].attempts>>

Release(h) ==
    /\ At(h, "release")
    /\ leases' = leases \ {Lease(h)}
    /\ Local(h, AfterRelease(h))

\* A failed release is swallowed: the lease is left to expire.
ReleaseFails(h) ==
    /\ At(h, "release")
    /\ DbFault(h, [AfterRelease(h) EXCEPT !.left = @ \cup {call[h].attempts}])
    /\ UNCHANGED vars

\* A free model costs nothing; an estimate of a priced one is never zero.  A stream is
\* settled with the provider's usage when it reported one.  Only a provider reports zero
\* tokens, and reported tokens may cost nothing all the same (a model whose input is free).
Plausible(h, actual, estimated, zeroUsage) ==
    /\ request[call[h].id].reserved = 0 => actual = 0
    /\ request[call[h].id].reserved > 0 /\ estimated => actual > 0
    /\ call[h].stream => estimated = ~call[h].usage
    /\ zeroUsage => actual = 0 /\ ~estimated

\* settle; when it refuses the usage, cannot be made, or its answer is lost, the reservation
\* is marked.
SettleCall(h, actual, estimated, zeroUsage) ==
    /\ At(h, "settle")
    /\ Plausible(h, actual, estimated, zeroUsage)
    /\ LET answer == Answer(h, IF call[h].terminal = "fail" THEN "error" ELSE "ok")
           state  == reservation[call[h].id].state
       IN  \/ /\ Settle(call[h].id, actual, zeroUsage)
              /\ Stored(h, answer) \/ DbFault(h, Goto(h, "mark"))
           \/ /\ ~Settleable(call[h].id, actual, zeroUsage)
              /\ UNCHANGED vars
              /\ Stored(h, IF state = "settled" THEN answer
                           ELSE [Goto(h, "mark") EXCEPT !.refused = (state = "reserved")])

\* calculateActualCostMicros throws: the tokens the provider reported cost more than a safe
\* integer can say.
CostOverflows(h) ==
    /\ At(h, "settle")
    /\ request[call[h].id].reserved > 0
    /\ call[h].stream => call[h].usage
    /\ Local(h, [Goto(h, "mark") EXCEPT !.refused = TRUE])
    /\ UNCHANGED leases

\* refund after an error that certainly cost nothing; a reservation the sweep took is left alone.
RefundCall(h) ==
    /\ At(h, "refund")
    /\ IF reservation[call[h].id].state = "reserved" THEN Refund(call[h].id) ELSE UNCHANGED vars
    /\ Stored(h, Answer(h, "error"))

\* markNeedsReconciliation when usage is unknown or the settlement failed.
MarkCall(h) ==
    /\ At(h, "mark")
    /\ IF reservation[call[h].id].state = "reserved" THEN MarkNeedsReconciliation(call[h].id)
       ELSE UNCHANGED vars
    /\ Stored(h, Answer(h, "error"))

\* Mutant of MoneyFails: an error of settle is swallowed.
MoneyFailsSilently(h) ==
    /\ \/ At(h, "settle") /\ DbFault(h, Answer(h, "ok"))
       \/ At(h, "refund") /\ DbFault(h, Answer(h, "error"))
       \/ At(h, "mark") /\ DbFault(h, Answer(h, "error"))
    /\ UNCHANGED vars

\* The database fails without effect.
MoneyFails(h) ==
    /\ \/ At(h, "settle") /\ DbFault(h, Goto(h, "mark"))
       \/ At(h, "refund") /\ DbFault(h, Answer(h, "error"))
       \/ At(h, "mark") /\ DbFault(h, Answer(h, "error"))
    /\ UNCHANGED vars

-----------------------------------------------------------------------------
(* The process and the clock *)

\* The process that handles the request dies; its lease and its reservation stay.
Crash(h) ==
    /\ crashes < MaxCrashes
    /\ ~At(h, "idle") /\ ~At(h, "done")
    /\ crashes' = crashes + 1
    /\ call' = [call EXCEPT ![h] = [Answer(h, "error") EXCEPT !.faulty = TRUE,
                   !.left = IF call[h].claim = NoCredential THEN @ ELSE @ \cup {call[h].attempts}]]
    /\ UNCHANGED <<vars, leases, expires, now, faults>>

\* Inside an attempt but not waiting for the provider.
InDatabase(h) == call[h].pc \in Attempting \ {"calling", "streaming"}

Tick ==
    /\ now < MaxTime
    /\ \A h \in Handlers :
         /\ At(h, "calling") \/ At(h, "streaming") => now < call[h].ends
         /\ InDatabase(h) => call[h].slack + 1 < Buffer
    /\ now' = now + 1
    /\ call' = [h \in Handlers |-> IF InDatabase(h) THEN [call[h] EXCEPT !.slack = @ + 1] ELSE call[h]]
    /\ UNCHANGED <<vars, leases, expires, faults, crashes>>

\* A reservation is overdue when its time has come; a quarantined one waits for its age.
Overdue(r) ==
    /\ reservation[r].state = "reserved" => expires[r] <= now
    /\ PassDeadline(r)
    /\ UNCHANGED handlerVars

Sweeping(m) == SweepStep(m) /\ UNCHANGED handlerVars

\* What the handler and its timer do by themselves.
HandlerStep(h) ==
    \/ \E r \in RequestIds, k \in ApiKeys, i \in IdempotencyKeys \cup {NoKey},
          f \in Fingerprints, amount \in Amounts, row \in ReplayRow :
            ReserveCall(h, r, k, i, f, amount, row)
    \/ DispatchCall(h) \/ NextAttempt(h)
    \/ NothingToClaim(h) \/ \E c \in Credentials : Claim(h, c)
    \/ StartAttempt(h) \/ ProviderTimeout(h) \/ Release(h)
    \/ \E actual \in Costs, estimated, zeroUsage \in BOOLEAN : SettleCall(h, actual, estimated, zeroUsage)
    \/ CostOverflows(h) \/ RefundCall(h) \/ MarkCall(h)

\* What the provider and the client do to it.
PeerStep(h) ==
    \/ \E stream \in BOOLEAN : Prepare(h, stream)
    \/ ProviderRejects(h, "retry") \/ ProviderRejects(h, "clean")
    \/ ProviderAnswers(h)
    \/ \E consumed \in BOOLEAN : ProviderUnknown(h, consumed)
    \/ StreamUsage(h) \/ StreamDone(h) \/ StreamBreaks(h)
    \/ ClientCancels(h) \/ LateUsage(h)

\* What goes wrong.
FailureStep(h) ==
    \/ ReserveFails(h) \/ ClaimFails(h) \/ (\E c \in Credentials : ClaimLost(h, c)) \/ AuditFails(h)
    \/ ReleaseFails(h) \/ MoneyFails(h) \/ Crash(h)

InferenceNext ==
    \/ \E h \in Handlers : HandlerStep(h) \/ PeerStep(h) \/ FailureStep(h)
    \/ \E r \in RequestIds : Overdue(r)
    \/ \E k \in ApiKeys : RevokeKey(k) /\ UNCHANGED handlerVars
    \/ \E m \in Maintainers : Sweeping(m) \/ (AbortSweep(m) /\ UNCHANGED handlerVars)
    \/ Tick

InferenceSpec == InferenceInit /\ [][InferenceNext]_inferenceVars

\* The event loop runs every handler whose await is answered, timers fire, time passes,
\* and maintenance keeps running.  Providers and clients owe nothing.
InferenceFairness ==
    /\ \A h \in Handlers : WF_inferenceVars(HandlerStep(h))
    /\ \A r \in RequestIds : WF_inferenceVars(Overdue(r))
    /\ \A m \in Maintainers : WF_inferenceVars(Sweeping(m))
    /\ WF_inferenceVars(Tick)

FairInferenceSpec == InferenceSpec /\ InferenceFairness

-----------------------------------------------------------------------------
(* Properties *)

\* While an attempt runs, and until its usage is settled, the reservation is still open:
\* the sweep never takes it for stale.  (The deadline check in invoke, whose comment
\* says that a request still running must not be judged expired.)
HeldWhileRunning ==
    \A h \in Handlers :
        call[h].pc \in Attempting => /\ reservation[call[h].id].state = "reserved"
                                     /\ ~reservation[call[h].id].overdue

\* Work a provider did is never given away directly: its reservation is settled, or goes
\* through quarantine, whatever the handler, a crash or a sweep does.
NoFreeWork ==
    [][\A h \in Handlers :
        call[h].consumed /\ reservation[call[h].id].state = "reserved"
        => reservation'[call[h].id].state # "refunded"]_inferenceVars

\* A successful answer was charged, nothing is charged for a request no provider worked
\* on, and a handler that met no failure leaves no reservation open behind it.
OutcomeMatchesRows ==
    \A h \in Handlers :
        LET c == call[h]
        IN  c.id # NoId =>
              /\ c.outcome = "ok" => reservation[c.id].state = "settled"
              /\ reservation[c.id].state = "settled" => c.consumed
              /\ At(h, "done") /\ ~c.faulty => reservation[c.id].state # "reserved"

\* A stream that reached [DONE], or had reported its usage when it broke or was cancelled,
\* is charged, in whatever order completion, cancel and late chunks arrive.  The one
\* exception is a usage that has no cost to charge: it is never settled, and nobody but the
\* maintenance of quarantined rows gives its points back.
EndedStreamIsCharged ==
    \A h \in Handlers :
        LET c == call[h]
            state == reservation[c.id].state
        IN  At(h, "done") /\ ~c.faulty /\ c.chargeable
            => IF c.refused THEN state \in {"needs_reconciliation", "refunded"} ELSE state = "settled"

\* A lease belongs to the attempt in progress, on every path out of an attempt.  The only
\* leases left behind are those of an attempt whose claim lost its answer, whose release
\* failed, or in which the process died: not the other leases of the same request.
LeasesReturned ==
    \A l \in leases :
        \/ l[3] \in call[l[1]].left
        \/ l = Lease(l[1]) /\ call[l[1]].pc \in {"audit", "calling", "streaming", "release"}

\* Every request ends, however silent the provider and the client are.
EveryCallEnds == \A h \in Handlers : ~At(h, "idle") ~> At(h, "done")

=============================================================================
