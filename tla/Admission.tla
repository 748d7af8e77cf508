----------------------------- MODULE Admission -----------------------------
(***************************************************************************)
(* Admission of public calls: core/src/apiLimits.ts and its callers in     *)
(* gateway/routes/aiPublic.ts.                                             *)
(*                                                                         *)
(* A call first acquires a lease, which bounds the calls of its API key in *)
(* flight and per minute; then its body is read, points are reserved, the  *)
(* provider works, and the lease is released.  The minute and the expiry   *)
(* of the lease are read from the clock before the transaction starts; the *)
(* calls that wait for it (one at a time per key: the advisory lock of     *)
(* PostgreSQL, the write lock of SQLite) keep what they read.              *)
(***************************************************************************)
EXTENDS Integers, FiniteSets

CONSTANTS
    Calls,          \* HTTP calls; every one draws a fresh lease id
    KindOf,         \* [Calls -> {"chat", "models"}]: the route; chat stands for all that execute
    ApiKeys,
    MaxInFlight,    \* [ApiKeys -> Nat]: max_in_flight of the row (no route changes it)
    RpmLimit,       \* [ApiKeys -> Nat]: rpm_limit of the row
    Minute,         \* ticks in a window
    ChatTtl,        \* lease of a chat, responses or embeddings call (5 min)
    ModelsTtl,      \* lease of GET /models (30 s)
    DefaultTtl,     \* lease of a caller that names none (2 min)
    ReservationTtl, \* reservation of points (5 min)
    Buffer,         \* SETTLEMENT_BUFFER_MS of the runtime (15 s)
    BucketTtl,      \* age at which maintenance deletes a bucket (1 h)
    MaxWait,        \* bound: how long a call waits for the store
    LastArrival,    \* bound: no call arrives later
    MaxTime         \* bound: the end of time

ASSUME AdmissionAssumption ==
    /\ IsFiniteSet(Calls) /\ KindOf \in [Calls -> {"chat", "models"}]
    /\ ApiKeys # {}
    /\ MaxInFlight \in [ApiKeys -> Nat \ {0}] /\ RpmLimit \in [ApiKeys -> Nat \ {0}]
    /\ Minute \in Nat \ {0}
    /\ {ChatTtl, ModelsTtl, DefaultTtl, ReservationTtl, Buffer, BucketTtl,
        MaxWait, LastArrival, MaxTime} \subseteq Nat
    /\ Buffer <= ReservationTtl /\ ReservationTtl <= ChatTtl
    /\ MaxWait + Minute <= BucketTtl
    /\ LastArrival + ChatTtl <= MaxTime /\ LastArrival + ModelsTtl <= MaxTime

VARIABLES
    call,       \* [Calls -> the handler of the call]
    lease,      \* [Calls -> ai_api_inflight_leases row]
    bucket,     \* [ApiKeys \X Windows -> request_count of ai_rate_limit_buckets]
    clock

vars == <<call, lease, bucket, clock>>

\* left: over, its lease not released (the process died, or the release failed).
Call ==
    [pc : {"idle", "waiting", "body", "executing", "releasing", "done", "refused", "left"},
     key : ApiKeys, at : Nat, reservedAt : Nat]

Lease == [state : {"none", "held", "released"}, expires : Nat]

\* minuteWindowStart.
WindowStart(t) == t - (t % Minute)

Windows == {WindowStart(t) : t \in 0..MaxTime}

AdmissionTypeOK ==
    /\ call \in [Calls -> Call]
    /\ lease \in [Calls -> Lease]
    /\ bucket \in [ApiKeys \X Windows -> Nat]
    /\ \A k \in ApiKeys, w \in Windows : bucket[<<k, w>>] <= RpmLimit[k]
    /\ clock \in 0..MaxTime

NoLease == [state |-> "none", expires |-> 0]

AdmissionInit ==
    /\ call = [c \in Calls |-> [pc |-> "idle", key |-> CHOOSE k \in ApiKeys : TRUE,
                                at |-> 0, reservedAt |-> 0]]
    /\ lease = [c \in Calls |-> NoLease]
    /\ bucket = [b \in ApiKeys \X Windows |-> 0]
    /\ clock = 0

-----------------------------------------------------------------------------
(* The transaction of acquire *)

CallAt(c, pc) == call[c].pc = pc

CallGoes(c, pc) == call' = [call EXCEPT ![c].pc = pc]

\* The callers of GET /models pass 30 s, all others five minutes.
TtlDefault(c) == IF KindOf[c] = "models" THEN ModelsTtl ELSE DefaultTtl

Ttl(c) == IF KindOf[c] = "models" THEN ModelsTtl ELSE ChatTtl

WindowOf(c) == WindowStart(call[c].at)

\* Mutant of Counted: leases that ran out still count.
CountedForEver(c) == lease[c].state = "held"

\* The WHERE clause of activeLeaseCount.
Counted(c) == lease[c].state = "held" /\ lease[c].expires > clock

InFlight(k) == {c \in Calls : call[c].key = k /\ Counted(c)}

\* Mutant of SlotFree: off by one.
SlotFreeOff(k) == Cardinality(InFlight(k)) <= MaxInFlight[k]

SlotFree(k) == Cardinality(InFlight(k)) < MaxInFlight[k]

RateFree(k, w) == bucket[<<k, w>>] < RpmLimit[k]

\* The limits are those of the row, not those the caller passes; and a lease id is never
\* in use, as every caller draws a fresh one.
AcquireOutcome(c) ==
    IF ~SlotFree(call[c].key) THEN "max_in_flight_exceeded"
    ELSE IF ~RateFree(call[c].key, WindowOf(c)) THEN "rate_limit_exceeded"
    ELSE IF lease[c].state # "none" THEN "request_already_in_flight"
    ELSE "admitted"

-----------------------------------------------------------------------------
(* One call *)

CallArrives(c, k) ==
    /\ CallAt(c, "idle")
    /\ clock <= LastArrival
    /\ call' = [call EXCEPT ![c] = [pc |-> "waiting", key |-> k, at |-> clock, reservedAt |-> 0]]
    /\ UNCHANGED <<lease, bucket, clock>>

\* GET /models answers and releases at once.
Admit(c) ==
    /\ CallAt(c, "waiting")
    /\ AcquireOutcome(c) = "admitted"
    /\ bucket' = [bucket EXCEPT ![<<call[c].key, WindowOf(c)>>] = @ + 1]
    /\ lease' = [lease EXCEPT ![c] = [state |-> "held", expires |-> call[c].at + Ttl(c)]]
    /\ CallGoes(c, IF KindOf[c] = "models" THEN "releasing" ELSE "body")
    /\ UNCHANGED clock

Refuse(c) ==
    /\ CallAt(c, "waiting")
    /\ AcquireOutcome(c) # "admitted"
    /\ CallGoes(c, "refused")
    /\ UNCHANGED <<lease, bucket, clock>>

\* The body is rejected, the answer is replayed, or the client is gone.
EndBody(c) ==
    /\ CallAt(c, "body")
    /\ CallGoes(c, "releasing")
    /\ UNCHANGED <<lease, bucket, clock>>

\* The body was read, however slowly, and its points are reserved.
Reserve(c) ==
    /\ CallAt(c, "body")
    /\ call' = [call EXCEPT ![c].pc = "executing", ![c].reservedAt = clock]
    /\ UNCHANGED <<lease, bucket, clock>>

\* The answer or the stream is complete, broken or cancelled.
Finish(c) ==
    /\ CallAt(c, "executing")
    /\ CallGoes(c, "releasing")
    /\ UNCHANGED <<lease, bucket, clock>>

\* releaseAdmissionOnce; the row may be gone.
Release(c) ==
    /\ CallAt(c, "releasing")
    /\ CallGoes(c, "done")
    /\ lease' = [lease EXCEPT ![c].state = IF @ = "held" THEN "released" ELSE @]
    /\ UNCHANGED <<bucket, clock>>

\* The error is swallowed.
ReleaseFails(c) ==
    /\ CallAt(c, "releasing")
    /\ CallGoes(c, "left")
    /\ UNCHANGED <<lease, bucket, clock>>

\* The process of an admitted call dies (during the release: see ReleaseFails).
Crash(c) ==
    /\ call[c].pc \in {"body", "executing"}
    /\ CallGoes(c, "left")
    /\ UNCHANGED <<lease, bucket, clock>>

-----------------------------------------------------------------------------
(* Maintenance and time *)

\* Mutant of Purged: every window but the current one.
PurgedEarly(w) == w + Minute <= clock

Purged(w) == w < clock - BucketTtl

\* cleanupAutonomiaRateLimitBuckets is two statements without a transaction.
CleanBuckets ==
    /\ bucket' = [b \in ApiKeys \X Windows |-> IF Purged(b[2]) THEN 0 ELSE bucket[b]]
    /\ UNCHANGED <<call, lease, clock>>

CleanLeases ==
    /\ lease' = [c \in Calls |->
                    IF lease[c].state = "held" /\ ~Counted(c) THEN NoLease ELSE lease[c]]
    /\ UNCHANGED <<call, bucket, clock>>

\* The runtime starts no attempt that could outlast the reservation less the buffer, and
\* aborts the attempts that run out of time (see Inference).
Overdue(c) ==
    \/ CallAt(c, "waiting") /\ clock >= call[c].at + MaxWait
    \/ CallAt(c, "executing") /\ clock + Buffer >= call[c].reservedAt + ReservationTtl

Tick ==
    /\ clock < MaxTime
    /\ \A c \in Calls : ~Overdue(c)
    /\ clock' = clock + 1
    /\ UNCHANGED <<call, lease, bucket>>

CallStep(c) ==
    \/ \E k \in ApiKeys : CallArrives(c, k)
    \/ Admit(c) \/ Refuse(c) \/ EndBody(c) \/ Reserve(c) \/ Finish(c)
    \/ Release(c) \/ ReleaseFails(c) \/ Crash(c)

AdmissionNext ==
    \/ \E c \in Calls : CallStep(c)
    \/ CleanBuckets \/ CleanLeases
    \/ Tick

AdmissionSpec == AdmissionInit /\ [][AdmissionNext]_vars

\* The store answers, the runtime ends its calls in time, and time goes on.  Nothing is
\* assumed of releases, of clients that send a body, or of maintenance.
Fairness ==
    /\ WF_vars(Tick)
    /\ \A c \in Calls : WF_vars(Admit(c) \/ Refuse(c)) /\ WF_vars(Finish(c))

FairAdmissionSpec == AdmissionSpec /\ Fairness

-----------------------------------------------------------------------------
(* Properties *)

WasAdmitted(c) == call[c].pc \in {"body", "executing", "releasing", "done", "left"}

Admitted(k, w) == {c \in Calls : WasAdmitted(c) /\ call[c].key = k /\ WindowOf(c) = w}

\* Never more calls of one key are admitted in one minute than rpm_limit, also when some
\* of them wait for the store across the end of the minute while maintenance deletes
\* buckets (acquire, cleanupAutonomiaRateLimitBuckets).
RpmBound ==
    \A k \in ApiKeys, w \in Windows : Cardinality(Admitted(k, w)) <= RpmLimit[k]

\* Points were reserved less than the settlement buffer after the call arrived.
Prompt(c) == call[c].reservedAt < call[c].at + Buffer

Executing(k) == {c \in Calls : CallAt(c, "executing") /\ call[c].key = k}

\* Calls that did not lose time before their reservation are under max_in_flight for as
\* long as the provider may work for them: lease, reservation and timers are set apart
\* from each other, by three components.
ConcurrencyBound ==
    \A k \in ApiKeys : Cardinality({c \in Executing(k) : Prompt(c)}) <= MaxInFlight[k]

\* A call that was answered no longer counts against its key, whichever way it ended
\* (tests/admissionLease.test.ts: rejected bodies once locked keys out for five minutes).
NoLeak ==
    \A c \in Calls : lease[c].state = "held" => call[c].pc \in {"body", "executing", "releasing", "left"}

\* Whatever becomes of a call (a crash, a failed release, no maintenance), its slot is
\* free again one day.
SlotsComeBack == \A c \in Calls : Counted(c) ~> ~Counted(c)

\* The leases of a key are the slots of Slots.
Holders == [k \in ApiKeys |-> InFlight(k)]

Spent == {c \in Calls : WasAdmitted(c) /\ ~Counted(c)}

Limits ==
    INSTANCE Slots WITH
        Owners <- ApiKeys, Claims <- Calls, Capacity <- MaxInFlight,
        holders <- Holders, spent <- Spent

\* acquire, release, expiry and clean-up take and give back slots and do nothing else.
ImplementsSlots == Limits!Spec
=============================================================================
