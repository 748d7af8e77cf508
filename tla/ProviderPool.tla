---------------------------- MODULE ProviderPool ----------------------------
(***************************************************************************)
(* The credentials of one provider pool: core/src/providerPool.ts and its  *)
(* caller, the attempt loop of core/src/inference.ts.                      *)
(*                                                                         *)
(* A request claims a credential (a lease), calls the provider with it and *)
(* releases it with the outcome, which moves the cooldown of the           *)
(* credential.  Claims of a pool are serialised by an advisory lock;       *)
(* releases are not, and every transaction reads before it writes, so      *)
(* claims and releases are two steps each: a read and a commit.  On SQLite *)
(* the two steps follow each other at once.  The clock is read before a    *)
(* claim gets the lock.                                                    *)
(***************************************************************************)
EXTENDS Integers, FiniteSets

CONSTANTS
    Requests,
    Credentials,    \* those of the pool that are enabled
    Weight,         \* [Credentials -> Nat]
    MaxInFlight,    \* [Credentials -> Nat]
    Resolvable,     \* the credentials whose secrets are configured
    LeaseTtl,       \* lease_ttl_ms of the pool
    Timeout,        \* timeout_ms of the route
    Slack,          \* what a lease outlasts the timeout by (30 s)
    BaseCooldown, MaxCooldown,
    RetryAfter,     \* what a provider asks for that limits the rate
    Nobody,         \* no request
    MaxWait,        \* bound: how long a claim waits for the lock
    LastClaim,      \* bound: no claim starts later
    LastRelease,    \* bound: no release commits later
    MaxTime         \* bound: the end of time

ASSUME PoolAssumption ==
    /\ IsFiniteSet(Requests) /\ IsFiniteSet(Credentials) /\ Credentials # {} /\ Nobody \notin Requests
    /\ Weight \in [Credentials -> Nat \ {0}] /\ MaxInFlight \in [Credentials -> Nat \ {0}]
    /\ {LeaseTtl, Timeout, Slack, BaseCooldown, MaxCooldown, RetryAfter,
        MaxWait, LastClaim, LastRelease, MaxTime} \subseteq Nat

VARIABLES
    req,        \* [Requests -> the attempt loop of a request]
    lease,      \* [Requests \X Credentials -> ai_provider_credential_leases row]
    cred,       \* [Credentials -> ai_provider_credentials row]
    lock,       \* the request that holds the advisory lock of the pool
    clock

vars == <<req, lease, cred, lock, clock>>

\* How a call ends, and why a credential is released without a call: its secrets are not
\* configured, or the attempt cannot be recorded.
CallOutcomes == {"success", "failed", "limited", "rejected"}
Outcomes == CallOutcomes \cup {"unresolved", "unaudited"}

\* tried: excludedCredentialIds (one without secrets stays in it, as its cooldown is the
\* longest there is).  at: when the claim read the clock.  seen: what its open
\* transaction read.
Request ==
    [pc : {"idle", "claiming", "choosing", "claimed", "calling", "releasing", "applying", "over", "dead"},
     cred : Credentials, tried : SUBSET Credentials, at : Nat, started : Nat,
     seenInFlight : Nat, seenFailures : Nat, outcome : Outcomes]

\* A kept lease is a held one whose release failed; the database knows no difference.
Lease == [state : {"none", "held", "kept", "released"}, expires : Nat]

\* cooldownUntil 0 is NULL.
Credential == [inFlight : Nat, selected : Nat, failures : Nat, cooldownUntil : Nat]

PoolTypeOK ==
    /\ req \in [Requests -> Request]
    /\ lease \in [Requests \X Credentials -> Lease]
    /\ cred \in [Credentials -> Credential]
    /\ \A c \in Credentials : cred[c].cooldownUntil <= clock + MaxCooldown
    /\ lock \in Requests \cup {Nobody}
    /\ clock \in 0..MaxTime

\* Outside an attempt a request remembers what it tried and nothing else.
Outside(pc, tried) ==
    [pc |-> pc, cred |-> CHOOSE c \in Credentials : TRUE, tried |-> tried, at |-> 0,
     started |-> 0, seenInFlight |-> 0, seenFailures |-> 0, outcome |-> "success"]

PoolInit ==
    /\ req = [r \in Requests |-> Outside("idle", {})]
    /\ lease = [l \in Requests \X Credentials |-> [state |-> "none", expires |-> 0]]
    /\ cred = [c \in Credentials |-> [inFlight |-> 0, selected |-> 0, failures |-> 0, cooldownUntil |-> 0]]
    /\ lock = Nobody
    /\ clock = 0

-----------------------------------------------------------------------------
(* Which credential *)

At(r, pc) == req[r].pc = pc

Smaller(a, b) == IF a <= b THEN a ELSE b

Larger(a, b) == IF a >= b THEN a ELSE b

Held(l) == lease[l].state \in {"held", "kept"}

\* Mutant of Active: leases that ran out still count.
ActiveForEver(c, t) == {l \in Requests \X {c} : Held(l)}

\* The leases of c that are neither released nor past their expiry at t.
Active(c, t) == {l \in Requests \X {c} : Held(l) /\ lease[l].expires > t}

\* Mutant of Free: off by one.
FreeOff(c, t) == Cardinality(Active(c, t)) <= MaxInFlight[c]

Free(c, t) == Cardinality(Active(c, t)) < MaxInFlight[c]

Usable(c, t) == cred[c].cooldownUntil <= t /\ Free(c, t)

Candidates(r) == {c \in Credentials \ req[r].tried : Usable(c, req[r].at)}

\* ORDER BY selection_count / weight; ties are broken by columns that are left out.
Preferred(c, S) == \A d \in S : cred[c].selected * Weight[d] <= cred[d].selected * Weight[c]

\* claimAutonomiaProviderCredential.
Ttl == Larger(LeaseTtl, Timeout + Slack)

-----------------------------------------------------------------------------
(* A claim *)

Begin(r) ==
    /\ At(r, "idle")
    /\ clock <= LastClaim
    /\ req' = [req EXCEPT ![r] = [@ EXCEPT !.pc = "claiming", !.at = clock]]
    /\ UNCHANGED <<lease, cred, lock, clock>>

\* Inside the transaction: the lock, then the candidates.
Choose(r) ==
    /\ At(r, "claiming")
    /\ lock = Nobody
    /\ \E c \in Candidates(r) :
         /\ Preferred(c, Candidates(r))
         /\ req' = [req EXCEPT ![r] = [@ EXCEPT !.pc = "choosing", !.cred = c,
                                         !.seenInFlight = Cardinality(Active(c, req[r].at))]]
    /\ lock' = r
    /\ UNCHANGED <<lease, cred, clock>>

\* No candidate: the loop over the credentials of this route is over.
Exhausted(r) ==
    /\ At(r, "claiming")
    /\ lock = Nobody
    /\ Candidates(r) = {}
    /\ req' = [req EXCEPT ![r] = Outside("over", req[r].tried)]
    /\ UNCHANGED <<lease, cred, lock, clock>>

\* markClaimed, insertLease and COMMIT, which frees the lock.  A credential without
\* secrets is released as a configuration error, and the loop goes on without it.
Claimed(r) ==
    /\ At(r, "choosing")
    /\ LET c == req[r].cred
       IN  /\ cred' = [cred EXCEPT ![c] = [@ EXCEPT !.inFlight = req[r].seenInFlight + 1,
                                                    !.selected = cred[c].selected + 1]]
           /\ lease' = [lease EXCEPT ![<<r, c>>] = [state |-> "held", expires |-> req[r].at + Ttl]]
           /\ req' = [req EXCEPT ![r] = [@ EXCEPT !.tried = req[r].tried \cup {c},
                                           !.pc = IF c \in Resolvable THEN "claimed" ELSE "releasing",
                                           !.outcome = IF c \in Resolvable THEN req[r].outcome ELSE "unresolved"]]
    /\ lock' = Nobody
    /\ UNCHANGED clock

-----------------------------------------------------------------------------
(* The call, and the release of the credential *)

Call(r) ==
    /\ At(r, "claimed")
    /\ req' = [req EXCEPT ![r] = [@ EXCEPT !.pc = "calling", !.started = clock]]
    /\ UNCHANGED <<lease, cred, lock, clock>>

\* The attempt cannot be recorded.
NoCall(r) ==
    /\ At(r, "claimed")
    /\ req' = [req EXCEPT ![r] = [@ EXCEPT !.pc = "releasing", !.outcome = "unaudited"]]
    /\ UNCHANGED <<lease, cred, lock, clock>>

EndCall(r, outcome) ==
    /\ At(r, "calling")
    /\ req' = [req EXCEPT ![r] = [@ EXCEPT !.pc = "releasing", !.outcome = outcome]]
    /\ UNCHANGED <<lease, cred, lock, clock>>

\* markReleased, not yet committed, and credentialState.
ReleaseRead(r) ==
    /\ At(r, "releasing")
    /\ LET c == req[r].cred
       IN  req' = [req EXCEPT ![r] = [@ EXCEPT !.pc = "applying", !.seenInFlight = cred[c].inFlight,
                                                !.seenFailures = cred[c].failures]]
    /\ UNCHANGED <<lease, cred, lock, clock>>

\* The least a cooldown lasts.
MinimumCooldown(outcome) ==
    CASE outcome \in {"rejected", "unresolved"} -> MaxCooldown
      [] outcome = "limited"                    -> Smaller(MaxCooldown, RetryAfter)
      [] OTHER                                  -> 0

Backoff(failures) == Smaller(BaseCooldown * 2^Smaller(failures, 16), MaxCooldown)

\* After a failed call the runtime may try another credential; without secrets it does.
After(outcome) ==
    CASE outcome = "unresolved"                -> {"idle"}
      [] outcome \in {"success", "unaudited"} -> {"over"}
      [] OTHER                                 -> {"idle", "over"}

Succeeded(r) == req[r].outcome = "success"

\* consecutive_failures and the cooldown that follow from what the release read.
Failures(r) == IF Succeeded(r) THEN 0 ELSE Smaller(req[r].seenFailures + 1, 1000000)

Cooldown(r) == Larger(MinimumCooldown(req[r].outcome), Backoff(Failures(r)))

\* applyRelease and COMMIT.
ReleaseApply(r) ==
    /\ At(r, "applying")
    /\ clock <= LastRelease
    /\ lease' = [lease EXCEPT ![<<r, req[r].cred>>].state = "released"]
    /\ cred' = [cred EXCEPT ![req[r].cred] = [@ EXCEPT
                    !.inFlight = Larger(req[r].seenInFlight - 1, 0),
                    !.failures = Failures(r),
                    !.cooldownUntil = IF Succeeded(r) THEN 0 ELSE clock + Cooldown(r)]]
    /\ \E pc \in After(req[r].outcome) : req' = [req EXCEPT ![r] = Outside(pc, req[r].tried)]
    /\ UNCHANGED <<lock, clock>>

\* The release fails and is rolled back.  The runtime goes on as if it had not, but an
\* error of the search for secrets ends the request.
ReleaseFails(r) ==
    /\ req[r].pc \in {"releasing", "applying"}
    /\ lease' = [lease EXCEPT ![<<r, req[r].cred>>].state = "kept"]
    /\ \E pc \in IF req[r].outcome = "unresolved" THEN {"over"} ELSE After(req[r].outcome) :
         req' = [req EXCEPT ![r] = Outside(pc, req[r].tried)]
    /\ UNCHANGED <<cred, lock, clock>>

\* The process dies, or the database fails during a claim; an open transaction is rolled
\* back.
Die(r) ==
    /\ req[r].pc \in {"claiming", "choosing", "claimed", "calling", "releasing", "applying"}
    /\ req' = [req EXCEPT ![r] = Outside("dead", req[r].tried)]
    /\ lock' = IF lock = r THEN Nobody ELSE lock
    /\ UNCHANGED <<lease, cred, clock>>

-----------------------------------------------------------------------------
(* Maintenance and time *)

\* Mutant of Drifted: only credentials in use are looked at.
DriftedInUse(c) == Active(c, clock) # {} /\ cred[c].inFlight # Cardinality(Active(c, clock))

Drifted(c) == cred[c].inFlight # Cardinality(Active(c, clock))

Reconcile ==
    /\ \E c \in Credentials : Drifted(c)
    /\ cred' = [c \in Credentials |->
                    IF Drifted(c) THEN [cred[c] EXCEPT !.inFlight = Cardinality(Active(c, clock))]
                    ELSE cred[c]]
    /\ UNCHANGED <<req, lease, lock, clock>>

\* The timer of the call aborts it.
Overdue(r) ==
    \/ req[r].pc \in {"claiming", "choosing"} /\ clock >= req[r].at + MaxWait
    \/ At(r, "calling") /\ clock >= req[r].started + Timeout

Tick ==
    /\ clock < MaxTime
    /\ \A r \in Requests : ~Overdue(r)
    /\ clock' = clock + 1
    /\ UNCHANGED <<req, lease, cred, lock>>

RequestStep(r) ==
    \/ Begin(r) \/ Choose(r) \/ Exhausted(r) \/ Claimed(r)
    \/ Call(r) \/ NoCall(r)
    \/ \E outcome \in CallOutcomes : EndCall(r, outcome)
    \/ ReleaseRead(r) \/ ReleaseApply(r) \/ ReleaseFails(r) \/ Die(r)

PoolNext ==
    \/ \E r \in Requests : RequestStep(r)
    \/ Reconcile
    \/ Tick

PoolSpec == PoolInit /\ [][PoolNext]_vars

\* The database answers open claims, timers fire, time passes and maintenance runs.
\* Nothing is assumed of releases.
Fairness ==
    /\ WF_vars(Tick) /\ WF_vars(Reconcile)
    /\ \A r \in Requests : /\ WF_vars(Choose(r) \/ Exhausted(r) \/ Claimed(r))
                           /\ WF_vars(\E outcome \in CallOutcomes : EndCall(r, outcome))

FairPoolSpec == PoolSpec /\ Fairness

-----------------------------------------------------------------------------
(* Properties *)

\* The provider call started less than Slack after the claim read the clock.
Prompt(r) == req[r].started < req[r].at + Slack

Calling(c) == {r \in Requests : At(r, "calling") /\ req[r].cred = c}

\* A provider never sees more calls at once under one credential than max_in_flight, while
\* leases expire, releases race with claims and the route may allow longer calls than the
\* pool has leases for (claim; claimAutonomiaProviderCredential).
CredentialConcurrency ==
    \A c \in Credentials : Cardinality({r \in Calling(c) : Prompt(r)}) <= MaxInFlight[c]

\* Whoever left the loop alive holds no credential, unless its release failed: those without secrets and those whose
\* attempt could not be recorded were given back too (claimConfiguredAutonomiaProviderCredential).
NothingKept ==
    \A r \in Requests : At(r, "over") => \A c \in Credentials : lease[<<r, c>>].state # "held"

\* No credential is lost for good, whatever failures, crashes and lost releases it saw.
CredentialsComeBack ==
    \A c \in Credentials : ~Usable(c, clock) ~> Usable(c, clock)

\* The observed counter drifts (claims and releases overwrite each other, leases expire) and
\* is right in the end (reconcileInFlight).
DriftHeals == <>[](\A c \in Credentials : cred[c].inFlight = Cardinality(Active(c, clock)))

\* The leases of a credential are the slots of Slots.
Holders == [c \in Credentials |-> Active(c, clock)]

Spent == {l \in Requests \X Credentials : lease[l].state # "none" /\ l \notin Active(l[2], clock)}

Limits ==
    INSTANCE Slots WITH
        Owners <- Credentials, Claims <- Requests \X Credentials, Capacity <- MaxInFlight,
        holders <- Holders, spent <- Spent

\* Claims take free slots only, although they decide on what they read earlier.
ImplementsSlots == Limits!Spec
=============================================================================
