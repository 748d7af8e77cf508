------------------------- MODULE ProviderPoolProofs -------------------------
(***************************************************************************)
(* ProviderPool, proved for any number of requests and credentials, any    *)
(* limits and weights, and any lengths of leases, timeouts and cooldowns.  *)
(***************************************************************************)
EXTENDS ProviderPool, FiniteSetTheorems, TLAPS

-----------------------------------------------------------------------------
(* Numbers and leases *)

LEMMA PowerIsNat ==
    ASSUME NEW n \in Nat PROVE 2^n \in Nat
  <1>1. IsFiniteSet(1..n) /\ Cardinality(1..n) = n
    BY FS_Interval
  <1>2. IsFiniteSet(SUBSET (1..n)) /\ Cardinality(SUBSET (1..n)) = 2^n
    BY <1>1, FS_SUBSET
  <1> QED BY <1>2, FS_CardinalityType

\* No cooldown exceeds the maximum of the pool (applyRelease).
LEMMA CooldownBounded ==
    ASSUME NEW failures \in Nat, NEW outcome
    PROVE  /\ Larger(MinimumCooldown(outcome), Backoff(failures)) \in Nat
           /\ Larger(MinimumCooldown(outcome), Backoff(failures)) <= MaxCooldown
  <1>1. Smaller(failures, 16) \in Nat
    BY DEF Smaller
  <1> DEFINE growth == BaseCooldown * 2^Smaller(failures, 16)
  <1>2. 2^Smaller(failures, 16) \in Nat
    BY <1>1, PowerIsNat
  <1>3. growth \in Nat
    <2> DEFINE x == 2^Smaller(failures, 16)
    <2>1. BaseCooldown \in Nat /\ x \in Nat
      BY <1>2, PoolAssumption
    <2> HIDE DEF x
    <2>2. BaseCooldown * x \in Nat
      BY <2>1
    <2> QED BY <2>2 DEF x
  <1>4. Backoff(failures) = Smaller(growth, MaxCooldown)
    BY DEF Backoff
  <1> HIDE DEF growth
  <1>5. Backoff(failures) \in Nat /\ Backoff(failures) <= MaxCooldown
    BY <1>3, <1>4, PoolAssumption DEF Smaller
  <1>6. MinimumCooldown(outcome) \in Nat /\ MinimumCooldown(outcome) <= MaxCooldown
    BY PoolAssumption DEF MinimumCooldown, Smaller
  <1> QED BY <1>5, <1>6 DEF Larger

LEMMA TtlFacts == Ttl \in Nat /\ Ttl >= Timeout + Slack
  BY PoolAssumption DEF Ttl, Larger

LEMMA FiniteLeases ==
    ASSUME NEW c \in Credentials, NEW S \in SUBSET (Requests \X {c})
    PROVE  IsFiniteSet(S) /\ Cardinality(S) \in Nat
  <1>1. IsFiniteSet({c})
    BY FS_Singleton
  <1>2. IsFiniteSet(Requests \X {c})
    BY <1>1, FS_Product, PoolAssumption
  <1> QED BY <1>2, FS_Subset, FS_CardinalityType

\* The members of Active, request by request.
LEMMA ActiveMembers ==
    ASSUME NEW c \in Credentials, NEW t, NEW r \in Requests, NEW d \in Credentials
    PROVE  <<r, d>> \in Active(c, t) <=> d = c /\ Held(<<r, c>>) /\ lease[<<r, c>>].expires > t
  BY DEF Active

LEMMA ActiveIsSubset ==
    ASSUME NEW c \in Credentials, NEW t
    PROVE  /\ Active(c, t) \in SUBSET (Requests \X {c})
           /\ IsFiniteSet(Active(c, t)) /\ Cardinality(Active(c, t)) \in Nat
  <1>1. Active(c, t) \in SUBSET (Requests \X {c})
    BY DEF Active
  <1> QED BY <1>1, FiniteLeases

-----------------------------------------------------------------------------
(* The inductive invariant *)

Using == {"claimed", "calling", "releasing", "applying"}

\* What a request knows of its leases and of time.
Own(r) ==
    /\ \A c \in Credentials : lease[<<r, c>>].state # "none" => c \in req[r].tried
    /\ At(r, "choosing") => req[r].cred \notin req[r].tried
    /\ req[r].pc \in Using => lease[<<r, req[r].cred>>] = [state |-> "held", expires |-> req[r].at + Ttl]
    /\ \A c \in Credentials : lease[<<r, c>>].state = "held" =>
         At(r, "dead") \/ (req[r].pc \in Using /\ req[r].cred = c)
    /\ req[r].at <= clock
    /\ At(r, "calling") => req[r].started <= clock /\ clock <= req[r].started + Timeout

Locked == \A r \in Requests : lock = r <=> At(r, "choosing")

SlotBound == \A c \in Credentials : Cardinality(Active(c, clock)) <= MaxInFlight[c]

\* The credential chosen under the lock stays free until the claim commits.
ChosenFree ==
    \A r \in Requests : At(r, "choosing") =>
        Cardinality(Active(req[r].cred, clock)) < MaxInFlight[req[r].cred]

PoolInv ==
    PoolTypeOK /\ (\A r \in Requests : Own(r)) /\ Locked /\ SlotBound /\ ChosenFree

LEMMA TypeFacts ==
    ASSUME PoolTypeOK
    PROVE  /\ \A r \in Requests :
                /\ req[r] \in Request /\ req[r].cred \in Credentials /\ req[r].tried \subseteq Credentials
                /\ req[r].at \in Nat /\ req[r].started \in Nat
                /\ req[r].seenInFlight \in Nat /\ req[r].seenFailures \in Nat
           /\ \A r \in Requests, c \in Credentials :
                lease[<<r, c>>] \in Lease /\ lease[<<r, c>>].expires \in Nat
           /\ \A c \in Credentials :
                /\ cred[c] \in Credential /\ cred[c].cooldownUntil \in Nat
                /\ cred[c].selected \in Nat /\ cred[c].failures \in Nat
           /\ clock \in Nat
  BY DEF PoolTypeOK, Request, Lease, Credential

\* Outside an attempt a request has the type of one.
LEMMA OutsideTyped ==
    ASSUME NEW c \in Credentials, NEW pc \in {"idle", "over", "dead"}, NEW tried \in SUBSET Credentials
    PROVE  /\ Outside(pc, tried) \in Request /\ Outside(pc, tried).pc = pc
           /\ Outside(pc, tried).tried = tried /\ Outside(pc, tried).at = 0
  <1>1. (CHOOSE x \in Credentials : TRUE) \in Credentials
    OBVIOUS
  <1> QED BY <1>1 DEF Outside, Request, Outcomes, CallOutcomes

LEMMA InitPool == PoolInit => PoolInv
  <1> SUFFICES ASSUME PoolInit PROVE PoolInv
    OBVIOUS
  <1>1. PICK c \in Credentials : TRUE
    BY PoolAssumption
  <1>2. /\ Outside("idle", {}) \in Request /\ Outside("idle", {}).pc = "idle"
        /\ Outside("idle", {}).tried = {} /\ Outside("idle", {}).at = 0
    BY <1>1, OutsideTyped
  <1>3. PoolTypeOK
    BY <1>2, PoolAssumption DEF PoolInit, PoolTypeOK, Lease, Credential
  <1>4. \A r \in Requests : Own(r)
    BY <1>2 DEF PoolInit, Own, At, Using
  <1>5. Locked /\ ChosenFree
    BY <1>2, PoolAssumption DEF PoolInit, Locked, ChosenFree, At
  <1>6. SlotBound
    <2> SUFFICES ASSUME NEW d \in Credentials PROVE Cardinality(Active(d, clock)) <= MaxInFlight[d]
      BY DEF SlotBound
    <2>1. Active(d, clock) = {}
      BY DEF PoolInit, Active, Held
    <2> QED BY <2>1, FS_EmptySet, PoolAssumption
  <1> QED BY <1>3, <1>4, <1>5, <1>6 DEF PoolInv

-----------------------------------------------------------------------------
(* One request at a time *)

\* A step of a request changes its variables, its leases and what it holds the lock for.
LEMMA RequestFrame ==
    ASSUME PoolTypeOK, NEW r \in Requests, RequestStep(r)
    PROVE  /\ \A q \in Requests \ {r} : req'[q] = req[q]
           /\ \A q \in Requests \ {r}, c \in Credentials : lease'[<<q, c>>] = lease[<<q, c>>]
           /\ clock' = clock
  <1>1. \A q \in Requests \ {r} : req'[q] = req[q]
    BY DEF PoolTypeOK, RequestStep, Begin, Choose, Exhausted, Claimed, Call, NoCall, EndCall,
           ReleaseRead, ReleaseApply, ReleaseFails, Die
  <1>2. \A q \in Requests \ {r}, c \in Credentials : lease'[<<q, c>>] = lease[<<q, c>>]
    BY TypeFacts DEF PoolTypeOK, RequestStep, Begin, Choose, Exhausted, Claimed, Call, NoCall, EndCall,
           ReleaseRead, ReleaseApply, ReleaseFails, Die
  <1>3. clock' = clock
    BY DEF RequestStep, Begin, Choose, Exhausted, Claimed, Call, NoCall, EndCall,
           ReleaseRead, ReleaseApply, ReleaseFails, Die
  <1> QED BY <1>1, <1>2, <1>3

\* The ways out of a release.
LEMMA AfterTyped ==
    ASSUME NEW outcome, NEW pc \in After(outcome)
    PROVE  pc \in {"idle", "over"}
  BY DEF After

LEMMA RequestType ==
    ASSUME PoolTypeOK, NEW r \in Requests, RequestStep(r)
    PROVE  PoolTypeOK'
  <1> USE DEF PoolTypeOK
  <1>r. req'[r] \in Request /\ req' = [req EXCEPT ![r] = req'[r]]
    <2> USE TypeFacts
    <2>1. CASE Begin(r)
      BY <2>1 DEF Begin, Request
    <2>2. CASE Choose(r)
      <3>1. PICK c \in Candidates(r) :
              req' = [req EXCEPT ![r] = [@ EXCEPT !.pc = "choosing", !.cred = c,
                                           !.seenInFlight = Cardinality(Active(c, req[r].at))]]
        BY <2>2 DEF Choose
      <3>2. c \in Credentials /\ Cardinality(Active(c, req[r].at)) \in Nat
        BY ActiveIsSubset DEF Candidates
      <3> QED BY <3>1, <3>2 DEF Request
    <2>3. CASE Exhausted(r)
      <3>1. Outside("over", req[r].tried) \in Request
        BY OutsideTyped
      <3> QED BY <2>3, <3>1 DEF Exhausted
    <2>4. CASE Claimed(r)
      <3> DEFINE c == req[r].cred
                 pc == IF c \in Resolvable THEN "claimed" ELSE "releasing"
                 outcome == IF c \in Resolvable THEN req[r].outcome ELSE "unresolved"
                 next == [req[r] EXCEPT !.tried = req[r].tried \cup {c}, !.pc = pc, !.outcome = outcome]
      <3>1. req' = [req EXCEPT ![r] = next]
        BY <2>4 DEF Claimed
      <3>2. req[r].outcome \in Outcomes
        BY DEF Request
      <3>3. outcome \in Outcomes /\ pc \in {"claimed", "releasing"} /\ c \in Credentials
        BY <3>2 DEF Outcomes
      <3> HIDE DEF outcome, pc, c
      <3>4. next \in Request
        <4>1. req[r].tried \cup {c} \in SUBSET Credentials
          BY <3>3
        <4> QED BY <3>3, <4>1 DEF Request
      <3> QED BY <3>1, <3>4
    <2>5. CASE Call(r)
      BY <2>5 DEF Call, Request
    <2>6. CASE NoCall(r)
      BY <2>6 DEF NoCall, Request, Outcomes
    <2>7. ASSUME NEW outcome \in CallOutcomes, EndCall(r, outcome)
          PROVE  req'[r] \in Request /\ req' = [req EXCEPT ![r] = req'[r]]
      BY <2>7 DEF EndCall, Request, Outcomes
    <2>8. CASE ReleaseRead(r)
      <3>1. cred[req[r].cred].inFlight \in Nat /\ cred[req[r].cred].failures \in Nat
        BY DEF Credential
      <3> QED BY <2>8, <3>1 DEF ReleaseRead, Request
    <2>9. CASE ReleaseApply(r)
      <3>1. PICK pc \in After(req[r].outcome) : req' = [req EXCEPT ![r] = Outside(pc, req[r].tried)]
        BY <2>9 DEF ReleaseApply
      <3>2. Outside(pc, req[r].tried) \in Request
        BY AfterTyped, OutsideTyped
      <3> QED BY <3>1, <3>2
    <2>10. CASE ReleaseFails(r)
      <3>1. PICK pc \in {"idle", "over"} : req' = [req EXCEPT ![r] = Outside(pc, req[r].tried)]
        BY <2>10, AfterTyped DEF ReleaseFails
      <3>2. Outside(pc, req[r].tried) \in Request
        BY OutsideTyped
      <3> QED BY <3>1, <3>2
    <2>11. CASE Die(r)
      <3>1. Outside("dead", req[r].tried) \in Request
        BY OutsideTyped
      <3> QED BY <2>11, <3>1 DEF Die
    <2> QED BY <2>1, <2>2, <2>3, <2>4, <2>5, <2>6, <2>7, <2>8, <2>9, <2>10, <2>11 DEF RequestStep
  <1>l. lease' \in [Requests \X Credentials -> Lease]
    <2>1. CASE Claimed(r)
      BY <2>1, TypeFacts, TtlFacts DEF Claimed, Lease
    <2>2. CASE ReleaseApply(r) \/ ReleaseFails(r)
      <3> DEFINE l == <<r, req[r].cred>>
      <3>1. PICK s \in {"released", "kept"} : lease' = [lease EXCEPT ![l].state = s]
        BY <2>2 DEF ReleaseApply, ReleaseFails
      <3>2. l \in Requests \X Credentials
        BY TypeFacts
      <3> HIDE DEF l
      <3>3. lease[l] \in Lease
        BY <3>2
      <3>4. [lease[l] EXCEPT !.state = s] \in Lease
        BY <3>3 DEF Lease
      <3> QED BY <3>1, <3>2, <3>4
    <2>3. CASE UNCHANGED lease
      BY <2>3
    <2> QED BY <2>1, <2>2, <2>3
         DEF RequestStep, Begin, Choose, Exhausted, Call, NoCall, EndCall, ReleaseRead, Die
  <1>c. /\ cred' \in [Credentials -> Credential]
        /\ \A c \in Credentials : cred'[c].cooldownUntil <= clock' + MaxCooldown
    <2> DEFINE k == req[r].cred
    <2>1. CASE Claimed(r)
      <3> DEFINE flight == req[r].seenInFlight + 1
                 selected == cred[k].selected + 1
      <3>1. cred' = [cred EXCEPT ![k] = [cred[k] EXCEPT !.inFlight = flight, !.selected = selected]]
        BY <2>1 DEF Claimed
      <3>2. flight \in Nat /\ selected \in Nat
        BY TypeFacts
      <3> HIDE DEF flight, selected
      <3>3. [cred[k] EXCEPT !.inFlight = flight, !.selected = selected] \in Credential
        BY <3>2, TypeFacts DEF Credential
      <3> QED BY <2>1, <3>1, <3>2, <3>3, TypeFacts DEF Claimed, Credential
    <2>2. CASE ReleaseApply(r)
      <3> DEFINE until  == IF Succeeded(r) THEN 0 ELSE clock + Cooldown(r)
                 flight == Larger(req[r].seenInFlight - 1, 0)
      <3>1. Failures(r) \in Nat /\ flight \in Nat
        BY TypeFacts DEF Failures, Smaller, Larger
      <3>2. Cooldown(r) \in Nat /\ Cooldown(r) <= MaxCooldown
        BY <3>1, CooldownBounded DEF Cooldown
      <3>3. cred' = [cred EXCEPT ![k] = [@ EXCEPT !.inFlight = flight, !.failures = Failures(r),
                                                  !.cooldownUntil = until]]
        BY <2>2 DEF ReleaseApply
      <3>u. clock' = clock
        BY RequestFrame
      <3>4. until \in Nat /\ until <= clock + MaxCooldown
        BY <3>2, TypeFacts, PoolAssumption
      <3> HIDE DEF until, flight
      <3>5. [cred[k] EXCEPT !.inFlight = flight, !.failures = Failures(r), !.cooldownUntil = until]
              \in Credential
        BY <3>1, <3>4, TypeFacts DEF Credential
      <3> QED BY <3>u, <3>3, <3>4, <3>5, TypeFacts DEF Credential
    <2>3. CASE UNCHANGED cred
      BY <2>3, RequestFrame
    <2> QED BY <2>1, <2>2, <2>3
         DEF RequestStep, Begin, Choose, Exhausted, Call, NoCall, EndCall, ReleaseRead, ReleaseFails, Die
  <1>k. lock' \in Requests \cup {Nobody}
    BY DEF RequestStep, Begin, Choose, Exhausted, Claimed, Call, NoCall, EndCall,
           ReleaseRead, ReleaseApply, ReleaseFails, Die
  <1> QED BY <1>r, <1>l, <1>c, <1>k, RequestFrame

\* A step of a request keeps what it knows of its leases.
LEMMA RequestOwn ==
    ASSUME PoolTypeOK, NEW r \in Requests, Own(r), RequestStep(r)
    PROVE  Own(r)'
  <1> USE TypeFacts DEF PoolTypeOK
  <1>c. clock' = clock
    BY RequestFrame
  <1>1. CASE Begin(r)
    BY <1>1, <1>c DEF Begin, Own, At, Using
  <1>2. CASE Choose(r)
    <2>1. PICK c \in Candidates(r) :
            req' = [req EXCEPT ![r] = [@ EXCEPT !.pc = "choosing", !.cred = c,
                                         !.seenInFlight = Cardinality(Active(c, req[r].at))]]
      BY <1>2 DEF Choose
    <2>2. c \in Credentials /\ c \notin req[r].tried
      BY DEF Candidates
    <2>3. /\ req'[r].pc = "choosing" /\ req'[r].cred = c
          /\ req'[r].tried = req[r].tried /\ req'[r].at = req[r].at
      BY <2>1 DEF Request
    <2>4. req[r].pc = "claiming" /\ lease' = lease
      BY <1>2 DEF Choose, At
    <2> QED BY <1>c, <2>2, <2>3, <2>4 DEF Own, At, Using
  <1>3. ASSUME NEW pc \in {"idle", "over", "dead"}, req' = [req EXCEPT ![r] = Outside(pc, req[r].tried)],
               \A c \in Credentials : lease'[<<r, c>>].state # "none" => c \in req[r].tried,
               \A c \in Credentials : lease'[<<r, c>>].state # "held" \/ pc = "dead"
        PROVE  Own(r)'
    <2>1. /\ req'[r].pc = pc /\ req'[r].tried = req[r].tried /\ req'[r].at = 0
      BY <1>3, OutsideTyped
    <2> QED BY <1>3, <1>c, <2>1 DEF Own, At, Using
  <1>4. CASE Exhausted(r)
    BY <1>4, <1>3 DEF Exhausted, Own, At, Using
  <1>5. CASE Claimed(r)
    <2> DEFINE k == req[r].cred
    <2>1. /\ req'[r].pc = (IF k \in Resolvable THEN "claimed" ELSE "releasing")
          /\ req'[r].tried = req[r].tried \cup {k} /\ req'[r].cred = k
          /\ req'[r].at = req[r].at /\ req'[r].started = req[r].started
      BY <1>5 DEF Claimed, Request
    <2>2. /\ lease'[<<r, k>>] = [state |-> "held", expires |-> req[r].at + Ttl]
          /\ \A c \in Credentials \ {k} : lease'[<<r, c>>] = lease[<<r, c>>]
      BY <1>5 DEF Claimed
    <2>3. \A c \in Credentials : lease'[<<r, c>>].state # "none" => c \in req'[r].tried
      BY <2>1, <2>2 DEF Own
    <2>4. \A c \in Credentials : lease[<<r, c>>].state # "held"
      BY <1>5 DEF Claimed, Own, At, Using
    <2>5. req'[r].pc \in {"claimed", "releasing"}
      BY <2>1
    <2> QED BY <1>c, <2>1, <2>2, <2>3, <2>4, <2>5 DEF Own, At, Using
  <1>6. CASE Call(r)
    BY <1>6, <1>c, PoolAssumption DEF Call, Own, At, Using, Request
  <1>7. CASE NoCall(r)
    BY <1>7, <1>c DEF NoCall, Own, At, Using, Request
  <1>8. ASSUME NEW outcome \in CallOutcomes, EndCall(r, outcome) PROVE Own(r)'
    BY <1>8, <1>c DEF EndCall, Own, At, Using, Request
  <1>9. CASE ReleaseRead(r)
    BY <1>9, <1>c DEF ReleaseRead, Own, At, Using, Request
  <1>10. CASE ReleaseApply(r) \/ ReleaseFails(r)
    <2> DEFINE k == req[r].cred
    <2>1. PICK pc \in {"idle", "over"} : req' = [req EXCEPT ![r] = Outside(pc, req[r].tried)]
      BY <1>10, AfterTyped DEF ReleaseApply, ReleaseFails
    <2>2. PICK s \in {"released", "kept"} : lease' = [lease EXCEPT ![<<r, k>>].state = s]
      BY <1>10 DEF ReleaseApply, ReleaseFails
    <2>3. /\ lease'[<<r, k>>].state = s
          /\ \A c \in Credentials \ {k} : lease'[<<r, c>>] = lease[<<r, c>>]
      BY <2>2 DEF Lease
    <2>4. req[r].pc \in Using /\ lease[<<r, k>>].state = "held"
      BY <1>10 DEF ReleaseApply, ReleaseFails, Own, At, Using
    <2> QED BY <1>3, <2>1, <2>3, <2>4, ZenonT(30) DEF Own, At, Using
  <1>11. CASE Die(r)
    BY <1>11, <1>3 DEF Die, Own
  <1> QED BY <1>1, <1>2, <1>4, <1>5, <1>6, <1>7, <1>8, <1>9, <1>10, <1>11 DEF RequestStep

\* The lock belongs to the request that chooses.
LEMMA RequestLocked ==
    ASSUME PoolTypeOK, Locked, NEW r \in Requests, RequestStep(r)
    PROVE  Locked'
  <1> USE DEF PoolTypeOK
  <1>o. \A q \in Requests \ {r} : req'[q] = req[q]
    BY RequestFrame
  <1>n. Nobody \notin Requests
    BY PoolAssumption
  <1>1. CASE Choose(r)
    <2>1. req'[r].pc = "choosing"
      <3>1. PICK c \in Candidates(r) :
              req' = [req EXCEPT ![r] = [@ EXCEPT !.pc = "choosing", !.cred = c,
                                           !.seenInFlight = Cardinality(Active(c, req[r].at))]]
        BY <1>1 DEF Choose
      <3> QED BY <3>1, TypeFacts DEF Request
    <2> QED BY <1>1, <1>o, <1>n, <2>1 DEF Choose, Locked, At
  <1>2. CASE Claimed(r)
    <2>1. req'[r].pc \in {"claimed", "releasing"}
      BY <1>2, TypeFacts DEF Claimed, Request
    <2> QED BY <1>2, <1>o, <1>n, <2>1 DEF Claimed, Locked, At
  <1>3. CASE Die(r)
    <2>1. req'[r].pc = "dead"
      BY <1>3, TypeFacts, OutsideTyped DEF Die
    <2> QED BY <1>3, <1>o, <1>n, <2>1 DEF Die, Locked, At
  <1>4. ASSUME lock' = lock, ~At(r, "choosing"), req'[r].pc # "choosing" PROVE Locked'
    BY <1>4, <1>o DEF Locked, At
  <1>5. CASE Begin(r) \/ Call(r) \/ NoCall(r) \/ ReleaseRead(r)
    <2>1. req'[r].pc \in {"claiming", "calling", "releasing", "applying"}
      <3>1. Begin(r) => req'[r].pc = "claiming"
        BY TypeFacts DEF Begin, Request
      <3>2. Call(r) => req'[r].pc = "calling"
        BY TypeFacts DEF Call, Request
      <3>3. NoCall(r) => req'[r].pc = "releasing"
        BY TypeFacts DEF NoCall, Request
      <3>4. ReleaseRead(r) => req'[r].pc = "applying"
        BY TypeFacts DEF ReleaseRead, Request
      <3> QED BY <1>5, <3>1, <3>2, <3>3, <3>4
    <2> QED BY <1>5, <1>4, <2>1 DEF Begin, Call, NoCall, ReleaseRead, At
  <1>8. ASSUME NEW outcome \in CallOutcomes, EndCall(r, outcome) PROVE Locked'
    <2>1. req'[r].pc = "releasing"
      BY <1>8, TypeFacts DEF EndCall, Request
    <2> QED BY <1>8, <1>4, <2>1 DEF EndCall, At
  <1>6. CASE Exhausted(r)
    BY <1>6, <1>4, TypeFacts, OutsideTyped DEF Exhausted, At
  <1>7. CASE ReleaseApply(r) \/ ReleaseFails(r)
    <2>1. PICK pc \in {"idle", "over"} : req' = [req EXCEPT ![r] = Outside(pc, req[r].tried)]
      BY <1>7, AfterTyped DEF ReleaseApply, ReleaseFails
    <2> QED BY <1>7, <1>4, <2>1, TypeFacts, OutsideTyped DEF ReleaseApply, ReleaseFails, At
  <1> QED BY <1>1, <1>2, <1>3, <1>5, <1>6, <1>7, <1>8 DEF RequestStep

-----------------------------------------------------------------------------
(* Leases and slots *)

\* Everything but the commit of a claim.
Quiet ==
    \/ \E r \in Requests :
         \/ Begin(r) \/ Choose(r) \/ Exhausted(r) \/ Call(r) \/ NoCall(r)
         \/ \E outcome \in CallOutcomes : EndCall(r, outcome)
         \/ ReleaseRead(r) \/ ReleaseApply(r) \/ ReleaseFails(r) \/ Die(r)
    \/ Reconcile \/ Tick
    \/ UNCHANGED vars

\* A step commits a claim or does not.
LEMMA StepCases ==
    [PoolNext]_vars => Quiet \/ \E r \in Requests : Claimed(r)
  BY DEF PoolNext, RequestStep, Quiet

\* Without a claim no lease appears and none comes back.
LEMMA QuietLeases ==
    ASSUME PoolTypeOK, \A r \in Requests : Own(r), Quiet, NEW q \in Requests, NEW c \in Credentials
    PROVE  /\ lease'[<<q, c>>].state = "none" <=> lease[<<q, c>>].state = "none"
           /\ lease'[<<q, c>>].expires = lease[<<q, c>>].expires
           /\ Held(<<q, c>>)' => Held(<<q, c>>)
           /\ clock' \in Nat /\ clock' >= clock
  <1> USE TypeFacts DEF PoolTypeOK
  <1>2. clock' \in Nat /\ clock' >= clock
    <2>1. CASE Tick
      BY <2>1 DEF Tick
    <2>2. CASE UNCHANGED clock
      BY <2>2
    <2> QED BY <2>1, <2>2
         DEF Quiet, Begin, Choose, Exhausted, Call, NoCall, EndCall, ReleaseRead, ReleaseApply, ReleaseFails,
             Die, Reconcile, vars
  <1>3. ASSUME NEW r \in Requests, ReleaseApply(r) \/ ReleaseFails(r)
        PROVE  /\ lease'[<<q, c>>].state = "none" <=> lease[<<q, c>>].state = "none"
               /\ lease'[<<q, c>>].expires = lease[<<q, c>>].expires
               /\ Held(<<q, c>>)' => Held(<<q, c>>)
    <2> DEFINE k == req[r].cred
    <2>1. lease[<<r, k>>].state = "held"
      <3>1. Own(r)
        OBVIOUS
      <3>2. req[r].pc \in Using
        BY <1>3 DEF ReleaseApply, ReleaseFails, At, Using
      <3> QED BY <3>1, <3>2 DEF Own
    <2>2. PICK s \in {"released", "kept"} : lease' = [lease EXCEPT ![<<r, k>>].state = s]
      BY <1>3 DEF ReleaseApply, ReleaseFails
    <2>3. CASE <<q, c>> = <<r, k>>
      BY <2>1, <2>2, <2>3 DEF Lease, Held
    <2>4. CASE <<q, c>> # <<r, k>>
      BY <2>2, <2>4 DEF Held
    <2> QED BY <2>3, <2>4
  <1>4. CASE UNCHANGED lease
    BY <1>2, <1>4 DEF Held
  <1> QED BY <1>2, <1>3, <1>4
       DEF Quiet, Begin, Choose, Exhausted, Call, NoCall, EndCall, ReleaseRead, Die, Reconcile, Tick, vars

\* The slots in use only shrink, between steps and as time passes.
LEMMA QuietActive ==
    ASSUME PoolTypeOK, \A r \in Requests : Own(r), Quiet, NEW c \in Credentials
    PROVE  /\ Active(c, clock)' \subseteq Active(c, clock)
           /\ Cardinality(Active(c, clock)') <= Cardinality(Active(c, clock))
           /\ Cardinality(Active(c, clock)) \in Nat /\ Cardinality(Active(c, clock)') \in Nat
  <1>1. ASSUME NEW l \in Active(c, clock)' PROVE l \in Active(c, clock)
    <2>1. l \in Requests \X {c} /\ Held(l)' /\ lease'[l].expires > clock'
      BY DEF Active
    <2>2. PICK q \in Requests : l = <<q, c>>
      BY <2>1
    <2>3. Held(l) /\ lease'[l].expires = lease[l].expires /\ clock' \in Nat /\ clock' >= clock
      BY <2>1, <2>2, QuietLeases
    <2>4. lease[l].expires \in Nat /\ clock \in Nat
      BY <2>2, TypeFacts
    <2>5. lease[l].expires > clock
      BY <2>1, <2>3, <2>4
    <2> QED BY <2>1, <2>3, <2>5 DEF Active
  <1>2. Active(c, clock)' \in SUBSET (Requests \X {c})
    BY DEF Active
  <1> QED BY <1>1, <1>2, ActiveIsSubset, FiniteLeases, FS_Subset

\* What was active when a claim read the clock includes what is active now.
LEMMA ActiveShrinks ==
    ASSUME PoolTypeOK, NEW c \in Credentials, NEW t \in Nat, t <= clock
    PROVE  Cardinality(Active(c, clock)) <= Cardinality(Active(c, t))
  <1>1. ASSUME NEW l \in Active(c, clock) PROVE l \in Active(c, t)
    <2>1. l \in Requests \X {c} /\ Held(l) /\ lease[l].expires > clock
      BY DEF Active
    <2>2. lease[l].expires \in Nat /\ clock \in Nat
      BY <2>1, TypeFacts
    <2> QED BY <2>1, <2>2 DEF Active
  <1> QED BY <1>1, ActiveIsSubset, FS_Subset

\* A claim adds one lease, which was not there before, to a credential with a free slot.
LEMMA ClaimedFrame ==
    ASSUME PoolInv, NEW r \in Requests, Claimed(r)
    PROVE  LET k == req[r].cred
           IN  /\ k \in Credentials /\ At(r, "choosing") /\ lease[<<r, k>>].state = "none"
               /\ Cardinality(Active(k, clock)) < MaxInFlight[k]
               /\ clock' = clock /\ lock' = Nobody
               /\ lease' = [lease EXCEPT ![<<r, k>>] = [state |-> "held", expires |-> req[r].at + Ttl]]
               /\ \A c \in Credentials : Active(c, clock)' \ {<<r, k>>} \subseteq Active(c, clock)
               /\ \A c \in Credentials \ {k} : Active(c, clock)' = Active(c, clock)
  <1> DEFINE k == req[r].cred
  <1> USE DEF PoolInv
  <1>1. k \in Credentials /\ At(r, "choosing")
    BY TypeFacts DEF Claimed
  <1>2. lease[<<r, k>>].state = "none"
    BY <1>1 DEF Own
  <1>3. Cardinality(Active(k, clock)) < MaxInFlight[k]
    BY <1>1 DEF ChosenFree
  <1>4. /\ clock' = clock /\ lock' = Nobody
        /\ lease' = [lease EXCEPT ![<<r, k>>] = [state |-> "held", expires |-> req[r].at + Ttl]]
    BY DEF Claimed
  <1>5. \A l \in Requests \X Credentials : l # <<r, k>> => lease'[l] = lease[l]
    BY <1>4 DEF PoolTypeOK
  <1>6. ASSUME NEW c \in Credentials, NEW l \in Active(c, clock)', l # <<r, k>> PROVE l \in Active(c, clock)
    <2>1. l \in Requests \X {c} /\ Held(l)' /\ lease'[l].expires > clock'
      BY <1>6 DEF Active
    <2>2. lease'[l] = lease[l]
      BY <1>6, <2>1, <1>5
    <2> QED BY <2>1, <2>2, <1>4 DEF Active, Held
  <1>7. ASSUME NEW c \in Credentials \ {k} PROVE Active(c, clock)' = Active(c, clock)
    <2>1. \A l \in Requests \X {c} : lease'[l] = lease[l]
      BY <1>5
    <2> QED BY <1>4, <2>1 DEF Active, Held
  <1> QED BY <1>1, <1>2, <1>3, <1>4, <1>6, <1>7

-----------------------------------------------------------------------------
(* The invariant is inductive *)

\* The lock, time and maintenance leave what requests know alone.
LEMMA OwnStep ==
    ASSUME PoolTypeOK, \A r \in Requests : Own(r), [PoolNext]_vars, NEW q \in Requests
    PROVE  Own(q)'
  <1> USE TypeFacts
  <1>1. ASSUME NEW r \in Requests, RequestStep(r) PROVE Own(q)'
    <2>1. CASE q = r
      BY <1>1, <2>1, RequestOwn
    <2>2. CASE q # r
      BY <1>1, <2>2, RequestFrame DEF Own, At
    <2> QED BY <2>1, <2>2
  <1>2. CASE Tick
    <2>1. req' = req /\ lease' = lease /\ clock' = clock + 1 /\ clock \in Nat /\ Own(q)
      BY <1>2 DEF Tick
    <2>2. At(q, "calling") => clock < req[q].started + Timeout
      BY <1>2, <2>1, PoolAssumption DEF Tick, Overdue
    <2>3. req[q].at <= clock' /\ req[q].at \in Nat
      BY <2>1 DEF Own
    <2>4. At(q, "calling") => req[q].started <= clock' /\ clock' <= req[q].started + Timeout
      BY <2>1, <2>2, PoolAssumption DEF Own
    <2> QED BY <2>1, <2>3, <2>4 DEF Own, At
  <1>3. CASE Reconcile \/ UNCHANGED vars
    BY <1>3 DEF Reconcile, vars, Own, At
  <1> QED BY <1>1, <1>2, <1>3 DEF PoolNext

\* Reconciliation and time keep every row well formed.
LEMMA TypeStep ==
    ASSUME PoolTypeOK, [PoolNext]_vars
    PROVE  PoolTypeOK'
  <1>1. CASE Tick
    BY <1>1, TypeFacts, PoolAssumption DEF Tick, PoolTypeOK
  <1>2. CASE Reconcile
    <2>1. ASSUME NEW c \in Credentials
          PROVE  cred'[c] \in Credential /\ cred'[c].cooldownUntil = cred[c].cooldownUntil
      BY <1>2, TypeFacts, ActiveIsSubset DEF Reconcile, Credential
    <2> QED BY <1>2, <2>1 DEF Reconcile, PoolTypeOK
  <1>3. CASE UNCHANGED vars
    BY <1>3 DEF vars, PoolTypeOK
  <1> QED BY <1>1, <1>2, <1>3, RequestType DEF PoolNext

LEMMA LockedStep ==
    ASSUME PoolTypeOK, Locked, [PoolNext]_vars
    PROVE  Locked'
  <1>1. CASE Reconcile \/ Tick \/ UNCHANGED vars
    BY <1>1 DEF Reconcile, Tick, vars, Locked, At
  <1> QED BY <1>1, RequestLocked DEF PoolNext

LEMMA SlotStep ==
    ASSUME PoolInv, [PoolNext]_vars
    PROVE  SlotBound'
  <1> USE DEF PoolInv
  <1> SUFFICES ASSUME NEW c \in Credentials PROVE Cardinality(Active(c, clock)') <= MaxInFlight[c]
    BY DEF SlotBound
  <1>n. /\ Cardinality(Active(c, clock)) \in Nat /\ IsFiniteSet(Active(c, clock)) /\ MaxInFlight[c] \in Nat
        /\ Cardinality(Active(c, clock)) <= MaxInFlight[c]
    BY ActiveIsSubset, PoolAssumption DEF SlotBound
  <1>1. CASE Quiet
    BY <1>1, <1>n, QuietActive
  <1>2. ASSUME NEW r \in Requests, Claimed(r) PROVE Cardinality(Active(c, clock)') <= MaxInFlight[c]
    <2> DEFINE k == req[r].cred
    <2>1. CASE c # k
      BY <1>2, <1>n, <2>1, ClaimedFrame
    <2>2. CASE c = k
      <3>1. Active(c, clock)' \subseteq Active(c, clock) \cup {<<r, c>>}
        BY <1>2, <2>2, ClaimedFrame
      <3>2. /\ IsFiniteSet(Active(c, clock) \cup {<<r, c>>})
            /\ Cardinality(Active(c, clock) \cup {<<r, c>>}) <= Cardinality(Active(c, clock)) + 1
        <4> DEFINE A == Active(c, clock)
        <4>1. IsFiniteSet(A) /\ Cardinality(A) \in Nat
          BY <1>n
        <4> HIDE DEF A
        <4>2. /\ IsFiniteSet(A \cup {<<r, c>>})
              /\ Cardinality(A \cup {<<r, c>>}) = IF <<r, c>> \in A THEN Cardinality(A) ELSE Cardinality(A) + 1
          BY <4>1, FS_AddElement
        <4>3. Cardinality(A \cup {<<r, c>>}) <= Cardinality(A) + 1
          BY <4>1, <4>2
        <4> QED BY <4>2, <4>3 DEF A
      <3>3. Cardinality(Active(c, clock)') <= Cardinality(Active(c, clock) \cup {<<r, c>>})
        BY <3>1, <3>2, FS_Subset
      <3>4. Cardinality(Active(c, clock)) < MaxInFlight[c]
        BY <1>2, <2>2, ClaimedFrame
      <3>5. Cardinality(Active(c, clock)') \in Nat /\ Cardinality(Active(c, clock) \cup {<<r, c>>}) \in Nat
        <4>1. Active(c, clock)' \in SUBSET (Requests \X {c})
          BY DEF Active
        <4> QED BY <4>1, <3>2, FiniteLeases, FS_CardinalityType
      <3> QED BY <1>n, <3>2, <3>3, <3>4, <3>5
    <2> QED BY <2>1, <2>2
  <1> QED BY <1>1, <1>2, StepCases

\* Only the request with the lock chooses, and its choice is not taken before it commits.
LEMMA ChosenStep ==
    ASSUME PoolInv, [PoolNext]_vars, Locked'
    PROVE  ChosenFree'
  <1> USE DEF PoolInv
  <1> SUFFICES ASSUME NEW q \in Requests, At(q, "choosing")'
               PROVE  (Cardinality(Active(req[q].cred, clock)) < MaxInFlight[req[q].cred])'
    BY DEF ChosenFree
  <1>1. ASSUME NEW c \in Credentials, req'[q].cred = c, Quiet, Cardinality(Active(c, clock)) < MaxInFlight[c]
        PROVE  (Cardinality(Active(req[q].cred, clock)) < MaxInFlight[req[q].cred])'
    <2>1. Cardinality(Active(c, clock)') < MaxInFlight[c]
      BY <1>1, QuietActive, PoolAssumption
    <2> QED BY <1>1, <2>1
  <1>2. ASSUME NEW r \in Requests, Claimed(r)
        PROVE  FALSE
    <2>1. lock' = q /\ lock' = Nobody
      BY <1>2 DEF Claimed, Locked
    <2> QED BY <2>1, PoolAssumption
  <1>3. CASE At(q, "choosing") /\ req'[q].cred = req[q].cred
    BY <1>1, <1>2, <1>3, StepCases, TypeFacts DEF ChosenFree
  <1>4. CASE Choose(q)
    <2>1. PICK c \in Candidates(q) :
            req' = [req EXCEPT ![q] = [@ EXCEPT !.pc = "choosing", !.cred = c,
                                         !.seenInFlight = Cardinality(Active(c, req[q].at))]]
      BY <1>4 DEF Choose
    <2>2. c \in Credentials /\ Cardinality(Active(c, req[q].at)) < MaxInFlight[c]
      BY DEF Candidates, Usable, Free
    <2>3. req[q].at \in Nat /\ req[q].at <= clock
      BY TypeFacts DEF Own
    <2>4. Cardinality(Active(c, clock)) < MaxInFlight[c]
      BY <2>2, <2>3, ActiveShrinks, ActiveIsSubset, PoolAssumption
    <2>5. req'[q].cred = c /\ Quiet
      BY <1>4, <2>1, TypeFacts DEF PoolTypeOK, Request, Quiet
    <2> QED BY <1>1, <2>2, <2>4, <2>5
  <1>5. Choose(q) \/ (At(q, "choosing") /\ req'[q].cred = req[q].cred)
    <2>1. lock' = q
      BY DEF Locked
    <2>2. ASSUME NEW r \in Requests, Choose(r) PROVE r = q
      BY <2>1, <2>2 DEF Choose
    <2>3. ASSUME lock' = lock PROVE At(q, "choosing")
      BY <2>1, <2>3 DEF Locked
    <2>4. ASSUME NEW r \in Requests, RequestStep(r), ~Choose(r), ~Claimed(r)
          PROVE  At(q, "choosing") /\ req'[q] = req[q]
      <3>1. ~At(q, "choosing") => FALSE
        <4>1. lock' = lock \/ lock' = Nobody
          BY <2>4 DEF RequestStep, Begin, Exhausted, Call, NoCall, EndCall,
                     ReleaseRead, ReleaseApply, ReleaseFails, Die
        <4> QED BY <4>1, <2>1, <2>3, PoolAssumption
      <3>2. CASE q = r
        <4>1. Die(r)
          BY <3>1, <3>2, <2>4 DEF RequestStep, Begin, Exhausted, Call, NoCall, EndCall,
                     ReleaseRead, ReleaseApply, ReleaseFails, At
        <4>2. req'[q].pc = "dead"
          BY <4>1, <3>2, TypeFacts, OutsideTyped DEF Die, PoolTypeOK
        <4> QED BY <4>2 DEF At
      <3> QED BY <3>1, <3>2, <2>4, RequestFrame
    <2>5. CASE Reconcile \/ Tick \/ UNCHANGED vars
      BY <2>3, <2>5 DEF Reconcile, Tick, vars
    <2> QED BY <1>2, <2>2, <2>4, <2>5 DEF PoolNext
  <1> QED BY <1>3, <1>4, <1>5

LEMMA PoolInductive == PoolInv /\ [PoolNext]_vars => PoolInv'
  BY OwnStep, TypeStep, LockedStep, SlotStep, ChosenStep DEF PoolInv

THEOREM PoolInvariant == PoolSpec => []PoolInv
  BY InitPool, PoolInductive, PTL DEF PoolSpec

-----------------------------------------------------------------------------
(* What follows *)

\* Requests, leases and credentials keep their types, and no cooldown lasts longer than the
\* maximum of the pool, however often a credential failed.
THEOREM PoolTypeCorrect == PoolSpec => []PoolTypeOK
  BY PoolInvariant, PTL DEF PoolInv

\* Whoever left the loop alive gave every credential back, or failed to.
THEOREM NothingIsKept == PoolSpec => []NothingKept
  <1>1. PoolInv => NothingKept
    BY DEF PoolInv, NothingKept, Own, At, Using
  <1> QED BY <1>1, PoolInvariant, PTL

\* The lease of a prompt call outlasts the timer of the call.
LEMMA PromptCallsAreActive ==
    ASSUME PoolInv, NEW r \in Requests, At(r, "calling"), Prompt(r)
    PROVE  <<r, req[r].cred>> \in Active(req[r].cred, clock)
  <1> USE DEF PoolInv
  <1> DEFINE k == req[r].cred
  <1>1. k \in Credentials /\ clock \in Nat /\ req[r].at \in Nat /\ req[r].started \in Nat
    BY TypeFacts
  <1>2. /\ lease[<<r, k>>] = [state |-> "held", expires |-> req[r].at + Ttl]
        /\ clock <= req[r].started + Timeout
    <2>1. Own(r)
      OBVIOUS
    <2> QED BY <2>1 DEF Own, At, Using
  <1>3. clock < req[r].at + Ttl
    BY <1>1, <1>2, TtlFacts, PoolAssumption DEF Prompt
  <1> QED BY <1>1, <1>2, <1>3 DEF Active, Held

\* max_in_flight bounds the prompt calls under a credential.
THEOREM CredentialConcurrencyHolds == PoolSpec => []CredentialConcurrency
  <1>1. PoolInv => CredentialConcurrency
    <2> SUFFICES ASSUME PoolInv, NEW c \in Credentials
                 PROVE  Cardinality({r \in Calling(c) : Prompt(r)}) <= MaxInFlight[c]
      BY DEF CredentialConcurrency
    <2> DEFINE S == {r \in Calling(c) : Prompt(r)}
               f == [r \in S |-> <<r, c>>]
    <2>1. f \in Injection(S, Active(c, clock))
      <3>1. \A r \in S : <<r, c>> \in Active(c, clock)
        BY PromptCallsAreActive DEF Calling
      <3> QED BY <3>1 DEF Injection, IsInjective
    <2>2. IsFiniteSet(Active(c, clock)) /\ Cardinality(Active(c, clock)) \in Nat
      BY ActiveIsSubset
    <2>3. Cardinality(S) <= Cardinality(Active(c, clock)) /\ IsFiniteSet(S)
      BY <2>1, <2>2, FS_Injection
    <2>4. Cardinality(S) \in Nat
      BY <2>3, FS_CardinalityType
    <2> QED BY <2>2, <2>3, <2>4, PoolAssumption DEF PoolInv, SlotBound
  <1> QED BY <1>1, PoolInvariant, PTL

\* Every step takes one free slot, gives slots back, or leaves them alone.
THEOREM PoolIsSlots == PoolSpec => ImplementsSlots
  <1>1. PoolInit => Limits!Init
    <2> SUFFICES ASSUME PoolInit PROVE Limits!Init
      OBVIOUS
    <2>1. \A c \in Credentials : Active(c, clock) = {}
      BY DEF PoolInit, Active, Held
    <2>2. Spent = {}
      BY DEF PoolInit, Spent
    <2> QED BY <2>1, <2>2 DEF Limits!Init, Holders
  <1>2. PoolInv /\ [PoolNext]_vars => [Limits!Next]_(Limits!vars)
    <2> SUFFICES ASSUME PoolInv, [PoolNext]_vars PROVE Limits!Next
      OBVIOUS
    <2> USE DEF PoolInv
    <2>g. ASSUME NEW S \in SUBSET (Requests \X Credentials),
                 Spent' = Spent \cup S,
                 \A c \in Credentials : Active(c, clock)' = Active(c, clock) \ S
          PROVE  Limits!Next
      <3>1. Limits!Give(S)
        BY <2>g DEF Limits!Give, Holders
      <3> QED BY <3>1 DEF Limits!Next
    <2>1. CASE Quiet
      <3> DEFINE S == {l \in Requests \X Credentials : l \in Active(l[2], clock) /\ l \notin Active(l[2], clock)'}
      <3>1. \A c \in Credentials : Active(c, clock)' = Active(c, clock) \ S
        <4>1. ASSUME NEW c \in Credentials, NEW l \in Active(c, clock) PROVE l \in Requests \X Credentials /\ l[2] = c
          BY <4>1 DEF Active
        <4> QED BY <2>1, <4>1, QuietActive
      <3>2. Spent' = Spent \cup S
        <4>1. \A l \in Requests \X Credentials : lease'[l].state = "none" <=> lease[l].state = "none"
          BY <2>1, QuietLeases
        <4>2. \A l \in Requests \X Credentials : lease[l].state = "none" => l \notin Active(l[2], clock)
          BY DEF Active, Held
        <4>3. \A l \in Requests \X Credentials : l \in Active(l[2], clock)' => l \in Active(l[2], clock)
          BY <2>1, QuietActive
        <4> QED BY <4>1, <4>2, <4>3 DEF Spent
      <3> QED BY <3>1, <3>2, <2>g
    <2>2. ASSUME NEW r \in Requests, Claimed(r) PROVE Limits!Next
      <3>k. PICK k \in Credentials : k = req[r].cred
        BY TypeFacts
      <3> DEFINE n == <<r, k>>
                 e == req[r].at + Ttl
      <3>1. /\ lease[n].state = "none" /\ Cardinality(Active(k, clock)) < MaxInFlight[k]
            /\ lease' = [lease EXCEPT ![n] = [state |-> "held", expires |-> e]] /\ clock' = clock
            /\ \A c \in Credentials : Active(c, clock)' \ {n} \subseteq Active(c, clock)
            /\ \A c \in Credentials \ {k} : Active(c, clock)' = Active(c, clock)
        BY <2>2, <3>k, ClaimedFrame
      <3>2. n \in Requests \X Credentials /\ n \in Requests \X {k}
        OBVIOUS
      <3>3. /\ lease'[n] = [state |-> "held", expires |-> e]
            /\ \A l \in Requests \X Credentials : l # n => lease'[l] = lease[l]
        BY <3>1, <3>2 DEF PoolTypeOK
      <3>4. n \notin Spent /\ \A c \in Credentials : n \notin Active(c, clock)
        BY <3>1, <3>2 DEF Spent, Active, Held
      <3>5. \A l \in Active(k, clock) : l \in Active(k, clock)'
        <4> SUFFICES ASSUME NEW l \in Active(k, clock) PROVE l \in Active(k, clock)'
          OBVIOUS
        <4>1. l \in Requests \X {k} /\ Held(l) /\ lease[l].expires > clock
          BY DEF Active
        <4>2. lease'[l] = lease[l]
          BY <4>1, <3>3, <3>4
        <4> QED BY <4>1, <4>2, <3>1 DEF Active, Held
      <3>6. n \in Active(k, clock)' <=> e > clock
        BY <3>1, <3>2, <3>3 DEF Active, Held
      <3>7. \A l \in Requests \X Credentials : l # n => (l \in Spent' <=> l \in Spent)
        <4> SUFFICES ASSUME NEW l \in Requests \X Credentials, l # n PROVE l \in Spent' <=> l \in Spent
          OBVIOUS
        <4>1. lease'[l] = lease[l] /\ clock' = clock
          BY <3>1, <3>3
        <4>2. l \in Active(l[2], clock)' <=> l \in Active(l[2], clock)
          BY <4>1 DEF Active, Held
        <4> QED BY <4>1, <4>2 DEF Spent
      <3>8. n \in Spent' <=> ~(e > clock)
        BY <3>2, <3>3, <3>6 DEF Spent
      <3>9. Spent \subseteq Requests \X Credentials /\ Spent' \subseteq Requests \X Credentials
        BY DEF Spent
      <3>10. CASE e > clock
        <4>1. Spent' = Spent
          <5>1. n \notin Spent' /\ n \notin Spent
            BY <3>4, <3>8, <3>10
          <5>2. \A l \in Requests \X Credentials : l \in Spent' <=> l \in Spent
            BY <5>1, <3>7
          <5> QED BY <5>2, <3>9
        <4>2. \A c \in Credentials : Active(c, clock)' = IF c = k THEN Active(c, clock) \cup {n} ELSE Active(c, clock)
          BY <3>1, <3>5, <3>6, <3>10
        <4>3. Holders' = [Holders EXCEPT ![k] = @ \cup {n}]
          BY <4>2 DEF Holders
        <4>4. n \notin Spent /\ \A c \in Credentials : n \notin Holders[c]
          BY <3>4 DEF Holders
        <4>5. Limits!Cardinality(Holders[k]) < MaxInFlight[k]
          <5>1. Limits!Cardinality(Holders[k]) = Cardinality(Holders[k])
            BY DEF Cardinality, Limits!Cardinality
          <5> QED BY <5>1, <3>1 DEF Holders
        <4>6. Limits!Take(k, n)
          BY <4>1, <4>3, <4>4, <4>5 DEF Limits!Take
        <4> QED BY <4>6, <3>2 DEF Limits!Next
      <3>11. CASE ~(e > clock)
        <4>1. Spent' = Spent \cup {n}
          BY <3>2, <3>7, <3>8, <3>9, <3>11
        <4>2. \A c \in Credentials : Active(c, clock)' = Active(c, clock) \ {n}
          BY <3>1, <3>4, <3>5, <3>6, <3>11
        <4> QED BY <4>1, <4>2, <3>2, <2>g
      <3> QED BY <3>10, <3>11
    <2> QED BY <2>1, <2>2, StepCases
  <1> QED BY <1>1, <1>2, PoolInvariant, PTL DEF PoolSpec, ImplementsSlots, Limits!Spec
=============================================================================
