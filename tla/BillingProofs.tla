--------------------------- MODULE BillingProofs ---------------------------
(***************************************************************************)
(* Theorems about Billing, for every value of its constants: first what    *)
(* the proofs need of sums (the induction on numbers is obtained from the  *)
(* well-foundedness of < on Nat: the induction theorems of the library     *)
(* have an operator parameter, a set does as well), then the money, then   *)
(* the idempotency keys: who is bound to a key and when it changes hands.  *)
(***************************************************************************)
EXTENDS Billing, SequenceTheorems, FiniteSetTheorems, WellFoundedInduction, TLAPS

-----------------------------------------------------------------------------
(* Sums *)

\* Every non-empty set of naturals has a least element.
LEMMA LeastElement ==
  ASSUME NEW T \in SUBSET Nat, T # {}
  PROVE  \E n \in T : \A m \in T : n <= m
<1>1. \E n \in T : \A m \in T : <<m, n>> \notin OpToRel(<, Nat)
  BY NatLessThanWellFounded, WFMin
<1>2. \A m, n \in T : <<m, n>> \notin OpToRel(<, Nat) => n <= m
  BY DEF OpToRel
<1>3. QED
  BY <1>1, <1>2

\* A set of numbers that holds 0 and is closed under +1 up to N holds all of 0..N.
LEMMA Induction ==
  ASSUME NEW N \in Nat, NEW S, 0 \in S, \A n \in 0..N : n \in S /\ n < N => n + 1 \in S
  PROVE  0..N \subseteq S
<1>1. SUFFICES ASSUME (0..N) \ S # {} PROVE FALSE
  OBVIOUS
<1>2. (0..N) \ S \in SUBSET Nat
  OBVIOUS
<1>3. PICK n \in (0..N) \ S : \A m \in (0..N) \ S : n <= m
  BY <1>1, <1>2, LeastElement
<1>4. n # 0 /\ n - 1 \in 0..N /\ n - 1 < N /\ ~(n <= n - 1)
  BY <1>3
<1>5. n - 1 \in S
  BY <1>3, <1>4
<1>6. (n - 1) + 1 = n
  BY <1>3
<1>7. QED
  BY <1>3, <1>4, <1>5, <1>6

\* The recursive definition of PartialSums defines the function it looks like.
LEMMA PartialSumsDef ==
  ASSUME NEW N \in Nat, NEW f \in [1..N -> Nat]
  PROVE  /\ PartialSums(f, N) \in [0..N -> Nat]
         /\ PartialSums(f, N)[0] = 0
         /\ \A n \in 1..N : PartialSums(f, N)[n] = PartialSums(f, N)[n - 1] + f[n]
<1> DEFINE Upto(n, g) == /\ g[0] = 0
                         /\ \A m \in 1..n : g[m] = g[m - 1] + f[m]
           S == {n \in 0..N : \E g \in [0..n -> Nat] : Upto(n, g)}
<1>1. 0 \in S
  <2> DEFINE z == [m \in 0..0 |-> 0]
  <2>1. z \in [0..0 -> Nat] /\ Upto(0, z)
    OBVIOUS
  <2> HIDE DEF z, Upto
  <2>2. \E g \in [0..0 -> Nat] : Upto(0, g)
    BY <2>1
  <2>3. 0 \in 0..N
    OBVIOUS
  <2>4. QED
    BY <2>2, <2>3
<1>2. ASSUME NEW n \in 0..N, n \in S, n < N
      PROVE  n + 1 \in S
  <2>1. PICK g \in [0..n -> Nat] : Upto(n, g)
    BY <1>2
  <2> DEFINE h == [m \in 0..(n + 1) |-> IF m = n + 1 THEN g[n] + f[n + 1] ELSE g[m]]
  <2>0. n \in 0..n /\ n + 1 \in 1..N /\ g[n] + f[n + 1] \in Nat
    <3>1. n \in 0..n /\ n + 1 \in 1..N
      BY <1>2
    <3>2. QED
      BY <3>1
  <2>2. h \in [0..(n + 1) -> Nat]
    <3>1. ASSUME NEW m \in 0..(n + 1) PROVE h[m] \in Nat
      BY <2>0
    <3>2. QED
      BY <3>1
  <2>3. Upto(n + 1, h)
    <3>1. h[0] = 0
      BY <2>1
    <3>2. ASSUME NEW m \in 1..(n + 1) PROVE h[m] = h[m - 1] + f[m]
      <4>1. CASE m = n + 1
        BY <4>1
      <4>2. CASE m # n + 1
        <5>1. m \in 1..n /\ h[m] = g[m] /\ h[m - 1] = g[m - 1]
          BY <4>2
        <5>2. QED
          BY <2>1, <5>1
      <4>3. QED
        BY <4>1, <4>2
    <3>3. QED
      BY <3>1, <3>2
  <2> HIDE DEF h, Upto
  <2>4. \E d \in [0..(n + 1) -> Nat] : Upto(n + 1, d)
    BY <2>2, <2>3
  <2>5. n + 1 \in 0..N
    BY <1>2
  <2>6. QED
    BY <2>4, <2>5
<1>3. N \in S
  <2>1. \A n \in 0..N : n \in S /\ n < N => n + 1 \in S
    BY <1>2
  <2> HIDE DEF S
  <2>2. 0..N \subseteq S
    BY <1>1, <2>1, Induction
  <2>3. QED
    BY <2>2
<1>4. PICK g \in [0..N -> Nat] : Upto(N, g)
  BY <1>3
<1>5. g = [n \in 0..N |-> IF n = 0 THEN 0 ELSE g[n - 1] + f[n]]
  BY <1>4
<1> DEFINE p == PartialSums(f, N)
<1>6. p = [n \in 0..N |-> IF n = 0 THEN 0 ELSE p[n - 1] + f[n]]
  BY <1>5 DEF PartialSums
<1> HIDE DEF p
<1>7. DOMAIN p = 0..N /\ p[0] = 0 /\ \A n \in 1..N : p[n] = p[n - 1] + f[n]
  BY <1>6
<1>8. \A n \in 0..N : p[n] \in Nat
  <2> DEFINE Q == {n \in 0..N : p[n] \in Nat}
  <2>1. 0 \in Q
    BY <1>7
  <2>2. \A n \in 0..N : n \in Q /\ n < N => n + 1 \in Q
    BY <1>7
  <2>3. 0..N \subseteq Q
    <3> HIDE DEF Q
    <3>1. QED BY <2>1, <2>2, Induction
  <2>4. QED
    BY <2>3
<1>9. p \in [0..N -> Nat]
  BY <1>6, <1>7, <1>8
<1>10. QED
  BY <1>7, <1>9 DEF p

LEMMA TotalType ==
  ASSUME NEW N \in Nat, NEW f \in [1..N -> Nat]
  PROVE  Total(f, N) \in Nat
BY PartialSumsDef DEF Total

\* A sum of zeros is zero.
LEMMA TotalZero ==
  ASSUME NEW N \in Nat, NEW f \in [1..N -> Nat], \A n \in 1..N : f[n] = 0
  PROVE  Total(f, N) = 0
<1> DEFINE p == PartialSums(f, N)
           S == {n \in 0..N : p[n] = 0}
<1>1. p[0] = 0 /\ \A n \in 1..N : p[n] = p[n - 1] + f[n]
  BY PartialSumsDef
<1> HIDE DEF p
<1>2. 0 \in S
  BY <1>1
<1>3. \A n \in 0..N : n \in S /\ n < N => n + 1 \in S
  BY <1>1
<1>4. 0..N \subseteq S
  <2> HIDE DEF S
  <2>1. QED BY <1>2, <1>3, Induction
<1>5. QED
  BY <1>4 DEF Total, p

\* Changing one term changes the sum by the difference, and no term exceeds the sum.
LEMMA TotalUpdate ==
  ASSUME NEW N \in Nat, NEW f \in [1..N -> Nat], NEW g \in [1..N -> Nat],
         NEW r \in 1..N, \A q \in 1..N : q # r => g[q] = f[q]
  PROVE  /\ Total(g, N) = Total(f, N) - f[r] + g[r]
         /\ f[r] <= Total(f, N)
<1> DEFINE p == PartialSums(f, N)
           s == PartialSums(g, N)
           S == {n \in 0..N : IF n < r THEN s[n] = p[n]
                              ELSE s[n] = p[n] - f[r] + g[r] /\ f[r] <= p[n]}
<1>1. p \in [0..N -> Nat] /\ p[0] = 0 /\ \A n \in 1..N : p[n] = p[n - 1] + f[n]
  BY PartialSumsDef
<1>2. s \in [0..N -> Nat] /\ s[0] = 0 /\ \A n \in 1..N : s[n] = s[n - 1] + g[n]
  BY PartialSumsDef
<1> HIDE DEF p, s
<1>3. 0 \in S
  BY <1>1, <1>2
<1>4. ASSUME NEW n \in 0..N, n \in S, n < N
      PROVE  n + 1 \in S
  <2>1. n + 1 \in 1..N /\ p[n + 1] = p[n] + f[n + 1] /\ s[n + 1] = s[n] + g[n + 1]
    <3> HIDE DEF S
    <3>1. n + 1 \in 1..N /\ (n + 1) - 1 = n
      BY <1>4
    <3>2. QED
      BY <3>1, <1>1, <1>2
  <2>2. p[n] \in Nat /\ s[n] \in Nat /\ f[n + 1] \in Nat /\ g[n + 1] \in Nat
        /\ f[r] \in Nat /\ g[r] \in Nat
    BY <1>1, <1>2, <2>1
  <2> DEFINE At(m) == IF m < r THEN s[m] = p[m]
                      ELSE s[m] = p[m] - f[r] + g[r] /\ f[r] <= p[m]
  <2>0. At(n)
    BY <1>4
  <2>7. SUFFICES At(n + 1)
    BY <2>1
  <2> HIDE DEF S
  <2>3. CASE n + 1 < r
    <3>1. f[n + 1] = g[n + 1] /\ n < r
      BY <2>1, <2>3
    <3>2. QED
      BY <2>1, <2>2, <2>3, <2>0, <3>1
  <2>4. CASE n + 1 = r
    <3>1. s[n] = p[n] /\ f[n + 1] = f[r] /\ g[n + 1] = g[r]
      BY <2>4, <2>0
    <3>2. QED
      BY <2>1, <2>2, <2>4, <3>1
  <2>5. CASE n + 1 > r
    <3>1. f[n + 1] = g[n + 1] /\ ~(n < r) /\ ~(n + 1 < r)
      BY <2>1, <2>5
    <3>2. s[n] = p[n] - f[r] + g[r] /\ f[r] <= p[n]
      BY <2>0, <3>1
    <3>3. s[n + 1] = p[n + 1] - f[r] + g[r]
      <4>1. s[n + 1] = (p[n] - f[r] + g[r]) + f[n + 1]
        BY <2>1, <3>1, <3>2
      <4>2. (p[n] - f[r] + g[r]) + f[n + 1] = (p[n] + f[n + 1]) - f[r] + g[r]
        BY <2>2, SMTT(30)
      <4>3. QED
        BY <2>1, <4>1, <4>2
    <3>4. f[r] <= p[n + 1]
      <4> HIDE DEF At
      <4>1. p[n + 1] = p[n] + f[n + 1] /\ f[r] <= p[n]
        BY <2>1, <3>2
      <4>2. QED
        BY <2>2, <4>1, SMTT(30)
    <3>5. QED
      BY <3>1, <3>3, <3>4, Zenon
  <2>6. QED
    BY <2>3, <2>4, <2>5
<1>5. 0..N \subseteq S
  <2> HIDE DEF S
  <2>1. \A n \in 0..N : n \in S /\ n < N => n + 1 \in S
    BY <1>4
  <2>2. QED BY <1>3, <2>1, Induction, Zenon
<1>6. QED
  BY <1>5 DEF Total, p, s

-----------------------------------------------------------------------------
(* Types and money *)

LEMMA NoRequestType == NoRequest \in Request
  BY BillingAssumption DEF NoRequest, Request, RequestStatus

LEMMA PostType ==
  ASSUME TypeOK, NEW u \in Users, NEW r \in RequestIds, NEW amount \in Nat,
         NEW type \in {"ai_usage_reservation", "ai_usage_refund"},
         type = "ai_usage_reservation" => amount <= balance[u],
         Post(u, r, type, amount)
  PROVE  /\ balance' \in [Users -> Nat]
         /\ ledger' \in [Users -> Seq(LedgerEntry)]
<1> DEFINE after == balance[u] + (IF type = "ai_usage_reservation" THEN -1 ELSE 1) * amount
           entry == [request |-> r, type |-> type, amount |-> amount,
                     before |-> balance[u], after |-> after]
<1>1. balance[u] \in Nat /\ after \in Nat
  BY DEF TypeOK
<1>2. entry \in LedgerEntry
  BY <1>1 DEF LedgerEntry
<1>3. balance' = [balance EXCEPT ![u] = after]
  BY DEF Post
<1>4. ledger' = IF amount > 0 THEN [ledger EXCEPT ![u] = Append(@, entry)] ELSE ledger
  BY DEF Post
<1> HIDE DEF after, entry
<1>5. balance' \in [Users -> Nat]
  BY <1>1, <1>3 DEF TypeOK
<1>6. Append(ledger[u], entry) \in Seq(LedgerEntry)
  BY <1>2 DEF TypeOK
<1>7. QED
  BY <1>4, <1>5, <1>6 DEF TypeOK

USE DEF RequestIds

\* What every operation on an existing row assumes of it.
LEMMA RowType ==
  ASSUME TypeOK, NEW r \in RequestIds
  PROVE  /\ request[r] \in Request /\ reservation[r] \in Reservation
         /\ request[r].apiKey \in ApiKeys /\ UserOf(r) \in Users
         /\ request[r].reserved \in Nat
         /\ reservation[r].reserved \in Nat /\ reservation[r].charged \in Nat
BY BillingAssumption DEF TypeOK, Request, Reservation, UserOf

LEMMA MonusType == ASSUME NEW a \in Nat, NEW b \in Nat PROVE Monus(a, b) \in Nat
BY DEF Monus

LEMMA LesserType ==
  ASSUME NEW a \in Nat, NEW b \in Nat
  PROVE  Lesser(a, b) \in Nat /\ Lesser(a, b) <= b /\ b - Lesser(a, b) \in Nat
BY DEF Lesser

LEMMA ReserveType ==
  ASSUME TypeOK, NEW r \in RequestIds, NEW k \in ApiKeys, NEW i \in IdempotencyKeys \cup {NoKey},
         NEW f \in Fingerprints, NEW amount \in Nat, NEW row \in ReplayRow,
         Reserve(r, k, i, f, amount, row)
  PROVE  TypeOK'
<1> DEFINE new == [status |-> "reserved", apiKey |-> k, idempotencyKey |-> i,
                   fingerprint |-> f, reserved |-> amount, charged |-> 0,
                   refunded |-> 0, dispatched |-> FALSE]
<1>1. new \in Request
  BY DEF Request, RequestStatus
<1>2. \A q \in RequestIds : request[q] \in Request
                            /\ [request[q] EXCEPT !.idempotencyKey = NoKey] \in Request
  BY DEF TypeOK, Request
<1>3. request' \in [RequestIds -> Request]
  <2>1. request' = [Unbound(k, i) EXCEPT ![r] = new]
    BY DEF Reserve
  <2>3. Unbound(k, i) \in [RequestIds -> Request]
    BY <1>2 DEF Unbound
  <2> HIDE DEF new
  <2>2. QED
    BY <1>1, <2>1, <2>3
<1>4. reservation' \in [RequestIds -> Reservation]
  <2>1. [state |-> "reserved", reserved |-> amount, charged |-> 0,
         refunded |-> 0, overdue |-> FALSE] \in Reservation
    BY DEF Reservation, ReservationState
  <2>2. QED
    BY <2>1 DEF Reserve, TypeOK
<1>5. spendReserved' \in [ApiKeys -> Nat]
  BY DEF Reserve, TypeOK
<1>6. OwnerOf[k] \in Users /\ Admission(k, amount) = "reserved"
  <2>1. OwnerOf[k] \in Users
    BY BillingAssumption
  <2>2. ReserveOutcome(k, i, f, amount, row) = "reserved"
    BY DEF Reserve
  <2>3. \A q : BindingOutcome(q, row) # "reserved"
    BY DEF BindingOutcome, ReplayRow
  <2>4. QED
    BY <2>1, <2>2, <2>3 DEF ReserveOutcome
<1>7. amount <= balance[OwnerOf[k]]
  BY <1>6 DEF Admission, TypeOK
<1>8. balance' \in [Users -> Nat] /\ ledger' \in [Users -> Seq(LedgerEntry)]
  BY <1>6, <1>7, PostType DEF Reserve
<1>9. QED
  BY <1>3, <1>4, <1>5, <1>8 DEF Reserve, TypeOK

LEMMA SettleType ==
  ASSUME TypeOK, NEW r \in RequestIds, NEW actual \in Nat, NEW zeroUsage \in BOOLEAN,
         Settle(r, actual, zeroUsage)
  PROVE  TypeOK'
<1> DEFINE held == reservation[r].reserved
           charged == Lesser(actual, held)
           k == request[r].apiKey
<1>1. held \in Nat /\ charged \in Nat /\ held - charged \in Nat /\ k \in ApiKeys
      /\ UserOf(r) \in Users /\ request[r].reserved \in Nat
  BY RowType, LesserType
<1>2. /\ reservation' = [reservation EXCEPT
                          ![r] = [state |-> "settled", reserved |-> held, charged |-> charged,
                                  refunded |-> held - charged, overdue |-> FALSE]]
      /\ spendReserved' = [spendReserved EXCEPT ![k] = Monus(@, request[r].reserved)]
      /\ spendUsed' = [spendUsed EXCEPT ![k] = @ + charged]
      /\ Post(UserOf(r), r, "ai_usage_refund", held - charged)
      /\ request' = [request EXCEPT
                       ![r] = [@ EXCEPT !.status = "succeeded", !.charged = charged,
                                        !.refunded = held - charged]]
      /\ UNCHANGED <<keyActive, sweep, aborts>>
  BY DEF Settle
<1> HIDE DEF held, charged, k
<1>3. reservation' \in [RequestIds -> Reservation]
  <2>1. [state |-> "settled", reserved |-> held, charged |-> charged, refunded |-> held - charged,
         overdue |-> FALSE] \in Reservation
    BY <1>1 DEF Reservation, ReservationState
  <2>2. reservation \in [RequestIds -> Reservation]
    BY DEF TypeOK
  <2>3. QED
    BY <1>2, <2>1, <2>2
<1>4. spendReserved' \in [ApiKeys -> Nat] /\ spendUsed' \in [ApiKeys -> Nat]
  <2>1. spendReserved \in [ApiKeys -> Nat] /\ spendUsed \in [ApiKeys -> Nat]
    BY DEF TypeOK
  <2>2. spendReserved[k] \in Nat /\ spendUsed[k] \in Nat
    BY <1>1, <2>1
  <2>3. Monus(spendReserved[k], request[r].reserved) \in Nat
    BY <1>1, <2>2, MonusType, Zenon
  <2>4. spendUsed[k] + charged \in Nat
    BY <1>1, <2>2
  <2>5. QED
    BY <1>2, <2>1, <2>3, <2>4
<1>5. balance' \in [Users -> Nat] /\ ledger' \in [Users -> Seq(LedgerEntry)]
  BY <1>1, <1>2, PostType
<1>6. request' \in [RequestIds -> Request]
  <2>1. [request[r] EXCEPT !.status = "succeeded", !.charged = charged,
                           !.refunded = held - charged] \in Request
    BY <1>1, RowType DEF Request, RequestStatus
  <2>2. QED
    BY <1>2, <2>1 DEF TypeOK
<1>7. QED
  BY <1>2, <1>3, <1>4, <1>5, <1>6 DEF TypeOK

LEMMA RefundType ==
  ASSUME TypeOK, NEW r \in RequestIds, RefundRows(r), sweep' \in [Maintainers -> Sweep]
  PROVE  TypeOK'
<1> DEFINE held == reservation[r].reserved
           k == request[r].apiKey
<1>1. held \in Nat /\ k \in ApiKeys /\ UserOf(r) \in Users /\ request[r].reserved \in Nat
  BY RowType
<1>2. /\ reservation' = [reservation EXCEPT
                          ![r] = [state |-> "refunded", reserved |-> held, charged |-> 0,
                                  refunded |-> held, overdue |-> FALSE]]
      /\ spendReserved' = [spendReserved EXCEPT ![k] = Monus(@, request[r].reserved)]
      /\ Post(UserOf(r), r, "ai_usage_refund", held)
      /\ request' = [request EXCEPT
                       ![r] = [@ EXCEPT !.status = "refunded", !.charged = 0, !.refunded = held]]
      /\ UNCHANGED <<keyActive, spendUsed, aborts>>
  BY DEF RefundRows
<1> HIDE DEF held, k
<1>3. reservation' \in [RequestIds -> Reservation]
  BY <1>1, <1>2 DEF TypeOK, Reservation, ReservationState
<1>4. spendReserved' \in [ApiKeys -> Nat]
  BY <1>1, <1>2, MonusType DEF TypeOK
<1>5. balance' \in [Users -> Nat] /\ ledger' \in [Users -> Seq(LedgerEntry)]
  BY <1>1, <1>2, PostType
<1>6. request' \in [RequestIds -> Request]
  <2>1. [request[r] EXCEPT !.status = "refunded", !.charged = 0, !.refunded = held] \in Request
    BY <1>1, RowType DEF Request, RequestStatus
  <2>2. QED
    BY <1>2, <2>1 DEF TypeOK
<1>7. QED
  BY <1>2, <1>3, <1>4, <1>5, <1>6 DEF TypeOK

LEMMA QuarantineType ==
  ASSUME TypeOK, NEW r \in RequestIds, QuarantineRows(r), sweep' \in [Maintainers -> Sweep]
  PROVE  TypeOK'
<1>1. /\ [request[r] EXCEPT !.status = "needs_reconciliation"] \in Request
      /\ [reservation[r] EXCEPT !.state = "needs_reconciliation", !.overdue = FALSE] \in Reservation
  BY RowType DEF Request, RequestStatus, Reservation, ReservationState
<1>2. request' \in [RequestIds -> Request] /\ reservation' \in [RequestIds -> Reservation]
  BY <1>1 DEF QuarantineRows, TypeOK
<1>3. QED
  BY <1>2 DEF QuarantineRows, TypeOK, money

\* The SELECTs of a sweep, and the removal of a row it has handled.
LEMMA SweepType ==
  ASSUME TypeOK, NEW m \in Maintainers, NEW state,
         NEW phase \in {"stale", "quarantine"}
  PROVE  /\ \A b \in Batches(OverdueIn(state)) :
              [sweep EXCEPT ![m] = [phase |-> phase, rows |-> b]] \in [Maintainers -> Sweep]
         /\ \A x : [sweep EXCEPT ![m].rows = @ \ {x}] \in [Maintainers -> Sweep]
         /\ [sweep EXCEPT ![m] = [phase |-> phase, rows |-> {}]] \in [Maintainers -> Sweep]
<1>1. OverdueIn(state) \subseteq RequestIds \X BOOLEAN
  BY DEF OverdueIn, TypeOK, Request
<1>2. \A b \in Batches(OverdueIn(state)) : b \in SUBSET (RequestIds \X BOOLEAN)
  BY <1>1 DEF Batches
<1>3. \A x : [sweep EXCEPT ![m].rows = @ \ {x}] \in [Maintainers -> Sweep]
  BY DEF TypeOK, Sweep
<1>4. QED
  BY <1>2, <1>3 DEF TypeOK, Sweep

LEMMA TypeStep == TypeOK /\ [Next]_vars => TypeOK'
<1> SUFFICES ASSUME TypeOK, [Next]_vars PROVE TypeOK'
  OBVIOUS
<1>1. ASSUME NEW r \in RequestIds, NEW k \in ApiKeys, NEW i \in IdempotencyKeys \cup {NoKey},
             NEW f \in Fingerprints, NEW amount \in Amounts, NEW row \in ReplayRow,
             Reserve(r, k, i, f, amount, row)
      PROVE  TypeOK'
  BY <1>1, BillingAssumption, ReserveType
<1>2. ASSUME NEW r \in RequestIds, MarkDispatched(r)
      PROVE  TypeOK'
  <2>1. [request[r] EXCEPT !.status = "dispatched", !.dispatched = TRUE] \in Request
    BY RowType DEF Request, RequestStatus
  <2>2. request' \in [RequestIds -> Request]
    BY <1>2, <2>1 DEF MarkDispatched, TypeOK
  <2>3. QED
    BY <1>2, <2>2 DEF MarkDispatched, TypeOK, money
<1>3. ASSUME NEW r \in RequestIds, Refund(r)
      PROVE  TypeOK'
  <2>1. sweep' \in [Maintainers -> Sweep]
    BY <1>3 DEF Refund, TypeOK
  <2>2. QED
    BY <1>3, <2>1, RefundType DEF Refund
<1>4. ASSUME NEW r \in RequestIds, MarkNeedsReconciliation(r)
      PROVE  TypeOK'
  <2>1. sweep' \in [Maintainers -> Sweep]
    BY <1>4 DEF MarkNeedsReconciliation, TypeOK
  <2>2. QED
    BY <1>4, <2>1, QuarantineType DEF MarkNeedsReconciliation
<1>5. ASSUME NEW r \in RequestIds, PassDeadline(r)
      PROVE  TypeOK'
  <2>1. [reservation[r] EXCEPT !.overdue = TRUE] \in Reservation
    BY RowType DEF Reservation
  <2>2. reservation' \in [RequestIds -> Reservation]
    BY <1>5, <2>1 DEF PassDeadline, TypeOK
  <2>3. QED
    BY <1>5, <2>2 DEF PassDeadline, TypeOK, money
<1>6. ASSUME NEW r \in RequestIds, NEW actual \in Costs, NEW zeroUsage \in BOOLEAN,
             Settle(r, actual, zeroUsage)
      PROVE  TypeOK'
  BY <1>6, BillingAssumption, SettleType
<1>7. ASSUME NEW k \in ApiKeys, RevokeKey(k)
      PROVE  TypeOK'
  BY <1>7 DEF RevokeKey, TypeOK, money
<1>8. ASSUME NEW m \in Maintainers, ReadStale(m) \/ ReadQuarantined(m)
      PROVE  TypeOK'
  <2>1. sweep' \in [Maintainers -> Sweep]
    BY <1>8, SweepType DEF ReadStale, ReadQuarantined
  <2>2. QED
    BY <1>8, <2>1 DEF ReadStale, ReadQuarantined, TypeOK, money
<1>9. ASSUME NEW m \in Maintainers, NEW r \in RequestIds, NEW d \in BOOLEAN,
             ReconcileRow(m, r, d) \/ ResolveRow(m, r, d)
      PROVE  TypeOK'
  <2>1. sweep' \in [Maintainers -> Sweep]
    BY <1>9, SweepType DEF ReconcileRow, ResolveRow
  <2>2. CASE UNCHANGED <<money, keyActive, request, reservation, aborts>>
    BY <2>1, <2>2 DEF TypeOK, money
  <2>3. CASE RefundRows(r)
    BY <2>1, <2>3, RefundType
  <2>4. CASE QuarantineRows(r)
    BY <2>1, <2>4, QuarantineType
  <2>5. QED
    BY <1>9, <2>2, <2>3, <2>4 DEF ReconcileRow, ResolveRow
<1>10. ASSUME NEW m \in Maintainers, AbortSweep(m)
       PROVE  TypeOK'
  <2>1. sweep' \in [Maintainers -> Sweep]
    BY <1>10, SweepType DEF AbortSweep
  <2>2. aborts' \in 0..MaxAborts
    BY <1>10, BillingAssumption DEF AbortSweep, TypeOK
  <2>3. QED
    BY <1>10, <2>1, <2>2 DEF AbortSweep, TypeOK, money
<1>11. CASE UNCHANGED vars
  BY <1>11 DEF vars, TypeOK
<1>12. QED
  BY <1>1, <1>2, <1>3, <1>4, <1>5, <1>6, <1>7, <1>8, <1>9, <1>10, <1>11 DEF Next, SweepStep

LEMMA TypeInit == Init => TypeOK
<1> SUFFICES ASSUME Init PROVE TypeOK
  OBVIOUS
<1>1. request \in [RequestIds -> Request]
  BY NoRequestType DEF Init
<1>2. NoReservation \in Reservation
  BY DEF NoReservation, Reservation, ReservationState
<1>3. reservation \in [RequestIds -> Reservation]
  BY <1>2 DEF Init
<1>5. sweep \in [Maintainers -> Sweep]
  BY DEF Init, Sweep
<1>6. aborts \in 0..MaxAborts
  BY BillingAssumption DEF Init
<1>7. ledger \in [Users -> Seq(LedgerEntry)]
  BY DEF Init
<1>8. /\ balance \in [Users -> Nat] /\ keyActive \in [ApiKeys -> BOOLEAN]
      /\ spendUsed \in [ApiKeys -> Nat] /\ spendReserved \in [ApiKeys -> Nat]
  BY BillingAssumption DEF Init
<1>9. QED
  BY <1>1, <1>3, <1>5, <1>6, <1>7, <1>8 DEF TypeOK

\* Every table of the store keeps its type: in particular no balance and no spend
\* counter ever becomes negative, whatever the callers and the sweeps do.
THEOREM TypeCorrect == Spec => []TypeOK
<1>1. QED
  BY TypeInit, TypeStep, PTL DEF Spec

-----------------------------------------------------------------------------
(***************************************************************************)
(* Seen from the money, a step does one of three things.  The sums, the    *)
(* ledger and the refinement are proved for these three, and every action  *)
(* is shown to be one of them.                                             *)
(***************************************************************************)

SameKeys == \A q \in RequestIds : request'[q].apiKey = request[q].apiKey

\* Request r takes the amount a from the owner of key k.
Take(r, k, a) ==
    /\ reservation[r].state = "none" /\ reservation[r].charged = 0
    /\ a <= balance[OwnerOf[k]]
    /\ SpendLimit[k] # NoLimit => spendUsed[k] + spendReserved[k] + a <= SpendLimit[k]
    /\ \A q \in RequestIds : request'[q].apiKey = IF q = r THEN k ELSE request[q].apiKey
    /\ reservation' = [reservation EXCEPT ![r] = [state |-> "reserved", reserved |-> a, charged |-> 0,
                                                  refunded |-> 0, overdue |-> FALSE]]
    /\ spendUsed' = spendUsed
    /\ spendReserved' = [spendReserved EXCEPT ![k] = @ + a]
    /\ Post(OwnerOf[k], r, "ai_usage_reservation", a)

\* Request r ends with c points charged and the rest given back.
EndWith(r, c) ==
    /\ reservation[r].state \in {"reserved", "needs_reconciliation"} /\ reservation[r].charged = 0
    /\ c \in 0..reservation[r].reserved
    /\ SameKeys
    /\ \E s \in {"settled", "refunded"} :
        /\ s = "refunded" => c = 0
        /\ reservation' = [reservation EXCEPT
                            ![r] = [state |-> s, reserved |-> reservation[r].reserved, charged |-> c,
                                    refunded |-> reservation[r].reserved - c, overdue |-> FALSE]]
    /\ spendUsed' = [spendUsed EXCEPT ![request[r].apiKey] = @ + c]
    /\ spendReserved' = [spendReserved EXCEPT
                            ![request[r].apiKey] = Monus(@, reservation[r].reserved)]
    /\ Post(UserOf(r), r, "ai_usage_refund", reservation[r].reserved - c)

\* No money moves and no hold begins or ends.
Quiet ==
    /\ UNCHANGED money
    /\ SameKeys
    /\ \A q \in RequestIds :
        /\ reservation'[q].reserved = reservation[q].reserved
        /\ reservation'[q].charged = reservation[q].charged
        /\ \/ reservation'[q].state = reservation[q].state
           \/ /\ reservation[q].state = "reserved"
              /\ reservation'[q].state = "needs_reconciliation"

Effect ==
    \/ \E r \in RequestIds, k \in ApiKeys, a \in Nat : Take(r, k, a)
    \/ \E r \in RequestIds, c \in Nat : EndWith(r, c)
    \/ Quiet

LEMMA CoherentInit == Init => RowsCoherent
BY DEF Init, RowsCoherent, NoRequest, NoReservation

LEMMA ReserveEffect ==
  ASSUME TypeOK, RowsCoherent, NEW r \in RequestIds, NEW k \in ApiKeys,
         NEW i \in IdempotencyKeys \cup {NoKey},
         NEW f \in Fingerprints, NEW amount \in Nat, NEW row \in ReplayRow,
         Reserve(r, k, i, f, amount, row)
  PROVE  RowsCoherent' /\ Take(r, k, amount)
<1> DEFINE new == [status |-> "reserved", apiKey |-> k, idempotencyKey |-> i,
                   fingerprint |-> f, reserved |-> amount, charged |-> 0,
                   refunded |-> 0, dispatched |-> FALSE]
           made == [state |-> "reserved", reserved |-> amount, charged |-> 0,
                    refunded |-> 0, overdue |-> FALSE]
<1>2. reservation' = [reservation EXCEPT ![r] = made]
  BY DEF Reserve
<1>3. request' = [q \in RequestIds |->
                   IF q = r THEN new
                   ELSE IF q \in Bound(k, i) THEN [request[q] EXCEPT !.idempotencyKey = NoKey]
                   ELSE request[q]]
  BY DEF Reserve, Unbound
<1>4. request'[r] = new /\ reservation'[r] = made
  BY <1>2, <1>3 DEF TypeOK
<1>5. ASSUME NEW q \in RequestIds, q # r
      PROVE  /\ reservation'[q] = reservation[q]
             /\ request'[q].apiKey = request[q].apiKey /\ request'[q].status = request[q].status
             /\ request'[q].reserved = request[q].reserved
             /\ request'[q].charged = request[q].charged
             /\ request'[q].refunded = request[q].refunded
  <2>1. reservation'[q] = reservation[q]
    BY <1>2, <1>5 DEF TypeOK
  <2>2. request'[q] \in {request[q], [request[q] EXCEPT !.idempotencyKey = NoKey]}
    BY <1>3, <1>5
  <2>3. request[q] \in Request
    BY RowType
  <2>4. QED
    BY <2>1, <2>2, <2>3 DEF Request
<1>6. RowsCoherent'
  <2>1. SUFFICES ASSUME NEW q \in RequestIds
                 PROVE  /\ request'[q].reserved = reservation'[q].reserved
                        /\ request'[q].charged = reservation'[q].charged
                        /\ request'[q].refunded = reservation'[q].refunded
                        /\ <<request'[q].status, reservation'[q].state>> \in
                             {<<"none", "none">>, <<"reserved", "reserved">>,
                              <<"dispatched", "reserved">>, <<"succeeded", "settled">>,
                              <<"refunded", "refunded">>,
                              <<"needs_reconciliation", "needs_reconciliation">>}
                        /\ reservation'[q].charged + reservation'[q].refunded =
                             IF reservation'[q].state \in {"settled", "refunded"}
                             THEN reservation'[q].reserved ELSE 0
    BY DEF RowsCoherent
  <2>2. CASE q = r
    BY <1>4, <2>2
  <2>3. CASE q # r
    BY <1>5, <2>3 DEF RowsCoherent
  <2>4. QED
    BY <2>2, <2>3
<1>7. Admission(k, amount) = "reserved"
  <2>1. \A q : BindingOutcome(q, row) # "reserved"
    BY DEF BindingOutcome, ReplayRow
  <2>2. QED
    BY <2>1 DEF Reserve, ReserveOutcome
<1>8. /\ amount <= balance[OwnerOf[k]]
      /\ SpendLimit[k] # NoLimit => spendUsed[k] + spendReserved[k] + amount <= SpendLimit[k]
  <2>1. /\ balance[OwnerOf[k]] \in Nat /\ spendUsed[k] \in Nat /\ spendReserved[k] \in Nat
        /\ SpendLimit[k] \in Nat \cup {NoLimit}
    BY BillingAssumption DEF TypeOK
  <2>2. ~(balance[OwnerOf[k]] < amount)
        /\ ~(SpendLimit[k] # NoLimit /\ SpendLimit[k] < spendUsed[k] + spendReserved[k] + amount)
    BY <1>7 DEF Admission
  <2>3. QED
    BY <2>1, <2>2
<1>9. reservation[r].state = "none" /\ reservation[r].charged = 0
  <2>1. request[r].status = "none"
    BY DEF Reserve
  <2>2. reservation[r].state = "none"
    BY <2>1 DEF RowsCoherent
  <2>3. reservation[r].charged + reservation[r].refunded = 0
    BY <2>2 DEF RowsCoherent
  <2>4. reservation[r].charged \in Nat /\ reservation[r].refunded \in Nat
    BY DEF TypeOK, Reservation
  <2>5. QED
    BY <2>2, <2>3, <2>4
<1>10. \A q \in RequestIds : request'[q].apiKey = IF q = r THEN k ELSE request[q].apiKey
  BY <1>4, <1>5
<1>11. QED
  BY <1>2, <1>6, <1>8, <1>9, <1>10 DEF Take, Reserve

\* A row changes outside its identity and its amounts: everything but row r stays coherent.
LEMMA OneRowChanges ==
  ASSUME TypeOK, RowsCoherent, NEW r \in RequestIds, NEW rq, NEW rv,
         request' = [request EXCEPT ![r] = rq], reservation' = [reservation EXCEPT ![r] = rv],
         rq.apiKey = request[r].apiKey,
         rq.reserved = rv.reserved, rq.charged = rv.charged, rq.refunded = rv.refunded,
         <<rq.status, rv.state>> \in
            {<<"none", "none">>, <<"reserved", "reserved">>, <<"dispatched", "reserved">>,
             <<"succeeded", "settled">>, <<"refunded", "refunded">>,
             <<"needs_reconciliation", "needs_reconciliation">>},
         rv.charged + rv.refunded = IF rv.state \in {"settled", "refunded"} THEN rv.reserved ELSE 0
  PROVE  RowsCoherent' /\ SameKeys
<1>1. request'[r] = rq /\ reservation'[r] = rv
  BY DEF TypeOK
<1>2. \A q \in RequestIds : q # r => request'[q] = request[q] /\ reservation'[q] = reservation[q]
  BY DEF TypeOK
<1>3. RowsCoherent'
  <2>1. SUFFICES ASSUME NEW q \in RequestIds
                 PROVE  /\ request'[q].reserved = reservation'[q].reserved
                        /\ request'[q].charged = reservation'[q].charged
                        /\ request'[q].refunded = reservation'[q].refunded
                        /\ <<request'[q].status, reservation'[q].state>> \in
                             {<<"none", "none">>, <<"reserved", "reserved">>,
                              <<"dispatched", "reserved">>, <<"succeeded", "settled">>,
                              <<"refunded", "refunded">>,
                              <<"needs_reconciliation", "needs_reconciliation">>}
                        /\ reservation'[q].charged + reservation'[q].refunded =
                             IF reservation'[q].state \in {"settled", "refunded"}
                             THEN reservation'[q].reserved ELSE 0
    BY DEF RowsCoherent
  <2>2. CASE q = r
    BY <1>1, <2>2
  <2>3. CASE q # r
    BY <1>2, <2>3 DEF RowsCoherent
  <2>4. QED
    BY <2>2, <2>3
<1>4. QED
  BY <1>1, <1>2, <1>3 DEF SameKeys

\* An open reservation has charged and given back nothing yet.
LEMMA OpenRow ==
  ASSUME TypeOK, RowsCoherent, NEW r \in RequestIds,
         reservation[r].state \in {"reserved", "needs_reconciliation"}
  PROVE  /\ reservation[r].charged = 0 /\ reservation[r].refunded = 0
         /\ request[r].reserved = reservation[r].reserved
         /\ request[r].charged = 0 /\ request[r].refunded = 0
<1>1. reservation[r].charged + reservation[r].refunded = 0
  BY DEF RowsCoherent
<1>2. reservation[r].charged \in Nat /\ reservation[r].refunded \in Nat
  BY DEF TypeOK, Reservation
<1>3. reservation[r].charged = 0 /\ reservation[r].refunded = 0
  BY <1>1, <1>2
<1>4. QED
  BY <1>3 DEF RowsCoherent

LEMMA SettleEffect ==
  ASSUME TypeOK, RowsCoherent, NEW r \in RequestIds, NEW actual \in Nat, NEW zeroUsage \in BOOLEAN,
         Settle(r, actual, zeroUsage)
  PROVE  RowsCoherent' /\ \E c \in Nat : EndWith(r, c)
<1> DEFINE held == reservation[r].reserved
           c == Lesser(actual, held)
           rq == [request[r] EXCEPT !.status = "succeeded", !.charged = c, !.refunded = held - c]
           rv == [state |-> "settled", reserved |-> held, charged |-> c,
                  refunded |-> held - c, overdue |-> FALSE]
<1>1. /\ held \in Nat /\ c \in Nat /\ held - c \in Nat /\ c \in 0..held
      /\ reservation[r].state = "reserved"
  <2>1. held \in Nat
    BY RowType
  <2>2. c \in Nat /\ c <= held /\ held - c \in Nat
    BY <2>1, LesserType
  <2>3. QED
    BY <2>1, <2>2 DEF Settle, Settleable
<1>2. /\ reservation[r].charged = 0
      /\ request[r].reserved = held
  BY <1>1, OpenRow
<1>3. request[r] \in Request
  BY RowType
<1>4. /\ reservation' = [reservation EXCEPT ![r] = rv]
      /\ request' = [request EXCEPT ![r] = rq]
  BY DEF Settle
<1>5. RowsCoherent' /\ SameKeys
  <2>1. /\ rq.apiKey = request[r].apiKey /\ rq.reserved = rv.reserved
        /\ rq.charged = rv.charged /\ rq.refunded = rv.refunded
        /\ rq.status = "succeeded" /\ rv.state = "settled"
        /\ rv.charged = c /\ rv.refunded = held - c /\ rv.reserved = held
    BY <1>2, <1>3 DEF Request
  <2>2. c + (held - c) = held
    BY <1>1
  <2> HIDE DEF rq, rv
  <2>3. QED
    BY <1>4, <2>1, <2>2, OneRowChanges
<1>6. /\ spendUsed' = [spendUsed EXCEPT ![request[r].apiKey] = @ + c]
      /\ spendReserved' = [spendReserved EXCEPT ![request[r].apiKey] = Monus(@, held)]
      /\ Post(UserOf(r), r, "ai_usage_refund", held - c)
  BY <1>2 DEF Settle
<1>7. EndWith(r, c)
  BY <1>1, <1>2, <1>4, <1>5, <1>6 DEF EndWith
<1>8. QED
  BY <1>1, <1>5, <1>7

LEMMA RefundEffect ==
  ASSUME TypeOK, RowsCoherent, NEW r \in RequestIds, RefundRows(r),
         reservation[r].state \in {"reserved", "needs_reconciliation"}
  PROVE  RowsCoherent' /\ EndWith(r, 0)
<1> DEFINE held == reservation[r].reserved
           rq == [request[r] EXCEPT !.status = "refunded", !.charged = 0, !.refunded = held]
           rv == [state |-> "refunded", reserved |-> held, charged |-> 0,
                  refunded |-> held, overdue |-> FALSE]
<1>1. held \in Nat /\ held - 0 = held /\ 0 \in 0..held /\ 0 + held = held
  BY RowType
<1>2. reservation[r].charged = 0 /\ request[r].reserved = held
  BY OpenRow
<1>3. request[r] \in Request
  BY RowType
<1>4. /\ reservation' = [reservation EXCEPT ![r] = rv]
      /\ request' = [request EXCEPT ![r] = rq]
  BY DEF RefundRows
<1>5. RowsCoherent' /\ SameKeys
  <2>1. /\ rq.apiKey = request[r].apiKey /\ rq.reserved = rv.reserved
        /\ rq.charged = rv.charged /\ rq.refunded = rv.refunded
        /\ rq.status = "refunded" /\ rv.state = "refunded"
        /\ rv.charged = 0 /\ rv.refunded = held /\ rv.reserved = held
    BY <1>2, <1>3 DEF Request
  <2> HIDE DEF rq, rv
  <2>2. QED
    BY <1>1, <1>4, <2>1, OneRowChanges
<1>6. spendUsed' = [spendUsed EXCEPT ![request[r].apiKey] = @ + 0]
  <2>1. spendUsed[request[r].apiKey] + 0 = spendUsed[request[r].apiKey]
    BY RowType DEF TypeOK
  <2>2. spendUsed' = spendUsed
    BY DEF RefundRows
  <2>3. QED
    BY <2>1, <2>2 DEF TypeOK
<1>7. /\ spendReserved' = [spendReserved EXCEPT ![request[r].apiKey] = Monus(@, held)]
      /\ Post(UserOf(r), r, "ai_usage_refund", held)
  BY <1>2 DEF RefundRows
<1>8. QED
  BY <1>1, <1>2, <1>4, <1>5, <1>6, <1>7 DEF EndWith

LEMMA QuarantineEffect ==
  ASSUME TypeOK, RowsCoherent, NEW r \in RequestIds, QuarantineRows(r),
         reservation[r].state = "reserved"
  PROVE  RowsCoherent' /\ Quiet
<1> DEFINE rq == [request[r] EXCEPT !.status = "needs_reconciliation"]
           rv == [reservation[r] EXCEPT !.state = "needs_reconciliation", !.overdue = FALSE]
<1>1. /\ reservation' = [reservation EXCEPT ![r] = rv]
      /\ request' = [request EXCEPT ![r] = rq]
  BY DEF QuarantineRows
<1>2. /\ rq.apiKey = request[r].apiKey /\ rq.reserved = rv.reserved
      /\ rq.charged = rv.charged /\ rq.refunded = rv.refunded
      /\ rq.status = "needs_reconciliation" /\ rv.state = "needs_reconciliation"
      /\ rv.charged = 0 /\ rv.refunded = 0
      /\ rv.reserved = reservation[r].reserved /\ rv.charged = reservation[r].charged
  BY RowType, OpenRow DEF Request, Reservation
<1> HIDE DEF rq, rv
<1>3. RowsCoherent' /\ SameKeys
  <2>1. rv.charged + rv.refunded = IF rv.state \in {"settled", "refunded"} THEN rv.reserved ELSE 0
    BY <1>2
  <2>2. <<rq.status, rv.state>> = <<"needs_reconciliation", "needs_reconciliation">>
    BY <1>2
  <2>3. QED
    BY <1>1, <1>2, <2>1, <2>2, OneRowChanges
<1>4. \A q \in RequestIds : reservation'[q] = IF q = r THEN rv ELSE reservation[q]
  BY <1>1 DEF TypeOK
<1>5. QED
  BY <1>2, <1>3, <1>4 DEF Quiet, QuarantineRows

LEMMA StepEffect == TypeOK /\ RowsCoherent /\ [Next]_vars => RowsCoherent' /\ Effect
<1> SUFFICES ASSUME TypeOK, RowsCoherent, [Next]_vars PROVE RowsCoherent' /\ Effect
  OBVIOUS
<1>1. ASSUME NEW r \in RequestIds, NEW k \in ApiKeys, NEW i \in IdempotencyKeys \cup {NoKey},
             NEW f \in Fingerprints, NEW amount \in Amounts, NEW row \in ReplayRow,
             Reserve(r, k, i, f, amount, row)
      PROVE  RowsCoherent' /\ Effect
  <2>1. amount \in Nat
    BY BillingAssumption
  <2>2. QED
    BY <1>1, <2>1, ReserveEffect DEF Effect
<1>2. ASSUME NEW r \in RequestIds, MarkDispatched(r)
      PROVE  RowsCoherent' /\ Effect
  <2> DEFINE rq == [request[r] EXCEPT !.status = "dispatched", !.dispatched = TRUE]
  <2>1. request' = [request EXCEPT ![r] = rq] /\ reservation' = [reservation EXCEPT ![r] = reservation[r]]
    BY <1>2 DEF MarkDispatched, TypeOK
  <2>2. /\ rq.apiKey = request[r].apiKey /\ rq.reserved = request[r].reserved
        /\ rq.charged = request[r].charged /\ rq.refunded = request[r].refunded
        /\ rq.status = "dispatched" /\ request[r].status = "reserved"
    BY <1>2, RowType DEF MarkDispatched, Request
  <2>3. /\ reservation[r].state = "reserved" /\ rq.reserved = reservation[r].reserved
        /\ rq.charged = reservation[r].charged /\ rq.refunded = reservation[r].refunded
        /\ reservation[r].charged + reservation[r].refunded = 0
    BY <2>2 DEF RowsCoherent
  <2> HIDE DEF rq
  <2>4. <<rq.status, reservation[r].state>> = <<"dispatched", "reserved">>
    BY <2>2, <2>3
  <2>5. RowsCoherent' /\ SameKeys
    BY <2>1, <2>2, <2>3, <2>4, OneRowChanges
  <2>6. QED
    BY <1>2, <2>5 DEF Effect, Quiet, MarkDispatched
<1>3. ASSUME NEW r \in RequestIds, Refund(r)
      PROVE  RowsCoherent' /\ Effect
  BY <1>3, RefundEffect DEF Refund, Effect
<1>4. ASSUME NEW r \in RequestIds, MarkNeedsReconciliation(r)
      PROVE  RowsCoherent' /\ Effect
  BY <1>4, QuarantineEffect DEF MarkNeedsReconciliation, Effect
<1>5. ASSUME NEW r \in RequestIds, PassDeadline(r)
      PROVE  RowsCoherent' /\ Effect
  <2> DEFINE rv == [reservation[r] EXCEPT !.overdue = TRUE]
  <2>1. /\ rv.state = reservation[r].state /\ rv.reserved = reservation[r].reserved
        /\ rv.charged = reservation[r].charged /\ rv.refunded = reservation[r].refunded
    BY RowType DEF Reservation
  <2>2. reservation' = [reservation EXCEPT ![r] = rv]
    BY <1>5 DEF PassDeadline
  <2> HIDE DEF rv
  <2>3. \A q \in RequestIds : /\ reservation'[q].state = reservation[q].state
                              /\ reservation'[q].reserved = reservation[q].reserved
                              /\ reservation'[q].charged = reservation[q].charged
                              /\ reservation'[q].refunded = reservation[q].refunded
    BY <2>1, <2>2 DEF TypeOK
  <2>4. request' = request /\ UNCHANGED money
    BY <1>5 DEF PassDeadline
  <2>5. RowsCoherent'
    BY <2>3, <2>4 DEF RowsCoherent
  <2>6. Quiet
    BY <2>3, <2>4 DEF Quiet, SameKeys
  <2>7. QED
    BY <2>5, <2>6 DEF Effect
<1>6. ASSUME NEW r \in RequestIds, NEW actual \in Costs, NEW zeroUsage \in BOOLEAN,
             Settle(r, actual, zeroUsage)
      PROVE  RowsCoherent' /\ Effect
  <2>1. actual \in Nat
    BY BillingAssumption
  <2>2. QED
    BY <1>6, <2>1, SettleEffect DEF Effect
<1>7. CASE UNCHANGED <<money, request, reservation>>
  <2>1. RowsCoherent'
    BY <1>7 DEF RowsCoherent
  <2>2. Quiet
    BY <1>7 DEF Quiet, SameKeys
  <2>3. QED
    BY <2>1, <2>2 DEF Effect
<1>8. ASSUME NEW m \in Maintainers, NEW r \in RequestIds, NEW d \in BOOLEAN,
             ReconcileRow(m, r, d) \/ ResolveRow(m, r, d)
      PROVE  RowsCoherent' /\ Effect
  <2>1. CASE ReconcileRow(m, r, d)
    BY <1>7, <2>1, RefundEffect, QuarantineEffect DEF ReconcileRow, Effect
  <2>2. CASE ResolveRow(m, r, d)
    BY <1>7, <2>2, RefundEffect DEF ResolveRow, Effect
  <2>3. QED
    BY <1>8, <2>1, <2>2
<1>9. ASSUME NEW k \in ApiKeys, RevokeKey(k)
      PROVE  UNCHANGED <<money, request, reservation>>
  BY <1>9 DEF RevokeKey
<1>10. ASSUME NEW m \in Maintainers, ReadStale(m) \/ ReadQuarantined(m) \/ AbortSweep(m)
       PROVE  UNCHANGED <<money, request, reservation>>
  BY <1>10 DEF ReadStale, ReadQuarantined, AbortSweep
<1>11. CASE UNCHANGED vars
  BY <1>7, <1>11 DEF vars, money
<1>12. QED
  BY <1>1, <1>2, <1>3, <1>4, <1>5, <1>6, <1>7, <1>8, <1>9, <1>10, <1>11 DEF Next, SweepStep

\* A request and its reservation tell the same story, whatever calls, late answers and
\* sweeps run on them: the fact every other theorem starts from.
THEOREM RowsStayCoherent == Spec => [](TypeOK /\ RowsCoherent)
<1>1. QED
  BY TypeInit, TypeStep, CoherentInit, StepEffect, PTL DEF Spec

-----------------------------------------------------------------------------
(* What the three effects do to the sums. *)

SumTypes ==
    /\ \A j \in ApiKeys : /\ HeldThrough(j) \in [1..MaxRequests -> Nat]
                          /\ ChargedThrough(j) \in [1..MaxRequests -> Nat]
    /\ \A u \in Users : TakenFrom(u) \in [1..MaxRequests -> Nat]

LEMMA SumTyped == TypeOK => SumTypes
<1> SUFFICES ASSUME TypeOK PROVE SumTypes
  OBVIOUS
<1>1. \A q \in RequestIds : Held(q) \in Nat /\ reservation[q].charged \in Nat
  BY RowType DEF Held
<1>2. \A q \in RequestIds : Held(q) + reservation[q].charged \in Nat
  BY <1>1
<1>3. QED
  BY <1>1, <1>2 DEF HeldThrough, ChargedThrough, TakenFrom, SumTypes

LEMMA SumTypedNext == TypeOK' => SumTypes'
BY SumTyped, PTL

LEMMA ShiftAt ==
  ASSUME NEW f \in [1..MaxRequests -> Nat], NEW g \in [1..MaxRequests -> Nat],
         NEW r \in RequestIds, NEW x \in Int,
         \A q \in RequestIds : q # r => g[q] = f[q], g[r] = f[r] + x
  PROVE  Total(g, MaxRequests) = Total(f, MaxRequests) + x
<1>0. MaxRequests \in Nat /\ r \in 1..MaxRequests
  BY BillingAssumption
<1>1. Total(g, MaxRequests) = Total(f, MaxRequests) - f[r] + g[r]
  BY <1>0, TotalUpdate
<1>2. Total(f, MaxRequests) \in Nat /\ f[r] \in Nat
  BY <1>0, TotalType
<1>3. QED
  BY <1>1, <1>2

\* The sums after a step in which row r adds x to what it holds and c to what it is charged.
LEMMA SumsShift ==
  ASSUME TypeOK, TypeOK', NEW r \in RequestIds, NEW x \in Int, NEW c \in Int,
         NEW k \in ApiKeys, request'[r].apiKey = k,
         request[r].apiKey = k \/ (Held(r) = 0 /\ reservation[r].charged = 0),
         \A q \in RequestIds : q # r => /\ request'[q].apiKey = request[q].apiKey
                                        /\ reservation'[q] = reservation[q],
         Held(r)' = Held(r) + x, reservation'[r].charged = reservation[r].charged + c
  PROVE  /\ \A j \in ApiKeys :
              /\ Total(HeldThrough(j)', MaxRequests)
                   = Total(HeldThrough(j), MaxRequests) + IF j = k THEN x ELSE 0
              /\ Total(ChargedThrough(j)', MaxRequests)
                   = Total(ChargedThrough(j), MaxRequests) + IF j = k THEN c ELSE 0
         /\ \A u \in Users :
              Total(TakenFrom(u)', MaxRequests)
                = Total(TakenFrom(u), MaxRequests) + IF u = OwnerOf[k] THEN x + c ELSE 0
<1>0. SumTypes /\ SumTypes'
  BY SumTyped, SumTypedNext
<1>1. \A q \in RequestIds : q # r => Held(q)' = Held(q) /\ UserOf(q)' = UserOf(q)
  BY DEF Held, UserOf
<1>2. /\ Held(r) \in Nat /\ reservation[r].charged \in Nat
      /\ Held(r)' = Held(r) + x /\ UserOf(r)' = OwnerOf[k]
  BY RowType DEF Held, UserOf
<1>3. ASSUME NEW j \in ApiKeys
      PROVE  Total(HeldThrough(j)', MaxRequests)
               = Total(HeldThrough(j), MaxRequests) + IF j = k THEN x ELSE 0
  <2> DEFINE f == HeldThrough(j)
             g == HeldThrough(j)'
             y == IF j = k THEN x ELSE 0
  <2>1. f \in [1..MaxRequests -> Nat] /\ g \in [1..MaxRequests -> Nat]
    BY <1>0 DEF SumTypes
  <2>2. \A q \in RequestIds : q # r => g[q] = f[q]
    BY <1>1 DEF HeldThrough
  <2>3. /\ f[r] = IF request[r].apiKey = j THEN Held(r) ELSE 0
        /\ g[r] = IF k = j THEN Held(r) + x ELSE 0
    BY <1>2 DEF HeldThrough
  <2>4. g[r] = f[r] + y
    BY <1>2, <2>3
  <2>5. y \in Int
    OBVIOUS
  <2> HIDE DEF f, g, y
  <2>6. Total(g, MaxRequests) = Total(f, MaxRequests) + y
    BY <2>1, <2>2, <2>4, <2>5, ShiftAt
  <2>7. QED
    BY <2>6 DEF f, g, y
<1>4. ASSUME NEW j \in ApiKeys
      PROVE  Total(ChargedThrough(j)', MaxRequests)
               = Total(ChargedThrough(j), MaxRequests) + IF j = k THEN c ELSE 0
  <2> DEFINE f == ChargedThrough(j)
             g == ChargedThrough(j)'
             y == IF j = k THEN c ELSE 0
  <2>1. f \in [1..MaxRequests -> Nat] /\ g \in [1..MaxRequests -> Nat]
    BY <1>0 DEF SumTypes
  <2>2. \A q \in RequestIds : q # r => g[q] = f[q]
    BY DEF ChargedThrough
  <2>3. /\ f[r] = IF request[r].apiKey = j THEN reservation[r].charged ELSE 0
        /\ g[r] = IF k = j THEN reservation[r].charged + c ELSE 0
    BY <1>2 DEF ChargedThrough
  <2>4. g[r] = f[r] + y
    BY <1>2, <2>3
  <2>5. y \in Int
    OBVIOUS
  <2> HIDE DEF f, g, y
  <2>6. Total(g, MaxRequests) = Total(f, MaxRequests) + y
    BY <2>1, <2>2, <2>4, <2>5, ShiftAt
  <2>7. QED
    BY <2>6 DEF f, g, y
<1>5. ASSUME NEW u \in Users
      PROVE  Total(TakenFrom(u)', MaxRequests)
               = Total(TakenFrom(u), MaxRequests) + IF u = OwnerOf[k] THEN x + c ELSE 0
  <2> DEFINE f == TakenFrom(u)
             g == TakenFrom(u)'
             y == IF u = OwnerOf[k] THEN x + c ELSE 0
  <2>1. f \in [1..MaxRequests -> Nat] /\ g \in [1..MaxRequests -> Nat]
    BY <1>0 DEF SumTypes
  <2>2. \A q \in RequestIds : q # r => g[q] = f[q]
    BY <1>1 DEF TakenFrom
  <2>3. /\ f[r] = IF UserOf(r) = u THEN Held(r) + reservation[r].charged ELSE 0
        /\ g[r] = IF OwnerOf[k] = u THEN (Held(r) + x) + (reservation[r].charged + c) ELSE 0
        /\ UserOf(r) = OwnerOf[k] \/ Held(r) + reservation[r].charged = 0
    BY <1>2 DEF TakenFrom, UserOf
  <2>4. g[r] = f[r] + y
    BY <1>2, <2>3
  <2>5. y \in Int
    OBVIOUS
  <2> HIDE DEF f, g, y
  <2>6. Total(g, MaxRequests) = Total(f, MaxRequests) + y
    BY <2>1, <2>2, <2>4, <2>5, ShiftAt
  <2>7. QED
    BY <2>6 DEF f, g, y
<1>6. QED
  BY <1>3, <1>4, <1>5

-----------------------------------------------------------------------------
(***************************************************************************)
(* The inductive invariant of the money: the sums, and the limit that the  *)
(* counters keep.  The clamp of spendReserved at zero is exact only while  *)
(* the counter is the sum of what is held, so neither half stands alone.   *)
(***************************************************************************)

MoneyInv == MoneyConserved /\ KeyCountersMatch /\ SpendWithinLimit

LEMMA MoneyInit == Init => MoneyInv
<1> SUFFICES ASSUME Init PROVE MoneyInv
  OBVIOUS
<1>1. MaxRequests \in Nat /\ SumTypes
  BY BillingAssumption, TypeInit, SumTyped
<1>2. \A r \in RequestIds : Held(r) = 0 /\ reservation[r].charged = 0
  BY DEF Init, NoReservation, Held
<1>3. \A j \in ApiKeys : /\ Total(HeldThrough(j), MaxRequests) = 0
                         /\ Total(ChargedThrough(j), MaxRequests) = 0
  <2>1. TAKE j \in ApiKeys
  <2>2. \A r \in 1..MaxRequests : HeldThrough(j)[r] = 0 /\ ChargedThrough(j)[r] = 0
    BY <1>2 DEF HeldThrough, ChargedThrough
  <2>3. QED
    BY <1>1, <2>2, TotalZero DEF SumTypes
<1>4. \A u \in Users : Total(TakenFrom(u), MaxRequests) = 0
  <2>1. TAKE u \in Users
  <2>2. \A r \in 1..MaxRequests : TakenFrom(u)[r] = 0
    BY <1>2 DEF TakenFrom
  <2>3. QED
    BY <1>1, <2>2, TotalZero DEF SumTypes
<1>5. MoneyConserved
  BY <1>4, BillingAssumption DEF Init, MoneyConserved
<1>6. KeyCountersMatch
  BY <1>3 DEF Init, KeyCountersMatch
<1>7. SpendWithinLimit
  <2>1. \A k \in ApiKeys : SpendLimit[k] # NoLimit => 0 + 0 <= SpendLimit[k]
    BY BillingAssumption
  <2>2. QED
    BY <2>1 DEF Init, SpendWithinLimit
<1>8. QED
  BY <1>5, <1>6, <1>7 DEF MoneyInv

LEMMA TakeKeepsMoney ==
  ASSUME TypeOK, TypeOK', MoneyInv, NEW r \in RequestIds, NEW k \in ApiKeys, NEW a \in Nat,
         Take(r, k, a)
  PROVE  MoneyInv'
<1>1. /\ request'[r].apiKey = k
      /\ Held(r) = 0 /\ reservation[r].charged = 0
      /\ \A q \in RequestIds : q # r => /\ request'[q].apiKey = request[q].apiKey
                                        /\ reservation'[q] = reservation[q]
      /\ Held(r)' = a /\ reservation'[r].charged = 0
  BY DEF Take, Held, TypeOK
<1>2. Held(r)' = Held(r) + a /\ reservation'[r].charged = reservation[r].charged + 0
  BY <1>1
<1>3. /\ \A j \in ApiKeys :
           /\ Total(HeldThrough(j)', MaxRequests)
                = Total(HeldThrough(j), MaxRequests) + IF j = k THEN a ELSE 0
           /\ Total(ChargedThrough(j)', MaxRequests)
                = Total(ChargedThrough(j), MaxRequests) + IF j = k THEN 0 ELSE 0
      /\ \A u \in Users :
           Total(TakenFrom(u)', MaxRequests)
             = Total(TakenFrom(u), MaxRequests) + IF u = OwnerOf[k] THEN a + 0 ELSE 0
  BY <1>1, <1>2, SumsShift
<1>4. /\ spendUsed' = spendUsed
      /\ \A j \in ApiKeys : spendReserved'[j] = spendReserved[j] + IF j = k THEN a ELSE 0
      /\ \A j \in ApiKeys : spendUsed[j] \in Nat /\ spendReserved[j] \in Nat
  BY DEF Take, TypeOK
<1>5. \A u \in Users : balance'[u] = balance[u] - IF u = OwnerOf[k] THEN a ELSE 0
  BY SMTT(30) DEF Take, Post, TypeOK
<1>6. KeyCountersMatch'
  <2>1. ASSUME NEW j \in ApiKeys
        PROVE  /\ spendReserved'[j] = Total(HeldThrough(j)', MaxRequests)
               /\ spendUsed'[j] = Total(ChargedThrough(j)', MaxRequests)
    <3>1. /\ spendReserved[j] = Total(HeldThrough(j), MaxRequests)
          /\ spendUsed[j] = Total(ChargedThrough(j), MaxRequests)
      BY DEF MoneyInv, KeyCountersMatch
    <3>2. QED
      BY <1>3, <1>4, <3>1
  <2>2. QED
    BY <2>1 DEF KeyCountersMatch
<1>7. MoneyConserved'
  <2>1. ASSUME NEW u \in Users
        PROVE  balance'[u] + Total(TakenFrom(u)', MaxRequests) = InitialBalance[u]
    <3>1. balance[u] + Total(TakenFrom(u), MaxRequests) = InitialBalance[u]
      BY DEF MoneyInv, MoneyConserved
    <3>2. balance[u] \in Nat /\ Total(TakenFrom(u), MaxRequests) \in Nat
      BY BillingAssumption, SumTyped, TotalType DEF TypeOK, SumTypes
    <3>3. QED
      BY <1>3, <1>5, <3>1, <3>2
  <2>2. QED
    BY <2>1 DEF MoneyConserved
<1>8. SpendWithinLimit'
  <2>1. ASSUME NEW j \in ApiKeys, SpendLimit[j] # NoLimit
        PROVE  spendUsed'[j] + spendReserved'[j] <= SpendLimit[j]
    <3>1. spendUsed[j] + spendReserved[j] <= SpendLimit[j] /\ SpendLimit[j] \in Nat
      BY <2>1, BillingAssumption DEF MoneyInv, SpendWithinLimit
    <3>2. j = k => spendUsed[k] + spendReserved[k] + a <= SpendLimit[k]
      BY <2>1 DEF Take
    <3>3. QED
      BY <1>4, <3>1, <3>2
  <2>2. QED
    BY <2>1 DEF SpendWithinLimit
<1>9. QED
  BY <1>6, <1>7, <1>8 DEF MoneyInv

\* What an open reservation holds is part of its key's counter: the clamp never bites.
LEMMA HeldWithinCounter ==
  ASSUME TypeOK, KeyCountersMatch, NEW r \in RequestIds
  PROVE  Held(r) <= spendReserved[request[r].apiKey]
<1> DEFINE k == request[r].apiKey
           f == HeldThrough(k)
<1>1. k \in ApiKeys /\ MaxRequests \in Nat /\ r \in 1..MaxRequests
  BY RowType, BillingAssumption
<1>2. f \in [1..MaxRequests -> Nat] /\ f[r] = Held(r)
      /\ spendReserved[k] = Total(f, MaxRequests)
  BY <1>1, SumTyped DEF SumTypes, HeldThrough, KeyCountersMatch
<1> HIDE DEF k, f
<1>3. f[r] <= Total(f, MaxRequests)
  BY <1>1, <1>2, TotalUpdate
<1>4. QED
  BY <1>2, <1>3 DEF k

LEMMA EndKeepsMoney ==
  ASSUME TypeOK, TypeOK', MoneyInv, NEW r \in RequestIds, NEW c \in Nat, EndWith(r, c)
  PROVE  MoneyInv'
<1> DEFINE k == request[r].apiKey
           held == reservation[r].reserved
<1>0. k \in ApiKeys /\ held \in Nat /\ c <= held /\ UserOf(r) = OwnerOf[k]
  BY RowType DEF EndWith, UserOf
<1>1. /\ request'[r].apiKey = k
      /\ Held(r) = held /\ reservation[r].charged = 0
      /\ \A q \in RequestIds : q # r => /\ request'[q].apiKey = request[q].apiKey
                                        /\ reservation'[q] = reservation[q]
      /\ Held(r)' = 0 /\ reservation'[r].charged = c
  <2>1. PICK s \in {"settled", "refunded"} :
           reservation' = [reservation EXCEPT
                            ![r] = [state |-> s, reserved |-> held, charged |-> c,
                                    refunded |-> held - c, overdue |-> FALSE]]
    BY DEF EndWith
  <2>2. QED
    BY <2>1 DEF EndWith, SameKeys, Held, TypeOK
<1>2. Held(r)' = Held(r) + (-held) /\ reservation'[r].charged = reservation[r].charged + c
  BY <1>0, <1>1
<1>3. /\ \A j \in ApiKeys :
           /\ Total(HeldThrough(j)', MaxRequests)
                = Total(HeldThrough(j), MaxRequests) + IF j = k THEN -held ELSE 0
           /\ Total(ChargedThrough(j)', MaxRequests)
                = Total(ChargedThrough(j), MaxRequests) + IF j = k THEN c ELSE 0
      /\ \A u \in Users :
           Total(TakenFrom(u)', MaxRequests)
             = Total(TakenFrom(u), MaxRequests) + IF u = OwnerOf[k] THEN -held + c ELSE 0
  <2>1. -held \in Int /\ c \in Int
    BY <1>0
  <2> HIDE DEF k, held
  <2>2. request[r].apiKey = k
    BY DEF k
  <2>3. QED
    BY <1>0, <1>1, <1>2, <2>1, <2>2, SumsShift
<1>4. Monus(spendReserved[k], held) = spendReserved[k] - held
  BY <1>1, HeldWithinCounter DEF Monus, MoneyInv
<1>5. /\ \A j \in ApiKeys : spendReserved'[j] = spendReserved[j] - IF j = k THEN held ELSE 0
      /\ \A j \in ApiKeys : spendUsed'[j] = spendUsed[j] + IF j = k THEN c ELSE 0
      /\ \A j \in ApiKeys : spendUsed[j] \in Nat /\ spendReserved[j] \in Nat
  <2>1. /\ spendReserved' = [spendReserved EXCEPT ![k] = spendReserved[k] - held]
        /\ spendUsed' = [spendUsed EXCEPT ![k] = spendUsed[k] + c]
    BY <1>4 DEF EndWith
  <2>2. spendReserved \in [ApiKeys -> Nat] /\ spendUsed \in [ApiKeys -> Nat]
    BY DEF TypeOK
  <2> HIDE DEF k, held
  <2>3. QED
    BY <1>0, <2>1, <2>2
<1>6. \A u \in Users : balance'[u] = balance[u] + IF u = OwnerOf[k] THEN held - c ELSE 0
  <2>1. balance' = [balance EXCEPT ![OwnerOf[k]] = balance[OwnerOf[k]] + 1 * (held - c)]
    BY <1>0 DEF EndWith, Post
  <2>2. balance \in [Users -> Nat]
    BY DEF TypeOK
  <2> HIDE DEF k, held
  <2>3. QED
    BY <1>0, <2>1, <2>2
<1> HIDE DEF k, held
<1>7. KeyCountersMatch'
  <2>1. ASSUME NEW j \in ApiKeys
        PROVE  /\ spendReserved'[j] = Total(HeldThrough(j)', MaxRequests)
               /\ spendUsed'[j] = Total(ChargedThrough(j)', MaxRequests)
    <3>1. /\ spendReserved[j] = Total(HeldThrough(j), MaxRequests)
          /\ spendUsed[j] = Total(ChargedThrough(j), MaxRequests)
      BY DEF MoneyInv, KeyCountersMatch
    <3>2. QED
      BY <1>0, <1>3, <1>5, <3>1
  <2>2. QED
    BY <2>1 DEF KeyCountersMatch
<1>8. MoneyConserved'
  <2>1. ASSUME NEW u \in Users
        PROVE  balance'[u] + Total(TakenFrom(u)', MaxRequests) = InitialBalance[u]
    <3>1. balance[u] + Total(TakenFrom(u), MaxRequests) = InitialBalance[u]
      BY DEF MoneyInv, MoneyConserved
    <3>2. balance[u] \in Nat /\ Total(TakenFrom(u), MaxRequests) \in Nat
      BY BillingAssumption, SumTyped, TotalType DEF TypeOK, SumTypes
    <3>3. QED
      BY <1>0, <1>3, <1>6, <3>1, <3>2
  <2>2. QED
    BY <2>1 DEF MoneyConserved
<1>9. SpendWithinLimit'
  <2>1. ASSUME NEW j \in ApiKeys, SpendLimit[j] # NoLimit
        PROVE  spendUsed'[j] + spendReserved'[j] <= SpendLimit[j]
    <3>1. spendUsed[j] + spendReserved[j] <= SpendLimit[j] /\ SpendLimit[j] \in Nat
      BY <2>1, BillingAssumption DEF MoneyInv, SpendWithinLimit
    <3>2. QED
      BY <1>0, <1>5, <3>1
  <2>2. QED
    BY <2>1 DEF SpendWithinLimit
<1>10. QED
  BY <1>7, <1>8, <1>9 DEF MoneyInv

LEMMA QuietKeepsMoney ==
  ASSUME TypeOK, TypeOK', MoneyInv, Quiet
  PROVE  MoneyInv'
<1>1. \A r \in RequestIds : Held(r)' = Held(r) /\ UserOf(r)' = UserOf(r)
  BY DEF Quiet, SameKeys, Held, UserOf
<1>2. \A j \in ApiKeys : HeldThrough(j)' = HeldThrough(j) /\ ChargedThrough(j)' = ChargedThrough(j)
  BY <1>1 DEF HeldThrough, ChargedThrough, Quiet, SameKeys
<1>3. \A u \in Users : TakenFrom(u)' = TakenFrom(u)
  BY <1>1 DEF TakenFrom, Quiet
<1>4. UNCHANGED money
  BY DEF Quiet
<1>5. KeyCountersMatch'
  BY <1>2, <1>4 DEF MoneyInv, KeyCountersMatch, money
<1>6. MoneyConserved'
  BY <1>3, <1>4 DEF MoneyInv, MoneyConserved, money
<1>7. SpendWithinLimit'
  BY <1>4 DEF MoneyInv, SpendWithinLimit, money
<1>8. QED
  BY <1>5, <1>6, <1>7 DEF MoneyInv

LEMMA MoneyStep == TypeOK /\ RowsCoherent /\ MoneyInv /\ [Next]_vars => MoneyInv'
<1> SUFFICES ASSUME TypeOK, RowsCoherent, MoneyInv, [Next]_vars PROVE MoneyInv'
  OBVIOUS
<1>1. TypeOK' /\ Effect
  BY TypeStep, StepEffect
<1>2. QED
  BY <1>1, TakeKeepsMoney, EndKeepsMoney, QuietKeepsMoney DEF Effect

THEOREM MoneyAlwaysAddsUp == Spec => []MoneyInv
<1>1. QED
  BY TypeInit, CoherentInit, MoneyInit, TypeStep, StepEffect, MoneyStep, PTL DEF Spec

\* No points appear or vanish, for any number of users, keys, requests and sweeps.
THEOREM PointsAreConserved == Spec => []MoneyConserved
<1>1. MoneyInv => MoneyConserved
  BY DEF MoneyInv
<1>2. QED
  BY <1>1, MoneyAlwaysAddsUp, PTL

\* The spend counters of a key are always the sums of what its requests hold and paid.
THEOREM CountersAreSums == Spec => []KeyCountersMatch
<1>1. MoneyInv => KeyCountersMatch
  BY DEF MoneyInv
<1>2. QED
  BY <1>1, MoneyAlwaysAddsUp, PTL

\* A key never spends or commits more than its limit.
THEOREM LimitIsKept == Spec => []SpendWithinLimit
<1>1. MoneyInv => SpendWithinLimit
  BY DEF MoneyInv
<1>2. QED
  BY <1>1, MoneyAlwaysAddsUp, PTL

-----------------------------------------------------------------------------
(* The ledger. *)

\* The ledger of one user after an entry that continues the chain.
LEMMA PostExtendsChain ==
  ASSUME TypeOK, LedgerExplainsBalance, NEW u \in Users, NEW r \in RequestIds, NEW amount \in Nat,
         NEW type \in {"ai_usage_reservation", "ai_usage_refund"}, Post(u, r, type, amount)
  PROVE  LedgerExplainsBalance'
<1> DEFINE after == balance[u] + (IF type = "ai_usage_reservation" THEN -1 ELSE 1) * amount
           entry == [request |-> r, type |-> type, amount |-> amount,
                     before |-> balance[u], after |-> after]
           log == ledger[u]
<1>1. balance[u] \in Nat /\ after \in Int
      /\ after = IF type = "ai_usage_refund" THEN balance[u] + amount ELSE balance[u] - amount
  BY DEF TypeOK
<1>2. balance' = [balance EXCEPT ![u] = after]
  BY DEF Post
<1>3. ledger' = IF amount > 0 THEN [ledger EXCEPT ![u] = Append(log, entry)] ELSE ledger
  BY DEF Post
<1>4. /\ entry.type = type /\ entry.amount = amount /\ entry.before = balance[u]
      /\ entry.after = after
  OBVIOUS
<1>5. log \in Seq(LedgerEntry) /\ ledger \in [Users -> Seq(LedgerEntry)]
      /\ balance \in [Users -> Nat]
  BY DEF TypeOK
<1>6. /\ log = <<>> => balance[u] = InitialBalance[u]
      /\ log # <<>> => log[1].before = InitialBalance[u] /\ log[Len(log)].after = balance[u]
      /\ \A n \in 1..Len(log) :
           log[n].after = IF log[n].type = "ai_usage_refund"
                          THEN log[n].before + log[n].amount
                          ELSE log[n].before - log[n].amount
      /\ \A n \in 1..(Len(log) - 1) : log[n + 1].before = log[n].after
  BY DEF LedgerExplainsBalance
<1> HIDE DEF after, entry, log
<1>7. CASE amount = 0
  <2>1. balance' = balance /\ ledger' = ledger
    BY <1>1, <1>2, <1>3, <1>5, <1>7
  <2>2. QED
    BY <2>1 DEF LedgerExplainsBalance
<1>8. CASE amount > 0
  <2> DEFINE new == Append(log, entry)
  <2>1. ledger'[u] = new /\ balance'[u] = after
    BY <1>2, <1>3, <1>5, <1>8
  <2>2. \A v \in Users : v # u => ledger'[v] = ledger[v] /\ balance'[v] = balance[v]
    BY <1>2, <1>3, <1>5, <1>8
  <2>3. /\ Len(new) = Len(log) + 1 /\ Len(log) \in Nat
        /\ new[Len(new)] = entry
        /\ \A n \in 1..Len(log) : new[n] = log[n]
    BY <1>5
  <2> HIDE DEF new
  <2>8. (log = <<>> => Len(log) = 0) /\ (log # <<>> => Len(log) >= 1) /\ new # <<>>
    BY <1>5, <2>3, EmptySeq
  <2>4. new[1].before = InitialBalance[u] /\ new[Len(new)].after = after
    <3>1. CASE log = <<>>
      BY <1>4, <1>6, <2>3, <2>8, <3>1
    <3>2. CASE log # <<>>
      BY <1>4, <1>6, <2>3, <2>8, <3>2
    <3>3. QED
      BY <3>1, <3>2
  <2>5. \A n \in 1..Len(new) :
           new[n].after = IF new[n].type = "ai_usage_refund"
                          THEN new[n].before + new[n].amount
                          ELSE new[n].before - new[n].amount
    <3>1. TAKE n \in 1..Len(new)
    <3>2. CASE n \in 1..Len(log)
      BY <1>6, <2>3, <3>2
    <3>3. CASE n = Len(new)
      BY <1>1, <1>4, <2>3, <3>3
    <3>4. QED
      BY <2>3, <3>2, <3>3
  <2>6. \A n \in 1..(Len(new) - 1) : new[n + 1].before = new[n].after
    <3>1. TAKE n \in 1..(Len(new) - 1)
    <3>2. CASE n = Len(log)
      BY <1>4, <1>6, <2>3, <2>8, <3>2
    <3>3. CASE n \in 1..(Len(log) - 1)
      <4>1. n \in 1..Len(log) /\ n + 1 \in 1..Len(log)
        BY <2>3, <3>3
      <4>2. QED
        BY <1>6, <2>3, <3>3, <4>1
    <3>4. QED
      BY <2>3, <3>2, <3>3
  <2>7. SUFFICES ASSUME NEW v \in Users
                 PROVE  /\ ledger'[v] = <<>> => balance'[v] = InitialBalance[v]
                        /\ ledger'[v] # <<>> => /\ ledger'[v][1].before = InitialBalance[v]
                                               /\ ledger'[v][Len(ledger'[v])].after = balance'[v]
                        /\ \A n \in 1..Len(ledger'[v]) :
                             ledger'[v][n].after = IF ledger'[v][n].type = "ai_usage_refund"
                                                   THEN ledger'[v][n].before + ledger'[v][n].amount
                                                   ELSE ledger'[v][n].before - ledger'[v][n].amount
                        /\ \A n \in 1..(Len(ledger'[v]) - 1) :
                             ledger'[v][n + 1].before = ledger'[v][n].after
    BY DEF LedgerExplainsBalance
  <2>9. CASE v = u
    BY <2>1, <2>3, <2>4, <2>5, <2>6, <2>8, <2>9
  <2>10. CASE v # u
    BY <2>2, <2>10, SMTT(30) DEF LedgerExplainsBalance
  <2>11. QED
    BY <2>9, <2>10
<1>9. QED
  BY <1>7, <1>8

LEMMA LedgerInit == Init => LedgerExplainsBalance
BY DEF Init, LedgerExplainsBalance

LEMMA LedgerStep ==
  TypeOK /\ RowsCoherent /\ LedgerExplainsBalance /\ [Next]_vars => LedgerExplainsBalance'
<1> SUFFICES ASSUME TypeOK, RowsCoherent, LedgerExplainsBalance, [Next]_vars
             PROVE  LedgerExplainsBalance'
  OBVIOUS
<1>1. ASSUME NEW r \in RequestIds, NEW k \in ApiKeys, NEW a \in Nat, Take(r, k, a)
      PROVE  LedgerExplainsBalance'
  <2>1. OwnerOf[k] \in Users
    BY BillingAssumption
  <2>2. QED
    BY <1>1, <2>1, PostExtendsChain DEF Take
<1>2. ASSUME NEW r \in RequestIds, NEW c \in Nat, EndWith(r, c)
      PROVE  LedgerExplainsBalance'
  <2>1. UserOf(r) \in Users /\ reservation[r].reserved - c \in Nat
    BY <1>2, RowType DEF EndWith
  <2>2. QED
    BY <1>2, <2>1, PostExtendsChain DEF EndWith
<1>3. CASE Quiet
  BY <1>3 DEF Quiet, money, LedgerExplainsBalance
<1>4. QED
  BY <1>1, <1>2, <1>3, StepEffect DEF Effect

\* The ledger of every user explains the balance, entry by entry.
THEOREM LedgerIsAChain == Spec => []LedgerExplainsBalance
<1>1. QED
  BY TypeInit, CoherentInit, LedgerInit, TypeStep, StepEffect, LedgerStep, PTL DEF Spec

-----------------------------------------------------------------------------
(* Each entry of the ledger belongs to a request. *)

Final(r) == reservation[r].state \in {"settled", "refunded"}

\* LedgerMatchesRequests for one entry, and how far its request has come.
EntryFine(u, n) ==
    LET e == ledger[u][n]
    IN  /\ UserOf(e.request) = u
        /\ reservation[e.request].state # "none"
        /\ e.type = "ai_usage_refund" => Final(e.request)
        /\ e.amount = IF e.type = "ai_usage_refund"
                      THEN reservation[e.request].refunded
                      ELSE reservation[e.request].reserved
        /\ \A o \in 1..(n - 1) :
             <<ledger[u][o].request, ledger[u][o].type>> # <<e.request, e.type>>
        /\ e.type = "ai_usage_refund" =>
             \E o \in 1..(n - 1) : /\ ledger[u][o].request = e.request
                                   /\ ledger[u][o].type = "ai_usage_reservation"

\* A hold that may still be given back was taken by an entry.
HoldPosted(r) ==
    reservation[r].state \in {"reserved", "needs_reconciliation"} /\ reservation[r].reserved > 0 =>
       \E n \in 1..Len(ledger[UserOf(r)]) : /\ ledger[UserOf(r)][n].request = r
                                           /\ ledger[UserOf(r)][n].type = "ai_usage_reservation"

EntriesInv ==
    /\ \A u \in Users : \A n \in 1..Len(ledger[u]) : EntryFine(u, n)
    /\ \A r \in RequestIds : HoldPosted(r)

\* What the entries of request q depend on stays.
KeptRow(q) ==
    /\ request'[q].apiKey = request[q].apiKey
    /\ reservation'[q].reserved = reservation[q].reserved
    /\ reservation[q].state # "none" => reservation'[q].state # "none"
    /\ Final(q) => Final(q)' /\ reservation'[q].refunded = reservation[q].refunded

LEMMA EntryStays ==
  ASSUME TypeOK, NEW u \in Users, NEW n \in 1..Len(ledger[u]), EntryFine(u, n),
         KeptRow(ledger[u][n].request), \A m \in 1..n : ledger'[u][m] = ledger[u][m]
  PROVE  EntryFine(u, n)'
<1>v. PICK e : e = ledger[u][n]
  OBVIOUS
<1>0. n \in Nat /\ n >= 1 /\ n \in 1..n /\ \A o \in 1..(n - 1) : o \in 1..n
  BY DEF TypeOK
<1>1. ledger'[u][n] = e /\ \A o \in 1..(n - 1) : ledger'[u][o] = ledger[u][o]
  BY <1>0, <1>v
<1>2. /\ UserOf(e.request) = u
      /\ reservation[e.request].state # "none"
      /\ e.type = "ai_usage_refund" => Final(e.request)
      /\ e.amount = IF e.type = "ai_usage_refund" THEN reservation[e.request].refunded
                                                  ELSE reservation[e.request].reserved
      /\ \A o \in 1..(n - 1) : <<ledger[u][o].request, ledger[u][o].type>> # <<e.request, e.type>>
      /\ e.type = "ai_usage_refund" =>
           \E o \in 1..(n - 1) : /\ ledger[u][o].request = e.request
                                 /\ ledger[u][o].type = "ai_usage_reservation"
  BY <1>v DEF EntryFine
<1>3. KeptRow(e.request)
  BY <1>v
<1>4. UserOf(e.request)' = u
  BY <1>2, <1>3 DEF KeptRow, UserOf
<1>5. \A o \in 1..(n - 1) : <<ledger'[u][o].request, ledger'[u][o].type>> # <<e.request, e.type>>
  BY <1>1, <1>2
<1>6. e.type = "ai_usage_refund" =>
        \E o \in 1..(n - 1) : /\ ledger'[u][o].request = e.request
                              /\ ledger'[u][o].type = "ai_usage_reservation"
  BY <1>1, <1>2
<1>7. /\ reservation'[e.request].state # "none"
      /\ e.type = "ai_usage_refund" => Final(e.request)'
      /\ e.amount = IF e.type = "ai_usage_refund" THEN reservation'[e.request].refunded
                                                  ELSE reservation'[e.request].reserved
  BY <1>2, <1>3 DEF KeptRow
<1>8. QED
  BY <1>1, <1>4, <1>5, <1>6, <1>7, Zenon DEF EntryFine

\* The entry of one request is appended, the entries of all others stay as they are.
LEMMA PostFine ==
  ASSUME TypeOK, EntriesInv, NEW u \in Users, NEW r \in RequestIds, NEW amount \in Nat,
         NEW type \in {"ai_usage_reservation", "ai_usage_refund"}, Post(u, r, type, amount),
         \A q \in RequestIds : q # r => KeptRow(q) /\ reservation'[q].state = reservation[q].state,
         UserOf(r)' = u, reservation'[r].state # "none",
         type = "ai_usage_reservation" =>
            reservation[r].state = "none" /\ reservation'[r].reserved = amount,
         type = "ai_usage_refund" =>
            /\ KeptRow(r) /\ Final(r)' /\ reservation'[r].refunded = amount /\ UserOf(r) = u
            /\ reservation[r].state \in {"reserved", "needs_reconciliation"}
            /\ amount > 0 => reservation[r].reserved > 0
  PROVE  EntriesInv'
<1>v. PICK log, entry :
        /\ log = ledger[u]
        /\ entry = [request |-> r, type |-> type, amount |-> amount, before |-> balance[u],
                    after |-> balance[u] + (IF type = "ai_usage_reservation" THEN -1 ELSE 1) * amount]
  OBVIOUS
<1>1. ledger \in [Users -> Seq(LedgerEntry)] /\ log \in Seq(LedgerEntry) /\ Len(log) \in Nat
  BY <1>v DEF TypeOK
<1>2. ledger' = IF amount > 0 THEN [ledger EXCEPT ![u] = Append(log, entry)] ELSE ledger
  BY <1>v DEF Post
<1>3. entry.request = r /\ entry.type = type /\ entry.amount = amount
  BY <1>v
<1>4. \A v \in Users : \A m \in 1..Len(ledger[v]) : ledger'[v][m] = ledger[v][m]
  BY <1>1, <1>2, <1>v
<1>5. \A v \in Users : v # u => ledger'[v] = ledger[v]
  BY <1>1, <1>2
<1>6. amount = 0 => ledger' = ledger
  BY <1>2
<1>7. amount > 0 => Len(ledger'[u]) = Len(log) + 1 /\ ledger'[u][Len(log) + 1] = entry
  BY <1>1, <1>2
<1>8. ASSUME NEW v \in Users, NEW n \in 1..Len(ledger[v]) PROVE EntryFine(v, n)'
  <2>1. EntryFine(v, n) /\ ledger[v][n] \in LedgerEntry
    BY <1>1 DEF EntriesInv
  <2>2. ledger[v][n].request \in RequestIds /\ reservation[ledger[v][n].request].state # "none"
    BY <2>1 DEF EntryFine, LedgerEntry
  <2>3. KeptRow(ledger[v][n].request)
    BY <2>2
  <2>4. Len(ledger[v]) \in Nat
    BY <1>1
  <2>5. \A m \in 1..n : ledger'[v][m] = ledger[v][m]
    BY <1>4, <2>4
  <2>6. QED
    BY <2>1, <2>3, <2>5, EntryStays
<1>9. ASSUME amount > 0 PROVE EntryFine(u, Len(log) + 1)'
  <2>n. PICK n : n = Len(log) + 1
    OBVIOUS
  <2>1. n \in Nat /\ n - 1 = Len(log) /\ ledger'[u][n] = entry
    BY <1>1, <1>7, <1>9, <2>n
  <2>2. \A o \in 1..(n - 1) : ledger'[u][o] = log[o] /\ EntryFine(u, o)
    BY <1>4, <1>v, <2>1 DEF EntriesInv
  <2>3. ASSUME NEW o \in 1..(n - 1), log[o].request = r PROVE log[o].type # type
    <3>1. /\ reservation[r].state # "none"
          /\ log[o].type = "ai_usage_refund" => reservation[r].state \in {"settled", "refunded"}
      BY <1>v, <2>2, <2>3 DEF EntryFine, Final
    <3>2. QED
      BY <3>1
  <2>4. \A o \in 1..(n - 1) : <<ledger'[u][o].request, ledger'[u][o].type>> # <<r, type>>
    BY <2>2, <2>3
  <2>5. type = "ai_usage_refund" =>
          \E o \in 1..(n - 1) : /\ ledger'[u][o].request = r
                                /\ ledger'[u][o].type = "ai_usage_reservation"
    <3>1. HAVE type = "ai_usage_refund"
    <3>2. HoldPosted(r) /\ UserOf(r) = u /\ reservation[r].reserved > 0
          /\ reservation[r].state \in {"reserved", "needs_reconciliation"}
      BY <1>9, <3>1 DEF EntriesInv
    <3>3. PICK o \in 1..Len(log) : log[o].request = r /\ log[o].type = "ai_usage_reservation"
      BY <1>v, <3>2 DEF HoldPosted
    <3>4. QED
      BY <2>1, <2>2, <3>3
  <2>6. amount = IF type = "ai_usage_refund" THEN reservation'[r].refunded ELSE reservation'[r].reserved
    OBVIOUS
  <2>7. EntryFine(u, n)'
    BY <1>3, <2>1, <2>4, <2>5, <2>6, ZenonT(30) DEF EntryFine
  <2>8. QED
    BY <2>7, <2>n
<1>10. \A v \in Users : \A n \in 1..Len(ledger'[v]) : EntryFine(v, n)'
  <2>0. TAKE v \in Users
  <2>1. TAKE n \in 1..Len(ledger'[v])
  <2>2. CASE v # u \/ amount = 0
    <3>1. ledger'[v] = ledger[v]
      BY <1>5, <1>6, <2>2
    <3>2. QED
      BY <1>8, <3>1
  <2>3. CASE v = u /\ amount > 0
    <3>1. n \in 1..Len(ledger[u]) \/ n = Len(log) + 1
      BY <1>1, <1>7, <1>v, <2>3
    <3>2. QED
      BY <1>8, <1>9, <2>3, <3>1
  <2>4. QED
    BY <2>2, <2>3
<1>11. ASSUME NEW q \in RequestIds, q # r PROVE HoldPosted(q)'
  <2>1. KeptRow(q) /\ reservation'[q].state = reservation[q].state /\ HoldPosted(q)
    BY <1>11 DEF EntriesInv
  <2>2. UserOf(q)' = UserOf(q) /\ UserOf(q) \in Users /\ reservation'[q].reserved = reservation[q].reserved
    BY <2>1, RowType DEF KeptRow, UserOf
  <2>3. \A v \in Users : \A n \in 1..Len(ledger[v]) : n \in 1..Len(ledger'[v]) /\ ledger'[v][n] = ledger[v][n]
    <3>0. TAKE v \in Users
    <3>1. TAKE n \in 1..Len(ledger[v])
    <3>2. CASE v # u \/ amount = 0
      BY <1>5, <1>6, <3>2
    <3>3. CASE v = u /\ amount > 0
      BY <1>1, <1>4, <1>7, <1>v, <3>3
    <3>4. QED
      BY <3>2, <3>3
  <2>4. QED
    BY <2>1, <2>2, <2>3 DEF HoldPosted
<1>12. HoldPosted(r)'
  <2>1. CASE type = "ai_usage_refund"
    BY <2>1 DEF HoldPosted, Final
  <2>2. CASE type = "ai_usage_reservation" /\ amount > 0
    <3>1. Len(log) + 1 \in 1..Len(ledger'[u]) /\ ledger'[u][Len(log) + 1].request = r
          /\ ledger'[u][Len(log) + 1].type = "ai_usage_reservation"
      BY <1>1, <1>3, <1>7, <2>2
    <3>2. QED
      BY <3>1 DEF HoldPosted
  <2>3. CASE type = "ai_usage_reservation" /\ amount = 0
    BY <2>3 DEF HoldPosted
  <2>4. QED
    BY <2>1, <2>2, <2>3
<1>13. QED
  BY <1>10, <1>11, <1>12 DEF EntriesInv

LEMMA EntriesInit == Init => EntriesInv
BY DEF Init, EntriesInv, HoldPosted, NoReservation

LEMMA EntriesStep ==
  TypeOK /\ RowsCoherent /\ EntriesInv /\ [Next]_vars => EntriesInv'
<1> SUFFICES ASSUME TypeOK, RowsCoherent, EntriesInv, [Next]_vars
             PROVE  EntriesInv'
  OBVIOUS
<1>0. TypeOK' /\ RowsCoherent'
  BY TypeStep, StepEffect
<1>1. ASSUME NEW r \in RequestIds, NEW k \in ApiKeys, NEW a \in Nat, Take(r, k, a)
      PROVE  EntriesInv'
  <2>1. OwnerOf[k] \in Users /\ reservation \in [RequestIds -> Reservation]
    BY BillingAssumption DEF TypeOK
  <2>2. UserOf(r)' = OwnerOf[k]
    BY <1>1 DEF Take, UserOf
  <2>3. reservation'[r].state = "reserved" /\ reservation'[r].reserved = a /\ reservation[r].state = "none"
    BY <1>1, <2>1 DEF Take
  <2>4. \A q \in RequestIds : q # r => KeptRow(q) /\ reservation'[q].state = reservation[q].state
    BY <1>1, <2>1 DEF Take, KeptRow, Final
  <2>5. Post(OwnerOf[k], r, "ai_usage_reservation", a)
    BY <1>1 DEF Take
  <2>6. QED
    BY <2>1, <2>2, <2>3, <2>4, <2>5, PostFine
<1>2. ASSUME NEW r \in RequestIds, NEW c \in Nat, EndWith(r, c)
      PROVE  EntriesInv'
  <2>0. reservation \in [RequestIds -> Reservation] /\ UserOf(r) \in Users
    BY RowType DEF TypeOK
  <2>1. PICK s \in {"settled", "refunded"} :
          reservation' = [reservation EXCEPT
                            ![r] = [state |-> s, reserved |-> reservation[r].reserved, charged |-> c,
                                    refunded |-> reservation[r].reserved - c, overdue |-> FALSE]]
    BY <1>2 DEF EndWith
  <2>2. /\ reservation[r].state \in {"reserved", "needs_reconciliation"}
        /\ reservation[r].reserved \in Nat /\ c <= reservation[r].reserved
        /\ \A q \in RequestIds : request'[q].apiKey = request[q].apiKey
        /\ Post(UserOf(r), r, "ai_usage_refund", reservation[r].reserved - c)
    BY <1>2, <2>0 DEF EndWith, SameKeys, Reservation
  <2>v. PICK amount : amount = reservation[r].reserved - c
    OBVIOUS
  <2>3. amount \in Nat /\ (amount > 0 => reservation[r].reserved > 0)
    BY <2>2, <2>v
  <2>4. reservation'[r].state = s /\ reservation'[r].reserved = reservation[r].reserved
        /\ reservation'[r].refunded = amount
    BY <2>0, <2>1, <2>v
  <2>5. \A q \in RequestIds : q # r => reservation'[q] = reservation[q]
    BY <2>0, <2>1
  <2>6. \A q \in RequestIds : q # r => KeptRow(q) /\ reservation'[q].state = reservation[q].state
    BY <2>2, <2>5 DEF KeptRow, Final
  <2>7. KeptRow(r) /\ Final(r)' /\ reservation'[r].state # "none"
    BY <2>2, <2>4 DEF KeptRow, Final
  <2>8. UserOf(r)' = UserOf(r)
    BY <2>2 DEF UserOf
  <2>9. Post(UserOf(r), r, "ai_usage_refund", amount)
    BY <2>2, <2>v
  <2>u. PICK u \in Users : u = UserOf(r)
    BY <2>0
  <2>10. QED
    BY <2>2, <2>3, <2>4, <2>6, <2>7, <2>8, <2>9, <2>u, PostFine
<1>3. CASE Quiet
  <2>1. ledger' = ledger
    BY <1>3 DEF Quiet, money
  <2>2. \A q \in RequestIds :
          /\ request'[q].apiKey = request[q].apiKey
          /\ reservation'[q].reserved = reservation[q].reserved
          /\ reservation'[q].charged = reservation[q].charged
          /\ \/ reservation'[q].state = reservation[q].state
             \/ /\ reservation[q].state = "reserved"
                /\ reservation'[q].state = "needs_reconciliation"
    BY <1>3 DEF Quiet, SameKeys
  <2>3. ASSUME NEW q \in RequestIds, Final(q) PROVE Final(q)' /\ reservation'[q].refunded = reservation[q].refunded
    <3>1. reservation'[q].state = reservation[q].state
      BY <2>2, <2>3 DEF Final
    <3>2. /\ reservation[q].charged + reservation[q].refunded = reservation[q].reserved
          /\ reservation'[q].charged + reservation'[q].refunded = reservation'[q].reserved
      BY <1>0, <2>3, <3>1 DEF RowsCoherent, Final
    <3>3. /\ reservation[q].charged \in Nat /\ reservation[q].refunded \in Nat
          /\ reservation'[q].refunded \in Nat
      BY <1>0 DEF TypeOK, Reservation
    <3>4. QED
      BY <2>2, <2>3, <3>1, <3>2, <3>3 DEF Final
  <2>4. \A q \in RequestIds : KeptRow(q)
    BY <2>2, <2>3 DEF KeptRow
  <2>5. ASSUME NEW u \in Users, NEW n \in 1..Len(ledger[u]) PROVE EntryFine(u, n)'
    <3>1. ledger[u] \in Seq(LedgerEntry)
      BY DEF TypeOK
    <3>e. ledger[u][n] \in LedgerEntry
      BY <3>1
    <3>2. ledger[u][n].request \in RequestIds
      BY <3>e DEF LedgerEntry
    <3>3. EntryFine(u, n) /\ KeptRow(ledger[u][n].request)
      BY <2>4, <3>2 DEF EntriesInv
    <3>4. \A m \in 1..n : ledger'[u][m] = ledger[u][m]
      BY <2>1
    <3>5. QED
      BY <3>3, <3>4, EntryStays
  <2>6. \A r \in RequestIds : HoldPosted(r)'
    <3>1. TAKE r \in RequestIds
    <3>2. HoldPosted(r) /\ UserOf(r)' = UserOf(r)
      BY <2>2 DEF EntriesInv, UserOf
    <3>3. QED
      BY <2>1, <2>2, <3>2 DEF HoldPosted
  <2>7. QED
    BY <2>1, <2>5, <2>6 DEF EntriesInv
<1>4. QED
  BY <1>1, <1>2, <1>3, StepEffect DEF Effect

\* Every request is debited once for what it reserved and credited at most once, for exactly
\* what its reservation says was given back.
THEOREM EntriesMatch == Spec => []LedgerMatchesRequests
<1>1. EntriesInv => LedgerMatchesRequests
  BY DEF EntriesInv, EntryFine, LedgerMatchesRequests
<1>2. QED
  BY <1>1, TypeInit, CoherentInit, EntriesInit, TypeStep, StepEffect, EntriesStep, PTL DEF Spec

-----------------------------------------------------------------------------
(* Final outcomes. *)

\* A step that touches one row, and that one not final.
LEMMA OneOpenRow ==
  ASSUME TypeOK, NEW r \in RequestIds, reservation[r].state \notin {"settled", "refunded"},
         \A q \in RequestIds : q # r => request'[q] = request[q] /\ reservation'[q] = reservation[q]
  PROVE  FinalRowsKept
<1>1. SUFFICES ASSUME NEW q \in RequestIds, reservation[q].state \in {"settled", "refunded"}
               PROVE  /\ reservation'[q] = reservation[q]
                      /\ request'[q] = [request[q] EXCEPT !.idempotencyKey = request'[q].idempotencyKey]
  BY DEF FinalRowsKept
<1>2. request'[q] = request[q] /\ reservation'[q] = reservation[q]
  BY <1>1
<1>3. request[q] \in Request
  BY RowType
<1>4. request[q] = [request[q] EXCEPT !.idempotencyKey = request[q].idempotencyKey]
  BY <1>3 DEF Request
<1>5. QED
  BY <1>2, <1>4

LEMMA SameRows ==
  ASSUME TypeOK, UNCHANGED <<request, reservation>>
  PROVE  FinalRowsKept
<1>1. \A q \in RequestIds : request[q] = [request[q] EXCEPT !.idempotencyKey = request[q].idempotencyKey]
  BY RowType DEF Request
<1>2. QED
  BY <1>1 DEF FinalRowsKept

LEMMA ReserveKeepsFinal ==
  ASSUME TypeOK, RowsCoherent, NEW r \in RequestIds, NEW k \in ApiKeys,
         NEW i \in IdempotencyKeys \cup {NoKey}, NEW f \in Fingerprints, NEW amount \in Nat,
         NEW row \in ReplayRow, Reserve(r, k, i, f, amount, row)
  PROVE  FinalRowsKept
<1>1. SUFFICES ASSUME NEW q \in RequestIds, reservation[q].state \in {"settled", "refunded"}
               PROVE  /\ reservation'[q] = reservation[q]
                      /\ request'[q] = [request[q] EXCEPT !.idempotencyKey = request'[q].idempotencyKey]
  BY DEF FinalRowsKept
<1>2. q # r
  BY <1>1 DEF Reserve, RowsCoherent
<1>3. reservation'[q] = reservation[q]
  BY <1>2 DEF Reserve, TypeOK
<1>4. request'[q] \in {request[q], [request[q] EXCEPT !.idempotencyKey = NoKey]}
  BY <1>2 DEF Reserve, Unbound
<1>5. request[q] \in Request
  BY RowType
<1>6. request'[q] = [request[q] EXCEPT !.idempotencyKey = request'[q].idempotencyKey]
  BY <1>4, <1>5 DEF Request
<1>7. QED
  BY <1>3, <1>6

LEMMA FinalStep == TypeOK /\ RowsCoherent /\ [Next]_vars => [FinalRowsKept]_vars
<1> SUFFICES ASSUME TypeOK, RowsCoherent, [Next]_vars PROVE [FinalRowsKept]_vars
  OBVIOUS
<1>1. ASSUME NEW r \in RequestIds, NEW k \in ApiKeys, NEW i \in IdempotencyKeys \cup {NoKey},
             NEW f \in Fingerprints, NEW amount \in Amounts, NEW row \in ReplayRow,
             Reserve(r, k, i, f, amount, row)
      PROVE  FinalRowsKept
  BY <1>1, BillingAssumption, ReserveKeepsFinal
<1>2. ASSUME NEW r \in RequestIds, MarkDispatched(r)
      PROVE  FinalRowsKept
  <2>1. reservation[r].state = "reserved"
    BY <1>2 DEF MarkDispatched, RowsCoherent
  <2>2. \A q \in RequestIds : q # r => request'[q] = request[q] /\ reservation'[q] = reservation[q]
    BY <1>2 DEF MarkDispatched, TypeOK
  <2>3. QED
    BY <2>1, <2>2, OneOpenRow
<1>3. ASSUME NEW r \in RequestIds, RefundRows(r),
             reservation[r].state \in {"reserved", "needs_reconciliation"}
      PROVE  FinalRowsKept
  <2>1. \A q \in RequestIds : q # r => request'[q] = request[q] /\ reservation'[q] = reservation[q]
    BY <1>3 DEF RefundRows, TypeOK
  <2>2. QED
    BY <1>3, <2>1, OneOpenRow
<1>4. ASSUME NEW r \in RequestIds, QuarantineRows(r), reservation[r].state = "reserved"
      PROVE  FinalRowsKept
  <2>1. \A q \in RequestIds : q # r => request'[q] = request[q] /\ reservation'[q] = reservation[q]
    BY <1>4 DEF QuarantineRows, TypeOK
  <2>2. QED
    BY <1>4, <2>1, OneOpenRow
<1>5. ASSUME NEW r \in RequestIds, PassDeadline(r)
      PROVE  FinalRowsKept
  <2>1. \A q \in RequestIds : q # r => request'[q] = request[q] /\ reservation'[q] = reservation[q]
    BY <1>5 DEF PassDeadline, TypeOK
  <2>2. QED
    BY <1>5, <2>1, OneOpenRow DEF PassDeadline
<1>6. ASSUME NEW r \in RequestIds, NEW actual \in Costs, NEW zeroUsage \in BOOLEAN,
             Settle(r, actual, zeroUsage)
      PROVE  FinalRowsKept
  <2>1. \A q \in RequestIds : q # r => request'[q] = request[q] /\ reservation'[q] = reservation[q]
    BY <1>6 DEF Settle, TypeOK
  <2>2. QED
    BY <1>6, <2>1, OneOpenRow DEF Settle, Settleable
<1>7. ASSUME NEW m \in Maintainers, NEW r \in RequestIds, NEW d \in BOOLEAN,
             ReconcileRow(m, r, d) \/ ResolveRow(m, r, d)
      PROVE  FinalRowsKept
  <2>1. CASE ReconcileRow(m, r, d)
    BY <1>3, <1>4, <2>1, SameRows DEF ReconcileRow
  <2>2. CASE ResolveRow(m, r, d)
    BY <1>3, <2>2, SameRows DEF ResolveRow
  <2>3. QED
    BY <1>7, <2>1, <2>2
<1>8. ASSUME NEW k \in ApiKeys, RevokeKey(k)
      PROVE  FinalRowsKept
  BY <1>8, SameRows DEF RevokeKey
<1>9. ASSUME NEW m \in Maintainers, ReadStale(m) \/ ReadQuarantined(m) \/ AbortSweep(m)
      PROVE  FinalRowsKept
  BY <1>9, SameRows DEF ReadStale, ReadQuarantined, AbortSweep
<1>10. ASSUME NEW r \in RequestIds, Refund(r) \/ MarkNeedsReconciliation(r)
       PROVE  FinalRowsKept
  BY <1>3, <1>4, <1>10 DEF Refund, MarkNeedsReconciliation
<1>11. QED
  BY <1>1, <1>2, <1>5, <1>6, <1>7, <1>8, <1>9, <1>10 DEF Next, SweepStep

\* No repeated, late or racing call changes a request that was settled or refunded.
THEOREM FinalOutcomes == Spec => FinalIsFinal
<1>1. QED
  BY RowsStayCoherent, FinalStep, PTL DEF Spec, FinalIsFinal

-----------------------------------------------------------------------------
(***************************************************************************)
(* The store implements SpendHold: a reservation is a hold, a settlement a *)
(* charge, a refund a release, and everything else is invisible.           *)
(***************************************************************************)

AbstractHold(r) == [state |-> HoldState(reservation[r].state), key |-> request[r].apiKey,
                    amount |-> reservation[r].reserved, charged |-> reservation[r].charged]

AbstractHolds == [r \in RequestIds |-> AbstractHold(r)]

Committed == [k \in ApiKeys |-> spendUsed[k] + spendReserved[k]]

LEMMA AbstractInit == Init => Holds!Init
<1> SUFFICES ASSUME Init PROVE Holds!Init
  OBVIOUS
<1>1. Committed = [k \in ApiKeys |-> 0]
  BY DEF Committed, Init
<1>2. \A r \in RequestIds : AbstractHold(r) \in Holds!Hold /\ AbstractHold(r).state = "none"
  <2>1. TAKE r \in RequestIds
  <2>2. reservation[r] = NoReservation /\ request[r].apiKey \in ApiKeys
    BY TypeInit, RowType DEF Init
  <2>3. QED
    BY <2>2 DEF AbstractHold, HoldState, NoReservation, Holds!Hold
<1>3. AbstractHolds \in [RequestIds -> Holds!Hold] /\ \A r \in RequestIds : AbstractHolds[r].state = "none"
  BY <1>2 DEF AbstractHolds
<1>4. QED
  BY <1>1, <1>3 DEF Holds!Init, Init, Committed, AbstractHolds, AbstractHold

\* What the abstract state of a hold is, one step later, when only row r has changed.
LEMMA AbstractUpdate ==
  ASSUME NEW r \in RequestIds, NEW h, AbstractHold(r)' = h,
         \A q \in RequestIds : q # r => /\ request'[q].apiKey = request[q].apiKey
                                        /\ reservation'[q] = reservation[q]
  PROVE  AbstractHolds' = [AbstractHolds EXCEPT ![r] = h]
<1>1. \A q \in RequestIds : q # r => AbstractHold(q)' = AbstractHold(q)
  BY DEF AbstractHold
<1>2. QED
  BY <1>1 DEF AbstractHolds

LEMMA TakeIsAuthorize ==
  ASSUME TypeOK, NEW r \in RequestIds, NEW k \in ApiKeys, NEW a \in Nat, Take(r, k, a)
  PROVE  Holds!Authorize(r, k, a) /\ a \in 0..balance[OwnerOf[k]]
<1>1. /\ request'[r].apiKey = k
      /\ \A q \in RequestIds : q # r => /\ request'[q].apiKey = request[q].apiKey
                                        /\ reservation'[q] = reservation[q]
      /\ reservation'[r] = [state |-> "reserved", reserved |-> a, charged |-> 0,
                            refunded |-> 0, overdue |-> FALSE]
  BY DEF Take, TypeOK
<1>2. AbstractHold(r)' = [state |-> "held", key |-> k, amount |-> a, charged |-> 0]
  BY <1>1 DEF AbstractHold, HoldState
<1>3. AbstractHolds' = [AbstractHolds EXCEPT
                         ![r] = [state |-> "held", key |-> k, amount |-> a, charged |-> 0]]
  BY <1>1, <1>2, AbstractUpdate
<1>4. AbstractHolds[r].state = "none"
  BY DEF AbstractHolds, AbstractHold, HoldState, Take
<1>5. /\ OwnerOf[k] \in Users /\ balance[OwnerOf[k]] \in Nat
      /\ balance' = [balance EXCEPT ![OwnerOf[k]] = @ - a] /\ a \in 0..balance[OwnerOf[k]]
  <2>1. OwnerOf[k] \in Users
    BY BillingAssumption
  <2>2. balance[OwnerOf[k]] \in Nat
    BY <2>1 DEF TypeOK
  <2>3. balance' = [balance EXCEPT ![OwnerOf[k]] = balance[OwnerOf[k]] + (-1) * a]
    BY DEF Take, Post
  <2>4. balance[OwnerOf[k]] + (-1) * a = balance[OwnerOf[k]] - a
    BY <2>2
  <2>5. a \in 0..balance[OwnerOf[k]]
    BY <2>2 DEF Take
  <2>6. QED
    BY <2>1, <2>2, <2>3, <2>4, <2>5
<1>6. Committed' = [Committed EXCEPT ![k] = @ + a]
  <2>1. /\ spendUsed' = spendUsed
        /\ \A j \in ApiKeys : spendReserved'[j] = IF j = k THEN spendReserved[k] + a ELSE spendReserved[j]
        /\ spendUsed[k] \in Nat /\ spendReserved[k] \in Nat
    BY DEF Take, TypeOK
  <2>2. \A j \in ApiKeys : spendUsed'[j] + spendReserved'[j]
                             = IF j = k THEN (spendUsed[k] + spendReserved[k]) + a
                               ELSE spendUsed[j] + spendReserved[j]
    BY <2>1
  <2>3. QED
    BY <2>2 DEF Committed
<1>7. a <= balance[OwnerOf[k]] /\ (SpendLimit[k] # NoLimit => Committed[k] + a <= SpendLimit[k])
  BY DEF Take, Committed
<1>8. QED
  BY <1>3, <1>4, <1>5, <1>6, <1>7
  DEF Holds!Authorize, Committed, AbstractHolds, AbstractHold

LEMMA EndIsEnd ==
  ASSUME TypeOK, MoneyInv, NEW r \in RequestIds, NEW c \in Nat, EndWith(r, c)
  PROVE  \/ Holds!End(r, "charged", c) /\ c \in 0..AbstractHolds[r].amount
         \/ Holds!End(r, "released", 0)
<1> DEFINE k == request[r].apiKey
           held == reservation[r].reserved
           outcome(s) == IF s = "settled" THEN "charged" ELSE "released"
<1>1. k \in ApiKeys /\ held \in Nat /\ c \in 0..held /\ OwnerOf[k] \in Users /\ UserOf(r) = OwnerOf[k]
  BY RowType DEF EndWith, UserOf
<1>2. PICK s \in {"settled", "refunded"} :
         /\ s = "refunded" => c = 0
         /\ reservation' = [reservation EXCEPT
                            ![r] = [state |-> s, reserved |-> held, charged |-> c,
                                    refunded |-> held - c, overdue |-> FALSE]]
  BY DEF EndWith
<1>3. /\ request'[r].apiKey = k
      /\ \A q \in RequestIds : q # r => /\ request'[q].apiKey = request[q].apiKey
                                        /\ reservation'[q] = reservation[q]
      /\ reservation'[r] = [state |-> s, reserved |-> held, charged |-> c,
                            refunded |-> held - c, overdue |-> FALSE]
  BY <1>2 DEF EndWith, SameKeys, TypeOK
<1>4. AbstractHolds[r] = [state |-> "held", key |-> k, amount |-> held, charged |-> 0]
  BY DEF AbstractHolds, AbstractHold, HoldState, EndWith
<1>5. AbstractHolds' = [AbstractHolds EXCEPT
                         ![r] = [state |-> outcome(s), key |-> AbstractHolds[r].key,
                                 amount |-> AbstractHolds[r].amount, charged |-> c]]
  <2>1. AbstractHold(r)' = [state |-> outcome(s), key |-> k, amount |-> held, charged |-> c]
    BY <1>2, <1>3 DEF AbstractHold, HoldState
  <2>2. AbstractHolds' = [AbstractHolds EXCEPT
                           ![r] = [state |-> outcome(s), key |-> k, amount |-> held, charged |-> c]]
    BY <1>3, <2>1, AbstractUpdate
  <2> HIDE DEF outcome, k, held
  <2>3. QED
    BY <1>4, <2>2
<1>6. balance' = [balance EXCEPT ![OwnerOf[k]] = @ + (held - c)]
  <2>1. balance' = [balance EXCEPT ![OwnerOf[k]] = balance[OwnerOf[k]] + 1 * (held - c)]
    BY <1>1 DEF EndWith, Post
  <2>2. 1 * (held - c) = held - c
    BY <1>1
  <2>3. QED
    BY <2>1, <2>2
<1>7. Committed' = [Committed EXCEPT ![k] = @ - (held - c)]
  <2>1. Monus(spendReserved[k], held) = spendReserved[k] - held
    <3>1. Held(r) = held
      BY DEF Held, EndWith
    <3>2. spendReserved[k] \in Nat
      BY <1>1 DEF TypeOK
    <3>3. QED
      BY <1>1, <3>1, <3>2, HeldWithinCounter DEF Monus, MoneyInv
  <2>2. /\ spendReserved' = [spendReserved EXCEPT ![k] = spendReserved[k] - held]
        /\ spendUsed' = [spendUsed EXCEPT ![k] = spendUsed[k] + c]
    BY <2>1 DEF EndWith
  <2>3. spendReserved \in [ApiKeys -> Nat] /\ spendUsed \in [ApiKeys -> Nat]
    BY DEF TypeOK
  <2> HIDE DEF k, held
  <2>4. \A j \in ApiKeys : spendUsed'[j] + spendReserved'[j]
                             = IF j = k THEN (spendUsed[k] + spendReserved[k]) - (held - c)
                               ELSE spendUsed[j] + spendReserved[j]
    BY <1>1, <2>2, <2>3
  <2>5. QED
    BY <2>4 DEF Committed
<1>8. Holds!End(r, outcome(s), c)
  <2> HIDE DEF outcome, k, held
  <2>1. /\ AbstractHolds[r].state = "held" /\ AbstractHolds[r].amount = held
        /\ AbstractHolds[r].key = k
    BY <1>4
  <2>2. QED
    BY <1>1, <1>5, <1>6, <1>7, <2>1 DEF Holds!End, Committed, AbstractHolds, AbstractHold
<1>9. c \in 0..AbstractHolds[r].amount
  BY <1>1, <1>4
<1>10. CASE s = "settled"
  BY <1>8, <1>9, <1>10
<1>11. CASE s = "refunded"
  BY <1>2, <1>8, <1>11
<1>12. QED
  BY <1>10, <1>11

LEMMA QuietIsStutter ==
  ASSUME TypeOK, Quiet
  PROVE  UNCHANGED Holds!vars
<1>1. \A r \in RequestIds : AbstractHold(r)' = AbstractHold(r)
  BY DEF Quiet, SameKeys, AbstractHold, HoldState
<1>2. AbstractHolds' = AbstractHolds
  BY <1>1 DEF AbstractHolds
<1>3. Committed' = Committed /\ balance' = balance
  BY DEF Committed, Quiet, money
<1>4. QED
  BY <1>2, <1>3 DEF Holds!vars, Committed, AbstractHolds, AbstractHold

LEMMA AbstractStep == TypeOK /\ RowsCoherent /\ MoneyInv /\ [Next]_vars => [Holds!Next]_Holds!vars
<1> SUFFICES ASSUME TypeOK, RowsCoherent, MoneyInv, [Next]_vars PROVE [Holds!Next]_Holds!vars
  OBVIOUS
<1>1. ASSUME NEW r \in RequestIds, NEW k \in ApiKeys, NEW a \in Nat, Take(r, k, a)
      PROVE  Holds!Next
  BY <1>1, TakeIsAuthorize DEF Holds!Next
<1>2. ASSUME NEW r \in RequestIds, NEW c \in Nat, EndWith(r, c)
      PROVE  Holds!Next
  BY <1>2, EndIsEnd DEF Holds!Next, Holds!Charge, Holds!Release, AbstractHolds, AbstractHold
<1>3. CASE Quiet
  BY <1>3, QuietIsStutter
<1>4. QED
  BY <1>1, <1>2, <1>3, StepEffect DEF Effect

\* Whatever its callers and its sweeps do, the store is a SpendHold.
THEOREM StoreImplementsSpendHold == Spec => ImplementsSpendHold
<1>1. QED
  BY AbstractInit, AbstractStep, RowsStayCoherent, MoneyAlwaysAddsUp, PTL
  DEF Spec, ImplementsSpendHold, Holds!Spec

-----------------------------------------------------------------------------
(* What a step does to the bindings *)

\* The identity of request q and whether it exists stay as they are.
SameBinding(q) ==
    /\ request'[q].apiKey = request[q].apiKey
    /\ request'[q].idempotencyKey = request[q].idempotencyKey
    /\ request'[q].fingerprint = request[q].fingerprint
    /\ request'[q].status = "none" <=> request[q].status = "none"

\* Only the money and the progress of requests change.
SameBindings == \A q \in RequestIds : SameBinding(q)

\* Request r is created and takes the key i of k, if any, from whoever holds it.
Binds(r, k, i, f) ==
    /\ request[r].status = "none"
    /\ request'[r].status = "reserved" /\ request'[r].apiKey = k
    /\ request'[r].idempotencyKey = i /\ request'[r].fingerprint = f
    /\ \A q \in Bound(k, i) : /\ request[q].fingerprint = f
                              /\ ReplayOptIn[k]
                              /\ request[q].status \notin {"reserved", "dispatched"}
    /\ \A q \in RequestIds : q # r =>
         /\ request'[q].apiKey = request[q].apiKey
         /\ request'[q].fingerprint = request[q].fingerprint
         /\ request'[q].status = request[q].status
         /\ request'[q].idempotencyKey = IF q \in Bound(k, i) THEN NoKey ELSE request[q].idempotencyKey

LEMMA SameRequestsSameBindings == ASSUME UNCHANGED request PROVE SameBindings
BY DEF SameBindings, SameBinding

\* A row whose status and amounts alone are written.
LEMMA ProgressKeepsBindings ==
  ASSUME TypeOK, NEW r \in RequestIds, request[r].status # "none", NEW rq,
         request' = [request EXCEPT ![r] = rq], rq.status # "none", rq.apiKey = request[r].apiKey,
         rq.idempotencyKey = request[r].idempotencyKey, rq.fingerprint = request[r].fingerprint
  PROVE  SameBindings
<1>1. request'[r] = rq /\ \A q \in RequestIds : q # r => request'[q] = request[q]
  BY DEF TypeOK
<1>2. QED
  BY <1>1 DEF SameBindings, SameBinding

LEMMA BindingAnswers ==
  ASSUME NEW q \in RequestIds, NEW row \in ReplayRow
  PROVE  BindingOutcome(q, row) \in {"replay", "not_stored", "expired"}
<1>1. row = "tombstone" \/ row = "body" \/ row = "none"
  BY DEF ReplayRow
<1> DEFINE open == request[q].status \in {"reserved", "dispatched"}
           opt  == ReplayOptIn[request[q].apiKey]
<1>2. CASE ~opt
  BY <1>2 DEF BindingOutcome
<1>3. CASE opt /\ open
  BY <1>3 DEF BindingOutcome
<1>4. CASE opt /\ ~open
  BY <1>1, <1>4 DEF BindingOutcome
<1>5. QED
  BY <1>2, <1>3, <1>4

LEMMA ExpiredBinding ==
  ASSUME NEW q \in RequestIds, NEW row \in ReplayRow, BindingOutcome(q, row) = "expired"
  PROVE  /\ ReplayOptIn[request[q].apiKey] /\ request[q].status \notin {"reserved", "dispatched"}
         /\ row = "none"
<1>1. row = "tombstone" \/ row = "body" \/ row = "none"
  BY DEF ReplayRow
<1>2. CASE ~ReplayOptIn[request[q].apiKey]
  BY <1>2 DEF BindingOutcome
<1>3. CASE ReplayOptIn[request[q].apiKey] /\ request[q].status \in {"reserved", "dispatched"}
  BY <1>3 DEF BindingOutcome
<1>4. CASE ReplayOptIn[request[q].apiKey] /\ request[q].status \notin {"reserved", "dispatched"}
  BY <1>1, <1>4 DEF BindingOutcome
<1>5. QED
  BY <1>2, <1>3, <1>4

\* A reserve call is let through only over expired bindings of the same body.
LEMMA ReservedOverExpired ==
  ASSUME NEW k, NEW i, NEW f, NEW amount, NEW row \in ReplayRow,
         ReserveOutcome(k, i, f, amount, row) = "reserved"
  PROVE  \A q \in Bound(k, i) : request[q].fingerprint = f /\ BindingOutcome(q, row) = "expired"
<1>1. ~ \E q \in Bound(k, i) : request[q].fingerprint # f
  BY DEF ReserveOutcome
<1>2. ~ \E q \in Bound(k, i) : BindingOutcome(q, row) # "expired"
  <2> SUFFICES ASSUME \E q \in Bound(k, i) : BindingOutcome(q, row) # "expired" PROVE FALSE
    OBVIOUS
  <2>1. (CHOOSE q \in Bound(k, i) : TRUE) \in RequestIds
    BY DEF Bound
  <2>2. BindingOutcome(CHOOSE q \in Bound(k, i) : TRUE, row) \in {"replay", "not_stored", "expired"}
    BY <2>1, BindingAnswers
  <2>3. ReserveOutcome(k, i, f, amount, row) = BindingOutcome(CHOOSE q \in Bound(k, i) : TRUE, row)
    BY <1>1 DEF ReserveOutcome
  <2>4. QED
    BY <2>2, <2>3
<1>3. QED
  BY <1>1, <1>2

LEMMA ReserveBinds ==
  ASSUME TypeOK, NEW r \in RequestIds, NEW k \in ApiKeys, NEW i \in IdempotencyKeys \cup {NoKey},
         NEW f \in Fingerprints, NEW amount, NEW row \in ReplayRow,
         Reserve(r, k, i, f, amount, row)
  PROVE  Binds(r, k, i, f) /\ (Bound(k, i) # {} => row = "none")
<1> DEFINE new == [status |-> "reserved", apiKey |-> k, idempotencyKey |-> i, fingerprint |-> f,
                   reserved |-> amount, charged |-> 0, refunded |-> 0, dispatched |-> FALSE]
<1>1. request[r].status = "none" /\ request' = [Unbound(k, i) EXCEPT ![r] = new]
  BY DEF Reserve
<1>2. new.status = "reserved" /\ new.apiKey = k /\ new.idempotencyKey = i /\ new.fingerprint = f
  OBVIOUS
<1> HIDE DEF new
<1>3. request'[r] = new /\ \A q \in RequestIds : q # r => request'[q] = Unbound(k, i)[q]
  BY <1>1 DEF Unbound
<1>4. \A q \in RequestIds :
        /\ Unbound(k, i)[q].apiKey = request[q].apiKey
        /\ Unbound(k, i)[q].fingerprint = request[q].fingerprint
        /\ Unbound(k, i)[q].status = request[q].status
        /\ Unbound(k, i)[q].idempotencyKey = IF q \in Bound(k, i) THEN NoKey ELSE request[q].idempotencyKey
  BY DEF Unbound, TypeOK, Request
<1>5. \A q \in Bound(k, i) : request[q].fingerprint = f /\ BindingOutcome(q, row) = "expired"
  <2>1. ReserveOutcome(k, i, f, amount, row) = "reserved"
    BY DEF Reserve
  <2>2. QED
    BY <2>1, ReservedOverExpired
<1>6. \A q \in Bound(k, i) : /\ q \in RequestIds /\ request[q].apiKey = k
                             /\ ReplayOptIn[request[q].apiKey]
                             /\ request[q].status \notin {"reserved", "dispatched"}
                             /\ row = "none"
  BY <1>5, ExpiredBinding DEF Bound
<1>7. QED
  BY <1>1, <1>2, <1>3, <1>4, <1>5, <1>6 DEF Binds

-----------------------------------------------------------------------------

LEMMA OperationKeepsBindings ==
  ASSUME TypeOK, RowsCoherent, NEW r \in RequestIds,
         \/ MarkDispatched(r)
         \/ \E actual \in Costs, zeroUsage \in BOOLEAN : Settle(r, actual, zeroUsage)
         \/ RefundRows(r) /\ reservation[r].state \in {"reserved", "needs_reconciliation"}
         \/ QuarantineRows(r) /\ reservation[r].state = "reserved"
  PROVE  SameBindings
<1>1. request[r] \in Request
  BY RowType
<1>2. request[r].status # "none"
  BY DEF RowsCoherent, MarkDispatched, Settle, Settleable
<1>3. CASE MarkDispatched(r)
  <2> DEFINE rq == [request[r] EXCEPT !.status = "dispatched", !.dispatched = TRUE]
  <2>1. /\ rq.status = "dispatched" /\ rq.apiKey = request[r].apiKey
        /\ rq.idempotencyKey = request[r].idempotencyKey /\ rq.fingerprint = request[r].fingerprint
    BY <1>1 DEF Request
  <2>2. request' = [request EXCEPT ![r] = rq]
    BY <1>3 DEF MarkDispatched
  <2> HIDE DEF rq
  <2>3. QED
    BY <1>2, <2>1, <2>2, ProgressKeepsBindings
<1>4. ASSUME NEW c, NEW x, NEW s \in {"succeeded", "refunded"},
             request' = [request EXCEPT ![r] = [request[r] EXCEPT !.status = s, !.charged = c, !.refunded = x]]
      PROVE  SameBindings
  <2> DEFINE rq == [request[r] EXCEPT !.status = s, !.charged = c, !.refunded = x]
  <2>1. /\ rq.status = s /\ rq.apiKey = request[r].apiKey
        /\ rq.idempotencyKey = request[r].idempotencyKey /\ rq.fingerprint = request[r].fingerprint
    BY <1>1 DEF Request
  <2>2. request' = [request EXCEPT ![r] = rq]
    BY <1>4
  <2> HIDE DEF rq
  <2>3. rq.status # "none"
    BY <2>1
  <2>4. QED
    BY <1>2, <2>1, <2>2, <2>3, ProgressKeepsBindings
<1>5. ASSUME NEW actual \in Costs, NEW zeroUsage \in BOOLEAN, Settle(r, actual, zeroUsage)
      PROVE  SameBindings
  <2>1. request' = [request EXCEPT ![r] =
                      [request[r] EXCEPT !.status = "succeeded",
                                         !.charged = Lesser(actual, reservation[r].reserved),
                                         !.refunded = reservation[r].reserved
                                                      - Lesser(actual, reservation[r].reserved)]]
    BY <1>5 DEF Settle
  <2>2. QED
    BY <1>4, <2>1
<1>6. CASE RefundRows(r)
  <2>1. request' = [request EXCEPT ![r] =
                      [request[r] EXCEPT !.status = "refunded", !.charged = 0,
                                         !.refunded = reservation[r].reserved]]
    BY <1>6 DEF RefundRows
  <2>2. QED
    BY <1>4, <2>1
<1>7. CASE QuarantineRows(r)
  <2> DEFINE rq == [request[r] EXCEPT !.status = "needs_reconciliation"]
  <2>1. /\ rq.status = "needs_reconciliation" /\ rq.apiKey = request[r].apiKey
        /\ rq.idempotencyKey = request[r].idempotencyKey /\ rq.fingerprint = request[r].fingerprint
    BY <1>1 DEF Request
  <2>2. request' = [request EXCEPT ![r] = rq]
    BY <1>7 DEF QuarantineRows
  <2> HIDE DEF rq
  <2>3. QED
    BY <1>2, <2>1, <2>2, ProgressKeepsBindings
<1>8. QED
  BY <1>3, <1>5, <1>6, <1>7

LEMMA StepBindings ==
  ASSUME TypeOK, RowsCoherent, [Next]_vars
  PROVE  \/ SameBindings
         \/ \E r \in RequestIds, k \in ApiKeys, i \in IdempotencyKeys \cup {NoKey}, f \in Fingerprints :
              Binds(r, k, i, f)
<1>1. ASSUME NEW r \in RequestIds, NEW k \in ApiKeys, NEW i \in IdempotencyKeys \cup {NoKey},
             NEW f \in Fingerprints, NEW amount \in Amounts, NEW row \in ReplayRow,
             Reserve(r, k, i, f, amount, row)
      PROVE  Binds(r, k, i, f)
  BY <1>1, ReserveBinds
<1>2. ASSUME NEW r \in RequestIds,
             MarkDispatched(r) \/ Refund(r) \/ MarkNeedsReconciliation(r)
             \/ \E actual \in Costs, zeroUsage \in BOOLEAN : Settle(r, actual, zeroUsage)
      PROVE  SameBindings
  BY <1>2, OperationKeepsBindings DEF Refund, MarkNeedsReconciliation
<1>3. ASSUME NEW m \in Maintainers, NEW r \in RequestIds, NEW d \in BOOLEAN,
             ReconcileRow(m, r, d) \/ ResolveRow(m, r, d)
      PROVE  SameBindings
  BY <1>3, OperationKeepsBindings, SameRequestsSameBindings DEF ReconcileRow, ResolveRow
<1>4. ASSUME \/ \E r \in RequestIds : PassDeadline(r)
             \/ \E k \in ApiKeys : RevokeKey(k)
             \/ \E m \in Maintainers : ReadStale(m) \/ ReadQuarantined(m) \/ AbortSweep(m)
             \/ UNCHANGED vars
      PROVE  SameBindings
  BY <1>4, SameRequestsSameBindings
     DEF PassDeadline, RevokeKey, ReadStale, ReadQuarantined, AbortSweep, vars
<1>5. QED
  BY <1>1, <1>2, <1>3, <1>4 DEF Next, SweepStep

-----------------------------------------------------------------------------
(* At most one request is bound to a key *)

\* The injective form of OneBindingPerKey, which is inductive.
BoundOnce ==
    \A p, q \in RequestIds :
        /\ request[p].status # "none" /\ request[q].status # "none"
        /\ request[p].apiKey = request[q].apiKey
        /\ request[p].idempotencyKey # NoKey
        /\ request[p].idempotencyKey = request[q].idempotencyKey
        => p = q

LEMMA BoundOnceStep == TypeOK /\ RowsCoherent /\ BoundOnce /\ [Next]_vars => BoundOnce'
<1> SUFFICES ASSUME TypeOK, RowsCoherent, BoundOnce, [Next]_vars PROVE BoundOnce'
  OBVIOUS
<1>1. CASE SameBindings
  BY <1>1 DEF SameBindings, SameBinding, BoundOnce
<1>2. ASSUME NEW r \in RequestIds, NEW k \in ApiKeys, NEW i \in IdempotencyKeys \cup {NoKey},
             NEW f \in Fingerprints, Binds(r, k, i, f)
      PROVE  BoundOnce'
  <2>1. SUFFICES ASSUME NEW p \in RequestIds, NEW q \in RequestIds,
                        request'[p].status # "none", request'[q].status # "none",
                        request'[p].apiKey = request'[q].apiKey,
                        request'[p].idempotencyKey # NoKey,
                        request'[p].idempotencyKey = request'[q].idempotencyKey
                 PROVE  p = q
    BY DEF BoundOnce
  <2>2. ASSUME NEW o \in RequestIds, o # r, request'[o].status # "none",
               request'[o].apiKey = k, request'[o].idempotencyKey = i, i # NoKey
        PROVE  FALSE
    <3>1. request[o].status # "none" /\ request[o].apiKey = k
      BY <1>2, <2>2 DEF Binds
    <3>2. request'[o].idempotencyKey = IF o \in Bound(k, i) THEN NoKey ELSE request[o].idempotencyKey
      BY <1>2, <2>2 DEF Binds
    <3>3. QED
      BY <2>2, <3>1, <3>2 DEF Bound
  <2>3. CASE p = r /\ q # r
    BY <1>2, <2>1, <2>2, <2>3 DEF Binds
  <2>4. CASE q = r /\ p # r
    BY <1>2, <2>1, <2>2, <2>4 DEF Binds
  <2>5. CASE p # r /\ q # r
    <3>1. \A o \in RequestIds : o # r =>
            /\ request'[o].apiKey = request[o].apiKey /\ request'[o].status = request[o].status
            /\ request'[o].idempotencyKey # NoKey => request'[o].idempotencyKey = request[o].idempotencyKey
      BY <1>2 DEF Binds
    <3>2. QED
      BY <2>1, <2>5, <3>1 DEF BoundOnce
  <2>6. QED
    BY <2>3, <2>4, <2>5
<1>3. QED
  BY <1>1, <1>2, StepBindings

LEMMA BoundOnceInit == Init => BoundOnce
BY DEF Init, BoundOnce, NoRequest

LEMMA BoundOnceCounts == TypeOK /\ BoundOnce => OneBindingPerKey
<1> SUFFICES ASSUME TypeOK, BoundOnce, NEW k \in ApiKeys, NEW i \in IdempotencyKeys
             PROVE  Cardinality(Bound(k, i)) <= 1
  BY DEF OneBindingPerKey
<1>1. \A p, q \in Bound(k, i) : p = q
  BY DEF Bound, BoundOnce
<1>2. CASE Bound(k, i) = {}
  BY <1>2, FS_EmptySet
<1>3. ASSUME NEW q \in Bound(k, i)
      PROVE  Cardinality(Bound(k, i)) <= 1
  <2>1. Bound(k, i) = {q}
    BY <1>1, <1>3
  <2>2. Cardinality({q}) = 1
    BY FS_Singleton
  <2>3. Cardinality(Bound(k, i)) = 1
    BY <2>1, <2>2
  <2>4. QED
    BY <2>3
<1>4. QED
  BY <1>2, <1>3

\* However requests with one idempotency key are created, end and are re-created, the key
\* of an API key never belongs to two of them.
THEOREM KeysBelongToOne == Spec => [](OneBindingPerKey /\ BoundOnce)
<1>1. Spec => []BoundOnce
  BY RowsStayCoherent, BoundOnceInit, BoundOnceStep, PTL DEF Spec
<1>2. QED
  BY <1>1, TypeCorrect, BoundOnceCounts, PTL

-----------------------------------------------------------------------------
(* When a key changes hands *)

KeptWhileInProgress ==
    \A r \in RequestIds :
        request[r].status # "none" /\ request'[r].idempotencyKey # request[r].idempotencyKey
        => /\ request[r].status \notin {"reserved", "dispatched"}
           /\ ReplayOptIn[request[r].apiKey]

HandedOver ==
    \A q \in RequestIds :
        request[q].idempotencyKey # NoKey /\ request'[q].idempotencyKey # request[q].idempotencyKey
        => \E r \in RequestIds :
             /\ request[r].status = "none" /\ request'[r].status = "reserved"
             /\ request'[r].apiKey = request[q].apiKey
             /\ request'[r].idempotencyKey = request[q].idempotencyKey
             /\ request'[r].fingerprint = request[q].fingerprint

\* Requests that do not exist have no key.
KeylessUnlessReserved ==
    \A q \in RequestIds : request[q].status = "none" => request[q].idempotencyKey = NoKey

LEMMA KeylessStep == TypeOK /\ RowsCoherent /\ KeylessUnlessReserved /\ [Next]_vars => KeylessUnlessReserved'
<1> SUFFICES ASSUME TypeOK, RowsCoherent, KeylessUnlessReserved, [Next]_vars PROVE KeylessUnlessReserved'
  OBVIOUS
<1>1. CASE SameBindings
  BY <1>1 DEF SameBindings, SameBinding, KeylessUnlessReserved
<1>2. ASSUME NEW r \in RequestIds, NEW k \in ApiKeys, NEW i \in IdempotencyKeys \cup {NoKey},
             NEW f \in Fingerprints, Binds(r, k, i, f)
      PROVE  KeylessUnlessReserved'
  BY <1>2 DEF Binds, KeylessUnlessReserved
<1>3. QED
  BY <1>1, <1>2, StepBindings

LEMMA KeyMoves ==
  TypeOK /\ RowsCoherent /\ KeylessUnlessReserved /\ [Next]_vars => KeptWhileInProgress /\ HandedOver
<1> SUFFICES ASSUME TypeOK, RowsCoherent, KeylessUnlessReserved, [Next]_vars
             PROVE  KeptWhileInProgress /\ HandedOver
  OBVIOUS
<1>1. CASE SameBindings
  BY <1>1 DEF SameBindings, SameBinding, KeptWhileInProgress, HandedOver
<1>2. ASSUME NEW r \in RequestIds, NEW k \in ApiKeys, NEW i \in IdempotencyKeys \cup {NoKey},
             NEW f \in Fingerprints, Binds(r, k, i, f)
      PROVE  KeptWhileInProgress /\ HandedOver
  <2>1. ASSUME NEW q \in RequestIds, request[q].status # "none",
               request'[q].idempotencyKey # request[q].idempotencyKey
        PROVE  q \in Bound(k, i)
    BY <1>2, <2>1 DEF Binds
  <2>2. KeptWhileInProgress
    BY <1>2, <2>1 DEF KeptWhileInProgress, Binds, Bound
  <2>3. ASSUME NEW q \in RequestIds, request[q].idempotencyKey # NoKey,
               request'[q].idempotencyKey # request[q].idempotencyKey
        PROVE  q \in Bound(k, i)
    BY <2>1, <2>3 DEF KeylessUnlessReserved
  <2>4. HandedOver
    BY <1>2, <2>3 DEF HandedOver, Binds, Bound
  <2>5. QED
    BY <2>2, <2>4
<1>3. QED
  BY <1>1, <1>2, StepBindings

LEMMA KeylessInit == Init => KeylessUnlessReserved
BY DEF Init, KeylessUnlessReserved, NoRequest

LEMMA KeylessAlways == Spec => []KeylessUnlessReserved
BY RowsStayCoherent, KeylessInit, KeylessStep, PTL DEF Spec

\* A request in progress, or one of a key without replays, keeps its idempotency key.
THEOREM InProgressKeepsKey == Spec => BindingKeptWhileInProgress
<1>1. TypeOK /\ RowsCoherent /\ KeylessUnlessReserved /\ [Next]_vars => [KeptWhileInProgress]_vars
  BY KeyMoves
<1>2. QED
  BY <1>1, RowsStayCoherent, KeylessAlways, PTL DEF Spec, BindingKeptWhileInProgress, KeptWhileInProgress

\* A key that is taken from a request goes, in the same step, to a new request with the
\* same body.
THEOREM KeysAreHandedOver == Spec => KeyHandedOver
<1>1. TypeOK /\ RowsCoherent /\ KeylessUnlessReserved /\ [Next]_vars => [HandedOver]_vars
  BY KeyMoves
<1>2. QED
  BY <1>1, RowsStayCoherent, KeylessAlways, PTL DEF Spec, KeyHandedOver, HandedOver

=============================================================================
