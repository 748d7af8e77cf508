------------------------- MODULE PublicCallProofs -------------------------
(***************************************************************************)
(* Theorems about PublicCall, for every value of its constants: what       *)
(* reaches the provider and what it costs, what the parser makes of a      *)
(* stream however it is cut, and what the client is told of it.            *)
(*                                                                         *)
(* The recursive definitions of the model are functions on 0..n.  Each is  *)
(* a chain of steps (Recursion), and what holds of every link of a chain   *)
(* is proved with Induction.                                               *)
(***************************************************************************)
EXTENDS PublicCall, SequenceTheorems, FiniteSetTheorems, WellFoundedInduction, TLAPS

-----------------------------------------------------------------------------
(* Induction and recursion.                                                *)

\* Every non-empty set of naturals has a least element.
LEMMA LeastElement ==
  ASSUME NEW T \in SUBSET Nat, T # {}
  PROVE  \E n \in T : \A m \in T : n <= m
<1>1. \E n \in T : \A m \in T : <<m, n>> \notin OpToRel(<, Nat)
  BY NatLessThanWellFounded, WFMin
<1>2. \A m, n \in T : <<m, n>> \notin OpToRel(<, Nat) => n <= m
  BY DEF OpToRel
<1> QED
  BY <1>1, <1>2

\* A set of numbers that holds 0 and is closed under +1 up to N holds 0..N.
LEMMA Induction ==
  ASSUME NEW N \in Nat, NEW S, 0 \in S, \A n \in 0..N : n \in S /\ n < N => n + 1 \in S
  PROVE  0..N \subseteq S
<1>1. SUFFICES ASSUME (0..N) \ S # {} PROVE FALSE
  OBVIOUS
<1>2. PICK n \in (0..N) \ S : \A m \in (0..N) \ S : n <= m
  <2>1. (0..N) \ S \in SUBSET Nat
    OBVIOUS
  <2> QED
    BY <1>1, <2>1, LeastElement
<1>3. n - 1 \in 0..N /\ n - 1 < N /\ (n - 1) + 1 = n /\ ~(n <= n - 1)
  BY <1>2
<1> QED
  BY <1>2, <1>3

\* The sequences of values b, F[1][b], F[2][F[1][b]], ... up to N steps.
Chains(X, N, b, F) == {g \in [0..N -> X] : g[0] = b /\ \A n \in 1..N : g[n] = F[n][g[n - 1]]}

LEMMA Recursion ==
  ASSUME NEW X, NEW N \in Nat, NEW b \in X, NEW F \in [1..N -> [X -> X]]
  PROVE  Chains(X, N, b, F) # {}
<1> DEFINE Upto(n, g) == g[0] = b /\ \A m \in 1..n : g[m] = F[m][g[m - 1]]
           S == {n \in 0..N : \E g \in [0..n -> X] : Upto(n, g)}
<1>1. 0 \in S
  <2> DEFINE z == [m \in 0..0 |-> b]
  <2>1. z \in [0..0 -> X] /\ Upto(0, z)
    OBVIOUS
  <2> HIDE DEF z, Upto
  <2> QED
    BY <2>1
<1>2. \A n \in 0..N : n \in S /\ n < N => n + 1 \in S
  <2> SUFFICES ASSUME NEW n \in 0..N, n \in S, n < N PROVE n + 1 \in S
    OBVIOUS
  <2>1. PICK g \in [0..n -> X] : Upto(n, g)
    OBVIOUS
  <2> DEFINE h == [m \in 0..(n + 1) |-> IF m = n + 1 THEN F[n + 1][g[n]] ELSE g[m]]
  <2>2. n \in 0..n /\ n + 1 \in 1..N /\ g[n] \in X
    OBVIOUS
  <2>3. h \in [0..(n + 1) -> X]
    <3>1. F[n + 1][g[n]] \in X
      BY <2>2
    <3> QED
      BY <3>1
  <2>4. Upto(n + 1, h)
    <3>1. h[0] = b
      BY <2>1
    <3>2. ASSUME NEW m \in 1..(n + 1) PROVE h[m] = F[m][h[m - 1]]
      <4>1. CASE m = n + 1
        <5>1. h[m] = F[n + 1][g[n]] /\ h[m - 1] = g[n]
          BY <4>1, <2>2
        <5> QED
          BY <4>1, <5>1
      <4>2. CASE m # n + 1
        <5>1. m \in 1..n /\ h[m] = g[m] /\ h[m - 1] = g[m - 1]
          BY <4>2
        <5> QED
          BY <2>1, <5>1
      <4> QED
        BY <4>1, <4>2
    <3> QED
      BY <3>1, <3>2
  <2> HIDE DEF h, Upto
  <2>5. n + 1 \in 0..N
    OBVIOUS
  <2> QED
    BY <2>3, <2>4, <2>5
<1>3. N \in S
  <2> HIDE DEF S
  <2>1. 0..N \subseteq S
    BY <1>1, <1>2, Induction
  <2> QED
    BY <2>1
<1> QED
  BY <1>3 DEF Chains

-----------------------------------------------------------------------------
(* Sequences put one after another.                                        *)

\* FlattenSeq has a chain of values: those of the beginnings of its argument.
LEMMA FlattenChain ==
  ASSUME NEW T, NEW s \in Seq(Seq(T))
  PROVE  \E g \in [0..Len(s) -> Seq(T)] :
            /\ g[0] = <<>>
            /\ \A n \in 1..Len(s) : g[n] = g[n - 1] \o s[n]
            /\ FlattenSeq(s) = g[Len(s)]
<1> DEFINE F == [n \in 1..Len(s) |-> [x \in Seq(T) |-> x \o s[n]]]
<1>0. Len(s) \in Nat /\ <<>> \in Seq(T) /\ \A n \in 1..Len(s) : s[n] \in Seq(T)
  BY ElementOfSeq
<1>1. F \in [1..Len(s) -> [Seq(T) -> Seq(T)]]
  BY <1>0
<1>2. PICK g : g \in Chains(Seq(T), Len(s), <<>>, F)
  <2> HIDE DEF F
  <2>1. Chains(Seq(T), Len(s), <<>>, F) # {}
    BY <1>0, <1>1, Recursion
  <2> QED
    BY <2>1
<1>3. /\ g \in [0..Len(s) -> Seq(T)]
      /\ g[0] = <<>>
      /\ \A n \in 1..Len(s) : g[n] = g[n - 1] \o s[n]
  <2>1. g \in [0..Len(s) -> Seq(T)] /\ g[0] = <<>> /\ \A n \in 1..Len(s) : g[n] = F[n][g[n - 1]]
    <3> HIDE DEF F
    <3> QED
      BY <1>2 DEF Chains
  <2>2. ASSUME NEW n \in 1..Len(s) PROVE g[n] = g[n - 1] \o s[n]
    <3>1. n - 1 \in 0..Len(s)
      BY <1>0
    <3>2. g[n - 1] \in Seq(T)
      BY <2>1, <3>1
    <3> QED
      BY <2>1, <3>2
  <2> QED
    BY <2>1, <2>2
<1> HIDE DEF F
<1>4. CASE Len(s) = 0
  <2>1. s = <<>>
    BY <1>4, EmptySeq
  <2>2. FlattenSeq(s) = <<>>
    BY <1>4, <2>1 DEF FlattenSeq
  <2> QED
    BY <1>3, <1>4, <2>2
<1>5. CASE Len(s) # 0
  <2> DEFINE f == [n \in 1..Len(s) |-> g[n]]
             p == CHOOSE p : p = [i \in 1..Len(s) |-> IF i = 1 THEN s[i] ELSE p[i - 1] \o s[i]]
  <2>1. f = [i \in 1..Len(s) |-> IF i = 1 THEN s[i] ELSE f[i - 1] \o s[i]]
    <3>1. ASSUME NEW i \in 1..Len(s) PROVE f[i] = IF i = 1 THEN s[i] ELSE f[i - 1] \o s[i]
      <4>1. CASE i = 1
        <5>1. g[1] = <<>> \o s[1] /\ s[1] \in Seq(T)
          <6>1. 1 \in 1..Len(s) /\ 1 - 1 = 0
            BY <1>0, <4>1
          <6>2. g[1] = g[0] \o s[1]
            BY <1>3, <6>1
          <6> QED
            BY <1>0, <1>3, <6>1, <6>2
        <5> QED
          BY <4>1, <5>1
      <4>2. CASE i # 1
        <5>1. i - 1 \in 1..Len(s)
          BY <4>2
        <5> QED
          BY <4>2, <5>1, <1>3
      <4> QED
        BY <4>1, <4>2
    <3> QED
      BY <3>1
  <2>2. p = [i \in 1..Len(s) |-> IF i = 1 THEN s[i] ELSE p[i - 1] \o s[i]]
    BY <2>1
  <2>3. FlattenSeq(s) = p[Len(s)]
    BY <1>5 DEF FlattenSeq
  <2> HIDE DEF p
  <2>4. \A n \in 0..Len(s) : n \in {m \in 0..Len(s) : m = 0 \/ p[m] = g[m]}
    <3> DEFINE S == {m \in 0..Len(s) : m = 0 \/ p[m] = g[m]}
    <3>1. 0 \in S
      OBVIOUS
    <3>2. \A n \in 0..Len(s) : n \in S /\ n < Len(s) => n + 1 \in S
      <4> SUFFICES ASSUME NEW n \in 0..Len(s), n \in S, n < Len(s) PROVE n + 1 \in S
        OBVIOUS
      <4>1. n + 1 \in 1..Len(s) /\ n + 1 \in 0..Len(s) /\ (n + 1) - 1 = n
        BY <1>0
      <4>2. g[n + 1] = g[n] \o s[n + 1]
        BY <4>1, <1>3
      <4>3. CASE n = 0
        <5>1. p[1] = s[1] /\ s[1] \in Seq(T)
          BY <1>0, <4>1, <4>3, <2>2
        <5>2. g[1] = <<>> \o s[1]
          <6>1. n + 1 = 1 /\ g[n] = <<>>
            BY <1>3, <4>3
          <6> QED
            BY <4>2, <6>1
        <5> QED
          BY <4>1, <4>3, <5>1, <5>2
      <4>4. CASE n # 0
        <5>0. n + 1 # 1
          BY <4>4
        <5>1. p[n + 1] = p[(n + 1) - 1] \o s[n + 1]
          BY <4>1, <5>0, <2>2
        <5>2. p[n] = g[n]
          BY <4>4
        <5> QED
          BY <4>1, <4>2, <5>1, <5>2
      <4> QED
        BY <4>3, <4>4
    <3> HIDE DEF S
    <3>3. 0..Len(s) \subseteq S
      BY <1>0, <3>1, <3>2, Induction
    <3> QED
      BY <3>3 DEF S
  <2>5. p[Len(s)] = g[Len(s)]
    BY <2>4, <1>5
  <2> QED
    BY <1>3, <2>3, <2>5
<1> QED
  BY <1>4, <1>5

LEMMA FlattenType ==
  ASSUME NEW T, NEW s \in Seq(Seq(T))
  PROVE  FlattenSeq(s) \in Seq(T)
<1>1. PICK g \in [0..Len(s) -> Seq(T)] : FlattenSeq(s) = g[Len(s)]
  BY FlattenChain
<1> QED
  BY <1>1

LEMMA FlattenEmpty == FlattenSeq(<<>>) = <<>>
BY DEF FlattenSeq

\* The last sequence comes last.
LEMMA FlattenAppend ==
  ASSUME NEW T, NEW s \in Seq(Seq(T)), NEW x \in Seq(T)
  PROVE  FlattenSeq(Append(s, x)) = FlattenSeq(s) \o x
<1> DEFINE t == Append(s, x)
<1>0. Len(s) \in Nat
  OBVIOUS
<1>1. t \in Seq(Seq(T)) /\ Len(t) = Len(s) + 1 /\ t[Len(s) + 1] = x /\ \A n \in 1..Len(s) : t[n] = s[n]
  BY AppendProperties
<1> HIDE DEF t
<1>2. PICK g \in [0..Len(s) -> Seq(T)] : /\ g[0] = <<>>
                                         /\ \A n \in 1..Len(s) : g[n] = g[n - 1] \o s[n]
                                         /\ FlattenSeq(s) = g[Len(s)]
  BY FlattenChain
<1>3. PICK h \in [0..Len(t) -> Seq(T)] : /\ h[0] = <<>>
                                         /\ \A n \in 1..Len(t) : h[n] = h[n - 1] \o t[n]
                                         /\ FlattenSeq(t) = h[Len(t)]
  BY <1>1, FlattenChain
<1> DEFINE S == {n \in 0..Len(s) : g[n] = h[n]}
<1>4. 0 \in S
  BY <1>2, <1>3
<1>5. \A n \in 0..Len(s) : n \in S /\ n < Len(s) => n + 1 \in S
  <2> SUFFICES ASSUME NEW n \in 0..Len(s), n \in S, n < Len(s) PROVE n + 1 \in S
    OBVIOUS
  <2>1. n + 1 \in 1..Len(s) /\ n + 1 \in 1..Len(t) /\ (n + 1) - 1 = n /\ n + 1 \in 0..Len(s)
    BY <1>0, <1>1
  <2>2. g[n + 1] = g[n] \o s[n + 1] /\ h[n + 1] = h[n] \o t[n + 1] /\ t[n + 1] = s[n + 1]
    BY <2>1, <1>1, <1>2, <1>3
  <2> QED
    BY <2>1, <2>2
<1>6. g[Len(s)] = h[Len(s)]
  <2> HIDE DEF S
  <2>1. 0..Len(s) \subseteq S
    BY <1>0, <1>4, <1>5, Induction
  <2>2. Len(s) \in 0..Len(s)
    BY <1>0
  <2> QED
    BY <2>1, <2>2 DEF S
<1>7. h[Len(t)] = h[Len(s)] \o x
  <2>1. Len(t) \in 1..Len(t) /\ Len(t) - 1 = Len(s)
    BY <1>0, <1>1
  <2> QED
    BY <1>1, <1>3, <2>1
<1> QED
  BY <1>2, <1>3, <1>6, <1>7 DEF t

LEMMA FlattenOne ==
  ASSUME NEW T, NEW x \in Seq(T)
  PROVE  FlattenSeq(<<x>>) = x
<1>1. <<x>> = Append(<<>>, x) /\ <<>> \in Seq(Seq(T))
  OBVIOUS
<1>2. FlattenSeq(Append(<<>>, x)) = <<>> \o x
  BY <1>1, FlattenAppend, FlattenEmpty
<1> QED
  BY <1>1, <1>2

LEMMA ConcatThenAppend ==
  ASSUME NEW T, NEW s \in Seq(T), NEW t \in Seq(T), NEW x \in T
  PROVE  s \o Append(t, x) = Append(s \o t, x) /\ s \o t \in Seq(T)
OBVIOUS

LEMMA ConcatAssociates ==
  ASSUME NEW T, NEW s \in Seq(T), NEW t \in Seq(T), NEW u \in Seq(T)
  PROVE  (s \o t) \o u = s \o (t \o u)
BY SMTT(60)

LEMMA FlattenConcat ==
  ASSUME NEW T, NEW s \in Seq(Seq(T)), NEW t \in Seq(Seq(T))
  PROVE  FlattenSeq(s \o t) = FlattenSeq(s) \o FlattenSeq(t)
<1> DEFINE Upto(n) == SubSeq(t, 1, n)
           S == {n \in 0..Len(t) : FlattenSeq(s \o Upto(n)) = FlattenSeq(s) \o FlattenSeq(Upto(n))}
<1>0. Len(t) \in Nat /\ \A n \in 1..Len(t) : t[n] \in Seq(T)
  BY ElementOfSeq
<1>1. 0 \in S
  <2>1. Upto(0) = <<>> /\ s \o <<>> = s
    OBVIOUS
  <2>2. FlattenSeq(s) \o <<>> = FlattenSeq(s)
    BY FlattenType, ConcatEmptySeq
  <2>3. FlattenSeq(s \o Upto(0)) = FlattenSeq(s) \o FlattenSeq(Upto(0))
    BY <2>1, <2>2, FlattenEmpty
  <2>4. 0 \in 0..Len(t)
    BY <1>0
  <2> QED
    BY <2>3, <2>4
<1>2. \A n \in 0..Len(t) : n \in S /\ n < Len(t) => n + 1 \in S
  <2> SUFFICES ASSUME NEW n \in 0..Len(t), n \in S, n < Len(t) PROVE n + 1 \in S
    OBVIOUS
  <2>1. t[n + 1] \in Seq(T) /\ n + 1 \in 0..Len(t)
    BY <1>0
  <2>2. Upto(n + 1) = Append(Upto(n), t[n + 1]) /\ Upto(n) \in Seq(Seq(T))
    BY <1>0
  <2>3. s \o Append(Upto(n), t[n + 1]) = Append(s \o Upto(n), t[n + 1]) /\ s \o Upto(n) \in Seq(Seq(T))
    BY <2>1, <2>2, ConcatThenAppend
  <2> DEFINE u == Upto(n)
  <2>6. FlattenSeq(s \o u) = FlattenSeq(s) \o FlattenSeq(u)
    OBVIOUS
  <2> HIDE DEF u
  <2>4. FlattenSeq(Append(u, t[n + 1])) = FlattenSeq(u) \o t[n + 1]
    BY <2>1, <2>2, FlattenAppend DEF u
  <2>5. FlattenSeq(Append(s \o u, t[n + 1])) = FlattenSeq(s \o u) \o t[n + 1]
    BY <2>1, <2>3, FlattenAppend DEF u
  <2>7. FlattenSeq(s) \in Seq(T) /\ FlattenSeq(u) \in Seq(T)
    BY <2>2, FlattenType DEF u
  <2>8. (FlattenSeq(s) \o FlattenSeq(u)) \o t[n + 1] = FlattenSeq(s) \o (FlattenSeq(u) \o t[n + 1])
    <3> DEFINE a == FlattenSeq(s)
               b == FlattenSeq(u)
               c == t[n + 1]
    <3>1. a \in Seq(T) /\ b \in Seq(T) /\ c \in Seq(T)
      BY <2>1, <2>7
    <3> HIDE DEF a, b, c
    <3>2. (a \o b) \o c = a \o (b \o c)
      BY ONLY <3>1, ConcatAssociates, SMTT(30)
    <3> QED
      BY <3>2 DEF a, b, c
  <2>9. FlattenSeq(s \o Upto(n + 1)) = FlattenSeq(s) \o FlattenSeq(Upto(n + 1))
    BY <2>2, <2>3, <2>4, <2>5, <2>6, <2>8 DEF u
  <2> QED
    BY <2>1, <2>9
<1>3. 0..Len(t) \subseteq S
  <2> HIDE DEF S
  <2> QED
    BY <1>0, <1>1, <1>2, Induction
<1>4. Upto(Len(t)) = t /\ Len(t) \in 0..Len(t)
  BY <1>0
<1> QED
  BY <1>3, <1>4

-----------------------------------------------------------------------------
(* Sums and prices.                                                        *)

LEMMA TotalType ==
  ASSUME NEW N \in Nat, NEW f \in [1..N -> Nat]
  PROVE  Total(f, N) \in Nat
<1> DEFINE F == [n \in 1..N |-> [x \in Nat |-> x + f[n]]]
           p == CHOOSE p : p = [n \in 0..N |-> IF n = 0 THEN 0 ELSE p[n - 1] + f[n]]
<1>1. F \in [1..N -> [Nat -> Nat]]
  OBVIOUS
<1>2. PICK g : g \in Chains(Nat, N, 0, F)
  <2> HIDE DEF F
  <2>1. Chains(Nat, N, 0, F) # {}
    BY <1>1, Recursion
  <2> QED
    BY <2>1
<1>3. g \in [0..N -> Nat] /\ g[0] = 0 /\ \A n \in 1..N : g[n] = F[n][g[n - 1]]
  <2> HIDE DEF F
  <2> QED
    BY <1>2 DEF Chains
<1>4. g = [n \in 0..N |-> IF n = 0 THEN 0 ELSE g[n - 1] + f[n]]
  <2>1. ASSUME NEW n \in 0..N, n # 0 PROVE g[n] = g[n - 1] + f[n]
    <3>1. n \in 1..N /\ n - 1 \in 0..N
      BY <2>1
    <3> QED
      BY <1>3, <3>1
  <2> QED
    BY <1>3, <2>1
<1>5. p = [n \in 0..N |-> IF n = 0 THEN 0 ELSE p[n - 1] + f[n]]
  BY <1>4
<1> HIDE DEF p
<1> DEFINE S == {n \in 0..N : p[n] \in Nat}
<1>6. 0 \in S
  BY <1>5
<1>7. \A n \in 0..N : n \in S /\ n < N => n + 1 \in S
  <2> SUFFICES ASSUME NEW n \in 0..N, n \in S, n < N PROVE n + 1 \in S
    OBVIOUS
  <2>1. n + 1 \in 1..N /\ n + 1 \in 0..N /\ n + 1 # 0 /\ (n + 1) - 1 = n
    OBVIOUS
  <2>2. p[n + 1] = p[n] + f[n + 1]
    BY <1>5, <2>1
  <2> QED
    BY <2>1, <2>2
<1>8. N \in S
  <2> HIDE DEF S
  <2>1. 0..N \subseteq S
    BY <1>6, <1>7, Induction
  <2> QED
    BY <2>1
<1> QED
  BY <1>8 DEF Total, PartialSums, p

\* More tokens of either kind never cost less.
LEMMA CostMonotone ==
  ASSUME NEW model, model.billing \in [input : Nat, output : Nat, minimum : Nat],
         NEW a \in Nat, NEW b \in Nat, NEW c \in Nat, NEW d \in Nat, a <= c, b <= d
  PROVE  Cost(model, a, b) <= Cost(model, c, d)
<1> DEFINE x == model.billing.input
           y == model.billing.output
           m == model.billing.minimum
<1>1. x \in Nat /\ y \in Nat /\ m \in Nat /\ TokenScale \in Nat \ {0}
  BY CatalogAssumption
<1> HIDE DEF x, y, m
<1>2. a * x <= c * x /\ b * y <= d * y /\ {a * x, c * x, b * y, d * y} \subseteq Nat
  BY <1>1
<1>3. a * x + b * y <= c * x + d * y /\ a * x + b * y \in Nat /\ c * x + d * y \in Nat
  BY <1>2
<1>4. CeilDivide(a * x + b * y, TokenScale) <= CeilDivide(c * x + d * y, TokenScale)
  <2> DEFINE u == a * x + b * y
             v == c * x + d * y
  <2> HIDE DEF u, v
  <2>1. u \in Nat /\ v \in Nat /\ u <= v
    BY <1>3 DEF u, v
  <2>2. CeilDivide(u, TokenScale) <= CeilDivide(v, TokenScale)
    BY <1>1, <2>1 DEF CeilDivide
  <2> QED
    BY <2>2 DEF u, v
<1>5. CeilDivide(a * x + b * y, TokenScale) \in Nat /\ CeilDivide(c * x + d * y, TokenScale) \in Nat
  <2>1. ASSUME NEW u \in Nat PROVE CeilDivide(u, TokenScale) \in Nat
    BY <1>1 DEF CeilDivide
  <2> QED
    BY <1>3, <2>1
<1> DEFINE u == CeilDivide(a * x + b * y, TokenScale)
           v == CeilDivide(c * x + d * y, TokenScale)
<1>6. Cost(model, a, b) = Larger(u, m) /\ Cost(model, c, d) = Larger(v, m)
  BY DEF Cost, x, y, m
<1> HIDE DEF u, v
<1>7. u \in Nat /\ v \in Nat /\ u <= v
  BY <1>4, <1>5 DEF u, v
<1>8. Larger(u, m) <= Larger(v, m)
  BY <1>1, <1>7 DEF Larger
<1> QED
  BY <1>6, <1>8

-----------------------------------------------------------------------------
(* Requests: what a call is that was accepted.                             *)

\* Checks in which there is no error all hold.
LEMMA NoErrorAllHold ==
  ASSUME NEW checks, DOMAIN checks \subseteq Nat,
         \A i \in DOMAIN checks : checks[i][2] # "none",
         FirstError(checks) = "none"
  PROVE  \A i \in DOMAIN checks : checks[i][1]
<1> DEFINE failed == {i \in DOMAIN checks : ~checks[i][1]}
<1>1. failed \in SUBSET Nat /\ failed \subseteq DOMAIN checks
  OBVIOUS
<1>2. ASSUME failed # {} PROVE FALSE
  <2> HIDE DEF failed
  <2>1. \E x \in failed : \A y \in failed : x <= y
    BY <1>1, <1>2, LeastElement
  <2>2. Min(failed) \in failed
    BY <2>1 DEF Min
  <2>3. FirstError(checks) = checks[Min(failed)][2]
    BY <1>2 DEF FirstError, failed
  <2> QED
    BY <1>1, <2>2, <2>3
<1> QED
  BY <1>2

\* The checks before those of an endpoint: the model is one in use.
LEMMA EntryHolds ==
  ASSUME NEW bundle, NEW key, NEW body, NEW capability,
         FirstError(Entry(bundle, key, body, capability)) = "none"
  PROVE  body.model \in EnabledModels(bundle)
<1> DEFINE checks == Entry(bundle, key, body, capability)
<1>1. DOMAIN checks = 1..6
  BY DEF Entry
<1>2. ASSUME NEW i \in 1..6 PROVE checks[i][2] # "none"
  <2>1. i = 1 \/ i = 2 \/ i = 3 \/ i = 4 \/ i = 5 \/ i = 6
    OBVIOUS
  <2> QED
    BY <2>1 DEF Entry
<1>3. checks[4][1] = Known(bundle, body)
  BY DEF Entry
<1> HIDE DEF checks
<1>4. FirstError(checks) = "none"
  BY DEF checks
<1>5. checks[4][1]
  <2>1. DOMAIN checks \subseteq Nat /\ \A i \in DOMAIN checks : checks[i][2] # "none"
    BY <1>1, <1>2
  <2>2. \A i \in DOMAIN checks : checks[i][1]
    BY <1>4, <2>1, NoErrorAllHold
  <2> QED
    BY <1>1, <2>2
<1> QED
  BY <1>3, <1>5 DEF Known

\* The checks of a chat: its messages make sense and its limit is one of the model.
LEMMA ChatChecksHold ==
  ASSUME NEW model, NEW body, FirstError(ChatChecks(model, body)) = "none"
  PROVE  /\ MessagesValid(body.messages, "vision" \in model.capabilities)
         /\ body.choice # <<"absent">> => body.tools # <<>>
         /\ OutputLimit(model, body) \in 1..model.limits.output
<1> DEFINE checks == ChatChecks(model, body)
<1>1. DOMAIN checks = 1..12
  BY DEF ChatChecks
<1>2. ASSUME NEW i \in 1..12 PROVE checks[i][2] # "none"
  <2>1. \/ i = 1 \/ i = 2 \/ i = 3 \/ i = 4 \/ i = 5 \/ i = 6
        \/ i = 7 \/ i = 8 \/ i = 9 \/ i = 10 \/ i = 11 \/ i = 12
    OBVIOUS
  <2> QED
    BY <2>1 DEF ChatChecks
<1>3. /\ checks[3][1] = MessagesValid(body.messages, "vision" \in model.capabilities)
      /\ checks[6][1] = (body.choice # <<"absent">> => body.tools # <<>>)
      /\ checks[10][1] = (OutputLimit(model, body) \in 1..model.limits.output)
  BY DEF ChatChecks
<1> HIDE DEF checks
<1>4. FirstError(checks) = "none"
  BY DEF checks
<1>5. checks[3][1] /\ checks[6][1] /\ checks[10][1]
  <2>1. DOMAIN checks \subseteq Nat /\ \A i \in DOMAIN checks : checks[i][2] # "none"
    BY <1>1, <1>2
  <2>2. \A i \in DOMAIN checks : checks[i][1]
    BY <1>4, <2>1, NoErrorAllHold
  <2> QED
    BY <1>1, <2>2
<1> QED
  BY <1>3, <1>5

\* What a chat call is: a function of its bundle and its body.
ChatCall(bundle, body, c) ==
  LET model == bundle.models[body.model]
  IN  /\ c.ok
      /\ c.model = body.model
      /\ body.model \in EnabledModels(bundle)
      /\ c.stream = body.stream
      /\ c.estimate = EstimateInput(body)
      /\ c.limit \in 1..model.limits.output
      /\ c.reserved = Cost(model, c.estimate, c.limit)
      /\ c.body.limit = c.limit
      /\ c.body.messages = body.messages
      /\ c.body.tools = body.tools
      /\ c.body.choice = body.choice
      /\ body.choice # <<"absent">> => body.tools # <<>>
      /\ MessagesValid(body.messages, "vision" \in model.capabilities)

LEMMA PrepareChatCall ==
  ASSUME NEW bundle, NEW key, NEW body, NEW endpoint, PrepareChat(bundle, key, body, endpoint).ok
  PROVE  /\ ChatCall(bundle, body, PrepareChat(bundle, key, body, endpoint))
         /\ PrepareChat(bundle, key, body, endpoint).endpoint = endpoint
<1> DEFINE c == PrepareChat(bundle, key, body, endpoint)
           model == Model(bundle, body)
           entry == FirstError(Entry(bundle, key, body, "chat_completions"))
           error == IF entry # "none" THEN entry ELSE FirstError(ChatChecks(model, body))
           estimate == EstimateInput(body)
           reserved == Cost(model, estimate, ReservedOutput(model, body))
           good == [ok |-> TRUE, endpoint |-> endpoint, model |-> body.model, stream |-> body.stream,
                    estimate |-> estimate, limit |-> OutputLimit(model, body), reserved |-> reserved,
                    body |-> [messages |-> body.messages, stream |-> body.stream,
                              limit |-> OutputLimit(model, body), tools |-> body.tools, choice |-> body.choice,
                              sampling |-> body.sampling]]
<1>1. c = IF error # "none" THEN Rejected(error)
          ELSE IF key.spendLimit # NotGiven /\ reserved > key.spendLimit
          THEN Rejected("spend_limit_exceeded") ELSE good
  BY DEF PrepareChat
<1> HIDE DEF c, entry, error
<1>2. ~Rejected(error).ok /\ ~Rejected("spend_limit_exceeded").ok
  BY DEF Rejected
<1>3. error = "none" /\ c = good
  BY <1>1, <1>2 DEF c
<1>4. entry = "none" /\ FirstError(ChatChecks(model, body)) = "none"
  BY <1>3 DEF error
<1>5. body.model \in EnabledModels(bundle)
  BY <1>4, EntryHolds DEF entry
<1>6. /\ MessagesValid(body.messages, "vision" \in model.capabilities)
      /\ body.choice # <<"absent">> => body.tools # <<>>
      /\ OutputLimit(model, body) \in 1..model.limits.output
  BY <1>4, ChatChecksHold
<1>7. model = bundle.models[body.model]
  BY DEF Model
<1> HIDE DEF model
<1> QED
  BY <1>3, <1>5, <1>6, <1>7 DEF ChatCall, ReservedOutput, c

(***************************************************************************)
(* The words of requests and streams: all strings, and those among them    *)
(* that the model names, which no prover knows to be strings.              *)
(***************************************************************************)
Words ==
  STRING \cup
    {"text", "system", "string", "\r", "\n", "BOM", ":", "data:", "event:", "message", "error", "[DONE]", "garbled",
     "message_start", "text_start", "tool_start", "args", "message_delta", "message_stop"}
Parts == Words \X Nat
Turns == [role : Words, form : Words, content : Seq(Parts), calls : Seq(Nat), answers : Int]

LEMMA MessageIsTurn ==
  ASSUME NEW message \in Messages
  PROVE  message \in Turns
<1>1. /\ message.role \in Words /\ message.form \in Words
      /\ message.calls \in Seq(Nat) /\ message.answers \in Int
      /\ message = [role |-> message.role, form |-> message.form, content |-> message.content,
                    calls |-> message.calls, answers |-> message.answers]
  BY DEF Messages, Words
<1>2. message.content \in Seq(Parts)
  <2> DEFINE X == STRING \X Nat
  <2>1. message.content \in Seq(X)
    BY DEF Messages, Texts
  <2>2. X \subseteq Parts
    BY DEF Words, Parts
  <2> HIDE DEF X
  <2> QED
    BY <2>1, <2>2, SeqMonotonic
<1> QED
  BY <1>1, <1>2 DEF Turns

\* The size of an input is a whole number.
LEMMA PartsType ==
  ASSUME NEW messages \in Seq(Turns)
  PROVE  PartsOf(messages) \in Nat /\ ImagesOf(messages) \in Nat
<1> DEFINE parts == [i \in DOMAIN messages |-> Len(messages[i].content) + Len(messages[i].calls)]
           images == [i \in DOMAIN messages |-> ImagesIn(messages[i].content)]
<1>1. Len(messages) \in Nat /\ DOMAIN messages = 1..Len(messages)
  OBVIOUS
<1>2. ASSUME NEW i \in 1..Len(messages)
      PROVE  messages[i].content \in Seq(Parts) /\ messages[i].calls \in Seq(Nat)
  <2>1. messages[i] \in Turns
    BY <1>1
  <2> QED
    BY <2>1 DEF Turns
<1>3. parts \in [1..Len(messages) -> Nat]
  <2>1. ASSUME NEW i \in 1..Len(messages)
        PROVE  Len(messages[i].content) + Len(messages[i].calls) \in Nat
    <3> DEFINE a == Len(messages[i].content)
               b == Len(messages[i].calls)
    <3>1. a \in Nat
      BY <1>2
    <3>2. b \in Nat
      BY <1>2
    <3> HIDE DEF a, b
    <3>3. a + b \in Nat
      BY <3>1, <3>2
    <3> QED
      BY <3>3 DEF a, b
  <2> QED
    BY <1>1, <2>1
<1>4. images \in [1..Len(messages) -> Nat]
  <2>1. ASSUME NEW i \in 1..Len(messages) PROVE ImagesIn(messages[i].content) \in Nat
    <3> DEFINE content == messages[i].content
    <3>1. Len(content) \in Nat /\ DOMAIN content = 1..Len(content)
      BY <1>2
    <3>2. IsFiniteSet(DOMAIN content)
      <4> HIDE DEF content
      <4>1. 0 \in Int /\ 1 \in Int /\ Len(content) \in Int
        BY <3>1
      <4> QED
        BY <3>1, <4>1, FS_Interval
    <3>3. IsFiniteSet({j \in DOMAIN content : content[j][1] \in Images})
      <4> HIDE DEF content
      <4> QED
        BY <3>2, FS_Subset
    <3> QED
      BY <3>3, FS_CardinalityType DEF ImagesIn
  <2> QED
    BY <1>1, <2>1
<1> HIDE DEF parts, images
<1>5. Total(parts, Len(messages)) \in Nat /\ Total(images, Len(messages)) \in Nat
  BY <1>1, <1>3, <1>4, TotalType
<1> QED
  BY <1>5 DEF PartsOf, ImagesOf, parts, images

LEMMA EstimateType ==
  ASSUME NEW body, body.messages \in Seq(Turns), body.tools \in Seq(Nat)
  PROVE  EstimateInput(body) \in Nat /\ RequestTokens + PartTokens * PartsOf(body.messages) \in Nat
<1>1. {RequestTokens, MessageTokens, PartTokens, ImageTokens} \subseteq Nat
  BY RequestsAssumption
<1>2. PartsOf(body.messages) \in Nat /\ ImagesOf(body.messages) \in Nat
  BY PartsType
<1>3. Len(body.messages) \in Nat /\ Len(body.tools) \in Nat
  OBVIOUS
<1>4. ASSUME NEW a \in Nat, NEW b \in Nat PROVE a * b \in Nat /\ a + b \in Nat
  OBVIOUS
<1>5. PartsOf(body.messages) + Len(body.tools) \in Nat
  BY <1>2, <1>3
<1> DEFINE p == PartTokens * (PartsOf(body.messages) + Len(body.tools))
           m == MessageTokens * Len(body.messages)
           i == ImageTokens * ImagesOf(body.messages)
           q == PartTokens * PartsOf(body.messages)
<1>6. p \in Nat /\ m \in Nat /\ i \in Nat /\ q \in Nat
  BY <1>1, <1>2, <1>3, <1>4, <1>5
<1>7. EstimateInput(body) = RequestTokens + m + p + i
  BY DEF EstimateInput
<1> HIDE DEF p, m, i, q
<1>8. RequestTokens + m + p + i \in Nat /\ RequestTokens + q \in Nat
  BY <1>1, <1>6, SMTT(30)
<1> QED
  BY <1>7, <1>8 DEF q

\* The content of a message that is not in parts is text.
Plainly(messages) ==
  /\ messages \in Seq(Turns)
  /\ \A i \in 1..Len(messages) : messages[i].form # "parts" =>
       \A j \in 1..Len(messages[i].content) : messages[i].content[j][1] = "text"

(***************************************************************************)
(* What a call is that was prepared: it is within the limits of a model in *)
(* use, and what is reserved for it is the price of its limit.             *)
(***************************************************************************)
GoodCall(bundle, c) ==
  LET model == bundle.models[c.model]
  IN  /\ c.model \in EnabledModels(bundle)
      /\ c.endpoint \in {"chat.completions", "responses", "embeddings"}
      /\ c.stream \in BOOLEAN
      /\ c.estimate \in Nat
      /\ c.limit \in Nat
      /\ c.reserved = Cost(model, c.estimate, c.limit)
      /\ c.endpoint = "embeddings" => ~c.stream /\ c.limit = 0
      /\ c.endpoint # "embeddings" =>
           /\ c.limit \in 1..model.limits.output
           /\ c.body.limit = c.limit
           /\ c.body.tools \in Seq(Nat)
           /\ c.body.choice \in ToolChoices
           /\ c.body.choice # <<"absent">> => c.body.tools # <<>>
           /\ Plainly(c.body.messages)
           /\ MessagesValid(c.body.messages, "vision" \in model.capabilities)

LEMMA ChatCallIsGood ==
  ASSUME NEW bundle \in Bundles, NEW body, NEW c, ChatCall(bundle, body, c),
         c.endpoint \in {"chat.completions", "responses"},
         body.stream \in BOOLEAN, body.tools \in Seq(Nat), body.choice \in ToolChoices, Plainly(body.messages)
  PROVE  GoodCall(bundle, c)
<1>1. EstimateInput(body) \in Nat
  BY EstimateType DEF Plainly
<1>2. bundle.models[body.model].limits.output \in Nat
  <2>1. body.model \in DOMAIN bundle.models
    BY DEF ChatCall, EnabledModels
  <2> QED
    BY <2>1, BundlesAssumption
<1> QED
  BY <1>1, <1>2 DEF ChatCall, GoodCall

LEMMA BodyFields ==
  ASSUME NEW body \in Bodies
  PROVE  /\ body.endpoint \in {"chat.completions", "responses", "embeddings"}
         /\ body.stream \in BOOLEAN
         /\ body.tools \in Seq(Nat)
         /\ body.choice \in ToolChoices
         /\ body.instructions \in Seq({"text"} \X Nat)
         /\ Plainly(body.messages)
<1>1. body \in [endpoint : {"chat.completions", "responses", "embeddings"}, fields : STRING, model : STRING,
                options : STRING, messages : Seq(Messages), instructions : Seq({"text"} \X Nat),
                format : STRING, tools : Seq(Nat), choice : ToolChoices, stream : BOOLEAN,
                maxCompletion : Int, maxTokens : Int, sampling : SUBSET STRING]
  BY BodiesAssumption
<1>2. /\ body.endpoint \in {"chat.completions", "responses", "embeddings"}
      /\ body.stream \in BOOLEAN
      /\ body.tools \in Seq(Nat)
      /\ body.choice \in ToolChoices
      /\ body.instructions \in Seq({"text"} \X Nat)
      /\ body.messages \in Seq(Messages)
  BY <1>1
<1>3. ASSUME NEW i \in 1..Len(body.messages), body.messages[i].form # "parts",
             NEW j \in 1..Len(body.messages[i].content)
      PROVE  body.messages[i].content[j][1] = "text"
  <2> DEFINE message == body.messages[i]
  <2>1. message \in Range(body.messages)
    BY <1>2 DEF Range
  <2>2. message \in Messages
    BY <1>2
  <2>3. message.content[j] \in Range(message.content)
    <3> HIDE DEF message
    <3>1. message.content \in Seq(STRING \X Nat)
      BY <2>2 DEF Messages, Texts
    <3>2. j \in 1..Len(message.content)
      BY DEF message
    <3> QED
      BY <3>1, <3>2 DEF Range
  <2>4. \A part \in Range(message.content) : part[1] = "text"
    BY <2>1, <1>3, BodiesAssumption
  <2> QED
    BY <2>3, <2>4
<1>4. body.messages \in Seq(Turns)
  BY <1>2, MessageIsTurn, SeqMonotonic
<1> QED
  BY <1>2, <1>3, <1>4 DEF Plainly

\* A sequence of texts is a sequence of parts.
LEMMA TextsType ==
  ASSUME NEW s \in Seq({"text"} \X Nat)
  PROVE  s \in Seq(Parts) /\ \A j \in 1..Len(s) : s[j][1] = "text"
<1>1. \A j \in 1..Len(s) : s[j] \in Parts /\ s[j][1] = "text"
  <2> SUFFICES ASSUME NEW j \in 1..Len(s) PROVE s[j] \in Parts /\ s[j][1] = "text"
    OBVIOUS
  <2>1. s[j] \in {"text"} \X Nat
    OBVIOUS
  <2>2. s[j] = <<s[j][1], s[j][2]>> /\ s[j][1] = "text" /\ s[j][2] \in Nat
    BY <2>1
  <2>3. s[j][1] \in Words
    BY <2>2 DEF Words
  <2> QED
    BY <2>2, <2>3 DEF Parts
<1>2. Len(s) \in Nat /\ s = [j \in 1..Len(s) |-> s[j]]
  OBVIOUS
<1>3. s \in [1..Len(s) -> Parts]
  BY <1>1, <1>2
<1>4. s \in Seq(Parts)
  BY <1>2, <1>3
<1> QED
  BY <1>1, <1>4

LEMMA PlainMessage ==
  ASSUME NEW role \in Words, NEW form \in Words, NEW content \in Seq(Parts)
  PROVE  /\ Plain(role, form, content) \in Turns
         /\ Plain(role, form, content).form = form
         /\ Plain(role, form, content).content = content
<1>1. NotGiven \in Int /\ <<>> \in Seq(Nat)
  BY DEF NotGiven
<1> QED
  BY <1>1 DEF Plain, Turns

LEMMA ConcatPlainly ==
  ASSUME NEW s, NEW t, Plainly(s), Plainly(t)
  PROVE  Plainly(s \o t)
<1>1. s \in Seq(Turns) /\ t \in Seq(Turns) /\ s \o t \in Seq(Turns)
  BY DEF Plainly
<1>2. ASSUME NEW i \in 1..Len(s \o t)
      PROVE  \/ i \in 1..Len(s) /\ (s \o t)[i] = s[i]
             \/ i - Len(s) \in 1..Len(t) /\ (s \o t)[i] = t[i - Len(s)]
  BY <1>1
<1> QED
  BY <1>1, <1>2 DEF Plainly

\* What the responses endpoint makes of its items is plain as well.
LEMMA InputMessagesType ==
  ASSUME NEW body, Plainly(body.messages), body.instructions \in Seq({"text"} \X Nat)
  PROVE  Plainly(InputMessages(body))
<1> DEFINE told == IF body.instructions = <<>> THEN <<>> ELSE <<Plain("system", "string", body.instructions)>>
           Item(message) == Plain(message.role, message.form, message.content)
           items == [i \in DOMAIN body.messages |-> Item(body.messages[i])]
<1>1. Plainly(items)
  <2> DEFINE messages == body.messages
  <2> HIDE DEF messages
  <2>1. messages \in Seq(Turns) /\ Len(messages) \in Nat /\ DOMAIN messages = 1..Len(messages)
    BY DEF Plainly, messages
  <2>2. ASSUME NEW i \in 1..Len(messages)
        PROVE  /\ Item(messages[i]) \in Turns
               /\ Item(messages[i]).form = messages[i].form
               /\ Item(messages[i]).content = messages[i].content
    <3>1. messages[i] \in Turns
      BY <2>1
    <3>2. messages[i].role \in Words /\ messages[i].form \in Words /\ messages[i].content \in Seq(Parts)
      BY <3>1 DEF Turns
    <3> QED
      BY <3>2, PlainMessage
  <2>3. items = [i \in 1..Len(messages) |-> Item(messages[i])]
    BY <2>1 DEF messages
  <2> HIDE DEF Item
  <2>4. [i \in 1..Len(messages) |-> Item(messages[i])] \in [1..Len(messages) -> Turns]
    BY <2>2
  <2> HIDE DEF items
  <2>5. items \in Seq(Turns) /\ Len(items) = Len(messages)
    BY <2>1, <2>3, <2>4
  <2>6. \A i \in 1..Len(messages) : items[i] = Item(messages[i])
    BY <2>3
  <2> QED
    BY <2>2, <2>5, <2>6, SMTT(60) DEF Plainly, messages
<1>2. Plainly(told)
  <2>1. CASE body.instructions = <<>>
    BY <2>1 DEF Plainly
  <2>2. CASE body.instructions # <<>>
    <3> DEFINE first == Plain("system", "string", body.instructions)
    <3>1. body.instructions \in Seq(Parts) /\ \A j \in 1..Len(body.instructions) : body.instructions[j][1] = "text"
      BY TextsType
    <3>2. first \in Turns /\ first.content = body.instructions
      <4> DEFINE role == "system"
                 form == "string"
      <4>1. role \in Words /\ form \in Words
        BY DEF Words
      <4> HIDE DEF role, form
      <4>2. Plain(role, form, body.instructions) \in Turns
            /\ Plain(role, form, body.instructions).content = body.instructions
        BY <3>1, <4>1, PlainMessage
      <4> QED
        BY <4>2 DEF role, form
    <3>3. told = <<first>>
      BY <2>2
    <3> HIDE DEF first, told
    <3>4. told \in Seq(Turns) /\ Len(told) = 1 /\ told[1] = first
      BY <3>2, <3>3
    <3> QED
      BY <3>1, <3>2, <3>4 DEF Plainly
  <2> QED
    BY <2>1, <2>2
<1>3. InputMessages(body) = told \o items
  BY DEF InputMessages
<1> HIDE DEF told, items
<1> QED
  BY <1>1, <1>2, <1>3, ConcatPlainly

\* prepareAutonomia... accepts good calls only.
LEMMA PreparedIsGood ==
  ASSUME NEW bundle \in Bundles, NEW key, NEW body \in Bodies, Prepare(bundle, key, body).ok
  PROVE  GoodCall(bundle, Prepare(bundle, key, body))
<1> DEFINE c == Prepare(bundle, key, body)
<1>0. /\ body.endpoint \in {"chat.completions", "responses", "embeddings"}
      /\ body.stream \in BOOLEAN /\ body.tools \in Seq(Nat) /\ body.choice \in ToolChoices
      /\ body.instructions \in Seq({"text"} \X Nat) /\ Plainly(body.messages)
  BY BodyFields
<1>1. CASE body.endpoint = "chat.completions"
  <2>1. c = PrepareChat(bundle, key, body, "chat.completions")
    BY <1>1 DEF Prepare
  <2> HIDE DEF c
  <2>2. ChatCall(bundle, body, c) /\ c.endpoint = "chat.completions"
    BY <2>1, PrepareChatCall DEF c
  <2>3. GoodCall(bundle, c)
    BY <1>0, <2>2, ChatCallIsGood
  <2> QED
    BY <2>3 DEF c
<1>2. CASE body.endpoint = "responses"
  <2> DEFINE chat == [body EXCEPT !.messages = InputMessages(body), !.maxTokens = NotGiven,
                                  !.tools = <<>>, !.choice = <<"absent">>, !.format = "text"]
  <2>1. c.ok /\ c = PrepareResponses(bundle, key, body)
    BY <1>2 DEF Prepare
  <2>2. \A error : ~Rejected(error).ok
    BY DEF Rejected
  <2>3. c = PrepareChat(bundle, key, chat, "responses")
    BY <2>1, <2>2 DEF PrepareResponses
  <2>4. /\ chat.stream = body.stream /\ chat.tools = <<>> /\ chat.choice = <<"absent">>
        /\ chat.messages = InputMessages(body)
    BY BodiesAssumption
  <2> HIDE DEF c, chat
  <2>5. ChatCall(bundle, chat, c) /\ c.endpoint = "responses"
    BY <2>1, <2>3, PrepareChatCall
  <2>6. /\ chat.stream \in BOOLEAN /\ chat.tools \in Seq(Nat) /\ chat.choice \in ToolChoices
        /\ Plainly(chat.messages)
    BY <1>0, <2>4, InputMessagesType DEF ToolChoices
  <2>7. GoodCall(bundle, c)
    BY <2>5, <2>6, ChatCallIsGood
  <2> QED
    BY <2>7 DEF c
<1>3. CASE body.endpoint = "embeddings"
  <2> DEFINE entry == FirstError(Entry(bundle, key, body, "embeddings"))
             model == Model(bundle, body)
             error == IF entry # "none" THEN entry ELSE FirstError(EmbeddingsChecks(model, body))
             estimate == RequestTokens + PartTokens * PartsOf(body.messages)
             reserved == Cost(model, estimate, 0)
             good == [ok |-> TRUE, endpoint |-> "embeddings", model |-> body.model, stream |-> FALSE,
                      estimate |-> estimate, limit |-> 0, reserved |-> reserved,
                      body |-> [messages |-> body.messages, stream |-> FALSE, limit |-> 0,
                                tools |-> <<>>, choice |-> <<"absent">>, sampling |-> {}]]
  <2>1. c.ok /\ c = PrepareEmbeddings(bundle, key, body)
    BY <1>3 DEF Prepare
  <2>2. c = IF error # "none" THEN Rejected(error)
            ELSE IF key.spendLimit # NotGiven /\ reserved > key.spendLimit
            THEN Rejected("spend_limit_exceeded") ELSE good
    BY <2>1 DEF PrepareEmbeddings
  <2>3. ~Rejected(error).ok /\ ~Rejected("spend_limit_exceeded").ok
    BY DEF Rejected
  <2> HIDE DEF c, entry, error
  <2>4. error = "none" /\ c = good
    BY <2>1, <2>2, <2>3
  <2>5. entry = "none"
    BY <2>4 DEF error
  <2>6. body.model \in EnabledModels(bundle)
    BY <2>5, EntryHolds DEF entry
  <2>7. estimate \in Nat
    BY <1>0, EstimateType DEF Plainly
  <2>8. model = bundle.models[body.model]
    BY DEF Model
  <2> HIDE DEF estimate, model
  <2>9. GoodCall(bundle, c)
    BY <2>4, <2>6, <2>7, <2>8 DEF GoodCall
  <2> QED
    BY <2>9 DEF c
<1> QED
  BY <1>0, <1>1, <1>2, <1>3

-----------------------------------------------------------------------------
(* The state.                                                              *)

Usages == [known : BOOLEAN, prompt : Nat, completion : Nat]
Tokens == Words \X Nat
Events == {event \in [event : Words, data : Seq(Seq(Tokens))] : event.data # <<>>}
ToolDeltas == [place : Nat, block : Nat, args : BOOLEAN]
Finishes == {"none", "stop", "length", "tool_calls", "content_filter"}
Readings ==
  [kind : {"chunk", "done", "failure"}, text : Seq(Nat), tools : Seq(ToolDeltas), finish : Finishes,
   usage : Usages]
Frames ==
  [kind : {"chunk", "done", "error", "created", "item added", "part added", "text delta", "text done",
           "part done", "item done", "completed", "incomplete"},
   text : Seq(Nat), tools : Seq(ToolDeltas), finish : Finishes, usage : Usages]
Parsers ==
  [buffer : Seq(Tokens), data : Seq(Seq(Tokens)), event : Words, fresh : BOOLEAN, broken : BOOLEAN]
Ordinals == UNION {[blocks -> Nat] : blocks \in SUBSET Nat}
Adapters ==
  {a \in [state : {"reading", "stopped", "failed", "closed"}, input : Nat, output : Nat,
         finish : Finishes, ordinals : Ordinals, out : Seq(Readings)] :
     IsFiniteSet(DOMAIN a.ordinals)}

PumpType ==
  pump \in [state : {"reading", "finalizing", "closing", "failing", "over"}, received : Usages, pieces : Nat,
            terminal : {"none", "finalize", "fail"}, cancelled : BOOLEAN]
Bridges == [started : BOOLEAN, text : Seq(Nat), finish : Finishes, usage : Usages]
BridgeType == bridge \in Bridges
ChargeType ==
  charge \in [state : {"none", "marked", "refunded", "settled"}, source : {"none", "provider", "estimate"},
              input : Nat, output : Nat]

PublicCallTypeOK ==
  /\ stage \in {"starting", "refused", "listening", "rejected", "reserved", "sent", "streaming", "over"}
  /\ gateway \in [bundle : Bundles, key : Keys]
  /\ stream \in [text : Seq(Tokens), newline : NewLines, state : {"open", "ended", "broken", "read", "lost"},
                 splits : Nat]
  /\ written \in Seq(Events)
  /\ parser \in Parsers
  /\ parsed \in Seq(Events)
  /\ adapter \in Adapters
  /\ queue \in Seq(Readings)
  /\ PumpType
  /\ BridgeType
  /\ frames \in Seq(Frames)
  /\ ChargeType
  /\ replay \in Seq(Frames)

(***************************************************************************)
(* What the request of a call is at every stage: a gateway that started    *)
(* has a good bundle, a call it accepted is good, and what was sent is     *)
(* what one of the routes of the model makes of it.                        *)
(***************************************************************************)
RequestInv ==
  /\ stage \notin {"starting", "refused"} => BundleValid(gateway.bundle)
  /\ call.ok => GoodCall(gateway.bundle, call) /\ BundleValid(gateway.bundle)
  /\ stage \in {"starting", "refused", "listening", "rejected"} => ~call.ok
  /\ stage \in {"reserved", "sent", "streaming", "over"} => call.ok
  /\ stage \in {"starting", "refused", "listening", "rejected", "reserved"} => sent = Unsent
  /\ stage \in {"sent", "streaming"} => sent # Unsent
  /\ sent # Unsent =>
       /\ call.ok
       /\ \E route \in CandidateRoutes(CallModel) :
            /\ Buildable(route, gateway.bundle.pools, call.endpoint)
            /\ sent = UpstreamRequest(route, gateway.bundle.pools, call.body)

(***************************************************************************)
(* The stream is touched while it streams only, the loop of the endpoint   *)
(* ends with the call, and nothing is charged before finalizeStream or     *)
(* failStream was called.                                                  *)
(***************************************************************************)
Pristine ==
  /\ stream = NewStream /\ written = <<>> /\ parser = NewParser /\ parsed = <<>> /\ adapter = NewAdapter
  /\ queue = <<>> /\ pump = NewPump /\ bridge = NewBridge

ControlInv ==
  /\ stage \notin {"streaming", "over"} =>
       Pristine /\ frames = <<>> /\ charge = Uncharged /\ replay = <<>>
  /\ stage = "streaming" => pump.state # "over" /\ call.stream /\ charge.state # "refunded"
  /\ stage = "over" =>
       /\ charge.state # "none"
       /\ IF pump.state = "over" THEN call.stream /\ sent # Unsent
          ELSE Pristine /\ (sent # Unsent => ~call.stream)
  /\ queue # <<>> => pump.state = "reading" /\ stage = "streaming"
  /\ pump.state = "reading" =>
       IF pump.cancelled THEN queue = <<>> /\ pump.terminal = "fail" ELSE pump.terminal = "none"
  /\ pump.state \in {"finalizing", "closing"} => pump.terminal = "finalize"
  /\ pump.state = "failing" =>
       pump.terminal # "none" /\ (pump.terminal = "finalize" => charge.state = "marked")
  /\ pump.state = "closing" => charge.state = "settled"
  /\ stage = "streaming" /\ pump.terminal = "none" => charge = Uncharged

\* What a settled call was charged for.
ChargeInv ==
  charge.state = "settled" =>
    /\ charge.source = "estimate" => charge.input = call.estimate /\ charge.output <= call.limit
    /\ call.stream =>
         charge = IF pump.received.known THEN Charge("provider", pump.received)
                  ELSE Charge("estimate", Estimated(pump.pieces))

-----------------------------------------------------------------------------
(* What the endpoint makes of the chunks it has read.                      *)

\* What a function of the members of a sequence makes of it, put together.
Mapped(s, f) == [i \in DOMAIN s |-> f[s[i]]]
Collect(s, f) == FlattenSeq(Mapped(s, f))

LastOr(s, d) == IF s = <<>> THEN d ELSE s[Len(s)]

TextIn == [r \in Readings |-> r.text]
UsageIn == [r \in Readings |-> IF r.usage.known THEN <<r.usage>> ELSE <<>>]
FinishIn == [r \in Readings |-> IF r.finish = "none" THEN <<>> ELSE <<r.finish>>]
DeltaIn == [r \in Readings |-> IF r.text = <<>> THEN <<>> ELSE <<Frame("text delta", r.text, NoUsage)>>]
NumberIn(kinds) == [event \in Events |-> IF KindOf(event) \in kinds THEN <<PayloadOf(event)[2]>> ELSE <<>>]

ChunkReadings == {r \in Readings : r.kind = "chunk"}

\* The frames a client was told of chunks before those that end a stream.
ToldOf(h) ==
  IF call.endpoint # "responses" THEN h
  ELSE IF h = <<>> THEN <<>> ELSE Opening(NewBridge) \o Collect(h, DeltaIn)

\* The stream was read to its [DONE].
Complete ==
  \/ pump.state \in {"finalizing", "closing"}
  \/ pump.state = "over" /\ pump.terminal = "finalize" /\ charge.state = "settled"

HeardInv(h) ==
  /\ h \in Seq(ChunkReadings)
  /\ pump.received = LastOr(Collect(h, UsageIn), NoUsage)
  /\ bridge = [started |-> h # <<>>, text |-> Collect(h, TextIn), finish |-> LastOr(Collect(h, FinishIn), "none"),
               usage |-> pump.received]

ToldInv(h) ==
  IF stage = "over" /\ pump.state # "over"
  THEN \/ frames = <<>> /\ replay = <<>>
       \/ /\ ~call.stream
          /\ charge.state = "settled"
          /\ \E kind \in {"completed", "incomplete"}, text \in Seq(Nat) :
               frames = <<Frame(kind, text, Usage(charge.input, charge.output))>>
          /\ replay \in {<<>>, frames}
  ELSE /\ \/ frames = ToldOf(h)
          \/ pump.state = "over" /\ frames = ToldOf(h) \o <<Reading("error")>>
          \/ Complete /\ pump.state = "over" /\ frames = ToldOf(h) \o LastFrames
       /\ \/ replay = <<>>
          \/ /\ charge.state = "settled"
             /\ pump.state \in {"closing", "over"}
             /\ pump.state = "over" => frames \in {ToldOf(h), ToldOf(h) \o LastFrames}
             /\ replay = ToldOf(h) \o LastFrames

-----------------------------------------------------------------------------
(* What the provider made the endpoint read.                               *)

\* The chunks of an OpenAI stream are its events, one for one.
Readable(events) == [i \in DOMAIN events |-> ReadEvent(events[i])]

OpenAiInv(h) ==
  IF pump.state = "reading"
  THEN \E tail \in {<<>>, <<Reading("failure")>>} : h \o queue = Readable(parsed) \o tail
  ELSE h = Readable(Sound(parsed)) /\ (Complete => Finished(parsed))

AdapterInv ==
  LET starts == Said(Sound(parsed), {"message_start"})
      ends == Said(Sound(parsed), {"message_delta"})
  IN  /\ adapter.out = <<>>
      /\ adapter.state # "stopped"
      /\ adapter.state = "reading" => Sound(parsed) = parsed
      /\ adapter.state \in {"reading", "closed"} =>
           /\ adapter.input = 2 * LastOr(starts, 0)
           /\ adapter.output = 5 * LastOr(ends, 0)
           /\ adapter.finish = IF ends = <<>> THEN "none" ELSE IF Last(ends) = 2 THEN "length" ELSE "stop"

\* All the chunks of an Anthropic stream, those that were not read yet included.
AnthropicInv(h) ==
  /\ AdapterInv
  /\ \E all \in Seq(ChunkReadings) :
       /\ Collect(all, UsageIn) =
            IF adapter.state = "closed" THEN <<Usage(adapter.input, adapter.output)>> ELSE <<>>
       /\ adapter.state \in {"reading", "closed"} =>
            /\ Collect(all, TextIn) = Said(Sound(parsed), {"text"})
            /\ LastOr(Collect(all, FinishIn), "none") = adapter.finish
       /\ IF pump.state = "reading"
          THEN CASE adapter.state = "reading" -> h \o queue \in {all, all \o <<Reading("failure")>>}
                 [] adapter.state = "closed" -> h \o queue = all \o <<Reading("done")>>
                 [] adapter.state = "failed" -> h \o queue = all \o <<Reading("failure")>>
                 [] OTHER -> FALSE
          ELSE h = all /\ (Complete => adapter.state = "closed")

StreamInv ==
  stage \in {"streaming", "over"} =>
    \E h \in Seq(ChunkReadings) :
      /\ HeardInv(h)
      /\ ToldInv(h)
      /\ sent # Unsent /\ call.stream => IF Anthropic THEN AnthropicInv(h) ELSE OpenAiInv(h)

-----------------------------------------------------------------------------
(* The request of a call.                                                  *)

\* What the later steps of a call do to its request: nothing.
LEMMA LaterSteps ==
  ASSUME PublicCallTypeOK, ControlInv, [PublicCallNext]_vars
  PROVE  \/ Start
         \/ \E body \in Bodies : Receive(body)
         \/ \E route \in CandidateRoutes(CallModel) : Send(route)
         \/ /\ UNCHANGED <<gateway, call, sent>>
            /\ \/ stage' = stage
               \/ stage \in {"sent", "streaming"} /\ stage' \in {"streaming", "over"}
<1>1. CASE Start
  BY <1>1
<1>2. CASE \E body \in Bodies : Receive(body)
  BY <1>2
<1>3. CASE stage = "reserved" /\ \E route \in CandidateRoutes(CallModel) : Send(route)
  BY <1>3
<1>4. CASE \E answer \in Answers : AnswerBody(answer)
  BY <1>4 DEF AnswerBody
<1>5. CASE \E beginning \in Beginnings : OpenStream(beginning[1], beginning[2])
  BY <1>5 DEF OpenStream
<1>6. ASSUME NEW event, Write(event) PROVE UNCHANGED <<gateway, call, sent, stage>>
  BY <1>6 DEF Write
<1>7. ASSUME NEW partial, EndStream(partial) PROVE UNCHANGED <<gateway, call, sent, stage>>
  BY <1>7 DEF EndStream
<1>8. CASE BreakStream
  BY <1>8 DEF BreakStream
<1>9. ASSUME NEW chunk, NEW final, NEW rest, Hear(chunk, final, rest) PROVE UNCHANGED <<gateway, call, sent, stage>>
  BY <1>9 DEF Hear
<1>10. CASE ReadChunk \/ ReadEnd \/ \E n \in 1..Len(stream.text) : ReadPart(n)
  BY <1>9, <1>10 DEF ReadChunk, ReadEnd, ReadPart
<1>11. CASE ReadError \/ PumpChunk \/ PumpEnd \/ Cancel \/ Settle
  BY <1>11 DEF ReadError, PumpChunk, PumpEnd, Cancel, Settle
<1>12. CASE Finalized \/ Closed \/ Failed
  <2>1. UNCHANGED <<gateway, call, sent>> /\ (stage' = stage \/ stage' = "over")
    BY <1>12 DEF Finalized, Closed, Failed, Over
  <2>2. pump.state \in {"finalizing", "closing", "failing"}
    BY <1>12 DEF Finalized, Closed, Failed
  <2>3. stage = "streaming"
    BY <2>2 DEF PublicCallTypeOK, ControlInv, Pristine, NewPump
  <2> QED
    BY <2>1, <2>3
<1>13. CASE UNCHANGED vars
  BY <1>13 DEF vars
<1> QED
  BY <1>1, <1>2, <1>3, <1>4, <1>5, <1>6, <1>7, <1>8, <1>10, <1>11, <1>12, <1>13 DEF PublicCallNext

LEMMA UnsentStyle ==
  ASSUME NEW bundle, BundleValid(bundle), NEW route, NEW body, route.pool \in DOMAIN bundle.pools
  PROVE  LET sent1 == UpstreamRequest(route, bundle.pools, body)
         IN  /\ sent1 # Unsent
             /\ sent1.style = bundle.pools[route.pool].style
             /\ sent1.style \in {"openai-compatible", "anthropic-messages", "cloudflare-rest"}
             /\ sent1.limit = body.limit
             /\ sent1.style # "openai-compatible" => sent1.field = "max_tokens"
             /\ sent1.style = "anthropic-messages" =>
                  /\ sent1.messages = Conversation(body.messages)
                  /\ sent1.choice = AnthropicChoice(body)
<1>1. PoolValid(bundle.pools[route.pool])
  BY DEF BundleValid, PoolsValid
<1>2. bundle.pools[route.pool].style \in {"openai-compatible", "anthropic-messages", "cloudflare-rest"}
  BY <1>1 DEF PoolValid, StyleOf
<1>3. CASE bundle.pools[route.pool].style = "openai-compatible"
  <2>1. UpstreamRequest(route, bundle.pools, body) = OpenAiBody(route.provider, body)
    BY <1>3 DEF UpstreamRequest
  <2> QED
    BY <1>3, <2>1 DEF OpenAiBody, Unsent
<1>4. CASE bundle.pools[route.pool].style = "anthropic-messages"
  <2>1. UpstreamRequest(route, bundle.pools, body) = AnthropicBody(body)
    BY <1>4 DEF UpstreamRequest
  <2> QED
    BY <1>4, <2>1 DEF AnthropicBody, Unsent
<1>5. CASE bundle.pools[route.pool].style = "cloudflare-rest"
  <2>1. UpstreamRequest(route, bundle.pools, body) = CloudflareBody(body)
    BY <1>5 DEF UpstreamRequest
  <2> QED
    BY <1>5, <2>1 DEF CloudflareBody, Unsent
<1> QED
  BY <1>2, <1>3, <1>4, <1>5

\* The routes of a call that was accepted lead to pools in use.
LEMMA RoutesAreServed ==
  ASSUME NEW bundle, BundleValid(bundle), NEW id \in EnabledModels(bundle)
  PROVE  /\ CandidateRoutes(bundle.models[id]) # {}
         /\ \A route \in CandidateRoutes(bundle.models[id]) :
              /\ route.pool \in DOMAIN bundle.pools
              /\ bundle.pools[route.pool].provider = route.provider
              /\ bundle.pools[route.pool].enabled
              /\ Enabled(bundle.pools[route.pool].credentials) # {}
<1>1. id \in DOMAIN bundle.models /\ bundle.models[id].enabled
  BY DEF EnabledModels
<1>2. ModelValid(bundle.models[id])
  BY <1>1 DEF BundleValid, PricingValid
<1>3. ASSUME NEW route \in CandidateRoutes(bundle.models[id])
      PROVE  RouteServed(bundle.models[id], route, bundle.pools) /\ route.enabled
  <2>1. route \in Range(bundle.models[id].routes) /\ route.enabled
    BY DEF CandidateRoutes, Enabled
  <2> QED
    BY <1>1, <2>1 DEF BundleValid
<1> QED
  BY <1>1, <1>2, <1>3 DEF ModelValid, CandidateRoutes, RouteServed

LEMMA RequestInit == PublicCallInit => RequestInv
BY DEF PublicCallInit, RequestInv, Rejected

LEMMA RequestStep ==
  ASSUME PublicCallTypeOK, ControlInv, RequestInv, [PublicCallNext]_vars
  PROVE  RequestInv'
<1>0. /\ stage \in {"starting", "refused", "listening", "rejected", "reserved", "sent", "streaming", "over"}
      /\ gateway \in [bundle : Bundles, key : Keys]
  BY DEF PublicCallTypeOK
<1>1. CASE Start
  <2>1. UNCHANGED <<gateway, call, sent>> /\ stage = "starting"
        /\ stage' = IF BundleValid(gateway.bundle) THEN "listening" ELSE "refused"
    BY <1>1 DEF Start
  <2>2. ~call.ok /\ sent = Unsent
    BY <2>1 DEF RequestInv
  <2> QED
    BY <2>1, <2>2 DEF RequestInv
<1>2. ASSUME NEW body \in Bodies, Receive(body) PROVE RequestInv'
  <2>1. /\ stage = "listening" /\ UNCHANGED <<gateway, sent>>
        /\ call' = Prepare(gateway.bundle, gateway.key, body)
        /\ stage' = IF call'.ok THEN "reserved" ELSE "rejected"
    BY <1>2 DEF Receive
  <2>2. BundleValid(gateway.bundle) /\ sent = Unsent
    BY <2>1 DEF RequestInv
  <2>3. call'.ok => GoodCall(gateway.bundle, call')
    <3>1. gateway.bundle \in Bundles
      BY <1>0
    <3> QED
      BY <2>1, <3>1, PreparedIsGood
  <2> QED
    BY <2>1, <2>2, <2>3 DEF RequestInv
<1>3. ASSUME NEW route \in CandidateRoutes(CallModel), Send(route) PROVE RequestInv'
  <2>1. /\ stage = "reserved" /\ UNCHANGED <<gateway, call>>
        /\ IF Buildable(route, gateway.bundle.pools, call.endpoint)
           THEN stage' = "sent" /\ sent' = UpstreamRequest(route, gateway.bundle.pools, call.body)
           ELSE stage' = "over" /\ sent' = sent
    BY <1>3 DEF Send
  <2>2. call.ok /\ GoodCall(gateway.bundle, call) /\ BundleValid(gateway.bundle) /\ sent = Unsent
    BY <2>1 DEF RequestInv
  <2>3. CallModel' = CallModel
    BY <2>1 DEF CallModel
  <2>4. CASE Buildable(route, gateway.bundle.pools, call.endpoint)
    <3>1. sent' # Unsent
      <4>1. route.pool \in DOMAIN gateway.bundle.pools
        BY <2>2, RoutesAreServed DEF CallModel, GoodCall
      <4>2. UpstreamRequest(route, gateway.bundle.pools, call.body) # Unsent
        <5> DEFINE bundle == gateway.bundle
                   body == call.body
        <5>1. BundleValid(bundle) /\ route.pool \in DOMAIN bundle.pools
          BY <2>2, <4>1
        <5> HIDE DEF bundle, body
        <5>2. UpstreamRequest(route, bundle.pools, body) # Unsent
          BY <5>1, UnsentStyle, SMTT(30)
        <5> QED
          BY <5>2 DEF bundle, body
      <4> QED
        BY <2>1, <2>4, <4>2
    <3>2. (\E r \in CandidateRoutes(CallModel) :
             /\ Buildable(r, gateway.bundle.pools, call.endpoint)
             /\ sent = UpstreamRequest(r, gateway.bundle.pools, call.body))'
      BY <2>1, <2>4 DEF CallModel
    <3> QED
      BY <2>1, <2>2, <2>4, <3>1, <3>2 DEF RequestInv
  <2>5. CASE ~Buildable(route, gateway.bundle.pools, call.endpoint)
    BY <2>1, <2>2, <2>3, <2>5 DEF RequestInv
  <2> QED
    BY <2>4, <2>5
<1>4. CASE /\ UNCHANGED <<gateway, call, sent>>
           /\ \/ stage' = stage
              \/ stage \in {"sent", "streaming"} /\ stage' \in {"streaming", "over"}
  BY <1>4 DEF RequestInv, CallModel
<1> QED
  BY <1>1, <1>2, <1>3, <1>4, LaterSteps

LEMMA RequestInvServes == RequestInv => StartedIsServable
<1> SUFFICES ASSUME RequestInv, stage = "reserved"
             PROVE  /\ CandidateRoutes(CallModel) # {}
                    /\ \A route \in CandidateRoutes(CallModel) :
                         /\ route.pool \in DOMAIN gateway.bundle.pools
                         /\ gateway.bundle.pools[route.pool].enabled
                         /\ Enabled(gateway.bundle.pools[route.pool].credentials) # {}
                         /\ call.endpoint # "embeddings" => Buildable(route, gateway.bundle.pools, call.endpoint)
  BY DEF StartedIsServable
<1>1. call.model \in EnabledModels(gateway.bundle) /\ BundleValid(gateway.bundle)
  BY DEF RequestInv, GoodCall
<1> QED
  BY <1>1, RoutesAreServed DEF CallModel, Buildable

LEMMA RequestInvLimits == RequestInv => LimitReachesUpstream
<1> SUFFICES ASSUME RequestInv, sent # Unsent, call.endpoint # "embeddings"
             PROVE  /\ sent.style # "openai-compatible" => sent.field = "max_tokens"
                    /\ sent.limit \in 1..CallModel.limits.output
                    /\ call.reserved = Cost(CallModel, call.estimate, sent.limit)
  BY DEF LimitReachesUpstream
<1>1. GoodCall(gateway.bundle, call) /\ BundleValid(gateway.bundle)
  BY DEF RequestInv
<1>2. PICK route \in CandidateRoutes(CallModel) :
        sent = UpstreamRequest(route, gateway.bundle.pools, call.body)
  BY DEF RequestInv
<1>3. route.pool \in DOMAIN gateway.bundle.pools
  BY <1>1, RoutesAreServed DEF GoodCall, CallModel
<1>4. sent.limit = call.body.limit /\ (sent.style # "openai-compatible" => sent.field = "max_tokens")
  BY <1>1, <1>2, <1>3, UnsentStyle
<1> QED
  BY <1>1, <1>4 DEF GoodCall, CallModel

-----------------------------------------------------------------------------
(* Types of the stream.                                                    *)

LEMMA TokenTypes ==
  /\ {CR, LF, BOM, DataField, EventField, Done, Garbled} \subseteq Tokens
  /\ \A n \in Nat :
       {<<"error", n>>, <<"message_start", n>>, <<"text_start", n>>, <<"tool_start", n>>, <<"text", n>>,
        <<"args", n>>, <<"message_delta", n>>, <<"message_stop", n>>} \subseteq Tokens
  /\ \A word \in Words, n \in Nat : <<word, n>> \in Tokens
  /\ "message" \in Words /\ "error" \in Words
<1>1. \A word \in Words, n \in Nat : <<word, n>> \in Tokens
  BY DEF Tokens
<1>2. {"text", "\r", "\n", "BOM", "data:", "event:", "message", "error", "[DONE]", "garbled", "message_start",
       "text_start", "tool_start", "args", "message_delta", "message_stop"} \subseteq Words
  BY DEF Words
<1>3. {CR, LF, BOM, DataField, EventField, Done, Garbled} \subseteq Tokens
  BY <1>1, <1>2 DEF CR, LF, BOM, DataField, EventField, Done, Garbled
<1> QED
  BY <1>1, <1>2, <1>3

LEMMA TokenFields ==
  ASSUME NEW token \in Tokens
  PROVE  token[1] \in Words /\ token[2] \in Nat /\ token = <<token[1], token[2]>>
BY DEF Tokens

LEMMA EventFields ==
  ASSUME NEW event \in Events
  PROVE  /\ event.event \in Words
         /\ event.data \in Seq(Seq(Tokens))
         /\ event.data # <<>>
         /\ 1 \in DOMAIN event.data
         /\ event.data[1] \in Seq(Tokens)
         /\ Len(event.data) \in Nat
         /\ event = [event |-> event.event, data |-> event.data]
<1>1. event.event \in Words /\ event.data \in Seq(Seq(Tokens)) /\ event.data # <<>>
      /\ event = [event |-> event.event, data |-> event.data]
  BY DEF Events
<1> DEFINE data == event.data
<1> HIDE DEF data
<1>2. data \in Seq(Seq(Tokens)) /\ data # <<>>
  BY <1>1 DEF data
<1>3. 1 \in DOMAIN data /\ Len(data) \in Nat
  BY <1>2, EmptySeq
<1>4. data[1] \in Seq(Tokens)
  BY <1>2, <1>3
<1> QED
  BY <1>1, <1>3, <1>4 DEF data

LEMMA PayloadType ==
  ASSUME NEW event \in Events
  PROVE  PayloadOf(event) \in Tokens
<1> DEFINE line == event.data[1]
<1>1. line \in Seq(Tokens)
  BY EventFields
<1> HIDE DEF line
<1>2. line # <<>> => line[1] \in Tokens
  BY <1>1, EmptySeq
<1>3. Garbled \in Tokens
  BY TokenTypes
<1> QED
  BY <1>2, <1>3 DEF PayloadOf, line

LEMMA MessageType ==
  ASSUME NEW payload \in Tokens, NEW name \in Words
  PROVE  /\ Event(name, payload) \in Events
         /\ PayloadOf(Event(name, payload)) = payload
<1>1. <<payload>> \in Seq(Tokens)
  OBVIOUS
<1>2. << <<payload>> >> \in Seq(Seq(Tokens)) /\ << <<payload>> >> # <<>>
  BY <1>1
<1>3. Event(name, payload).data = << <<payload>> >> /\ Event(name, payload) \in [event : Words, data : Seq(Seq(Tokens))]
  BY <1>2 DEF Event
<1>4. Event(name, payload) \in Events
  BY <1>2, <1>3 DEF Events
<1>5. << <<payload>> >>[1] = <<payload>> /\ <<payload>> # <<>> /\ <<payload>>[1] = payload
      /\ ~(Len(<< <<payload>> >>) > 1)
  OBVIOUS
<1>6. PayloadOf(Event(name, payload)) = payload
  BY <1>3, <1>5 DEF PayloadOf
<1> QED
  BY <1>4, <1>6

LEMMA AnthropicEventsType == PublicCallTypeOK => AnthropicEvents \cup {Ending} \subseteq Events
<1> SUFFICES ASSUME PublicCallTypeOK PROVE AnthropicEvents \cup {Ending} \subseteq Events
  OBVIOUS
<1> DEFINE places == {i \in DOMAIN written : KindOf(written[i]) \in {"text_start", "tool_start"}}
           next == Cardinality(places)
           Of(payload) == Event("message", payload)
<1>1. next \in Nat
  <2>1. written \in Seq(Events)
    BY DEF PublicCallTypeOK
  <2>2. Len(written) \in Nat /\ DOMAIN written = 1..Len(written)
    BY <2>1
  <2>3. IsFiniteSet(1..Len(written))
    <3>1. 1 \in Int /\ Len(written) \in Int
      BY <2>2
    <3> QED
      BY <3>1, FS_Interval
  <2>4. IsFiniteSet(places)
    BY <2>2, <2>3, FS_Subset
  <2> QED
    BY <2>4, FS_CardinalityType
<1> HIDE DEF next
<1>2. ASSUME NEW kind, Of(<<kind, next - 1>>) \in Range(written)
      PROVE  next - 1 \in Nat
  <2> DEFINE event == Of(<<kind, next - 1>>)
  <2>1. event \in Events
    <3> HIDE DEF event
    <3>1. event \in Range(written) /\ written \in Seq(Events)
      BY <1>2 DEF event, PublicCallTypeOK
    <3> QED
      BY <3>1 DEF Range
  <2>2. PayloadOf(event) \in Tokens
    <3> HIDE DEF event
    <3> QED
      BY <2>1, PayloadType
  <2>3. event.data = << << <<kind, next - 1>> >> >>
    BY DEF Event
  <2>4. PayloadOf(event) \in {<<kind, next - 1>>, Garbled} /\ Len(event.data) = 1
    <3> DEFINE data == event.data
    <3>1. data[1] # <<>> /\ data[1][1] = <<kind, next - 1>> /\ Len(data) = 1
      BY <2>3
    <3> QED
      BY <3>1 DEF PayloadOf
  <2>5. PayloadOf(event) = <<kind, next - 1>>
    <3>1. ~(Len(event.data) > 1) /\ event.data[1] # <<>> /\ event.data[1][1] = <<kind, next - 1>>
      BY <2>3
    <3> QED
      BY <3>1 DEF PayloadOf
  <2> QED
    BY <2>2, <2>5, TokenFields
<1> DEFINE Sent(n) == {Of(<<"text", n>>), Of(<<"args", n>>)}
           Started(kind) == Of(<<kind, next - 1>>) \in Range(written)
<1>3. ASSUME NEW event \in AnthropicEvents
      PROVE  \/ event = Event("error", <<"error", 0>>)
             \/ event = Of(Garbled)
             \/ event = Of(<<"message_start", 1>>)
             \/ event \in {Of(<<"text_start", next>>), Of(<<"tool_start", next>>)}
             \/ event = Of(<<"text", next - 1>>) /\ next - 1 \in Nat
             \/ event = Of(<<"args", next - 1>>) /\ next - 1 \in Nat
             \/ \E n \in 1..2 : event = Of(<<"message_delta", n>>)
  <2> HIDE DEF Of
  <2>1. \/ event = Event("error", <<"error", 0>>)
        \/ event = Of(Garbled)
        \/ event = Of(<<"message_start", 1>>)
        \/ event \in {Of(<<"text_start", next>>), Of(<<"tool_start", next>>)}
        \/ event = Of(<<"text", next - 1>>) /\ Started("text_start")
        \/ event = Of(<<"args", next - 1>>) /\ Started("tool_start")
        \/ \E n \in 1..2 : event = Of(<<"message_delta", n>>)
    BY DEF AnthropicEvents, next, Of
  <2> QED
    BY <1>2, <2>1
<1>4. AnthropicEvents \subseteq Events
  <2> SUFFICES ASSUME NEW event \in AnthropicEvents PROVE event \in Events
    OBVIOUS
  <2> USE TokenTypes, MessageType
  <2>1. CASE event = Event("error", <<"error", 0>>)
    BY <2>1
  <2>2. CASE event = Of(Garbled)
    BY <2>2
  <2>3. CASE event = Of(<<"message_start", 1>>)
    BY <2>3
  <2>4. CASE event \in {Of(<<"text_start", next>>), Of(<<"tool_start", next>>)}
    BY <1>1, <2>4
  <2>5. CASE event = Of(<<"text", next - 1>>) /\ next - 1 \in Nat
    BY <2>5
  <2>6. CASE event = Of(<<"args", next - 1>>) /\ next - 1 \in Nat
    BY <2>6
  <2>7. CASE \E n \in 1..2 : event = Of(<<"message_delta", n>>)
    <3>1. PICK n \in 1..2 : event = Of(<<"message_delta", n>>)
      BY <2>7
    <3>2. <<"message_delta", n>> \in Tokens /\ "message" \in Words
      BY n \in Nat
    <3> HIDE DEF Of
    <3>3. Of(<<"message_delta", n>>) \in Events
      BY <3>2, MessageType DEF Of
    <3> QED
      BY <3>1, <3>3
  <2> QED
    BY <1>3, <2>1, <2>2, <2>3, <2>4, <2>5, <2>6, <2>7
<1>5. Ending \in Events
  BY TokenTypes, MessageType DEF Ending
<1> QED
  BY <1>4, <1>5

LEMMA OpenAiEventsType == OpenAiEvents \subseteq Events
<1> SUFFICES ASSUME NEW event \in OpenAiEvents PROVE event \in Events
  OBVIOUS
<1>1. event \in [event : STRING, data : Seq(Seq(Token \ {CR, LF}))] /\ event.data # <<>>
  BY StreamsAssumption
<1>2. Token \ {CR, LF} \subseteq Tokens
  BY DEF Token, Tokens, Words
<1>3. Seq(Token \ {CR, LF}) \subseteq Seq(Tokens)
  BY <1>2, SeqMonotonic
<1>4. event.data \in Seq(Seq(Tokens))
  <2>1. event.data \in Seq(Seq(Token \ {CR, LF}))
    BY <1>1
  <2> QED
    BY <1>3, <2>1, SeqMonotonic
<1>5. event.event \in Words /\ event = [event |-> event.event, data |-> event.data]
  BY <1>1 DEF Words
<1> QED
  BY <1>1, <1>4, <1>5 DEF Events

\* The text of an event.
LEMMA LinesType ==
  ASSUME NEW event \in Events
  PROVE  /\ LinesOf(event) \in Seq(Seq(Tokens))
         /\ Len(LinesOf(event)) =
              (IF event.event = "message" THEN 0 ELSE 1) + Len(event.data) + 1
<1> DEFINE first == IF event.event = "message" THEN <<>> ELSE << <<EventField, <<event.event, 0>> >> >>
           data == [i \in DOMAIN event.data |-> <<DataField>> \o event.data[i]]
           blank == << <<>> >>
<1>1. first \in Seq(Seq(Tokens)) /\ Len(first) = IF event.event = "message" THEN 0 ELSE 1
  <2>1. <<EventField, <<event.event, 0>> >> \in Seq(Tokens)
    <3>1. EventField \in Tokens /\ <<event.event, 0>> \in Tokens
      BY EventFields, TokenTypes
    <3> QED
      BY <3>1
  <2> QED
    BY <2>1
<1>2. data \in Seq(Seq(Tokens)) /\ Len(data) = Len(event.data)
  <2> DEFINE d == event.data
  <2> HIDE DEF d
  <2>1. d \in Seq(Seq(Tokens)) /\ Len(d) \in Nat /\ DOMAIN d = 1..Len(d)
    BY EventFields DEF d
  <2>2. ASSUME NEW i \in 1..Len(d) PROVE <<DataField>> \o d[i] \in Seq(Tokens)
    <3>1. d[i] \in Seq(Tokens) /\ DataField \in Tokens
      BY <2>1, TokenTypes
    <3> QED
      BY <3>1
  <2>3. data = [i \in 1..Len(d) |-> <<DataField>> \o d[i]]
    BY <2>1 DEF d
  <2>4. data \in [1..Len(d) -> Seq(Tokens)]
    BY <2>2, <2>3
  <2> HIDE DEF data
  <2>5. data \in Seq(Seq(Tokens)) /\ Len(data) = Len(d)
    BY <2>1, <2>4
  <2> QED
    BY <2>5 DEF d
<1>3. blank \in Seq(Seq(Tokens)) /\ Len(blank) = 1
  OBVIOUS
<1>4. LinesOf(event) = first \o data \o blank
  BY DEF LinesOf
<1> HIDE DEF first, data, blank
<1>5. Len(event.data) \in Nat
  BY EventFields
<1>6. first \o data \o blank \in Seq(Seq(Tokens)) /\ Len(first \o data \o blank) = Len(first) + Len(data) + Len(blank)
  <2> DEFINE X == Seq(Tokens)
  <2> HIDE DEF X
  <2>1. first \in Seq(X) /\ data \in Seq(X) /\ blank \in Seq(X)
    BY <1>1, <1>2, <1>3 DEF X
  <2>2. first \o data \o blank \in Seq(X) /\ Len(first \o data \o blank) = Len(first) + Len(data) + Len(blank)
    BY ONLY <2>1
  <2> QED
    BY <2>2 DEF X
<1> QED
  BY <1>1, <1>2, <1>3, <1>4, <1>5, <1>6

LEMMA TextType ==
  ASSUME NEW event \in Events, stream.newline \in NewLines
  PROVE  TextOf(event) \in Seq(Tokens)
<1> DEFINE lines == LinesOf(event)
           texts == [i \in DOMAIN lines |-> lines[i] \o stream.newline]
<1>1. lines \in Seq(Seq(Tokens))
  BY LinesType
<1>2. stream.newline \in Seq(Tokens)
  <2>1. <<LF>> \in Seq(Tokens) /\ <<CR>> \in Seq(Tokens) /\ <<CR, LF>> \in Seq(Tokens)
    BY TokenTypes
  <2> QED
    BY <2>1 DEF NewLines
<1> HIDE DEF lines
<1>3. texts \in Seq(Seq(Tokens))
  <2>1. Len(lines) \in Nat /\ DOMAIN lines = 1..Len(lines)
    BY <1>1
  <2>2. ASSUME NEW i \in 1..Len(lines) PROVE lines[i] \o stream.newline \in Seq(Tokens)
    <3>1. lines[i] \in Seq(Tokens)
      BY <1>1
    <3> QED
      BY <1>2, <3>1
  <2>3. texts \in [1..Len(lines) -> Seq(Tokens)]
    BY <2>1, <2>2
  <2> HIDE DEF texts
  <2> QED
    BY <2>1, <2>3
<1> HIDE DEF texts
<1>4. FlattenSeq(texts) \in Seq(Tokens)
  BY <1>3, FlattenType
<1> QED
  BY <1>4 DEF TextOf, texts, lines

LEMMA EmptyTypes ==
  /\ <<>> \in Seq(Nat) /\ <<>> \in Seq(ToolDeltas) /\ <<>> \in Seq(Tokens) /\ <<>> \in Seq(Seq(Tokens))
  /\ <<>> \in Seq(Events) /\ <<>> \in Seq(Readings) /\ <<>> \in Seq(Frames)
  /\ "none" \in Finishes /\ "stop" \in Finishes /\ "length" \in Finishes
BY DEF Finishes

\* What an event is read as.
LEMMA FrameTypes ==
  /\ \A usage \in Usages, text \in Seq(Nat), finish \in Finishes, tools \in Seq(ToolDeltas) :
       Chunk(text, tools, finish, usage) \in Readings /\ Chunk(text, tools, finish, usage) \in Frames
  /\ Reading("done") \in Readings /\ Reading("failure") \in Readings
  /\ Reading("done") \in Frames /\ Reading("error") \in Frames
  /\ \A usage \in Usages, text \in Seq(Nat),
        kind \in {"created", "item added", "part added", "text delta", "text done", "part done", "item done",
                  "completed", "incomplete"} : Frame(kind, text, usage) \in Frames
  /\ NoUsage \in Usages
  /\ \A a, b \in Nat : Usage(a, b) \in Usages
<1>1. NoUsage \in Usages /\ \A a, b \in Nat : Usage(a, b) \in Usages
  BY DEF NoUsage, Usage, Usages
<1>2. <<>> \in Seq(Nat) /\ <<>> \in Seq(ToolDeltas) /\ "none" \in Finishes
  BY DEF Finishes
<1>3. \A usage \in Usages, text \in Seq(Nat), finish \in Finishes, tools \in Seq(ToolDeltas) :
        Chunk(text, tools, finish, usage) \in Readings /\ Chunk(text, tools, finish, usage) \in Frames
  BY DEF Chunk, Readings, Frames
<1>4. /\ Reading("done") \in Readings /\ Reading("failure") \in Readings
      /\ Reading("done") \in Frames /\ Reading("error") \in Frames
  BY <1>1, <1>2 DEF Reading, Frame, Readings, Frames
<1>5. \A usage \in Usages, text \in Seq(Nat),
        kind \in {"created", "item added", "part added", "text delta", "text done", "part done", "item done",
                  "completed", "incomplete"} : Frame(kind, text, usage) \in Frames
  BY <1>2 DEF Frame, Frames
<1> QED
  BY <1>1, <1>3, <1>4, <1>5

LEMMA ReadEventType ==
  ASSUME NEW event \in Events
  PROVE  ReadEvent(event) \in Readings
<1> DEFINE payload == PayloadOf(event)
<1>1. payload[2] \in Nat
  BY PayloadType, TokenFields
<1> HIDE DEF payload
<1>2. /\ <<payload[2]>> \in Seq(Nat) /\ <<>> \in Seq(Nat) /\ <<>> \in Seq(ToolDeltas)
      /\ NoUsage \in Usages /\ UsageOf(payload[2]) \in Usages
      /\ "none" \in Finishes /\ "stop" \in Finishes /\ "length" \in Finishes
  <2>1. 2 * payload[2] \in Nat /\ 5 * payload[2] \in Nat
    BY <1>1
  <2>2. UsageOf(payload[2]) \in Usages
    BY <2>1, FrameTypes DEF UsageOf
  <2>3. <<payload[2]>> \in Seq(Nat) /\ <<>> \in Seq(Nat) /\ <<>> \in Seq(ToolDeltas)
    BY <1>1
  <2> QED
    BY <2>2, <2>3, FrameTypes DEF Finishes
<1>3. ReadEvent(event) \in
        {Reading("done"), Reading("failure"), Chunk(<<payload[2]>>, <<>>, "none", NoUsage),
         Chunk(<<>>, <<>>, "stop", NoUsage), Chunk(<<>>, <<>>, "length", NoUsage),
         Chunk(<<>>, <<>>, "none", UsageOf(payload[2])), Chunk(<<>>, <<>>, "none", NoUsage)}
  BY DEF ReadEvent, payload, Done
<1> QED
  BY <1>2, <1>3, FrameTypes

-----------------------------------------------------------------------------
(* The adapter and the parser.                                             *)

LEMMA AdapterFields ==
  ASSUME NEW a \in Adapters
  PROVE  /\ a.state \in {"reading", "stopped", "failed", "closed"}
         /\ a.input \in Nat /\ a.output \in Nat /\ a.finish \in Finishes
         /\ a.ordinals \in Ordinals /\ IsFiniteSet(DOMAIN a.ordinals)
         /\ a.out \in Seq(Readings)
         /\ a \in [state : {"reading", "stopped", "failed", "closed"}, input : Nat, output : Nat,
                   finish : Finishes, ordinals : Ordinals, out : Seq(Readings)]
BY DEF Adapters

\* What reaches the loop by Emit.
LEMMA EmitType ==
  ASSUME NEW a \in Adapters, NEW chunk \in Readings
  PROVE  /\ Emit(a, chunk) \in Adapters
         /\ Emit(a, chunk) = [a EXCEPT !.out = Append(a.out, chunk)]
<1>1. Append(a.out, chunk) \in Seq(Readings)
  BY AdapterFields
<1>2. Emit(a, chunk) = [a EXCEPT !.out = Append(a.out, chunk)]
  BY AdapterFields DEF Emit
<1> DEFINE out == Append(a.out, chunk)
<1> HIDE DEF out
<1>3. [a EXCEPT !.out = out] \in Adapters
  BY <1>1 DEF Adapters, out
<1> QED
  BY <1>2, <1>3 DEF out

LEMMA PlaceType ==
  ASSUME NEW a \in Adapters, NEW block
  PROVE  Place(a, block) \in Nat
BY DEF Adapters, Ordinals, Place

\* A function that has a value more.
Extended(f, x, y) == [z \in DOMAIN f \cup {x} |-> IF z = x THEN y ELSE f[z]]

\* The tool call of a block that begins gets the next place.
LEMMA OrdinalsType ==
  ASSUME NEW ordinals \in Ordinals, IsFiniteSet(DOMAIN ordinals), NEW block \in Nat
  PROVE  LET more == Extended(ordinals, block, Cardinality(DOMAIN ordinals))
         IN  /\ more \in Ordinals
             /\ DOMAIN more = DOMAIN ordinals \cup {block}
             /\ IsFiniteSet(DOMAIN more)
             /\ more[block] = Cardinality(DOMAIN ordinals)
             /\ \A other \in DOMAIN ordinals \ {block} : more[other] = ordinals[other]
<1> DEFINE place == Cardinality(DOMAIN ordinals)
           more == Extended(ordinals, block, place)
<1>1. place \in Nat
  BY FS_CardinalityType
<1>2. PICK blocks \in SUBSET Nat : ordinals \in [blocks -> Nat]
  BY DEF Ordinals
<1> HIDE DEF place
<1>3. more = [x \in DOMAIN ordinals \cup {block} |-> IF x = block THEN place ELSE ordinals[x]]
  BY DEF Extended
<1> HIDE DEF more
<1>4. more \in [blocks \cup {block} -> Nat] /\ blocks \cup {block} \in SUBSET Nat
  BY <1>1, <1>2, <1>3
<1>5. IsFiniteSet(DOMAIN ordinals \cup {block})
  BY FS_AddElement
<1>6. more[block] = place /\ \A other \in DOMAIN ordinals \ {block} : more[other] = ordinals[other]
  BY <1>3
<1> QED
  BY <1>3, <1>4, <1>5, <1>6 DEF Ordinals, more, place

LEMMA ToolChunk ==
  ASSUME NEW place \in Nat, NEW block \in Nat, NEW args \in BOOLEAN
  PROVE  Chunk(<<>>, ToolDelta(place, block, args), "none", NoUsage) \in Readings
<1>1. [place |-> place, block |-> block, args |-> args] \in ToolDeltas
  BY DEF ToolDeltas
<1>2. ToolDelta(place, block, args) \in Seq(ToolDeltas)
  BY <1>1 DEF ToolDelta
<1>3. <<>> \in Seq(Nat) /\ "none" \in Finishes
  BY DEF Finishes
<1> QED
  BY <1>2, <1>3, FrameTypes

LEMMA StartToolType ==
  ASSUME NEW a \in Adapters, NEW block \in Nat
  PROVE  LET place == Cardinality(DOMAIN a.ordinals)
         IN  /\ StartTool(a, block) \in Adapters
             /\ StartTool(a, block) =
                  [a EXCEPT !.ordinals = Extended(a.ordinals, block, place),
                            !.out = Append(a.out, Chunk(<<>>, ToolDelta(place, block, FALSE), "none", NoUsage))]
<1> DEFINE place == Cardinality(DOMAIN a.ordinals)
           more == Extended(a.ordinals, block, place)
           known == [a EXCEPT !.ordinals = more]
           chunk == Chunk(<<>>, ToolDelta(place, block, FALSE), "none", NoUsage)
<1>1. /\ more \in Ordinals /\ IsFiniteSet(DOMAIN more) /\ more[block] = place /\ block \in DOMAIN more
  BY AdapterFields, OrdinalsType, ZenonT(30)
<1>2. place \in Nat
  BY AdapterFields, FS_CardinalityType
<1> HIDE DEF more, place
<1>3. known \in Adapters /\ known.ordinals = more /\ known.out = a.out
  BY <1>1 DEF Adapters
<1>4. Place(known, block) = place
  BY <1>1, <1>3 DEF Place
<1>5. chunk \in Readings
  BY <1>2, ToolChunk
<1>6. StartTool(a, block) = Emit(known, chunk)
  <2>1. known = [a EXCEPT !.ordinals =
                   [b \in DOMAIN @ \cup {block} |-> IF b = block THEN place ELSE @[b]]]
    BY AdapterFields DEF more, Extended
  <2> QED
    BY <1>4, <2>1 DEF StartTool, place
<1> HIDE DEF chunk
<1>7. Emit(known, chunk) \in Adapters /\ Emit(known, chunk) = [known EXCEPT !.out = Append(known.out, chunk)]
  BY <1>3, <1>5, EmitType
<1>8. [known EXCEPT !.out = Append(known.out, chunk)] = [a EXCEPT !.ordinals = more, !.out = Append(a.out, chunk)]
  BY <1>3, AdapterFields
<1> QED
  BY <1>6, <1>7, <1>8 DEF more, place, chunk

LEMMA ConcludeType ==
  ASSUME NEW a \in Adapters, NEW n \in Nat
  PROVE  LET finish == IF n = 2 THEN "length" ELSE "stop"
         IN  /\ Conclude(a, n) \in Adapters
             /\ Conclude(a, n) = [a EXCEPT !.finish = finish, !.output = 5 * n,
                                           !.out = Append(a.out, Chunk(<<>>, <<>>, finish, NoUsage))]
<1> DEFINE finish == IF n = 2 THEN "length" ELSE "stop"
           b == [a EXCEPT !.finish = finish, !.output = 5 * n]
           chunk == Chunk(<<>>, <<>>, finish, NoUsage)
<1>1. finish \in Finishes /\ 5 * n \in Nat
  BY DEF Finishes
<1>2. finish = IF n = 2 THEN FinishReason("max_tokens") ELSE FinishReason("end_turn")
  BY DEF FinishReason
<1> HIDE DEF finish
<1>3. b \in Adapters /\ b.out = a.out
  BY <1>1 DEF Adapters
<1>4. chunk \in Readings
  <2>1. <<>> \in Seq(Nat) /\ <<>> \in Seq(ToolDeltas) /\ NoUsage \in Usages
    BY EmptyTypes, FrameTypes
  <2> QED
    BY <1>1, <2>1, FrameTypes
<1>5. Conclude(a, n) = Emit(b, chunk)
  BY <1>2 DEF Conclude
<1> HIDE DEF chunk
<1>6. Emit(b, chunk) \in Adapters /\ Emit(b, chunk) = [b EXCEPT !.out = Append(b.out, chunk)]
  BY <1>3, <1>4, EmitType
<1>7. [b EXCEPT !.out = Append(b.out, chunk)] =
        [a EXCEPT !.finish = finish, !.output = 5 * n, !.out = Append(a.out, chunk)]
  BY <1>3, AdapterFields
<1> QED
  BY <1>5, <1>6, <1>7 DEF finish, chunk

(***************************************************************************)
(* Every way in which an event changes the adapter.                        *)
(***************************************************************************)
LEMMA AdaptCases ==
  ASSUME NEW a \in Adapters, NEW event \in Events
  PROVE  LET payload == PayloadOf(event)
             kind == payload[1]
             n == payload[2]
             next == Adapt(a, event)
             Out(chunk) == Append(a.out, chunk)
         IN  \/ (a.state # "reading" \/ payload = Garbled) /\ next = a
             \/ /\ a.state = "reading" /\ payload = Done
                /\ next = [a EXCEPT !.state = "stopped"]
             \/ /\ a.state = "reading" /\ payload # Done /\ payload # Garbled
                /\ \/ kind = "error" \/ event.event = "error"
                /\ next = [a EXCEPT !.state = "failed"]
             \/ /\ a.state = "reading" /\ payload # Done /\ payload # Garbled /\ event.event # "error"
                /\ \/ /\ kind = "message_start"
                      /\ next = [a EXCEPT !.input = 2 * n, !.out = Out(Chunk(<<>>, <<>>, "none", NoUsage))]
                   \/ /\ kind = "tool_start"
                      /\ next = StartTool(a, n)
                   \/ /\ kind = "text"
                      /\ next = [a EXCEPT !.out = Out(Chunk(<<n>>, <<>>, "none", NoUsage))]
                   \/ /\ kind = "args"
                      /\ next = [a EXCEPT !.out =
                                   Out(Chunk(<<>>, ToolDelta(Place(a, n), n, TRUE), "none", NoUsage))]
                   \/ /\ kind = "message_delta"
                      /\ next = Conclude(a, n)
                   \/ /\ kind \notin {"message_start", "tool_start", "text", "args", "message_delta"}
                      /\ next = a
<1> DEFINE payload == PayloadOf(event)
           kind == payload[1]
           n == payload[2]
<1>1. n \in Nat
  BY PayloadType, TokenFields
<1>2. CASE a.state # "reading" \/ payload = Garbled
  BY <1>2 DEF Adapt
<1>3. CASE a.state = "reading" /\ payload # Garbled /\ payload = Done
  BY <1>3 DEF Adapt
<1>4. CASE a.state = "reading" /\ payload # Garbled /\ payload # Done /\ (kind = "error" \/ event.event = "error")
  BY <1>4 DEF Adapt
<1>5. CASE a.state = "reading" /\ payload # Garbled /\ payload # Done /\ kind # "error" /\ event.event # "error"
  <2> DEFINE next == Adapt(a, event)
  <2>0. /\ Chunk(<<>>, <<>>, "none", NoUsage) \in Readings
        /\ Chunk(<<n>>, <<>>, "none", NoUsage) \in Readings
        /\ Chunk(<<>>, ToolDelta(Place(a, n), n, TRUE), "none", NoUsage) \in Readings
    <3>1. <<>> \in Seq(Nat) /\ <<n>> \in Seq(Nat) /\ "none" \in Finishes /\ <<>> \in Seq(ToolDeltas)
      BY <1>1 DEF Finishes
    <3>2. Chunk(<<>>, ToolDelta(Place(a, n), n, TRUE), "none", NoUsage) \in Readings
      BY <1>1, PlaceType, ToolChunk
    <3> QED
      BY <3>1, <3>2, FrameTypes
  <2>1. CASE kind = "message_start"
    <3> DEFINE b == [a EXCEPT !.input = 2 * n]
               chunk == Chunk(<<>>, <<>>, "none", NoUsage)
    <3>1. next = Emit(b, chunk)
      BY <1>5, <2>1 DEF Adapt
    <3>2. b \in Adapters /\ b.out = a.out
      <4>1. 2 * n \in Nat
        BY <1>1
      <4> QED
        BY <4>1 DEF Adapters
    <3>3. Emit(b, chunk) = [b EXCEPT !.out = Append(b.out, chunk)]
      BY <2>0, <3>2, EmitType
    <3> HIDE DEF chunk
    <3>4. [b EXCEPT !.out = Append(b.out, chunk)] = [a EXCEPT !.input = 2 * n, !.out = Append(a.out, chunk)]
      BY <3>2, AdapterFields
    <3> QED
      BY <1>5, <2>1, <3>1, <3>3, <3>4 DEF chunk
  <2>2. CASE kind = "tool_start"
    <3>1. next = StartTool(a, n)
      BY <1>5, <2>2 DEF Adapt
    <3> QED
      BY <1>5, <2>2, <3>1
  <2>3. CASE kind = "text"
    <3>1. next = Emit(a, Chunk(<<n>>, <<>>, "none", NoUsage))
      BY <1>5, <2>3 DEF Adapt
    <3>2. next = [a EXCEPT !.out = Append(a.out, Chunk(<<n>>, <<>>, "none", NoUsage))]
      BY <2>0, <3>1, EmitType
    <3> QED
      BY <1>5, <2>3, <3>2
  <2>4. CASE kind = "args"
    <3>1. next = Emit(a, Chunk(<<>>, ToolDelta(Place(a, n), n, TRUE), "none", NoUsage))
      BY <1>5, <2>4 DEF Adapt
    <3>2. next = [a EXCEPT !.out = Append(a.out, Chunk(<<>>, ToolDelta(Place(a, n), n, TRUE), "none", NoUsage))]
      BY <2>0, <3>1, EmitType
    <3> QED
      BY <1>5, <2>4, <3>2
  <2>5. CASE kind = "message_delta"
    <3>1. next = Conclude(a, n)
      BY <1>5, <2>5 DEF Adapt
    <3> QED
      BY <1>5, <2>5, <3>1
  <2>6. CASE kind \notin {"message_start", "tool_start", "text", "args", "message_delta"}
    <3>1. next = a
      BY <1>5, <2>6 DEF Adapt
    <3> QED
      BY <1>5, <2>6, <3>1
  <2> QED
    BY <2>1, <2>2, <2>3, <2>4, <2>5, <2>6
<1> QED
  BY <1>2, <1>3, <1>4, <1>5

LEMMA AdaptType ==
  ASSUME NEW a \in Adapters, NEW event \in Events
  PROVE  Adapt(a, event) \in Adapters
<1> DEFINE payload == PayloadOf(event)
           n == payload[2]
           next == Adapt(a, event)
<1>1. n \in Nat
  BY PayloadType, TokenFields
<1>2. StartTool(a, n) \in Adapters /\ Conclude(a, n) \in Adapters
  BY <1>1, StartToolType, ConcludeType
<1>3. \A state \in {"stopped", "failed"} : [a EXCEPT !.state = state] \in Adapters
  BY DEF Adapters
<1>4. \A chunk \in Readings : [a EXCEPT !.out = Append(a.out, chunk)] \in Adapters
  BY EmitType
<1>5. \A chunk \in Readings : [a EXCEPT !.input = 2 * n, !.out = Append(a.out, chunk)] \in Adapters
  <2> SUFFICES ASSUME NEW chunk \in Readings
               PROVE  [a EXCEPT !.input = 2 * n, !.out = Append(a.out, chunk)] \in Adapters
    OBVIOUS
  <2>1. [a EXCEPT !.out = Append(a.out, chunk)] \in Adapters
    BY EmitType
  <2> DEFINE out == Append(a.out, chunk)
  <2> HIDE DEF out
  <2>2. 2 * n \in Nat /\ out \in Seq(Readings)
    BY <1>1, AdapterFields DEF out
  <2> QED
    BY <2>2 DEF Adapters, out
<1>6. /\ Chunk(<<>>, <<>>, "none", NoUsage) \in Readings
      /\ Chunk(<<n>>, <<>>, "none", NoUsage) \in Readings
      /\ Chunk(<<>>, ToolDelta(Place(a, n), n, TRUE), "none", NoUsage) \in Readings
  <2>1. <<>> \in Seq(Nat) /\ <<n>> \in Seq(Nat) /\ "none" \in Finishes /\ <<>> \in Seq(ToolDeltas)
    BY <1>1 DEF Finishes
  <2>2. Chunk(<<>>, ToolDelta(Place(a, n), n, TRUE), "none", NoUsage) \in Readings
    BY <1>1, PlaceType, ToolChunk
  <2> QED
    BY <2>1, <2>2, FrameTypes
<1> HIDE DEF next, n, payload
<1>7. \/ next \in {a, StartTool(a, n), Conclude(a, n)}
      \/ \E state \in {"stopped", "failed"} : next = [a EXCEPT !.state = state]
      \/ \E chunk \in Readings :
           next \in {[a EXCEPT !.out = Append(a.out, chunk)],
                     [a EXCEPT !.input = 2 * n, !.out = Append(a.out, chunk)]}
  BY <1>6, AdaptCases DEF next, n, payload
<1>8. next \in Adapters
  BY <1>2, <1>3, <1>4, <1>5, <1>7
<1> QED
  BY <1>8 DEF next

\* The adapter after every event: a chain of steps.
LEMMA AdaptChain ==
  ASSUME NEW a \in Adapters, NEW events \in Seq(Events)
  PROVE  \E g \in [0..Len(events) -> Adapters] :
            /\ g[0] = [a EXCEPT !.out = <<>>]
            /\ \A n \in 1..Len(events) : g[n] = Adapt(g[n - 1], events[n])
            /\ AdaptAll(a, events) = g[Len(events)]
<1> DEFINE N == Len(events)
           b == [a EXCEPT !.out = <<>>]
           F == [n \in 1..N |-> [x \in Adapters |-> Adapt(x, events[n])]]
           p == CHOOSE p : p = [n \in 0..N |-> IF n = 0 THEN b ELSE Adapt(p[n - 1], events[n])]
<1>1. N \in Nat /\ \A n \in 1..N : events[n] \in Events
  BY ElementOfSeq
<1>2. b \in Adapters
  <2>1. <<>> \in Seq(Readings)
    OBVIOUS
  <2> QED
    BY <2>1 DEF Adapters
<1> HIDE DEF N, b
<1>3. F \in [1..N -> [Adapters -> Adapters]]
  BY <1>1, AdaptType
<1>4. PICK g : g \in Chains(Adapters, N, b, F)
  <2> HIDE DEF F
  <2>1. Chains(Adapters, N, b, F) # {}
    BY <1>1, <1>2, <1>3, Recursion
  <2> QED
    BY <2>1
<1>5. g \in [0..N -> Adapters] /\ g[0] = b /\ \A n \in 1..N : g[n] = F[n][g[n - 1]]
  <2> HIDE DEF F
  <2> QED
    BY <1>4 DEF Chains
<1>6. ASSUME NEW n \in 1..N PROVE g[n] = Adapt(g[n - 1], events[n]) /\ n - 1 \in 0..N
  <2>1. n - 1 \in 0..N
    BY <1>1
  <2>2. g[n - 1] \in Adapters
    BY <1>5, <2>1
  <2> QED
    BY <1>5, <2>1, <2>2
<1> HIDE DEF F
<1>7. g = [n \in 0..N |-> IF n = 0 THEN b ELSE Adapt(g[n - 1], events[n])]
  <2>1. ASSUME NEW n \in 0..N, n # 0 PROVE g[n] = Adapt(g[n - 1], events[n])
    <3>1. n \in 1..N
      BY <1>1, <2>1
    <3> QED
      BY <1>6, <3>1
  <2> QED
    BY <1>5, <2>1
<1>8. p = [n \in 0..N |-> IF n = 0 THEN b ELSE Adapt(p[n - 1], events[n])]
  BY <1>7
<1>9. AdaptAll(a, events) = p[N]
  BY DEF AdaptAll, N, b, p
<1> HIDE DEF p
<1> DEFINE S == {n \in 0..N : p[n] = g[n]}
<1>10. 0 \in S
  BY <1>1, <1>5, <1>8
<1>11. \A n \in 0..N : n \in S /\ n < N => n + 1 \in S
  <2> SUFFICES ASSUME NEW n \in 0..N, n \in S, n < N PROVE n + 1 \in S
    OBVIOUS
  <2>1. n + 1 \in 1..N /\ n + 1 \in 0..N /\ n + 1 # 0 /\ (n + 1) - 1 = n
    BY <1>1
  <2>2. p[n + 1] = Adapt(p[n], events[n + 1])
    BY <1>8, <2>1
  <2>3. g[n + 1] = Adapt(g[n], events[n + 1])
    BY <1>6, <2>1
  <2> QED
    BY <2>1, <2>2, <2>3
<1>12. p[N] = g[N]
  <2> HIDE DEF S
  <2>1. 0..N \subseteq S
    BY <1>1, <1>10, <1>11, Induction
  <2>2. N \in 0..N
    BY <1>1
  <2> QED
    BY <2>1, <2>2 DEF S
<1> QED
  BY <1>5, <1>6, <1>9, <1>12 DEF N, b

LEMMA AdaptAllType ==
  ASSUME NEW a \in Adapters, NEW events \in Seq(Events)
  PROVE  AdaptAll(a, events) \in Adapters
<1>1. PICK g \in [0..Len(events) -> Adapters] : AdaptAll(a, events) = g[Len(events)]
  BY AdaptChain
<1> QED
  BY <1>1

LEMMA CloseType ==
  ASSUME NEW a \in Adapters
  PROVE  LET last == << Chunk(<<>>, <<>>, "none", Usage(a.input, a.output)), Reading("done") >>
         IN  /\ CloseAdapter(a) \in Adapters
             /\ CloseAdapter(a) = [a EXCEPT !.state = "closed", !.out = a.out \o last]
             /\ last \in Seq(Readings)
<1> DEFINE last == << Chunk(<<>>, <<>>, "none", Usage(a.input, a.output)), Reading("done") >>
<1>1. last \in Seq(Readings)
  <2>1. Usage(a.input, a.output) \in Usages /\ <<>> \in Seq(Nat) /\ <<>> \in Seq(ToolDeltas) /\ "none" \in Finishes
    BY AdapterFields, EmptyTypes, FrameTypes
  <2>2. Chunk(<<>>, <<>>, "none", Usage(a.input, a.output)) \in Readings /\ Reading("done") \in Readings
    BY <2>1, FrameTypes
  <2> QED
    BY <2>2
<1>2. CloseAdapter(a) = [a EXCEPT !.state = "closed", !.out = a.out \o last]
  BY AdapterFields DEF CloseAdapter
<1> HIDE DEF last
<1>3. a.out \o last \in Seq(Readings)
  BY <1>1, AdapterFields
<1> DEFINE out == a.out \o last
<1> HIDE DEF out
<1>4. [a EXCEPT !.state = "closed", !.out = out] \in Adapters
  BY <1>3 DEF Adapters, out
<1> QED
  BY <1>1, <1>2, <1>4 DEF out, last

\* What was read of a text so far.
Readers ==
  [line : Seq(Tokens), data : Seq(Seq(Tokens)), event : Words, events : Seq(Events), broken : BOOLEAN]

LEMMA DispatchType ==
  ASSUME NEW r \in Readers
  PROVE  Dispatch(r) \in Readers
<1>1. "message" \in Words /\ <<>> \in Seq(Seq(Tokens))
  BY TokenTypes
<1>2. r.data # <<>> => [event |-> r.event, data |-> r.data] \in Events
  BY DEF Readers, Events
<1>3. r.data # <<>> => Append(r.events, [event |-> r.event, data |-> r.data]) \in Seq(Events)
  BY <1>2 DEF Readers
<1> DEFINE more == IF r.data = <<>> THEN r.events ELSE Append(r.events, [event |-> r.event, data |-> r.data])
<1>4. more \in Seq(Events)
  BY <1>3 DEF Readers
<1>5. Dispatch(r) = [r EXCEPT !.events = more, !.event = "message", !.data = <<>>]
  BY DEF Dispatch, Readers
<1> HIDE DEF more
<1> QED
  BY <1>1, <1>4, <1>5 DEF Readers

LEMMA ConsumeLineType ==
  ASSUME NEW r \in Readers
  PROVE  ConsumeLine(r) \in Readers
<1> DEFINE line == r.line
           next == [r EXCEPT !.line = <<>>]
<1>1. next \in Readers /\ next.data = r.data /\ next.event = r.event
  <2>1. <<>> \in Seq(Tokens)
    OBVIOUS
  <2> QED
    BY <2>1 DEF Readers
<1>2. line \in Seq(Tokens) /\ r.data \in Seq(Seq(Tokens)) /\ r.event \in Words
  BY DEF Readers
<1> HIDE DEF line, next
<1>3. CASE TooLong(line)
  <2>1. ConsumeLine(r) = [next EXCEPT !.broken = TRUE]
    BY <1>3 DEF ConsumeLine, line, next
  <2> QED
    BY <1>1, <2>1 DEF Readers
<1>4. CASE ~TooLong(line) /\ line = <<>>
  <2>1. ConsumeLine(r) = Dispatch(next)
    BY <1>4 DEF ConsumeLine, line, next
  <2> QED
    BY <1>1, <2>1, DispatchType
<1>5. CASE ~TooLong(line) /\ line # <<>>
  <2> DEFINE data == IF Head(line) = DataField THEN Append(r.data, Tail(line)) ELSE r.data
             event == IF Head(line) # EventField THEN r.event
                      ELSE IF Len(line) = 1 THEN "message" ELSE line[2][1]
  <2>1. ConsumeLine(r) = [next EXCEPT !.data = IF Head(line) = DataField THEN Append(@, Tail(line)) ELSE @,
                                      !.event = IF Head(line) # EventField THEN @
                                                ELSE IF Len(line) = 1 THEN "message" ELSE line[2][1]]
    BY <1>5 DEF ConsumeLine, line, next
  <2>2. ConsumeLine(r) = [next EXCEPT !.data = data, !.event = event]
    BY <1>1, <2>1 DEF Readers
  <2>3. data \in Seq(Seq(Tokens))
    <3>1. Tail(line) \in Seq(Tokens)
      BY <1>2, <1>5
    <3> DEFINE rest == Tail(line)
    <3> HIDE DEF rest
    <3>2. Append(r.data, rest) \in Seq(Seq(Tokens))
      BY <1>2, <3>1 DEF rest
    <3> QED
      BY <1>2, <3>2 DEF rest
  <2>4. event \in Words
    <3>1. Len(line) # 1 => line[2] \in Tokens
      <4>1. Len(line) # 0 /\ Len(line) \in Nat
        BY <1>2, <1>5, EmptySeq
      <4>2. Len(line) # 1 => 2 \in 1..Len(line)
        <5> DEFINE m == Len(line)
        <5>1. m # 0 /\ m \in Nat
          BY <4>1
        <5> HIDE DEF m
        <5>2. m # 1 => 2 \in 1..m
          BY ONLY <5>1
        <5> QED
          BY <5>2 DEF m
      <4> QED
        BY <1>2, <4>2
    <3>2. Len(line) # 1 => line[2][1] \in Words
      BY <3>1, TokenFields
    <3> QED
      BY <1>2, <3>2, TokenTypes
  <2> HIDE DEF data, event
  <2> QED
    BY <1>1, <2>2, <2>3, <2>4 DEF Readers
<1> QED
  BY <1>3, <1>4, <1>5

LEMMA AdvanceType ==
  ASSUME NEW r \in Readers, NEW token \in Tokens, NEW ends
  PROVE  Advance(r, token, ends) \in Readers
<1>1. Append(r.line, token) \in Seq(Tokens)
  BY DEF Readers
<1>2. [r EXCEPT !.line = Append(@, token)] \in Readers
  <2>1. [r EXCEPT !.line = Append(@, token)] = [r EXCEPT !.line = Append(r.line, token)]
    BY DEF Readers
  <2> DEFINE line == Append(r.line, token)
  <2> HIDE DEF line
  <2>2. [r EXCEPT !.line = line] \in Readers
    BY <1>1 DEF Readers, line
  <2> QED
    BY <2>1, <2>2 DEF line
<1> QED
  BY <1>2, ConsumeLineType DEF Advance

LEMMA ScanChain ==
  ASSUME NEW q \in Parsers, NEW text \in Seq(Tokens), NEW final \in BOOLEAN
  PROVE  \E g \in [0..Len(text) -> Readers] :
            /\ g[0] = [line |-> <<>>, data |-> q.data, event |-> q.event, events |-> <<>>, broken |-> FALSE]
            /\ \A n \in 1..Len(text) : g[n] = Advance(g[n - 1], text[n], n \in LineEnds(text, final))
            /\ Scan(q, text, final) = g[Len(text)]
<1> DEFINE N == Len(text)
           ends == LineEnds(text, final)
           b == [line |-> <<>>, data |-> q.data, event |-> q.event, events |-> <<>>, broken |-> FALSE]
           F == [n \in 1..N |-> [x \in Readers |-> Advance(x, text[n], n \in ends)]]
           p == CHOOSE p : p = [n \in 0..N |-> IF n = 0 THEN b ELSE Advance(p[n - 1], text[n], n \in ends)]
<1>1. N \in Nat /\ \A n \in 1..N : text[n] \in Tokens
  BY ElementOfSeq
<1>2. b \in Readers
  <2>1. <<>> \in Seq(Tokens) /\ <<>> \in Seq(Events) /\ q.data \in Seq(Seq(Tokens)) /\ q.event \in Words
    BY DEF Parsers
  <2> QED
    BY <2>1 DEF Readers
<1> HIDE DEF N, b, ends
<1>3. F \in [1..N -> [Readers -> Readers]]
  <2>1. \A n \in 1..N, x \in Readers : Advance(x, text[n], n \in ends) \in Readers
    BY <1>1, AdvanceType
  <2> QED
    BY <2>1
<1>4. PICK g : g \in Chains(Readers, N, b, F)
  <2> HIDE DEF F
  <2>1. Chains(Readers, N, b, F) # {}
    BY <1>1, <1>2, <1>3, Recursion
  <2> QED
    BY <2>1
<1>5. g \in [0..N -> Readers] /\ g[0] = b /\ \A n \in 1..N : g[n] = F[n][g[n - 1]]
  <2> HIDE DEF F
  <2> QED
    BY <1>4 DEF Chains
<1>6. ASSUME NEW n \in 1..N PROVE g[n] = Advance(g[n - 1], text[n], n \in ends) /\ n - 1 \in 0..N
  <2>1. n - 1 \in 0..N
    BY <1>1
  <2>2. g[n - 1] \in Readers
    BY <1>5, <2>1
  <2> QED
    BY <1>5, <2>1, <2>2
<1> HIDE DEF F
<1>7. g = [n \in 0..N |-> IF n = 0 THEN b ELSE Advance(g[n - 1], text[n], n \in ends)]
  <2>1. ASSUME NEW n \in 0..N, n # 0 PROVE g[n] = Advance(g[n - 1], text[n], n \in ends)
    <3>1. n \in 1..N
      BY <1>1, <2>1
    <3> QED
      BY <1>6, <3>1
  <2> QED
    BY <1>5, <2>1
<1>8. p = [n \in 0..N |-> IF n = 0 THEN b ELSE Advance(p[n - 1], text[n], n \in ends)]
  BY <1>7
<1>9. Scan(q, text, final) = p[N]
  BY DEF Scan, N, b, p, ends
<1> HIDE DEF p
<1> DEFINE S == {n \in 0..N : p[n] = g[n]}
<1>10. 0 \in S
  BY <1>1, <1>5, <1>8
<1>11. \A n \in 0..N : n \in S /\ n < N => n + 1 \in S
  <2> SUFFICES ASSUME NEW n \in 0..N, n \in S, n < N PROVE n + 1 \in S
    OBVIOUS
  <2>1. n + 1 \in 1..N /\ n + 1 \in 0..N /\ n + 1 # 0 /\ (n + 1) - 1 = n
    BY <1>1
  <2>2. p[n + 1] = Advance(p[n], text[n + 1], n + 1 \in ends)
    BY <1>8, <2>1
  <2>3. g[n + 1] = Advance(g[n], text[n + 1], n + 1 \in ends)
    BY <1>6, <2>1
  <2> QED
    BY <2>1, <2>2, <2>3
<1>12. p[N] = g[N]
  <2> HIDE DEF S
  <2>1. 0..N \subseteq S
    BY <1>1, <1>10, <1>11, Induction
  <2>2. N \in 0..N
    BY <1>1
  <2> QED
    BY <2>1, <2>2 DEF S
<1> QED
  BY <1>5, <1>6, <1>9, <1>12 DEF N, b, ends

LEMMA FeedType ==
  ASSUME NEW q \in Parsers, NEW chunk \in Seq(Tokens), NEW final \in BOOLEAN
  PROVE  /\ Feed(q, chunk, final).parser \in Parsers
         /\ Feed(q, chunk, final).events \in Seq(Events)
         /\ Feed(q, chunk, final).parser.broken => Feed(q, chunk, final).events = <<>>
<1> DEFINE text == q.buffer \o StripBom(q, chunk)
           read == Scan(q, text, final)
           kept == [buffer |-> read.line \o Pending(text, final), data |-> read.data, event |-> read.event,
                    fresh |-> q.fresh /\ chunk = <<>>, broken |-> FALSE]
<1>1. text \in Seq(Tokens)
  <2>1. StripBom(q, chunk) \in Seq(Tokens)
    BY DEF StripBom
  <2> QED
    BY <2>1 DEF Parsers
<1> HIDE DEF text
<1>2. read \in Readers
  <2>1. PICK g \in [0..Len(text) -> Readers] : Scan(q, text, final) = g[Len(text)]
    BY <1>1, ScanChain
  <2>2. Len(text) \in 0..Len(text)
    BY <1>1
  <2> QED
    BY <2>1, <2>2
<1> HIDE DEF read
<1>3. kept \in Parsers /\ kept.broken = FALSE
  <2>1. Pending(text, final) \in Seq(Tokens)
    BY TokenTypes DEF Pending
  <2>2. read.line \o Pending(text, final) \in Seq(Tokens)
    BY <1>2, <2>1 DEF Readers
  <2>3. (q.fresh /\ chunk = <<>>) \in BOOLEAN
    OBVIOUS
  <2> QED
    BY <1>2, <2>2, <2>3 DEF Parsers, Readers
<1> HIDE DEF kept
<1>4. NewParser \in Parsers /\ NewParser.broken = FALSE /\ [NewParser EXCEPT !.broken = TRUE] \in Parsers
  <2>1. "message" \in Words /\ <<>> \in Seq(Tokens) /\ <<>> \in Seq(Seq(Tokens))
    BY TokenTypes
  <2> QED
    BY <2>1 DEF NewParser, Parsers
<1>5. read.events \in Seq(Events) /\ <<>> \in Seq(Events)
  BY <1>2 DEF Readers
<1>6. Feed(q, chunk, final) =
        IF read.broken \/ TooLong(kept.buffer)
        THEN [parser |-> [NewParser EXCEPT !.broken = TRUE], events |-> <<>>]
        ELSE [parser |-> IF final THEN NewParser ELSE kept, events |-> read.events]
  BY DEF Feed, read, kept, text
<1> QED
  BY <1>3, <1>4, <1>5, <1>6

-----------------------------------------------------------------------------
(* Charges.                                                                *)

\* What a provider reported of an answer, if anything.
LEMMA AnswerType ==
  ASSUME NEW answer \in Answers, NEW style \in {"openai-compatible", "anthropic-messages", "cloudflare-rest"},
         NEW endpoint
  PROVE  LET result == NormalizeAnswer(style, endpoint, answer)
         IN  result.text \in Seq(Nat) /\ result.usage \in Usages /\ result.ok \in BOOLEAN
<1> DEFINE Fine(result) == result.text \in Seq(Nat) /\ result.usage \in Usages /\ result.ok \in BOOLEAN
<1>1. /\ answer.text \in Seq(Nat) /\ answer.usage.known \in BOOLEAN
      /\ answer.usage.prompt \in Nat /\ answer.usage.completion \in Nat
  BY AnswersAssumption
<1>2. NormalizeUsage(answer.usage) \in Usages /\ NoUsage \in Usages /\ Usage(answer.usage.prompt, 0) \in Usages
      /\ <<>> \in Seq(Nat)
  BY <1>1, FrameTypes, EmptyTypes DEF NormalizeUsage
<1>3. \A text \in Seq(Nat), usage \in Usages : \A finish : Fine(Completion(text, finish, usage))
  BY DEF Completion
<1>4. Fine(InvalidAnswer)
  BY <1>2 DEF InvalidAnswer
<1> HIDE DEF Fine
<1>5. Fine(NormalizeOpenAi(answer)) /\ Fine(NormalizeAnthropic(answer))
  BY <1>1, <1>2, <1>3, <1>4 DEF NormalizeOpenAi, NormalizeAnthropic
<1>6. Fine(NormalizeCloudflare(answer))
  BY <1>1, <1>2, <1>3, <1>4, <1>5 DEF NormalizeCloudflare
<1>7. Fine(NormalizeEmbeddings(answer))
  BY <1>1, <1>2, <1>3, <1>4 DEF NormalizeEmbeddings
<1>8. Fine(NormalizeAnswer(style, endpoint, answer))
  BY <1>5, <1>6, <1>7 DEF NormalizeAnswer
<1> QED
  BY <1>8 DEF Fine

\* An estimate is never more than what was reserved.
LEMMA EstimatedType ==
  ASSUME call.estimate \in Nat, call.limit \in Nat, NEW pieces \in Nat
  PROVE  /\ Estimated(pieces) \in Usages
         /\ Estimated(pieces).known
         /\ Estimated(pieces).prompt = call.estimate
         /\ Estimated(pieces).completion <= call.limit
<1> DEFINE told == IF call.endpoint = "embeddings" THEN 0 ELSE Smaller(EstimateTokens(pieces), call.limit)
<1>1. EstimateTokens(pieces) \in Nat
  <2> DEFINE c == pieces * CharsPerPiece
  <2>1. c \in Nat
    BY AnswersAssumption
  <2> HIDE DEF c
  <2>2. (c + (4 - 1)) \div 4 \in Nat
    BY <2>1
  <2> DEFINE d == (c + (4 - 1)) \div 4
  <2> HIDE DEF d
  <2>3. d + 8 \in Nat
    BY <2>2 DEF d
  <2> QED
    BY <2>3 DEF EstimateTokens, CeilDivide, c, d
<1>2. told \in Nat /\ told <= call.limit
  BY <1>1 DEF Smaller
<1>3. Estimated(pieces) = Usage(call.estimate, told)
  BY DEF Estimated
<1> HIDE DEF told
<1>4. Usage(call.estimate, told) \in Usages
  BY <1>2, FrameTypes
<1> QED
  BY <1>2, <1>3, <1>4 DEF Usage

\* The ways an answer ends a call that is no stream.
LEMMA AnswerCases ==
  ASSUME RequestInv, NEW answer \in Answers, AnswerBody(answer)
  PROVE  /\ stage = "sent" /\ ~call.stream /\ stage' = "over"
         /\ UNCHANGED <<gateway, call, sent, streamVars>>
         /\ \/ charge' = Marked /\ UNCHANGED <<frames, replay>>
            \/ \E source \in {"provider", "estimate"}, usage \in Usages, text \in Seq(Nat),
                  kind \in {"completed", "incomplete"} :
                 /\ usage = Usage(usage.prompt, usage.completion)
                 /\ source = "estimate" => usage.prompt = call.estimate /\ usage.completion <= call.limit
                 /\ charge' = Charge(source, usage)
                 /\ frames' = <<Frame(kind, text, usage)>>
                 /\ replay' \in {<<>>, frames'}
<1> DEFINE result == NormalizeAnswer(sent.style, call.endpoint, answer)
           source == IF result.usage.known THEN "provider" ELSE "estimate"
           usage == IF result.usage.known THEN result.usage ELSE Estimated(Len(result.text))
           kind == IF call.endpoint = "responses" /\ result.finish = "length" THEN "incomplete" ELSE "completed"
           body == Frame(kind, result.text, usage)
<1>1. /\ stage = "sent" /\ ~call.stream /\ stage' = "over"
      /\ UNCHANGED <<gateway, call, sent, streamVars>>
      /\ \/ charge' = Marked /\ UNCHANGED <<frames, replay>>
         \/ /\ charge' = Charge(source, usage)
            /\ frames' = <<body>>
            /\ replay' \in {<<>>, <<body>>}
  BY DEF AnswerBody
<1>2. GoodCall(gateway.bundle, call) /\ BundleValid(gateway.bundle) /\ sent # Unsent
  BY <1>1 DEF RequestInv
<1>3. sent.style \in {"openai-compatible", "anthropic-messages", "cloudflare-rest"}
  <2>1. PICK route \in CandidateRoutes(CallModel) : sent = UpstreamRequest(route, gateway.bundle.pools, call.body)
    BY <1>2 DEF RequestInv
  <2>2. route.pool \in DOMAIN gateway.bundle.pools
    BY <1>2, RoutesAreServed DEF GoodCall, CallModel
  <2> DEFINE bundle == gateway.bundle
             request == call.body
  <2>3. BundleValid(bundle) /\ route.pool \in DOMAIN bundle.pools /\ sent = UpstreamRequest(route, bundle.pools, request)
    BY <1>2, <2>1, <2>2
  <2> HIDE DEF bundle, request
  <2> QED
    BY <2>3, UnsentStyle
<1>4. result.text \in Seq(Nat) /\ result.usage \in Usages
  BY <1>3, AnswerType
<1> HIDE DEF result
<1>5. call.estimate \in Nat /\ call.limit \in Nat /\ Len(result.text) \in Nat
  BY <1>2, <1>4 DEF GoodCall
<1>6. usage \in Usages /\ usage.known
  BY <1>4, <1>5, EstimatedType
<1>7. source = "estimate" => usage.prompt = call.estimate /\ usage.completion <= call.limit
  BY <1>5, EstimatedType
<1> HIDE DEF usage
<1>8. usage = Usage(usage.prompt, usage.completion)
  BY <1>6 DEF Usages, Usage
<1>9. source \in {"provider", "estimate"} /\ kind \in {"completed", "incomplete"}
  OBVIOUS
<1> HIDE DEF source, kind
<1> QED
  BY <1>1, <1>4, <1>6, <1>7, <1>8, <1>9

-----------------------------------------------------------------------------
(* Type correctness.                                                       *)

LEMMA TypeInit == PublicCallInit => PublicCallTypeOK
<1> SUFFICES ASSUME PublicCallInit PROVE PublicCallTypeOK
  OBVIOUS
<1> USE DEF PublicCallInit
<1>1. stream \in [text : Seq(Tokens), newline : NewLines, state : {"open", "ended", "broken", "read", "lost"},
                  splits : Nat]
  BY EmptyTypes DEF NewStream, NewLines
<1>2. parser \in Parsers
  <2>1. "message" \in Words
    BY TokenTypes
  <2> QED
    BY <2>1, EmptyTypes DEF NewParser, Parsers
<1>3. adapter \in Adapters
  <2>1. <<>> \in Ordinals
    <3>1. <<>> \in [{} -> Nat] /\ {} \in SUBSET Nat
      OBVIOUS
    <3> QED
      BY <3>1 DEF Ordinals
  <2>2. IsFiniteSet(DOMAIN <<>>)
    <3>1. DOMAIN <<>> = {}
      OBVIOUS
    <3> QED
      BY <3>1, FS_EmptySet
  <2> QED
    BY <2>1, <2>2, EmptyTypes DEF NewAdapter, Adapters
<1>4. PumpType /\ BridgeType /\ ChargeType
  BY EmptyTypes, FrameTypes DEF PumpType, BridgeType, Bridges, ChargeType, NewPump, NewBridge, Uncharged
<1> QED
  BY <1>1, <1>2, <1>3, <1>4, EmptyTypes DEF PublicCallTypeOK

\* What stays of the types if some variables stay.
LEMMA TypeParts ==
  ASSUME PublicCallTypeOK
  PROVE  /\ UNCHANGED <<stream, written>> => /\ (written \in Seq(Events))'
                                             /\ (stream \in [text : Seq(Tokens), newline : NewLines,
                                                   state : {"open", "ended", "broken", "read", "lost"}, splits : Nat])'
         /\ UNCHANGED <<parser, parsed, adapter>> => (parser \in Parsers /\ parsed \in Seq(Events) /\ adapter \in Adapters)'
         /\ UNCHANGED pump => PumpType'
         /\ UNCHANGED bridge => BridgeType'
         /\ UNCHANGED charge => ChargeType'
BY DEF PublicCallTypeOK, PumpType, BridgeType, ChargeType

LEMMA HearType ==
  ASSUME PublicCallTypeOK, NEW chunk \in Seq(Tokens), NEW final \in BOOLEAN, NEW rest, Hear(chunk, final, rest)
  PROVE  /\ parser' \in Parsers /\ parsed' \in Seq(Events) /\ adapter' \in Adapters
         /\ queue' \in Seq(Readings)
         /\ stream' = rest
         /\ UNCHANGED <<stage, gateway, call, sent, written, pump, bridge, frames, charge, replay>>
<1> DEFINE fed == Feed(parser, chunk, final)
           heard == AdaptAll(adapter, fed.events)
           over == final \/ heard.state = "stopped"
           next == IF fed.parser.broken THEN [heard EXCEPT !.state = "failed"]
                   ELSE IF over /\ heard.state # "failed" THEN CloseAdapter(heard) ELSE heard
           read == [i \in DOMAIN fed.events |-> ReadEvent(fed.events[i])]
<1>1. parser \in Parsers /\ parsed \in Seq(Events) /\ adapter \in Adapters
  BY DEF PublicCallTypeOK
<1>2. fed.parser \in Parsers /\ fed.events \in Seq(Events)
  BY <1>1, FeedType
<1>3. /\ parser' = fed.parser
      /\ parsed' = parsed \o fed.events
      /\ IF Anthropic
         THEN adapter' = [next EXCEPT !.out = <<>>] /\ queue' \in Handed(next)
         ELSE /\ adapter' = adapter
              /\ queue' = read \o (IF fed.parser.broken \/ final THEN <<Reading("failure")>> ELSE <<>>)
      /\ stream' = rest
      /\ UNCHANGED <<stage, gateway, call, sent, written, pump, bridge, frames, charge, replay>>
  BY DEF Hear, tellVars
<1> HIDE DEF fed
<1>4. heard \in Adapters
  BY <1>1, <1>2, AdaptAllType
<1> HIDE DEF heard
<1>5. next \in Adapters
  <2>1. [heard EXCEPT !.state = "failed"] \in Adapters
    BY <1>4 DEF Adapters
  <2> QED
    BY <1>4, <2>1, CloseType
<1> HIDE DEF next
<1>6. [next EXCEPT !.out = <<>>] \in Adapters
  BY <1>5, EmptyTypes DEF Adapters
<1>7. Handed(next) \subseteq Seq(Readings)
  <2>1. next.out \in Seq(Readings) /\ Len(next.out) \in Nat
    BY <1>5, AdapterFields
  <2>2. Reading("failure") \in Readings
    BY FrameTypes
  <2>3. ASSUME NEW n \in 0..Len(next.out)
        PROVE  SubSeq(next.out, 1, n) \o <<Reading("failure")>> \in Seq(Readings)
    <3>1. SubSeq(next.out, 1, n) \in Seq(Readings)
      BY <2>1
    <3> QED
      BY <2>2, <3>1
  <2> QED
    BY <2>1, <2>3 DEF Handed
<1>8. read \in Seq(Readings)
  <2> DEFINE events == fed.events
  <2> HIDE DEF events
  <2>1. events \in Seq(Events) /\ Len(events) \in Nat /\ DOMAIN events = 1..Len(events)
    BY <1>2 DEF events
  <2>2. read = [i \in 1..Len(events) |-> ReadEvent(events[i])]
    BY <2>1 DEF events
  <2>3. \A i \in 1..Len(events) : ReadEvent(events[i]) \in Readings
    BY <2>1, ReadEventType
  <2> HIDE DEF read
  <2>4. read \in [1..Len(events) -> Readings]
    BY <2>2, <2>3
  <2> QED
    BY <2>1, <2>4
<1> HIDE DEF read
<1>9. queue' \in Seq(Readings)
  <2>1. read \o <<Reading("failure")>> \in Seq(Readings) /\ read \o <<>> \in Seq(Readings)
    <3>1. Reading("failure") \in Readings
      BY FrameTypes
    <3> DEFINE r == Reading("failure")
               S == Readings
    <3>2. r \in S /\ read \in Seq(S)
      BY <1>8, <3>1
    <3> HIDE DEF r, S
    <3>3. read \o <<r>> \in Seq(S) /\ read \o <<>> \in Seq(S)
      BY <3>2
    <3> QED
      BY <3>3 DEF r, S
  <2> QED
    BY <1>3, <1>7, <2>1
<1>10. parsed \o fed.events \in Seq(Events)
  BY <1>1, <1>2
<1> QED
  BY <1>1, <1>2, <1>3, <1>6, <1>9, <1>10

\* What the endpoint makes of a chunk.
LEMMA ChunkTypes ==
  ASSUME NEW chunk \in Readings
  PROVE  /\ chunk.text \in Seq(Nat) /\ chunk.tools \in Seq(ToolDeltas) /\ chunk.finish \in Finishes
         /\ chunk.usage \in Usages
         /\ chunk.kind = "chunk" => chunk \in Frames
         /\ Pieces(chunk) \in Nat
<1>1. /\ chunk.text \in Seq(Nat) /\ chunk.tools \in Seq(ToolDeltas) /\ chunk.finish \in Finishes
      /\ chunk.usage \in Usages
      /\ chunk = [kind |-> chunk.kind, text |-> chunk.text, tools |-> chunk.tools, finish |-> chunk.finish,
                  usage |-> chunk.usage]
  BY DEF Readings
<1>2. chunk.kind = "chunk" => chunk \in Frames
  BY <1>1 DEF Frames
<1>3. Pieces(chunk) \in Nat
  <2> DEFINE tools == chunk.tools
             S == {i \in DOMAIN tools : tools[i].args}
             text == chunk.text
             n == Len(text)
             k == Cardinality(S)
  <2>1. Len(tools) \in Nat /\ DOMAIN tools = 1..Len(tools)
    BY <1>1
  <2>2. IsFiniteSet(1..Len(tools))
    <3>1. 1 \in Int /\ Len(tools) \in Int
      BY <2>1
    <3> QED
      BY <3>1, FS_Interval
  <2>3. IsFiniteSet(S)
    <3>1. S \subseteq 1..Len(tools)
      BY <2>1
    <3> HIDE DEF S
    <3> QED
      BY <2>2, <3>1, FS_Subset
  <2>4. k \in Nat
    <3> HIDE DEF S
    <3> QED
      BY <2>3, FS_CardinalityType
  <2>5. n \in Nat
    BY <1>1
  <2>6. Pieces(chunk) = n + k
    BY DEF Pieces
  <2> HIDE DEF n, k
  <2> QED
    BY <2>4, <2>5, <2>6
<1> QED
  BY <1>1, <1>2, <1>3

LEMMA OpeningType ==
  ASSUME NEW b
  PROVE  Opening(b) \in Seq(Frames)
<1> DEFINE x == Frame("created", <<>>, NoUsage)
           y == Frame("item added", <<>>, NoUsage)
           z == Frame("part added", <<>>, NoUsage)
<1>1. x \in Frames /\ y \in Frames /\ z \in Frames
  BY EmptyTypes, FrameTypes
<1>2. Opening(b) = IF b.started THEN <<>> ELSE <<x, y, z>>
  BY DEF Opening
<1> HIDE DEF x, y, z
<1>3. <<x, y, z>> \in Seq(Frames) /\ <<>> \in Seq(Frames)
  BY <1>1
<1> QED
  BY <1>2, <1>3

LEMMA BridgeTypes ==
  ASSUME NEW b \in Bridges, NEW chunk \in Readings
  PROVE  /\ Translate(b, chunk) \in Seq(Frames)
         /\ Bridged(b, chunk) \in Bridges
         /\ Finale(b) \in Seq(Frames)
<1>1. /\ chunk.text \in Seq(Nat) /\ chunk.finish \in Finishes /\ chunk.usage \in Usages
      /\ b.text \in Seq(Nat) /\ b.finish \in Finishes /\ b.usage \in Usages
  BY ChunkTypes DEF Bridges
<1>2. Translate(b, chunk) \in Seq(Frames)
  <2> DEFINE f == Frame("text delta", chunk.text, NoUsage)
             o == Opening(b)
  <2>1. f \in Frames
    BY <1>1, FrameTypes
  <2>2. o \in Seq(Frames)
    BY OpeningType
  <2>3. Translate(b, chunk) = o \o (IF chunk.text = <<>> THEN <<>> ELSE <<f>>)
    BY DEF Translate
  <2> HIDE DEF f, o
  <2>4. o \o <<>> \in Seq(Frames) /\ o \o <<f>> \in Seq(Frames)
    BY <2>1, <2>2
  <2> QED
    BY <2>3, <2>4
<1>3. Bridged(b, chunk) \in Bridges
  <2> DEFINE text == b.text \o chunk.text
             finish == IF chunk.finish = "none" THEN b.finish ELSE chunk.finish
             usage == IF chunk.usage.known THEN chunk.usage ELSE b.usage
  <2>1. text \in Seq(Nat)
    BY <1>1
  <2>2. finish \in Finishes /\ usage \in Usages
    BY <1>1
  <2>3. Bridged(b, chunk) = [started |-> TRUE, text |-> text, finish |-> finish, usage |-> usage]
    BY DEF Bridged
  <2> HIDE DEF text, finish, usage
  <2> QED
    BY <2>1, <2>2, <2>3 DEF Bridges
<1>4. Finale(b) \in Seq(Frames)
  <2> DEFINE o == Opening(b)
             x == Frame("text done", b.text, NoUsage)
             y == Frame("part done", b.text, NoUsage)
             z == Frame("item done", b.text, NoUsage)
             e == Frame(IF b.finish = "length" THEN "incomplete" ELSE "completed", b.text, b.usage)
  <2>1. x \in Frames /\ y \in Frames /\ z \in Frames
    BY <1>1, FrameTypes
  <2>2. e \in Frames
    BY <1>1, FrameTypes
  <2>3. o \in Seq(Frames)
    BY OpeningType
  <2>4. Finale(b) = o \o <<x, y, z, e>>
    BY DEF Finale
  <2> HIDE DEF o, x, y, z, e
  <2> QED
    BY <2>1, <2>2, <2>3, <2>4
<1> QED
  BY <1>2, <1>3, <1>4

LEMMA LastFramesType ==
  ASSUME PublicCallTypeOK
  PROVE  /\ LastFrames \in Seq(Frames)
         /\ frames \o LastFrames \in Seq(Frames)
         /\ frames \o <<Reading("error")>> \in Seq(Frames)
<1>1. LastFrames \in Seq(Frames)
  <2>1. <<Reading("done")>> \in Seq(Frames)
    <3> DEFINE r == Reading("done")
    <3>1. r \in Frames
      BY FrameTypes
    <3> HIDE DEF r
    <3>2. <<r>> \in Seq(Frames)
      BY <3>1
    <3> QED
      BY <3>2 DEF r
  <2>2. Reading("done") \in Readings /\ bridge \in Bridges
    BY FrameTypes DEF PublicCallTypeOK, BridgeType
  <2>3. Finale(bridge) \in Seq(Frames)
    BY <2>2, BridgeTypes
  <2> QED
    BY <2>1, <2>3 DEF LastFrames
<1>2. frames \in Seq(Frames)
  BY DEF PublicCallTypeOK
<1>3. frames \o <<Reading("error")>> \in Seq(Frames)
  <2> DEFINE r == Reading("error")
  <2>1. r \in Frames
    BY FrameTypes
  <2> HIDE DEF r
  <2>2. frames \o <<r>> \in Seq(Frames)
    BY <1>2, <2>1
  <2> QED
    BY <2>2 DEF r
<1>4. frames \o LastFrames \in Seq(Frames)
  <2> DEFINE t == LastFrames
  <2> HIDE DEF t
  <2>1. t \in Seq(Frames)
    BY <1>1 DEF t
  <2>2. frames \o t \in Seq(Frames)
    BY <1>2, <2>1
  <2> QED
    BY <2>2 DEF t
<1> QED
  BY <1>1, <1>3, <1>4

LEMMA ChargeTypes ==
  ASSUME NEW usage \in Usages, NEW source \in {"provider", "estimate"}
  PROVE  /\ Charge(source, usage) \in
              [state : {"none", "marked", "refunded", "settled"}, source : {"none", "provider", "estimate"},
               input : Nat, output : Nat]
         /\ Charge(source, usage).state = "settled" /\ Charge(source, usage).source = source
         /\ Charge(source, usage).input = usage.prompt /\ Charge(source, usage).output = usage.completion
BY DEF Charge, Usages

\* The types that a step of the provider or of the loop may disturb.
LEMMA TypeStep ==
  ASSUME PublicCallTypeOK, ControlInv, RequestInv, [PublicCallNext]_vars
  PROVE  PublicCallTypeOK'
<1>0. /\ stage \in {"starting", "refused", "listening", "rejected", "reserved", "sent", "streaming", "over"}
      /\ gateway \in [bundle : Bundles, key : Keys]
      /\ stream \in [text : Seq(Tokens), newline : NewLines, state : {"open", "ended", "broken", "read", "lost"},
                     splits : Nat]
      /\ written \in Seq(Events) /\ parser \in Parsers /\ parsed \in Seq(Events) /\ adapter \in Adapters
      /\ queue \in Seq(Readings) /\ frames \in Seq(Frames) /\ replay \in Seq(Frames)
      /\ pump \in [state : {"reading", "finalizing", "closing", "failing", "over"}, received : Usages,
                   pieces : Nat, terminal : {"none", "finalize", "fail"}, cancelled : BOOLEAN]
      /\ bridge \in Bridges
      /\ charge \in [state : {"none", "marked", "refunded", "settled"}, source : {"none", "provider", "estimate"},
                     input : Nat, output : Nat]
  BY DEF PublicCallTypeOK, PumpType, BridgeType, ChargeType
<1>0a. /\ Marked \in [state : {"none", "marked", "refunded", "settled"}, source : {"none", "provider", "estimate"},
                      input : Nat, output : Nat]
       /\ Refunded \in [state : {"none", "marked", "refunded", "settled"},
                        source : {"none", "provider", "estimate"}, input : Nat, output : Nat]
  BY DEF Marked, Refunded, Uncharged
<1> USE DEF PumpType, BridgeType, ChargeType
<1>1. CASE Start
  BY <1>0, <1>1 DEF Start, streamVars, tellVars, PublicCallTypeOK
<1>2. CASE \E body \in Bodies : Receive(body)
  BY <1>0, <1>2 DEF Receive, streamVars, tellVars, PublicCallTypeOK
<1>3. CASE stage = "reserved" /\ \E route \in CandidateRoutes(CallModel) : Send(route)
  BY <1>0, <1>0a, <1>3 DEF Send, streamVars, PublicCallTypeOK
<1>4. CASE \E answer \in Answers : AnswerBody(answer)
  <2>1. PICK answer \in Answers : AnswerBody(answer)
    BY <1>4
  <2>2. /\ UNCHANGED <<gateway, call, sent, streamVars>> /\ stage' = "over"
        /\ \/ charge' = Marked /\ UNCHANGED <<frames, replay>>
           \/ \E source \in {"provider", "estimate"}, usage \in Usages, text \in Seq(Nat),
                 kind \in {"completed", "incomplete"} :
                /\ charge' = Charge(source, usage)
                /\ frames' = <<Frame(kind, text, usage)>>
                /\ replay' \in {<<>>, frames'}
    BY <2>1, AnswerCases
  <2>3. CASE charge' = Marked /\ UNCHANGED <<frames, replay>>
    BY <1>0, <1>0a, <2>2, <2>3 DEF streamVars, PublicCallTypeOK
  <2>4. ASSUME NEW source \in {"provider", "estimate"}, NEW usage \in Usages, NEW text \in Seq(Nat),
               NEW kind \in {"completed", "incomplete"},
               charge' = Charge(source, usage), frames' = <<Frame(kind, text, usage)>>,
               replay' \in {<<>>, frames'}
        PROVE  PublicCallTypeOK'
    <3>1. frames' \in Seq(Frames) /\ replay' \in Seq(Frames)
      <4> DEFINE f == Frame(kind, text, usage)
      <4>1. f \in Frames
        BY FrameTypes
      <4> HIDE DEF f
      <4>2. <<f>> \in Seq(Frames) /\ <<>> \in Seq(Frames)
        BY <4>1
      <4> QED
        BY <2>4, <4>2 DEF f
    <3>2. ChargeType'
      BY <2>4, ChargeTypes
    <3> QED
      BY <1>0, <2>2, <3>1, <3>2 DEF streamVars, PublicCallTypeOK
  <2> QED
    BY <2>2, <2>3, <2>4
<1>5. CASE \E beginning \in Beginnings : OpenStream(beginning[1], beginning[2])
  <2>1. PICK beginning \in Beginnings : OpenStream(beginning[1], beginning[2])
    BY <1>5
  <2>2. beginning[1] \in NewLines /\ beginning[2] \in Seq(Tokens)
    <3>1. beginning \in NewLines \X {<<>>, <<BOM>>}
      BY StreamsAssumption
    <3>2. <<BOM>> \in Seq(Tokens) /\ <<>> \in Seq(Tokens)
      BY TokenTypes
    <3> QED
      BY <3>1, <3>2
  <2>3. [stream EXCEPT !.newline = beginning[1], !.text = beginning[2]] \in
          [text : Seq(Tokens), newline : NewLines, state : {"open", "ended", "broken", "read", "lost"}, splits : Nat]
    BY <1>0, <2>2
  <2> QED
    BY <1>0, <2>1, <2>3 DEF OpenStream, tellVars, PublicCallTypeOK
<1>6. CASE /\ stage = "streaming"
           /\ \E event \in (IF Anthropic THEN AnthropicEvents ELSE OpenAiEvents) \cup {Ending} : Write(event)
  <2>1. PICK event \in (IF Anthropic THEN AnthropicEvents ELSE OpenAiEvents) \cup {Ending} : Write(event)
    BY <1>6
  <2>2. event \in Events
    BY AnthropicEventsType, OpenAiEventsType
  <2>3. TextOf(event) \in Seq(Tokens)
    BY <1>0, <2>2, TextType
  <2> DEFINE text == stream.text \o TextOf(event)
  <2>4. text \in Seq(Tokens)
    <3> DEFINE t == TextOf(event)
    <3> HIDE DEF t
    <3>1. t \in Seq(Tokens)
      BY <2>3 DEF t
    <3>2. stream.text \o t \in Seq(Tokens)
      BY <1>0, <3>1
    <3> QED
      BY <3>2 DEF t
  <2>5. stream' = [stream EXCEPT !.text = text] /\ written' = Append(written, event)
        /\ UNCHANGED <<stage, gateway, call, sent, parser, parsed, adapter, queue, pump, bridge, tellVars>>
    BY <1>0, <2>1 DEF Write
  <2> HIDE DEF text
  <2>6. (stream \in [text : Seq(Tokens), newline : NewLines, state : {"open", "ended", "broken", "read", "lost"},
                     splits : Nat])'
    BY <1>0, <2>4, <2>5
  <2>7. written' \in Seq(Events)
    BY <1>0, <2>2, <2>5
  <2> QED
    BY <1>0, <2>5, <2>6, <2>7 DEF tellVars, PublicCallTypeOK
<1>7. CASE \E partial \in {<<>>, <<DataField, Done>> \o stream.newline} : EndStream(partial)
  <2>1. PICK partial \in {<<>>, <<DataField, Done>> \o stream.newline} : EndStream(partial)
    BY <1>7
  <2>2. partial \in Seq(Tokens)
    <3> DEFINE d == <<DataField, Done>>
    <3>1. d \in Seq(Tokens)
      BY TokenTypes
    <3>2. stream.newline \in Seq(Tokens)
      <4>1. <<LF>> \in Seq(Tokens) /\ <<CR>> \in Seq(Tokens) /\ <<CR, LF>> \in Seq(Tokens)
        BY TokenTypes
      <4> QED
        BY <1>0, <4>1 DEF NewLines
    <3> HIDE DEF d
    <3>3. d \o stream.newline \in Seq(Tokens)
      BY <3>1, <3>2
    <3>4. <<>> \in Seq(Tokens)
      BY EmptyTypes
    <3> QED
      BY <2>1, <3>3, <3>4 DEF d
  <2> DEFINE text == stream.text \o partial
  <2>4. text \in Seq(Tokens)
    BY <1>0, <2>2
  <2>5. stream' = [stream EXCEPT !.text = text, !.state = "ended"]
        /\ UNCHANGED <<stage, gateway, call, sent, written, parser, parsed, adapter, queue, pump, bridge, tellVars>>
    BY <1>0, <2>1 DEF EndStream
  <2> HIDE DEF text
  <2>6. (stream \in [text : Seq(Tokens), newline : NewLines, state : {"open", "ended", "broken", "read", "lost"},
                     splits : Nat])'
    BY <1>0, <2>4, <2>5
  <2> QED
    BY <1>0, <2>5, <2>6 DEF tellVars, PublicCallTypeOK
<1>8. CASE BreakStream
  <2>1. [stream EXCEPT !.text = <<>>, !.state = "broken"] \in
          [text : Seq(Tokens), newline : NewLines, state : {"open", "ended", "broken", "read", "lost"}, splits : Nat]
    BY <1>0, EmptyTypes
  <2> QED
    BY <1>0, <1>8, <2>1 DEF BreakStream, tellVars, PublicCallTypeOK
<1>9. ASSUME NEW chunk \in Seq(Tokens), NEW final \in BOOLEAN,
             NEW rest \in [text : Seq(Tokens), newline : NewLines, state : {"open", "ended", "broken", "read", "lost"},
                           splits : Nat],
             Hear(chunk, final, rest)
      PROVE  PublicCallTypeOK'
  <2>1. /\ parser' \in Parsers /\ parsed' \in Seq(Events) /\ adapter' \in Adapters
        /\ queue' \in Seq(Readings)
        /\ stream' = rest
        /\ UNCHANGED <<stage, gateway, call, sent, written, pump, bridge, frames, charge, replay>>
    BY <1>9, HearType
  <2> QED
    BY <1>0, <2>1 DEF PublicCallTypeOK
<1>10. CASE ReadChunk
  <2>1. [stream EXCEPT !.text = <<>>] \in
          [text : Seq(Tokens), newline : NewLines, state : {"open", "ended", "broken", "read", "lost"}, splits : Nat]
    BY <1>0, EmptyTypes
  <2>2. stream.text \in Seq(Tokens) /\ Hear(stream.text, FALSE, [stream EXCEPT !.text = <<>>])
    BY <1>0, <1>10 DEF ReadChunk
  <2> QED
    BY <1>9, <2>1, <2>2
<1>11. CASE \E n \in 1..Len(stream.text) : ReadPart(n)
  <2>1. PICK n \in 1..Len(stream.text) : ReadPart(n)
    BY <1>11
  <2> DEFINE text == stream.text
             first == SubSeq(text, 1, n)
             last == SubSeq(text, n + 1, Len(text))
  <2> HIDE DEF text
  <2>2. text \in Seq(Tokens) /\ n \in 1..Len(text) /\ stream.splits \in Nat
    BY <1>0, <2>1 DEF text
  <2>3. first \in Seq(Tokens) /\ last \in Seq(Tokens)
    BY <2>2
  <2> HIDE DEF first, last
  <2>4. [stream EXCEPT !.text = last, !.splits = stream.splits + 1] \in
          [text : Seq(Tokens), newline : NewLines, state : {"open", "ended", "broken", "read", "lost"}, splits : Nat]
    <3> DEFINE k == stream.splits + 1
    <3>1. k \in Nat
      BY <2>2
    <3> HIDE DEF k
    <3>2. [stream EXCEPT !.text = last, !.splits = k] \in
            [text : Seq(Tokens), newline : NewLines, state : {"open", "ended", "broken", "read", "lost"},
             splits : Nat]
      BY <1>0, <2>3, <3>1
    <3> QED
      BY <3>2 DEF k
  <2>5. Hear(first, FALSE, [stream EXCEPT !.text = last, !.splits = stream.splits + 1])
    BY <1>0, <2>1 DEF ReadPart, text, first, last
  <2> QED
    BY <1>9, <2>3, <2>4, <2>5
<1>12. CASE ReadEnd
  <2>1. [stream EXCEPT !.state = "read"] \in
          [text : Seq(Tokens), newline : NewLines, state : {"open", "ended", "broken", "read", "lost"}, splits : Nat]
    BY <1>0
  <2>2. Hear(<<>>, TRUE, [stream EXCEPT !.state = "read"])
    BY <1>12 DEF ReadEnd
  <2>3. <<>> \in Seq(Tokens)
    OBVIOUS
  <2> QED
    BY <1>9, <2>1, <2>2, <2>3
<1>13. CASE ReadError
  <2>1. [stream EXCEPT !.state = "lost"] \in
          [text : Seq(Tokens), newline : NewLines, state : {"open", "ended", "broken", "read", "lost"}, splits : Nat]
    BY <1>0
  <2>2. <<Reading("failure")>> \in Seq(Readings)
    <3> DEFINE r == Reading("failure")
    <3>1. r \in Readings
      BY FrameTypes
    <3> HIDE DEF r
    <3> QED
      BY <3>1 DEF r
  <2> QED
    BY <1>0, <1>13, <2>1, <2>2 DEF ReadError, tellVars, PublicCallTypeOK
<1>14. CASE PumpChunk
  <2> DEFINE chunk == Head(queue)
  <2>1. chunk \in Readings /\ Tail(queue) \in Seq(Readings)
    BY <1>0, <1>14 DEF PumpChunk
  <2>2. /\ chunk.kind = "chunk" /\ queue' = Tail(queue)
        /\ pump' = Heard(chunk) /\ frames' = frames \o FramesOf(chunk) /\ bridge' = Bridged(bridge, chunk)
        /\ UNCHANGED <<stage, gateway, call, sent, stream, written, parser, parsed, adapter, charge, replay>>
    BY <1>14 DEF PumpChunk
  <2> HIDE DEF chunk
  <2>3. Pieces(chunk) \in Nat /\ chunk \in Frames /\ chunk.usage \in Usages
    BY <2>1, <2>2, ChunkTypes
  <2>4. PumpType'
    <3> DEFINE pieces == pump.pieces + Pieces(chunk)
               received == IF chunk.usage.known THEN chunk.usage ELSE pump.received
    <3>1. pieces \in Nat /\ received \in Usages
      BY <1>0, <2>3
    <3>2. pump' = [pump EXCEPT !.received = received, !.pieces = pieces]
      BY <1>0, <2>2 DEF Heard
    <3> HIDE DEF pieces, received
    <3> QED
      BY <1>0, <3>1, <3>2
  <2>5. FramesOf(chunk) \in Seq(Frames)
    <3>1. <<chunk>> \in Seq(Frames)
      BY <2>3
    <3>2. Translate(bridge, chunk) \in Seq(Frames)
      BY <1>0, <2>1, BridgeTypes
    <3> QED
      BY <3>1, <3>2 DEF FramesOf
  <2>6. frames' \in Seq(Frames)
    <3> DEFINE t == FramesOf(chunk)
    <3> HIDE DEF t
    <3>1. t \in Seq(Frames)
      BY <2>5 DEF t
    <3>2. frames \o t \in Seq(Frames)
      BY <1>0, <3>1
    <3> QED
      BY <2>2, <3>2 DEF t
  <2>7. bridge' \in Bridges
    BY <1>0, <2>1, <2>2, BridgeTypes
  <2> QED
    BY <1>0, <2>1, <2>2, <2>4, <2>6, <2>7 DEF PublicCallTypeOK
<1>15. CASE PumpEnd
  <2>1. PumpType'
    BY <1>0, <1>15 DEF PumpEnd
  <2> QED
    BY <1>0, <1>15, <2>1, EmptyTypes DEF PumpEnd, tellVars, PublicCallTypeOK
<1>16. CASE Cancel
  <2>1. PumpType'
    BY <1>0, <1>16 DEF Cancel
  <2> QED
    BY <1>0, <1>16, <2>1 DEF Cancel, tellVars, PublicCallTypeOK
<1>17. CASE Settle
  <2>1. pump.terminal # "none"
        /\ UNCHANGED <<stage, gateway, call, sent, stream, written, parser, parsed, adapter, queue, pump, bridge,
                       frames, replay>>
    BY <1>17 DEF Settle
  <2>2. charge' \in {Charge("provider", pump.received), Charge("estimate", Estimated(pump.pieces)), Marked}
    BY <1>17 DEF Settle
  <2>3. call.estimate \in Nat /\ call.limit \in Nat
    <3>1. stage \in {"streaming", "over"}
      BY <1>0, <2>1 DEF ControlInv, Pristine, NewPump
    <3> QED
      BY <3>1 DEF RequestInv, GoodCall
  <2>4. Estimated(pump.pieces) \in Usages
    BY <1>0, <2>3, EstimatedType
  <2>5. ChargeType'
    BY <1>0, <1>0a, <2>2, <2>4, ChargeTypes, SMTT(30)
  <2> QED
    BY <1>0, <2>1, <2>5 DEF PublicCallTypeOK
<1>18. ASSUME NEW more \in Seq(Frames), frames \o more \in Seq(Frames), Over(more)
       PROVE  stage' = "over" /\ frames' \in Seq(Frames) /\ PumpType'
  <2>1. PumpType'
    BY <1>0, <1>18 DEF Over
  <2> QED
    BY <1>0, <1>18, <2>1 DEF Over, Told
<1>19. CASE Finalized
  <2>1. UNCHANGED <<gateway, call, sent, stream, written, parser, parsed, adapter, queue, bridge, charge>>
    BY <1>19 DEF Finalized
  <2>2. stage' \in {stage, "over"} /\ frames' \in Seq(Frames) /\ PumpType'
    <3>1. CASE charge.state = "marked"
      BY <1>0, <1>19, <3>1 DEF Finalized
    <3>2. CASE charge.state # "marked" /\ call.endpoint = "responses"
      BY <1>18, <1>19, <3>2, LastFramesType DEF Finalized
    <3>3. CASE charge.state # "marked" /\ call.endpoint # "responses"
      BY <1>0, <1>19, <3>3 DEF Finalized
    <3> QED
      BY <3>1, <3>2, <3>3
  <2>3. replay' \in {replay, <<>>, frames \o LastFrames}
    BY <1>19 DEF Finalized
  <2>4. replay' \in Seq(Frames)
    BY <1>0, <2>3, LastFramesType, EmptyTypes
  <2> QED
    BY <1>0, <2>1, <2>2, <2>4 DEF PublicCallTypeOK
<1>20. CASE Closed
  <2>1. Over(LastFrames)
    BY <1>20 DEF Closed
  <2>2. stage' = "over" /\ frames' \in Seq(Frames) /\ PumpType'
    BY <1>18, <2>1, LastFramesType
  <2> QED
    BY <1>0, <1>20, <2>2 DEF Closed, PublicCallTypeOK
<1>21. CASE Failed
  <2>1. Over(<<Reading("error")>>)
    BY <1>21 DEF Failed
  <2>2. <<Reading("error")>> \in Seq(Frames)
    <3> DEFINE r == Reading("error")
    <3>1. r \in Frames
      BY FrameTypes
    <3> HIDE DEF r
    <3> QED
      BY <3>1 DEF r
  <2>3. stage' = "over" /\ frames' \in Seq(Frames) /\ PumpType'
    BY <1>18, <2>1, <2>2, LastFramesType
  <2> QED
    BY <1>0, <1>21, <2>3 DEF Failed, PublicCallTypeOK
<1>22. CASE UNCHANGED vars
  BY <1>0, <1>22 DEF vars, PublicCallTypeOK
<1> QED
  BY <1>1, <1>2, <1>3, <1>4, <1>5, <1>6, <1>7, <1>8, <1>10, <1>11, <1>12, <1>13, <1>14, <1>15, <1>16, <1>17,
     <1>19, <1>20, <1>21, <1>22 DEF PublicCallNext

-----------------------------------------------------------------------------
(* The control of a call.                                                  *)

LEMMA ControlInit == PublicCallInit => ControlInv
BY DEF PublicCallInit, ControlInv, Pristine, NewPump

LEMMA ControlStep ==
  ASSUME PublicCallTypeOK, ControlInv, RequestInv, [PublicCallNext]_vars
  PROVE  ControlInv'
<1>0. /\ stage \in {"starting", "refused", "listening", "rejected", "reserved", "sent", "streaming", "over"}
      /\ pump \in [state : {"reading", "finalizing", "closing", "failing", "over"}, received : Usages,
                   pieces : Nat, terminal : {"none", "finalize", "fail"}, cancelled : BOOLEAN]
      /\ charge.state \in {"none", "marked", "refunded", "settled"}
  BY DEF PublicCallTypeOK, PumpType, ChargeType
<1>0a. /\ Marked.state = "marked" /\ Refunded.state = "refunded" /\ Uncharged.state = "none"
       /\ Pristine => pump = NewPump /\ queue = <<>>
       /\ NewPump.state = "reading" /\ ~NewPump.cancelled /\ NewPump.terminal = "none"
  BY DEF Marked, Refunded, Uncharged, Pristine, NewPump
<1>1. CASE Start
  BY <1>0a, <1>1 DEF Start, streamVars, tellVars, ControlInv, Pristine
<1>2. CASE \E body \in Bodies : Receive(body)
  BY <1>0a, <1>2 DEF Receive, streamVars, tellVars, ControlInv, Pristine
<1>3. CASE stage = "reserved" /\ \E route \in CandidateRoutes(CallModel) : Send(route)
  <2>1. /\ stage = "reserved" /\ UNCHANGED <<streamVars, frames, replay>>
        /\ \/ stage' = "sent" /\ UNCHANGED charge
           \/ stage' = "over" /\ charge' = Refunded /\ UNCHANGED sent
    BY <1>3 DEF Send
  <2>2. Pristine /\ frames = <<>> /\ charge = Uncharged /\ replay = <<>> /\ sent = Unsent
    BY <2>1 DEF ControlInv, RequestInv
  <2>3. Pristine' /\ pump' = pump /\ queue' = queue
    BY <2>1, <2>2 DEF streamVars, Pristine
  <2> QED
    BY <1>0a, <2>1, <2>2, <2>3 DEF ControlInv
<1>4. CASE \E answer \in Answers : AnswerBody(answer)
  <2>1. /\ stage = "sent" /\ ~call.stream /\ stage' = "over" /\ UNCHANGED <<call, sent, streamVars>>
        /\ charge' = Marked \/ charge'.state = "settled"
    BY <1>4 DEF AnswerBody, Charge
  <2>2. Pristine
    BY <2>1 DEF ControlInv
  <2>3. Pristine' /\ pump' = pump /\ queue' = queue
    BY <2>1, <2>2 DEF streamVars, Pristine
  <2> QED
    BY <1>0a, <2>1, <2>2, <2>3 DEF ControlInv
<1>5. CASE \E beginning \in Beginnings : OpenStream(beginning[1], beginning[2])
  <2>1. /\ stage = "sent" /\ call.stream /\ stage' = "streaming"
        /\ UNCHANGED <<call, sent, queue, pump, tellVars>>
    BY <1>5 DEF OpenStream
  <2>2. Pristine /\ charge = Uncharged
    BY <2>1 DEF ControlInv
  <2> QED
    BY <1>0a, <2>1, <2>2 DEF ControlInv, tellVars
\* The provider writes, and the gateway reads, while the stream is open only.
<1>6. ASSUME stage = "streaming", UNCHANGED <<stage, call, pump, charge, frames, replay>>, pump.state = "reading",
             queue' # <<>> => ~pump.cancelled
      PROVE  ControlInv'
  BY <1>6 DEF ControlInv
<1>7. CASE /\ stage = "streaming"
           /\ \E event \in (IF Anthropic THEN AnthropicEvents ELSE OpenAiEvents) \cup {Ending} : Write(event)
  BY <1>6, <1>7 DEF Write, Waiting, tellVars
<1>8. CASE \E partial \in {<<>>, <<DataField, Done>> \o stream.newline} : EndStream(partial)
  BY <1>6, <1>8 DEF EndStream, Waiting, tellVars
<1>9. CASE BreakStream
  BY <1>6, <1>9 DEF BreakStream, Waiting, tellVars
<1>10. ASSUME MayRead, NEW chunk, NEW final, NEW rest, Hear(chunk, final, rest) PROVE ControlInv'
  BY <1>6, <1>10 DEF Hear, MayRead, Waiting, tellVars
<1>11. CASE ReadChunk
  BY <1>10, <1>11 DEF ReadChunk
<1>12. CASE \E n \in 1..Len(stream.text) : ReadPart(n)
  BY <1>10, <1>12 DEF ReadPart
<1>13. CASE ReadEnd
  BY <1>10, <1>13 DEF ReadEnd
<1>14. CASE ReadError
  BY <1>6, <1>14 DEF ReadError, MayRead, Waiting, tellVars
<1>15. CASE PumpChunk
  <2>1. pump'.state = pump.state /\ pump'.terminal = pump.terminal /\ pump'.cancelled = pump.cancelled
    BY <1>0, <1>15 DEF PumpChunk, Heard
  <2>2. /\ pump.state = "reading" /\ queue # <<>>
        /\ UNCHANGED <<stage, call, sent, charge, replay>>
    BY <1>15 DEF PumpChunk
  <2>3. stage = "streaming" /\ ~pump.cancelled
    BY <2>2 DEF ControlInv
  <2> QED
    BY <2>1, <2>2, <2>3 DEF ControlInv
<1>16. CASE PumpEnd
  <2>1. /\ pump.state = "reading" /\ queue' = <<>>
        /\ UNCHANGED <<stage, call, sent, charge, frames, replay>>
        /\ \/ queue # <<>> /\ pump'.state = "finalizing" /\ pump'.terminal = "finalize"
           \/ queue # <<>> /\ pump'.state = "failing" /\ pump'.terminal = "fail"
           \/ pump.cancelled /\ pump'.state = "failing" /\ pump'.terminal = pump.terminal
    BY <1>0, <1>16 DEF PumpEnd, tellVars
  <2>2. stage = "streaming" /\ (pump.cancelled => pump.terminal = "fail")
    <3>1. stage \notin {"streaming", "over"} => ~pump.cancelled /\ queue = <<>>
      BY <1>0a DEF ControlInv
    <3>2. stage = "over" => ~pump.cancelled /\ queue = <<>>
      BY <1>0a, <2>1 DEF ControlInv
    <3>3. stage = "streaming"
      BY <1>0, <2>1, <3>1, <3>2
    <3> QED
      BY <2>1, <3>3 DEF ControlInv
  <2> QED
    BY <2>1, <2>2 DEF ControlInv
<1>17. CASE Cancel
  <2>1. /\ stage = "streaming" /\ ~pump.cancelled /\ queue = <<>>
        /\ pump'.state = pump.state /\ pump'.cancelled
        /\ pump'.terminal = IF pump.terminal = "none" THEN "fail" ELSE pump.terminal
        /\ UNCHANGED <<stage, call, sent, queue, charge, frames, replay>>
    BY <1>0, <1>17 DEF Cancel, tellVars
  <2> QED
    BY <1>0, <2>1 DEF ControlInv
<1>18. CASE Settle
  <2>1. /\ pump.terminal # "none" /\ charge.state = "none"
        /\ UNCHANGED <<stage, gateway, call, sent, stream, written, parser, parsed, adapter, queue, pump, bridge,
                       frames, replay>>
        /\ charge'.state \in {"marked", "settled"}
    BY <1>0a, <1>18 DEF Settle, Charge
  <2>2. stage = "streaming"
    BY <1>0, <1>0a, <2>1 DEF ControlInv
  <2>3. pump.state # "closing" /\ pump.state # "over"
    BY <2>1, <2>2 DEF ControlInv
  <2> QED
    BY <2>1, <2>2, <2>3 DEF ControlInv
\* The loop ends: the call was charged for before.
<1>19. ASSUME pump.state \in {"finalizing", "closing", "failing"}
       PROVE  stage = "streaming" /\ queue = <<>> /\ call.stream /\ sent # Unsent /\ charge.state # "refunded"
              /\ pump.terminal # "none"
  <2>1. stage = "streaming"
    BY <1>0, <1>0a, <1>19 DEF ControlInv
  <2> QED
    BY <1>19, <2>1 DEF ControlInv, RequestInv
<1>20. ASSUME NEW more, Over(more), Settled, pump.state \in {"finalizing", "closing", "failing"},
              UNCHANGED <<call, sent, queue, charge>>
       PROVE  ControlInv'
  <2>1. /\ stage' = "over" /\ pump'.state = "over" /\ pump'.terminal = pump.terminal
    BY <1>0, <1>20 DEF Over
  <2> QED
    BY <1>19, <1>20, <2>1 DEF ControlInv, Settled
<1>21. CASE Finalized
  <2>0. pump.state = "finalizing" /\ Settled /\ UNCHANGED <<call, sent, queue, charge>>
    BY <1>21 DEF Finalized
  <2>1. CASE charge.state = "marked"
    <3>1. pump'.state = "failing" /\ pump'.terminal = pump.terminal /\ UNCHANGED <<stage, frames, replay>>
      BY <1>0, <1>21, <2>1 DEF Finalized
    <3> QED
      BY <1>19, <2>0, <2>1, <3>1 DEF ControlInv
  <2>2. CASE charge.state # "marked" /\ call.endpoint = "responses"
    BY <1>20, <1>21, <2>0, <2>2 DEF Finalized
  <2>3. CASE charge.state # "marked" /\ call.endpoint # "responses"
    <3>1. pump'.state = "closing" /\ pump'.terminal = pump.terminal /\ UNCHANGED <<stage, frames>>
      BY <1>0, <1>21, <2>3 DEF Finalized
    <3>2. charge.state = "settled"
      BY <1>0, <1>19, <2>0, <2>3 DEF Settled
    <3>3. pump.terminal = "finalize"
      BY <2>0 DEF ControlInv
    <3> QED
      BY <1>19, <2>0, <3>1, <3>2, <3>3 DEF ControlInv
  <2> QED
    BY <2>1, <2>2, <2>3
<1>22. CASE Closed
  <2>1. Settled
    BY <1>22 DEF Closed, ControlInv, Settled
  <2> QED
    BY <1>20, <1>22, <2>1 DEF Closed
<1>23. CASE Failed
  BY <1>20, <1>23 DEF Failed
<1>24. CASE UNCHANGED vars
  BY <1>24 DEF vars, ControlInv, Pristine
<1> QED
  BY <1>1, <1>2, <1>3, <1>4, <1>5, <1>7, <1>8, <1>9, <1>11, <1>12, <1>13, <1>14, <1>15, <1>16, <1>17,
     <1>18, <1>21, <1>22, <1>23, <1>24 DEF PublicCallNext

-----------------------------------------------------------------------------
(* Charges.                                                                *)

LEMMA ChargeInit == PublicCallInit => ChargeInv
BY DEF PublicCallInit, ChargeInv, Uncharged

\* What a stream is charged for is settled on after the last chunk was read.
LEMMA ChargeSteps ==
  ASSUME PublicCallTypeOK, ControlInv, RequestInv, [PublicCallNext]_vars
  PROVE  \/ charge'.state # "settled"
         \/ \E answer \in Answers : AnswerBody(answer)
         \/ Settle
         \/ /\ UNCHANGED <<call, charge>>
            /\ pump'.received = pump.received /\ pump'.pieces = pump.pieces
<1>0. /\ pump \in [state : {"reading", "finalizing", "closing", "failing", "over"}, received : Usages,
                   pieces : Nat, terminal : {"none", "finalize", "fail"}, cancelled : BOOLEAN]
      /\ Marked.state = "marked" /\ Refunded.state = "refunded" /\ Uncharged.state = "none"
  BY DEF PublicCallTypeOK, PumpType, Marked, Refunded, Uncharged
<1>1. CASE Start
  BY <1>1 DEF Start, streamVars, tellVars
<1>2. CASE \E body \in Bodies : Receive(body)
  <2>1. charge' = charge /\ stage = "listening"
    BY <1>2 DEF Receive, tellVars
  <2> QED
    BY <1>0, <2>1 DEF ControlInv
<1>3. CASE stage = "reserved" /\ \E route \in CandidateRoutes(CallModel) : Send(route)
  <2>1. charge' \in {charge, Refunded} /\ stage = "reserved"
    BY <1>3 DEF Send
  <2> QED
    BY <1>0, <2>1 DEF ControlInv
<1>4. CASE \E answer \in Answers : AnswerBody(answer)
  BY <1>4
<1>5. CASE \E beginning \in Beginnings : OpenStream(beginning[1], beginning[2])
  BY <1>5 DEF OpenStream, tellVars
<1>6. CASE \E event \in (IF Anthropic THEN AnthropicEvents ELSE OpenAiEvents) \cup {Ending} : Write(event)
  BY <1>6 DEF Write, tellVars
<1>7. CASE \E partial \in {<<>>, <<DataField, Done>> \o stream.newline} : EndStream(partial)
  BY <1>7 DEF EndStream, tellVars
<1>8. CASE BreakStream \/ ReadError
  BY <1>8 DEF BreakStream, ReadError, tellVars
<1>9. ASSUME NEW chunk, NEW final, NEW rest, Hear(chunk, final, rest) PROVE UNCHANGED <<call, charge, pump>>
  BY <1>9 DEF Hear, tellVars
<1>10. CASE ReadChunk \/ ReadEnd \/ \E n \in 1..Len(stream.text) : ReadPart(n)
  BY <1>9, <1>10 DEF ReadChunk, ReadEnd, ReadPart
<1>11. CASE PumpChunk
  <2>1. pump.state = "reading" /\ queue # <<>> /\ charge' = charge
    BY <1>11 DEF PumpChunk
  <2>2. charge = Uncharged
    BY <2>1 DEF ControlInv
  <2> QED
    BY <1>0, <2>1, <2>2
<1>12. CASE PumpEnd
  BY <1>0, <1>12 DEF PumpEnd, tellVars
<1>13. CASE Cancel
  BY <1>0, <1>13 DEF Cancel, tellVars
<1>14. CASE Settle
  BY <1>14
<1>15. ASSUME NEW more, Over(more) PROVE pump'.received = pump.received /\ pump'.pieces = pump.pieces
  BY <1>0, <1>15 DEF Over
<1>16. CASE Finalized
  <2>1. \/ pump' = [pump EXCEPT !.state = "failing"]
        \/ Over(LastFrames)
        \/ pump' = [pump EXCEPT !.state = "closing"]
    BY <1>16 DEF Finalized
  <2>2. pump'.received = pump.received /\ pump'.pieces = pump.pieces
    BY <1>0, <1>15, <2>1
  <2> QED
    BY <1>16, <2>2 DEF Finalized
<1>17. CASE Closed \/ Failed
  BY <1>15, <1>17 DEF Closed, Failed
<1>18. CASE UNCHANGED vars
  BY <1>18 DEF vars
<1> QED
  BY <1>1, <1>2, <1>3, <1>4, <1>5, <1>6, <1>7, <1>8, <1>10, <1>11, <1>12, <1>13, <1>14, <1>16, <1>17,
     <1>18 DEF PublicCallNext

LEMMA ChargeStep ==
  ASSUME PublicCallTypeOK, ControlInv, RequestInv, ChargeInv, [PublicCallNext]_vars
  PROVE  ChargeInv'
<1>1. CASE charge'.state # "settled"
  BY <1>1 DEF ChargeInv
<1>2. ASSUME NEW answer \in Answers, AnswerBody(answer) PROVE ChargeInv'
  <2>1. ~call.stream /\ call' = call
        /\ \/ charge' = Marked
           \/ \E source \in {"provider", "estimate"}, usage \in Usages :
                /\ source = "estimate" => usage.prompt = call.estimate /\ usage.completion <= call.limit
                /\ charge' = Charge(source, usage)
    BY <1>2, AnswerCases
  <2> QED
    BY <2>1, ChargeTypes DEF ChargeInv, Marked, Uncharged
<1>3. CASE Settle
  <2>1. /\ pump.terminal # "none"
        /\ UNCHANGED <<call, pump>>
        /\ charge' \in {IF pump.received.known THEN Charge("provider", pump.received)
                        ELSE IF pump.terminal = "finalize" THEN Charge("estimate", Estimated(pump.pieces))
                        ELSE Marked, Marked}
    BY <1>3 DEF Settle
  <2>2. /\ stage \in {"streaming", "over"} /\ pump.received \in Usages /\ pump.pieces \in Nat
    BY <2>1 DEF PublicCallTypeOK, PumpType, ControlInv, Pristine, NewPump
  <2>3. call.estimate \in Nat /\ call.limit \in Nat
    BY <2>2 DEF RequestInv, GoodCall
  <2> DEFINE estimated == Estimated(pump.pieces)
  <2>4. estimated \in Usages /\ estimated.prompt = call.estimate /\ estimated.completion <= call.limit
    BY <2>2, <2>3, EstimatedType
  <2>5. estimated' = estimated
    BY <2>1 DEF Estimated, EstimateTokens, CeilDivide, Smaller, Usage
  <2> HIDE DEF estimated
  <2>6. /\ charge' \in {Charge("provider", pump.received), Charge("estimate", estimated), Marked}
        /\ charge' = Charge("provider", pump.received) =>
             charge'.source = "provider"
        /\ charge' = Charge("estimate", estimated) =>
             charge'.source = "estimate" /\ charge'.input = call.estimate /\ charge'.output <= call.limit
        /\ charge' = Marked => charge'.state # "settled"
    BY <2>1, <2>2, <2>4, ChargeTypes DEF estimated, Marked, Uncharged
  <2>7. charge'.state = "settled" =>
          charge' = IF pump.received.known THEN Charge("provider", pump.received) ELSE Charge("estimate", estimated)
    BY <2>1, <2>6 DEF estimated
  <2>8. (IF pump.received.known THEN Charge("provider", pump.received)
         ELSE Charge("estimate", Estimated(pump.pieces)))' =
          IF pump.received.known THEN Charge("provider", pump.received) ELSE Charge("estimate", estimated)
    BY <2>1, <2>5 DEF estimated, Charge
  <2>9. charge'.state = "settled" =>
          (charge'.source = "estimate" => charge'.input = call'.estimate /\ charge'.output <= call'.limit)
    BY <2>1, <2>6
  <2> QED
    BY <2>7, <2>8, <2>9 DEF ChargeInv
<1>4. CASE /\ UNCHANGED <<call, charge>>
           /\ pump'.received = pump.received /\ pump'.pieces = pump.pieces
  BY <1>4 DEF ChargeInv, Charge, Estimated, EstimateTokens, CeilDivide, Smaller, Usage
<1> QED
  BY <1>1, <1>2, <1>3, <1>4, ChargeSteps

\* An estimate is within the reservation, and so is every charge that is within the estimate and the limit.
LEMMA ChargeCovered ==
  ASSUME PublicCallTypeOK, RequestInv, ControlInv, ChargeInv
  PROVE  ReservationCovers
<1> SUFFICES ASSUME charge.state = "settled"
             PROVE  /\ charge.source = "estimate" => charge.input <= call.estimate /\ charge.output <= call.limit
                    /\ charge.input <= call.estimate /\ charge.output <= call.limit =>
                         Cost(CallModel, charge.input, charge.output) <= call.reserved
  BY DEF ReservationCovers
<1>1. charge.input \in Nat /\ charge.output \in Nat
  BY DEF PublicCallTypeOK, ChargeType
<1>2. stage \in {"streaming", "over"}
  BY DEF ControlInv, Uncharged, PublicCallTypeOK
<1>3. /\ GoodCall(gateway.bundle, call)
      /\ call.estimate \in Nat /\ call.limit \in Nat
      /\ call.reserved = Cost(CallModel, call.estimate, call.limit)
  BY <1>2 DEF RequestInv, GoodCall, CallModel
<1>4. CallModel.billing \in [input : Nat, output : Nat, minimum : Nat]
  <2>1. gateway.bundle \in Bundles
    BY DEF PublicCallTypeOK
  <2>2. call.model \in DOMAIN gateway.bundle.models
    BY <1>3 DEF GoodCall, EnabledModels
  <2> QED
    BY <2>1, <2>2, BundlesAssumption DEF CallModel
<1>5. charge.input <= call.estimate /\ charge.output <= call.limit =>
        Cost(CallModel, charge.input, charge.output) <= call.reserved
  <2> DEFINE model == CallModel
             a == charge.input
             b == charge.output
             c == call.estimate
             d == call.limit
  <2> HIDE DEF model, a, b, c, d
  <2>1. model.billing \in [input : Nat, output : Nat, minimum : Nat] /\ {a, b, c, d} \subseteq Nat
    BY <1>1, <1>3, <1>4 DEF model, a, b, c, d
  <2>2. a <= c /\ b <= d => Cost(model, a, b) <= Cost(model, c, d)
    BY <2>1, CostMonotone
  <2> QED
    BY <1>3, <2>2 DEF model, a, b, c, d
<1>6. charge.source = "estimate" => charge.input <= call.estimate /\ charge.output <= call.limit
  BY <1>3 DEF ChargeInv
<1> QED
  BY <1>5, <1>6

-----------------------------------------------------------------------------
(* What is collected from the members of a sequence.                       *)

\* A set of sequences that holds the empty one and is closed under Append holds all of them.
LEMMA SeqInduction ==
  ASSUME NEW A, NEW S, <<>> \in S, \A s \in Seq(A), x \in A : s \in S => Append(s, x) \in S
  PROVE  Seq(A) \subseteq S
<1> SUFFICES ASSUME NEW s \in Seq(A) PROVE s \in S
  OBVIOUS
<1> DEFINE N == Len(s)
           T == {n \in 0..N : SubSeq(s, 1, n) \in S}
<1>1. N \in Nat /\ \A n \in 1..N : s[n] \in A
  BY ElementOfSeq
<1>2. 0 \in T
  <2>1. SubSeq(s, 1, 0) = <<>>
    OBVIOUS
  <2>2. 0 \in 0..N
    BY <1>1
  <2> HIDE DEF N
  <2> QED
    BY <2>1, <2>2
<1>3. \A n \in 0..N : n \in T /\ n < N => n + 1 \in T
  <2> SUFFICES ASSUME NEW n \in 0..N, n \in T, n < N PROVE n + 1 \in T
    OBVIOUS
  <2>1. SubSeq(s, 1, n) \in Seq(A) /\ s[n + 1] \in A /\ n + 1 \in 0..N
    BY <1>1
  <2>2. SubSeq(s, 1, n + 1) = Append(SubSeq(s, 1, n), s[n + 1])
    BY <1>1
  <2> QED
    BY <2>1, <2>2
<1>4. N \in T
  <2> HIDE DEF T, N
  <2>1. 0..N \subseteq T
    BY <1>1, <1>2, <1>3, Induction
  <2>2. N \in 0..N
    BY <1>1
  <2> QED
    BY <2>1, <2>2
<1>5. SubSeq(s, 1, N) = s
  OBVIOUS
<1> QED
  BY <1>4, <1>5

\* The images of the members, one for one.
LEMMA MappedMembers ==
  ASSUME NEW A, NEW s \in Seq(A), NEW f
  PROVE  /\ Len(Mapped(s, f)) = Len(s)
         /\ \A i \in 1..Len(s) : Mapped(s, f)[i] = f[s[i]]
<1> DEFINE N == Len(s)
           t == Mapped(s, f)
           B == {f[x] : x \in A}
<1>1. N \in Nat /\ DOMAIN s = 1..N /\ \A i \in 1..N : s[i] \in A
  BY ElementOfSeq
<1>2. t = [i \in 1..N |-> f[s[i]]]
  BY <1>1 DEF Mapped
<1>3. \A i \in 1..N : f[s[i]] \in B
  BY <1>1
<1> HIDE DEF t, N, B
<1>4. t \in [1..N -> B]
  BY <1>2, <1>3
<1>5. Len(t) = N
  BY <1>1, <1>4
<1> QED
  BY <1>2, <1>5 DEF t, N

LEMMA MappedValues ==
  ASSUME NEW A, NEW B, NEW s \in Seq(A), NEW f, \A x \in A : f[x] \in B
  PROVE  Mapped(s, f) \in Seq(B)
<1> DEFINE N == Len(s)
           t == Mapped(s, f)
<1>1. N \in Nat /\ DOMAIN s = 1..N /\ \A i \in 1..N : s[i] \in A
  BY ElementOfSeq
<1>2. t = [i \in 1..N |-> f[s[i]]]
  BY <1>1 DEF Mapped
<1> HIDE DEF t, N
<1>3. t \in [1..N -> B]
  BY <1>1, <1>2
<1>4. t \in Seq(B)
  BY <1>1, <1>3
<1> QED
  BY <1>4 DEF t

LEMMA MappedType ==
  ASSUME NEW A, NEW B, NEW s \in Seq(A), NEW f \in [A -> B]
  PROVE  Mapped(s, f) \in Seq(B)
BY MappedValues

LEMMA MappedAppend ==
  ASSUME NEW A, NEW s \in Seq(A), NEW x \in A, NEW f
  PROVE  Mapped(Append(s, x), f) = Append(Mapped(s, f), f[x])
<1> DEFINE a == Append(s, x)
           t == Mapped(s, f)
           u == Mapped(a, f)
           y == f[x]
<1>1. a \in Seq(A) /\ Len(a) = Len(s) + 1 /\ a[Len(s) + 1] = x /\ \A n \in 1..Len(s) : a[n] = s[n]
  BY AppendProperties
<1> DEFINE B == {f[z] : z \in A}
<1>2. y \in B /\ t \in Seq(B)
  <2>1. \A z \in A : f[z] \in B
    OBVIOUS
  <2> HIDE DEF B
  <2> QED
    BY <2>1, MappedValues
<1> HIDE DEF a
<1>3. u \in Seq(B)
  <2>1. \A z \in A : f[z] \in B
    OBVIOUS
  <2> HIDE DEF B
  <2> QED
    BY <1>1, <2>1, MappedValues
<1> HIDE DEF B
<1>4. Len(t) = Len(s) /\ \A i \in 1..Len(s) : t[i] = f[s[i]]
  BY MappedMembers
<1>5. Len(u) = Len(a) /\ \A i \in 1..Len(a) : u[i] = f[a[i]]
  BY <1>1, MappedMembers
<1> HIDE DEF t, u, y
<1> DEFINE v == Append(t, y)
<1>6. v \in Seq(B) /\ Len(v) = Len(t) + 1 /\ v[Len(t) + 1] = y /\ \A n \in 1..Len(t) : v[n] = t[n]
  BY <1>2, AppendProperties
<1> HIDE DEF v
<1> DEFINE n == Len(s)
<1>7. n \in Nat /\ Len(u) = n + 1 /\ Len(v) = n + 1
  BY <1>1, <1>4, <1>5, <1>6
<1>8. ASSUME NEW i \in 1..(n + 1) PROVE u[i] = v[i]
  <2>1. CASE i = n + 1
    <3>1. u[i] = f[x]
      BY <1>1, <1>5, <2>1
    <3>2. v[i] = y
      BY <1>4, <1>6, <2>1
    <3> QED
      BY <3>1, <3>2 DEF y
  <2>2. CASE i # n + 1
    <3>1. i \in 1..n /\ i \in 1..Len(a)
      BY <1>1, <1>7, <2>2
    <3>2. u[i] = f[s[i]]
      BY <1>1, <1>5, <3>1
    <3>3. v[i] = f[s[i]]
      BY <1>4, <1>6, <3>1
    <3> QED
      BY <3>2, <3>3
  <2> QED
    BY <2>1, <2>2
<1> HIDE DEF n
<1>9. u = v
  BY <1>3, <1>6, <1>7, <1>8, SeqEqual
<1> QED
  BY <1>9 DEF u, v, t, y, a

LEMMA MappedConcat ==
  ASSUME NEW A, NEW s \in Seq(A), NEW t \in Seq(A), NEW f
  PROVE  Mapped(s \o t, f) = Mapped(s, f) \o Mapped(t, f)
<1> DEFINE S == {u \in Seq(A) : Mapped(s \o u, f) = Mapped(s, f) \o Mapped(u, f)}
<1>1. <<>> \in S
  <2> DEFINE c == Mapped(s, f)
  <2> DEFINE B == {f[z] : z \in A}
  <2>1. c \in Seq(B)
    <3>1. \A z \in A : f[z] \in B
      OBVIOUS
    <3> HIDE DEF B
    <3> QED
      BY <3>1, MappedValues
  <2> HIDE DEF B
  <2>2. Mapped(<<>>, f) = <<>>
    BY DEF Mapped
  <2> HIDE DEF c
  <2>3. c \o <<>> = c /\ s \o <<>> = s /\ <<>> \in Seq(A)
    BY <2>1
  <2> QED
    BY <2>2, <2>3 DEF c
<1>2. ASSUME NEW u \in Seq(A), NEW x \in A, u \in S PROVE Append(u, x) \in S
  <2> DEFINE w == s \o u
             c == Mapped(s, f)
             d == Mapped(u, f)
             y == f[x]
  <2>1. s \o Append(u, x) = Append(w, x) /\ w \in Seq(A) /\ Append(u, x) \in Seq(A)
    BY ConcatThenAppend
  <2> HIDE DEF w
  <2>2. Mapped(Append(w, x), f) = Append(Mapped(w, f), y)
    BY <2>1, MappedAppend
  <2>3. Mapped(Append(u, x), f) = Append(d, y)
    BY MappedAppend
  <2>4. Mapped(w, f) = c \o d
    BY <1>2 DEF w
  <2> DEFINE B == {f[z] : z \in A}
  <2>5. c \in Seq(B) /\ d \in Seq(B) /\ y \in B
    <3>1. \A z \in A : f[z] \in B
      OBVIOUS
    <3> HIDE DEF B
    <3> QED
      BY <3>1, MappedValues
  <2> HIDE DEF c, d, y, B
  <2>6. c \o Append(d, y) = Append(c \o d, y)
    BY ONLY <2>5, ConcatThenAppend
  <2> QED
    BY <2>1, <2>2, <2>3, <2>4, <2>6 DEF c
<1>3. Seq(A) \subseteq S
  <2> HIDE DEF S
  <2> QED
    BY <1>1, <1>2, SeqInduction
<1> QED
  BY <1>3

LEMMA CollectType ==
  ASSUME NEW A, NEW B, NEW s \in Seq(A), NEW f \in [A -> Seq(B)]
  PROVE  Collect(s, f) \in Seq(B)
<1>1. Mapped(s, f) \in Seq(Seq(B))
  BY MappedType
<1> QED
  BY <1>1, FlattenType DEF Collect

LEMMA CollectEmpty ==
  ASSUME NEW f
  PROVE  Collect(<<>>, f) = <<>>
<1>1. Mapped(<<>>, f) = <<>>
  BY DEF Mapped
<1> QED
  BY <1>1, FlattenEmpty DEF Collect

LEMMA CollectAppend ==
  ASSUME NEW A, NEW B, NEW s \in Seq(A), NEW x \in A, NEW f \in [A -> Seq(B)]
  PROVE  Collect(Append(s, x), f) = Collect(s, f) \o f[x]
<1>1. Mapped(s, f) \in Seq(Seq(B)) /\ f[x] \in Seq(B)
  BY MappedType
<1>2. Mapped(Append(s, x), f) = Append(Mapped(s, f), f[x])
  BY MappedAppend
<1> QED
  BY <1>1, <1>2, FlattenAppend DEF Collect

LEMMA CollectOne ==
  ASSUME NEW A, NEW B, NEW x \in A, NEW f \in [A -> Seq(B)]
  PROVE  Collect(<<x>>, f) = f[x]
<1> DEFINE y == f[x]
           e == <<>>
<1>1. <<x>> = Append(e, x) /\ e \in Seq(A) /\ y \in Seq(B) /\ e \o y = y /\ Collect(e, f) = e
  <2>1. y \in Seq(B)
    OBVIOUS
  <2> HIDE DEF y
  <2>2. <<>> \o y = y
    BY <2>1
  <2> QED
    BY <2>1, <2>2, CollectEmpty
<1> HIDE DEF e
<1>2. Collect(Append(e, x), f) = Collect(e, f) \o f[x]
  BY <1>1, CollectAppend
<1> QED
  BY <1>1, <1>2

LEMMA CollectConcat ==
  ASSUME NEW A, NEW B, NEW s \in Seq(A), NEW t \in Seq(A), NEW f \in [A -> Seq(B)]
  PROVE  Collect(s \o t, f) = Collect(s, f) \o Collect(t, f)
<1> DEFINE S == {u \in Seq(A) : Collect(s \o u, f) = Collect(s, f) \o Collect(u, f)}
<1>1. <<>> \in S
  <2> DEFINE c == Collect(s, f)
  <2>1. c \in Seq(B)
    BY CollectType
  <2> HIDE DEF c
  <2>2. c \o <<>> = c /\ s \o <<>> = s /\ <<>> \in Seq(A)
    BY <2>1
  <2> QED
    BY <2>2, CollectEmpty DEF c
<1>2. ASSUME NEW u \in Seq(A), NEW x \in A, u \in S PROVE Append(u, x) \in S
  <2> DEFINE w == s \o u
             c == Collect(s, f)
             d == Collect(u, f)
             y == f[x]
  <2>1. s \o Append(u, x) = Append(w, x) /\ w \in Seq(A) /\ Append(u, x) \in Seq(A)
    BY ConcatThenAppend, SMTT(30)
  <2> HIDE DEF w
  <2>2. Collect(Append(w, x), f) = Collect(w, f) \o y
    BY <2>1, CollectAppend
  <2>3. Collect(Append(u, x), f) = d \o y
    BY CollectAppend
  <2>4. Collect(w, f) = c \o d
    BY <1>2 DEF w
  <2>5. c \in Seq(B) /\ d \in Seq(B) /\ y \in Seq(B)
    BY CollectType
  <2> HIDE DEF c, d, y
  <2>6. (c \o d) \o y = c \o (d \o y)
    BY ONLY <2>5, ConcatAssociates, SMTT(30)
  <2> QED
    BY <2>1, <2>2, <2>3, <2>4, <2>6 DEF c
<1>3. Seq(A) \subseteq S
  <2> HIDE DEF S
  <2> QED
    BY <1>1, <1>2, SeqInduction
<1> QED
  BY <1>3

\* The last of two sequences, if it has members, has the last member of both.
LEMMA LastOrConcat ==
  ASSUME NEW A, NEW s \in Seq(A), NEW t \in Seq(A), NEW d
  PROVE  LastOr(s \o t, d) = IF t = <<>> THEN LastOr(s, d) ELSE LastOr(t, d)
<1>1. CASE t = <<>>
  <2>1. s \o <<>> = s
    OBVIOUS
  <2> QED
    BY <1>1, <2>1
<1>2. CASE t # <<>>
  <2>1. s \o t # <<>> /\ (s \o t)[Len(s \o t)] = t[Len(t)]
    <3>1. Len(t) \in Nat /\ Len(t) # 0 /\ Len(s) \in Nat
      BY <1>2, EmptySeq
    <3>2. Len(s \o t) = Len(s) + Len(t)
      OBVIOUS
    <3>3. Len(s \o t) # 0
      BY <3>1, <3>2
    <3>4. s \o t # <<>>
      BY <3>3
    <3>5. (s \o t)[Len(s) + Len(t)] = t[Len(t)]
      BY <3>1
    <3> QED
      BY <3>2, <3>4, <3>5
  <2> QED
    BY <1>2, <2>1 DEF LastOr
<1> QED
  BY <1>1, <1>2

LEMMA LastOrOne ==
  ASSUME NEW x, NEW d
  PROVE  LastOr(<<x>>, d) = x /\ LastOr(<<>>, d) = d /\ <<x>> # <<>>
BY DEF LastOr

-----------------------------------------------------------------------------
(* What the events of an OpenAI stream say.                                *)

SoundKinds == {"text", "legacy", "finish", "usage", "bad usage"}

Deltas == {frame \in Frames : frame.kind = "text delta" /\ frame.usage = NoUsage}

FrameText == [frame \in Frames |-> IF frame.kind \in {"chunk", "text delta"} THEN frame.text ELSE <<>>]

LEMMA CollectorTypes ==
  /\ TextIn \in [Readings -> Seq(Nat)]
  /\ UsageIn \in [Readings -> Seq(Usages)]
  /\ FinishIn \in [Readings -> Seq(Finishes)]
  /\ DeltaIn \in [Readings -> Seq(Deltas)]
  /\ FrameText \in [Frames -> Seq(Nat)]
  /\ \A kinds : NumberIn(kinds) \in [Events -> Seq(Nat)]
<1>1. TextIn \in [Readings -> Seq(Nat)]
  BY DEF TextIn, Readings
<1>2. UsageIn \in [Readings -> Seq(Usages)]
  <2>1. \A r \in Readings : (IF r.usage.known THEN <<r.usage>> ELSE <<>>) \in Seq(Usages)
    BY DEF Readings
  <2> QED
    BY <2>1 DEF UsageIn
<1>3. FinishIn \in [Readings -> Seq(Finishes)]
  <2>1. \A r \in Readings : (IF r.finish = "none" THEN <<>> ELSE <<r.finish>>) \in Seq(Finishes)
    BY DEF Readings
  <2> QED
    BY <2>1 DEF FinishIn
<1>4. DeltaIn \in [Readings -> Seq(Deltas)]
  <2>1. ASSUME NEW r \in Readings
        PROVE  (IF r.text = <<>> THEN <<>> ELSE <<Frame("text delta", r.text, NoUsage)>>) \in Seq(Deltas)
    <3> DEFINE d == Frame("text delta", r.text, NoUsage)
    <3>1. d \in Frames
      BY FrameTypes DEF Readings
    <3>2. d.kind = "text delta" /\ d.usage = NoUsage
      BY DEF Frame
    <3> HIDE DEF d
    <3>3. d \in Deltas
      BY <3>1, <3>2 DEF Deltas
    <3>4. <<d>> \in Seq(Deltas) /\ <<>> \in Seq(Deltas)
      BY <3>3
    <3> QED
      BY <3>4 DEF d
  <2> QED
    BY <2>1 DEF DeltaIn
<1>5. FrameText \in [Frames -> Seq(Nat)]
  <2>1. \A frame \in Frames : frame.text \in Seq(Nat)
    BY DEF Frames
  <2> DEFINE X == Seq(Nat)
  <2>2. <<>> \in X /\ \A frame \in Frames : frame.text \in X
    BY <2>1, EmptyTypes
  <2> HIDE DEF X
  <2>3. FrameText \in [Frames -> X]
    BY <2>2 DEF FrameText
  <2> QED
    BY <2>3 DEF X
<1>6. \A kinds : NumberIn(kinds) \in [Events -> Seq(Nat)]
  <2> SUFFICES ASSUME NEW kinds PROVE NumberIn(kinds) \in [Events -> Seq(Nat)]
    OBVIOUS
  <2>1. ASSUME NEW event \in Events
        PROVE  (IF KindOf(event) \in kinds THEN <<PayloadOf(event)[2]>> ELSE <<>>) \in Seq(Nat)
    <3> DEFINE n == PayloadOf(event)[2]
    <3>1. n \in Nat
      BY PayloadType, TokenFields
    <3> HIDE DEF n
    <3>2. <<n>> \in Seq(Nat) /\ <<>> \in Seq(Nat)
      BY <3>1
    <3> QED
      BY <3>2 DEF n
  <2> QED
    BY <2>1 DEF NumberIn
<1> QED
  BY <1>1, <1>2, <1>3, <1>4, <1>5, <1>6

\* The numbers of some kinds of events, collected.
LEMMA SaidCollected ==
  ASSUME NEW events \in Seq(Events), NEW kinds
  PROVE  Said(events, kinds) = Collect(events, NumberIn(kinds)) /\ Said(events, kinds) \in Seq(Nat)
<1>1. \A i \in DOMAIN events : events[i] \in Events
  OBVIOUS
<1>2. [i \in DOMAIN events |-> IF KindOf(events[i]) \in kinds THEN <<PayloadOf(events[i])[2]>> ELSE <<>>]
        = Mapped(events, NumberIn(kinds))
  BY <1>1 DEF Mapped, NumberIn
<1>3. Collect(events, NumberIn(kinds)) \in Seq(Nat)
  BY CollectType, CollectorTypes
<1> QED
  BY <1>2, <1>3 DEF Said, Collect

LEMMA SaidAppend ==
  ASSUME NEW events \in Seq(Events), NEW event \in Events, NEW kinds
  PROVE  Said(Append(events, event), kinds) =
           Said(events, kinds) \o (IF KindOf(event) \in kinds THEN <<PayloadOf(event)[2]>> ELSE <<>>)
<1> DEFINE more == Append(events, event)
<1>1. more \in Seq(Events)
  OBVIOUS
<1>2. Collect(more, NumberIn(kinds)) = Collect(events, NumberIn(kinds)) \o NumberIn(kinds)[event]
  BY CollectAppend, CollectorTypes
<1>3. NumberIn(kinds)[event] = IF KindOf(event) \in kinds THEN <<PayloadOf(event)[2]>> ELSE <<>>
  BY DEF NumberIn
<1> HIDE DEF more
<1>4. Said(more, kinds) = Collect(more, NumberIn(kinds)) /\ Said(events, kinds) = Collect(events, NumberIn(kinds))
  BY <1>1, SaidCollected
<1> QED
  BY <1>2, <1>3, <1>4 DEF more

LEMMA SaidEmpty ==
  ASSUME NEW kinds
  PROVE  Said(<<>>, kinds) = <<>>
<1>1. Said(<<>>, kinds) = Collect(<<>>, NumberIn(kinds))
  BY EmptyTypes, SaidCollected
<1> QED
  BY <1>1, CollectEmpty

\* What is read of an event.
LEMMA ReadEventSays ==
  ASSUME NEW event \in Events
  PROVE  LET kind == KindOf(event)
             n == PayloadOf(event)[2]
             r == ReadEvent(event)
         IN  /\ r \in Readings
             /\ r.kind = "chunk" <=> kind \in SoundKinds
             /\ r.kind = "done" <=> PayloadOf(event) = Done
             /\ r.text = IF kind \in {"text", "legacy"} THEN <<n>> ELSE <<>>
             /\ UsageIn[r] = IF kind = "usage" THEN <<UsageOf(n)>> ELSE <<>>
             /\ FinishIn[r] = IF kind = "finish" THEN <<IF n = 0 THEN "stop" ELSE "length">> ELSE <<>>
<1> DEFINE payload == PayloadOf(event)
           kind == payload[1]
           n == payload[2]
           r == ReadEvent(event)
<1>0. r \in Readings /\ kind = KindOf(event)
  BY ReadEventType DEF KindOf
<1>1. UsageIn[r] = (IF r.usage.known THEN <<r.usage>> ELSE <<>>)
      /\ FinishIn[r] = (IF r.finish = "none" THEN <<>> ELSE <<r.finish>>)
  BY <1>0 DEF UsageIn, FinishIn
<1>2. ~NoUsage.known /\ UsageOf(n).known
  BY DEF NoUsage, UsageOf, Usage
<1> DEFINE u == UsageOf(n)
<1>3. r = CASE payload = Done -> Reading("done")
            [] kind \in {"text", "legacy"} -> Chunk(<<n>>, <<>>, "none", NoUsage)
            [] kind = "finish" -> Chunk(<<>>, <<>>, IF n = 0 THEN "stop" ELSE "length", NoUsage)
            [] kind = "usage" -> Chunk(<<>>, <<>>, "none", u)
            [] kind = "bad usage" -> Chunk(<<>>, <<>>, "none", NoUsage)
            [] OTHER -> Reading("failure")
  BY DEF ReadEvent
<1>4. /\ \A text, finish, usage :
           LET c == Chunk(text, <<>>, finish, usage)
           IN  c.kind = "chunk" /\ c.text = text /\ c.finish = finish /\ c.usage = usage
      /\ \A k : LET c == Reading(k) IN c.kind = k /\ c.text = <<>> /\ c.finish = "none" /\ c.usage = NoUsage
  BY DEF Chunk, Reading, Frame
<1>5. payload = Done => kind = "[DONE]"
  BY DEF Done
<1> DEFINE Fine == /\ r.kind = "chunk" <=> kind \in SoundKinds
                   /\ r.kind = "done" <=> payload = Done
                   /\ r.text = IF kind \in {"text", "legacy"} THEN <<n>> ELSE <<>>
                   /\ UsageIn[r] = IF kind = "usage" THEN <<u>> ELSE <<>>
                   /\ FinishIn[r] = IF kind = "finish" THEN <<IF n = 0 THEN "stop" ELSE "length">> ELSE <<>>
<1>2a. u = UsageOf(n) /\ u.known
  BY <1>2
<1> HIDE DEF payload, r, u, Fine
<1>a. ASSUME payload = Done PROVE Fine
  <2>1. r = Reading("done")
    BY <1>3, <1>5, <1>a
  <2>2. r.kind = "done" /\ r.text = <<>> /\ r.finish = ("none") /\ r.usage = NoUsage
    BY <1>4, <2>1
  <2>3. UsageIn[r] = (IF kind = "usage" THEN <<u>> ELSE <<>>)
        /\ FinishIn[r] = (IF kind = "finish" THEN <<IF n = 0 THEN "stop" ELSE "length">> ELSE <<>>)
    BY <1>1, <1>2, <1>2a, <1>5, <1>a, <2>2 DEF SoundKinds
  <2> QED
    BY <1>5, <1>a, <2>2, <2>3 DEF SoundKinds, Fine
<1>b. ASSUME kind \in {"text", "legacy"} PROVE Fine
  <2>1. r = Chunk(<<n>>, <<>>, "none", NoUsage)
    BY <1>3, <1>5, <1>b
  <2>2. r.kind = "chunk" /\ r.text = <<n>> /\ r.finish = ("none") /\ r.usage = NoUsage
    BY <1>4, <2>1
  <2>3. UsageIn[r] = (IF kind = "usage" THEN <<u>> ELSE <<>>)
        /\ FinishIn[r] = (IF kind = "finish" THEN <<IF n = 0 THEN "stop" ELSE "length">> ELSE <<>>)
    BY <1>1, <1>2, <1>2a, <1>5, <1>b, <2>2 DEF SoundKinds
  <2> QED
    BY <1>5, <1>b, <2>2, <2>3 DEF SoundKinds, Fine
<1>c. ASSUME kind = "finish" PROVE Fine
  <2>1. r = Chunk(<<>>, <<>>, IF n = 0 THEN "stop" ELSE "length", NoUsage)
    BY <1>3, <1>5, <1>c
  <2>2. r.kind = "chunk" /\ r.text = <<>> /\ r.finish = (IF n = 0 THEN "stop" ELSE "length") /\ r.usage = NoUsage
    BY <1>4, <2>1
  <2>3. UsageIn[r] = (IF kind = "usage" THEN <<u>> ELSE <<>>)
        /\ FinishIn[r] = (IF kind = "finish" THEN <<IF n = 0 THEN "stop" ELSE "length">> ELSE <<>>)
    BY <1>1, <1>2, <1>2a, <1>5, <1>c, <2>2 DEF SoundKinds
  <2> QED
    BY <1>5, <1>c, <2>2, <2>3 DEF SoundKinds, Fine
<1>d. ASSUME kind = "usage" PROVE Fine
  <2>1. r = Chunk(<<>>, <<>>, "none", u)
    BY <1>3, <1>5, <1>d
  <2>2. r.kind = "chunk" /\ r.text = <<>> /\ r.finish = ("none") /\ r.usage = u
    BY <1>4, <2>1
  <2>3. UsageIn[r] = (IF kind = "usage" THEN <<u>> ELSE <<>>)
        /\ FinishIn[r] = (IF kind = "finish" THEN <<IF n = 0 THEN "stop" ELSE "length">> ELSE <<>>)
    BY <1>1, <1>2, <1>2a, <1>5, <1>d, <2>2 DEF SoundKinds
  <2> QED
    BY <1>5, <1>d, <2>2, <2>3 DEF SoundKinds, Fine
<1>e. ASSUME kind = "bad usage" PROVE Fine
  <2>1. r = Chunk(<<>>, <<>>, "none", NoUsage)
    BY <1>3, <1>5, <1>e
  <2>2. r.kind = "chunk" /\ r.text = <<>> /\ r.finish = ("none") /\ r.usage = NoUsage
    BY <1>4, <2>1
  <2>3. UsageIn[r] = (IF kind = "usage" THEN <<u>> ELSE <<>>)
        /\ FinishIn[r] = (IF kind = "finish" THEN <<IF n = 0 THEN "stop" ELSE "length">> ELSE <<>>)
    BY <1>1, <1>2, <1>2a, <1>5, <1>e, <2>2 DEF SoundKinds
  <2> QED
    BY <1>5, <1>e, <2>2, <2>3 DEF SoundKinds, Fine
<1>f. ASSUME payload # Done /\ kind \notin SoundKinds PROVE Fine
  <2>1. r = Reading("failure")
    BY <1>3, <1>f DEF SoundKinds
  <2>2. r.kind = "failure" /\ r.text = <<>> /\ r.finish = ("none") /\ r.usage = NoUsage
    BY <1>4, <2>1
  <2>3. UsageIn[r] = (IF kind = "usage" THEN <<u>> ELSE <<>>)
        /\ FinishIn[r] = (IF kind = "finish" THEN <<IF n = 0 THEN "stop" ELSE "length">> ELSE <<>>)
    BY <1>1, <1>2, <1>2a, <1>5, <1>f, <2>2 DEF SoundKinds
  <2> QED
    BY <1>5, <1>f, <2>2, <2>3 DEF SoundKinds, Fine
<1>6. Fine
  BY <1>a, <1>b, <1>c, <1>d, <1>e, <1>f DEF SoundKinds
<1> QED
  BY <1>0, <1>6 DEF Fine, payload, r, u

Read1 == [event \in Events |-> ReadEvent(event)]

\* The readings of a stream are those of its events, one for one.
LEMMA ReadableMapped ==
  ASSUME NEW events \in Seq(Events)
  PROVE  /\ Readable(events) = Mapped(events, Read1)
         /\ Readable(events) \in Seq(Readings)
         /\ Len(Readable(events)) = Len(events)
         /\ \A i \in 1..Len(events) : Readable(events)[i] = ReadEvent(events[i]) /\ events[i] \in Events
<1>1. \A i \in DOMAIN events : events[i] \in Events
  OBVIOUS
<1>2. Readable(events) = Mapped(events, Read1)
  BY <1>1 DEF Readable, Mapped, Read1
<1>3. Read1 \in [Events -> Readings]
  BY ReadEventType DEF Read1
<1>4. Mapped(events, Read1) \in Seq(Readings)
  BY <1>3, MappedType
<1>5. Len(Mapped(events, Read1)) = Len(events) /\ \A i \in 1..Len(events) : Mapped(events, Read1)[i] = Read1[events[i]]
  BY MappedMembers
<1>6. \A i \in 1..Len(events) : events[i] \in Events /\ Read1[events[i]] = ReadEvent(events[i])
  BY ElementOfSeq DEF Read1
<1> QED
  BY <1>2, <1>4, <1>5, <1>6

LEMMA ReadableConcat ==
  ASSUME NEW events \in Seq(Events), NEW more \in Seq(Events)
  PROVE  Readable(events \o more) = Readable(events) \o Readable(more)
<1> DEFINE all == events \o more
<1>1. all \in Seq(Events)
  OBVIOUS
<1>2. Mapped(all, Read1) = Mapped(events, Read1) \o Mapped(more, Read1)
  BY MappedConcat
<1> HIDE DEF all
<1>3. /\ Readable(all) = Mapped(all, Read1) /\ Readable(events) = Mapped(events, Read1)
      /\ Readable(more) = Mapped(more, Read1)
  BY <1>1, ReadableMapped
<1> QED
  BY <1>2, <1>3 DEF all

LEMMA ReadableAppend ==
  ASSUME NEW events \in Seq(Events), NEW event \in Events
  PROVE  /\ Readable(Append(events, event)) = Append(Readable(events), ReadEvent(event))
         /\ Append(events, event) \in Seq(Events)
<1> DEFINE all == Append(events, event)
<1>1. all \in Seq(Events)
  OBVIOUS
<1>2. Mapped(all, Read1) = Append(Mapped(events, Read1), Read1[event])
  BY MappedAppend
<1>3. Read1[event] = ReadEvent(event)
  BY DEF Read1
<1> HIDE DEF all
<1>4. Readable(all) = Mapped(all, Read1) /\ Readable(events) = Mapped(events, Read1)
  BY <1>1, ReadableMapped
<1> QED
  BY <1>1, <1>2, <1>3, <1>4 DEF all

LEMMA ConcatMembers ==
  ASSUME NEW A, NEW s \in Seq(A), NEW t \in Seq(A)
  PROVE  /\ s \o t \in Seq(A)
         /\ Len(s) \in Nat /\ Len(t) \in Nat
         /\ Len(s \o t) = Len(s) + Len(t)
         /\ \A i \in 1..Len(s) : (s \o t)[i] = s[i] /\ s[i] \in A
         /\ \A i \in 1..Len(t) : (s \o t)[Len(s) + i] = t[i] /\ t[i] \in A
OBVIOUS

LEMMA LastOfConcat ==
  ASSUME NEW A, NEW s \in Seq(A), NEW x \in A
  PROVE  /\ s \o <<x>> \in Seq(A)
         /\ s \o <<x>> # <<>>
         /\ Last(s \o <<x>>) = x
         /\ \A d : LastOr(s \o <<x>>, d) = x
<1> DEFINE e == <<x>>
           t == s \o e
<1>1. e \in Seq(A) /\ Len(e) = 1 /\ e[1] = x
  OBVIOUS
<1>2. t \in Seq(A) /\ Len(t) = Len(s) + 1 /\ t[Len(s) + 1] = x /\ Len(s) \in Nat
  OBVIOUS
<1> HIDE DEF t, e
<1>3. t # <<>>
  BY <1>2
<1> QED
  BY <1>2, <1>3 DEF Last, LastOr, e, t

LEMMA OpenAiText ==
  ASSUME NEW events \in Seq(Events)
  PROVE  Collect(Readable(events), TextIn) = Said(events, {"text", "legacy"})
<1> DEFINE kinds == {"text", "legacy"}
           S == {s \in Seq(Events) : Collect(Readable(s), TextIn) = Said(s, kinds)}
<1>1. <<>> \in S
  <2>1. Readable(<<>>) = <<>>
    BY DEF Readable
  <2>2. Said(<<>>, kinds) = <<>> /\ Collect(<<>>, TextIn) = <<>> /\ <<>> \in Seq(Events)
    BY SaidEmpty, CollectEmpty, EmptyTypes
  <2> QED
    BY <2>1, <2>2
<1>2. ASSUME NEW s \in Seq(Events), NEW event \in Events, s \in S PROVE Append(s, event) \in S
  <2> DEFINE r == Readable(s)
             x == ReadEvent(event)
  <2>1. r \in Seq(Readings) /\ x \in Readings /\ Readable(Append(s, event)) = Append(r, x)
        /\ Append(s, event) \in Seq(Events)
    BY ReadableMapped, ReadEventType, ReadableAppend
  <2>2. TextIn[x] = IF KindOf(event) \in kinds THEN <<PayloadOf(event)[2]>> ELSE <<>>
    <3>1. TextIn[x] = x.text
      BY <2>1 DEF TextIn
    <3> QED
      BY <3>1, ReadEventSays
  <2> HIDE DEF r, x
  <2>3. Collect(Append(r, x), TextIn) = Collect(r, TextIn) \o TextIn[x]
    BY <2>1, CollectAppend, CollectorTypes
  <2>4. Said(Append(s, event), kinds) =
          Said(s, kinds) \o (IF KindOf(event) \in kinds THEN <<PayloadOf(event)[2]>> ELSE <<>>)
    BY SaidAppend
  <2>5. Collect(r, TextIn) = Said(s, kinds)
    BY <1>2 DEF r
  <2> HIDE DEF kinds
  <2>6. Collect(Readable(Append(s, event)), TextIn) = Said(Append(s, event), kinds)
    BY <2>1, <2>2, <2>3, <2>4, <2>5
  <2> QED
    BY <2>1, <2>6
<1>3. Seq(Events) \subseteq S
  <2> HIDE DEF S
  <2> QED
    BY <1>1, <1>2, SeqInduction
<1> QED
  BY <1>3

\* What the last usage of an OpenAI stream is.
LEMMA OpenAiUsage ==
  ASSUME NEW events \in Seq(Events)
  PROVE  LET usages == Said(events, {"usage"})
         IN  LastOr(Collect(Readable(events), UsageIn), NoUsage) =
               IF usages = <<>> THEN NoUsage ELSE UsageOf(Last(usages))
<1> DEFINE kinds == {"usage"}
           Held(s) == LastOr(Collect(Readable(s), UsageIn), NoUsage) =
                        IF Said(s, kinds) = <<>> THEN NoUsage ELSE UsageOf(Last(Said(s, kinds)))
           S == {s \in Seq(Events) : Held(s)}
<1>1. <<>> \in S
  <2>1. Readable(<<>>) = <<>>
    BY DEF Readable
  <2>2. Said(<<>>, kinds) = <<>> /\ Collect(<<>>, UsageIn) = <<>> /\ <<>> \in Seq(Events)
    BY SaidEmpty, CollectEmpty, EmptyTypes
  <2> QED
    BY <2>1, <2>2 DEF LastOr
<1>2. ASSUME NEW s \in Seq(Events), NEW event \in Events, s \in S PROVE Append(s, event) \in S
  <2> DEFINE r == Readable(s)
             x == ReadEvent(event)
             n == PayloadOf(event)[2]
             more == Append(s, event)
  <2>1. r \in Seq(Readings) /\ x \in Readings /\ Readable(Append(s, event)) = Append(r, x)
        /\ Append(s, event) \in Seq(Events)
    BY ReadableMapped, ReadEventType, ReadableAppend
  <2>2. UsageIn[x] = IF KindOf(event) \in kinds THEN <<UsageOf(n)>> ELSE <<>>
    BY ReadEventSays
  <2>n. n \in Nat
    BY PayloadType, TokenFields
  <2> HIDE DEF r, x, n
  <2> DEFINE c == Collect(r, UsageIn)
             d == Said(s, kinds)
  <2>3. Collect(Append(r, x), UsageIn) = c \o UsageIn[x]
    BY <2>1, CollectAppend, CollectorTypes
  <2>4. Said(more, kinds) = d \o (IF KindOf(event) \in kinds THEN <<n>> ELSE <<>>)
    BY SaidAppend DEF n
  <2>5. LastOr(c, NoUsage) = IF d = <<>> THEN NoUsage ELSE UsageOf(Last(d))
    BY <1>2 DEF r
  <2>6. c \in Seq(Usages) /\ d \in Seq(Nat) /\ <<>> \in Seq(Usages) /\ <<>> \in Seq(Nat)
    BY <2>1, CollectType, CollectorTypes, SaidCollected, EmptyTypes
  <2> HIDE DEF c, d, more, kinds
  <2>7. CASE KindOf(event) \in kinds
    <3>1. UsageOf(n) \in Usages
      <4>1. 2 * n \in Nat /\ 5 * n \in Nat
        BY <2>n
      <4> QED
        BY <4>1, FrameTypes DEF UsageOf
    <3>2. LastOr(c \o <<UsageOf(n)>>, NoUsage) = UsageOf(n)
      BY <2>6, <3>1, LastOfConcat
    <3>3. d \o <<n>> # <<>> /\ Last(d \o <<n>>) = n
      BY <2>6, <2>n, LastOfConcat
    <3> QED
      BY <2>1, <2>2, <2>3, <2>4, <2>7, <3>2, <3>3 DEF more
  <2>8. CASE KindOf(event) \notin kinds
    <3>1. c \o <<>> = c /\ d \o <<>> = d
      BY <2>6
    <3> QED
      BY <2>1, <2>2, <2>3, <2>4, <2>5, <2>8, <3>1 DEF more
  <2> QED
    BY <2>7, <2>8 DEF more
<1>3. Seq(Events) \subseteq S
  <2> HIDE DEF S
  <2> QED
    BY <1>1, <1>2, SeqInduction
<1> QED
  BY <1>3

\* What an OpenAI stream stopped for.
LEMMA OpenAiFinish ==
  ASSUME NEW events \in Seq(Events)
  PROVE  LET ends == Said(events, {"finish"})
         IN  LastOr(Collect(Readable(events), FinishIn), "none") =
               IF ends = <<>> THEN "none" ELSE IF Last(ends) = 0 THEN "stop" ELSE "length"
<1> DEFINE kinds == {"finish"}
           Name(n) == IF n = 0 THEN "stop" ELSE "length"
           Held(s) == LastOr(Collect(Readable(s), FinishIn), "none") =
                        IF Said(s, kinds) = <<>> THEN "none" ELSE Name(Last(Said(s, kinds)))
           S == {s \in Seq(Events) : Held(s)}
<1>1. <<>> \in S
  <2>1. Readable(<<>>) = <<>>
    BY DEF Readable
  <2>2. Said(<<>>, kinds) = <<>> /\ Collect(<<>>, FinishIn) = <<>> /\ <<>> \in Seq(Events)
    BY SaidEmpty, CollectEmpty, EmptyTypes
  <2> QED
    BY <2>1, <2>2 DEF LastOr
<1>2. ASSUME NEW s \in Seq(Events), NEW event \in Events, s \in S PROVE Append(s, event) \in S
  <2> DEFINE r == Readable(s)
             x == ReadEvent(event)
             n == PayloadOf(event)[2]
             more == Append(s, event)
             name == Name(n)
  <2>1. r \in Seq(Readings) /\ x \in Readings /\ Readable(Append(s, event)) = Append(r, x)
        /\ Append(s, event) \in Seq(Events)
    BY ReadableMapped, ReadEventType, ReadableAppend
  <2>2. FinishIn[x] = IF KindOf(event) \in kinds THEN <<name>> ELSE <<>>
    BY ReadEventSays
  <2>n. n \in Nat /\ name \in Finishes
    BY PayloadType, TokenFields DEF Finishes
  <2> HIDE DEF r, x, n
  <2> DEFINE c == Collect(r, FinishIn)
             d == Said(s, kinds)
  <2>3. Collect(Append(r, x), FinishIn) = c \o FinishIn[x]
    BY <2>1, CollectAppend, CollectorTypes
  <2>4. Said(more, kinds) = d \o (IF KindOf(event) \in kinds THEN <<n>> ELSE <<>>)
    BY SaidAppend DEF n
  <2>5. LastOr(c, "none") = IF d = <<>> THEN "none" ELSE Name(Last(d))
    BY <1>2 DEF r
  <2>6. c \in Seq(Finishes) /\ d \in Seq(Nat) /\ <<>> \in Seq(Nat)
    BY <2>1, CollectType, CollectorTypes, SaidCollected, EmptyTypes
  <2>9. name = Name(n)
    OBVIOUS
  <2> HIDE DEF c, d, more, kinds, name, Name
  <2>7. CASE KindOf(event) \in kinds
    <3>2. LastOr(c \o <<name>>, "none") = name
      BY <2>6, <2>n, LastOfConcat
    <3>3. d \o <<n>> # <<>> /\ Last(d \o <<n>>) = n
      BY <2>6, <2>n, LastOfConcat
    <3> QED
      BY <2>1, <2>2, <2>3, <2>4, <2>7, <2>9, <3>2, <3>3 DEF more
  <2>8. CASE KindOf(event) \notin kinds
    <3>1. c \o <<>> = c /\ d \o <<>> = d
      BY <2>6
    <3> QED
      BY <2>1, <2>2, <2>3, <2>4, <2>5, <2>8, <3>1 DEF more
  <2> QED
    BY <2>7, <2>8 DEF more
<1>3. Seq(Events) \subseteq S
  <2> HIDE DEF S
  <2> QED
    BY <1>1, <1>2, SeqInduction
<1> QED
  BY <1>3

\* Whether an event ends what a stream says.
Ends(event) == IF Anthropic THEN PayloadOf(event) = Done ELSE KindOf(event) \notin SoundKinds

\* The sound part of a stream is cut before the first event that ends it.
LEMMA SoundIs ==
  ASSUME NEW events \in Seq(Events), NEW m \in 0..Len(events), \A i \in 1..m : ~Ends(events[i]),
         m < Len(events) => Ends(events[m + 1])
  PROVE  Sound(events) = SubSeq(events, 1, m)
<1> DEFINE bad == {i \in DOMAIN events : Ends(events[i])}
<1>1. Len(events) \in Nat /\ DOMAIN events = 1..Len(events)
  OBVIOUS
<1>2. Sound(events) = IF bad = {} THEN events ELSE SubSeq(events, 1, Min(bad) - 1)
  BY DEF Sound, Ends, SoundKinds
<1>3. CASE m = Len(events)
  <2>1. bad = {}
    BY <1>1, <1>3
  <2>2. SubSeq(events, 1, Len(events)) = events
    OBVIOUS
  <2> QED
    BY <1>2, <1>3, <2>1, <2>2
<1>4. CASE m < Len(events)
  <2>1. m + 1 \in bad /\ \A i \in bad : m + 1 <= i
    <3>1. m + 1 \in bad
      BY <1>1, <1>4
    <3>2. ASSUME NEW i \in bad PROVE m + 1 <= i
      <4>1. i \in Nat /\ i >= 1 /\ m \in Nat
        BY <1>1
      <4>2. ~(i \in 1..m)
        OBVIOUS
      <4> QED
        BY <4>1, <4>2
    <3> QED
      BY <3>1, <3>2
  <2>2. bad \subseteq Nat
    BY <1>1
  <2> HIDE DEF bad
  <2>3. Min(bad) = m + 1
    <3>1. \A x \in bad : (\A y \in bad : x <= y) => x = m + 1
      BY <2>1, <2>2
    <3> QED
      BY <2>1, <3>1 DEF Min
  <2>4. (m + 1) - 1 = m
    BY <1>1
  <2> QED
    BY <1>2, <2>1, <2>3, <2>4
<1>5. m = Len(events) \/ m < Len(events)
  <2> DEFINE n == Len(events)
  <2>1. n \in Nat /\ m \in 0..n
    BY <1>1
  <2> HIDE DEF n
  <2>2. m = n \/ m < n
    BY <2>1
  <2> QED
    BY <2>2 DEF n
<1> QED
  BY <1>3, <1>4, <1>5

\* There is such a place in every stream.
LEMMA SoundCut ==
  ASSUME NEW events \in Seq(Events)
  PROVE  \E m \in 0..Len(events) :
            /\ \A i \in 1..m : ~Ends(events[i])
            /\ m < Len(events) => Ends(events[m + 1])
            /\ Sound(events) = SubSeq(events, 1, m)
<1> DEFINE bad == {i \in 1..Len(events) : Ends(events[i])}
<1>1. Len(events) \in Nat
  OBVIOUS
<1>2. CASE bad = {}
  <2>1. Len(events) \in 0..Len(events) /\ \A i \in 1..Len(events) : ~Ends(events[i])
    BY <1>1, <1>2
  <2> QED
    BY <1>1, <2>1, SoundIs
<1>3. CASE bad # {}
  <2>1. PICK n \in bad : \A i \in bad : n <= i
    <3>1. bad \in SUBSET Nat
      BY <1>1
    <3> HIDE DEF bad
    <3> QED
      BY <1>3, <3>1, LeastElement
  <2> DEFINE m == n - 1
  <2>2. m \in 0..Len(events) /\ m + 1 = n /\ Ends(events[m + 1]) /\ n \in 1..Len(events)
    BY <1>1
  <2>3. \A i \in 1..m : ~Ends(events[i])
    <3> SUFFICES ASSUME NEW i \in 1..m, Ends(events[i]) PROVE FALSE
      OBVIOUS
    <3>1. i \in bad /\ ~(n <= i)
      BY <1>1, <2>2
    <3> QED
      BY <2>1, <3>1
  <2> HIDE DEF m
  <2>4. Sound(events) = SubSeq(events, 1, m)
    BY <2>2, <2>3, SoundIs
  <2> QED
    BY <2>2, <2>3, <2>4
<1> QED
  BY <1>2, <1>3

LEMMA SoundType ==
  ASSUME NEW events \in Seq(Events)
  PROVE  Sound(events) \in Seq(Events)
<1>1. PICK m \in 0..Len(events) : Sound(events) = SubSeq(events, 1, m)
  BY SoundCut
<1>2. SubSeq(events, 1, m) \in Seq(Events)
  OBVIOUS
<1> QED
  BY <1>1, <1>2

LEMMA ChunksAreReadings ==
  ASSUME NEW h \in Seq(ChunkReadings)
  PROVE  /\ h \in Seq(Readings) /\ Len(h) \in Nat
         /\ \A i \in 1..Len(h) : h[i] \in Readings /\ h[i].kind = "chunk"
<1>1. ChunkReadings \subseteq Readings /\ \A r \in ChunkReadings : r.kind = "chunk"
  BY DEF ChunkReadings
<1> HIDE DEF ChunkReadings
<1>2. h \in Seq(Readings)
  BY <1>1, SeqMonotonic
<1>3. Len(h) \in Nat /\ \A i \in 1..Len(h) : h[i] \in ChunkReadings
  OBVIOUS
<1> QED
  BY <1>1, <1>2, <1>3

\* The chunks an endpoint has read of an OpenAI stream when it reads something else, or nothing.
LEMMA OpenAiHeard ==
  ASSUME ~Anthropic, NEW events \in Seq(Events), NEW h \in Seq(ChunkReadings), NEW more \in Seq(Readings),
         more # <<>> => more[1].kind # "chunk",
         NEW tail \in {<<>>, <<Reading("failure")>>}, h \o more = Readable(events) \o tail
  PROVE  /\ h = Readable(Sound(events))
         /\ more # <<>> /\ more[1].kind = "done" => Finished(events)
         /\ more = <<>> => tail = <<>> /\ Sound(events) = events
<1> DEFINE n == Len(h)
           N == Len(events)
           r == Readable(events)
           k == Len(tail)
<1>0. tail \in Seq(Readings) /\ k \in {0, 1} /\ (k = 0 => tail = <<>>)
      /\ (k = 1 => tail[1].kind = "failure" /\ tail = <<tail[1]>>)
  <2> DEFINE f == Reading("failure")
  <2>1. f \in Readings /\ f.kind = "failure"
    BY FrameTypes DEF Reading, Frame
  <2> HIDE DEF f
  <2>2. tail = <<>> \/ tail = <<f>>
    BY DEF f
  <2>3. CASE tail = <<>>
    BY <2>3, EmptyTypes
  <2>4. CASE tail = <<f>>
    BY <2>1, <2>4
  <2> QED
    BY <2>2, <2>3, <2>4
<1>1. /\ h \in Seq(Readings) /\ n \in Nat
      /\ \A i \in 1..n : h[i] \in Readings /\ h[i].kind = "chunk"
  BY ChunksAreReadings
<1>2. r \in Seq(Readings) /\ Len(r) = N /\ N \in Nat
      /\ \A i \in 1..N : r[i] = ReadEvent(events[i]) /\ events[i] \in Events
  BY ReadableMapped
<1> HIDE DEF r
<1> DEFINE a == h \o more
           j == Len(more)
<1>3. /\ Len(a) = n + j /\ j \in Nat
      /\ \A i \in 1..n : a[i] = h[i]
      /\ \A i \in 1..j : a[n + i] = more[i]
  <2>1. h \in Seq(Readings) /\ more \in Seq(Readings)
    BY <1>1
  <2> QED
    BY ONLY <2>1
<1>4. /\ Len(a) = N + k
      /\ \A i \in 1..N : a[i] = r[i]
      /\ \A i \in 1..k : a[N + i] = tail[i]
  <2> DEFINE b == r \o tail
  <2>1. /\ Len(b) = Len(r) + k
        /\ \A i \in 1..Len(r) : b[i] = r[i]
        /\ \A i \in 1..k : b[Len(r) + i] = tail[i]
    <3>1. r \in Seq(Readings) /\ tail \in Seq(Readings)
      BY <1>0, <1>2
    <3> QED
      BY ONLY <3>1
  <2>2. a = b
    BY DEF r
  <2> HIDE DEF a, b
  <2> QED
    BY <1>2, <2>1, <2>2
<1>5. more # <<>> <=> j # 0
  BY EmptySeq
<1> HIDE DEF a, n, N, j, k
<1>6. n <= N
  <2> SUFFICES ASSUME ~(n <= N) PROVE FALSE
    OBVIOUS
  <2>1. k = 1 /\ N + 1 \in 1..n
    BY <1>0, <1>1, <1>2, <1>3, <1>4
  <2>2. a[N + 1] = tail[1] /\ a[N + 1] = h[N + 1]
    BY <1>3, <1>4, <2>1
  <2> QED
    BY <1>0, <1>1, <2>1, <2>2
<1>7. \A i \in 1..n : h[i] = ReadEvent(events[i]) /\ i \in 1..N
  <2> SUFFICES ASSUME NEW i \in 1..n PROVE h[i] = ReadEvent(events[i]) /\ i \in 1..N
    OBVIOUS
  <2>1. i \in 1..N
    BY <1>1, <1>2, <1>6
  <2> QED
    BY <1>2, <1>3, <1>4, <2>1
<1>8. \A i \in 1..n : ~Ends(events[i])
  BY <1>1, <1>2, <1>7, ReadEventSays, ZenonT(30) DEF Ends
<1>9. n < N => j # 0 /\ more[1] = ReadEvent(events[n + 1]) /\ n + 1 \in 1..N
  <2> SUFFICES ASSUME n < N PROVE j # 0 /\ more[1] = ReadEvent(events[n + 1]) /\ n + 1 \in 1..N
    OBVIOUS
  <2>1. n + 1 \in 1..N /\ 1 \in 1..j
    BY <1>0, <1>1, <1>2, <1>3, <1>4
  <2>2. a[n + 1] = more[1] /\ a[n + 1] = r[n + 1]
    BY <1>3, <1>4, <2>1
  <2> QED
    BY <1>2, <1>3, <2>1, <2>2
<1>10. n < N => Ends(events[n + 1])
  BY <1>2, <1>5, <1>9, ReadEventSays DEF Ends
<1>11. Sound(events) = SubSeq(events, 1, n)
  <2>1. n \in 0..Len(events)
    BY <1>1, <1>2, <1>6 DEF N
  <2> QED
    BY <1>8, <1>10, <2>1, SoundIs DEF N
<1>12. h = Readable(Sound(events))
  <2> DEFINE s == SubSeq(events, 1, n)
  <2>1. s \in Seq(Events) /\ Len(s) = n /\ \A i \in 1..n : s[i] = events[i]
    BY <1>1, <1>2, <1>6 DEF N
  <2> HIDE DEF s
  <2>2. Readable(s) \in Seq(Readings) /\ Len(Readable(s)) = n /\ \A i \in 1..n : Readable(s)[i] = ReadEvent(s[i])
    BY <2>1, ReadableMapped
  <2>3. h = Readable(s)
    BY <1>1, <1>7, <2>1, <2>2, SeqEqual DEF n
  <2> QED
    BY <1>11, <2>3 DEF s
<1>13. more # <<>> /\ more[1].kind = "done" => Finished(events)
  <2> SUFFICES ASSUME j # 0, more[1].kind = "done" PROVE Finished(events)
    BY <1>5
  <2>1. n < N
    <3> SUFFICES ASSUME ~(n < N) PROVE FALSE
      OBVIOUS
    <3>1. n = N /\ k = 1 /\ 1 \in 1..j /\ 1 \in 1..k
      BY <1>0, <1>1, <1>2, <1>3, <1>4, <1>6
    <3>2. a[n + 1] = more[1] /\ a[N + 1] = tail[1]
      BY <1>3, <1>4, <3>1
    <3> QED
      BY <1>0, <3>1, <3>2
  <2>2. events[n + 1] \in Events /\ ReadEvent(events[n + 1]).kind = "done" /\ n + 1 \in DOMAIN events
    BY <1>2, <1>9, <2>1 DEF N
  <2>3. KindOf(events[n + 1]) = "[DONE]"
    <3>1. PayloadOf(events[n + 1]) = Done
      BY <2>2, ReadEventSays
    <3> QED
      BY <3>1 DEF KindOf, Done
  <2>4. events[n + 1] \in Range(events)
    BY <2>2 DEF Range
  <2> QED
    BY <2>3, <2>4 DEF Finished
<1>14. more = <<>> => tail = <<>> /\ Sound(events) = events
  <2> SUFFICES ASSUME j = 0 PROVE tail = <<>> /\ Sound(events) = events
    BY <1>5
  <2>1. n = N /\ k = 0
    BY <1>0, <1>1, <1>2, <1>3, <1>4, <1>6
  <2>2. SubSeq(events, 1, Len(events)) = events
    OBVIOUS
  <2> QED
    BY <1>0, <1>11, <2>1, <2>2 DEF N
<1> QED
  BY <1>12, <1>13, <1>14

-----------------------------------------------------------------------------
(* What the client was told of a stream.                                   *)

\* What a reader of the events makes of them, if no event and not the style changes.
LEMMA EventsKept ==
  ASSUME UNCHANGED <<sent, parsed>>
  PROVE  Sound(parsed)' = Sound(parsed) /\ Anthropic' = Anthropic /\ (Finished(parsed)' <=> Finished(parsed))
<1>1. Anthropic' = Anthropic
  BY DEF Anthropic
<1>2. Sound(parsed)' = Sound(parsed)
  BY DEF Sound, Anthropic
<1>3. Finished(parsed)' <=> Finished(parsed)
  BY DEF Finished, Anthropic
<1> QED
  BY <1>1, <1>2, <1>3

LEMMA HeardKept ==
  ASSUME UNCHANGED bridge, pump'.received = pump.received, NEW h, HeardInv(h)
  PROVE  HeardInv(h)'
BY DEF HeardInv

LEMMA AdapterKept ==
  ASSUME UNCHANGED <<sent, parsed, adapter>>, AdapterInv
  PROVE  AdapterInv'
<1>1. Sound(parsed)' = Sound(parsed)
  BY EventsKept
<1> QED
  BY <1>1 DEF AdapterInv

LEMMA SourceKept ==
  ASSUME UNCHANGED <<sent, parsed, adapter, queue>>, pump'.state = pump.state, Complete' => Complete,
         NEW h, IF Anthropic THEN AnthropicInv(h) ELSE OpenAiInv(h)
  PROVE  (IF Anthropic THEN AnthropicInv(h) ELSE OpenAiInv(h))'
<1>1. CASE Anthropic
  <2>1. Anthropic' /\ AdapterInv'
    BY <1>1, EventsKept, AdapterKept DEF AnthropicInv
  <2>2. Sound(parsed)' = Sound(parsed)
    BY EventsKept
  <2>3. AnthropicInv(h)'
    BY <1>1, <2>1, <2>2 DEF AnthropicInv
  <2> QED
    BY <2>1, <2>3
<1>2. CASE ~Anthropic
  <2>1. ~Anthropic' /\ Sound(parsed)' = Sound(parsed) /\ (Finished(parsed)' <=> Finished(parsed))
    BY <1>2, EventsKept
  <2>2. OpenAiInv(h)'
    BY <1>2, <2>1 DEF OpenAiInv, Readable
  <2> QED
    BY <2>1, <2>2
<1> QED
  BY <1>1, <1>2

LEMMA FramesKept ==
  ASSUME UNCHANGED call
  PROVE  /\ \A h : ToldOf(h)' = ToldOf(h)
         /\ UNCHANGED bridge => LastFrames' = LastFrames
BY DEF ToldOf, LastFrames

LEMMA StreamInit == PublicCallInit => StreamInv
BY DEF PublicCallInit, StreamInv

\* While the stream is open, what tells nothing and reads nothing leaves everything in its place.
LEMMA StreamKept ==
  ASSUME StreamInv, stage = "streaming", pump.state # "over",
         UNCHANGED <<stage, call, sent, parsed, adapter, queue, bridge, frames, replay>>,
         pump'.state = pump.state, pump'.received = pump.received,
         charge' = charge \/ charge.state = "none"
  PROVE  StreamInv'
<1>1. PICK h \in Seq(ChunkReadings) :
        /\ HeardInv(h)
        /\ ToldInv(h)
        /\ sent # Unsent /\ call.stream => IF Anthropic THEN AnthropicInv(h) ELSE OpenAiInv(h)
  BY DEF StreamInv
<1>2. HeardInv(h)'
  BY <1>1, HeardKept
<1>3. Complete' <=> Complete
  BY DEF Complete
<1>4. ToldInv(h)'
  <2>1. ToldOf(h)' = ToldOf(h) /\ LastFrames' = LastFrames
    BY FramesKept
  <2>2. frames = ToldOf(h) /\ (replay = <<>> \/ /\ charge.state = "settled"
                                                /\ pump.state = "closing"
                                                /\ replay = ToldOf(h) \o LastFrames)
    BY <1>1 DEF ToldInv
  <2> QED
    BY <2>1, <2>2 DEF ToldInv
<1>5. (sent # Unsent /\ call.stream => IF Anthropic THEN AnthropicInv(h) ELSE OpenAiInv(h))'
  BY <1>1, <1>3, SourceKept
<1> QED
  BY <1>2, <1>4, <1>5 DEF StreamInv

\* A stream that begins has nothing yet.
LEMMA EmptyHeard ==
  <<>> \in Seq(ChunkReadings) /\ ToldOf(<<>>) = <<>>
BY DEF ToldOf

LEMMA StreamOpens ==
  ASSUME ControlInv, NEW newline, NEW start, OpenStream(newline, start)
  PROVE  StreamInv'
<1>1. /\ stage = "sent" /\ stage' = "streaming"
      /\ UNCHANGED <<call, sent, parsed, adapter, queue, pump, bridge, frames, charge, replay>>
  BY DEF OpenStream, tellVars
<1>2. /\ parsed' = <<>> /\ adapter' = NewAdapter /\ queue' = <<>> /\ pump' = NewPump /\ bridge' = NewBridge
      /\ frames' = <<>> /\ replay' = <<>>
  BY <1>1 DEF ControlInv, Pristine
<1>3. HeardInv(<<>>)'
  BY <1>2, EmptyHeard, CollectEmpty DEF HeardInv, LastOr, NewPump, NewBridge
<1>4. ToldInv(<<>>)'
  BY <1>1, <1>2 DEF ToldInv, ToldOf, NewPump
<1>5. Sound(parsed)' = <<>>
  <2>1. Sound(parsed)' = parsed'
    BY <1>2 DEF Sound
  <2> QED
    BY <1>2, <2>1
<1>6. \A kinds : Said(<<>>, kinds) = <<>>
  BY SaidEmpty
<1>7. AnthropicInv(<<>>)'
  <2>1. AdapterInv'
    BY <1>2, <1>5, <1>6 DEF AdapterInv, NewAdapter, LastOr
  <2>2. <<>> \o <<>> = <<>> /\ ~Complete'
    BY <1>1, <1>2 DEF Complete, NewPump
  <2> QED
    BY <1>2, <1>5, <1>6, <2>1, <2>2, CollectEmpty, EmptyHeard DEF AnthropicInv, NewAdapter, NewPump, LastOr
<1>8. OpenAiInv(<<>>)'
  <2>1. Readable(parsed)' = <<>>
    BY <1>2 DEF Readable
  <2>2. <<>> \o <<>> = <<>>
    OBVIOUS
  <2> QED
    BY <1>2, <2>1, <2>2 DEF OpenAiInv, NewPump
<1> QED
  BY <1>3, <1>4, <1>7, <1>8, EmptyHeard DEF StreamInv

\* A call that ends before its stream begins has told a body at most.
LEMMA NeverStreamed ==
  ASSUME stage' = "over", pump' = NewPump, bridge' = NewBridge, ~(sent' # Unsent /\ call'.stream),
         ToldInv(<<>>)'
  PROVE  StreamInv'
<1>1. HeardInv(<<>>)'
  BY EmptyHeard, CollectEmpty DEF HeardInv, LastOr, NewPump, NewBridge
<1> QED
  BY <1>1, EmptyHeard DEF StreamInv

LEMMA BodyTold ==
  ASSUME RequestInv, ControlInv, NEW answer \in Answers, AnswerBody(answer)
  PROVE  StreamInv'
<1>1. /\ stage = "sent" /\ ~call.stream /\ stage' = "over" /\ UNCHANGED <<call, pump, bridge>>
      /\ \/ UNCHANGED <<frames, replay>>
         \/ \E source \in {"provider", "estimate"}, usage \in Usages, text \in Seq(Nat),
               kind \in {"completed", "incomplete"} :
              /\ usage = Usage(usage.prompt, usage.completion)
              /\ charge' = Charge(source, usage)
              /\ frames' = <<Frame(kind, text, usage)>>
              /\ replay' \in {<<>>, frames'}
  BY AnswerCases DEF streamVars
<1>2. pump = NewPump /\ bridge = NewBridge /\ frames = <<>> /\ replay = <<>>
  BY <1>1 DEF ControlInv, Pristine
<1>3. pump' = NewPump /\ pump'.state # "over" /\ bridge' = NewBridge /\ ~call'.stream
  BY <1>1, <1>2 DEF NewPump
<1>4. CASE UNCHANGED <<frames, replay>>
  <2>1. ToldInv(<<>>)'
    BY <1>1, <1>2, <1>3, <1>4 DEF ToldInv
  <2> QED
    BY <1>1, <1>3, <2>1, NeverStreamed
<1>5. CASE ~UNCHANGED <<frames, replay>>
  <2>1. PICK source \in {"provider", "estimate"}, usage \in Usages, text \in Seq(Nat),
             kind \in {"completed", "incomplete"} :
          /\ usage = Usage(usage.prompt, usage.completion)
          /\ charge' = Charge(source, usage)
          /\ frames' = <<Frame(kind, text, usage)>>
          /\ replay' \in {<<>>, frames'}
    BY <1>1, <1>5
  <2>2. charge'.state = "settled" /\ Usage(charge'.input, charge'.output) = usage
    BY <2>1 DEF Charge
  <2>3. frames' = <<Frame(kind, text, Usage(charge'.input, charge'.output))>>
    BY <2>1, <2>2
  <2>4. ToldInv(<<>>)'
    BY <1>1, <1>3, <2>1, <2>2, <2>3 DEF ToldInv
  <2> QED
    BY <1>1, <1>3, <2>4, NeverStreamed
<1> QED
  BY <1>4, <1>5

\* A request that cannot be built tells nothing.
LEMMA NothingTold ==
  ASSUME RequestInv, ControlInv, NEW route, Send(route)
  PROVE  StreamInv'
<1>0. /\ stage = "reserved" /\ UNCHANGED <<call, streamVars, frames, replay>>
      /\ stage' = "sent" \/ (stage' = "over" /\ UNCHANGED sent)
  BY DEF Send
<1>1. /\ stage = "reserved" /\ UNCHANGED <<call, pump, bridge, frames, replay>>
      /\ stage' = "sent" \/ (stage' = "over" /\ UNCHANGED sent)
  BY <1>0 DEF streamVars
<1>2. pump = NewPump /\ bridge = NewBridge /\ frames = <<>> /\ replay = <<>> /\ sent = Unsent
  BY <1>1 DEF ControlInv, Pristine, RequestInv
<1>3. CASE stage' = "sent"
  BY <1>3 DEF StreamInv
<1>4. CASE stage' = "over" /\ UNCHANGED sent
  <2>1. ToldInv(<<>>)'
    BY <1>1, <1>2, <1>4 DEF ToldInv, NewPump
  <2> QED
    BY <1>1, <1>2, <1>4, <2>1, NeverStreamed
<1> QED
  BY <1>1, <1>3, <1>4

\* The first of what waits joins what was read.
LEMMA HeadMoves ==
  ASSUME NEW A, NEW h \in Seq(A), NEW q \in Seq(A), q # <<>>
  PROVE  /\ Head(q) \in A /\ Tail(q) \in Seq(A) /\ Append(h, Head(q)) \in Seq(A)
         /\ Append(h, Head(q)) # <<>> /\ Append(h, Head(q)) = h \o <<Head(q)>>
         /\ Append(h, Head(q)) \o Tail(q) = h \o q
<1>1. Head(q) \in A /\ Tail(q) \in Seq(A)
  OBVIOUS
<1> DEFINE x == Head(q)
           t == Tail(q)
<1>2. q = <<x>> \o t
  BY ONLY <1>1, q \in Seq(A), q # <<>>
<1> HIDE DEF x, t
<1>3. Append(h, x) \in Seq(A) /\ Append(h, x) # <<>> /\ Append(h, x) = h \o <<x>>
  BY <1>1 DEF x
<1>4. Append(h, x) \o t = h \o (<<x>> \o t)
  <2>1. x \in A /\ t \in Seq(A) /\ h \in Seq(A)
    BY <1>1 DEF x, t
  <2> QED
    BY ONLY <2>1
<1> QED
  BY <1>1, <1>2, <1>3, <1>4 DEF x, t

\* What the loop and the bridge keep of another chunk.
LEMMA CollectMore ==
  ASSUME NEW h \in Seq(ChunkReadings), NEW chunk \in ChunkReadings
  PROVE  LET more == Append(h, chunk)
         IN  /\ Collect(more, TextIn) = Collect(h, TextIn) \o chunk.text
             /\ LastOr(Collect(more, UsageIn), NoUsage) =
                  IF chunk.usage.known THEN chunk.usage ELSE LastOr(Collect(h, UsageIn), NoUsage)
             /\ LastOr(Collect(more, FinishIn), "none") =
                  IF chunk.finish = "none" THEN LastOr(Collect(h, FinishIn), "none") ELSE chunk.finish
             /\ Collect(more, DeltaIn) =
                  Collect(h, DeltaIn) \o
                    (IF chunk.text = <<>> THEN <<>> ELSE <<Frame("text delta", chunk.text, NoUsage)>>)
<1>1. h \in Seq(Readings) /\ chunk \in Readings
  BY ChunksAreReadings DEF ChunkReadings
<1>2. /\ TextIn \in [Readings -> Seq(Nat)] /\ UsageIn \in [Readings -> Seq(Usages)]
      /\ FinishIn \in [Readings -> Seq(Finishes)] /\ DeltaIn \in [Readings -> Seq(Deltas)]
  BY CollectorTypes
<1>3. /\ TextIn[chunk] = chunk.text
      /\ UsageIn[chunk] = IF chunk.usage.known THEN <<chunk.usage>> ELSE <<>>
      /\ FinishIn[chunk] = IF chunk.finish = "none" THEN <<>> ELSE <<chunk.finish>>
      /\ DeltaIn[chunk] = IF chunk.text = <<>> THEN <<>> ELSE <<Frame("text delta", chunk.text, NoUsage)>>
  BY <1>1 DEF TextIn, UsageIn, FinishIn, DeltaIn
<1>4. /\ Collect(Append(h, chunk), TextIn) = Collect(h, TextIn) \o TextIn[chunk]
      /\ Collect(Append(h, chunk), UsageIn) = Collect(h, UsageIn) \o UsageIn[chunk]
      /\ Collect(Append(h, chunk), FinishIn) = Collect(h, FinishIn) \o FinishIn[chunk]
      /\ Collect(Append(h, chunk), DeltaIn) = Collect(h, DeltaIn) \o DeltaIn[chunk]
  <2>1. ASSUME NEW B, NEW f \in [Readings -> Seq(B)]
        PROVE  Collect(Append(h, chunk), f) = Collect(h, f) \o f[chunk]
    BY <1>1, CollectAppend
  <2>2. Collect(Append(h, chunk), TextIn) = Collect(h, TextIn) \o TextIn[chunk]
    BY <1>2, <2>1
  <2>3. Collect(Append(h, chunk), UsageIn) = Collect(h, UsageIn) \o UsageIn[chunk]
    BY <1>2, <2>1
  <2>4. Collect(Append(h, chunk), FinishIn) = Collect(h, FinishIn) \o FinishIn[chunk]
    BY <1>2, <2>1
  <2>5. Collect(Append(h, chunk), DeltaIn) = Collect(h, DeltaIn) \o DeltaIn[chunk]
    BY <1>2, <2>1
  <2> QED
    BY <2>2, <2>3, <2>4, <2>5
<1>5. Collect(h, UsageIn) \in Seq(Usages) /\ Collect(h, FinishIn) \in Seq(Finishes)
  BY <1>1, <1>2, CollectType
<1> DEFINE u == Collect(h, UsageIn)
           f == Collect(h, FinishIn)
<1>6. u \in Seq(Usages) /\ f \in Seq(Finishes) /\ chunk.usage \in Usages /\ chunk.finish \in Finishes
  BY <1>1, <1>5, ChunkTypes
<1> HIDE DEF u, f
<1>7. LastOr(u \o UsageIn[chunk], NoUsage) = IF chunk.usage.known THEN chunk.usage ELSE LastOr(u, NoUsage)
  <2>1. CASE chunk.usage.known
    <3> DEFINE x == chunk.usage
    <3>1. x \in Usages /\ UsageIn[chunk] = <<x>>
      BY <1>3, <1>6, <2>1
    <3> HIDE DEF x
    <3>2. LastOr(u \o <<x>>, NoUsage) = x
      BY <1>6, <3>1, LastOfConcat
    <3> QED
      BY <2>1, <3>1, <3>2 DEF x
  <2>2. CASE ~chunk.usage.known
    <3>1. u \o <<>> = u
      BY <1>6
    <3> QED
      BY <1>3, <2>2, <3>1
  <2> QED
    BY <2>1, <2>2
<1>8. LastOr(f \o FinishIn[chunk], "none") = IF chunk.finish = "none" THEN LastOr(f, "none") ELSE chunk.finish
  <2>1. CASE chunk.finish # "none"
    <3> DEFINE x == chunk.finish
    <3>1. x \in Finishes /\ FinishIn[chunk] = <<x>>
      BY <1>3, <1>6, <2>1
    <3> HIDE DEF x
    <3>2. LastOr(f \o <<x>>, "none") = x
      BY <1>6, <3>1, LastOfConcat
    <3> QED
      BY <2>1, <3>1, <3>2 DEF x
  <2>2. CASE chunk.finish = "none"
    <3>1. f \o <<>> = f
      BY <1>6
    <3> QED
      BY <1>3, <2>2, <3>1
  <2> QED
    BY <2>1, <2>2
<1> QED
  BY <1>3, <1>4, <1>7, <1>8 DEF u, f

\* What the client is told of another chunk.
LEMMA TellMore ==
  ASSUME NEW h \in Seq(ChunkReadings), NEW chunk \in ChunkReadings, bridge.started = (h # <<>>)
  PROVE  ToldOf(h) \o FramesOf(chunk) = ToldOf(Append(h, chunk))
<1>1. CASE call.endpoint # "responses"
  BY <1>1 DEF ToldOf, FramesOf
<1>2. CASE call.endpoint = "responses"
  <2> DEFINE D == IF chunk.text = <<>> THEN <<>> ELSE <<Frame("text delta", chunk.text, NoUsage)>>
             C == Collect(h, DeltaIn)
             O == Opening(NewBridge)
  <2>1. Append(h, chunk) # <<>> /\ Collect(Append(h, chunk), DeltaIn) = C \o D
    <3>1. Collect(Append(h, chunk), DeltaIn) = C \o D
      BY CollectMore
    <3>2. Append(h, chunk) # <<>>
      OBVIOUS
    <3> QED
      BY <3>1, <3>2
  <2>2. FramesOf(chunk) = Opening(bridge) \o D
    BY <1>2 DEF FramesOf, Translate
  <2>3. /\ C \in Seq(Frames) /\ D \in Seq(Frames) /\ O \in Seq(Frames)
    <3>1. C \in Seq(Frames)
      <4>1. Deltas \subseteq Frames
        BY DEF Deltas
      <4>2. C \in Seq(Deltas)
        <5>1. h \in Seq(Readings)
          BY ChunksAreReadings
        <5> QED
          BY <5>1, CollectorTypes, CollectType
      <4> HIDE DEF C
      <4> QED
        BY <4>1, <4>2, SeqMonotonic
    <3>2. D \in Seq(Frames)
      <4>1. chunk.text \in Seq(Nat)
        BY ChunkTypes DEF ChunkReadings
      <4> DEFINE delta == Frame("text delta", chunk.text, NoUsage)
      <4>2. delta \in Frames
        BY <4>1, FrameTypes
      <4> HIDE DEF delta
      <4>3. <<delta>> \in Seq(Frames) /\ <<>> \in Seq(Frames)
        BY <4>2
      <4> QED
        BY <4>3 DEF delta
    <3>3. O \in Seq(Frames)
      <4>1. NewBridge \in Bridges
        BY EmptyTypes, FrameTypes DEF NewBridge, Bridges
      <4> QED
        BY <4>1, OpeningType
    <3> QED
      BY <3>1, <3>2, <3>3
  <2> HIDE DEF C, D, O
  <2>4. CASE h = <<>>
    <3>1. C = <<>> /\ ToldOf(h) = <<>> /\ Opening(bridge) = O
      BY <1>2, <2>4, CollectEmpty DEF ToldOf, Opening, O, NewBridge, C
    <3>2. <<>> \o (O \o D) = O \o (<<>> \o D)
      BY ONLY <2>3
    <3> QED
      BY <1>2, <2>1, <2>2, <3>1, <3>2 DEF ToldOf, O
  <2>5. CASE h # <<>>
    <3>1. Opening(bridge) = <<>> /\ ToldOf(h) = O \o C
      BY <1>2, <2>5 DEF ToldOf, Opening, O, C
    <3>2. (O \o C) \o (<<>> \o D) = O \o (C \o D)
      BY ONLY <2>3
    <3> QED
      BY <1>2, <2>1, <2>2, <3>1, <3>2 DEF ToldOf, O
  <2> QED
    BY <2>4, <2>5
<1> QED
  BY <1>1, <1>2

\* The loop reads a chunk.
LEMMA ChunkTold ==
  ASSUME PublicCallTypeOK, ControlInv, StreamInv, PumpChunk
  PROVE  StreamInv'
<1>0. pump.state = "reading" /\ queue # <<>> /\ Head(queue).kind = "chunk"
  BY DEF PumpChunk
<1>0a. queue \in Seq(Readings) /\ Head(queue) \in ChunkReadings
  <2>1. queue \in Seq(Readings)
    BY DEF PublicCallTypeOK
  <2>2. Head(queue) \in Readings
    BY <1>0, <2>1
  <2> QED
    BY <1>0, <2>1, <2>2 DEF ChunkReadings
<1>0b. PICK chunk \in ChunkReadings : chunk = Head(queue)
  BY <1>0a
<1>1. /\ pump.state = "reading" /\ queue # <<>> /\ chunk.kind = "chunk"
      /\ queue' = Tail(queue)
      /\ pump' = Heard(chunk)
      /\ frames' = frames \o FramesOf(chunk)
      /\ bridge' = Bridged(bridge, chunk)
      /\ UNCHANGED <<stage, call, sent, parsed, adapter, charge, replay>>
  BY <1>0b DEF PumpChunk
<1>2. stage = "streaming"
  BY <1>1 DEF ControlInv
<1>3. PICK h \in Seq(ChunkReadings) :
        /\ HeardInv(h)
        /\ ToldInv(h)
        /\ sent # Unsent /\ call.stream => IF Anthropic THEN AnthropicInv(h) ELSE OpenAiInv(h)
  BY <1>2 DEF StreamInv
<1> DEFINE more == Append(h, chunk)
<1>5. more \in Seq(ChunkReadings) /\ more # <<>> /\ more \o queue' = h \o queue
  <2>1. h \in Seq(Readings)
    BY ChunksAreReadings
  <2>2. more \o queue' = h \o queue
    <3>1. Append(h, Head(queue)) \o Tail(queue) = h \o queue
      <4>1. \A q \in Seq(Readings) : q # <<>> => Append(h, Head(q)) \o Tail(q) = h \o q
        BY <2>1, HeadMoves
      <4> QED
        BY <1>0, <1>0a, <4>1
    <3> QED
      BY <1>0b, <1>1, <3>1
  <2>3. more \in Seq(ChunkReadings) /\ more # <<>>
    <3> DEFINE S == ChunkReadings
    <3>1. h \in Seq(S) /\ chunk \in S
      OBVIOUS
    <3> HIDE DEF S
    <3>2. Append(h, chunk) \in Seq(S) /\ Append(h, chunk) # <<>>
      BY ONLY <3>1
    <3> QED
      BY <3>2 DEF S
  <2> QED
    BY <2>2, <2>3
<1>6. /\ pump'.state = "reading" /\ pump'.terminal = pump.terminal
      /\ pump'.received = IF chunk.usage.known THEN chunk.usage ELSE pump.received
  BY <1>1 DEF Heard, PublicCallTypeOK, PumpType
<1>7. /\ Collect(more, TextIn) = Collect(h, TextIn) \o chunk.text
      /\ LastOr(Collect(more, UsageIn), NoUsage) =
           IF chunk.usage.known THEN chunk.usage ELSE LastOr(Collect(h, UsageIn), NoUsage)
      /\ LastOr(Collect(more, FinishIn), "none") =
           IF chunk.finish = "none" THEN LastOr(Collect(h, FinishIn), "none") ELSE chunk.finish
  BY CollectMore
<1>8. bridge.started = (h # <<>>)
  BY <1>3 DEF HeardInv
<1>9. ToldOf(h) \o FramesOf(chunk) = ToldOf(more)
  BY <1>8, TellMore
<1> HIDE DEF more
<1>10. HeardInv(more)'
  <2>1. pump'.received = LastOr(Collect(more, UsageIn), NoUsage)
    BY <1>3, <1>6, <1>7 DEF HeardInv
  <2>2. bridge' = [started |-> TRUE, text |-> bridge.text \o chunk.text,
                   finish |-> IF chunk.finish = "none" THEN bridge.finish ELSE chunk.finish,
                   usage |-> IF chunk.usage.known THEN chunk.usage ELSE bridge.usage]
    BY <1>1 DEF Bridged
  <2>3. /\ bridge.text = Collect(h, TextIn) /\ bridge.finish = LastOr(Collect(h, FinishIn), "none")
        /\ bridge.usage = pump.received
    BY <1>3 DEF HeardInv
  <2>4. bridge' = [started |-> TRUE, text |-> Collect(more, TextIn),
                   finish |-> LastOr(Collect(more, FinishIn), "none"), usage |-> pump'.received]
    BY <1>6, <1>7, <2>2, <2>3
  <2>5. (more # <<>>) = TRUE
    BY <1>5
  <2> QED
    BY <1>5, <2>1, <2>4, <2>5 DEF HeardInv
<1>11. ToldInv(more)'
  <2>1. frames = ToldOf(h) /\ replay = <<>>
    BY <1>1, <1>2, <1>3 DEF ToldInv
  <2>2. frames' = ToldOf(more)' /\ replay' = <<>>
    BY <1>1, <1>9, <2>1, FramesKept
  <2> QED
    BY <1>1, <1>2, <1>6, <2>2 DEF ToldInv
<1>12. ASSUME Anthropic, AnthropicInv(h) PROVE AnthropicInv(more)'
  <2>1. AdapterInv'
    BY <1>1, <1>12, AdapterKept DEF AnthropicInv
  <2>2. Sound(parsed)' = Sound(parsed)
    BY <1>1, EventsKept
  <2> QED
    BY <1>1, <1>5, <1>6, <1>12, <2>1, <2>2 DEF AnthropicInv
<1>13. ASSUME ~Anthropic, OpenAiInv(h) PROVE OpenAiInv(more)'
  <2>1. Readable(parsed)' = Readable(parsed)
    BY <1>1 DEF Readable
  <2> QED
    BY <1>1, <1>5, <1>6, <1>13, <2>1 DEF OpenAiInv
<1>14. Anthropic' = Anthropic
  BY <1>1, EventsKept
<1> QED
  BY <1>1, <1>3, <1>5, <1>10, <1>11, <1>12, <1>13, <1>14 DEF StreamInv

\* Chunks before something else, taken apart in two ways.
LEMMA SplitOnce ==
  ASSUME NEW h \in Seq(ChunkReadings), NEW all \in Seq(ChunkReadings), NEW more \in Seq(Readings),
         NEW tail \in Seq(Readings), h \o more = all \o tail,
         more # <<>> => more[1].kind # "chunk", tail # <<>> => tail[1].kind # "chunk"
  PROVE  h = all /\ more = tail
<1> DEFINE n == Len(h)
           N == Len(all)
           j == Len(more)
           k == Len(tail)
           a == h \o more
           b == all \o tail
<1>1. /\ h \in Seq(Readings) /\ n \in Nat /\ \A i \in 1..n : h[i] \in Readings /\ h[i].kind = "chunk"
      /\ all \in Seq(Readings) /\ N \in Nat /\ \A i \in 1..N : all[i] \in Readings /\ all[i].kind = "chunk"
  BY ChunksAreReadings
<1>2. /\ Len(a) = n + j /\ j \in Nat
      /\ \A i \in 1..n : a[i] = h[i]
      /\ \A i \in 1..j : a[n + i] = more[i]
  <2>1. h \in Seq(Readings) /\ more \in Seq(Readings)
    BY <1>1
  <2> QED
    BY ONLY <2>1
<1>3. /\ Len(b) = N + k /\ k \in Nat
      /\ \A i \in 1..N : b[i] = all[i]
      /\ \A i \in 1..k : b[N + i] = tail[i]
  <2>1. all \in Seq(Readings) /\ tail \in Seq(Readings)
    BY <1>1
  <2> QED
    BY ONLY <2>1
<1>4. a = b
  OBVIOUS
<1>5. (more # <<>> <=> j # 0) /\ (tail # <<>> <=> k # 0)
  BY EmptySeq
<1> HIDE DEF n, N, j, k, a, b
<1>6. n <= N
  <2> SUFFICES ASSUME ~(n <= N) PROVE FALSE
    OBVIOUS
  <2>1. k # 0 /\ N + 1 \in 1..n /\ 1 \in 1..k
    BY <1>1, <1>2, <1>3, <1>4
  <2> QED
    BY <1>1, <1>2, <1>3, <1>4, <1>5, <2>1
<1>7. N <= n
  <2> SUFFICES ASSUME ~(N <= n) PROVE FALSE
    OBVIOUS
  <2>1. j # 0 /\ n + 1 \in 1..N /\ 1 \in 1..j
    BY <1>1, <1>2, <1>3, <1>4
  <2> QED
    BY <1>1, <1>2, <1>3, <1>4, <1>5, <2>1
<1>8. n = N /\ j = k
  BY <1>1, <1>2, <1>3, <1>4, <1>6, <1>7
<1>9. \A i \in 1..n : h[i] = all[i]
  BY <1>2, <1>3, <1>4, <1>8
<1>10. \A i \in 1..j : more[i] = tail[i]
  BY <1>2, <1>3, <1>4, <1>8
<1>11. h = all
  BY <1>1, <1>8, <1>9, SeqEqual DEF n, N
<1>12. more = tail
  BY <1>8, <1>10, SeqEqual DEF j, k
<1> QED
  BY <1>11, <1>12

\* What may follow the last chunk.
LEMMA TailTypes ==
  ASSUME NEW tail \in {<<>>, <<Reading("failure")>>, <<Reading("done")>>}
  PROVE  /\ tail \in Seq(Readings)
         /\ tail # <<>> => tail[1].kind # "chunk"
         /\ tail = <<Reading("failure")>> => tail # <<>> /\ tail[1].kind = "failure"
         /\ tail = <<Reading("done")>> => tail # <<>> /\ tail[1].kind = "done"
<1> DEFINE f == Reading("failure")
           d == Reading("done")
<1>1. f \in Readings /\ f.kind = "failure" /\ d \in Readings /\ d.kind = "done"
  BY FrameTypes DEF Reading, Frame
<1> HIDE DEF f, d
<1>2. tail \in {<<>>, <<f>>, <<d>>}
  BY DEF f, d
<1>3. /\ <<f>> \in Seq(Readings) /\ <<f>> # <<>> /\ <<f>>[1] = f
      /\ <<d>> \in Seq(Readings) /\ <<d>> # <<>> /\ <<d>>[1] = d /\ <<f>> # <<d>>
  BY <1>1
<1>4. <<>> \in Seq(Readings)
  BY EmptyTypes
<1> QED
  BY <1>1, <1>2, <1>3, <1>4 DEF f, d

LEMMA StreamOf ==
  ASSUME StreamInv, stage = "streaming"
  PROVE  \E h \in Seq(ChunkReadings) :
            /\ HeardInv(h)
            /\ ToldInv(h)
            /\ sent # Unsent /\ call.stream => IF Anthropic THEN AnthropicInv(h) ELSE OpenAiInv(h)
BY DEF StreamInv

\* The loop ends: it has read all chunks before.
LEMMA EndTold ==
  ASSUME PublicCallTypeOK, RequestInv, ControlInv, StreamInv, PumpEnd
  PROVE  StreamInv'
<1>1. /\ pump.state = "reading" /\ queue' = <<>>
      /\ \/ queue # <<>> /\ Head(queue).kind = "done" /\ pump'.state = "finalizing"
         \/ queue # <<>> /\ Head(queue).kind = "failure" /\ pump'.state = "failing"
         \/ queue = <<>> /\ pump.cancelled /\ pump'.state = "failing"
      /\ pump'.received = pump.received
      /\ UNCHANGED <<stage, call, sent, parsed, adapter, bridge, charge, frames, replay>>
  BY DEF PumpEnd, tellVars, PublicCallTypeOK, PumpType
<1>2. stage = "streaming"
  <2>1. Pristine => queue = <<>> /\ ~pump.cancelled
    BY DEF Pristine, NewPump
  <2>2. ~Pristine
    BY <1>1, <2>1
  <2> QED
    BY <1>1, <2>2 DEF ControlInv
<1>3. PICK h \in Seq(ChunkReadings) :
        /\ HeardInv(h)
        /\ ToldInv(h)
        /\ sent # Unsent /\ call.stream => IF Anthropic THEN AnthropicInv(h) ELSE OpenAiInv(h)
  BY <1>2, StreamOf
<1>4. sent # Unsent /\ call.stream
  BY <1>2 DEF RequestInv, ControlInv
<1>5. HeardInv(h)'
  BY <1>1, <1>3, HeardKept
<1>6. ToldInv(h)'
  <2>1. frames = ToldOf(h) /\ replay = <<>>
    BY <1>1, <1>2, <1>3 DEF ToldInv
  <2>2. frames' = ToldOf(h)' /\ replay' = <<>>
    BY <1>1, <2>1, FramesKept
  <2> QED
    BY <1>1, <1>2, <2>2 DEF ToldInv
<1>7. Anthropic' = Anthropic /\ Sound(parsed)' = Sound(parsed) /\ (Finished(parsed)' <=> Finished(parsed))
  BY <1>1, EventsKept
<1>8. Complete' => queue # <<>> /\ Head(queue).kind = "done"
  BY <1>1 DEF Complete
<1>9. /\ queue \in Seq(Readings) /\ parsed \in Seq(Events)
      /\ queue # <<>> => Head(queue) = queue[1] /\ queue[1].kind # "chunk"
  BY <1>1 DEF PublicCallTypeOK
<1>10. CASE Anthropic
  <2>1. AnthropicInv(h)
    BY <1>3, <1>4, <1>10
  <2>2. AdapterInv'
    BY <1>1, <2>1, AdapterKept DEF AnthropicInv
  <2>3. PICK all \in Seq(ChunkReadings) :
          /\ Collect(all, UsageIn) =
               IF adapter.state = "closed" THEN <<Usage(adapter.input, adapter.output)>> ELSE <<>>
          /\ adapter.state \in {"reading", "closed"} =>
               /\ Collect(all, TextIn) = Said(Sound(parsed), {"text"})
               /\ LastOr(Collect(all, FinishIn), "none") = adapter.finish
          /\ CASE adapter.state = "reading" -> h \o queue \in {all, all \o <<Reading("failure")>>}
               [] adapter.state = "closed" -> h \o queue = all \o <<Reading("done")>>
               [] adapter.state = "failed" -> h \o queue = all \o <<Reading("failure")>>
               [] OTHER -> FALSE
    BY <1>1, <2>1 DEF AnthropicInv
  <2>4. all \o <<>> = all
    OBVIOUS
  <2>5. PICK tail \in {<<>>, <<Reading("failure")>>, <<Reading("done")>>} :
          h \o queue = all \o tail /\ (tail = <<Reading("done")>> => adapter.state = "closed")
    <3>1. <<Reading("failure")>> # <<Reading("done")>> /\ <<>> # <<Reading("done")>>
      BY DEF Reading, Frame
    <3> QED
      BY <2>3, <2>4, <3>1
  <2>6. h = all /\ queue = tail
    <3>1. tail \in Seq(Readings) /\ (tail # <<>> => tail[1].kind # "chunk")
      BY TailTypes
    <3>2. \A q, t \in Seq(Readings) :
            /\ h \o q = all \o t
            /\ q # <<>> => q[1].kind # "chunk"
            /\ t # <<>> => t[1].kind # "chunk"
            => h = all /\ q = t
      BY SplitOnce, ZenonT(30)
    <3>3. queue \in Seq(Readings) /\ (queue # <<>> => queue[1].kind # "chunk")
      BY <1>9
    <3> QED
      BY <2>5, <3>1, <3>2, <3>3
  <2>7. Complete' => adapter.state = "closed"
    BY <1>8, <1>9, <2>5, <2>6, TailTypes
  <2>8. AnthropicInv(h)'
    BY <1>1, <1>7, <2>2, <2>3, <2>6, <2>7 DEF AnthropicInv
  <2> QED
    BY <1>2, <1>5, <1>6, <1>7, <1>10, <2>8 DEF StreamInv
<1>11. CASE ~Anthropic
  <2>1. OpenAiInv(h)
    BY <1>3, <1>4, <1>11
  <2>2. PICK tail \in {<<>>, <<Reading("failure")>>} : h \o queue = Readable(parsed) \o tail
    BY <1>1, <2>1 DEF OpenAiInv
  <2>3. h = Readable(Sound(parsed)) /\ (queue # <<>> /\ queue[1].kind = "done" => Finished(parsed))
    BY <1>9, <1>11, <2>2, OpenAiHeard
  <2>4. Complete' => Finished(parsed)
    BY <1>8, <1>9, <2>3
  <2>5. Readable(Sound(parsed))' = Readable(Sound(parsed))
    BY <1>7
  <2>6. OpenAiInv(h)'
    BY <1>1, <1>7, <2>3, <2>4, <2>5 DEF OpenAiInv
  <2> QED
    BY <1>2, <1>5, <1>6, <1>7, <1>11, <2>6 DEF StreamInv
<1> QED
  BY <1>10, <1>11

\* The sound part of a stream that goes on.
LEMMA SoundAppend ==
  ASSUME NEW u \in Seq(Events), NEW event \in Events
  PROVE  Sound(Append(u, event)) = IF Sound(u) = u /\ ~Ends(event) THEN Append(u, event) ELSE Sound(u)
<1> DEFINE v == Append(u, event)
           N == Len(u)
<1>1. PICK m \in 0..Len(u) :
        /\ \A i \in 1..m : ~Ends(u[i])
        /\ m < Len(u) => Ends(u[m + 1])
        /\ Sound(u) = SubSeq(u, 1, m)
  BY SoundCut
<1>2. /\ v \in Seq(Events) /\ N \in Nat /\ Len(v) = N + 1
      /\ \A i \in 1..N : v[i] = u[i]
      /\ v[N + 1] = event
  OBVIOUS
<1>3. /\ SubSeq(u, 1, m) = SubSeq(v, 1, m)
      /\ SubSeq(u, 1, N) = u
      /\ SubSeq(v, 1, N + 1) = v
      /\ Len(SubSeq(u, 1, m)) = m
  OBVIOUS
<1>4. m \in 0..N /\ (m < N => Ends(u[m + 1]))
  BY <1>1
<1>5. \A k \in 0..(N + 1) : (\A i \in 1..k : ~Ends(v[i])) /\ (k < N + 1 => Ends(v[k + 1])) => Sound(v) = SubSeq(v, 1, k)
  <2>1. \A k \in 0..Len(v) : (\A i \in 1..k : ~Ends(v[i])) /\ (k < Len(v) => Ends(v[k + 1])) => Sound(v) = SubSeq(v, 1, k)
    BY <1>2, SoundIs
  <2> QED
    BY <1>2, <2>1
<1>6. Sound(u) = u <=> m = N
  BY <1>1, <1>3
<1> HIDE DEF v, N
<1>7. CASE m < N
  <2>1. m \in 0..(N + 1) /\ m + 1 \in 1..N /\ m < N + 1
    BY <1>2, <1>4, <1>7
  <2>2. \A i \in 1..m : i \in 1..N
    BY <1>2, <1>4
  <2>3. (\A i \in 1..m : ~Ends(v[i])) /\ Ends(v[m + 1])
    BY <1>1, <1>2, <1>4, <1>7, <2>1, <2>2
  <2>4. Sound(v) = SubSeq(v, 1, m)
    BY <1>5, <2>1, <2>3
  <2> QED
    BY <1>1, <1>3, <1>6, <1>7, <2>4 DEF v
<1>8. CASE m = N /\ Ends(event)
  <2>1. m \in 0..(N + 1) /\ m < N + 1
    BY <1>2, <1>4
  <2>2. (\A i \in 1..m : ~Ends(v[i])) /\ Ends(v[m + 1])
    BY <1>1, <1>2, <1>8
  <2>3. Sound(v) = SubSeq(v, 1, m)
    BY <1>5, <2>1, <2>2
  <2> QED
    BY <1>1, <1>3, <1>8, <2>3 DEF v
<1>9. CASE m = N /\ ~Ends(event)
  <2>1. N + 1 \in 0..(N + 1) /\ ~(N + 1 < N + 1)
    BY <1>2
  <2>2. \A i \in 1..(N + 1) : ~Ends(v[i])
    <3>1. \A i \in 1..(N + 1) : i \in 1..N \/ i = N + 1
      BY <1>2
    <3> QED
      BY <1>1, <1>2, <1>9, <3>1
  <2>3. Sound(v) = SubSeq(v, 1, N + 1)
    BY <1>5, <2>1, <2>2
  <2> QED
    BY <1>3, <1>6, <1>9, <2>3 DEF v
<1>10. m < N \/ m = N
  BY <1>2, <1>4
<1> QED
  BY <1>7, <1>8, <1>9, <1>10

\* The chunks that tell of no usage.
QuietChunks == {r \in ChunkReadings : ~r.usage.known}

LEMMA QuietCollect ==
  ASSUME NEW s \in Seq(QuietChunks)
  PROVE  s \in Seq(ChunkReadings) /\ s \in Seq(Readings) /\ Collect(s, UsageIn) = <<>>
<1> DEFINE S == {t \in Seq(Readings) : Collect(t, UsageIn) = <<>>}
<1>1. QuietChunks \subseteq ChunkReadings /\ ChunkReadings \subseteq Readings
  BY DEF QuietChunks, ChunkReadings
<1>2. <<>> \in S
  BY CollectEmpty, EmptyTypes
<1>3. ASSUME NEW t \in Seq(QuietChunks), NEW r \in QuietChunks, t \in S PROVE Append(t, r) \in S
  <2>1. t \in Seq(Readings) /\ r \in Readings /\ Collect(t, UsageIn) = <<>>
    BY <1>1, <1>3
  <2>2. UsageIn[r] = <<>>
    BY <2>1 DEF UsageIn, QuietChunks
  <2>3. ASSUME NEW B, NEW f \in [Readings -> Seq(B)]
        PROVE  Collect(Append(t, r), f) = Collect(t, f) \o f[r]
    BY <2>1, CollectAppend
  <2>4. Collect(Append(t, r), UsageIn) = <<>> \o <<>>
    <3>1. UsageIn \in [Readings -> Seq(Usages)]
      BY CollectorTypes
    <3>2. Collect(Append(t, r), UsageIn) = Collect(t, UsageIn) \o UsageIn[r]
      BY <2>3, <3>1
    <3> QED
      BY <2>1, <2>2, <3>2
  <2>5. <<>> \o <<>> = <<>>
    OBVIOUS
  <2>6. Append(t, r) \in Seq(Readings)
    BY <2>1
  <2> QED
    BY <2>4, <2>5, <2>6
<1>4. Seq(QuietChunks) \subseteq S
  <2> HIDE DEF S
  <2> QED
    BY <1>2, <1>3, SeqInduction
<1>5. s \in Seq(ChunkReadings)
  BY <1>1, SeqMonotonic
<1> QED
  BY <1>4, <1>5

(***************************************************************************)
(* What an adapter knows of the events it was given, if all are the chunks *)
(* it has made of them.                                                    *)
(***************************************************************************)
Tracks(all, events, a) ==
  LET starts == Said(events, {"message_start"})
      ends == Said(events, {"message_delta"})
  IN  /\ a.input = 2 * LastOr(starts, 0)
      /\ a.output = 5 * LastOr(ends, 0)
      /\ a.finish = IF ends = <<>> THEN "none" ELSE IF Last(ends) = 2 THEN "length" ELSE "stop"
      /\ Collect(all, TextIn) = Said(events, {"text"})
      /\ LastOr(Collect(all, FinishIn), "none") = a.finish

\* An event that says nothing and a chunk that tells nothing change nothing.
LEMMA TracksQuietly ==
  ASSUME NEW all \in Seq(ChunkReadings), NEW events \in Seq(Events), NEW a, NEW b, NEW event \in Events,
         Tracks(all, events, a), KindOf(event) \notin {"message_start", "message_delta", "text"},
         b.input = a.input, b.output = a.output, b.finish = a.finish
  PROVE  /\ Tracks(all, Append(events, event), b)
         /\ \A chunk \in ChunkReadings :
              chunk.text = <<>> /\ chunk.finish = "none" => Tracks(Append(all, chunk), Append(events, event), b)
<1>1. ASSUME NEW kinds, kinds \in {{"message_start"}, {"message_delta"}, {"text"}}
      PROVE  Said(Append(events, event), kinds) = Said(events, kinds)
  <2>1. KindOf(event) \notin kinds
    BY <1>1
  <2>2. Said(events, kinds) \in Seq(Nat)
    BY SaidCollected
  <2> DEFINE s == Said(events, kinds)
  <2> HIDE DEF s
  <2>3. s \o <<>> = s
    BY <2>2 DEF s
  <2> QED
    BY <2>1, <2>3, SaidAppend DEF s
<1>2. Tracks(all, Append(events, event), b)
  BY <1>1 DEF Tracks
<1>3. ASSUME NEW chunk \in ChunkReadings, chunk.text = <<>>, chunk.finish = "none"
      PROVE  Tracks(Append(all, chunk), Append(events, event), b)
  <2>1. Collect(Append(all, chunk), TextIn) = Collect(all, TextIn)
    <3>1. Collect(Append(all, chunk), TextIn) = Collect(all, TextIn) \o <<>>
      BY <1>3, CollectMore
    <3>2. Collect(all, TextIn) \in Seq(Nat)
      BY ChunksAreReadings, CollectorTypes, CollectType
    <3> DEFINE c == Collect(all, TextIn)
    <3> HIDE DEF c
    <3>3. c \o <<>> = c
      BY <3>2 DEF c
    <3> QED
      BY <3>1, <3>3 DEF c
  <2>2. LastOr(Collect(Append(all, chunk), FinishIn), "none") = LastOr(Collect(all, FinishIn), "none")
    BY <1>3, CollectMore
  <2> QED
    BY <1>2, <2>1, <2>2 DEF Tracks
<1> QED
  BY <1>2, <1>3

\* An event of one kind, and the chunk that is made of it.
LEMMA TracksStart ==
  ASSUME NEW all \in Seq(ChunkReadings), NEW events \in Seq(Events), NEW a, NEW b, NEW event \in Events,
         Tracks(all, events, a), KindOf(event) = "message_start",
         b.input = 2 * PayloadOf(event)[2], b.output = a.output, b.finish = a.finish,
         NEW chunk \in ChunkReadings, chunk.text = <<>>, chunk.finish = "none"
  PROVE  Tracks(Append(all, chunk), Append(events, event), b)
<1> DEFINE n == PayloadOf(event)[2]
           starts == Said(events, {"message_start"})
           ends == Said(events, {"message_delta"})
           text == Said(events, {"text"})
<1>1. starts \in Seq(Nat) /\ ends \in Seq(Nat) /\ text \in Seq(Nat) /\ n \in Nat
  BY SaidCollected, PayloadType, TokenFields
<1>2. /\ Said(Append(events, event), {"message_start"}) = starts \o <<n>>
      /\ Said(Append(events, event), {"message_delta"}) = ends \o <<>>
      /\ Said(Append(events, event), {"text"}) = text \o <<>>
  BY SaidAppend
<1>3. Tracks(all, events, a) <=>
        /\ a.input = 2 * LastOr(starts, 0)
        /\ a.output = 5 * LastOr(ends, 0)
        /\ a.finish = IF ends = <<>> THEN "none" ELSE IF Last(ends) = 2 THEN "length" ELSE "stop"
        /\ Collect(all, TextIn) = text
        /\ LastOr(Collect(all, FinishIn), "none") = a.finish
  BY DEF Tracks
<1>4. /\ Collect(Append(all, chunk), TextIn) = Collect(all, TextIn) \o <<>>
      /\ LastOr(Collect(Append(all, chunk), FinishIn), "none") = LastOr(Collect(all, FinishIn), "none")
  BY CollectMore
<1> HIDE DEF starts, ends, text, n
<1>5. LastOr(starts \o <<n>>, 0) = n /\ ends \o <<>> = ends /\ text \o <<>> = text
  <2>1. LastOr(starts \o <<n>>, 0) = n
    BY <1>1, LastOfConcat
  <2>2. ends \o <<>> = ends /\ text \o <<>> = text
    BY ONLY <1>1
  <2> QED
    BY <2>1, <2>2
<1> QED
  BY <1>2, <1>3, <1>4, <1>5 DEF Tracks, n

LEMMA TracksText ==
  ASSUME NEW all \in Seq(ChunkReadings), NEW events \in Seq(Events), NEW a, NEW b, NEW event \in Events,
         Tracks(all, events, a), KindOf(event) = "text",
         b.input = a.input, b.output = a.output, b.finish = a.finish,
         NEW chunk \in ChunkReadings, chunk.text = <<PayloadOf(event)[2]>>, chunk.finish = "none"
  PROVE  Tracks(Append(all, chunk), Append(events, event), b)
<1> DEFINE n == PayloadOf(event)[2]
           starts == Said(events, {"message_start"})
           ends == Said(events, {"message_delta"})
           text == Said(events, {"text"})
<1>1. starts \in Seq(Nat) /\ ends \in Seq(Nat) /\ text \in Seq(Nat) /\ n \in Nat
  BY SaidCollected, PayloadType, TokenFields
<1>2. /\ Said(Append(events, event), {"message_start"}) = starts \o <<>>
      /\ Said(Append(events, event), {"message_delta"}) = ends \o <<>>
      /\ Said(Append(events, event), {"text"}) = text \o <<n>>
  BY SaidAppend
<1>3. /\ a.input = 2 * LastOr(starts, 0)
      /\ a.output = 5 * LastOr(ends, 0)
      /\ a.finish = IF ends = <<>> THEN "none" ELSE IF Last(ends) = 2 THEN "length" ELSE "stop"
      /\ Collect(all, TextIn) = text
      /\ LastOr(Collect(all, FinishIn), "none") = a.finish
  BY DEF Tracks
<1>4. /\ Collect(Append(all, chunk), TextIn) = Collect(all, TextIn) \o <<n>>
      /\ LastOr(Collect(Append(all, chunk), FinishIn), "none") = LastOr(Collect(all, FinishIn), "none")
  BY CollectMore
<1> HIDE DEF starts, ends, text, n
<1>5. starts \o <<>> = starts /\ ends \o <<>> = ends
  BY <1>1
<1> QED
  BY <1>2, <1>3, <1>4, <1>5 DEF Tracks

LEMMA TracksEnd ==
  ASSUME NEW all \in Seq(ChunkReadings), NEW events \in Seq(Events), NEW a, NEW b, NEW event \in Events,
         Tracks(all, events, a), KindOf(event) = "message_delta",
         b.input = a.input, b.output = 5 * PayloadOf(event)[2],
         b.finish = IF PayloadOf(event)[2] = 2 THEN "length" ELSE "stop",
         NEW chunk \in ChunkReadings, chunk.text = <<>>, chunk.finish = b.finish
  PROVE  Tracks(Append(all, chunk), Append(events, event), b)
<1> DEFINE n == PayloadOf(event)[2]
           starts == Said(events, {"message_start"})
           ends == Said(events, {"message_delta"})
           text == Said(events, {"text"})
<1>1. starts \in Seq(Nat) /\ ends \in Seq(Nat) /\ text \in Seq(Nat) /\ n \in Nat
  BY SaidCollected, PayloadType, TokenFields
<1>2. /\ Said(Append(events, event), {"message_start"}) = starts \o <<>>
      /\ Said(Append(events, event), {"message_delta"}) = ends \o <<n>>
      /\ Said(Append(events, event), {"text"}) = text \o <<>>
  BY SaidAppend
<1>3. /\ a.input = 2 * LastOr(starts, 0)
      /\ Collect(all, TextIn) = text
  BY DEF Tracks
<1>4. /\ Collect(Append(all, chunk), TextIn) = Collect(all, TextIn) \o <<>>
      /\ LastOr(Collect(Append(all, chunk), FinishIn), "none") = b.finish
  BY CollectMore
<1>5. b.output = 5 * n /\ b.finish = IF n = 2 THEN "length" ELSE "stop"
  OBVIOUS
<1> HIDE DEF starts, ends, text, n
<1>6. /\ starts \o <<>> = starts /\ text \o <<>> = text
      /\ ends \o <<n>> # <<>> /\ Last(ends \o <<n>>) = n /\ LastOr(ends \o <<n>>, 0) = n
  <2>1. ends \o <<n>> # <<>> /\ Last(ends \o <<n>>) = n /\ LastOr(ends \o <<n>>, 0) = n
    BY <1>1, LastOfConcat, ZenonT(30)
  <2>2. starts \o <<>> = starts /\ text \o <<>> = text
    BY ONLY <1>1
  <2> QED
    BY <2>1, <2>2
<1> QED
  BY <1>2, <1>3, <1>4, <1>5, <1>6 DEF Tracks

LEMMA QuietChunk ==
  ASSUME NEW text \in Seq(Nat), NEW tools \in Seq(ToolDeltas), NEW finish \in Finishes
  PROVE  LET chunk == Chunk(text, tools, finish, NoUsage)
         IN  chunk \in QuietChunks /\ chunk.text = text /\ chunk.finish = finish
<1>1. Chunk(text, tools, finish, NoUsage) \in Readings
  BY FrameTypes
<1>2. ~NoUsage.known
  BY DEF NoUsage
<1> QED
  BY <1>1, <1>2 DEF Chunk, QuietChunks, ChunkReadings

LEMMA OutMore ==
  ASSUME NEW h \in Seq(ChunkReadings), NEW out \in Seq(QuietChunks), NEW chunk \in QuietChunks
  PROVE  /\ Append(out, chunk) \in Seq(QuietChunks)
         /\ h \o out \in Seq(ChunkReadings) /\ chunk \in ChunkReadings
         /\ h \o Append(out, chunk) = Append(h \o out, chunk)
<1>1. out \in Seq(ChunkReadings) /\ chunk \in ChunkReadings
  BY QuietCollect DEF QuietChunks
<1> DEFINE S == ChunkReadings
           Q == QuietChunks
<1>2. out \in Seq(S) /\ chunk \in S /\ h \in Seq(S) /\ out \in Seq(Q) /\ chunk \in Q
  BY <1>1
<1> HIDE DEF S, Q
<1>3. Append(out, chunk) \in Seq(Q)
  BY ONLY <1>2
<1>4. h \o out \in Seq(S)
  BY ONLY <1>2
<1>5. h \o Append(out, chunk) = Append(h \o out, chunk)
  BY ONLY <1>2
<1> QED
  BY <1>2, <1>3, <1>4, <1>5 DEF S, Q

\* The chunks an adapter makes.
LEMMA QuietKinds ==
  /\ \A finish \in Finishes :
       LET chunk == Chunk(<<>>, <<>>, finish, NoUsage)
       IN  chunk \in QuietChunks /\ chunk.text = <<>> /\ chunk.finish = finish
  /\ \A tools \in Seq(ToolDeltas) :
       LET chunk == Chunk(<<>>, tools, "none", NoUsage)
       IN  chunk \in QuietChunks /\ chunk.text = <<>> /\ chunk.finish = "none"
  /\ \A n \in Nat :
       LET chunk == Chunk(<<n>>, <<>>, "none", NoUsage)
       IN  chunk \in QuietChunks /\ chunk.text = <<n>> /\ chunk.finish = "none"
<1> DEFINE e == <<>>
           w == "none"
<1>1. e \in Seq(Nat) /\ e \in Seq(ToolDeltas) /\ w \in Finishes
  BY EmptyTypes
<1> HIDE DEF e, w
<1>2. \A finish \in Finishes :
        LET chunk == Chunk(e, e, finish, NoUsage)
        IN  chunk \in QuietChunks /\ chunk.text = e /\ chunk.finish = finish
  BY <1>1, QuietChunk
<1>3. \A tools \in Seq(ToolDeltas) :
        LET chunk == Chunk(e, tools, w, NoUsage)
        IN  chunk \in QuietChunks /\ chunk.text = e /\ chunk.finish = w
  BY <1>1, QuietChunk
<1>4. ASSUME NEW n \in Nat
      PROVE  LET chunk == Chunk(<<n>>, e, w, NoUsage)
             IN  chunk \in QuietChunks /\ chunk.text = <<n>> /\ chunk.finish = w
  <2> DEFINE text == <<n>>
  <2>1. text \in Seq(Nat)
    OBVIOUS
  <2> HIDE DEF text
  <2>2. LET chunk == Chunk(text, e, w, NoUsage)
        IN  chunk \in QuietChunks /\ chunk.text = text /\ chunk.finish = w
    BY <1>1, <2>1, QuietChunk
  <2> QED
    BY <2>2 DEF text
<1> QED
  BY <1>2, <1>3, <1>4 DEF e, w

\* What an adapter that reads makes of an event.
LEMMA AdaptTracks ==
  ASSUME NEW h \in Seq(ChunkReadings), NEW a \in Adapters, a.state = "reading", a.out \in Seq(QuietChunks),
         NEW events \in Seq(Events), NEW event \in Events, Tracks(h \o a.out, events, a)
  PROVE  LET next == Adapt(a, event)
         IN  /\ next.out \in Seq(QuietChunks)
             /\ \/ next.state = "failed"
                \/ /\ PayloadOf(event) = Done /\ next.state = "stopped"
                   /\ Tracks(h \o next.out, events, next)
                \/ /\ PayloadOf(event) # Done /\ next.state = "reading"
                   /\ Tracks(h \o next.out, Append(events, event), next)
<1> DEFINE payload == PayloadOf(event)
           kind == payload[1]
           n == payload[2]
           next == Adapt(a, event)
           Out(chunk) == Append(a.out, chunk)
           Fine(b) == /\ b.out \in Seq(QuietChunks)
                      /\ \/ b.state = "failed"
                         \/ payload = Done /\ b.state = "stopped" /\ Tracks(h \o b.out, events, b)
                         \/ payload # Done /\ b.state = "reading" /\ Tracks(h \o b.out, Append(events, event), b)
<1> SUFFICES Fine(next)
  OBVIOUS
<1>1. payload \in Tokens /\ n \in Nat /\ kind = KindOf(event)
  BY PayloadType, TokenFields DEF KindOf
<1>2. h \o a.out \in Seq(ChunkReadings)
  <2>1. a.out \in Seq(ChunkReadings)
    BY QuietCollect
  <2> DEFINE S == ChunkReadings
             out == a.out
  <2>2. h \in Seq(S) /\ out \in Seq(S)
    BY <2>1
  <2> HIDE DEF S, out
  <2>3. h \o out \in Seq(S)
    BY ONLY <2>2
  <2> QED
    BY <2>3 DEF S, out
<1>3. Done[1] = "[DONE]" /\ Garbled[1] = "garbled" /\ Done # Garbled
  BY DEF Done, Garbled
<1>4. ASSUME payload # Done, kind \notin {"message_start", "message_delta", "text"} PROVE Fine(a)
  <2>1. Tracks(h \o a.out, Append(events, event), a)
    BY <1>1, <1>2, <1>4, TracksQuietly
  <2> QED
    BY <1>4, <2>1
<1>5. ASSUME NEW chunk \in QuietChunks, NEW b, b.state = "reading", b.out = Out(chunk),
             payload # Done, Tracks(Append(h \o a.out, chunk), Append(events, event), b)
      PROVE  Fine(b)
  <2>1. Out(chunk) \in Seq(QuietChunks) /\ h \o Out(chunk) = Append(h \o a.out, chunk)
    BY OutMore
  <2> QED
    BY <1>5, <2>1
<1>6. CASE payload = Garbled /\ next = a
  BY <1>1, <1>3, <1>4, <1>6
<1>7. CASE payload = Done /\ next = [a EXCEPT !.state = "stopped"]
  <2>1. next.state = "stopped" /\ next.input = a.input /\ next.output = a.output /\ next.finish = a.finish
        /\ next.out = a.out
    BY <1>7 DEF Adapters
  <2> HIDE DEF next
  <2>2. Tracks(h \o next.out, events, next)
    BY <2>1 DEF Tracks
  <2> QED
    BY <1>7, <2>1, <2>2
<1>8. CASE next = [a EXCEPT !.state = "failed"]
  <2>1. next.state = "failed" /\ next.out = a.out
    BY <1>8 DEF Adapters
  <2> QED
    BY <2>1
<1>9. "none" \in Finishes /\ "stop" \in Finishes /\ "length" \in Finishes
  BY EmptyTypes
<1>10. CASE /\ payload # Done /\ kind = "message_start"
            /\ next = [a EXCEPT !.input = 2 * n, !.out = Out(Chunk(<<>>, <<>>, "none", NoUsage))]
  <2> DEFINE chunk == Chunk(<<>>, <<>>, "none", NoUsage)
  <2>1. chunk \in QuietChunks /\ chunk.text = <<>> /\ chunk.finish = "none"
    BY <1>9, QuietKinds
  <2> HIDE DEF chunk
  <2>2. next.state = "reading" /\ next.input = 2 * n /\ next.output = a.output /\ next.finish = a.finish
        /\ next.out = Out(chunk)
    BY <1>10 DEF Adapters, chunk
  <2> HIDE DEF next
  <2>3. Tracks(Append(h \o a.out, chunk), Append(events, event), next)
    <3>1. chunk \in ChunkReadings
      BY <2>1 DEF QuietChunks
    <3> QED
      BY <1>1, <1>2, <1>10, <2>1, <2>2, <3>1, TracksStart
  <2> QED
    BY <1>5, <1>10, <2>1, <2>2, <2>3
<1>11. CASE payload # Done /\ kind = "tool_start" /\ next = StartTool(a, n)
  <2> DEFINE place == Cardinality(DOMAIN a.ordinals)
             chunk == Chunk(<<>>, ToolDelta(place, n, FALSE), "none", NoUsage)
  <2>1. chunk \in QuietChunks /\ chunk.text = <<>> /\ chunk.finish = "none"
    <3>1. place \in Nat
      BY AdapterFields, FS_CardinalityType
    <3> HIDE DEF place
    <3>2. ToolDelta(place, n, FALSE) \in Seq(ToolDeltas)
      <4> DEFINE delta == [place |-> place, block |-> n, args |-> FALSE]
      <4>1. delta \in ToolDeltas
        BY <1>1, <3>1 DEF ToolDeltas
      <4> HIDE DEF delta
      <4>2. <<delta>> \in Seq(ToolDeltas)
        BY <4>1
      <4> QED
        BY <4>2 DEF delta, ToolDelta
    <3> QED
      BY <3>2, QuietKinds
  <2>2. next = [a EXCEPT !.ordinals = Extended(a.ordinals, n, place), !.out = Out(chunk)]
    BY <1>1, <1>11, StartToolType
  <2> HIDE DEF chunk, place
  <2>3. next.state = "reading" /\ next.input = a.input /\ next.output = a.output /\ next.finish = a.finish
        /\ next.out = Out(chunk)
    BY <2>2 DEF Adapters
  <2> HIDE DEF next
  <2>4. Tracks(Append(h \o a.out, chunk), Append(events, event), next)
    <3>1. chunk \in ChunkReadings
      BY <2>1 DEF QuietChunks
    <3> QED
      BY <1>1, <1>2, <1>11, <2>1, <2>3, <3>1, TracksQuietly
  <2> QED
    BY <1>5, <1>11, <2>1, <2>3, <2>4
<1>12. CASE /\ payload # Done /\ kind = "text"
            /\ next = [a EXCEPT !.out = Out(Chunk(<<n>>, <<>>, "none", NoUsage))]
  <2> DEFINE chunk == Chunk(<<n>>, <<>>, "none", NoUsage)
  <2>1. chunk \in QuietChunks /\ chunk.text = <<n>> /\ chunk.finish = "none"
    BY <1>1, QuietKinds
  <2> HIDE DEF chunk
  <2>2. next.state = "reading" /\ next.input = a.input /\ next.output = a.output /\ next.finish = a.finish
        /\ next.out = Out(chunk)
    BY <1>12 DEF Adapters, chunk
  <2> HIDE DEF next
  <2>3. Tracks(Append(h \o a.out, chunk), Append(events, event), next)
    <3>1. chunk \in ChunkReadings
      BY <2>1 DEF QuietChunks
    <3> QED
      BY <1>1, <1>2, <1>12, <2>1, <2>2, <3>1, TracksText
  <2> QED
    BY <1>5, <1>12, <2>1, <2>2, <2>3
<1>13. CASE /\ payload # Done /\ kind = "args"
            /\ next = [a EXCEPT !.out = Out(Chunk(<<>>, ToolDelta(Place(a, n), n, TRUE), "none", NoUsage))]
  <2> DEFINE place == Place(a, n)
             chunk == Chunk(<<>>, ToolDelta(place, n, TRUE), "none", NoUsage)
  <2>1. chunk \in QuietChunks /\ chunk.text = <<>> /\ chunk.finish = "none"
    <3>1. place \in Nat
      BY PlaceType
    <3> HIDE DEF place
    <3>2. ToolDelta(place, n, TRUE) \in Seq(ToolDeltas)
      <4> DEFINE delta == [place |-> place, block |-> n, args |-> TRUE]
      <4>1. delta \in ToolDeltas
        BY <1>1, <3>1 DEF ToolDeltas
      <4> HIDE DEF delta
      <4>2. <<delta>> \in Seq(ToolDeltas)
        BY <4>1
      <4> QED
        BY <4>2 DEF delta, ToolDelta
    <3> QED
      BY <3>2, QuietKinds
  <2>2. next = [a EXCEPT !.out = Out(chunk)]
    BY <1>13
  <2> HIDE DEF chunk, place
  <2>3. next.state = "reading" /\ next.input = a.input /\ next.output = a.output /\ next.finish = a.finish
        /\ next.out = Out(chunk)
    BY <2>2 DEF Adapters
  <2> HIDE DEF next
  <2>4. Tracks(Append(h \o a.out, chunk), Append(events, event), next)
    <3>1. chunk \in ChunkReadings
      BY <2>1 DEF QuietChunks
    <3> QED
      BY <1>1, <1>2, <1>13, <2>1, <2>3, <3>1, TracksQuietly
  <2> QED
    BY <1>5, <1>13, <2>1, <2>3, <2>4
<1>14. CASE payload # Done /\ kind = "message_delta" /\ next = Conclude(a, n)
  <2> DEFINE finish == IF n = 2 THEN "length" ELSE "stop"
             chunk == Chunk(<<>>, <<>>, finish, NoUsage)
  <2>1. chunk \in QuietChunks /\ chunk.text = <<>> /\ chunk.finish = finish
    BY <1>9, QuietKinds
  <2>2. next = [a EXCEPT !.finish = finish, !.output = 5 * n, !.out = Out(chunk)]
    BY <1>1, <1>14, ConcludeType
  <2> HIDE DEF chunk
  <2>3. next.state = "reading" /\ next.input = a.input /\ next.output = 5 * n /\ next.finish = finish
        /\ next.out = Out(chunk)
    BY <2>2 DEF Adapters
  <2> HIDE DEF next
  <2>4. Tracks(Append(h \o a.out, chunk), Append(events, event), next)
    <3>1. chunk \in ChunkReadings
      BY <2>1 DEF QuietChunks
    <3> QED
      BY <1>1, <1>2, <1>14, <2>1, <2>3, <3>1, TracksEnd
  <2> QED
    BY <1>5, <1>14, <2>1, <2>3, <2>4
<1>15. CASE payload # Done /\ kind \notin {"message_start", "tool_start", "text", "args", "message_delta"} /\ next = a
  BY <1>1, <1>4, <1>15
<1> HIDE DEF Fine
<1> QED
  BY <1>6, <1>7, <1>8, <1>10, <1>11, <1>12, <1>13, <1>14, <1>15, AdaptCases

LEMMA SoundShorter ==
  ASSUME NEW u \in Seq(Events), NEW event
  PROVE  Sound(u) # Append(u, event)
<1>1. PICK m \in 0..Len(u) : Sound(u) = SubSeq(u, 1, m)
  BY SoundCut
<1>2. Len(SubSeq(u, 1, m)) = m /\ Len(Append(u, event)) = Len(u) + 1 /\ Len(u) \in Nat
  OBVIOUS
<1>3. m # Len(u) + 1
  BY <1>2
<1> QED
  BY <1>1, <1>2, <1>3

\* The adapter after all the events that were parsed.
LEMMA AdaptAllTracks ==
  ASSUME Anthropic, NEW h \in Seq(ChunkReadings), NEW a \in Adapters, a.state = "reading",
         NEW events \in Seq(Events), Sound(events) = events, Tracks(h, events, a), NEW more \in Seq(Events)
  PROVE  LET heard == AdaptAll(a, more)
         IN  /\ heard.out \in Seq(QuietChunks)
             /\ heard.state \in {"reading", "stopped", "failed"}
             /\ heard.state = "reading" => Sound(events \o more) = events \o more
             /\ heard.state \in {"reading", "stopped"} => Tracks(h \o heard.out, Sound(events \o more), heard)
<1>1. PICK g \in [0..Len(more) -> Adapters] :
        /\ g[0] = [a EXCEPT !.out = <<>>]
        /\ \A n \in 1..Len(more) : g[n] = Adapt(g[n - 1], more[n])
        /\ AdaptAll(a, more) = g[Len(more)]
  BY AdaptChain
<1> DEFINE N == Len(more)
           U(n) == events \o SubSeq(more, 1, n)
           Good(b, u) == /\ b.out \in Seq(QuietChunks)
                         /\ b.state \in {"reading", "stopped", "failed"}
                         /\ b.state = "reading" => Sound(u) = u
                         /\ b.state = "stopped" => Sound(u) # u
                         /\ b.state \in {"reading", "stopped"} => Tracks(h \o b.out, Sound(u), b)
           S == {n \in 0..N : Good(g[n], U(n))}
<1>2. N \in Nat /\ \A n \in 1..N : more[n] \in Events
  OBVIOUS
<1>3. U(0) = events /\ U(N) = events \o more
  <2>1. SubSeq(more, 1, 0) = <<>> /\ SubSeq(more, 1, N) = more
    OBVIOUS
  <2>2. events \o <<>> = events
    OBVIOUS
  <2> QED
    BY <2>1, <2>2
<1>4. ASSUME NEW n \in 0..N, n < N
      PROVE  U(n) \in Seq(Events) /\ U(n + 1) = Append(U(n), more[n + 1]) /\ more[n + 1] \in Events
  <2> DEFINE s == SubSeq(more, 1, n)
             e == more[n + 1]
  <2>1. s \in Seq(Events) /\ e \in Events /\ SubSeq(more, 1, n + 1) = Append(s, e)
    BY <1>2, <1>4
  <2> HIDE DEF s, e
  <2>2. events \o s \in Seq(Events)
    BY ONLY <2>1, events \in Seq(Events)
  <2>3. events \o Append(s, e) = Append(events \o s, e)
    BY ONLY <2>1, events \in Seq(Events)
  <2> QED
    BY <2>1, <2>2, <2>3 DEF s, e
<1> HIDE DEF U, N
<1>5. 0 \in S
  <2>1. g[0].out = <<>> /\ g[0].state = "reading" /\ g[0].input = a.input /\ g[0].output = a.output
        /\ g[0].finish = a.finish
    BY <1>1 DEF Adapters
  <2>2. h \o <<>> = h /\ <<>> \in Seq(QuietChunks)
    OBVIOUS
  <2>3. Tracks(h \o g[0].out, events, g[0])
    BY <2>1, <2>2 DEF Tracks
  <2>4. Good(g[0], U(0))
    BY <1>3, <2>1, <2>2, <2>3
  <2> HIDE DEF Good
  <2> QED
    BY <1>2, <2>4
<1>6. \A n \in 0..N : n \in S /\ n < N => n + 1 \in S
  <2> SUFFICES ASSUME NEW n \in 0..N, n \in S, n < N PROVE n + 1 \in S
    OBVIOUS
  <2> DEFINE b == g[n]
             u == U(n)
             event == more[n + 1]
             next == Adapt(b, event)
  <2>1. /\ n + 1 \in 0..N
        /\ u \in Seq(Events) /\ event \in Events
        /\ U(n + 1) = Append(u, event)
        /\ b \in Adapters
        /\ Good(b, u)
    BY <1>1, <1>2, <1>4 DEF N
  <2>2. g[n + 1] = next
    <3>1. n + 1 \in 1..N /\ (n + 1) - 1 = n
      BY <1>2
    <3> QED
      BY <1>1, <3>1 DEF N
  <2> HIDE DEF b, u, event
  <2>3. CASE b.state = "reading"
    <3>1. Tracks(h \o b.out, u, b) /\ Sound(u) = u
      BY <2>1, <2>3
    <3>2. /\ next.out \in Seq(QuietChunks)
          /\ \/ next.state = "failed"
             \/ /\ PayloadOf(event) = Done /\ next.state = "stopped"
                /\ Tracks(h \o next.out, u, next)
             \/ /\ PayloadOf(event) # Done /\ next.state = "reading"
                /\ Tracks(h \o next.out, Append(u, event), next)
      BY <2>1, <2>3, <3>1, AdaptTracks
    <3>3. Sound(Append(u, event)) = IF PayloadOf(event) # Done THEN Append(u, event) ELSE u
      BY <2>1, <3>1, SoundAppend DEF Ends
    <3>4. u # Append(u, event)
      BY <2>1, <3>1, SoundShorter
    <3> HIDE DEF next
    <3> QED
      BY <2>1, <2>2, <3>2, <3>3, <3>4
  <2>4. CASE b.state # "reading"
    <3>1. next = b
      BY <2>4 DEF Adapt
    <3> HIDE DEF next
    <3>2. CASE b.state = "stopped"
      <4>1. Sound(u) # u /\ Tracks(h \o b.out, Sound(u), b)
        BY <2>1, <3>2
      <4>2. Sound(Append(u, event)) = Sound(u) /\ Sound(u) # Append(u, event)
        BY <2>1, <4>1, SoundAppend, SoundShorter
      <4> QED
        BY <2>1, <2>2, <3>1, <3>2, <4>1, <4>2
    <3>3. CASE b.state # "stopped"
      BY <2>1, <2>2, <2>4, <3>1, <3>3
    <3> QED
      BY <3>2, <3>3
  <2> QED
    BY <2>3, <2>4
<1>7. N \in S
  <2> HIDE DEF S
  <2>1. 0..N \subseteq S
    BY <1>2, <1>5, <1>6, Induction
  <2>2. N \in 0..N
    BY <1>2
  <2> QED
    BY <2>1, <2>2
<1>8. Good(g[N], events \o more)
  BY <1>3, <1>7
<1> QED
  BY <1>1, <1>8 DEF N

-----------------------------------------------------------------------------
(* What the gateway reads of a stream.                                     *)

\* What is read tells nothing yet.
LEMMA ToldKept ==
  ASSUME UNCHANGED <<stage, call, pump, bridge, frames, charge, replay>>, NEW h, HeardInv(h), ToldInv(h)
  PROVE  HeardInv(h)' /\ ToldInv(h)'
<1>1. HeardInv(h)'
  BY HeardKept
<1>2. ToldOf(h)' = ToldOf(h) /\ LastFrames' = LastFrames
  BY FramesKept
<1>3. Complete' <=> Complete
  BY DEF Complete
<1> QED
  BY <1>1, <1>2, <1>3 DEF ToldInv

LEMMA SoundAfter ==
  ASSUME NEW s, UNCHANGED sent, parsed' = s
  PROVE  Sound(parsed)' = Sound(s) /\ Anthropic' = Anthropic
BY DEF Sound, Anthropic

\* While the loop waits it has read all that was parsed.
LEMMA OpenAiWaits ==
  ASSUME PublicCallTypeOK, ~Anthropic, pump.state = "reading", queue = <<>>,
         NEW h \in Seq(ChunkReadings), OpenAiInv(h)
  PROVE  h = Readable(parsed) /\ Sound(parsed) = parsed
<1>1. PICK tail \in {<<>>, <<Reading("failure")>>} : h \o queue = Readable(parsed) \o tail
  BY DEF OpenAiInv
<1>2. parsed \in Seq(Events) /\ <<>> \in Seq(Readings)
  BY EmptyTypes DEF PublicCallTypeOK
<1>3. tail = <<>> /\ Sound(parsed) = parsed /\ h = Readable(Sound(parsed))
  <2> DEFINE more == <<>>
  <2>1. more \in Seq(Readings) /\ more = <<>> /\ h \o more = Readable(parsed) \o tail
    BY <1>1, <1>2
  <2> HIDE DEF more
  <2> QED
    BY <1>2, <2>1, OpenAiHeard
<1> QED
  BY <1>3

LEMMA AnthropicWaits ==
  ASSUME pump.state = "reading", queue = <<>>, NEW h \in Seq(ChunkReadings), AnthropicInv(h)
  PROVE  /\ adapter.state = "reading" /\ AdapterInv /\ Sound(parsed) = parsed
         /\ Collect(h, UsageIn) = <<>>
         /\ Collect(h, TextIn) = Said(Sound(parsed), {"text"})
         /\ LastOr(Collect(h, FinishIn), "none") = adapter.finish
<1>1. PICK all \in Seq(ChunkReadings) :
        /\ Collect(all, UsageIn) =
             IF adapter.state = "closed" THEN <<Usage(adapter.input, adapter.output)>> ELSE <<>>
        /\ adapter.state \in {"reading", "closed"} =>
             /\ Collect(all, TextIn) = Said(Sound(parsed), {"text"})
             /\ LastOr(Collect(all, FinishIn), "none") = adapter.finish
        /\ CASE adapter.state = "reading" -> h \o queue \in {all, all \o <<Reading("failure")>>}
             [] adapter.state = "closed" -> h \o queue = all \o <<Reading("done")>>
             [] adapter.state = "failed" -> h \o queue = all \o <<Reading("failure")>>
             [] OTHER -> FALSE
  BY DEF AnthropicInv
<1>2. all \o <<>> = all /\ h \o <<>> = h
  OBVIOUS
<1> DEFINE f == <<Reading("failure")>>
           d == <<Reading("done")>>
<1>3. f \in {<<>>, f, d} /\ d \in {<<>>, f, d}
  OBVIOUS
<1>4. f \in Seq(Readings) /\ f # <<>> /\ f[1].kind # "chunk" /\ d \in Seq(Readings) /\ d # <<>> /\ d[1].kind # "chunk"
  BY <1>3, TailTypes
<1>5. \A t \in {f, d} : h # all \o t
  <2> SUFFICES ASSUME NEW t \in {f, d}, h = all \o t PROVE FALSE
    OBVIOUS
  <2> DEFINE e == <<>>
  <2>1. e \in Seq(Readings) /\ e = <<>> /\ h \o e = all \o t
    BY <1>2, EmptyTypes
  <2> HIDE DEF e, f, d
  <2>2. t \in Seq(Readings) /\ t # <<>> /\ t[1].kind # "chunk"
    BY <1>4
  <2>3. \A q, r \in Seq(Readings) :
          /\ h \o q = all \o r
          /\ q # <<>> => q[1].kind # "chunk"
          /\ r # <<>> => r[1].kind # "chunk"
          => q = r
    BY SplitOnce
  <2>4. h \o e = all \o t => e = t
    BY <2>1, <2>2, <2>3
  <2> QED
    BY <2>1, <2>2, <2>4
<1>6. adapter.state = "reading" /\ h = all
  BY <1>1, <1>2, <1>5
<1> QED
  BY <1>1, <1>6 DEF AnthropicInv, AdapterInv

\* The connection broke: the loop is told.
LEMMA ErrorHeard ==
  ASSUME PublicCallTypeOK, RequestInv, ControlInv, StreamInv, ReadError
  PROVE  StreamInv'
<1>1. /\ stage = "streaming" /\ pump.state = "reading" /\ queue = <<>>
      /\ queue' = <<Reading("failure")>>
      /\ UNCHANGED <<stage, call, sent, parsed, adapter, pump, bridge, frames, charge, replay>>
  BY DEF ReadError, MayRead, Waiting, tellVars
<1>2. PICK h \in Seq(ChunkReadings) :
        /\ HeardInv(h)
        /\ ToldInv(h)
        /\ sent # Unsent /\ call.stream => IF Anthropic THEN AnthropicInv(h) ELSE OpenAiInv(h)
  BY <1>1, StreamOf
<1>3. sent # Unsent /\ call.stream
  BY <1>1 DEF RequestInv, ControlInv
<1>4. HeardInv(h)' /\ ToldInv(h)'
  BY <1>1, <1>2, ToldKept
<1>5. Sound(parsed)' = Sound(parsed) /\ Anthropic' = Anthropic
  BY <1>1, EventsKept
<1>6. CASE Anthropic
  <2>1. AnthropicInv(h)
    BY <1>2, <1>3, <1>6
  <2>2. /\ adapter.state = "reading" /\ Sound(parsed) = parsed
        /\ Collect(h, UsageIn) = <<>>
        /\ Collect(h, TextIn) = Said(Sound(parsed), {"text"})
        /\ LastOr(Collect(h, FinishIn), "none") = adapter.finish
    BY <1>1, <2>1, AnthropicWaits
  <2>3. AdapterInv'
    BY <1>1, <2>1, AdapterKept DEF AnthropicInv
  <2>4. AnthropicInv(h)'
    BY <1>1, <1>5, <2>2, <2>3 DEF AnthropicInv
  <2> QED
    BY <1>4, <1>5, <1>6, <2>4 DEF StreamInv
<1>7. CASE ~Anthropic
  <2>1. h = Readable(parsed)
    BY <1>1, <1>2, <1>3, <1>7, OpenAiWaits
  <2>2. OpenAiInv(h)'
    BY <1>1, <2>1 DEF OpenAiInv, Readable
  <2> QED
    BY <1>4, <1>5, <1>7, <2>2 DEF StreamInv
<1> QED
  BY <1>6, <1>7

\* The events of an OpenAI stream are read one for one.
LEMMA OpenAiReads ==
  ASSUME PublicCallTypeOK, RequestInv, ControlInv, StreamInv, ~Anthropic, MayRead,
         NEW chunk \in Seq(Tokens), NEW final \in BOOLEAN, NEW rest, Hear(chunk, final, rest)
  PROVE  StreamInv'
<1>1. parser \in Parsers /\ parsed \in Seq(Events)
  BY DEF PublicCallTypeOK
<1>2. PICK events \in Seq(Events) : events = Feed(parser, chunk, final).events
  BY <1>1, FeedType
<1>3. PICK tail \in {<<>>, <<Reading("failure")>>} :
        /\ parsed' = parsed \o events
        /\ queue' = Readable(events) \o tail
  BY <1>2 DEF Hear, Readable
<1>4. UNCHANGED <<stage, call, sent, pump, bridge, frames, charge, replay>>
  BY DEF Hear, tellVars
<1>5. stage = "streaming" /\ pump.state = "reading" /\ queue = <<>>
  BY DEF MayRead, Waiting
<1>6. PICK h \in Seq(ChunkReadings) :
        /\ HeardInv(h)
        /\ ToldInv(h)
        /\ sent # Unsent /\ call.stream => IF Anthropic THEN AnthropicInv(h) ELSE OpenAiInv(h)
  BY <1>5, StreamOf
<1>7. sent # Unsent /\ call.stream
  BY <1>5 DEF RequestInv, ControlInv
<1>8. HeardInv(h)' /\ ToldInv(h)'
  BY <1>4, <1>6, ToldKept
<1>9. h = Readable(parsed)
  BY <1>5, <1>6, <1>7, OpenAiWaits
<1>10. h \o queue' = Readable(parsed') \o tail
  <2> DEFINE s == Readable(parsed)
             t == Readable(events)
  <2>1. s \in Seq(Readings) /\ t \in Seq(Readings) /\ tail \in Seq(Readings)
    BY <1>1, ReadableMapped, TailTypes
  <2>2. Readable(parsed \o events) = s \o t
    BY <1>1, ReadableConcat
  <2> HIDE DEF s, t
  <2>3. s \o (t \o tail) = (s \o t) \o tail
    BY ONLY <2>1, SMTT(30)
  <2> QED
    BY <1>3, <1>9, <2>2, <2>3 DEF s, t
<1>11. Readable(parsed)' = Readable(parsed')
  BY DEF Readable
<1>12. OpenAiInv(h)'
  BY <1>4, <1>5, <1>10, <1>11 DEF OpenAiInv
<1>13. Anthropic' = Anthropic
  BY <1>4 DEF Anthropic
<1> QED
  BY <1>4, <1>8, <1>12, <1>13 DEF StreamInv

\* An adapter that failed has handed over some of its chunks, and that it failed.
LEMMA AdapterFails ==
  ASSUME NEW h \in Seq(ChunkReadings), Collect(h, UsageIn) = <<>>, NEW out \in Seq(QuietChunks),
         NEW n \in 0..Len(out)
  PROVE  LET all == h \o SubSeq(out, 1, n)
         IN  /\ all \in Seq(ChunkReadings)
             /\ Collect(all, UsageIn) = <<>>
             /\ h \o (SubSeq(out, 1, n) \o <<Reading("failure")>>) = all \o <<Reading("failure")>>
<1> DEFINE s == SubSeq(out, 1, n)
           f == <<Reading("failure")>>
           S == ChunkReadings
<1>1. s \in Seq(QuietChunks)
  OBVIOUS
<1> HIDE DEF s
<1>2. s \in Seq(S) /\ s \in Seq(Readings) /\ Collect(s, UsageIn) = <<>>
  BY <1>1, QuietCollect
<1>3. h \in Seq(S) /\ h \in Seq(Readings) /\ f \in Seq(Readings)
  BY ChunksAreReadings, TailTypes
<1> HIDE DEF f, S
<1>4. h \o s \in Seq(S)
  BY ONLY <1>2, <1>3
<1>5. h \o (s \o f) = (h \o s) \o f
  BY ONLY <1>2, <1>3
<1>6. Collect(h \o s, UsageIn) = <<>>
  <2>1. ASSUME NEW B, NEW g \in [Readings -> Seq(B)]
        PROVE  Collect(h \o s, g) = Collect(h, g) \o Collect(s, g)
    BY <1>2, <1>3, CollectConcat, SMTT(30)
  <2>2. UsageIn \in [Readings -> Seq(Usages)]
    BY CollectorTypes
  <2>3. Collect(h \o s, UsageIn) = Collect(h, UsageIn) \o Collect(s, UsageIn)
    BY <2>1, <2>2
  <2>4. <<>> \o <<>> = <<>>
    OBVIOUS
  <2> QED
    BY <1>2, <2>3, <2>4
<1> QED
  BY <1>4, <1>5, <1>6 DEF s, f, S

\* An adapter that reached the end has handed over all of its chunks, the usage and [DONE].
LEMMA AdapterCloses ==
  ASSUME NEW h \in Seq(ChunkReadings), Collect(h, UsageIn) = <<>>, NEW out \in Seq(QuietChunks),
         NEW input \in Nat, NEW output \in Nat, NEW events, NEW a, Tracks(h \o out, events, a)
  PROVE  LET last == Chunk(<<>>, <<>>, "none", Usage(input, output))
             all == Append(h \o out, last)
         IN  /\ all \in Seq(ChunkReadings)
             /\ Collect(all, UsageIn) = <<Usage(input, output)>>
             /\ Collect(all, TextIn) = Said(events, {"text"})
             /\ LastOr(Collect(all, FinishIn), "none") = a.finish
             /\ h \o (out \o <<last, Reading("done")>>) = all \o <<Reading("done")>>
<1> DEFINE last == Chunk(<<>>, <<>>, "none", Usage(input, output))
           d == Reading("done")
           S == ChunkReadings
           u == Usage(input, output)
           b == h \o out
<1>1. last \in ChunkReadings /\ last \in Readings /\ last.text = <<>> /\ last.finish = "none" /\ UsageIn[last] = <<u>>
  <2>1. u \in Usages /\ u.known
    BY FrameTypes DEF Usage
  <2> HIDE DEF u
  <2> DEFINE r == Chunk(<<>>, <<>>, "none", u)
             e == <<>>
             w == "none"
  <2>2. e \in Seq(Nat) /\ e \in Seq(ToolDeltas) /\ w \in Finishes
    BY EmptyTypes
  <2> HIDE DEF e, w
  <2>3. Chunk(e, e, w, u) \in Readings
    BY <2>1, <2>2, FrameTypes
  <2>4. r \in Readings
    BY <2>3 DEF e, w
  <2>5. r.kind = "chunk" /\ r.text = <<>> /\ r.finish = "none" /\ r.usage = u
    BY DEF Chunk
  <2> HIDE DEF r
  <2>6. r \in ChunkReadings /\ UsageIn[r] = <<u>>
    BY <2>1, <2>4, <2>5 DEF ChunkReadings, UsageIn
  <2> QED
    BY <2>4, <2>5, <2>6 DEF r, u
<1>2. out \in Seq(S) /\ out \in Seq(Readings) /\ Collect(out, UsageIn) = <<>>
  BY QuietCollect
<1>3. h \in Seq(S) /\ h \in Seq(Readings) /\ d \in Readings
  BY ChunksAreReadings, FrameTypes
<1>4. Tracks(b, events, a)
  OBVIOUS
<1> HIDE DEF last, d, S, u
<1>5. b \in Seq(S) /\ b \in Seq(Readings)
  BY ONLY <1>2, <1>3
<1>6. Append(b, last) \in Seq(S)
  <2>1. last \in S
    BY <1>1 DEF S
  <2> HIDE DEF b
  <2> QED
    BY ONLY <1>5, <2>1
<1>7. h \o (out \o <<last, d>>) = Append(b, last) \o <<d>>
  BY ONLY <1>1, <1>2, <1>3
<1>8. Collect(b, UsageIn) = <<>>
  <2>1. ASSUME NEW B, NEW g \in [Readings -> Seq(B)]
        PROVE  Collect(b, g) = Collect(h, g) \o Collect(out, g)
    BY <1>2, <1>3, CollectConcat
  <2>2. UsageIn \in [Readings -> Seq(Usages)]
    BY CollectorTypes
  <2>3. Collect(b, UsageIn) = Collect(h, UsageIn) \o Collect(out, UsageIn)
    BY <2>1, <2>2
  <2>4. <<>> \o <<>> = <<>>
    OBVIOUS
  <2> QED
    BY <1>2, <2>3, <2>4
<1> HIDE DEF b
<1>9. Collect(Append(b, last), UsageIn) = <<u>>
  <2>1. ASSUME NEW B, NEW g \in [Readings -> Seq(B)]
        PROVE  Collect(Append(b, last), g) = Collect(b, g) \o g[last]
    BY <1>1, <1>5, CollectAppend
  <2>2. UsageIn \in [Readings -> Seq(Usages)]
    BY CollectorTypes
  <2>3. Collect(Append(b, last), UsageIn) = Collect(b, UsageIn) \o UsageIn[last]
    BY <2>1, <2>2
  <2>4. <<>> \o <<u>> = <<u>>
    OBVIOUS
  <2> QED
    BY <1>1, <1>8, <2>3, <2>4
<1>10. /\ Collect(Append(b, last), TextIn) = Said(events, {"text"})
       /\ LastOr(Collect(Append(b, last), FinishIn), "none") = a.finish
  <2>1. b \in Seq(ChunkReadings)
    BY <1>5 DEF S
  <2>2. /\ Collect(Append(b, last), TextIn) = Collect(b, TextIn) \o <<>>
        /\ LastOr(Collect(Append(b, last), FinishIn), "none") = LastOr(Collect(b, FinishIn), "none")
    BY <1>1, <2>1, CollectMore
  <2>3. Collect(b, TextIn) \in Seq(Nat)
    BY <1>5, CollectorTypes, CollectType
  <2> DEFINE c == Collect(b, TextIn)
  <2>4. c = Said(events, {"text"}) /\ LastOr(Collect(b, FinishIn), "none") = a.finish
    BY <1>4 DEF Tracks
  <2> HIDE DEF c
  <2>5. c \o <<>> = c
    BY <2>3 DEF c
  <2> QED
    BY <2>2, <2>4, <2>5 DEF c
<1> QED
  BY <1>6, <1>7, <1>9, <1>10 DEF last, d, S, u, b

\* What an adapter makes of the events is what the loop has to read.
LEMMA AnthropicReads ==
  ASSUME PublicCallTypeOK, RequestInv, ControlInv, StreamInv, Anthropic, MayRead,
         NEW chunk \in Seq(Tokens), NEW final \in BOOLEAN, NEW rest, Hear(chunk, final, rest)
  PROVE  StreamInv'
<1>1. parser \in Parsers /\ parsed \in Seq(Events) /\ adapter \in Adapters
  BY DEF PublicCallTypeOK
<1>2. PICK events \in Seq(Events) : events = Feed(parser, chunk, final).events
  BY <1>1, FeedType
<1>3. PICK heard \in Adapters : heard = AdaptAll(adapter, events)
  BY <1>1, AdaptAllType
<1>4. PICK broken \in BOOLEAN : broken <=> Feed(parser, chunk, final).parser.broken
  OBVIOUS
<1>5. PICK s \in Seq(Events) : s = parsed \o events
  <2>1. parsed \o events \in Seq(Events)
    BY <1>1
  <2> QED
    BY <2>1
<1>6. PICK t \in Seq(Events) : t = Sound(s)
  BY SoundType
<1> DEFINE over == final \/ heard.state = "stopped"
           next == IF broken THEN [heard EXCEPT !.state = "failed"]
                   ELSE IF over /\ heard.state # "failed" THEN CloseAdapter(heard) ELSE heard
<1>7. parsed' = s /\ adapter' = [next EXCEPT !.out = <<>>] /\ queue' \in Handed(next)
  BY <1>2, <1>3, <1>4, <1>5 DEF Hear
<1>8. UNCHANGED <<stage, call, sent, pump, bridge, frames, charge, replay>>
  BY DEF Hear, tellVars
<1>9. stage = "streaming" /\ pump.state = "reading" /\ queue = <<>>
  BY DEF MayRead, Waiting
<1>10. PICK h \in Seq(ChunkReadings) :
         /\ HeardInv(h)
         /\ ToldInv(h)
         /\ sent # Unsent /\ call.stream => IF Anthropic THEN AnthropicInv(h) ELSE OpenAiInv(h)
  BY <1>9, StreamOf
<1>11. AnthropicInv(h)
  BY <1>9, <1>10 DEF RequestInv, ControlInv
<1>12. HeardInv(h)' /\ ToldInv(h)'
  BY <1>8, <1>10, ToldKept
<1>13. Sound(parsed)' = t /\ Anthropic'
  <2>1. Sound(parsed)' = Sound(s) /\ Anthropic' = Anthropic
    BY <1>7, <1>8, SoundAfter
  <2> QED
    BY <1>6, <2>1
<1>14. /\ adapter.state = "reading" /\ Sound(parsed) = parsed /\ Collect(h, UsageIn) = <<>>
       /\ Tracks(h, parsed, adapter)
  <2>1. /\ adapter.state = "reading" /\ AdapterInv /\ Sound(parsed) = parsed
        /\ Collect(h, UsageIn) = <<>>
        /\ Collect(h, TextIn) = Said(Sound(parsed), {"text"})
        /\ LastOr(Collect(h, FinishIn), "none") = adapter.finish
    BY <1>9, <1>11, AnthropicWaits
  <2>2. /\ adapter.input = 2 * LastOr(Said(parsed, {"message_start"}), 0)
        /\ adapter.output = 5 * LastOr(Said(parsed, {"message_delta"}), 0)
        /\ adapter.finish = IF Said(parsed, {"message_delta"}) = <<>> THEN "none"
                            ELSE IF Last(Said(parsed, {"message_delta"})) = 2 THEN "length" ELSE "stop"
    BY <2>1 DEF AdapterInv
  <2> QED
    BY <2>1, <2>2 DEF Tracks
<1>15. /\ heard.out \in Seq(QuietChunks)
       /\ heard.state \in {"reading", "stopped", "failed"}
       /\ heard.state = "reading" => t = s
       /\ heard.state \in {"reading", "stopped"} => Tracks(h \o heard.out, t, heard)
  BY <1>1, <1>3, <1>5, <1>6, <1>14, AdaptAllTracks
<1>16. /\ heard.input \in Nat /\ heard.output \in Nat
       /\ heard \in [state : {"reading", "stopped", "failed", "closed"}, input : Nat, output : Nat,
                     finish : Finishes, ordinals : Ordinals, out : Seq(Readings)]
  BY AdapterFields
<1>17. CASE broken \/ heard.state = "failed"
  <2>1. next.state = "failed" /\ next.out = heard.out /\ adapter'.state = "failed" /\ adapter'.out = <<>>
    <3>1. next = [heard EXCEPT !.state = "failed"]
      BY <1>16, <1>17
    <3> HIDE DEF next
    <3> QED
      BY <1>7, <1>16, <3>1
  <2> HIDE DEF next
  <2>2. PICK n \in 0..Len(heard.out) : queue' = SubSeq(heard.out, 1, n) \o <<Reading("failure")>>
    BY <1>7, <2>1 DEF Handed
  <2> DEFINE all == h \o SubSeq(heard.out, 1, n)
  <2>3. /\ all \in Seq(ChunkReadings)
        /\ Collect(all, UsageIn) = <<>>
        /\ h \o queue' = all \o <<Reading("failure")>>
    BY <1>14, <1>15, <2>2, AdapterFails
  <2> HIDE DEF all
  <2>4. AdapterInv'
    BY <2>1 DEF AdapterInv
  <2>5. AnthropicInv(h)'
    BY <1>8, <1>9, <2>1, <2>3, <2>4 DEF AnthropicInv
  <2> QED
    BY <1>8, <1>12, <1>13, <2>5 DEF StreamInv
<1>18. CASE ~broken /\ heard.state # "failed" /\ over
  <2> DEFINE last == Chunk(<<>>, <<>>, "none", Usage(heard.input, heard.output))
             all == Append(h \o heard.out, last)
  <2>1. next = [heard EXCEPT !.state = "closed", !.out = heard.out \o <<last, Reading("done")>>]
    BY <1>18, CloseType
  <2>2. /\ next.state = "closed" /\ next.out = heard.out \o <<last, Reading("done")>>
        /\ adapter'.state = "closed" /\ adapter'.out = <<>> /\ adapter'.input = heard.input
        /\ adapter'.output = heard.output /\ adapter'.finish = heard.finish
    <3> HIDE DEF next, last
    <3> QED
      BY <1>7, <1>16, <2>1
  <2>3. queue' = heard.out \o <<last, Reading("done")>>
    <3> HIDE DEF next, last
    <3> QED
      BY <1>7, <2>2 DEF Handed
  <2> HIDE DEF next
  <2>4. Tracks(h \o heard.out, t, heard)
    BY <1>15, <1>18
  <2>5. /\ all \in Seq(ChunkReadings)
        /\ Collect(all, UsageIn) = <<Usage(heard.input, heard.output)>>
        /\ Collect(all, TextIn) = Said(t, {"text"})
        /\ LastOr(Collect(all, FinishIn), "none") = heard.finish
        /\ h \o (heard.out \o <<last, Reading("done")>>) = all \o <<Reading("done")>>
    <3> DEFINE out == heard.out
               i == heard.input
               o == heard.output
    <3>1. out \in Seq(QuietChunks) /\ i \in Nat /\ o \in Nat /\ Tracks(h \o out, t, heard)
      BY <1>15, <1>16, <2>4
    <3> HIDE DEF out, i, o
    <3>2. LET x == Chunk(<<>>, <<>>, "none", Usage(i, o))
              more == Append(h \o out, x)
          IN  /\ more \in Seq(ChunkReadings)
              /\ Collect(more, UsageIn) = <<Usage(i, o)>>
              /\ Collect(more, TextIn) = Said(t, {"text"})
              /\ LastOr(Collect(more, FinishIn), "none") = heard.finish
              /\ h \o (out \o <<x, Reading("done")>>) = more \o <<Reading("done")>>
      BY <1>14, <3>1, AdapterCloses
    <3> QED
      BY <3>2 DEF out, i, o
  <2> HIDE DEF last, all
  <2>6. AdapterInv'
    BY <1>13, <2>2, <2>4 DEF AdapterInv, Tracks
  <2>7. AnthropicInv(h)'
    BY <1>8, <1>9, <1>13, <2>2, <2>3, <2>5, <2>6 DEF AnthropicInv
  <2> QED
    BY <1>8, <1>12, <1>13, <2>7 DEF StreamInv
<1>19. CASE ~broken /\ heard.state = "reading" /\ ~over
  <2>1. next = heard
    BY <1>19
  <2>2. /\ adapter'.state = "reading" /\ adapter'.out = <<>> /\ adapter'.input = heard.input
        /\ adapter'.output = heard.output /\ adapter'.finish = heard.finish
        /\ queue' = heard.out
    <3> HIDE DEF next
    <3> QED
      BY <1>7, <1>16, <1>19, <2>1 DEF Handed
  <2> HIDE DEF next
  <2> DEFINE all == h \o heard.out
  <2>3. t = s /\ Tracks(all, t, heard)
    BY <1>15, <1>19
  <2>4. all \in Seq(ChunkReadings) /\ Collect(all, UsageIn) = <<>>
    <3> DEFINE n == Len(heard.out)
    <3>1. n \in 0..Len(heard.out) /\ SubSeq(heard.out, 1, n) = heard.out
      BY <1>15
    <3> HIDE DEF n
    <3> QED
      BY <1>14, <1>15, <3>1, AdapterFails, ZenonT(30)
  <2> HIDE DEF all
  <2>5. AdapterInv'
    BY <1>7, <1>13, <2>2, <2>3 DEF AdapterInv, Tracks
  <2>6. h \o queue' = all
    BY <2>2 DEF all
  <2>7. AnthropicInv(h)'
    BY <1>8, <1>9, <1>13, <2>2, <2>3, <2>4, <2>5, <2>6 DEF AnthropicInv, Tracks
  <2> QED
    BY <1>8, <1>12, <1>13, <2>7 DEF StreamInv
<1> QED
  BY <1>15, <1>17, <1>18, <1>19

-----------------------------------------------------------------------------
(* What ends a stream.                                                     *)

\* After the last chunk was read nothing changes about the source of the stream.
LEMMA SourceRead ==
  ASSUME UNCHANGED <<sent, parsed, adapter>>, pump.state # "reading", pump'.state # "reading",
         Complete' => Complete, NEW h, IF Anthropic THEN AnthropicInv(h) ELSE OpenAiInv(h)
  PROVE  (IF Anthropic THEN AnthropicInv(h) ELSE OpenAiInv(h))'
<1>1. Anthropic' = Anthropic /\ Sound(parsed)' = Sound(parsed) /\ (Finished(parsed)' <=> Finished(parsed))
  BY EventsKept
<1>2. CASE Anthropic
  <2>1. AdapterInv'
    BY <1>2, AdapterKept DEF AnthropicInv
  <2>2. AnthropicInv(h)'
    BY <1>1, <1>2, <2>1 DEF AnthropicInv
  <2> QED
    BY <1>1, <1>2, <2>2
<1>3. CASE ~Anthropic
  <2>1. OpenAiInv(h)'
    BY <1>1, <1>3 DEF OpenAiInv, Readable
  <2> QED
    BY <1>1, <1>3, <2>1
<1> QED
  BY <1>2, <1>3

\* The steps of a loop that ended: it tells the end, or that it failed.
LEMMA TailTold ==
  ASSUME PublicCallTypeOK, RequestInv, ControlInv, StreamInv,
         pump.state \in {"finalizing", "closing", "failing"},
         pump'.state \in {"closing", "failing", "over"}, pump'.received = pump.received,
         pump'.terminal = pump.terminal, UNCHANGED <<call, sent, parsed, adapter, bridge, charge>>,
         stage' = IF pump'.state = "over" THEN "over" ELSE stage,
         Complete' => Complete,
         \/ frames' = frames
         \/ pump'.state = "over" /\ frames' = frames \o <<Reading("error")>>
         \/ Complete' /\ pump'.state = "over" /\ frames' = frames \o LastFrames,
         \/ replay' = <<>>
         \/ /\ charge.state = "settled" /\ pump'.state \in {"closing", "over"}
            /\ pump'.state = "over" => frames' \in {frames, frames \o LastFrames}
            /\ replay' = frames \o LastFrames
  PROVE  StreamInv'
<1>1. stage = "streaming"
  BY DEF PublicCallTypeOK, ControlInv, Pristine, NewPump
<1>2. PICK h \in Seq(ChunkReadings) :
        /\ HeardInv(h)
        /\ ToldInv(h)
        /\ sent # Unsent /\ call.stream => IF Anthropic THEN AnthropicInv(h) ELSE OpenAiInv(h)
  BY <1>1, StreamOf
<1>3. sent # Unsent /\ call.stream
  BY <1>1 DEF RequestInv, ControlInv
<1>4. HeardInv(h)'
  BY <1>2, HeardKept
<1>5. ToldOf(h)' = ToldOf(h) /\ LastFrames' = LastFrames
  BY FramesKept
<1>6. frames = ToldOf(h)
  BY <1>1, <1>2 DEF ToldInv
<1>7. ToldInv(h)'
  BY <1>1, <1>5, <1>6 DEF ToldInv
<1>8. (IF Anthropic THEN AnthropicInv(h) ELSE OpenAiInv(h))'
  BY <1>2, <1>3, SourceRead
<1> QED
  BY <1>4, <1>7, <1>8 DEF StreamInv

\* The replay of a stream that ended, if it is kept, is all the client was told, and the end.
LEMMA ReplayKept ==
  ASSUME StreamInv, stage = "streaming", pump.state # "over"
  PROVE  replay = <<>> \/ (pump.state = "closing" /\ charge.state = "settled" /\ replay = frames \o LastFrames)
<1>1. PICK h \in Seq(ChunkReadings) : ToldInv(h)
  BY DEF StreamInv
<1>2. frames = ToldOf(h)
  BY <1>1 DEF ToldInv
<1>3. replay = <<>> \/ (pump.state = "closing" /\ charge.state = "settled" /\ replay = ToldOf(h) \o LastFrames)
  BY <1>1 DEF ToldInv
<1> QED
  BY <1>2, <1>3

LEMMA FinalTold ==
  ASSUME PublicCallTypeOK, RequestInv, ControlInv, StreamInv, Finalized \/ Closed \/ Failed
  PROVE  StreamInv'
<1>1. /\ pump.state \in {"finalizing", "closing", "failing"}
      /\ UNCHANGED <<call, sent, parsed, adapter, bridge, charge>>
  BY DEF Finalized, Closed, Failed
<1>2. stage = "streaming"
  BY <1>1 DEF PublicCallTypeOK, ControlInv, Pristine, NewPump
<1>3. pump \in [state : {"reading", "finalizing", "closing", "failing", "over"}, received : Usages,
                pieces : Nat, terminal : {"none", "finalize", "fail"}, cancelled : BOOLEAN]
      /\ charge.state \in {"none", "marked", "refunded", "settled"} /\ charge.state # "refunded"
  BY <1>2 DEF PublicCallTypeOK, PumpType, ChargeType, ControlInv
<1>4. replay = <<>> \/ (pump.state = "closing" /\ charge.state = "settled" /\ replay = frames \o LastFrames)
  BY <1>1, <1>2, ReplayKept
<1>5. ASSUME NEW more, Over(more)
      PROVE  /\ stage' = "over" /\ pump'.state = "over" /\ pump'.received = pump.received
             /\ pump'.terminal = pump.terminal
             /\ frames' = IF pump.cancelled THEN frames ELSE frames \o more
  BY <1>3, <1>5 DEF Over, Told
<1>6. CASE Finalized
  <2>1. pump.state = "finalizing" /\ charge.state # "none" /\ pump.terminal = "finalize" /\ Complete
    BY <1>6 DEF Finalized, Settled, ControlInv, Complete
  <2>2. CASE charge.state = "marked"
    <3>1. /\ pump'.state = "failing" /\ pump'.received = pump.received /\ pump'.terminal = pump.terminal
          /\ UNCHANGED <<stage, frames, replay>>
      BY <1>3, <1>6, <2>2 DEF Finalized
    <3> QED
      BY <1>1, <1>4, <2>1, <3>1, TailTold
  <2>3. CASE charge.state # "marked" /\ call.endpoint = "responses"
    <3>1. /\ Over(LastFrames)
          /\ replay' \in IF pump.cancelled THEN {<<>>} ELSE {<<>>, frames \o LastFrames}
      BY <1>6, <2>3 DEF Finalized
    <3>2. /\ stage' = "over" /\ pump'.state = "over" /\ pump'.received = pump.received
          /\ pump'.terminal = pump.terminal
          /\ frames' = IF pump.cancelled THEN frames ELSE frames \o LastFrames
      BY <1>5, <3>1
    <3>3. Complete' /\ charge.state = "settled"
      BY <1>1, <1>3, <2>1, <2>3, <3>2 DEF Complete
    <3> QED
      BY <1>1, <2>1, <3>1, <3>2, <3>3, TailTold
  <2>4. CASE charge.state # "marked" /\ call.endpoint # "responses"
    <3>1. /\ pump'.state = "closing" /\ pump'.received = pump.received /\ pump'.terminal = pump.terminal
          /\ replay' \in {<<>>, frames \o LastFrames}
          /\ UNCHANGED <<stage, frames>>
      BY <1>3, <1>6, <2>4 DEF Finalized
    <3>2. charge.state = "settled"
      BY <1>3, <2>1, <2>4
    <3> QED
      BY <1>1, <2>1, <3>1, <3>2, TailTold
  <2> QED
    BY <2>2, <2>3, <2>4
<1>7. CASE Closed
  <2>1. pump.state = "closing" /\ Over(LastFrames) /\ UNCHANGED replay
    BY <1>7 DEF Closed
  <2>2. charge.state = "settled" /\ pump.terminal = "finalize" /\ Complete
    BY <2>1 DEF ControlInv, Complete
  <2>3. /\ stage' = "over" /\ pump'.state = "over" /\ pump'.received = pump.received
        /\ pump'.terminal = pump.terminal
        /\ frames' = IF pump.cancelled THEN frames ELSE frames \o LastFrames
    BY <1>5, <2>1
  <2>4. Complete'
    BY <1>1, <2>2, <2>3 DEF Complete
  <2> QED
    BY <1>1, <1>4, <2>1, <2>2, <2>3, <2>4, TailTold
<1>8. CASE Failed
  <2>1. pump.state = "failing" /\ Over(<<Reading("error")>>) /\ UNCHANGED replay
    BY <1>8 DEF Failed
  <2>2. pump.terminal = "finalize" => charge.state = "marked"
    BY <2>1 DEF ControlInv
  <2>3. /\ stage' = "over" /\ pump'.state = "over" /\ pump'.received = pump.received
        /\ pump'.terminal = pump.terminal
        /\ frames' = IF pump.cancelled THEN frames ELSE frames \o <<Reading("error")>>
    BY <1>5, <2>1
  <2>4. ~Complete'
    BY <1>1, <2>2, <2>3 DEF Complete
  <2> QED
    BY <1>1, <1>4, <2>1, <2>3, <2>4, TailTold
<1> QED
  BY <1>6, <1>7, <1>8

\* What was told of a stream, and what of its source, holds whatever happens.
LEMMA StreamStep ==
  ASSUME PublicCallTypeOK, RequestInv, ControlInv, StreamInv, [PublicCallNext]_vars
  PROVE  StreamInv'
<1>0. stream.text \in Seq(Tokens) /\ PumpType
  BY DEF PublicCallTypeOK
<1>1. CASE Start
  BY <1>1 DEF Start, StreamInv
<1>2. CASE \E body \in Bodies : Receive(body)
  BY <1>2 DEF Receive, StreamInv
<1>3. CASE stage = "reserved" /\ \E route \in CandidateRoutes(CallModel) : Send(route)
  BY <1>3, NothingTold
<1>4. CASE \E answer \in Answers : AnswerBody(answer)
  BY <1>4, BodyTold
<1>5. CASE \E beginning \in Beginnings : OpenStream(beginning[1], beginning[2])
  BY <1>5, StreamOpens
<1>6. CASE /\ stage = "streaming"
           /\ \E event \in (IF Anthropic THEN AnthropicEvents ELSE OpenAiEvents) \cup {Ending} : Write(event)
  BY <1>6, StreamKept DEF Write, Waiting, tellVars
<1>7. CASE \E partial \in {<<>>, <<DataField, Done>> \o stream.newline} : EndStream(partial)
  BY <1>7, StreamKept DEF EndStream, Waiting, tellVars
<1>8. CASE BreakStream
  BY <1>8, StreamKept DEF BreakStream, Waiting, tellVars
<1>9. ASSUME MayRead, NEW chunk \in Seq(Tokens), NEW final \in BOOLEAN, NEW rest, Hear(chunk, final, rest)
      PROVE  StreamInv'
  BY <1>9, OpenAiReads, AnthropicReads
<1>10. CASE ReadChunk
  BY <1>0, <1>9, <1>10 DEF ReadChunk
<1>11. CASE \E n \in 1..Len(stream.text) : ReadPart(n)
  <2>1. PICK n \in 1..Len(stream.text) : ReadPart(n)
    BY <1>11
  <2> DEFINE text == stream.text
  <2> HIDE DEF text
  <2>2. SubSeq(text, 1, n) \in Seq(Tokens)
    BY <1>0, <2>1 DEF text
  <2> QED
    BY <1>9, <2>1, <2>2 DEF ReadPart, text
<1>12. CASE ReadEnd
  <2>1. <<>> \in Seq(Tokens)
    BY EmptyTypes
  <2> QED
    BY <1>9, <1>12, <2>1 DEF ReadEnd
<1>13. CASE ReadError
  BY <1>13, ErrorHeard
<1>14. CASE PumpChunk
  BY <1>14, ChunkTold
<1>15. CASE PumpEnd
  BY <1>15, EndTold
<1>16. CASE Cancel
  <2>1. /\ stage = "streaming" /\ pump'.state = pump.state /\ pump'.received = pump.received
        /\ UNCHANGED <<stage, call, sent, parsed, adapter, queue, bridge, frames, charge, replay>>
    BY <1>0, <1>16 DEF Cancel, tellVars, PumpType
  <2>2. pump.state # "over"
    BY <2>1 DEF ControlInv
  <2> QED
    BY <2>1, <2>2, StreamKept
<1>17. CASE Settle
  <2>1. /\ pump.terminal # "none" /\ charge.state = "none"
        /\ UNCHANGED <<stage, call, sent, parsed, adapter, queue, pump, bridge, frames, replay>>
    BY <1>17 DEF Settle
  <2>2. stage = "streaming" /\ pump.state # "over"
    BY <2>1 DEF PublicCallTypeOK, ControlInv, Pristine, NewPump
  <2> QED
    BY <2>1, <2>2, StreamKept
<1>18. CASE Finalized \/ Closed \/ Failed
  BY <1>18, FinalTold
<1>19. CASE UNCHANGED vars
  <2>1. UNCHANGED <<stage, call, sent, parsed, adapter, queue, pump, bridge, frames, charge, replay>>
    BY <1>19 DEF vars
  <2>2. CASE stage \in {"streaming", "over"}
    <3>1. PICK h \in Seq(ChunkReadings) :
            /\ HeardInv(h)
            /\ ToldInv(h)
            /\ sent # Unsent /\ call.stream => IF Anthropic THEN AnthropicInv(h) ELSE OpenAiInv(h)
      BY <2>2 DEF StreamInv
    <3>2. HeardInv(h)' /\ ToldInv(h)'
      BY <2>1, <3>1, ToldKept
    <3>3. Complete' <=> Complete
      BY <2>1 DEF Complete
    <3>4. (sent # Unsent /\ call.stream => IF Anthropic THEN AnthropicInv(h) ELSE OpenAiInv(h))'
      BY <2>1, <3>1, <3>3, SourceKept
    <3> QED
      BY <3>2, <3>4 DEF StreamInv
  <2>3. CASE stage \notin {"streaming", "over"}
    BY <2>1, <2>3 DEF StreamInv
  <2> QED
    BY <2>2, <2>3
<1> QED
  BY <1>1, <1>2, <1>3, <1>4, <1>5, <1>6, <1>7, <1>8, <1>10, <1>11, <1>12, <1>13, <1>14, <1>15, <1>16,
     <1>17, <1>18, <1>19 DEF PublicCallNext

-----------------------------------------------------------------------------
(* What the client was told, put together.                                 *)

FrameUsage == [frame \in Frames |-> IF frame.usage.known THEN <<frame.usage>> ELSE <<>>]
FrameKind == [frame \in Frames |-> frame.kind]

\* Usages that are known.
Knowns == {usage \in Usages : usage.known}

LEMMA FrameCollectors ==
  /\ FrameUsage \in [Frames -> Seq(Knowns)]
  /\ UsageIn \in [Readings -> Seq(Knowns)]
  /\ \A frame \in Frames : FrameUsage[frame] = IF frame.usage.known THEN <<frame.usage>> ELSE <<>>
  /\ \A frame \in Frames :
       FrameText[frame] = IF frame.kind \in {"chunk", "text delta"} THEN frame.text ELSE <<>>
<1>1. \A frame \in Frames : frame.usage \in Usages
  BY DEF Frames
<1>2. \A r \in Readings : r.usage \in Usages
  BY DEF Readings
<1>3. \A frame \in Frames : (IF frame.usage.known THEN <<frame.usage>> ELSE <<>>) \in Seq(Knowns)
  <2> SUFFICES ASSUME NEW frame \in Frames
               PROVE  (IF frame.usage.known THEN <<frame.usage>> ELSE <<>>) \in Seq(Knowns)
    OBVIOUS
  <2> DEFINE u == frame.usage
  <2>1. u \in Usages /\ (u.known => u \in Knowns)
    BY <1>1 DEF Knowns
  <2> HIDE DEF u
  <2>2. (IF u.known THEN <<u>> ELSE <<>>) \in Seq(Knowns)
    BY <2>1
  <2> QED
    BY <2>2 DEF u
<1>4. \A r \in Readings : (IF r.usage.known THEN <<r.usage>> ELSE <<>>) \in Seq(Knowns)
  <2> SUFFICES ASSUME NEW r \in Readings
               PROVE  (IF r.usage.known THEN <<r.usage>> ELSE <<>>) \in Seq(Knowns)
    OBVIOUS
  <2> DEFINE u == r.usage
  <2>1. u \in Usages /\ (u.known => u \in Knowns)
    BY <1>2 DEF Knowns
  <2> HIDE DEF u
  <2>2. (IF u.known THEN <<u>> ELSE <<>>) \in Seq(Knowns)
    BY <2>1
  <2> QED
    BY <2>2 DEF u
<1>5. FrameUsage \in [Frames -> Seq(Knowns)]
  BY <1>3 DEF FrameUsage
<1>6. UsageIn \in [Readings -> Seq(Knowns)]
  BY <1>4 DEF UsageIn
<1> QED
  BY <1>5, <1>6 DEF FrameUsage, FrameText

\* Frames of which nothing is collected.
LEMMA NothingCollected ==
  ASSUME NEW B, NEW f \in [Frames -> Seq(B)], NEW A \in SUBSET Frames, \A frame \in A : f[frame] = <<>>,
         NEW s \in Seq(A)
  PROVE  s \in Seq(Frames) /\ Collect(s, f) = <<>>
<1> DEFINE S == {t \in Seq(Frames) : Collect(t, f) = <<>>}
<1>1. <<>> \in S
  BY CollectEmpty, EmptyTypes
<1>2. ASSUME NEW t \in Seq(A), NEW frame \in A, t \in S PROVE Append(t, frame) \in S
  <2>1. t \in Seq(Frames) /\ frame \in Frames /\ Collect(t, f) = <<>> /\ f[frame] = <<>>
    BY <1>2
  <2>2. Collect(Append(t, frame), f) = Collect(t, f) \o f[frame]
    BY <2>1, CollectAppend
  <2>3. <<>> \o <<>> = <<>>
    OBVIOUS
  <2>4. Append(t, frame) \in Seq(Frames)
    BY <2>1
  <2> QED
    BY <2>1, <2>2, <2>3, <2>4
<1>3. Seq(A) \subseteq S
  <2> HIDE DEF S
  <2> QED
    BY <1>1, <1>2, SeqInduction
<1> QED
  BY <1>3

\* The last usage the client was told.
LEMMA LastUsage ==
  ASSUME NEW s \in Seq(Frames)
  PROVE  LET told == {i \in DOMAIN s : s[i].usage.known}
         IN  /\ told = {} <=> Collect(s, FrameUsage) = <<>>
             /\ told # {} => s[Max(told)].usage = LastOr(Collect(s, FrameUsage), NoUsage)
<1> DEFINE T(t) == {i \in DOMAIN t : t[i].usage.known}
           Held(t) == IF T(t) = {} THEN Collect(t, FrameUsage) = <<>>
                      ELSE /\ Collect(t, FrameUsage) # <<>>
                           /\ \E m \in T(t) :
                                /\ \A i \in T(t) : i <= m
                                /\ t[m].usage = LastOr(Collect(t, FrameUsage), NoUsage)
           S == {t \in Seq(Frames) : Held(t)}
<1>1. <<>> \in S
  <2>1. T(<<>>) = {}
    OBVIOUS
  <2>2. Held(<<>>)
    BY <2>1, CollectEmpty
  <2> HIDE DEF Held
  <2> QED
    BY <2>2, EmptyTypes
<1>2. ASSUME NEW t \in Seq(Frames), NEW frame \in Frames, t \in S PROVE Append(t, frame) \in S
  <2> DEFINE v == Append(t, frame)
             N == Len(t)
             c == Collect(t, FrameUsage)
  <2>1. /\ v \in Seq(Frames) /\ N \in Nat /\ DOMAIN t = 1..N /\ DOMAIN v = 1..(N + 1)
        /\ \A i \in 1..N : v[i] = t[i]
        /\ v[N + 1] = frame
    OBVIOUS
  <2>2. Collect(v, FrameUsage) = c \o FrameUsage[frame] /\ c \in Seq(Knowns)
    <3>1. ASSUME NEW B, NEW f \in [Frames -> Seq(B)]
          PROVE  Collect(v, f) = Collect(t, f) \o f[frame] /\ Collect(t, f) \in Seq(B)
      BY CollectAppend, CollectType
    <3>2. FrameUsage \in [Frames -> Seq(Knowns)]
      BY FrameCollectors
    <3> QED
      BY <3>1, <3>2
  <2>3. Held(t)
    BY <1>2
  <2>4. CASE frame.usage.known
    <3> DEFINE u == frame.usage
    <3>1. u \in Knowns /\ FrameUsage[frame] = <<u>>
      BY <2>4, FrameCollectors DEF Knowns, Frames
    <3> HIDE DEF v, c, u
    <3>2. c \o <<u>> # <<>> /\ LastOr(c \o <<u>>, NoUsage) = u
      BY <2>2, <3>1, LastOfConcat
    <3>3. N + 1 \in T(v) /\ \A i \in T(v) : i <= N + 1
      BY <2>1, <2>4
    <3>4. v[N + 1].usage = u
      BY <2>1 DEF u
    <3>5. Held(v)
      BY <2>2, <3>1, <3>2, <3>3, <3>4
    <3> QED
      BY <2>1, <3>5 DEF v
  <2>5. CASE ~frame.usage.known
    <3>1. FrameUsage[frame] = <<>>
      BY <2>5, FrameCollectors
    <3> HIDE DEF v, c
    <3>2. c \o <<>> = c
      BY <2>2
    <3>3. T(v) = T(t) /\ \A i \in T(t) : v[i] = t[i]
      BY <2>1, <2>5
    <3>4. Collect(v, FrameUsage) = Collect(t, FrameUsage)
      BY <2>2, <3>1, <3>2 DEF c
    <3>5. Held(v)
      BY <2>3, <3>3, <3>4
    <3> QED
      BY <2>1, <3>5 DEF v
  <2> QED
    BY <2>4, <2>5
<1>3. Seq(Frames) \subseteq S
  <2> HIDE DEF S
  <2> QED
    BY <1>1, <1>2, SeqInduction
<1>4. Held(s)
  BY <1>3
<1>5. ASSUME NEW m \in T(s), \A i \in T(s) : i <= m PROVE Max(T(s)) = m
  <2>1. T(s) \subseteq Nat
    OBVIOUS
  <2> DEFINE U == T(s)
  <2> HIDE DEF U
  <2>2. m \in U /\ \A i \in U : m >= i
    BY <1>5, <2>1 DEF U
  <2>3. \A n \in U : (\A i \in U : n >= i) => n = m
    BY <2>1, <2>2 DEF U
  <2>4. Max(U) = m
    BY <2>2, <2>3 DEF Max
  <2> QED
    BY <2>4 DEF U
<1> QED
  BY <1>4, <1>5

\* Frames that have no text and no usage, and those that repeat a text.
Mute == {frame \in Frames : frame.kind \notin {"chunk", "text delta"} /\ ~frame.usage.known}

LEMMA MuteCollects ==
  ASSUME NEW s \in Seq(Mute)
  PROVE  s \in Seq(Frames) /\ Collect(s, FrameText) = <<>> /\ Collect(s, FrameUsage) = <<>>
<1>1. /\ Mute \in SUBSET Frames
      /\ \A frame \in Mute : FrameText[frame] = <<>> /\ FrameUsage[frame] = <<>>
  BY FrameCollectors DEF Mute
<1> HIDE DEF Mute
<1>2. FrameText \in [Frames -> Seq(Nat)]
  BY CollectorTypes
<1>3. FrameUsage \in [Frames -> Seq(Knowns)]
  BY FrameCollectors
<1>4. ASSUME NEW B, NEW f \in [Frames -> Seq(B)], \A frame \in Mute : f[frame] = <<>>
      PROVE  s \in Seq(Frames) /\ Collect(s, f) = <<>>
  BY <1>1, <1>4, NothingCollected
<1>5. s \in Seq(Frames) /\ Collect(s, FrameText) = <<>>
  BY <1>1, <1>2, <1>4
<1>6. Collect(s, FrameUsage) = <<>>
  BY <1>1, <1>3, <1>4
<1> QED
  BY <1>5, <1>6

LEMMA ConcatCollects ==
  ASSUME NEW s \in Seq(Frames), NEW t \in Seq(Frames)
  PROVE  /\ s \o t \in Seq(Frames)
         /\ Collect(s \o t, FrameText) = Collect(s, FrameText) \o Collect(t, FrameText)
         /\ Collect(s \o t, FrameUsage) = Collect(s, FrameUsage) \o Collect(t, FrameUsage)
         /\ Collect(s, FrameText) \in Seq(Nat) /\ Collect(t, FrameText) \in Seq(Nat)
         /\ Collect(s, FrameUsage) \in Seq(Knowns) /\ Collect(t, FrameUsage) \in Seq(Knowns)
<1>1. ASSUME NEW B, NEW f \in [Frames -> Seq(B)]
      PROVE  /\ Collect(s \o t, f) = Collect(s, f) \o Collect(t, f)
             /\ Collect(s, f) \in Seq(B) /\ Collect(t, f) \in Seq(B)
  BY CollectConcat, CollectType
<1>2. FrameText \in [Frames -> Seq(Nat)]
  BY CollectorTypes
<1>3. FrameUsage \in [Frames -> Seq(Knowns)]
  BY FrameCollectors
<1>4. s \o t \in Seq(Frames)
  OBVIOUS
<1>5. /\ Collect(s \o t, FrameText) = Collect(s, FrameText) \o Collect(t, FrameText)
      /\ Collect(s, FrameText) \in Seq(Nat) /\ Collect(t, FrameText) \in Seq(Nat)
  BY <1>1, <1>2
<1>6. /\ Collect(s \o t, FrameUsage) = Collect(s, FrameUsage) \o Collect(t, FrameUsage)
      /\ Collect(s, FrameUsage) \in Seq(Knowns) /\ Collect(t, FrameUsage) \in Seq(Knowns)
  BY <1>1, <1>3
<1> QED
  BY <1>4, <1>5, <1>6

\* What opens a response.
LEMMA OpeningMute ==
  ASSUME NEW b
  PROVE  Opening(b) \in Seq({frame \in Mute : frame.kind \in {"created", "item added", "part added"}})
<1> DEFINE x == Frame("created", <<>>, NoUsage)
           y == Frame("item added", <<>>, NoUsage)
           z == Frame("part added", <<>>, NoUsage)
           A == {frame \in Mute : frame.kind \in {"created", "item added", "part added"}}
<1>1. x \in Frames /\ y \in Frames /\ z \in Frames
  BY EmptyTypes, FrameTypes
<1>2. /\ x.kind = "created" /\ y.kind = "item added" /\ z.kind = "part added"
      /\ ~x.usage.known /\ ~y.usage.known /\ ~z.usage.known
  BY DEF Frame, NoUsage
<1>3. Opening(b) = IF b.started THEN <<>> ELSE <<x, y, z>>
  BY DEF Opening
<1> HIDE DEF x, y, z
<1>4. x \in A /\ y \in A /\ z \in A
  BY <1>1, <1>2 DEF Mute
<1> HIDE DEF A
<1>5. <<x, y, z>> \in Seq(A) /\ <<>> \in Seq(A)
  BY <1>4
<1> QED
  BY <1>3, <1>5 DEF A

\* The text of the deltas is the text they were made of.
LEMMA DeltasCollect ==
  ASSUME NEW h \in Seq(Readings)
  PROVE  /\ Collect(h, DeltaIn) \in Seq(Deltas)
         /\ Collect(h, DeltaIn) \in Seq(Frames)
         /\ Collect(Collect(h, DeltaIn), FrameText) = Collect(h, TextIn)
         /\ Collect(Collect(h, DeltaIn), FrameUsage) = <<>>
<1> DEFINE S == {s \in Seq(Readings) : Collect(Collect(s, DeltaIn), FrameText) = Collect(s, TextIn)}
<1>1. Deltas \in SUBSET Frames
  BY DEF Deltas
<1>2. ASSUME NEW s \in Seq(Readings) PROVE Collect(s, DeltaIn) \in Seq(Deltas) /\ Collect(s, DeltaIn) \in Seq(Frames)
  <2>1. Collect(s, DeltaIn) \in Seq(Deltas)
    BY CollectType, CollectorTypes
  <2> QED
    BY <1>1, <2>1, SeqMonotonic
<1>3. <<>> \in S
  BY CollectEmpty, EmptyTypes
<1>4. ASSUME NEW s \in Seq(Readings), NEW r \in Readings, s \in S PROVE Append(s, r) \in S
  <2> DEFINE c == Collect(s, DeltaIn)
             d == DeltaIn[r]
             e == <<>>
  <2>0. r.text \in Seq(Nat) /\ TextIn[r] = r.text /\ e \in Seq(Frames) /\ e = <<>> /\ c \in Seq(Frames)
    BY <1>2, ChunkTypes, EmptyTypes DEF TextIn
  <2>1. /\ Collect(Append(s, r), DeltaIn) = c \o d
        /\ Collect(Append(s, r), TextIn) = Collect(s, TextIn) \o r.text
        /\ Collect(s, TextIn) = Collect(c, FrameText)
        /\ Append(s, r) \in Seq(Readings)
    <3>1. ASSUME NEW B, NEW f \in [Readings -> Seq(B)]
          PROVE  Collect(Append(s, r), f) = Collect(s, f) \o f[r]
      BY CollectAppend
    <3>2. Collect(Append(s, r), DeltaIn) = c \o d
      <4>1. DeltaIn \in [Readings -> Seq(Deltas)]
        BY CollectorTypes
      <4> QED
        BY <3>1, <4>1
    <3>3. Collect(Append(s, r), TextIn) = Collect(s, TextIn) \o TextIn[r]
      <4>1. TextIn \in [Readings -> Seq(Nat)]
        BY CollectorTypes
      <4> QED
        BY <3>1, <4>1
    <3>4. Collect(s, TextIn) = Collect(c, FrameText)
      BY <1>4
    <3>5. Append(s, r) \in Seq(Readings)
      OBVIOUS
    <3> QED
      BY <2>0, <3>2, <3>3, <3>4, <3>5
  <2> DEFINE f == Frame("text delta", r.text, NoUsage)
  <2>2. d = IF r.text = <<>> THEN e ELSE <<f>>
    BY DEF DeltaIn
  <2>3. f \in Frames /\ f.kind = "text delta" /\ f.text = r.text
    BY <2>0, FrameTypes DEF Frame
  <2> HIDE DEF f, c, d
  <2>4. FrameText[f] = r.text /\ f \in Frames
    BY <2>3 DEF FrameText
  <2>5. Collect(<<f>>, FrameText) = r.text /\ <<f>> \in Seq(Frames)
    <3>1. ASSUME NEW B, NEW g \in [Frames -> Seq(B)] PROVE Collect(<<f>>, g) = g[f]
      BY <2>4, CollectOne
    <3>2. FrameText \in [Frames -> Seq(Nat)]
      BY CollectorTypes
    <3>3. Collect(<<f>>, FrameText) = FrameText[f]
      BY <3>1, <3>2
    <3>4. <<f>> \in Seq(Frames)
      BY <2>4
    <3> QED
      BY <2>4, <3>3, <3>4
  <2>6. Collect(d, FrameText) = r.text /\ d \in Seq(Frames)
    BY <2>0, <2>2, <2>5, CollectEmpty
  <2>7. Collect(c \o d, FrameText) = Collect(c, FrameText) \o Collect(d, FrameText)
    BY <2>0, <2>6, ConcatCollects
  <2> QED
    BY <2>1, <2>6, <2>7
<1>5. Seq(Readings) \subseteq S
  <2> HIDE DEF S
  <2> QED
    BY <1>3, <1>4, SeqInduction
<1>6. Collect(Collect(h, DeltaIn), FrameUsage) = <<>>
  <2>1. \A frame \in Deltas : FrameUsage[frame] = <<>>
    <3>1. \A frame \in Deltas : frame \in Frames /\ ~frame.usage.known
      <4>1. ~NoUsage.known
        BY DEF NoUsage
      <4> QED
        BY <4>1 DEF Deltas
    <3> QED
      BY <3>1, FrameCollectors
  <2>2. FrameUsage \in [Frames -> Seq(Knowns)]
    BY FrameCollectors
  <2> QED
    BY <1>1, <1>2, <2>1, <2>2, NothingCollected
<1> QED
  BY <1>2, <1>5, <1>6

\* The frames before the last one of a response, and the last one.
Dones(b) ==
  << Frame("text done", b.text, NoUsage), Frame("part done", b.text, NoUsage), Frame("item done", b.text, NoUsage) >>
EndOf(b) == Frame(IF b.finish = "length" THEN "incomplete" ELSE "completed", b.text, b.usage)

LEMMA DonesMute ==
  ASSUME NEW b \in Bridges
  PROVE  /\ Dones(b) \in Seq({frame \in Mute : frame.text = b.text})
         /\ EndOf(b) \in Frames /\ EndOf(b).text = b.text /\ EndOf(b).usage = b.usage
         /\ EndOf(b).kind = IF b.finish = "length" THEN "incomplete" ELSE "completed"
         /\ Finale(b) = (Opening(b) \o Dones(b)) \o <<EndOf(b)>>
<1> DEFINE x == Frame("text done", b.text, NoUsage)
           y == Frame("part done", b.text, NoUsage)
           z == Frame("item done", b.text, NoUsage)
           e == EndOf(b)
           A == {frame \in Mute : frame.text = b.text}
<1>0. b.text \in Seq(Nat) /\ b.usage \in Usages
  BY DEF Bridges
<1>1. x \in Frames /\ y \in Frames /\ z \in Frames /\ e \in Frames
  BY <1>0, FrameTypes DEF EndOf
<1>2. /\ x.kind = "text done" /\ y.kind = "part done" /\ z.kind = "item done"
      /\ x.text = b.text /\ y.text = b.text /\ z.text = b.text
      /\ ~x.usage.known /\ ~y.usage.known /\ ~z.usage.known
  BY DEF Frame, NoUsage
<1>3. /\ e.kind = IF b.finish = "length" THEN "incomplete" ELSE "completed"
      /\ e.text = b.text /\ e.usage = b.usage
  BY DEF EndOf, Frame
<1>4. Finale(b) = Opening(b) \o <<x, y, z, e>> /\ Dones(b) = <<x, y, z>>
  BY DEF Finale, Dones, EndOf
<1>5. Opening(b) \in Seq(Frames)
  BY OpeningType
<1> DEFINE o == Opening(b)
<1> HIDE DEF x, y, z, e, o
<1>6. x \in A /\ y \in A /\ z \in A
  BY <1>1, <1>2 DEF Mute
<1> HIDE DEF A
<1>7. <<x, y, z>> \in Seq(A)
  BY <1>6
<1>8. <<x, y, z, e>> = <<x, y, z>> \o <<e>>
  OBVIOUS
<1>9. <<x, y, z>> \in Seq(Frames) /\ <<e>> \in Seq(Frames) /\ o \in Seq(Frames)
  <2>1. x \in Frames /\ y \in Frames /\ z \in Frames /\ e \in Frames
    BY <1>1
  <2>2. o \in Seq(Frames)
    BY <1>5 DEF o
  <2> QED
    BY <2>1, <2>2
<1>10. o \o (<<x, y, z>> \o <<e>>) = (o \o <<x, y, z>>) \o <<e>>
  <2> DEFINE t == <<x, y, z>>
             u == <<e>>
  <2>1. t \in Seq(Frames) /\ u \in Seq(Frames) /\ o \in Seq(Frames)
    BY <1>9
  <2> HIDE DEF t, u
  <2>2. o \o (t \o u) = (o \o t) \o u
    BY ONLY <2>1
  <2> QED
    BY <2>2 DEF t, u
<1>11. Finale(b) = (o \o <<x, y, z>>) \o <<e>>
  BY <1>4, <1>8, <1>10 DEF o
<1> QED
  BY <1>1, <1>3, <1>4, <1>7, <1>11 DEF o, e, A

\* The end of a stream tells no text of its own, and the usage that was reported.
LEMMA LastCollects ==
  ASSUME bridge \in Bridges
  PROVE  /\ LastFrames \in Seq(Frames) /\ LastFrames # <<>>
         /\ Collect(LastFrames, FrameText) = <<>>
         /\ Collect(LastFrames, FrameUsage) =
              IF call.endpoint = "responses" /\ bridge.usage.known THEN <<bridge.usage>> ELSE <<>>
         /\ Last(LastFrames).kind =
              IF call.endpoint # "responses" THEN "done"
              ELSE IF bridge.finish = "length" THEN "incomplete" ELSE "completed"
<1>1. CASE call.endpoint # "responses"
  <2> DEFINE r == Reading("done")
             t == <<r>>
  <2>1. LastFrames = t
    BY <1>1 DEF LastFrames
  <2>2. r \in Mute /\ r.kind = "done"
    <3>1. r \in Frames
      BY FrameTypes
    <3>2. r.kind = "done" /\ ~r.usage.known
      BY DEF Reading, Frame, NoUsage
    <3> HIDE DEF r
    <3> QED
      BY <3>1, <3>2 DEF Mute
  <2>3. t \in Seq(Mute) /\ t # <<>> /\ Last(t) = r
    <3>1. r \in Mute
      BY <2>2
    <3> HIDE DEF r
    <3> QED
      BY <3>1 DEF Last
  <2> HIDE DEF t, r
  <2>4. t \in Seq(Frames) /\ Collect(t, FrameText) = <<>> /\ Collect(t, FrameUsage) = <<>>
    BY <2>3, MuteCollects
  <2> QED
    BY <1>1, <2>1, <2>2, <2>3, <2>4
<1>2. CASE call.endpoint = "responses"
  <2> DEFINE o == Opening(bridge)
             d == Dones(bridge)
             e == EndOf(bridge)
             s == o \o d
  <2>1. LastFrames = s \o <<e>>
    BY <1>2, DonesMute DEF LastFrames
  <2>2. o \in Seq(Mute)
    <3>1. {frame \in Mute : frame.kind \in {"created", "item added", "part added"}} \subseteq Mute
      OBVIOUS
    <3> QED
      BY <3>1, OpeningMute, SeqMonotonic
  <2>3. d \in Seq(Mute)
    <3>1. {frame \in Mute : frame.text = bridge.text} \subseteq Mute
      OBVIOUS
    <3> QED
      BY <3>1, DonesMute, SeqMonotonic
  <2>4. e \in Frames /\ e.usage = bridge.usage /\ e.kind = IF bridge.finish = "length" THEN "incomplete" ELSE "completed"
    BY DonesMute
  <2> HIDE DEF o, d, e
  <2>5. s \in Seq(Mute)
    BY <2>2, <2>3
  <2> HIDE DEF s
  <2>6. s \in Seq(Frames) /\ Collect(s, FrameText) = <<>> /\ Collect(s, FrameUsage) = <<>>
    BY <2>5, MuteCollects
  <2>7. e \in Frames
    BY <2>4
  <2>8. /\ s \o <<e>> \in Seq(Frames) /\ s \o <<e>> # <<>> /\ Last(s \o <<e>>) = e
    BY <2>6, <2>7, LastOfConcat
  <2>9. FrameText[e] = <<>> /\ FrameUsage[e] = IF bridge.usage.known THEN <<bridge.usage>> ELSE <<>>
    BY <2>4, FrameCollectors
  <2>10. <<e>> \in Seq(Frames)
    BY <2>7
  <2>11. Collect(<<e>>, FrameText) = FrameText[e] /\ Collect(<<e>>, FrameUsage) = FrameUsage[e]
    <3>1. ASSUME NEW B, NEW g \in [Frames -> Seq(B)] PROVE Collect(<<e>>, g) = g[e]
      BY <2>7, CollectOne
    <3>2. FrameText \in [Frames -> Seq(Nat)]
      BY CollectorTypes
    <3>3. FrameUsage \in [Frames -> Seq(Knowns)]
      BY FrameCollectors
    <3>4. Collect(<<e>>, FrameText) = FrameText[e]
      BY <3>1, <3>2
    <3>5. Collect(<<e>>, FrameUsage) = FrameUsage[e]
      BY <3>1, <3>3
    <3> QED
      BY <3>4, <3>5
  <2> DEFINE f == <<e>>
             v == <<>>
             cu == Collect(f, FrameUsage)
  <2>12. /\ Collect(s \o f, FrameText) = Collect(s, FrameText) \o Collect(f, FrameText)
         /\ Collect(s \o f, FrameUsage) = Collect(s, FrameUsage) \o Collect(f, FrameUsage)
         /\ Collect(f, FrameUsage) \in Seq(Knowns)
    <3>1. f \in Seq(Frames)
      BY <2>10
    <3> HIDE DEF f
    <3> QED
      BY <2>6, <3>1, ConcatCollects
  <2>13. <<>> \o cu = cu /\ <<>> \o v = v
    <3>1. cu \in Seq(Knowns)
      BY <2>12
    <3> HIDE DEF cu
    <3> QED
      BY <3>1
  <2>14. /\ Collect(LastFrames, FrameText) = <<>>
         /\ Collect(LastFrames, FrameUsage) = IF bridge.usage.known THEN <<bridge.usage>> ELSE <<>>
    BY <2>1, <2>6, <2>9, <2>11, <2>12, <2>13
  <2> QED
    BY <1>2, <2>1, <2>4, <2>8, <2>14
<1> QED
  BY <1>1, <1>2

\* So does the frame of an error.
LEMMA ErrorCollects ==
  LET t == <<Reading("error")>>
  IN  /\ t \in Seq(Frames) /\ t # <<>> /\ Last(t).kind = "error"
      /\ Collect(t, FrameText) = <<>> /\ Collect(t, FrameUsage) = <<>>
<1> DEFINE r == Reading("error")
           t == <<r>>
<1>1. r \in Mute /\ r.kind = "error"
  <2>1. r \in Frames
    BY FrameTypes
  <2>2. r.kind = "error" /\ ~r.usage.known
    BY DEF Reading, Frame, NoUsage
  <2> HIDE DEF r
  <2> QED
    BY <2>1, <2>2 DEF Mute
<1>2. t \in Seq(Mute) /\ t # <<>> /\ Last(t) = r
  <2>1. r \in Mute
    BY <1>1
  <2> HIDE DEF r
  <2> QED
    BY <2>1 DEF Last
<1> HIDE DEF t, r
<1>3. t \in Seq(Frames) /\ Collect(t, FrameText) = <<>> /\ Collect(t, FrameUsage) = <<>>
  BY <1>2, MuteCollects
<1> QED
  BY <1>1, <1>2, <1>3 DEF t, r

\* The frames that end nothing.
Ongoing == {frame \in Frames : frame.kind \in {"chunk", "created", "item added", "part added", "text delta"}}

\* What was told of the chunks has their text; a chat has their usages too.
LEMMA ToldCollects ==
  ASSUME NEW h \in Seq(ChunkReadings)
  PROVE  /\ ToldOf(h) \in Seq(Ongoing) /\ ToldOf(h) \in Seq(Frames)
         /\ Collect(ToldOf(h), FrameText) = Collect(h, TextIn)
         /\ Collect(ToldOf(h), FrameUsage) = IF call.endpoint = "responses" THEN <<>> ELSE Collect(h, UsageIn)
<1>1. h \in Seq(Readings) /\ Len(h) \in Nat /\ \A i \in 1..Len(h) : h[i] \in Readings /\ h[i].kind = "chunk"
  BY ChunksAreReadings
<1>2. Ongoing \subseteq Frames
  BY DEF Ongoing
<1>3. SUFFICES ASSUME TRUE
               PROVE  /\ ToldOf(h) \in Seq(Ongoing)
                      /\ Collect(ToldOf(h), FrameText) = Collect(h, TextIn)
                      /\ Collect(ToldOf(h), FrameUsage) =
                           IF call.endpoint = "responses" THEN <<>> ELSE Collect(h, UsageIn)
  BY <1>2, SeqMonotonic
<1>4. CASE call.endpoint # "responses"
  <2>1. ToldOf(h) = h
    BY <1>4 DEF ToldOf
  <2>2. ChunkReadings \subseteq Ongoing
    BY ChunkTypes DEF ChunkReadings, Ongoing
  <2>3. h \in Seq(Ongoing)
    BY <2>2, SeqMonotonic
  <2>4. \A i \in 1..Len(h) : h[i] \in Frames /\ h[i] \in Readings /\ h[i].kind = "chunk"
    BY <1>1, ChunkTypes
  <2>5. Mapped(h, FrameText) = Mapped(h, TextIn) /\ Mapped(h, FrameUsage) = Mapped(h, UsageIn)
    <3>1. DOMAIN h = 1..Len(h)
      OBVIOUS
    <3>2. \A i \in 1..Len(h) : FrameText[h[i]] = TextIn[h[i]] /\ FrameUsage[h[i]] = UsageIn[h[i]]
      BY <2>4, FrameCollectors DEF TextIn, UsageIn
    <3> QED
      BY <3>1, <3>2 DEF Mapped
  <2> QED
    BY <1>4, <2>1, <2>3, <2>5 DEF Collect
<1>5. CASE call.endpoint = "responses" /\ h = <<>>
  <2>1. ToldOf(h) = <<>>
    BY <1>5 DEF ToldOf
  <2>2. Collect(<<>>, FrameText) = <<>> /\ Collect(<<>>, FrameUsage) = <<>> /\ Collect(<<>>, TextIn) = <<>>
    BY CollectEmpty
  <2> DEFINE e == <<>>
  <2>3. e \in Seq(Ongoing) /\ e = <<>>
    OBVIOUS
  <2> HIDE DEF e
  <2> QED
    BY <1>5, <2>1, <2>2, <2>3
<1>6. CASE call.endpoint = "responses" /\ h # <<>>
  <2> DEFINE o == Opening(NewBridge)
             d == Collect(h, DeltaIn)
             c == Collect(h, TextIn)
             v == <<>>
  <2>1. ToldOf(h) = o \o d
    BY <1>6 DEF ToldOf
  <2>2. o \in Seq(Mute) /\ o \in Seq(Ongoing)
    <3>1. /\ {frame \in Mute : frame.kind \in {"created", "item added", "part added"}} \subseteq Mute
          /\ {frame \in Mute : frame.kind \in {"created", "item added", "part added"}} \subseteq Ongoing
      BY DEF Mute, Ongoing
    <3> QED
      BY <3>1, OpeningMute, SeqMonotonic
  <2>3. d \in Seq(Deltas) /\ d \in Seq(Frames) /\ Collect(d, FrameText) = c /\ Collect(d, FrameUsage) = <<>>
    BY <1>1, DeltasCollect
  <2>4. d \in Seq(Ongoing)
    <3>1. Deltas \subseteq Ongoing
      BY DEF Deltas, Ongoing
    <3> QED
      BY <2>3, <3>1, SeqMonotonic
  <2> HIDE DEF o, d
  <2>5. o \o d \in Seq(Ongoing)
    BY <2>2, <2>4
  <2>6. o \in Seq(Frames) /\ Collect(o, FrameText) = <<>> /\ Collect(o, FrameUsage) = <<>>
    BY <2>2, MuteCollects
  <2>7. /\ Collect(o \o d, FrameText) = Collect(o, FrameText) \o Collect(d, FrameText)
        /\ Collect(o \o d, FrameUsage) = Collect(o, FrameUsage) \o Collect(d, FrameUsage)
    BY <2>3, <2>6, ConcatCollects
  <2>8. <<>> \o c = c /\ <<>> \o v = v
    <3>1. c \in Seq(Nat)
      BY <2>3, <2>6, ConcatCollects
    <3> HIDE DEF c
    <3> QED
      BY <3>1
  <2> QED
    BY <1>6, <2>1, <2>3, <2>5, <2>6, <2>7, <2>8
<1> QED
  BY <1>4, <1>5, <1>6

(***************************************************************************)
(* A streamed call that told something: the chunks it read, what it told   *)
(* of them, and what ended it.                                             *)
(***************************************************************************)
LEMMA StreamTold ==
  ASSUME PublicCallTypeOK, RequestInv, ControlInv, StreamInv, call.stream,
         frames # <<>> \/ replay # <<>> \/ (charge.state = "settled" /\ (stage = "over" => pump.state = "over"))
  PROVE  /\ sent # Unsent /\ stage \in {"streaming", "over"} /\ (stage = "over" => pump.state = "over")
         /\ \E h \in Seq(ChunkReadings) :
              /\ HeardInv(h)
              /\ \/ frames = ToldOf(h)
                 \/ pump.state = "over" /\ frames = ToldOf(h) \o <<Reading("error")>>
                 \/ Complete /\ pump.state = "over" /\ frames = ToldOf(h) \o LastFrames
              /\ \/ replay = <<>>
                 \/ /\ charge.state = "settled"
                    /\ pump.state \in {"closing", "over"}
                    /\ pump.state = "over" => frames \in {ToldOf(h), ToldOf(h) \o LastFrames}
                    /\ replay = ToldOf(h) \o LastFrames
              /\ IF Anthropic THEN AnthropicInv(h) ELSE OpenAiInv(h)
<1>1. stage \in {"streaming", "over"}
  BY DEF ControlInv, Uncharged
<1>2. PICK h \in Seq(ChunkReadings) :
        /\ HeardInv(h)
        /\ ToldInv(h)
        /\ sent # Unsent /\ call.stream => IF Anthropic THEN AnthropicInv(h) ELSE OpenAiInv(h)
  BY <1>1 DEF StreamInv
<1>3. stage = "over" => pump.state = "over"
  BY <1>2 DEF ToldInv
<1>4. sent # Unsent
  BY <1>1, <1>3 DEF RequestInv, ControlInv
<1>5. ~(stage = "over" /\ pump.state # "over")
  BY <1>3
<1> QED
  BY <1>1, <1>2, <1>3, <1>4, <1>5 DEF ToldInv

\* A stream that was read to its end was heard to its end.
LEMMA CompleteSays ==
  ASSUME PublicCallTypeOK, Complete, NEW h \in Seq(ChunkReadings),
         IF Anthropic THEN AnthropicInv(h) ELSE OpenAiInv(h)
  PROVE  /\ Collect(h, TextIn) = WrittenText
         /\ Anthropic \/ Finished(parsed)
         /\ LastOr(Collect(h, FinishIn), "none") = "length" <=> CutOff
<1>1. pump.state # "reading"
  BY DEF Complete
<1>2. Sound(parsed) \in Seq(Events)
  BY SoundType DEF PublicCallTypeOK
<1> DEFINE events == Sound(parsed)
           finish == LastOr(Collect(h, FinishIn), "none")
<1>3. CASE Anthropic
  <2> DEFINE ends == Said(events, {"message_delta"})
  <2>1. /\ Collect(h, TextIn) = Said(events, {"text"})
        /\ finish = adapter.finish
        /\ adapter.finish = IF ends = <<>> THEN "none" ELSE IF Last(ends) = 2 THEN "length" ELSE "stop"
    BY <1>1, <1>3 DEF AnthropicInv, AdapterInv
  <2>2. WrittenText = Said(events, {"text"}) /\ (CutOff <=> ends # <<>> /\ Last(ends) = 2)
    BY <1>3 DEF WrittenText, CutOff
  <2> HIDE DEF events, finish, ends
  <2>3. finish = "length" <=> ends # <<>> /\ Last(ends) = 2
    BY <2>1
  <2> QED
    BY <1>3, <2>1, <2>2, <2>3 DEF events, finish
<1>4. CASE ~Anthropic
  <2> DEFINE ends == Said(events, {"finish"})
  <2>1. h = Readable(events) /\ Finished(parsed)
    BY <1>1, <1>4 DEF OpenAiInv
  <2>2. Collect(Readable(events), TextIn) = Said(events, {"text", "legacy"})
    BY <1>2, OpenAiText
  <2>3. LastOr(Collect(Readable(events), FinishIn), "none") =
          IF ends = <<>> THEN "none" ELSE IF Last(ends) = 0 THEN "stop" ELSE "length"
    BY <1>2, OpenAiFinish
  <2>4. WrittenText = Said(events, {"text", "legacy"}) /\ (CutOff <=> ends # <<>> /\ Last(ends) # 0)
    BY <1>4 DEF WrittenText, CutOff
  <2>5. finish = IF ends = <<>> THEN "none" ELSE IF Last(ends) = 0 THEN "stop" ELSE "length"
    BY <2>1, <2>3
  <2> HIDE DEF events, finish, ends
  <2>6. finish = "length" <=> ends # <<>> /\ Last(ends) # 0
    BY <2>5
  <2> QED
    BY <2>1, <2>2, <2>4, <2>6 DEF finish
<1> QED
  BY <1>3, <1>4

\* What the client was told of a stream, put together.
LEMMA ToldTextIs ==
  ASSUME PublicCallTypeOK
  PROVE  ToldText = Collect(frames, FrameText)
<1>1. \A i \in DOMAIN frames : frames[i] \in Frames
  BY DEF PublicCallTypeOK
<1>2. [i \in DOMAIN frames |-> IF frames[i].kind \in {"chunk", "text delta"} THEN frames[i].text ELSE <<>>]
        = Mapped(frames, FrameText)
  BY <1>1 DEF Mapped, FrameText
<1> QED
  BY <1>2 DEF ToldText, Collect

\* Frames that end with a tail, which has a text of its own if it is no end.
LEMMA TailCollects ==
  ASSUME PublicCallTypeOK, NEW h \in Seq(ChunkReadings), NEW tail \in Seq(Frames), tail # <<>>,
         frames = ToldOf(h) \o tail
  PROVE  /\ Collect(tail, FrameText) = <<>> => ToldText = Collect(h, TextIn)
         /\ Last(frames) = Last(tail)
         /\ Collect(frames, FrameUsage) = Collect(ToldOf(h), FrameUsage) \o Collect(tail, FrameUsage)
<1> DEFINE t == ToldOf(h)
           c == Collect(h, TextIn)
<1>1. t \in Seq(Frames) /\ Collect(t, FrameText) = c
  BY ToldCollects
<1> HIDE DEF t
<1>2. /\ Collect(t \o tail, FrameText) = Collect(t, FrameText) \o Collect(tail, FrameText)
      /\ Collect(t \o tail, FrameUsage) = Collect(t, FrameUsage) \o Collect(tail, FrameUsage)
      /\ Collect(t, FrameText) \in Seq(Nat)
  BY <1>1, ConcatCollects
<1>3. c \o <<>> = c
  <2>1. c \in Seq(Nat)
    BY <1>1, <1>2
  <2> HIDE DEF c
  <2> QED
    BY <2>1
<1>4. ToldText = Collect(t \o tail, FrameText)
  BY ToldTextIs DEF t
<1>5. Last(t \o tail) = Last(tail)
  <2>1. Len(t \o tail) = Len(t) + Len(tail) /\ Len(t) \in Nat /\ Len(tail) \in Nat /\ Len(tail) # 0
    BY <1>1, EmptySeq
  <2>2. (t \o tail)[Len(t) + Len(tail)] = tail[Len(tail)]
    BY <1>1, <2>1
  <2> QED
    BY <2>1, <2>2 DEF Last
<1> QED
  BY <1>1, <1>2, <1>3, <1>4, <1>5 DEF t

\* Frames that end nothing are no success.
LEMMA OngoingFrames ==
  ASSUME NEW s \in Seq(Ongoing), s # <<>>
  PROVE  Last(s).kind \notin {"done", "completed", "incomplete", "error"}
<1>1. Len(s) \in 1..Len(s)
  BY EmptySeq
<1>2. s[Len(s)] \in Ongoing
  BY <1>1
<1> QED
  BY <1>2 DEF Last, Ongoing

\* A stream that looks like a success was read to its end, and told it.
LEMMA StreamSucceeds ==
  ASSUME PublicCallTypeOK, RequestInv, ControlInv, StreamInv, call.stream, Successful
  PROVE  /\ Complete /\ pump.state = "over"
         /\ \E h \in Seq(ChunkReadings) :
              /\ HeardInv(h)
              /\ frames = ToldOf(h) \o LastFrames
              /\ IF Anthropic THEN AnthropicInv(h) ELSE OpenAiInv(h)
<1>1. frames # <<>> /\ Last(frames).kind \in {"done", "completed", "incomplete"}
  BY DEF Successful
<1>2. PICK h \in Seq(ChunkReadings) :
        /\ HeardInv(h)
        /\ \/ frames = ToldOf(h)
           \/ pump.state = "over" /\ frames = ToldOf(h) \o <<Reading("error")>>
           \/ Complete /\ pump.state = "over" /\ frames = ToldOf(h) \o LastFrames
        /\ IF Anthropic THEN AnthropicInv(h) ELSE OpenAiInv(h)
  BY <1>1, StreamTold
<1>3. frames # ToldOf(h)
  BY <1>1, ToldCollects, OngoingFrames
<1>4. frames # ToldOf(h) \o <<Reading("error")>>
  <2> SUFFICES ASSUME frames = ToldOf(h) \o <<Reading("error")>> PROVE FALSE
    OBVIOUS
  <2> DEFINE t == <<Reading("error")>>
  <2>1. t \in Seq(Frames) /\ t # <<>> /\ Last(t).kind = "error" /\ frames = ToldOf(h) \o t
    BY ErrorCollects
  <2> HIDE DEF t
  <2>2. Last(frames) = Last(t)
    BY <2>1, TailCollects
  <2> QED
    BY <1>1, <2>1, <2>2
<1> QED
  BY <1>2, <1>3, <1>4

LEMMA SuccessCompletes ==
  ASSUME PublicCallTypeOK, RequestInv, ControlInv, StreamInv
  PROVE  SuccessIsComplete
<1>1. ASSUME ~call.stream, frames # <<>> \/ replay # <<>>
      PROVE  charge.state = "settled" /\ (replay # <<>> => replay = frames)
  <2>1. stage = "over" /\ pump.state # "over"
    BY <1>1 DEF ControlInv
  <2>2. PICK h \in Seq(ChunkReadings) : ToldInv(h)
    BY <2>1 DEF StreamInv
  <2> QED
    BY <1>1, <2>1, <2>2 DEF ToldInv
<1>2. ASSUME Successful, call.stream
      PROVE  charge.state = "settled" /\ ToldText = WrittenText /\ (Anthropic \/ Finished(parsed))
  <2>1. PICK h \in Seq(ChunkReadings) :
          /\ HeardInv(h)
          /\ frames = ToldOf(h) \o LastFrames
          /\ IF Anthropic THEN AnthropicInv(h) ELSE OpenAiInv(h)
    BY <1>2, StreamSucceeds
  <2>2. Complete /\ pump.state = "over"
    BY <1>2, StreamSucceeds
  <2>3. LastFrames \in Seq(Frames) /\ LastFrames # <<>> /\ Collect(LastFrames, FrameText) = <<>>
    BY LastCollects DEF PublicCallTypeOK, BridgeType
  <2> DEFINE tail == LastFrames
  <2> HIDE DEF tail
  <2>4. ToldText = Collect(h, TextIn)
    BY <2>1, <2>3, TailCollects DEF tail
  <2>5. Collect(h, TextIn) = WrittenText /\ (Anthropic \/ Finished(parsed))
    BY <2>1, <2>2, CompleteSays
  <2> QED
    BY <2>2, <2>4, <2>5 DEF Complete
<1>3. ASSUME NEW s \in Seq(Frames), NEW t \in Seq(Frames)
      PROVE  IsPrefix(s, s \o t) /\ IsPrefix(s, s)
  <2>1. Len(s) \in Nat /\ Len(t) \in Nat /\ Len(s \o t) = Len(s) + Len(t)
    OBVIOUS
  <2>2. SubSeq(s \o t, 1, Len(s)) = s /\ SubSeq(s, 1, Len(s)) = s
    OBVIOUS
  <2> QED
    BY <2>1, <2>2 DEF IsPrefix
<1>4. ASSUME replay # <<>>, call.stream PROVE charge.state = "settled" /\ IsPrefix(frames, replay)
  <2>1. PICK h \in Seq(ChunkReadings) :
          /\ \/ frames = ToldOf(h)
             \/ pump.state = "over" /\ frames = ToldOf(h) \o <<Reading("error")>>
             \/ Complete /\ pump.state = "over" /\ frames = ToldOf(h) \o LastFrames
          /\ charge.state = "settled"
          /\ pump.state = "over" => frames \in {ToldOf(h), ToldOf(h) \o LastFrames}
          /\ replay = ToldOf(h) \o LastFrames
    BY <1>4, StreamTold
  <2> DEFINE s == ToldOf(h)
             t == LastFrames
  <2>2. s \in Seq(Frames) /\ t \in Seq(Frames)
    BY ToldCollects, LastCollects DEF PublicCallTypeOK, BridgeType
  <2> HIDE DEF s, t
  <2>3. frames \in {s, s \o t} /\ replay = s \o t
    BY <2>1 DEF s, t
  <2>4. s \o t \in Seq(Frames)
    BY <2>2
  <2> QED
    BY <1>3, <2>1, <2>2, <2>3, <2>4
<1>5. replay # <<>> => charge.state = "settled" /\ IsPrefix(frames, replay)
  <2>1. frames \in Seq(Frames)
    BY DEF PublicCallTypeOK
  <2>2. IsPrefix(frames, frames)
    BY <1>3, <2>1
  <2> QED
    BY <1>1, <1>4, <2>2
<1>6. Successful => charge.state = "settled" /\ (call.stream => ToldText = WrittenText /\ (Anthropic \/ Finished(parsed)))
  BY <1>1, <1>2 DEF Successful
<1> QED
  BY <1>5, <1>6 DEF SuccessIsComplete

\* The usage a stream was charged for is the one that was reported.
LEMMA ReceivedIsReported ==
  ASSUME PublicCallTypeOK, ControlInv, pump.state = "reading" => queue = <<>>,
         NEW h \in Seq(ChunkReadings), HeardInv(h), IF Anthropic THEN AnthropicInv(h) ELSE OpenAiInv(h),
         pump.received.known
  PROVE  pump.received = Reported
<1> DEFINE events == Sound(parsed)
           c == Collect(h, UsageIn)
<1>1. events \in Seq(Events)
  BY SoundType DEF PublicCallTypeOK
<1>2. pump.received = LastOr(c, NoUsage)
  BY DEF HeardInv
<1>3. CASE Anthropic
  <2>1. c # <<>>
    BY <1>2 DEF LastOr, NoUsage
  <2>2. pump.state # "reading"
    BY <1>3, <2>1, AnthropicWaits
  <2>3. /\ AdapterInv
        /\ c = IF adapter.state = "closed" THEN <<Usage(adapter.input, adapter.output)>> ELSE <<>>
    BY <1>3, <2>2 DEF AnthropicInv
  <2>4. adapter.state = "closed" /\ c = <<Usage(adapter.input, adapter.output)>>
    BY <2>1, <2>3
  <2>5. pump.received = Usage(adapter.input, adapter.output)
    BY <1>2, <2>4, LastOrOne
  <2> DEFINE starts == Said(events, {"message_start"})
             ends == Said(events, {"message_delta"})
  <2>6. adapter.input = 2 * LastOr(starts, 0) /\ adapter.output = 5 * LastOr(ends, 0)
    BY <2>3, <2>4 DEF AdapterInv
  <2>7. Reported = Usage(IF starts = <<>> THEN 0 ELSE 2 * Last(starts), IF ends = <<>> THEN 0 ELSE 5 * Last(ends))
    BY <1>3 DEF Reported
  <2> HIDE DEF events, starts, ends
  <2>8. /\ 2 * LastOr(starts, 0) = IF starts = <<>> THEN 0 ELSE 2 * Last(starts)
        /\ 5 * LastOr(ends, 0) = IF ends = <<>> THEN 0 ELSE 5 * Last(ends)
    BY DEF LastOr, Last
  <2> QED
    BY <2>5, <2>6, <2>7, <2>8
<1>4. CASE ~Anthropic
  <2> DEFINE usages == Said(events, {"usage"})
  <2>1. h = Readable(events)
    <3>1. CASE pump.state = "reading"
      BY <1>4, <3>1, OpenAiWaits
    <3>2. CASE pump.state # "reading"
      BY <1>4, <3>2 DEF OpenAiInv
    <3> QED
      BY <3>1, <3>2
  <2>2. LastOr(Collect(Readable(events), UsageIn), NoUsage) =
          IF usages = <<>> THEN NoUsage ELSE UsageOf(Last(usages))
    BY <1>1, OpenAiUsage
  <2>3. Reported = IF usages = <<>> THEN NoUsage ELSE UsageOf(Last(usages))
    BY <1>4 DEF Reported
  <2> QED
    BY <1>2, <2>1, <2>2, <2>3
<1> QED
  BY <1>3, <1>4

\* What a client was told of the usage of a stream.
LEMMA ToldUsageIs ==
  ASSUME PublicCallTypeOK, RequestInv, ControlInv, StreamInv, call.stream, frames # <<>>
  PROVE  Collect(frames, FrameUsage) # <<>> =>
           pump.received.known /\ LastOr(Collect(frames, FrameUsage), NoUsage) = pump.received
<1>1. PICK h \in Seq(ChunkReadings) :
        /\ HeardInv(h)
        /\ \/ frames = ToldOf(h)
           \/ pump.state = "over" /\ frames = ToldOf(h) \o <<Reading("error")>>
           \/ Complete /\ pump.state = "over" /\ frames = ToldOf(h) \o LastFrames
  BY StreamTold
<1> DEFINE c == Collect(h, UsageIn)
           t == Collect(ToldOf(h), FrameUsage)
           all == Collect(frames, FrameUsage)
<1>2. /\ pump.received = LastOr(c, NoUsage)
      /\ bridge.usage = pump.received
      /\ t = IF call.endpoint = "responses" THEN <<>> ELSE c
      /\ c \in Seq(Knowns)
  <2>1. pump.received = LastOr(c, NoUsage) /\ bridge.usage = pump.received
    BY <1>1 DEF HeardInv
  <2>2. t = IF call.endpoint = "responses" THEN <<>> ELSE c
    BY ToldCollects
  <2>3. c \in Seq(Knowns)
    <3>1. h \in Seq(Readings)
      BY ChunksAreReadings
    <3>2. UsageIn \in [Readings -> Seq(Knowns)]
      BY FrameCollectors
    <3> QED
      BY <3>1, <3>2, CollectType
  <2> QED
    BY <2>1, <2>2, <2>3
<1>3. \/ all = t
      \/ call.endpoint = "responses" /\ all = <<pump.received>> /\ pump.received.known
  <2>1. CASE frames = ToldOf(h)
    BY <2>1
  <2>2. ASSUME NEW tail \in Seq(Frames), tail # <<>>, frames = ToldOf(h) \o tail
        PROVE  /\ Collect(tail, FrameUsage) = <<>> => all = t
               /\ call.endpoint = "responses" => all = Collect(tail, FrameUsage)
    <3>1. all = t \o Collect(tail, FrameUsage)
      BY <2>2, TailCollects
    <3> DEFINE u == Collect(tail, FrameUsage)
    <3>2. ToldOf(h) \in Seq(Frames)
      BY ToldCollects
    <3>3. t \in Seq(Knowns) /\ u \in Seq(Knowns)
      BY <2>2, <3>2, ConcatCollects
    <3> HIDE DEF t, u
    <3>4. t \o <<>> = t /\ <<>> \o u = u
      BY <3>3
    <3> QED
      BY <1>2, <3>1, <3>4 DEF u
  <2>3. CASE frames = ToldOf(h) \o <<Reading("error")>>
    <3> DEFINE e == <<Reading("error")>>
    <3>1. e \in Seq(Frames) /\ e # <<>> /\ Collect(e, FrameUsage) = <<>> /\ frames = ToldOf(h) \o e
      BY <2>3, ErrorCollects
    <3> HIDE DEF e, all, t
    <3> QED
      BY <2>2, <3>1
  <2>4. CASE frames = ToldOf(h) \o LastFrames
    <3> DEFINE e == LastFrames
    <3>1. e \in Seq(Frames) /\ e # <<>> /\ frames = ToldOf(h) \o e
          /\ Collect(e, FrameUsage) =
               IF call.endpoint = "responses" /\ pump.received.known THEN <<pump.received>> ELSE <<>>
      BY <1>2, <2>4, LastCollects DEF PublicCallTypeOK, BridgeType
    <3> HIDE DEF e, all, t
    <3>2. /\ Collect(e, FrameUsage) = <<>> => all = t
          /\ call.endpoint = "responses" => all = Collect(e, FrameUsage)
      BY <2>2, <3>1
    <3> QED
      BY <3>1, <3>2
  <2> QED
    BY <1>1, <2>1, <2>3, <2>4
<1>4. c # <<>> => LastOr(c, NoUsage).known
  <2> HIDE DEF c
  <2> SUFFICES ASSUME c # <<>> PROVE c[Len(c)] \in Knowns
    BY DEF LastOr, Knowns
  <2>1. Len(c) \in 1..Len(c)
    BY <1>2, EmptySeq
  <2> QED
    BY <1>2, <2>1
<1>5. LastOr(<<pump.received>>, NoUsage) = pump.received
  BY LastOrOne
<1> HIDE DEF c, t, all
<1>6. all # <<>> => pump.received.known /\ LastOr(all, NoUsage) = pump.received
  BY <1>2, <1>3, <1>4, <1>5
<1> QED
  BY <1>6 DEF all

LEMMA ChargeIsTold ==
  ASSUME PublicCallTypeOK, RequestInv, ControlInv, ChargeInv, StreamInv
  PROVE  ToldAsCharged
<1> SUFFICES ASSUME charge.state = "settled"
             PROVE  /\ call.stream /\ charge.source = "provider" => Usage(charge.input, charge.output) = Reported
                    /\ call.stream /\ charge.source = "estimate" => ToldUsages = {}
                    /\ ToldUsages # {} => frames[Max(ToldUsages)].usage = Usage(charge.input, charge.output)
  BY DEF ToldAsCharged
<1>1. stage \in {"streaming", "over"}
  BY DEF ControlInv, Uncharged, PublicCallTypeOK
<1>2. /\ frames \in Seq(Frames)
      /\ ToldUsages = {} <=> Collect(frames, FrameUsage) = <<>>
      /\ ToldUsages # {} => frames[Max(ToldUsages)].usage = LastOr(Collect(frames, FrameUsage), NoUsage)
  <2>1. frames \in Seq(Frames)
    BY DEF PublicCallTypeOK
  <2> QED
    BY <2>1, LastUsage DEF ToldUsages
<1>3. CASE call.stream
  <2> DEFINE u == pump.received
             v == Estimated(pump.pieces)
  <2>1. charge = IF u.known THEN Charge("provider", u) ELSE Charge("estimate", v)
    BY <1>3 DEF ChargeInv
  <2>2. u \in Usages
    BY DEF PublicCallTypeOK, PumpType
  <2>3. \A source, usage : /\ Charge(source, usage).source = source
                           /\ Charge(source, usage).input = usage.prompt
                           /\ Charge(source, usage).output = usage.completion
    BY DEF Charge
  <2> HIDE DEF u, v
  <2>4. u.known => Usage(charge.input, charge.output) = u
    <3> SUFFICES ASSUME u.known PROVE Usage(charge.input, charge.output) = u
      OBVIOUS
    <3>1. charge.input = u.prompt /\ charge.output = u.completion
      BY <2>1, <2>3
    <3>2. u = [known |-> TRUE, prompt |-> u.prompt, completion |-> u.completion]
      BY <2>2 DEF Usages
    <3> QED
      BY <3>1, <3>2 DEF Usage
  <2>5. charge.source = "provider" => u.known
    BY <2>1, <2>3
  <2>6. charge.source = "estimate" => ~u.known
    BY <2>1, <2>3
  <2>7. ToldUsages # {} => u.known /\ LastOr(Collect(frames, FrameUsage), NoUsage) = u
    <3>1. frames = <<>> => Collect(frames, FrameUsage) = <<>>
      BY CollectEmpty
    <3>2. frames # <<>> /\ Collect(frames, FrameUsage) # <<>> =>
            u.known /\ LastOr(Collect(frames, FrameUsage), NoUsage) = u
      BY <1>3, ToldUsageIs DEF u
    <3> QED
      BY <1>2, <3>1, <3>2
  <2>8. u.known => u = Reported
    <3> SUFFICES ASSUME u.known PROVE u = Reported
      OBVIOUS
    <3>1. stage = "over" => pump.state = "over"
      <4>1. ~NewPump.received.known
        BY DEF NewPump, NoUsage
      <4> QED
        BY <4>1 DEF ControlInv, Pristine, u
    <3>2. PICK h \in Seq(ChunkReadings) : HeardInv(h) /\ IF Anthropic THEN AnthropicInv(h) ELSE OpenAiInv(h)
      BY <1>3, <3>1, StreamTold
    <3>3. pump.state = "reading" => queue = <<>>
      <4> SUFFICES ASSUME pump.state = "reading" PROVE queue = <<>>
        OBVIOUS
      <4>1. stage = "streaming"
        BY <1>1, <3>1
      <4>2. pump.terminal # "none"
        BY <4>1 DEF ControlInv, Uncharged
      <4> QED
        BY <4>2 DEF ControlInv
    <3> QED
      BY <3>2, <3>3, ReceivedIsReported DEF u
  <2> QED
    BY <1>2, <2>4, <2>5, <2>6, <2>7, <2>8
<1>4. CASE ~call.stream
  <2>1. stage = "over" /\ pump.state # "over"
    BY <1>1, <1>4 DEF ControlInv
  <2>2. PICK h \in Seq(ChunkReadings) : ToldInv(h)
    BY <2>1 DEF StreamInv
  <2> DEFINE u == Usage(charge.input, charge.output)
  <2>3. CASE frames = <<>>
    <3>1. ToldUsages = {}
      BY <1>2, <2>3, CollectEmpty
    <3> QED
      BY <1>4, <3>1
  <2>4. CASE frames # <<>>
    <3>1. PICK kind, text : frames = <<Frame(kind, text, u)>>
      BY <2>1, <2>2, <2>4 DEF ToldInv
    <3>2. DOMAIN frames = {1} /\ frames[1].usage = u
      BY <3>1 DEF Frame
    <3>3. ToldUsages # {} => Max(ToldUsages) \in DOMAIN frames
      <4> SUFFICES ASSUME ToldUsages # {} PROVE Max(ToldUsages) \in DOMAIN frames
        OBVIOUS
      <4>1. ToldUsages = {1}
        BY <3>2 DEF ToldUsages
      <4>2. Max({1}) = 1
        BY DEF Max
      <4> QED
        BY <3>2, <4>1, <4>2
    <3> QED
      BY <1>4, <3>2, <3>3
  <2> QED
    BY <2>3, <2>4
<1> QED
  BY <1>3, <1>4

-----------------------------------------------------------------------------
(* The order of the events of a response.                                  *)

KindNames == {frame.kind : frame \in Frames}

LEMMA KindsMapped ==
  ASSUME NEW s \in Seq(Frames)
  PROVE  /\ Kinds(s) = Mapped(s, FrameKind) /\ Kinds(s) \in Seq(KindNames)
         /\ Len(Kinds(s)) = Len(s)
         /\ \A i \in DOMAIN s : Kinds(s)[i] = s[i].kind
<1>1. \A i \in DOMAIN s : s[i] \in Frames
  OBVIOUS
<1>2. Kinds(s) = Mapped(s, FrameKind)
  BY <1>1 DEF Kinds, Mapped, FrameKind
<1>3. FrameKind \in [Frames -> KindNames]
  BY DEF FrameKind, KindNames
<1>4. Mapped(s, FrameKind) \in Seq(KindNames)
  BY <1>3, MappedType
<1>5. Len(Mapped(s, FrameKind)) = Len(s)
  BY MappedMembers
<1>6. \A i \in DOMAIN s : Kinds(s)[i] = s[i].kind
  BY DEF Kinds
<1> QED
  BY <1>2, <1>4, <1>5, <1>6

LEMMA KindsConcat ==
  ASSUME NEW s \in Seq(Frames), NEW t \in Seq(Frames)
  PROVE  Kinds(s \o t) = Kinds(s) \o Kinds(t)
<1> DEFINE v == s \o t
<1>1. v \in Seq(Frames)
  OBVIOUS
<1>2. Mapped(v, FrameKind) = Mapped(s, FrameKind) \o Mapped(t, FrameKind)
  BY MappedConcat
<1> HIDE DEF v
<1>3. Kinds(v) = Mapped(v, FrameKind) /\ Kinds(s) = Mapped(s, FrameKind) /\ Kinds(t) = Mapped(t, FrameKind)
  BY <1>1, KindsMapped
<1> QED
  BY <1>2, <1>3 DEF v

LEMMA KindsOfFew ==
  ASSUME NEW x, NEW y, NEW z, NEW e
  PROVE  /\ Kinds(<<x>>) = <<x.kind>>
         /\ Kinds(<<x, y, z>>) = <<x.kind, y.kind, z.kind>>
         /\ Kinds(<<>>) = <<>>
BY DEF Kinds

Opened == <<"created", "item added", "part added">>
Whole(end) == <<"text done", "part done", "item done", end>>
DeltaKinds(n) == [i \in 1..n |-> "text delta"]

LEMMA OpeningKinds ==
  ASSUME NEW b, ~b.started
  PROVE  Opening(b) \in Seq(Frames) /\ Kinds(Opening(b)) = Opened
<1> DEFINE x == Frame("created", <<>>, NoUsage)
           y == Frame("item added", <<>>, NoUsage)
           z == Frame("part added", <<>>, NoUsage)
<1>1. Opening(b) = <<x, y, z>>
  BY DEF Opening
<1>2. x.kind = "created" /\ y.kind = "item added" /\ z.kind = "part added"
  BY DEF Frame
<1> HIDE DEF x, y, z
<1>3. Kinds(<<x, y, z>>) = <<x.kind, y.kind, z.kind>>
  BY KindsOfFew
<1> QED
  BY <1>1, <1>2, <1>3, OpeningType DEF Opened

LEMMA DeltasKinds ==
  ASSUME NEW d \in Seq(Deltas)
  PROVE  Kinds(d) = DeltaKinds(Len(d))
<1>1. DOMAIN d = 1..Len(d) /\ \A i \in 1..Len(d) : d[i] \in Deltas
  OBVIOUS
<1>2. \A i \in 1..Len(d) : d[i].kind = "text delta"
  BY <1>1 DEF Deltas
<1> QED
  BY <1>1, <1>2 DEF Kinds, DeltaKinds

LEMMA EndKinds ==
  ASSUME NEW b \in Bridges
  PROVE  LET end == Dones(b) \o <<EndOf(b)>>
         IN  /\ end \in Seq(Frames)
             /\ Kinds(end) = Whole(IF b.finish = "length" THEN "incomplete" ELSE "completed")
<1> DEFINE x == Frame("text done", b.text, NoUsage)
           y == Frame("part done", b.text, NoUsage)
           z == Frame("item done", b.text, NoUsage)
           e == EndOf(b)
           d == Dones(b)
           k == e.kind
<1>1. d \in Seq(Frames) /\ e \in Frames /\ k = IF b.finish = "length" THEN "incomplete" ELSE "completed"
  <2>1. {frame \in Mute : frame.text = b.text} \subseteq Frames
    BY DEF Mute
  <2>2. d \in Seq(Frames)
    BY <2>1, DonesMute, SeqMonotonic
  <2> QED
    BY <2>2, DonesMute
<1>2. d = <<x, y, z>>
  BY DEF Dones
<1>3. x.kind = "text done" /\ y.kind = "part done" /\ z.kind = "item done"
  BY DEF Frame
<1> HIDE DEF x, y, z, e
<1>4. Kinds(<<x, y, z>>) = <<x.kind, y.kind, z.kind>> /\ Kinds(<<e>>) = <<k>>
  BY KindsOfFew
<1> HIDE DEF d, k
<1>5. <<e>> \in Seq(Frames)
  <2>1. e \in Frames
    BY <1>1
  <2> QED
    BY <2>1
<1>6. Kinds(d \o <<e>>) = Kinds(d) \o Kinds(<<e>>)
  BY <1>1, <1>5, KindsConcat
<1>7. Kinds(d) = <<"text done", "part done", "item done">>
  BY <1>2, <1>3, <1>4
<1>8. <<"text done", "part done", "item done">> \o <<k>> = Whole(k)
  <2> DEFINE p == "text done"
             q == "part done"
             r == "item done"
             T == {p, q, r, k}
  <2>0. p \in T /\ q \in T /\ r \in T /\ k \in T
    OBVIOUS
  <2> HIDE DEF p, q, r, T
  <2>1. <<p, q, r, k>> = <<p, q, r>> \o <<k>>
    BY <2>0
  <2> QED
    BY <2>1 DEF Whole, p, q, r
<1>9. d \o <<e>> \in Seq(Frames)
  BY <1>1, <1>5
<1> QED
  BY <1>1, <1>4, <1>6, <1>7, <1>8, <1>9 DEF d, e

(***************************************************************************)
(* The kinds of what was told of the chunks h of a response, and of that   *)
(* with the end of the response: a response that had no chunk is opened by *)
(* its end.                                                                *)
(***************************************************************************)
LEMMA ResponseKinds ==
  ASSUME PublicCallTypeOK, call.endpoint = "responses", NEW h \in Seq(ChunkReadings), HeardInv(h)
  PROVE  \E n \in 0..Len(ToldOf(h)) :
           /\ h # <<>> => Kinds(ToldOf(h)) = Opened \o DeltaKinds(n)
           /\ Kinds(ToldOf(h) \o LastFrames) =
                (Opened \o DeltaKinds(n)) \o
                  Whole(IF bridge.finish = "length" THEN "incomplete" ELSE "completed")
<1> DEFINE d == Collect(h, DeltaIn)
           o == Opening(NewBridge)
           w == Dones(bridge) \o <<EndOf(bridge)>>
           end == IF bridge.finish = "length" THEN "incomplete" ELSE "completed"
           n == Len(d)
<1>1. bridge \in Bridges /\ bridge.started = (h # <<>>)
  BY DEF PublicCallTypeOK, BridgeType, HeardInv
<1>2. o \in Seq(Frames) /\ Kinds(o) = Opened
  BY OpeningKinds DEF NewBridge
<1>3. d \in Seq(Deltas) /\ d \in Seq(Frames) /\ Kinds(d) = DeltaKinds(n) /\ n \in Nat
  <2>1. h \in Seq(Readings)
    BY ChunksAreReadings
  <2>2. d \in Seq(Deltas) /\ d \in Seq(Frames)
    BY <2>1, DeltasCollect
  <2> HIDE DEF d
  <2> QED
    BY <2>2, DeltasKinds
<1>4. w \in Seq(Frames) /\ Kinds(w) = Whole(end)
  BY <1>1, EndKinds
<1>5. LastFrames = Opening(bridge) \o w
  <2> DEFINE p == Opening(bridge)
             q == Dones(bridge)
             e == <<EndOf(bridge)>>
  <2>1. LastFrames = (p \o q) \o e
    BY <1>1, DonesMute DEF LastFrames
  <2>2. p \in Seq(Frames) /\ q \in Seq(Frames) /\ e \in Seq(Frames)
    <3>1. {frame \in Mute : frame.text = bridge.text} \subseteq Frames
      BY DEF Mute
    <3>2. q \in Seq(Frames) /\ EndOf(bridge) \in Frames
      BY <1>1, <3>1, DonesMute, SeqMonotonic
    <3> DEFINE f == EndOf(bridge)
    <3>3. f \in Frames
      BY <3>2
    <3> HIDE DEF f
    <3>4. <<f>> \in Seq(Frames)
      BY <3>3
    <3> QED
      BY <3>2, <3>4, OpeningType DEF f
  <2> HIDE DEF p, q, e
  <2>3. (p \o q) \o e = p \o (q \o e)
    BY ONLY <2>2
  <2> QED
    BY <2>1, <2>3 DEF p, q, e
<1>6. CASE h # <<>>
  <2>1. Opening(bridge) = <<>> /\ ToldOf(h) = o \o d
    BY <1>1, <1>6 DEF Opening, ToldOf
  <2> HIDE DEF o, d, w, n
  <2>2. o \o d \in Seq(Frames) /\ <<>> \o w = w /\ Len(o \o d) = Len(o) + Len(d) /\ Len(o) \in Nat
    BY <1>2, <1>3, <1>4
  <2>3. ToldOf(h) \o LastFrames = (o \o d) \o w
    BY <1>5, <2>1, <2>2
  <2>4. Kinds(o \o d) = Opened \o DeltaKinds(n)
    BY <1>2, <1>3, KindsConcat
  <2>5. Kinds((o \o d) \o w) = Kinds(o \o d) \o Kinds(w)
    BY <1>4, <2>2, KindsConcat
  <2>6. n \in 0..Len(o \o d)
    BY <1>3, <2>2 DEF n
  <2> QED
    BY <1>4, <2>1, <2>3, <2>4, <2>5, <2>6
<1>7. CASE h = <<>>
  <2>1. ToldOf(h) = <<>> /\ d = <<>>
    BY <1>7, CollectEmpty DEF ToldOf
  <2>2. Opening(bridge) = o
    BY <1>1, <1>7 DEF Opening, NewBridge
  <2>3. n = 0
    BY <2>1
  <2> HIDE DEF o, d, w, n
  <2>4. o \o w \in Seq(Frames) /\ <<>> \o (o \o w) = o \o w /\ o \o <<>> = o
    <3>1. o \o w \in Seq(Frames)
      BY <1>2, <1>4
    <3> DEFINE v == o \o w
    <3>2. v \in Seq(Frames)
      BY <3>1
    <3> HIDE DEF v
    <3>3. <<>> \o v = v
      BY <3>2
    <3>4. o \o <<>> = o
      BY <1>2
    <3> QED
      BY <3>1, <3>3, <3>4 DEF v
  <2>5. ToldOf(h) \o LastFrames = o \o w
    BY <1>5, <2>1, <2>2, <2>4
  <2>6. Kinds(o \o w) = Opened \o Whole(end)
    BY <1>2, <1>4, KindsConcat
  <2>7. Opened \o DeltaKinds(n) = Opened
    <3>1. DeltaKinds(n) = <<>>
      BY <1>3, <2>1, <2>3 DEF Kinds
    <3>2. Kinds(o) \in Seq(KindNames)
      BY <1>2, KindsMapped
    <3> DEFINE k == Opened
    <3>3. k \in Seq(KindNames)
      BY <1>2, <3>2
    <3> HIDE DEF k
    <3>4. k \o <<>> = k
      BY <3>3
    <3> QED
      BY <3>1, <3>4 DEF k
  <2>8. n \in 0..Len(ToldOf(h))
    BY <2>1, <2>3
  <2> QED
    BY <1>7, <2>5, <2>6, <2>7, <2>8
<1> QED
  BY <1>6, <1>7

EndKind == {"text done", "part done", "item done", "completed", "incomplete"}

\* The frames of which those that end a response repeat a text.
Repeating(text) == {frame \in Frames : frame.kind \in EndKind => frame.text = text}

LEMMA LastRepeats ==
  ASSUME bridge \in Bridges, call.endpoint = "responses"
  PROVE  LastFrames \in Seq(Repeating(bridge.text))
<1> DEFINE A == Repeating(bridge.text)
           p == Opening(bridge)
           q == Dones(bridge)
           e == EndOf(bridge)
<1>1. LastFrames = (p \o q) \o <<e>>
  BY DonesMute DEF LastFrames
<1>2. p \in Seq(A)
  <2>1. {frame \in Mute : frame.kind \in {"created", "item added", "part added"}} \subseteq A
    BY DEF Mute, Repeating, EndKind
  <2> HIDE DEF A
  <2> QED
    BY <2>1, OpeningMute, SeqMonotonic
<1>3. q \in Seq(A)
  <2>1. {frame \in Mute : frame.text = bridge.text} \subseteq A
    BY DEF Mute, Repeating
  <2> HIDE DEF A
  <2> QED
    BY <2>1, DonesMute, SeqMonotonic
<1>4. e \in A
  BY DonesMute DEF Repeating
<1> HIDE DEF A, p, q, e
<1>5. (p \o q) \o <<e>> \in Seq(A)
  BY <1>2, <1>3, <1>4
<1> QED
  BY <1>1, <1>5 DEF A

LEMMA ResponsesOrdered ==
  ASSUME PublicCallTypeOK, RequestInv, ControlInv, StreamInv
  PROVE  ResponsesInOrder
<1> SUFFICES ASSUME call.ok, call.stream, call.endpoint = "responses", frames # <<>>
             PROVE  /\ \/ Kinds(frames) = <<"error">>
                       \/ \E n \in 0..Len(frames) :
                            \E end \in {<<>>, <<"error">>, Whole("completed"), Whole("incomplete")} :
                              Kinds(frames) = (Opened \o DeltaKinds(n)) \o end
                    /\ \A i \in DOMAIN frames : Kinds(frames)[i] \in EndKind => frames[i].text = ToldText
                    /\ Successful => (Last(Kinds(frames)) = "incomplete") = CutOff
  BY DEF ResponsesInOrder, Opened, DeltaKinds, Whole, EndKind
<1>1. PICK h \in Seq(ChunkReadings) :
        /\ HeardInv(h)
        /\ \/ frames = ToldOf(h)
           \/ pump.state = "over" /\ frames = ToldOf(h) \o <<Reading("error")>>
           \/ Complete /\ pump.state = "over" /\ frames = ToldOf(h) \o LastFrames
  BY StreamTold
<1> DEFINE t == ToldOf(h)
           r == <<Reading("error")>>
           l == LastFrames
           end == IF bridge.finish = "length" THEN "incomplete" ELSE "completed"
<1>2. PICK n \in 0..Len(t) :
        /\ h # <<>> => Kinds(t) = Opened \o DeltaKinds(n)
        /\ Kinds(t \o l) = (Opened \o DeltaKinds(n)) \o Whole(end)
  BY <1>1, ResponseKinds
<1>3. /\ frames \in Seq(Frames) /\ t \in Seq(Frames) /\ t \in Seq(Ongoing)
      /\ bridge \in Bridges /\ bridge.text = Collect(h, TextIn)
  BY <1>1, ToldCollects DEF PublicCallTypeOK, BridgeType, HeardInv
<1>4. r \in Seq(Frames) /\ r # <<>> /\ Last(r).kind = "error" /\ Kinds(r) = <<"error">>
  <2> DEFINE x == Reading("error")
  <2>1. x.kind = "error"
    BY DEF Reading, Frame
  <2> HIDE DEF x
  <2>2. Kinds(<<x>>) = <<x.kind>>
    BY KindsOfFew
  <2>3. Kinds(r) = <<"error">>
    BY <2>1, <2>2 DEF x
  <2> QED
    BY <2>3, ErrorCollects
<1>5. l \in Seq(Frames) /\ l # <<>> /\ Collect(l, FrameText) = <<>> /\ Last(l).kind = end
      /\ l \in Seq(Repeating(bridge.text))
  BY <1>3, LastCollects, LastRepeats
<1>6. h = <<>> => t = <<>>
  BY DEF ToldOf
<1>7. Kinds(frames) \in Seq(KindNames) /\ \A i \in DOMAIN frames : Kinds(frames)[i] = frames[i].kind
  BY <1>3, KindsMapped
<1>8. frames = t \/ frames = t \o r \/ frames = t \o l
  BY <1>1
<1> HIDE DEF t, r, l
<1>9. \/ Kinds(frames) = <<"error">>
      \/ \E m \in 0..Len(frames) :
           \E e \in {<<>>, <<"error">>, Whole("completed"), Whole("incomplete")} :
             Kinds(frames) = (Opened \o DeltaKinds(m)) \o e
  <2>1. Len(t) \in Nat /\ Len(r) \in Nat /\ Len(l) \in Nat /\ Len(t \o r) = Len(t) + Len(r) /\ Len(t \o l) = Len(t) + Len(l)
    BY <1>3, <1>4, <1>5
  <2>2. n \in 0..Len(frames)
    BY <1>8, <2>1
  <2>3. CASE frames = t
    <3> DEFINE k == Kinds(frames)
    <3>1. k = Opened \o DeltaKinds(n)
      BY <1>2, <1>6, <2>3
    <3>2. k \in Seq(KindNames)
      BY <1>7
    <3> HIDE DEF k
    <3>3. k = k \o <<>>
      BY <3>2
    <3>4. k = (Opened \o DeltaKinds(n)) \o <<>>
      BY <3>1, <3>3
    <3> QED
      BY <2>2, <3>4 DEF k
  <2>4. CASE frames = t \o r
    <3>1. CASE h = <<>>
      <4>1. <<>> \o r = r
        BY <1>4
      <4>2. Kinds(frames) = <<"error">>
        BY <1>4, <1>6, <2>4, <3>1, <4>1
      <4> QED
        BY <4>2
    <3>2. CASE h # <<>>
      <4>1. Kinds(t \o r) = Kinds(t) \o Kinds(r)
        BY <1>3, <1>4, KindsConcat
      <4>2. Kinds(frames) = (Opened \o DeltaKinds(n)) \o <<"error">>
        BY <1>2, <1>4, <2>4, <3>2, <4>1
      <4> QED
        BY <2>2, <4>2
    <3> QED
      BY <3>1, <3>2
  <2>5. CASE frames = t \o l
    <3>1. Kinds(frames) = (Opened \o DeltaKinds(n)) \o Whole(end)
      BY <1>2, <2>5
    <3>2. Whole(end) \in {<<>>, <<"error">>, Whole("completed"), Whole("incomplete")}
      OBVIOUS
    <3> HIDE DEF end
    <3> QED
      BY <2>2, <3>1, <3>2
  <2> QED
    BY <1>8, <2>3, <2>4, <2>5
<1>10. \A i \in DOMAIN frames : Kinds(frames)[i] \in EndKind => frames[i].text = ToldText
  <2>1. ASSUME NEW text, NEW s \in Seq(Repeating(text)), frames = t \o s, text = ToldText
        PROVE  \A i \in DOMAIN frames : Kinds(frames)[i] \in EndKind => frames[i].text = ToldText
    <3> DEFINE A == Repeating(text)
    <3>1. Ongoing \subseteq A
      BY DEF Ongoing, Repeating, EndKind
    <3> HIDE DEF A
    <3>2. t \in Seq(A)
      BY <1>3, <3>1, SeqMonotonic
    <3>3. s \in Seq(A)
      BY <2>1 DEF A
    <3>4. frames \in Seq(A)
      BY <2>1, <3>2, <3>3
    <3>5. \A i \in DOMAIN frames : frames[i] \in A
      BY <3>4
    <3> QED
      BY <1>7, <2>1, <3>5 DEF A, Repeating
  <2>2. CASE frames = t \o l
    <3>1. ToldText = bridge.text
      BY <1>3, <1>5, <2>2, TailCollects DEF t
    <3> QED
      BY <1>5, <2>1, <2>2, <3>1
  <2>3. CASE frames = t \o r
    <3>1. r \in Seq(Repeating(ToldText))
      <4> DEFINE x == Reading("error")
      <4>1. x \in Frames /\ x.kind = "error"
        BY FrameTypes DEF Reading, Frame
      <4>2. x \in Repeating(ToldText)
        BY <4>1 DEF Repeating, EndKind
      <4> HIDE DEF x
      <4>3. <<x>> \in Seq(Repeating(ToldText))
        BY <4>2
      <4> QED
        BY <4>3 DEF x, r
    <3> QED
      BY <2>1, <2>3, <3>1
  <2>4. CASE frames = t
    <3> DEFINE e == <<>>
    <3>1. e \in Seq(Repeating(ToldText)) /\ t \o e = t
      BY <1>3
    <3> HIDE DEF e
    <3> QED
      BY <2>1, <2>4, <3>1
  <2> QED
    BY <1>8, <2>2, <2>3, <2>4
<1>11. ASSUME Successful PROVE (Last(Kinds(frames)) = "incomplete") = CutOff
  <2>1. PICK g \in Seq(ChunkReadings) :
          /\ HeardInv(g)
          /\ frames = ToldOf(g) \o LastFrames
          /\ IF Anthropic THEN AnthropicInv(g) ELSE OpenAiInv(g)
    BY <1>11, StreamSucceeds
  <2>2. Complete
    BY <1>11, StreamSucceeds
  <2>3. Last(frames).kind = end
    <3>1. Last(frames) = Last(l)
      BY <1>5, <2>1, TailCollects DEF l
    <3> QED
      BY <1>5, <3>1
  <2>4. bridge.finish = LastOr(Collect(g, FinishIn), "none")
    BY <2>1 DEF HeardInv
  <2>5. LastOr(Collect(g, FinishIn), "none") = "length" <=> CutOff
    BY <2>1, <2>2, CompleteSays
  <2>6. Last(Kinds(frames)) = Last(frames).kind
    <3>1. Len(Kinds(frames)) = Len(frames) /\ Len(frames) \in DOMAIN frames
      BY <1>3, KindsMapped, EmptySeq
    <3> QED
      BY <1>7, <3>1 DEF Last
  <2>7. CutOff \in BOOLEAN
    BY DEF CutOff
  <2> QED
    BY <2>3, <2>4, <2>5, <2>6, <2>7
<1> QED
  BY <1>9, <1>10, <1>11

-----------------------------------------------------------------------------
(* The turns of an Anthropic conversation, block for block.               *)

PlainBlocks == {"text", "image", "tool_use"} \X Int
Blocks == {"text", "image", "tool_use", "tool_result"} \X Int

ResultIn == [block \in Blocks |-> IF block[1] = "tool_result" THEN <<block>> ELSE <<>>]
OtherIn == [block \in Blocks |-> IF block[1] = "tool_result" THEN <<>> ELSE <<block>>]

LEMMA BlockTypes ==
  /\ PlainBlocks \subseteq Blocks
  /\ ResultIn \in [Blocks -> Seq(Blocks)]
  /\ OtherIn \in [Blocks -> Seq(Blocks)]
  /\ \A block \in PlainBlocks : ResultIn[block] = <<>> /\ OtherIn[block] = <<block>>
<1>1. ASSUME NEW block \in Blocks
      PROVE  ResultIn[block] \in Seq(Blocks) /\ OtherIn[block] \in Seq(Blocks)
  <2>1. <<>> \in Seq(Blocks) /\ <<block>> \in Seq(Blocks)
    OBVIOUS
  <2> QED
    BY <2>1 DEF ResultIn, OtherIn
<1>2. PlainBlocks \subseteq Blocks
  BY DEF PlainBlocks, Blocks
<1>3. ASSUME NEW block \in PlainBlocks PROVE ResultIn[block] = <<>> /\ OtherIn[block] = <<block>>
  <2>1. block[1] # "tool_result"
    BY DEF PlainBlocks
  <2> QED
    BY <1>2, <2>1 DEF ResultIn, OtherIn
<1>4. ResultIn \in [Blocks -> Seq(Blocks)]
  BY <1>1 DEF ResultIn
<1>5. OtherIn \in [Blocks -> Seq(Blocks)]
  BY <1>1 DEF OtherIn
<1> QED
  BY <1>2, <1>3, <1>4, <1>5

LEMMA BlocksCollect ==
  ASSUME NEW f \in [Blocks -> Seq(Blocks)], NEW s \in Seq(Blocks)
  PROVE  /\ \A t \in Seq(Blocks) : Collect(s \o t, f) = Collect(s, f) \o Collect(t, f)
         /\ \A x \in Blocks : Collect(Append(s, x), f) = Collect(s, f) \o f[x]
BY CollectConcat, CollectAppend

\* The results of tools among some blocks, and the other blocks.
LEMMA SortedCollected ==
  ASSUME NEW s \in Seq(Blocks)
  PROVE  /\ Results(s) = Collect(s, ResultIn) /\ Results(s) \in Seq(Blocks)
         /\ Others(s) = Collect(s, OtherIn) /\ Others(s) \in Seq(Blocks)
<1>1. \A i \in DOMAIN s : s[i] \in Blocks
  OBVIOUS
<1>2. [i \in DOMAIN s |-> IF s[i][1] \in {"tool_result"} THEN <<s[i]>> ELSE <<>>] = Mapped(s, ResultIn)
  BY <1>1 DEF Mapped, ResultIn
<1>3. [i \in DOMAIN s |-> IF s[i][1] = "tool_result" THEN <<>> ELSE <<s[i]>>] = Mapped(s, OtherIn)
  BY <1>1 DEF Mapped, OtherIn
<1>4. Collect(s, ResultIn) \in Seq(Blocks) /\ Collect(s, OtherIn) \in Seq(Blocks)
  BY CollectType, BlockTypes
<1> QED
  BY <1>2, <1>3, <1>4 DEF Results, Others, BlocksOf, Collect

LEMMA SortedConcat ==
  ASSUME NEW s \in Seq(Blocks), NEW t \in Seq(Blocks)
  PROVE  /\ Results(s \o t) = Results(s) \o Results(t)
         /\ Others(s \o t) = Others(s) \o Others(t)
<1>1. s \o t \in Seq(Blocks)
  OBVIOUS
<1>2. Collect(s \o t, ResultIn) = Collect(s, ResultIn) \o Collect(t, ResultIn)
  BY BlocksCollect, BlockTypes
<1>3. Collect(s \o t, OtherIn) = Collect(s, OtherIn) \o Collect(t, OtherIn)
  BY BlocksCollect, BlockTypes
<1> QED
  BY <1>1, <1>2, <1>3, SortedCollected

LEMMA SortedEmpty == Results(<<>>) = <<>> /\ Others(<<>>) = <<>>
<1>1. <<>> \in Seq(Blocks)
  OBVIOUS
<1> QED
  BY <1>1, SortedCollected, CollectEmpty

LEMMA SortedOne ==
  ASSUME NEW block \in Blocks
  PROVE  \/ Results(<<block>>) = <<block>> /\ Others(<<block>>) = <<>>
         \/ Results(<<block>>) = <<>> /\ Others(<<block>>) = <<block>>
<1>1. <<block>> \in Seq(Blocks)
  OBVIOUS
<1>2. Collect(<<block>>, ResultIn) = ResultIn[block] /\ Collect(<<block>>, OtherIn) = OtherIn[block]
  BY CollectOne, BlockTypes
<1>3. \/ ResultIn[block] = <<block>> /\ OtherIn[block] = <<>>
      \/ ResultIn[block] = <<>> /\ OtherIn[block] = <<block>>
  BY DEF ResultIn, OtherIn
<1> QED
  BY <1>1, <1>2, <1>3, SortedCollected

\* Sorting twice is sorting once, and no block is lost.
LEMMA Sorted ==
  ASSUME NEW s \in Seq(Blocks)
  PROVE  /\ Results(Results(s)) = Results(s) /\ Others(Results(s)) = <<>>
         /\ Results(Others(s)) = <<>> /\ Others(Others(s)) = Others(s)
         /\ Len(s) = Len(Results(s)) + Len(Others(s))
<1> DEFINE Fine(t) == /\ Results(Results(t)) = Results(t) /\ Others(Results(t)) = <<>>
                      /\ Results(Others(t)) = <<>> /\ Others(Others(t)) = Others(t)
                      /\ Len(t) = Len(Results(t)) + Len(Others(t))
           S == {t \in Seq(Blocks) : Fine(t)}
<1>1. <<>> \in S
  <2>1. <<>> \in Seq(Blocks) /\ Len(<<>>) = 0
    OBVIOUS
  <2> QED
    BY <2>1, SortedEmpty
<1>2. ASSUME NEW t \in Seq(Blocks), NEW x \in Blocks, t \in S PROVE Append(t, x) \in S
  <2> DEFINE r == Results(t)
             o == Others(t)
             one == <<x>>
             u == t \o one
  <2>1. r \in Seq(Blocks) /\ o \in Seq(Blocks) /\ one \in Seq(Blocks) /\ Len(one) = 1
    BY SortedCollected
  <2>2. Append(t, x) = u /\ u \in Seq(Blocks) /\ Len(u) = Len(t) + 1
    OBVIOUS
  <2>3. Results(u) = r \o Results(one) /\ Others(u) = o \o Others(one)
    BY <2>1, SortedConcat
  <2>4. Results(r) = r /\ Others(r) = <<>> /\ Results(o) = <<>> /\ Others(o) = o /\ Len(t) = Len(r) + Len(o)
    BY <1>2
  <2>5. /\ Results(r \o one) = Results(r) \o Results(one) /\ Others(r \o one) = Others(r) \o Others(one)
        /\ Results(o \o one) = Results(o) \o Results(one) /\ Others(o \o one) = Others(o) \o Others(one)
    BY <2>1, SortedConcat
  <2> HIDE DEF r, o, u
  <2>6. \/ Results(one) = one /\ Others(one) = <<>>
        \/ Results(one) = <<>> /\ Others(one) = one
    BY SortedOne
  <2> HIDE DEF one
  <2>7. /\ r \o <<>> = r /\ o \o <<>> = o /\ <<>> \o one = one /\ <<>> \o <<>> = <<>>
        /\ Len(r \o one) = Len(r) + 1 /\ Len(o \o one) = Len(o) + 1 /\ Len(r) \in Nat /\ Len(o) \in Nat
    <3>1. \A a \in Seq(Blocks) : a \o <<>> = a /\ <<>> \o a = a /\ Len(a) \in Nat
      OBVIOUS
    <3>2. \A a, b \in Seq(Blocks) : Len(a \o b) = Len(a) + Len(b)
      OBVIOUS
    <3>3. <<>> \o <<>> = <<>>
      BY ONLY EmptySeq
    <3> QED
      BY <2>1, <3>1, <3>2, <3>3
  <2>8. CASE Results(one) = one /\ Others(one) = <<>>
    <3>1. Results(u) = r \o one /\ Others(u) = o
      BY <2>3, <2>7, <2>8
    <3>2. /\ Results(r \o one) = r \o one /\ Others(r \o one) = <<>>
          /\ Results(o) = <<>> /\ Others(o) = o
      BY <2>4, <2>5, <2>7, <2>8
    <3>3. Len(u) = Len(r \o one) + Len(o)
      BY <2>2, <2>4, <2>7
    <3> QED
      BY <2>2, <3>1, <3>2, <3>3
  <2>9. CASE Results(one) = <<>> /\ Others(one) = one
    <3>1. Results(u) = r /\ Others(u) = o \o one
      BY <2>3, <2>7, <2>9
    <3>2. /\ Results(o \o one) = <<>> /\ Others(o \o one) = o \o one
          /\ Results(r) = r /\ Others(r) = <<>>
      BY <2>4, <2>5, <2>7, <2>9
    <3>3. Len(u) = Len(r) + Len(o \o one)
      BY <2>2, <2>4, <2>7
    <3> QED
      BY <2>2, <3>1, <3>2, <3>3
  <2> QED
    BY <2>6, <2>8, <2>9
<1>3. Seq(Blocks) \subseteq S
  <2> HIDE DEF S
  <2> QED
    BY <1>1, <1>2, SeqInduction
<1> QED
  BY <1>3

\* Blocks that are no results stay as they are.
LEMMA PlainSorted ==
  ASSUME NEW s \in Seq(PlainBlocks)
  PROVE  s \in Seq(Blocks) /\ Results(s) = <<>> /\ Others(s) = s
<1> DEFINE S == {t \in Seq(PlainBlocks) : Results(t) = <<>> /\ Others(t) = t}
<1>0. ASSUME NEW t \in Seq(PlainBlocks) PROVE t \in Seq(Blocks)
  BY BlockTypes, SeqMonotonic
<1>1. <<>> \in S
  <2>1. <<>> \in Seq(PlainBlocks)
    OBVIOUS
  <2> QED
    BY <2>1, SortedEmpty
<1>2. ASSUME NEW t \in Seq(PlainBlocks), NEW x \in PlainBlocks, t \in S PROVE Append(t, x) \in S
  <2> DEFINE u == Append(t, x)
  <2>1. x \in Blocks /\ ResultIn[x] = <<>> /\ OtherIn[x] = <<x>>
    BY BlockTypes
  <2>2. t \in Seq(Blocks) /\ u \in Seq(Blocks) /\ u \in Seq(PlainBlocks)
    <3>1. u \in Seq(PlainBlocks)
      OBVIOUS
    <3> HIDE DEF u
    <3> QED
      BY <1>0, <3>1
  <2>3. u = t \o <<x>>
    OBVIOUS
  <2>4. Collect(u, ResultIn) = Collect(t, ResultIn) \o ResultIn[x] /\ Collect(u, OtherIn) = Collect(t, OtherIn) \o OtherIn[x]
    BY <2>1, <2>2, BlocksCollect, BlockTypes
  <2>5. Collect(t, ResultIn) = <<>> /\ Collect(t, OtherIn) = t
    BY <1>2, <2>2, SortedCollected
  <2> HIDE DEF u
  <2>6. Results(u) = <<>> /\ Others(u) = u
    <3>1. Collect(u, ResultIn) = <<>> \o <<>> /\ Collect(u, OtherIn) = u
      BY <2>1, <2>3, <2>4, <2>5
    <3>2. <<>> \o <<>> = <<>>
      BY ONLY EmptySeq
    <3> QED
      BY <2>2, <3>1, <3>2, SortedCollected
  <2> QED
    BY <2>2, <2>6 DEF u
<1>3. Seq(PlainBlocks) \subseteq S
  <2> HIDE DEF S
  <2> QED
    BY <1>1, <1>2, SeqInduction
<1> QED
  BY <1>0, <1>3

\* The messages a call may have, and the turns they become.
GoodMessages ==
  {message \in Turns :
     /\ \E vision \in BOOLEAN : MessageValid(message, vision)
     /\ message.form # "parts" =>
          \A i \in 1..Len(message.content) : message.content[i][1] = "text"}

AnthropicTurns ==
  {turn \in [role : {"user", "assistant"}, content : Seq(Blocks)] :
     /\ Results(turn.content) \o Others(turn.content) = turn.content
     /\ turn.role = "assistant" => Results(turn.content) = <<>>}

LEMMA PartBlocks ==
  ASSUME NEW part \in Parts
  PROVE  /\ part[1] = "text" => <<part>> \in Seq(PlainBlocks)
         /\ << <<"image", part[2]>> >> \in Seq(PlainBlocks)
<1>1. part = <<part[1], part[2]>> /\ part[2] \in Int
  BY DEF Parts
<1>2. part[1] = "text" => part \in PlainBlocks
  BY <1>1 DEF PlainBlocks
<1>3. <<"image", part[2]>> \in PlainBlocks
  BY <1>1 DEF PlainBlocks
<1>4. \A x \in PlainBlocks : <<x>> \in Seq(PlainBlocks)
  OBVIOUS
<1> QED
  BY <1>2, <1>3, <1>4

LEMMA UserBlocksType ==
  ASSUME NEW message \in Turns
  PROVE  UserBlocks(message) \in Seq(PlainBlocks)
<1> DEFINE content == message.content
           Of(part) == IF part[1] = "text" THEN <<part>>
                       ELSE IF part[1] \in {"https", "base64"} THEN << <<"image", part[2]>> >> ELSE <<>>
           blocks == [i \in DOMAIN content |-> Of(content[i])]
<1>1. content \in Seq(Parts)
  BY DEF Turns
<1>2. UserBlocks(message) = FlattenSeq(blocks)
  BY DEF UserBlocks
<1> HIDE DEF content
<1>3. Len(content) \in Nat /\ DOMAIN content = 1..Len(content) /\ \A i \in 1..Len(content) : content[i] \in Parts
  BY <1>1
<1>4. ASSUME NEW i \in 1..Len(content) PROVE Of(content[i]) \in Seq(PlainBlocks)
  <2>1. <<>> \in Seq(PlainBlocks)
    OBVIOUS
  <2> QED
    BY <1>3, <2>1, PartBlocks
<1> HIDE DEF Of
<1>5. blocks \in Seq(Seq(PlainBlocks))
  BY <1>3, <1>4
<1> QED
  BY <1>2, <1>5, FlattenType

LEMMA CallBlocksType ==
  ASSUME NEW message \in Turns
  PROVE  [i \in DOMAIN message.calls |-> <<"tool_use", message.calls[i]>>] \in Seq(PlainBlocks)
<1> DEFINE calls == message.calls
<1>1. calls \in Seq(Nat)
  BY DEF Turns
<1> HIDE DEF calls
<1>2. Len(calls) \in Nat /\ DOMAIN calls = 1..Len(calls) /\ \A i \in 1..Len(calls) : calls[i] \in Nat
  BY <1>1
<1>3. \A i \in 1..Len(calls) : <<"tool_use", calls[i]>> \in PlainBlocks
  BY <1>2 DEF PlainBlocks
<1>4. [i \in DOMAIN calls |-> <<"tool_use", calls[i]>>] \in Seq(PlainBlocks)
  BY <1>2, <1>3
<1> QED
  BY <1>4 DEF calls

\* A text is a text, for whoever said it.
LEMMA TextBlocksAre ==
  ASSUME NEW message \in GoodMessages, message.form # "parts"
  PROVE  TextBlocks(message) = UserBlocks(message)
<1> DEFINE content == message.content
           Of(part) == IF part[1] = "text" THEN <<part>>
                       ELSE IF part[1] \in {"https", "base64"} THEN << <<"image", part[2]>> >> ELSE <<>>
           blocks == [i \in DOMAIN content |-> Of(content[i])]
           texts == [i \in DOMAIN content |-> IF content[i][1] \in {"text"} THEN <<content[i]>> ELSE <<>>]
<1>1. content \in Seq(Parts) /\ \A i \in 1..Len(content) : content[i][1] = "text"
  BY DEF GoodMessages, Turns
<1>2. UserBlocks(message) = FlattenSeq(blocks)
  BY DEF UserBlocks
<1>3. TextBlocks(message) = FlattenSeq(texts)
  BY DEF TextBlocks, BlocksOf
<1> HIDE DEF content
<1>4. DOMAIN content = 1..Len(content)
  BY <1>1
<1>5. \A i \in DOMAIN content :
        Of(content[i]) = <<content[i]>> /\ (IF content[i][1] \in {"text"} THEN <<content[i]>> ELSE <<>>) = <<content[i]>>
  BY <1>1, <1>4
<1>6. blocks = texts
  BY <1>5
<1> QED
  BY <1>2, <1>3, <1>6

\* The texts and images of a message, part by part.
KeptIn == [part \in Parts |-> IF part[1] \in {"text", "https", "base64"} THEN <<part>> ELSE <<>>]
ShownIn == [part \in Parts |-> IF part[1] = "text" THEN part ELSE <<"image", part[2]>>]
UserIn == [part \in Parts |-> IF part[1] = "text" THEN <<part>>
                              ELSE IF part[1] \in {"https", "base64"} THEN << <<"image", part[2]>> >>
                              ELSE <<>>]

\* Dropping what is not shown and then showing the rest is what UserBlocks does at once.
LEMMA PartsAreShown ==
  ASSUME NEW content \in Seq(Parts)
  PROVE  Collect(content, UserIn) = Mapped(Collect(content, KeptIn), ShownIn)
<1> DEFINE S == {s \in Seq(Parts) : Collect(s, UserIn) = Mapped(Collect(s, KeptIn), ShownIn)}
<1>1. ASSUME NEW part \in Parts PROVE UserIn[part] \in Seq(PlainBlocks) /\ KeptIn[part] \in Seq(Parts)
  <2>1. <<>> \in Seq(PlainBlocks)
    OBVIOUS
  <2>2. UserIn[part] \in Seq(PlainBlocks)
    BY <2>1, PartBlocks DEF UserIn
  <2> QED
    BY <2>2 DEF KeptIn
<1>2. UserIn \in [Parts -> Seq(PlainBlocks)] /\ KeptIn \in [Parts -> Seq(Parts)]
  BY <1>1 DEF UserIn, KeptIn
<1>3. ASSUME NEW part \in Parts PROVE Mapped(KeptIn[part], ShownIn) = UserIn[part]
  <2>1. CASE part[1] \in {"text", "https", "base64"}
    <3>1. KeptIn[part] = <<part>> /\ UserIn[part] = << ShownIn[part] >>
      BY <2>1 DEF KeptIn, UserIn, ShownIn
    <3> QED
      BY <3>1 DEF Mapped
  <2>2. CASE part[1] \notin {"text", "https", "base64"}
    <3>1. KeptIn[part] = <<>> /\ UserIn[part] = <<>>
      BY <2>2 DEF KeptIn, UserIn
    <3> QED
      BY <3>1 DEF Mapped
  <2> QED
    BY <2>1, <2>2
<1>4. <<>> \in S
  <2>1. Collect(<<>>, UserIn) = <<>> /\ Collect(<<>>, KeptIn) = <<>> /\ Mapped(<<>>, ShownIn) = <<>>
    BY CollectEmpty DEF Mapped
  <2> QED
    BY <2>1
<1>5. ASSUME NEW s \in Seq(Parts), NEW part \in Parts, s \in S PROVE Append(s, part) \in S
  <2> DEFINE t == Append(s, part)
             kept == Collect(s, KeptIn)
             more == KeptIn[part]
  <2>1. Collect(t, UserIn) = Collect(s, UserIn) \o UserIn[part] /\ Collect(t, KeptIn) = kept \o more
    <3>1. ASSUME NEW B, NEW f \in [Parts -> Seq(B)] PROVE Collect(Append(s, part), f) = Collect(s, f) \o f[part]
      BY CollectAppend
    <3> QED
      BY <1>2, <3>1
  <2>2. kept \in Seq(Parts) /\ more \in Seq(Parts)
    BY <1>1, <1>2, CollectType
  <2>3. Collect(s, UserIn) = Mapped(kept, ShownIn) /\ t \in Seq(Parts)
    BY <1>5
  <2> HIDE DEF t, kept, more
  <2>4. Mapped(kept \o more, ShownIn) = Mapped(kept, ShownIn) \o Mapped(more, ShownIn)
    BY <2>2, MappedConcat, SMTT(30)
  <2>5. Mapped(more, ShownIn) = UserIn[part]
    BY <1>3 DEF more
  <2>6. Collect(t, UserIn) = Mapped(Collect(t, KeptIn), ShownIn)
    BY <2>1, <2>3, <2>4, <2>5
  <2> QED
    BY <2>3, <2>6 DEF t
<1> QED
  <2> HIDE DEF S
  <2>1. Seq(Parts) \subseteq S
    BY <1>4, <1>5, SeqInduction
  <2> QED
    BY <2>1 DEF S

LEMMA UserBlocksAreAsked ==
  ASSUME NEW message \in Turns
  PROVE  UserBlocks(message) = AskedParts(message)
<1> DEFINE content == message.content
<1>1. content \in Seq(Parts)
  BY DEF Turns
<1>2. UserBlocks(message) = Collect(content, UserIn)
  <2>1. \A i \in DOMAIN content : content[i] \in Parts
    BY <1>1
  <2>2. [i \in DOMAIN content |-> UserIn[content[i]]] =
          [i \in DOMAIN content |->
             LET part == content[i]
             IN  IF part[1] = "text" THEN <<part>>
                 ELSE IF part[1] \in {"https", "base64"} THEN << <<"image", part[2]>> >>
                 ELSE <<>>]
    BY <2>1 DEF UserIn
  <2> QED
    BY <2>2 DEF UserBlocks, Collect, Mapped
<1> DEFINE kept == BlocksOf(content, {"text", "https", "base64"})
<1>3. kept = Collect(content, KeptIn)
  <2>1. \A i \in DOMAIN content : content[i] \in Parts
    BY <1>1
  <2>2. [i \in DOMAIN content |-> KeptIn[content[i]]] =
          [i \in DOMAIN content |-> IF content[i][1] \in {"text", "https", "base64"} THEN <<content[i]>> ELSE <<>>]
    BY <2>1 DEF KeptIn
  <2> QED
    BY <2>2 DEF BlocksOf, Collect, Mapped
<1>4. kept \in Seq(Parts)
  <2>1. \A part \in Parts : KeptIn[part] \in Seq(Parts)
    BY DEF KeptIn
  <2>2. KeptIn \in [Parts -> Seq(Parts)]
    BY <2>1 DEF KeptIn
  <2> QED
    BY <1>1, <1>3, <2>2, CollectType
<1>5. AskedParts(message) = [i \in DOMAIN kept |-> IF kept[i][1] = "text" THEN kept[i] ELSE <<"image", kept[i][2]>>]
  BY DEF AskedParts
<1> HIDE DEF kept
<1>6. Mapped(kept, ShownIn) = AskedParts(message)
  <2>1. \A i \in DOMAIN kept : kept[i] \in Parts
    BY <1>4
  <2>2. \A i \in DOMAIN kept :
          ShownIn[kept[i]] = IF kept[i][1] = "text" THEN kept[i] ELSE <<"image", kept[i][2]>>
    BY <2>1 DEF ShownIn
  <2> QED
    BY <1>5, <2>2 DEF Mapped
<1> QED
  BY <1>1, <1>2, <1>3, <1>6, PartsAreShown

\* A message as a turn asks what the message asks.
LEMMA TurnAsks ==
  ASSUME NEW message \in GoodMessages, ~FromSystem(message)
  PROVE  Turn(message) \in AnthropicTurns /\ Turn(message).content = Asked(message)
<1> DEFINE said == UserBlocks(message)
           used == [i \in DOMAIN message.calls |-> <<"tool_use", message.calls[i]>>]
<1>1. message \in Turns
  BY DEF GoodMessages
<1>2. /\ message.role \in {"user", "assistant", "tool"}
      /\ message.role = "user" => message.calls = <<>>
      /\ message.role = "assistant" => message.form # "parts"
  BY DEF GoodMessages, FromSystem, MessageValid
<1>3. said \in Seq(PlainBlocks) /\ used \in Seq(PlainBlocks)
  BY <1>1, UserBlocksType, CallBlocksType
<1>asked. AskedParts(message) = said
  BY <1>1, UserBlocksAreAsked
<1>4. ASSUME NEW s \in Seq(PlainBlocks)
      PROVE  /\ [role |-> "user", content |-> s] \in AnthropicTurns
             /\ [role |-> "assistant", content |-> s] \in AnthropicTurns
  <2>1. s \in Seq(Blocks) /\ Results(s) = <<>> /\ Others(s) = s
    BY PlainSorted
  <2>2. <<>> \o s = s
    OBVIOUS
  <2> QED
    BY <2>1, <2>2 DEF AnthropicTurns
<1>5. CASE message.role = "user"
  <2>1. used = <<>>
    BY <1>2, <1>5
  <2> HIDE DEF said, used
  <2>2. said \o used = said
    BY <1>3, <2>1
  <2>3. Turn(message) = [role |-> "user", content |-> said]
    BY <1>5 DEF Turn, said
  <2>4. Asked(message) = said \o used
    BY <1>asked, <1>5 DEF Asked, FromSystem, used
  <2>5. [role |-> "user", content |-> said] \in AnthropicTurns
    BY <1>3, <1>4
  <2> QED
    BY <2>2, <2>3, <2>4, <2>5
<1>6. CASE message.role = "assistant"
  <2>1. TextBlocks(message) = said
    BY <1>2, <1>6, TextBlocksAre
  <2> HIDE DEF said, used
  <2>2. Turn(message) = [role |-> "assistant", content |-> said \o used]
    BY <1>6, <2>1 DEF Turn, used
  <2>3. Asked(message) = said \o used
    BY <1>asked, <1>6 DEF Asked, FromSystem, used
  <2>4. said \o used \in Seq(PlainBlocks)
    BY <1>3
  <2> DEFINE s == said \o used
  <2> HIDE DEF s
  <2>5. [role |-> "assistant", content |-> s] \in AnthropicTurns
    BY <1>4, <2>4 DEF s
  <2> QED
    BY <2>2, <2>3, <2>5 DEF s
<1>7. CASE message.role = "tool"
  <2> DEFINE block == <<"tool_result", message.answers>>
             s == <<block>>
  <2>1. block \in Blocks
    BY <1>1 DEF Blocks, Turns
  <2>2. Turn(message) = [role |-> "user", content |-> s]
    BY <1>7 DEF Turn
  <2>3. Asked(message) = s
    BY <1>7 DEF Asked, FromSystem
  <2>4. ResultIn[block] = s /\ OtherIn[block] = <<>>
    BY <2>1 DEF ResultIn, OtherIn
  <2> HIDE DEF block
  <2>5. s \in Seq(Blocks)
    BY <2>1
  <2>6. Collect(s, ResultIn) = ResultIn[block] /\ Collect(s, OtherIn) = OtherIn[block]
    <3>1. ASSUME NEW f \in [Blocks -> Seq(Blocks)] PROVE Collect(<<block>>, f) = f[block]
      BY <2>1, CollectOne
    <3> QED
      BY <3>1, BlockTypes
  <2> HIDE DEF s
  <2>7. Results(s) = s /\ Others(s) = <<>> /\ s \o <<>> = s
    BY <2>4, <2>5, <2>6, SortedCollected
  <2>8. [role |-> "user", content |-> s] \in AnthropicTurns
    BY <2>5, <2>7 DEF AnthropicTurns
  <2> QED
    BY <2>2, <2>3, <2>8
<1> QED
  BY <1>2, <1>5, <1>6, <1>7

\* A sequence that is not empty has a last member.
LEMMA FrontAndLast ==
  ASSUME NEW A, NEW s \in Seq(A), s # <<>>
  PROVE  \E p \in Seq(A), x \in A : s = Append(p, x) /\ Last(s) = x
<1> DEFINE n == Len(s)
           p == SubSeq(s, 1, n - 1)
<1>1. n \in Nat /\ n # 0
  BY EmptySeq
<1>2. n \in 1..n /\ n - 1 \in Nat
  BY <1>1
<1>3. s[n] \in A /\ p \in Seq(A)
  BY <1>2
<1>4. s = Append(p, s[n])
  BY <1>1, <1>2
<1>5. Last(s) = s[n]
  BY DEF Last
<1> QED
  BY <1>3, <1>4, <1>5

\* What folding a turn into a conversation does: it is a turn of its own, or it joins the last one.
LEMMA FoldCases ==
  ASSUME NEW folded \in Seq(AnthropicTurns), NEW turn \in AnthropicTurns
  PROVE  \/ /\ folded = <<>> \/ Last(folded).role # turn.role
            /\ FoldTurn(folded, turn) = Append(folded, turn)
         \/ \E p \in Seq(AnthropicTurns), last \in AnthropicTurns, joined \in AnthropicTurns :
              /\ folded = Append(p, last)
              /\ joined.role = last.role
              /\ joined.content = (Results(turn.content) \o last.content) \o Others(turn.content)
              /\ FoldTurn(folded, turn) = Append(p, joined)
<1>1. CASE folded = <<>> \/ Last(folded).role # turn.role
  BY <1>1 DEF FoldTurn
<1>2. CASE folded # <<>> /\ Last(folded).role = turn.role
  <2>1. PICK p \in Seq(AnthropicTurns), last \in AnthropicTurns : folded = Append(p, last) /\ Last(folded) = last
    BY <1>2, FrontAndLast
  <2> DEFINE t == turn.content
             l == last.content
             r == Results(t)
             o == Others(t)
             content == (r \o l) \o o
             joined == [role |-> last.role, content |-> content]
  <2>2. t \in Seq(Blocks) /\ l \in Seq(Blocks) /\ turn.role \in {"user", "assistant"} /\ turn.role = last.role
    BY <1>2, <2>1 DEF AnthropicTurns
  <2>3. r \o o = t /\ Results(l) \o Others(l) = l
    BY DEF AnthropicTurns
  <2>4. turn.role = "assistant" => r = <<>> /\ Results(l) = <<>>
    BY <2>2 DEF AnthropicTurns
  <2> HIDE DEF t, l
  <2>5. r \in Seq(Blocks) /\ o \in Seq(Blocks) /\ Results(l) \in Seq(Blocks) /\ Others(l) \in Seq(Blocks)
    BY <2>2, SortedCollected
  <2>6. /\ Results(r) = r /\ Others(r) = <<>> /\ Results(o) = <<>> /\ Others(o) = o
    BY <2>2, Sorted
  <2> HIDE DEF r, o
  <2>7. r \o l \in Seq(Blocks) /\ content \in Seq(Blocks)
    BY <2>2, <2>5
  <2>8. Results(content) = (r \o Results(l)) \o <<>> /\ Others(content) = (<<>> \o Others(l)) \o o
    <3>1. Results(content) = Results(r \o l) \o Results(o) /\ Others(content) = Others(r \o l) \o Others(o)
      BY <2>5, <2>7, SortedConcat
    <3>2. Results(r \o l) = Results(r) \o Results(l) /\ Others(r \o l) = Others(r) \o Others(l)
      BY <2>2, <2>5, SortedConcat
    <3> QED
      BY <2>6, <3>1, <3>2
  <2> DEFINE a == Results(l)
             b == Others(l)
  <2>9. ((r \o a) \o <<>>) \o ((<<>> \o b) \o o) = content
    <3>1. a \in Seq(Blocks) /\ b \in Seq(Blocks) /\ a \o b = l
      BY <2>3, <2>5
    <3> HIDE DEF a, b, content
    <3>2. (r \o a) \o <<>> = r \o a /\ <<>> \o b = b
      BY <2>5, <3>1
    <3>3. (r \o a) \o (b \o o) = (r \o (a \o b)) \o o
      <4>1. r \in Seq(Blocks) /\ a \in Seq(Blocks) /\ b \in Seq(Blocks) /\ o \in Seq(Blocks)
        BY <2>5, <3>1
      <4> QED
        BY ONLY <4>1, SMTT(30)
    <3> QED
      BY <3>1, <3>2, <3>3 DEF content
  <2>10. Results(content) \o Others(content) = content
    BY <2>8, <2>9
  <2>11. turn.role = "assistant" => Results(content) = <<>>
    <3> SUFFICES ASSUME turn.role = "assistant" PROVE Results(content) = <<>>
      OBVIOUS
    <3>1. (<<>> \o <<>>) \o <<>> = <<>>
      BY ONLY EmptySeq
    <3> QED
      BY <2>4, <2>8, <3>1
  <2>12. joined \in AnthropicTurns
    <3> HIDE DEF content
    <3>1. joined.content = content /\ joined.role = turn.role
      BY <2>2
    <3>2. joined \in [role : {"user", "assistant"}, content : Seq(Blocks)]
      BY <2>2, <2>7
    <3> QED
      BY <2>10, <2>11, <3>1, <3>2 DEF AnthropicTurns
  <2>13. FoldTurn(folded, turn) = [folded EXCEPT ![Len(folded)].content = content]
    <3>1. Len(folded) = Len(p) + 1 /\ folded[Len(folded)] = last
      BY <2>1
    <3>2. CASE turn.role = "user"
      <4>1. FoldTurn(folded, turn) =
              [folded EXCEPT ![Len(folded)].content = Results(turn.content) \o @ \o Others(turn.content)]
        BY <1>2, <3>2 DEF FoldTurn
      <4> QED
        BY <3>1, <4>1 DEF t, l, r, o
    <3>3. CASE turn.role = "assistant"
      <4>1. FoldTurn(folded, turn) = [folded EXCEPT ![Len(folded)].content = @ \o turn.content]
        BY <1>2, <3>3 DEF FoldTurn
      <4>2. r = <<>> /\ o = t
        <5>1. <<>> \o o = o
          BY <2>5
        <5> QED
          BY <2>3, <2>4, <3>3, <5>1
      <4>3. l \o t = content
        <5>1. <<>> \o l = l
          BY <2>2
        <5> QED
          BY <4>2, <5>1
      <4> HIDE DEF content
      <4>4. FoldTurn(folded, turn) = [folded EXCEPT ![Len(folded)].content = l \o t]
        BY <3>1, <4>1 DEF l, t
      <4> QED
        BY <4>3, <4>4
    <3> QED
      BY <2>2, <3>2, <3>3
  <2> HIDE DEF content
  <2>14. [folded EXCEPT ![Len(folded)].content = content] = Append(p, joined)
    <3> DEFINE n == Len(p)
               u == [folded EXCEPT ![Len(folded)].content = content]
               v == Append(p, joined)
    <3>1. n \in Nat /\ Len(folded) = n + 1 /\ folded[n + 1] = last /\ \A i \in 1..n : folded[i] = p[i]
      BY <2>1, AppendProperties
    <3>2. DOMAIN folded = 1..(n + 1)
      BY <3>1
    <3>4. [last EXCEPT !.content = content] = joined
      <4>1. last \in [role : {"user", "assistant"}, content : Seq(Blocks)]
        BY DEF AnthropicTurns
      <4> QED
        BY <4>1
    <3>3. u = [i \in 1..(n + 1) |-> IF i = n + 1 THEN joined ELSE p[i]]
      <4>1. u = [folded EXCEPT ![n + 1] = [last EXCEPT !.content = content]]
        BY <3>1
      <4> HIDE DEF u, n, joined
      <4>2. u = [i \in 1..(n + 1) |-> IF i = n + 1 THEN joined ELSE folded[i]]
        BY <3>2, <3>4, <4>1
      <4>3. \A i \in 1..(n + 1) : i # n + 1 => folded[i] = p[i]
        BY <3>1
      <4> QED
        BY <4>2, <4>3
    <3>5. v \in Seq(AnthropicTurns) /\ Len(v) = n + 1 /\ v[n + 1] = joined /\ \A i \in 1..n : v[i] = p[i]
      BY <2>12, AppendProperties
    <3> HIDE DEF v, n, joined
    <3>6. v = [i \in 1..(n + 1) |-> v[i]]
      BY <3>5
    <3>7. \A i \in 1..(n + 1) : v[i] = IF i = n + 1 THEN joined ELSE p[i]
      BY <3>1, <3>5
    <3> QED
      BY <3>3, <3>6, <3>7 DEF v
  <2>15. joined.role = last.role /\ joined.content = content
    OBVIOUS
  <2> HIDE DEF joined
  <2> QED
    BY <2>1, <2>12, <2>13, <2>14, <2>15 DEF content, r, o, t, l
<1> QED
  BY <1>1, <1>2

\* The blocks of a turn, and what a message asks for.
ContentIn == [turn \in AnthropicTurns |-> turn.content]
AskedIn == [message \in GoodMessages |-> Asked(message)]

LEMMA ConversationTypes ==
  /\ ContentIn \in [AnthropicTurns -> Seq(Blocks)]
  /\ AskedIn \in [GoodMessages -> Seq(Blocks)]
<1>1. \A turn \in AnthropicTurns : turn.content \in Seq(Blocks)
  BY DEF AnthropicTurns
<1>2. ASSUME NEW message \in GoodMessages PROVE Asked(message) \in Seq(Blocks)
  <2>1. CASE FromSystem(message)
    BY <2>1 DEF Asked, FromSystem
  <2>2. CASE ~FromSystem(message)
    BY <1>1, <2>2, TurnAsks
  <2> QED
    BY <2>1, <2>2
<1> QED
  BY <1>1, <1>2 DEF ContentIn, AskedIn

LEMMA TurnsCollect ==
  ASSUME NEW turns \in Seq(AnthropicTurns), NEW turn \in AnthropicTurns
  PROVE  /\ Collect(turns, ContentIn) \in Seq(Blocks)
         /\ Collect(Append(turns, turn), ContentIn) = Collect(turns, ContentIn) \o turn.content
<1>1. ContentIn[turn] = turn.content
  BY DEF ContentIn
<1>2. ASSUME NEW f \in [AnthropicTurns -> Seq(Blocks)]
      PROVE  /\ Collect(turns, f) \in Seq(Blocks)
             /\ Collect(Append(turns, turn), f) = Collect(turns, f) \o f[turn]
  BY CollectType, CollectAppend
<1> QED
  BY <1>1, <1>2, ConversationTypes

\* What the turns of a conversation keep of the blocks that were asked for.
Alternating(turns) == \A i \in 2..Len(turns) : turns[i].role # turns[i - 1].role

Keeps(turns, asked) ==
  LET got == Collect(turns, ContentIn)
  IN  /\ Others(got) = Others(asked)
      /\ Range(Results(got)) = Range(Results(asked))
      /\ Len(Results(got)) = Len(Results(asked))
      /\ Alternating(turns)

LEMMA BlocksRange ==
  ASSUME NEW s \in Seq(Blocks), NEW t \in Seq(Blocks)
  PROVE  /\ Range(s \o t) = Range(s) \cup Range(t)
         /\ Len(s \o t) = Len(s) + Len(t)
         /\ Len(s) \in Nat
BY RangeConcatenation

LEMMA EmptyRange == Range(<<>>) = {} /\ Len(<<>>) = 0
BY DEF Range

LEMMA AlternatingAppend ==
  ASSUME NEW p \in Seq(AnthropicTurns), NEW x \in AnthropicTurns, Alternating(p),
         p # <<>> => Last(p).role # x.role
  PROVE  Alternating(Append(p, x))
<1> DEFINE n == Len(p)
<1>1. /\ n \in Nat /\ Len(Append(p, x)) = n + 1 /\ Append(p, x)[n + 1] = x
      /\ \A i \in 1..n : Append(p, x)[i] = p[i]
  BY AppendProperties
<1>2. Last(p) = p[n] /\ (n # 0 => p # <<>>)
  BY DEF Last
<1>3. SUFFICES ASSUME NEW i \in 2..(n + 1) PROVE Append(p, x)[i].role # Append(p, x)[i - 1].role
  BY <1>1 DEF Alternating
<1>4. i - 1 \in 1..n
  BY <1>1
<1>5. CASE i = n + 1
  BY <1>1, <1>2, <1>4, <1>5
<1>6. CASE i # n + 1
  <2>1. i \in 2..n /\ i \in 1..n
    BY <1>1, <1>6
  <2> QED
    BY <1>1, <1>4, <2>1 DEF Alternating
<1> QED
  BY <1>5, <1>6

\* And what matters of the last turn is its role.
LEMMA AlternatingLast ==
  ASSUME NEW p \in Seq(AnthropicTurns), NEW x \in AnthropicTurns, NEW y \in AnthropicTurns,
         Alternating(Append(p, x)), y.role = x.role
  PROVE  Alternating(Append(p, y))
<1> DEFINE n == Len(p)
<1>1. /\ n \in Nat /\ Len(Append(p, x)) = n + 1 /\ Append(p, x)[n + 1] = x
      /\ Len(Append(p, y)) = n + 1 /\ Append(p, y)[n + 1] = y
      /\ \A i \in 1..n : Append(p, x)[i] = p[i] /\ Append(p, y)[i] = p[i]
  BY AppendProperties
<1>2. \A i \in 1..(n + 1) : i = n + 1 \/ i \in 1..n
  BY <1>1
<1>3. \A i \in 1..(n + 1) : Append(p, x)[i].role = Append(p, y)[i].role
  BY <1>1, <1>2
<1>4. \A i \in 2..(n + 1) : i \in 1..(n + 1) /\ i - 1 \in 1..(n + 1)
  BY <1>1
<1> QED
  BY <1>1, <1>3, <1>4 DEF Alternating

LEMMA FoldKeeps ==
  ASSUME NEW folded \in Seq(AnthropicTurns), NEW turn \in AnthropicTurns,
         NEW asked \in Seq(Blocks), Keeps(folded, asked)
  PROVE  /\ FoldTurn(folded, turn) \in Seq(AnthropicTurns)
         /\ Keeps(FoldTurn(folded, turn), asked \o turn.content)
<1> DEFINE t == turn.content
           got == Collect(folded, ContentIn)
           next == FoldTurn(folded, turn)
<1>1. t \in Seq(Blocks) /\ got \in Seq(Blocks)
  BY TurnsCollect DEF AnthropicTurns
<1>2. /\ Others(got) = Others(asked) /\ Range(Results(got)) = Range(Results(asked))
      /\ Len(Results(got)) = Len(Results(asked)) /\ Alternating(folded)
  BY DEF Keeps
<1>3. /\ Results(asked \o t) = Results(asked) \o Results(t)
      /\ Others(asked \o t) = Others(asked) \o Others(t)
  BY <1>1, SortedConcat
<1>4. \A s \in Seq(Blocks) : Results(s) \in Seq(Blocks) /\ Others(s) \in Seq(Blocks)
  BY SortedCollected
<1>5. ASSUME next \in Seq(AnthropicTurns), Alternating(next), NEW more, Collect(next, ContentIn) = more,
             /\ Others(more) = Others(got) \o Others(t)
             /\ Range(Results(more)) = Range(Results(got)) \cup Range(Results(t))
             /\ Len(Results(more)) = Len(Results(got)) + Len(Results(t))
      PROVE  next \in Seq(AnthropicTurns) /\ Keeps(next, asked \o t)
  <2> HIDE DEF t, got, next
  <2>1. /\ Range(Results(asked \o t)) = Range(Results(asked)) \cup Range(Results(t))
        /\ Len(Results(asked \o t)) = Len(Results(asked)) + Len(Results(t))
    BY <1>1, <1>3, <1>4, BlocksRange
  <2> QED
    BY <1>2, <1>3, <1>5, <2>1 DEF Keeps
<1>6. CASE /\ folded = <<>> \/ Last(folded).role # turn.role
           /\ next = Append(folded, turn)
  <2> DEFINE turns == Append(folded, turn)
  <2>1. turns \in Seq(AnthropicTurns)
    OBVIOUS
  <2>2. Alternating(turns)
    BY <1>2, <1>6, AlternatingAppend
  <2>3. Collect(turns, ContentIn) = got \o t
    BY TurnsCollect
  <2> HIDE DEF t, got, next
  <2>4. /\ Results(got \o t) = Results(got) \o Results(t)
        /\ Others(got \o t) = Others(got) \o Others(t)
    BY <1>1, SortedConcat
  <2>5. /\ Range(Results(got \o t)) = Range(Results(got)) \cup Range(Results(t))
        /\ Len(Results(got \o t)) = Len(Results(got)) + Len(Results(t))
    BY <1>1, <1>4, <2>4, BlocksRange
  <2>6. next = turns
    BY <1>6
  <2> HIDE DEF turns
  <2> DEFINE more == got \o t
  <2>7. next \in Seq(AnthropicTurns) /\ Alternating(next) /\ Collect(next, ContentIn) = more
    BY <2>1, <2>2, <2>3, <2>6
  <2>8. /\ Others(more) = Others(got) \o Others(t)
        /\ Range(Results(more)) = Range(Results(got)) \cup Range(Results(t))
        /\ Len(Results(more)) = Len(Results(got)) + Len(Results(t))
    BY <2>4, <2>5
  <2> HIDE DEF more
  <2> QED
    BY <1>5, <2>7, <2>8 DEF next, t
<1>7. ASSUME NEW p \in Seq(AnthropicTurns), NEW last \in AnthropicTurns, NEW joined \in AnthropicTurns,
             folded = Append(p, last), joined.role = last.role,
             joined.content = (Results(t) \o last.content) \o Others(t), next = Append(p, joined)
      PROVE  next \in Seq(AnthropicTurns) /\ Keeps(next, asked \o t)
  <2> DEFINE l == last.content
             r == Results(t)
             o == Others(t)
             P == Collect(p, ContentIn)
             content == (r \o l) \o o
             turns == Append(p, joined)
             more == P \o content
  <2>1. turns \in Seq(AnthropicTurns)
    OBVIOUS
  <2>2. Alternating(turns)
    BY <1>2, <1>7, AlternatingLast
  <2>3. Collect(turns, ContentIn) = more
    BY <1>7, TurnsCollect
  <2>4. got = P \o l /\ P \in Seq(Blocks) /\ l \in Seq(Blocks)
    BY <1>7, TurnsCollect DEF AnthropicTurns
  <2>5. next = turns
    BY <1>7
  <2> HIDE DEF t, got, next, turns, l, P, content, more
  <2>6. r \in Seq(Blocks) /\ o \in Seq(Blocks)
    BY <1>1, <1>4
  <2>7. Results(r) = r /\ Others(r) = <<>> /\ Results(o) = <<>> /\ Others(o) = o
    BY <1>1, Sorted
  <2> HIDE DEF r, o
  <2>8. r \o l \in Seq(Blocks) /\ content \in Seq(Blocks)
    BY <2>4, <2>6 DEF content
  <2>17. /\ Results(r \o l) = Results(r) \o Results(l)
         /\ Others(r \o l) = Others(r) \o Others(l)
    BY <2>4, <2>6, SortedConcat
  <2>18. /\ Results(content) = Results(r \o l) \o Results(o)
         /\ Others(content) = Others(r \o l) \o Others(o)
    BY <2>6, <2>8, SortedConcat DEF content
  <2>9. Results(content) = (r \o Results(l)) \o <<>> /\ Others(content) = (<<>> \o Others(l)) \o o
    BY <2>7, <2>17, <2>18
  <2>10. /\ Results(more) = Results(P) \o Results(content) /\ Others(more) = Others(P) \o Others(content)
         /\ Results(got) = Results(P) \o Results(l) /\ Others(got) = Others(P) \o Others(l)
    BY <2>4, <2>8, SortedConcat DEF more
  <2> DEFINE PR == Results(P)
             PO == Others(P)
             lr == Results(l)
             lo == Others(l)
  <2>11. PR \in Seq(Blocks) /\ PO \in Seq(Blocks) /\ lr \in Seq(Blocks) /\ lo \in Seq(Blocks)
    BY <1>4, <2>4
  <2>12. Others(more) = Others(got) \o o
    <3>1. Others(more) = PO \o ((<<>> \o lo) \o o) /\ Others(got) = PO \o lo
      BY <2>9, <2>10
    <3> HIDE DEF PR, PO, lr, lo
    <3>2. <<>> \o lo = lo
      BY <2>11
    <3>3. PO \o (lo \o o) = (PO \o lo) \o o
      <4>1. PO \in Seq(Blocks) /\ lo \in Seq(Blocks) /\ o \in Seq(Blocks)
        BY <2>6, <2>11
      <4> QED
        BY ONLY <4>1
    <3> QED
      BY <3>1, <3>2, <3>3
  <2>13. Results(more) = PR \o (r \o lr) /\ Results(got) = PR \o lr
    <3>1. Results(more) = PR \o ((r \o lr) \o <<>>) /\ Results(got) = PR \o lr
      BY <2>9, <2>10
    <3> HIDE DEF PR, PO, lr, lo
    <3>2. (r \o lr) \o <<>> = r \o lr
      BY <2>6, <2>11
    <3> QED
      BY <3>1, <3>2
  <2> HIDE DEF PR, PO, lr, lo
  <2>14. /\ Range(r \o lr) = Range(r) \cup Range(lr) /\ Len(r \o lr) = Len(r) + Len(lr)
         /\ r \o lr \in Seq(Blocks) /\ Len(r) \in Nat /\ Len(lr) \in Nat /\ Len(PR) \in Nat
    BY <2>6, <2>11, BlocksRange
  <2>15. /\ Range(PR \o (r \o lr)) = Range(PR) \cup Range(r \o lr)
         /\ Len(PR \o (r \o lr)) = Len(PR) + Len(r \o lr)
         /\ Range(PR \o lr) = Range(PR) \cup Range(lr)
         /\ Len(PR \o lr) = Len(PR) + Len(lr)
    BY <2>11, <2>14, BlocksRange
  <2>16. /\ Range(Results(more)) = Range(Results(got)) \cup Range(r)
         /\ Len(Results(more)) = Len(Results(got)) + Len(r)
    BY <2>13, <2>14, <2>15
  <2> QED
    BY <1>5, <2>1, <2>2, <2>3, <2>5, <2>12, <2>16 DEF r, o
<1>8. \/ /\ folded = <<>> \/ Last(folded).role # turn.role
         /\ next = Append(folded, turn)
      \/ \E p \in Seq(AnthropicTurns), last \in AnthropicTurns, joined \in AnthropicTurns :
           /\ folded = Append(p, last)
           /\ joined.role = last.role
           /\ joined.content = (Results(t) \o last.content) \o Others(t)
           /\ next = Append(p, joined)
  BY FoldCases
<1> QED
  BY <1>6, <1>7, <1>8

LEMMA FoldType ==
  ASSUME NEW folded \in Seq(AnthropicTurns), NEW turn \in AnthropicTurns
  PROVE  FoldTurn(folded, turn) \in Seq(AnthropicTurns)
<1>1. \A p \in Seq(AnthropicTurns), x \in AnthropicTurns : Append(p, x) \in Seq(AnthropicTurns)
  OBVIOUS
<1> DEFINE next == FoldTurn(folded, turn)
<1>2. \/ next = Append(folded, turn)
      \/ \E p \in Seq(AnthropicTurns), last \in AnthropicTurns, joined \in AnthropicTurns :
           /\ folded = Append(p, last)
           /\ joined.role = last.role
           /\ joined.content = (Results(turn.content) \o last.content) \o Others(turn.content)
           /\ next = Append(p, joined)
  BY FoldCases
<1> HIDE DEF next
<1>3. next \in Seq(AnthropicTurns)
  BY <1>1, <1>2
<1> QED
  BY <1>3 DEF next

\* A conversation, message after message: a chain of steps.
LEMMA ConversationChain ==
  ASSUME NEW messages \in Seq(GoodMessages)
  PROVE  \E g \in [0..Len(messages) -> Seq(AnthropicTurns)] :
            /\ g[0] = <<>>
            /\ \A n \in 1..Len(messages) :
                 g[n] = IF FromSystem(messages[n]) THEN g[n - 1] ELSE FoldTurn(g[n - 1], Turn(messages[n]))
            /\ Conversation(messages) = g[Len(messages)]
<1> DEFINE N == Len(messages)
           Next(x, n) == IF FromSystem(messages[n]) THEN x ELSE FoldTurn(x, Turn(messages[n]))
           X == Seq(AnthropicTurns)
           F == [n \in 1..N |-> [x \in X |-> Next(x, n)]]
           p == CHOOSE p : p = [n \in 0..N |-> IF n = 0 THEN <<>>
                                               ELSE IF FromSystem(messages[n]) THEN p[n - 1]
                                               ELSE FoldTurn(p[n - 1], Turn(messages[n]))]
<1>1. N \in Nat /\ <<>> \in X /\ \A n \in 1..N : messages[n] \in GoodMessages
  BY ElementOfSeq
<1> HIDE DEF N
<1>2. ASSUME NEW n \in 1..N, NEW x \in X PROVE Next(x, n) \in X
  BY <1>1, FoldType, TurnAsks
<1>3. F \in [1..N -> [X -> X]]
  BY <1>2
<1>4. PICK g : g \in Chains(X, N, <<>>, F)
  <2> HIDE DEF F, X
  <2>1. Chains(X, N, <<>>, F) # {}
    BY <1>1, <1>3, Recursion
  <2> QED
    BY <2>1
<1>5. g \in [0..N -> X] /\ g[0] = <<>> /\ \A n \in 1..N : g[n] = F[n][g[n - 1]]
  <2> HIDE DEF F, X
  <2> QED
    BY <1>4 DEF Chains
<1>6. ASSUME NEW n \in 1..N PROVE g[n] = Next(g[n - 1], n) /\ n - 1 \in 0..N
  <2>1. n - 1 \in 0..N
    BY <1>1
  <2>2. g[n - 1] \in X
    BY <1>5, <2>1
  <2> HIDE DEF X, Next
  <2>3. F[n][g[n - 1]] = Next(g[n - 1], n)
    BY <2>2
  <2> QED
    BY <1>5, <2>1, <2>3
<1> HIDE DEF F
<1>7. g = [n \in 0..N |-> IF n = 0 THEN <<>>
                          ELSE IF FromSystem(messages[n]) THEN g[n - 1]
                          ELSE FoldTurn(g[n - 1], Turn(messages[n]))]
  <2>1. ASSUME NEW n \in 0..N, n # 0 PROVE g[n] = Next(g[n - 1], n)
    <3>1. n \in 1..N
      BY <1>1, <2>1
    <3> QED
      BY <1>6, <3>1
  <2>2. \A n \in 0..N : g[n] = IF n = 0 THEN <<>> ELSE Next(g[n - 1], n)
    BY <1>5, <2>1
  <2> HIDE DEF Next
  <2>3. g = [n \in 0..N |-> IF n = 0 THEN <<>> ELSE Next(g[n - 1], n)]
    BY <1>5, <2>2
  <2> QED
    BY <2>3 DEF Next
<1>8. p = [n \in 0..N |-> IF n = 0 THEN <<>>
                          ELSE IF FromSystem(messages[n]) THEN p[n - 1]
                          ELSE FoldTurn(p[n - 1], Turn(messages[n]))]
  BY <1>7
<1>9. Conversation(messages) = p[N]
  BY DEF Conversation, N, p
<1> HIDE DEF p
<1> DEFINE S == {n \in 0..N : p[n] = g[n]}
<1>10. 0 \in S
  BY <1>1, <1>5, <1>8
<1>11. \A n \in 0..N : n \in S /\ n < N => n + 1 \in S
  <2> SUFFICES ASSUME NEW n \in 0..N, n \in S, n < N PROVE n + 1 \in S
    OBVIOUS
  <2>1. n + 1 \in 1..N /\ n + 1 \in 0..N /\ n + 1 # 0 /\ (n + 1) - 1 = n
    BY <1>1
  <2>2. p[n + 1] = Next(p[n], n + 1)
    BY <1>8, <2>1
  <2>3. g[n + 1] = Next(g[n], n + 1)
    BY <1>6, <2>1
  <2> QED
    BY <2>1, <2>2, <2>3
<1>12. p[N] = g[N]
  <2> HIDE DEF S
  <2>1. 0..N \subseteq S
    BY <1>1, <1>10, <1>11, Induction
  <2>2. N \in 0..N
    BY <1>1
  <2> QED
    BY <2>1, <2>2 DEF S
<1> QED
  BY <1>5, <1>6, <1>9, <1>12 DEF N

\* A conversation keeps the blocks its messages ask for.
LEMMA ConversationKeeps ==
  ASSUME NEW messages \in Seq(GoodMessages)
  PROVE  /\ Conversation(messages) \in Seq(AnthropicTurns)
         /\ Keeps(Conversation(messages), Collect(messages, AskedIn))
<1> DEFINE N == Len(messages)
           Upto(n) == SubSeq(messages, 1, n)
           AskedUpto(n) == Collect(Upto(n), AskedIn)
<1>1. PICK g \in [0..N -> Seq(AnthropicTurns)] :
        /\ g[0] = <<>>
        /\ \A n \in 1..N : g[n] = IF FromSystem(messages[n]) THEN g[n - 1] ELSE FoldTurn(g[n - 1], Turn(messages[n]))
        /\ Conversation(messages) = g[N]
  BY ConversationChain
<1>2. N \in Nat /\ \A n \in 1..N : messages[n] \in GoodMessages
  BY ElementOfSeq
<1>3. Upto(0) = <<>> /\ Upto(N) = messages
  BY <1>2
<1>4. ASSUME NEW n \in 0..N, n < N
      PROVE  Upto(n) \in Seq(GoodMessages) /\ Upto(n + 1) = Append(Upto(n), messages[n + 1])
  BY <1>2, <1>4
<1> DEFINE S == {n \in 0..N : Keeps(g[n], AskedUpto(n))}
<1> HIDE DEF N
<1>5. 0 \in S
  <2>1. AskedUpto(0) = <<>> /\ Collect(<<>>, ContentIn) = <<>>
    BY <1>3, CollectEmpty
  <2>2. Alternating(<<>>)
    BY DEF Alternating
  <2> QED
    BY <1>1, <1>2, <2>1, <2>2 DEF Keeps
<1>6. \A n \in 0..N : n \in S /\ n < N => n + 1 \in S
  <2> SUFFICES ASSUME NEW n \in 0..N, n \in S, n < N PROVE Keeps(g[n + 1], AskedUpto(n + 1)) /\ n + 1 \in 0..N
    OBVIOUS
  <2> DEFINE m == messages[n + 1]
             asked == AskedUpto(n)
  <2>1. n + 1 \in 1..N /\ n + 1 \in 0..N /\ (n + 1) - 1 = n /\ m \in GoodMessages
    BY <1>2
  <2>2. g[n + 1] = (IF FromSystem(m) THEN g[n] ELSE FoldTurn(g[n], Turn(m))) /\ g[n] \in Seq(AnthropicTurns)
    BY <1>1, <2>1
  <2>3. Upto(n) \in Seq(GoodMessages) /\ Upto(n + 1) = Append(Upto(n), m)
    BY <1>4
  <2>4. AskedUpto(n + 1) = asked \o AskedIn[m] /\ asked \in Seq(Blocks)
    <3> HIDE DEF Upto, m
    <3>1. ASSUME NEW f \in [GoodMessages -> Seq(Blocks)]
          PROVE  /\ Collect(Append(Upto(n), m), f) = Collect(Upto(n), f) \o f[m]
                 /\ Collect(Upto(n), f) \in Seq(Blocks)
      BY <2>1, <2>3, CollectAppend, CollectType
    <3> QED
      BY <2>3, <3>1, ConversationTypes
  <2>5. AskedIn[m] = Asked(m)
    BY <2>1 DEF AskedIn
  <2>6. Keeps(g[n], asked)
    OBVIOUS
  <2> HIDE DEF Upto, AskedUpto, m, asked, S
  <2>7. CASE FromSystem(m)
    <3>1. Asked(m) = <<>>
      BY <2>7 DEF Asked, FromSystem
    <3>2. asked \o <<>> = asked
      BY <2>4
    <3> QED
      BY <2>1, <2>2, <2>4, <2>5, <2>6, <2>7, <3>1, <3>2
  <2>8. CASE ~FromSystem(m)
    <3>1. Turn(m) \in AnthropicTurns /\ Turn(m).content = Asked(m)
      BY <2>1, <2>8, TurnAsks
    <3>2. Keeps(FoldTurn(g[n], Turn(m)), asked \o Turn(m).content)
      BY <2>2, <2>4, <2>6, <3>1, FoldKeeps
    <3> QED
      BY <2>1, <2>2, <2>4, <2>5, <2>8, <3>1, <3>2
  <2> QED
    BY <2>7, <2>8
<1>7. N \in S
  <2> HIDE DEF S
  <2>1. 0..N \subseteq S
    BY <1>2, <1>5, <1>6, Induction
  <2> QED
    BY <1>2, <2>1
<1>8. g[N] \in Seq(AnthropicTurns)
  BY <1>1, <1>2
<1> QED
  BY <1>1, <1>3, <1>7, <1>8

\* The messages of a call that was prepared.
LEMMA CallMessages ==
  ASSUME NEW bundle, NEW c, GoodCall(bundle, c), c.endpoint # "embeddings"
  PROVE  c.body.messages \in Seq(GoodMessages)
<1> DEFINE messages == c.body.messages
           vision == "vision" \in bundle.models[c.model].capabilities
<1>1. Plainly(messages) /\ MessagesValid(messages, vision)
  BY DEF GoodCall
<1> HIDE DEF messages
<1>2. messages \in Seq(Turns)
  BY <1>1 DEF Plainly
<1>3. Len(messages) \in Nat /\ DOMAIN messages = 1..Len(messages)
      /\ \A i \in 1..Len(messages) : messages[i] \in Turns /\ messages[i] \in Range(messages)
  BY <1>2 DEF Range
<1>4. vision \in BOOLEAN
  OBVIOUS
<1> HIDE DEF vision
<1>5. \A i \in 1..Len(messages) : messages[i] \in GoodMessages
  BY <1>1, <1>3, <1>4 DEF Plainly, MessagesValid, GoodMessages
<1>6. messages \in Seq(GoodMessages)
  BY <1>2, <1>3, <1>5
<1> QED
  BY <1>6 DEF messages

\* The blocks of the turns and of the messages, as the property puts them together.
LEMMA BlocksTogether ==
  /\ \A messages \in Seq(GoodMessages) :
       FlattenSeq([i \in DOMAIN messages |-> Asked(messages[i])]) = Collect(messages, AskedIn)
  /\ \A turns \in Seq(AnthropicTurns) :
       FlattenSeq([i \in DOMAIN turns |-> turns[i].content]) = Collect(turns, ContentIn)
<1>1. ASSUME NEW messages \in Seq(GoodMessages)
      PROVE  [i \in DOMAIN messages |-> Asked(messages[i])] = Mapped(messages, AskedIn)
  <2>1. \A i \in DOMAIN messages : messages[i] \in GoodMessages
    OBVIOUS
  <2> QED
    BY <2>1 DEF Mapped, AskedIn
<1>2. ASSUME NEW turns \in Seq(AnthropicTurns)
      PROVE  [i \in DOMAIN turns |-> turns[i].content] = Mapped(turns, ContentIn)
  <2>1. \A i \in DOMAIN turns : turns[i] \in AnthropicTurns
    OBVIOUS
  <2> QED
    BY <2>1 DEF Mapped, ContentIn
<1> QED
  BY <1>1, <1>2 DEF Collect

LEMMA RequestInvConversation == RequestInv => ConversationSurvives
<1> SUFFICES ASSUME RequestInv, sent # Unsent, call.endpoint # "embeddings", Anthropic
             PROVE  LET asked == FlattenSeq([i \in DOMAIN call.body.messages |-> Asked(call.body.messages[i])])
                        got == FlattenSeq([i \in DOMAIN sent.messages |-> sent.messages[i].content])
                    IN  /\ Others(got) = Others(asked)
                        /\ Range(Results(got)) = Range(Results(asked)) /\ Len(got) = Len(asked)
                        /\ \A i \in 2..Len(sent.messages) : sent.messages[i].role # sent.messages[i - 1].role
                        /\ \A turn \in Range(sent.messages) :
                             Results(turn.content) \o Others(turn.content) = turn.content
                        /\ call.body.choice = <<"none">> => sent.choice = <<"none">>
  BY DEF ConversationSurvives
<1>1. GoodCall(gateway.bundle, call) /\ BundleValid(gateway.bundle)
  BY DEF RequestInv
<1>2. PICK route \in CandidateRoutes(CallModel) :
        sent = UpstreamRequest(route, gateway.bundle.pools, call.body)
  BY DEF RequestInv
<1>3. route.pool \in DOMAIN gateway.bundle.pools
  BY <1>1, RoutesAreServed DEF GoodCall, CallModel
<1>4. sent.style = "anthropic-messages"
  BY DEF Anthropic
<1>5. sent.messages = Conversation(call.body.messages) /\ sent.choice = AnthropicChoice(call.body)
  BY <1>1, <1>2, <1>3, <1>4, UnsentStyle
<1> DEFINE messages == call.body.messages
           turns == sent.messages
           asked == Collect(messages, AskedIn)
           got == Collect(turns, ContentIn)
<1>6. messages \in Seq(GoodMessages)
  BY <1>1, CallMessages
<1>7. turns \in Seq(AnthropicTurns) /\ Keeps(turns, asked)
  BY <1>5, <1>6, ConversationKeeps
<1>8. /\ FlattenSeq([i \in DOMAIN call.body.messages |-> Asked(call.body.messages[i])]) = asked
      /\ FlattenSeq([i \in DOMAIN sent.messages |-> sent.messages[i].content]) = got
  BY <1>6, <1>7, BlocksTogether
<1>9. call.body.choice = <<"none">> => sent.choice = <<"none">>
  <2> SUFFICES ASSUME call.body.choice = <<"none">> PROVE AnthropicChoice(call.body) = <<"none">>
    BY <1>5
  <2>1. call.body.choice # <<"absent">> /\ call.body.choice # <<"auto">>
    OBVIOUS
  <2>2. call.body.tools # <<>>
    BY <1>1, <2>1 DEF GoodCall
  <2>3. call.body.choice # <<"required">> /\ Len(call.body.choice) = 1
    OBVIOUS
  <2> QED
    BY <2>1, <2>2, <2>3 DEF AnthropicChoice
<1> HIDE DEF messages, turns
<1>10. asked \in Seq(Blocks) /\ got \in Seq(Blocks)
  <2>1. \A f \in [GoodMessages -> Seq(Blocks)] : Collect(messages, f) \in Seq(Blocks)
    BY <1>6, CollectType
  <2>2. \A f \in [AnthropicTurns -> Seq(Blocks)] : Collect(turns, f) \in Seq(Blocks)
    BY <1>7, CollectType
  <2> QED
    BY <2>1, <2>2, ConversationTypes
<1>11. /\ Others(got) = Others(asked) /\ Range(Results(got)) = Range(Results(asked))
       /\ Len(Results(got)) = Len(Results(asked)) /\ Alternating(turns)
  BY <1>7 DEF Keeps
<1> HIDE DEF asked, got
<1>12. Len(got) = Len(asked)
  <2>1. Len(got) = Len(Results(got)) + Len(Others(got)) /\ Len(asked) = Len(Results(asked)) + Len(Others(asked))
    BY <1>10, Sorted
  <2> QED
    BY <1>11, <2>1
<1>13. \A turn \in Range(turns) : Results(turn.content) \o Others(turn.content) = turn.content
  <2>1. \A turn \in Range(turns) : turn \in AnthropicTurns
    BY <1>7 DEF Range
  <2> QED
    BY <2>1 DEF AnthropicTurns
<1>14. \A i \in 2..Len(sent.messages) : sent.messages[i].role # sent.messages[i - 1].role
  BY <1>11 DEF Alternating, turns
<1>15. \A turn \in Range(sent.messages) : Results(turn.content) \o Others(turn.content) = turn.content
  BY <1>13 DEF turns
<1> QED
  BY <1>8, <1>9, <1>11, <1>12, <1>14, <1>15

-----------------------------------------------------------------------------
(* The theorems.                                                           *)

(***************************************************************************)
(* The inductive invariant of a call: types, its request, the control of   *)
(* its steps, its charge, and what was read and told of its stream.        *)
(***************************************************************************)
CallInv == PublicCallTypeOK /\ RequestInv /\ ControlInv /\ ChargeInv /\ StreamInv

LEMMA CallInvInit == PublicCallInit => CallInv
BY TypeInit, RequestInit, ControlInit, ChargeInit, StreamInit DEF CallInv

LEMMA CallInvStep ==
  ASSUME CallInv, [PublicCallNext]_vars
  PROVE  CallInv'
<1>1. PublicCallTypeOK /\ RequestInv /\ ControlInv /\ ChargeInv /\ StreamInv
  BY DEF CallInv
<1>2. PublicCallTypeOK' /\ ControlInv'
  BY <1>1, TypeStep, ControlStep
<1>3. RequestInv'
  BY <1>1, RequestStep
<1>4. ChargeInv'
  BY <1>1, ChargeStep
<1>5. StreamInv'
  BY <1>1, StreamStep
<1> QED
  BY <1>2, <1>3, <1>4, <1>5 DEF CallInv

\* The invariant holds in every state of every call.
THEOREM CallInvariant == PublicCallSpec => []CallInv
<1>1. CallInv /\ [PublicCallNext]_vars => CallInv'
  BY CallInvStep
<1> QED
  BY <1>1, CallInvInit, PTL DEF PublicCallSpec

\* The state of a call, of its stream and of its parser keeps its type (aiPublic.ts, sse.ts).
THEOREM PublicCallTypeCorrect == PublicCallSpec => []PublicCallTypeOK
<1>1. CallInv => PublicCallTypeOK
  BY DEF CallInv
<1> QED
  BY <1>1, CallInvariant, PTL

(***************************************************************************)
(* A gateway that started can serve what it accepts: an accepted call has  *)
(* a route, and every route leads to a pool in use that has a credential   *)
(* and can be asked for the call (validation.ts:472-489).                  *)
(***************************************************************************)
THEOREM StartedCanServe == PublicCallSpec => []StartedIsServable
<1>1. CallInv => StartedIsServable
  BY RequestInvServes DEF CallInv
<1> QED
  BY <1>1, CallInvariant, PTL

(***************************************************************************)
(* The limit the provider is told is the one the reservation was priced    *)
(* with, under a name the provider knows (inference.ts:799-806, 891;       *)
(* providers.ts:198, 219, 350-354).                                        *)
(***************************************************************************)
THEOREM LimitIsTold == PublicCallSpec => []LimitReachesUpstream
<1>1. CallInv => LimitReachesUpstream
  BY RequestInvLimits DEF CallInv
<1> QED
  BY <1>1, CallInvariant, PTL

(***************************************************************************)
(* A conversation survives its translation for Anthropic, whatever its     *)
(* messages: all that is not said by the system, block for block, in turns *)
(* of alternating roles that begin with the results of tools, and a client *)
(* that forbids tools is not overruled (providers.ts:331-349, 367-386).    *)
(***************************************************************************)
THEOREM ConversationIsKept == PublicCallSpec => []ConversationSurvives
<1>1. CallInv => ConversationSurvives
  BY RequestInvConversation DEF CallInv
<1> QED
  BY <1>1, CallInvariant, PTL

(***************************************************************************)
(* No charge within the limits of a call exceeds its reservation, whatever *)
(* its prices, and an estimate is within them (inference.ts:1524-1538;     *)
(* pricing.ts:70-84).                                                      *)
(***************************************************************************)
THEOREM ReservationIsEnough == PublicCallSpec => []ReservationCovers
<1>1. CallInv => ReservationCovers
  BY ChargeCovered DEF CallInv
<1> QED
  BY <1>1, CallInvariant, PTL

(***************************************************************************)
(* A client that is told of a success was told all the provider wrote      *)
(* before its end and was charged, and so was a stream that is kept for a  *)
(* replay, however the stream was cut into chunks and whatever was in it   *)
(* (aiPublic.ts:400-415, 633-650).                                         *)
(***************************************************************************)
THEOREM SuccessTellsAll == PublicCallSpec => []SuccessIsComplete
<1>1. CallInv => SuccessIsComplete
  BY SuccessCompletes DEF CallInv
<1> QED
  BY <1>1, CallInvariant, PTL

(***************************************************************************)
(* What a client is charged for is what the provider reported last, and    *)
(* what the client is told (aiPublic.ts:386-391; inference.ts:1804-1811,   *)
(* 1918-1961).                                                             *)
(***************************************************************************)
THEOREM ChargedAsTold == PublicCallSpec => []ToldAsCharged
<1>1. CallInv => ToldAsCharged
  BY ChargeIsTold DEF CallInv
<1> QED
  BY <1>1, CallInvariant, PTL

(***************************************************************************)
(* The events of a response come in the order the protocol gives them, and *)
(* its end repeats the text and says whether it was cut off                *)
(* (inference.ts:1332-1337).                                               *)
(***************************************************************************)
THEOREM ResponsesAreOrdered == PublicCallSpec => []ResponsesInOrder
<1>1. CallInv => ResponsesInOrder
  BY ResponsesOrdered DEF CallInv
<1> QED
  BY <1>1, CallInvariant, PTL
=============================================================================
