-------------------------------- MODULE Sums --------------------------------
(* Sums over 1..N, as TLC evaluates them and TLAPS reasons about them. *)
EXTENDS Integers

\* PartialSums(f, N)[n] is f[1] + ... + f[n].
PartialSums(f, N) ==
    LET sum[n \in 0..N] == IF n = 0 THEN 0 ELSE sum[n - 1] + f[n] IN sum

Total(f, N) == PartialSums(f, N)[N]
=============================================================================
