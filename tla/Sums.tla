-------------------------------- MODULE Sums --------------------------------
(***************************************************************************)
(* Sums over numbered slots, as a recursive function so that proofs can    *)
(* unfold it.                                                              *)
(***************************************************************************)
EXTENDS Integers

\* f[1] + ... + f[n]
Total(f, n) == LET sum[k \in 0..n] == IF k = 0 THEN 0 ELSE sum[k - 1] + f[k] IN sum[n]
=============================================================================
