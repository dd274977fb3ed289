---------------------------- MODULE RunningSums ----------------------------
(***************************************************************************)
(* What a loop that adds up has after each of its rounds.                  *)
(***************************************************************************)
EXTENDS Integers, Sequences

\* w[1] + ... + w[i], for every i from 0 to n
Sums(w, n) == LET sum[i \in 0..n] == IF i = 0 THEN 0 ELSE sum[i - 1] + w[i] IN sum
SumOf(s) == Sums(s, Len(s))[Len(s)]
=============================================================================
