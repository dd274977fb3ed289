------------------------------ MODULE Sifting ------------------------------
(***************************************************************************)
(* What a loop that keeps some of the elements of a sequence has kept      *)
(* after each of its rounds.                                               *)
(***************************************************************************)
EXTENDS Naturals, Sequences

\* What is in T of the first i elements of s, in their order, for every i
Sieve(s, T) ==
    LET sieve[i \in 0 .. Len(s)] ==
            IF i = 0 THEN <<>>
            ELSE IF s[i] \in T THEN Append(sieve[i - 1], s[i]) ELSE sieve[i - 1]
    IN sieve
Sifted(s, T) == Sieve(s, T)[Len(s)]
=============================================================================
