---------------------------- MODULE Subsequences ----------------------------
(***************************************************************************)
(* Parts of a sequence and sums over one, in a form that can be reasoned   *)
(* about: SubsequencesProofs says what they are for every sequence.        *)
(***************************************************************************)
EXTENDS Naturals, Sequences, FiniteSets

\* The k-th smallest element of a set of numbers.
Nth(S, k) == CHOOSE i \in S : Cardinality({j \in S : j <= i}) = k

\* The elements of s at the indices in S, in their order.
Subsequence(s, S) == [k \in 1 .. Cardinality(S) |-> s[Nth(S, k)]]

\* The sum of a sequence of numbers.
SumOf(s) ==
  LET sum[i \in 0 .. Len(s)] == IF i = 0 THEN 0 ELSE sum[i - 1] + s[i]
  IN  sum[Len(s)]
=============================================================================
