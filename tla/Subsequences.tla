---------------------------- MODULE Subsequences ----------------------------
(***************************************************************************)
(* The part of a sequence at given indices: what a list comprehension with *)
(* a condition, or append in a loop, makes of a list.                      *)
(***************************************************************************)
EXTENDS Integers, FiniteSets

\* The k-th smallest number of S.
At(S, k) == CHOOSE i \in S : Cardinality({j \in S : j <= i}) = k

\* The elements of seq at the indices in S, in their order.
Selected(seq, S) == [k \in 1..Cardinality(S) |-> seq[At(S, k)]]
=============================================================================
