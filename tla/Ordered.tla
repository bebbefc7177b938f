------------------------------ MODULE Ordered ------------------------------
(* What the parser's references say of whole inputs: the elements at some of  *)
(* their positions, in order.                                                 *)
EXTENDS Integers, FiniteSets

\* The n-th smallest of the numbers S.
Nth(S, n) == CHOOSE k \in S : Cardinality({j \in S : j < k}) = n - 1

\* The values of f, a function on numbers, in the order of its arguments.
InOrder(f) == [n \in 1 .. Cardinality(DOMAIN f) |-> f[Nth(DOMAIN f, n)]]
=============================================================================
