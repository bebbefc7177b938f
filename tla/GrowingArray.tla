---------------------------- MODULE GrowingArray ----------------------------
(* array_grow() of project1/parser/parser.c, the capacities of its arrays.    *)
EXTENDS Integers

\* The capacity array_grow leaves: doubled from the old one, or from 4, until it
\* is enough.
Grown(cap, need) ==
    LET doubled[c \in Nat \ {0}] == IF c >= need THEN c ELSE doubled[2 * c]
    IN IF cap >= need THEN cap ELSE doubled[IF cap = 0 THEN 4 ELSE cap]
=============================================================================
