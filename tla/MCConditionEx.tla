--------------------------- MODULE MCConditionEx ---------------------------
(* ConditionEx for TLC: the three names that main passes in turn. *)
EXTENDS ConditionEx

CONSTANTS f1, f2, f3

MCFilenames == <<f1, f2, f3>>

=============================================================================
