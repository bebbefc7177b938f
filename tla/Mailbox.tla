------------------------------ MODULE Mailbox ------------------------------
(***************************************************************************)
(* What the hand-over of threads/conditionex.c promises: a task is either  *)
(* accepted into a one-place box or, when an earlier task is still in it,  *)
(* turned away.  An accepted task is worked on once, and eventually.       *)
(***************************************************************************)
EXTENDS Naturals, Sequences

CONSTANTS Files,    \* the tasks
          Empty     \* what an empty box holds

VARIABLES slot,       \* the task in the box
          accepted,   \* tasks taken in, in order
          printed,    \* tasks worked on, in order
          rejected    \* how many tasks were turned away

vars == <<slot, accepted, printed, rejected>>

Init ==
    /\ slot = Empty
    /\ accepted = <<>>
    /\ printed = <<>>
    /\ rejected = 0

Accept ==
    /\ slot = Empty
    /\ \E f \in Files : slot' = f /\ accepted' = Append(accepted, f)
    /\ UNCHANGED <<printed, rejected>>

Reject ==
    /\ slot # Empty
    /\ rejected' = rejected + 1
    /\ UNCHANGED <<slot, accepted, printed>>

Work ==
    /\ slot # Empty
    /\ printed' = Append(printed, slot)
    /\ slot' = Empty
    /\ UNCHANGED <<accepted, rejected>>

Next == Accept \/ Reject \/ Work

Spec == Init /\ [][Next]_vars /\ WF_vars(Work)

=============================================================================
