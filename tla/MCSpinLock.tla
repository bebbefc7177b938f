----------------------------- MODULE MCSpinLock -----------------------------
(* SpinLock for TLC: two or three threads. *)
EXTENDS SpinLock

CONSTANTS t1, t2, t3

MCThreads == {t1, t2, t3}
MCTwoThreads == {t1, t2}

=============================================================================
