---------------------------- MODULE BarrierRounds ----------------------------
(* threads/barriers.c: main and NUMTHREADS workers meet at a barrier.  Main   *)
(* leaves after five rounds, which ends the process; the workers have no end. *)
EXTENDS Naturals, FiniteSets

CONSTANTS
    BarrierWorkers, \* the threads main creates
    BarrierMain,    \* main
    Rounds          \* rounds of main: 5 in the code

VARIABLES
    waiting,        \* threads blocked in pthread_barrier_wait
    released,       \* threads the barrier has let go, not yet back
    passed          \* times each thread has come through: counter, and i of main

barrierVars == <<waiting, released, passed>>

Parties == BarrierWorkers \cup {BarrierMain}

Init ==
    /\ waiting = {}
    /\ released = {}
    /\ passed = [t \in Parties |-> 0]

\* The count given to pthread_barrier_init: NUMTHREADS + 1.
BarrierCountOfWorkers == Cardinality(BarrierWorkers)
BarrierCount == Cardinality(BarrierWorkers) + 1

Running == passed[BarrierMain] < Rounds

\* pthread_barrier_wait: the last of BarrierCount threads releases them all.
Arrive(t) ==
    /\ Running
    /\ t \notin waiting \cup released
    /\ IF Cardinality(waiting) + 1 = BarrierCount
          THEN /\ waiting' = {}
               /\ released' = released \cup waiting \cup {t}
          ELSE /\ waiting' = waiting \cup {t}
               /\ UNCHANGED released
    /\ UNCHANGED passed

WorkerArrive == \E t \in BarrierWorkers : Arrive(t)
MainArrive == Arrive(BarrierMain)

Go(t) ==
    /\ Running
    /\ t \in released
    /\ released' = released \ {t}
    /\ passed' = [passed EXCEPT ![t] = @ + 1]
    /\ UNCHANGED waiting

WorkerGo == \E t \in BarrierWorkers : Go(t)
MainGo == Go(BarrierMain)

Exited == ~Running /\ UNCHANGED barrierVars

Next == WorkerArrive \/ MainArrive \/ WorkerGo \/ MainGo \/ Exited

Spec == Init /\ [][Next]_barrierVars

-----------------------------------------------------------------------------
(* No thread starts a round before every other has gone through the one      *)
(* before it, although released threads return to the barrier in any order   *)
(* and the barrier is used again at once (barriers.c:23-28, 42-47).          *)
RoundsTogether ==
    \A t, u \in Parties : passed[t] <= passed[u] + 1
=============================================================================
