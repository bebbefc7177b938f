------------------------------ MODULE SharedSum ------------------------------
(* threads/pthreadex.c: two threads add 0, 1, ... BIG - 1 to one sum, under a  *)
(* lock; and threads/pthreadex3.c: each to a sum of its own, without a lock,  *)
(* which main adds up at the end.  Sums are unsigned and wrap: BIG is 10^10   *)
(* in pthreadex3.c, so each of its sums exceeds 2^64.                         *)
EXTENDS Integers, FiniteSets, Functions

CONSTANTS
    Adders,         \* the threads main creates
    Big,            \* BIG
    Width,          \* bits of a sum: 64 in the code
    NoAdder         \* nobody holds the lock

Modulus == 2 ^ Width

VARIABLES
    shared,         \* TRUE: pthreadex.c
    sum,            \* the sums in memory; pthreadex.c uses only one of them
    myfancylock,
    i,              \* each thread's loop counter
    read,           \* what each thread has read of its sum
    step,           \* where each thread is in the loop
    printed         \* the result main prints, -1 before

sumVars == <<shared, sum, myfancylock, i, read, step, printed>>

Init ==
    /\ shared \in BOOLEAN
    /\ sum = [t \in Adders |-> 0]
    /\ myfancylock = NoAdder
    /\ i = [t \in Adders |-> 0]
    /\ read = [t \in Adders |-> 0]
    /\ step = [t \in Adders |-> "loop"]
    /\ printed = -1

\* The sum that thread t adds to.
SubsumOne(t) == CHOOSE u \in Adders : TRUE
Subsum(t) == IF shared THEN CHOOSE u \in Adders : TRUE ELSE t

Goes(t, from, to) == step[t] = from /\ step' = [step EXCEPT ![t] = to]

Lock(t) ==
    /\ shared
    /\ i[t] < Big
    /\ myfancylock = NoAdder
    /\ Goes(t, "loop", "read")
    /\ myfancylock' = t
    /\ UNCHANGED <<shared, sum, i, read, printed>>

StartUnlocked(t) ==
    /\ ~shared
    /\ i[t] < Big
    /\ Goes(t, "loop", "read")
    /\ UNCHANGED <<shared, sum, myfancylock, i, read, printed>>

\* sum += i is a read and a write.
ReadSum(t) ==
    /\ Goes(t, "read", "write")
    /\ read' = [read EXCEPT ![t] = sum[Subsum(t)]]
    /\ UNCHANGED <<shared, sum, myfancylock, i, printed>>

WriteSum(t) ==
    /\ Goes(t, "write", "next")
    /\ sum' = [sum EXCEPT ![Subsum(t)] = (read[t] + i[t]) % Modulus]
    /\ UNCHANGED <<shared, myfancylock, i, read, printed>>

Unlock(t) ==
    /\ Goes(t, "next", "loop")
    /\ myfancylock' = IF shared THEN NoAdder ELSE myfancylock
    /\ i' = [i EXCEPT ![t] = @ + 1]
    /\ UNCHANGED <<shared, sum, read, printed>>

\* The thread function returns.
Return(t) ==
    /\ i[t] = Big
    /\ Goes(t, "loop", "ended")
    /\ UNCHANGED <<shared, sum, myfancylock, i, read, printed>>

\* main joins every thread before it prints.
Joined == \A t \in Adders : step[t] = "ended"

MainPrint ==
    /\ printed = -1
    /\ Joined
    /\ printed' = FoldFunction(+, 0, sum) % Modulus
    /\ UNCHANGED <<shared, sum, myfancylock, i, read, step>>

Exited == printed # -1 /\ UNCHANGED sumVars

Next ==
    \/ \E t \in Adders :
          \/ Lock(t) \/ StartUnlocked(t) \/ ReadSum(t) \/ WriteSum(t)
          \/ Unlock(t) \/ Return(t)
    \/ MainPrint
    \/ Exited

Spec == Init /\ [][Next]_sumVars

-----------------------------------------------------------------------------
(* The program prints what the loops of all threads add up to, modulo the    *)
(* width of a sum: no addition is lost to another thread, and main does not  *)
(* print before the last one (pthreadex.c:13-24, 47-49; pthreadex3.c:50-53). *)
SumComplete ==
    printed # -1 =>
        printed = (Cardinality(Adders) * ((Big * (Big - 1)) \div 2)) % Modulus
=============================================================================
