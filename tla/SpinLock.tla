------------------------------ MODULE SpinLock ------------------------------
(***************************************************************************)
(* The spin lock of threads/spinlocks.c, used by threads that repeat       *)
(* lock(); critical section; unlock().  The file has no caller of its own: *)
(* the loop around the two calls, whose critical section increments a      *)
(* shared counter, is the use a lock is for.                               *)
(*                                                                         *)
(* The comment on test_and_set says `atomic'; its body is a load and a     *)
(* store, and nothing keeps another thread from running between them.  The *)
(* history variable `interrupted' says whether that has happened: until    *)
(* then the lock is what the comment promises.                             *)
(*                                                                         *)
(* A definition preceded by a variant of itself (Store by StoreNothing):   *)
(* the variant is a fault that nothing uses, see README.md.                *)
(***************************************************************************)
EXTENDS Naturals

CONSTANTS Threads,
          MaxRounds     \* bound: how often each thread takes the lock

ASSUME MaxRoundsAssumption == MaxRounds \in Nat

VARIABLES thelock,      \* *thelock
          initial,      \* test_and_set's local, one per thread
          pc,
          rounds,       \* how often each thread has left its critical section
          counter,      \* shared data, incremented in the critical section
          copy,         \* the value of counter a thread has loaded
          interrupted   \* history: an access to the lock fell between the load
                        \* and the store of another thread's test_and_set

vars == <<thelock, initial, pc, rounds, counter, copy, interrupted>>

Init ==
    /\ thelock = FALSE
    /\ initial = [t \in Threads |-> FALSE]
    /\ pc = [t \in Threads |-> "idle"]
    /\ rounds = [t \in Threads |-> 0]
    /\ counter = 0
    /\ copy = [t \in Threads |-> 0]
    /\ interrupted = FALSE

Goto(t, from, to) ==
    /\ pc[t] = from
    /\ pc' = [pc EXCEPT ![t] = to]

\* Thread t touches the lock: does it come between two halves of another's?
Access(t) ==
    interrupted' = (interrupted \/ \E u \in Threads \ {t} : pc[u] = "store")

\* lock() is called.
Call(t) ==
    /\ rounds[t] < MaxRounds
    /\ Goto(t, "idle", "load")
    /\ UNCHANGED <<thelock, initial, rounds, counter, copy, interrupted>>

\* bool initial = *thelock
LoadFreeAlways(t) ==
    /\ Goto(t, "load", "store")
    /\ initial' = [initial EXCEPT ![t] = FALSE]
    /\ Access(t)
    /\ UNCHANGED <<thelock, rounds, counter, copy>>
Load(t) ==
    /\ Goto(t, "load", "store")
    /\ initial' = [initial EXCEPT ![t] = thelock]
    /\ Access(t)
    /\ UNCHANGED <<thelock, rounds, counter, copy>>

\* *thelock = true
StoreNothing(t) ==
    /\ Goto(t, "store", "test")
    /\ Access(t)
    /\ UNCHANGED <<thelock, initial, rounds, counter, copy>>
Store(t) ==
    /\ Goto(t, "store", "test")
    /\ thelock' = TRUE
    /\ Access(t)
    /\ UNCHANGED <<initial, rounds, counter, copy>>

\* while (test_and_set(thelock) == 1): spin, or return from lock()
Test(t) ==
    /\ Goto(t, "test", IF initial[t] THEN "load" ELSE "read")
    /\ UNCHANGED <<thelock, initial, rounds, counter, copy, interrupted>>

\* The critical section reads the shared counter and writes it back, plus one.
Read(t) ==
    /\ Goto(t, "read", "write")
    /\ copy' = [copy EXCEPT ![t] = counter]
    /\ UNCHANGED <<thelock, initial, rounds, counter, interrupted>>

Write(t) ==
    /\ Goto(t, "write", "unlock")
    /\ counter' = copy[t] + 1
    /\ UNCHANGED <<thelock, initial, rounds, copy, interrupted>>

\* *thelock = false
UnlockForgotten(t) ==
    /\ Goto(t, "unlock", "idle")
    /\ rounds' = [rounds EXCEPT ![t] = @ + 1]
    /\ Access(t)
    /\ UNCHANGED <<thelock, initial, counter, copy>>
Unlock(t) ==
    /\ Goto(t, "unlock", "idle")
    /\ thelock' = FALSE
    /\ rounds' = [rounds EXCEPT ![t] = @ + 1]
    /\ Access(t)
    /\ UNCHANGED <<initial, counter, copy>>

Thread(t) ==
    \/ Call(t) \/ Load(t) \/ Store(t) \/ Test(t)
    \/ Read(t) \/ Write(t) \/ Unlock(t)

AllDone == \A t \in Threads : pc[t] = "idle" /\ rounds[t] = MaxRounds

Next == (\E t \in Threads : Thread(t)) \/ (AllDone /\ UNCHANGED vars)

\* The scheduler runs every runnable thread; a spinning thread is runnable.
Spec == Init /\ [][Next]_vars /\ \A t \in Threads : WF_vars(Thread(t))

-----------------------------------------------------------------------------
(* Properties *)

PCs == {"idle", "load", "store", "test", "read", "write", "unlock"}

\* The type invariant.
TypeOK ==
    /\ thelock \in BOOLEAN
    /\ initial \in [Threads -> BOOLEAN]
    /\ pc \in [Threads -> PCs]
    /\ rounds \in [Threads -> 0 .. MaxRounds]
    /\ counter \in Nat
    /\ copy \in [Threads -> Nat]
    /\ interrupted \in BOOLEAN

Inside(t) == pc[t] \in {"read", "write", "unlock"}

\* A thread that has stored TRUE over a FALSE owns the lock.
Owner(t) == Inside(t) \/ (pc[t] = "test" /\ ~initial[t])

\* What the comment `atomic' promises of lock() and unlock(): at most one
\* thread is between the two.
MutualExclusion == \A t, u \in Threads : Inside(t) /\ Inside(u) => t = u

\* The interruption of test_and_set is the only way to break the lock: without
\* one, two threads are never inside.
ExclusiveUnlessInterrupted == interrupted \/ MutualExclusion

\* Nor is the lock ever left taken by nobody, or free while it is owned.
TakenIffOwned == interrupted \/ (thelock <=> \E t \in Threads : Owner(t))

\* Nor is an increment made under the lock lost.
NoLostUpdate ==
    [][\A t \in Threads : Write(t) /\ ~interrupted => counter' = counter + 1]_vars

\* Nor does a thread spin forever: everybody gets all of its rounds.
EveryRoundEnds == <>(AllDone \/ interrupted)

=============================================================================
