------------------------- MODULE ConditionExProofs -------------------------
(***************************************************************************)
(* The safety of ConditionEx for any list of names and any number of       *)
(* calls, with and without BUSY.                                           *)
(***************************************************************************)
EXTENDS ConditionEx, TLAPS

\* Who holds the lock, and what is known of `busy' while it is held.
LockInv ==
    /\ worker_lock = "main" <=> main_pc \in {"test", "reject", "set", "unlock"}
    /\ worker_lock = "worker"
         <=> worker_pc \in {"test", "print", "clear", "wait", "unlock"}

BusyInv ==
    /\ main_pc = "reject" => busy
    /\ main_pc = "set" => ~busy
    /\ worker_pc \in {"print", "clear"} => busy
    /\ worker_pc = "wait" => ~busy
    /\ busy => filename \in Files

\* The polling build never waits; a call that is under way is not the last.
ModeInv ==
    /\ BUSY => worker_pc \notin {"wait", "waiting", "relock"}
    /\ main_pc # "lock" => calls < MaxCalls

IInv ==
    /\ TypeOK /\ LockInv /\ BusyInv /\ ModeInv
    /\ NoLostWakeup /\ PrintedOnceInOrder

\* Every argument of produce_work is one of the names.
LEMMA FileOfType == \A n \in Nat : FileOf(n) \in Files
<1> TAKE n \in Nat
<1>1. Len(Filenames) \in Nat \ {0} /\ DOMAIN Filenames = 1 .. Len(Filenames)
  BY FilenamesAssumption
<1>2. (n % Len(Filenames)) + 1 \in DOMAIN Filenames
  BY <1>1
<1>3. QED
  BY <1>2 DEF FileOf, Files

LEMMA InitIInv == Init => IInv
<1> SUFFICES ASSUME Init PROVE IInv
  OBVIOUS
<1>1. TypeOK
  <2>1. calls \in 0 .. MaxCalls /\ rejected \in Nat
    BY MaxCallsAssumption DEF Init
  <2>2. accepted \in Seq(Files) /\ printed \in Seq(Files)
    BY DEF Init
  <2>3. QED
    BY <2>1, <2>2 DEF Init, TypeOK
<1>2. LockInv /\ BusyInv /\ ModeInv
  BY NoThreadAssumption DEF Init, LockInv, BusyInv, ModeInv
<1>3. NoLostWakeup /\ PrintedOnceInOrder
  BY DEF Init, NoLostWakeup, PrintedOnceInOrder, Pending
<1>4. QED
  BY <1>1, <1>2, <1>3 DEF IInv

LEMMA NextIInv == IInv /\ [Next]_vars => IInv'
<1> SUFFICES ASSUME IInv, [Next]_vars PROVE IInv'
  OBVIOUS
<1> USE DEF IInv
<1>1. CASE UNCHANGED vars
  BY <1>1 DEF vars, TypeOK, LockInv, BusyInv, ModeInv, NoLostWakeup,
              PrintedOnceInOrder, Pending
<1>2. CASE MainLock
  <2> USE <1>2, NoThreadAssumption DEF MainLock, MainGoto, Take
  <2>1. TypeOK' /\ LockInv' /\ BusyInv' /\ ModeInv'
    BY DEF TypeOK, LockInv, BusyInv, ModeInv
  <2>2. NoLostWakeup' /\ PrintedOnceInOrder'
    BY DEF NoLostWakeup, PrintedOnceInOrder, Pending
  <2>3. QED
    BY <2>1, <2>2
<1>3. CASE MainTest
  <2> USE <1>3 DEF MainTest, MainGoto
  <2>1. TypeOK' /\ LockInv' /\ BusyInv' /\ ModeInv'
    BY DEF TypeOK, LockInv, BusyInv, ModeInv
  <2>2. NoLostWakeup' /\ PrintedOnceInOrder'
    BY DEF NoLostWakeup, PrintedOnceInOrder, Pending
  <2>3. QED
    BY <2>1, <2>2
<1>4. CASE MainReject
  <2> USE <1>4, NoThreadAssumption, MaxCallsAssumption DEF MainReject, MainGoto, Release
  <2>1. TypeOK' /\ LockInv' /\ BusyInv' /\ ModeInv'
    BY DEF TypeOK, LockInv, BusyInv, ModeInv
  <2>2. NoLostWakeup' /\ PrintedOnceInOrder'
    BY DEF NoLostWakeup, PrintedOnceInOrder, Pending
  <2>3. QED
    BY <2>1, <2>2
<1>5. CASE MainSet
  <2> USE <1>5 DEF MainSet, MainGoto
  <2>1. FileOf(calls) \in Files /\ FileOf(calls) # NULL
    BY FileOfType, NULLAssumption DEF TypeOK
  <2>2. worker_pc \notin {"test", "print", "clear", "wait", "unlock"} /\ ~busy
    BY DEF LockInv, BusyInv
  <2>3. TypeOK' /\ LockInv' /\ BusyInv' /\ ModeInv'
    BY <2>1, <2>2 DEF TypeOK, LockInv, BusyInv, ModeInv
  <2>4. NoLostWakeup'
    BY DEF NoLostWakeup
  <2>5. PrintedOnceInOrder'
    BY <2>1, <2>2 DEF PrintedOnceInOrder, Pending
  <2>6. QED
    BY <2>3, <2>4, <2>5
<1>6. CASE MainUnlock
  <2> USE <1>6, NoThreadAssumption, MaxCallsAssumption DEF MainUnlock, MainGoto, Release
  <2>1. TypeOK' /\ LockInv' /\ BusyInv' /\ ModeInv'
    BY DEF TypeOK, LockInv, BusyInv, ModeInv
  <2>2. NoLostWakeup' /\ PrintedOnceInOrder'
    BY DEF NoLostWakeup, ModeInv, PrintedOnceInOrder, Pending
  <2>3. QED
    BY <2>1, <2>2
<1>7. CASE MainSignal
  <2> USE <1>7, MaxCallsAssumption DEF MainSignal, MainGoto
  <2>1. TypeOK' /\ LockInv' /\ BusyInv' /\ ModeInv'
    BY DEF TypeOK, LockInv, BusyInv, ModeInv
  <2>2. NoLostWakeup' /\ PrintedOnceInOrder'
    BY DEF NoLostWakeup, PrintedOnceInOrder, Pending
  <2>3. QED
    BY <2>1, <2>2
<1>8. CASE WorkerLock \/ WorkerRelock
  <2> USE <1>8, NoThreadAssumption DEF WorkerLock, WorkerRelock, WorkerGoto, Take
  <2>1. TypeOK' /\ LockInv' /\ BusyInv' /\ ModeInv'
    BY DEF TypeOK, LockInv, BusyInv, ModeInv
  <2>2. NoLostWakeup' /\ PrintedOnceInOrder'
    BY DEF NoLostWakeup, PrintedOnceInOrder, Pending
  <2>3. QED
    BY <2>1, <2>2
<1>9. CASE WorkerTest
  <2> USE <1>9 DEF WorkerTest, WorkerGoto
  <2>1. TypeOK' /\ LockInv' /\ BusyInv' /\ ModeInv'
    BY DEF TypeOK, LockInv, BusyInv, ModeInv
  <2>2. NoLostWakeup' /\ PrintedOnceInOrder'
    BY DEF NoLostWakeup, PrintedOnceInOrder, Pending
  <2>3. QED
    BY <2>1, <2>2
<1>10. CASE WorkerPrint
  <2> USE <1>10 DEF WorkerPrint, WorkerGoto
  <2>1. busy /\ filename \in Files /\ filename # NULL
    BY NULLAssumption DEF BusyInv
  <2>2. TypeOK' /\ LockInv' /\ BusyInv' /\ ModeInv'
    BY <2>1 DEF TypeOK, LockInv, BusyInv, ModeInv
  <2>3. NoLostWakeup' /\ PrintedOnceInOrder'
    BY <2>1 DEF NoLostWakeup, PrintedOnceInOrder, Pending
  <2>4. QED
    BY <2>2, <2>3
<1>11. CASE WorkerClear
  <2> USE <1>11 DEF WorkerClear, WorkerGoto
  <2>1. main_pc \notin {"test", "reject", "set", "unlock"}
    BY DEF LockInv, TypeOK
  <2>2. TypeOK' /\ LockInv' /\ BusyInv' /\ ModeInv'
    BY <2>1 DEF TypeOK, LockInv, BusyInv, ModeInv
  <2>3. NoLostWakeup' /\ PrintedOnceInOrder'
    BY DEF NoLostWakeup, PrintedOnceInOrder, Pending
  <2>4. QED
    BY <2>2, <2>3
<1>12. CASE WorkerWait
  <2> USE <1>12, NoThreadAssumption DEF WorkerWait, WorkerGoto, Release
  <2>1. TypeOK' /\ LockInv' /\ BusyInv' /\ ModeInv'
    BY DEF TypeOK, LockInv, BusyInv, ModeInv
  <2>2. NoLostWakeup' /\ PrintedOnceInOrder'
    BY DEF BusyInv, NoLostWakeup, PrintedOnceInOrder, Pending
  <2>3. QED
    BY <2>1, <2>2
<1>13. CASE WorkerUnlock
  <2> USE <1>13, NoThreadAssumption DEF WorkerUnlock, WorkerGoto, Release
  <2>1. TypeOK' /\ LockInv' /\ BusyInv' /\ ModeInv'
    BY DEF TypeOK, LockInv, BusyInv, ModeInv
  <2>2. NoLostWakeup' /\ PrintedOnceInOrder'
    BY DEF NoLostWakeup, PrintedOnceInOrder, Pending
  <2>3. QED
    BY <2>1, <2>2
<1>14. CASE SpuriousWakeup
  <2> USE <1>14 DEF SpuriousWakeup, WorkerGoto
  <2>1. TypeOK' /\ LockInv' /\ BusyInv' /\ ModeInv'
    BY DEF TypeOK, LockInv, BusyInv, ModeInv
  <2>2. NoLostWakeup' /\ PrintedOnceInOrder'
    BY DEF NoLostWakeup, PrintedOnceInOrder, Pending
  <2>3. QED
    BY <2>1, <2>2
<1>15. QED
  BY <1>1, <1>2, <1>3, <1>4, <1>5, <1>6, <1>7, <1>8, <1>9, <1>10, <1>11, <1>12,
     <1>13, <1>14
  DEF Next, Main, Worker

\* No wakeup is ever lost, and every accepted name is printed once and in order.
THEOREM Safe == Spec => [](TypeOK /\ NoLostWakeup /\ PrintedOnceInOrder)
<1>1. IInv => TypeOK /\ NoLostWakeup /\ PrintedOnceInOrder
  BY DEF IInv
<1>2. QED
  BY InitIInv, NextIInv, <1>1, PTL DEF Spec

\* While a name waits and the worker sleeps, main is about to signal
\* (conditionex.c:48-64, 81-88).
THEOREM LosesNoWakeup == Spec => []NoLostWakeup
<1>1. IInv => NoLostWakeup
  BY DEF IInv
<1>2. QED
  BY InitIInv, NextIInv, <1>1, PTL DEF Spec

\* The program is a one-place mailbox: only MainSet, MainReject and WorkerPrint
\* are visible, and each is the step of the mailbox it stands for.
THEOREM ImplementsMailboxSafely == Spec => MB!Init /\ [][MB!Next]_(MB!vars)
<1>1. Init => MB!Init
  BY DEF Init, MB!Init, Pending
<1>2. IInv /\ [Next]_vars => [MB!Next]_(MB!vars)
  <2> SUFFICES ASSUME IInv, [Next]_vars PROVE [MB!Next]_(MB!vars)
    OBVIOUS
  <2> USE DEF IInv
  <2>1. CASE MainSet
    <3>1. FileOf(calls) \in Files /\ FileOf(calls) # NULL
      BY FileOfType, NULLAssumption DEF TypeOK
    <3>2. ~busy /\ worker_pc # "clear"
      BY <2>1 DEF MainSet, MainGoto, BusyInv
    <3>3. Pending = NULL /\ Pending' = FileOf(calls)
      BY <2>1, <3>2 DEF MainSet, MainGoto, Pending
    <3>4. QED
      BY <2>1, <3>1, <3>3 DEF MainSet, MB!Next, MB!Accept
  <2>2. CASE MainReject
    <3>1. busy /\ worker_pc # "clear" /\ filename # NULL
      BY <2>2, NULLAssumption DEF MainReject, MainGoto, LockInv, BusyInv
    <3>2. QED
      BY <2>2, <3>1 DEF MainReject, Pending, MB!Next, MB!Reject
  <2>3. CASE WorkerPrint
    <3>1. busy /\ filename # NULL
      BY <2>3, NULLAssumption DEF WorkerPrint, WorkerGoto, BusyInv
    <3>2. QED
      BY <2>3, <3>1 DEF WorkerPrint, WorkerGoto, Pending, MB!Next, MB!Work
  <2>4. CASE WorkerClear
    BY <2>4 DEF WorkerClear, WorkerGoto, Pending, MB!vars
  <2>5. CASE MainLock \/ MainTest \/ MainUnlock
    BY <2>5 DEF MainLock, MainTest, MainUnlock, Pending, MB!vars
  <2>6. CASE MainSignal
    BY <2>6 DEF MainSignal, Pending, MB!vars
  <2>7. CASE WorkerLock \/ WorkerTest \/ WorkerWait \/ WorkerRelock \/ WorkerUnlock
    BY <2>7 DEF WorkerLock, WorkerTest, WorkerWait, WorkerRelock, WorkerUnlock,
                WorkerGoto, LockInv, BusyInv, Pending, MB!vars
  <2>8. CASE SpuriousWakeup \/ UNCHANGED vars
    BY <2>8 DEF SpuriousWakeup, WorkerGoto, vars, Pending, MB!vars
  <2>9. QED
    BY <2>1, <2>2, <2>3, <2>4, <2>5, <2>6, <2>7, <2>8 DEF Next, Main, Worker
<1>3. QED
  BY InitIInv, NextIInv, <1>1, <1>2, PTL DEF Spec

=============================================================================
