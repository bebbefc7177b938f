---------------------------- MODULE ConditionEx ----------------------------
(***************************************************************************)
(* threads/conditionex.c: main hands file names to one worker thread       *)
(* through the struct `workertask', guarded by worker_lock.  The worker    *)
(* sleeps on workReady_cv while there is nothing to do; main signals it    *)
(* after it has released the lock.  With BUSY defined the worker polls and *)
(* nobody signals.                                                         *)
(*                                                                         *)
(* pthread_cond_wait releases the lock and starts to wait in one step, may *)
(* return without a signal, and takes the lock again before it returns.  A *)
(* signal that finds nobody waiting is lost.  The sleeps of main, and the  *)
(* text printfileinfo prints, are left out.                                *)
(*                                                                         *)
(* A definition preceded by a variant of itself (MainUnlock by             *)
(* MainUnlockWithoutSignal): the variant is a fault that nothing uses, see *)
(* README.md.                                                              *)
(***************************************************************************)
EXTENDS Naturals, Sequences

CONSTANTS Filenames,    \* what main passes to produce_work, over and over
          MaxCalls,     \* bound: calls of produce_work
          BUSY,         \* whether the program was built with -DBUSY
          NULL,         \* the null pointer
          NoThread      \* the owner of a free mutex

Files == {Filenames[k] : k \in DOMAIN Filenames}

ASSUME FilenamesAssumption == Filenames \in Seq(Files) /\ Len(Filenames) > 0
ASSUME MaxCallsAssumption == MaxCalls \in Nat
ASSUME BUSYAssumption == BUSY \in BOOLEAN
ASSUME NULLAssumption == NULL \notin Files
ASSUME NoThreadAssumption == NoThread \notin {"main", "worker"}

VARIABLES
    busy, filename,         \* workertask
    worker_lock,            \* the thread that holds it
    main_pc, worker_pc,
    calls,                  \* calls of produce_work that have returned
    accepted, printed,      \* history: names stored, names printed
    rejected                \* history: calls that found the worker busy

vars == <<busy, filename, worker_lock, main_pc, worker_pc, calls, accepted,
          printed, rejected>>

Init ==
    /\ busy = FALSE
    /\ filename = NULL
    /\ worker_lock = NoThread
    /\ main_pc = "lock"
    /\ worker_pc = "lock"
    /\ calls = 0
    /\ accepted = <<>>
    /\ printed = <<>>
    /\ rejected = 0

Take(t) == worker_lock = NoThread /\ worker_lock' = t
Release == worker_lock' = NoThread

-----------------------------------------------------------------------------
(* main: produce_work *)

\* The argument of the n-th call, counted from 0.
FileOf(n) == Filenames[(n % Len(Filenames)) + 1]

MainGoto(from, to) ==
    /\ main_pc = from
    /\ main_pc' = to

MainLock ==
    /\ calls < MaxCalls
    /\ Take("main")
    /\ MainGoto("lock", "test")
    /\ UNCHANGED <<busy, filename, worker_pc, calls, accepted, printed, rejected>>

\* if (workertask.busy)
MainTestIgnoringBusy ==
    /\ MainGoto("test", "set")
    /\ UNCHANGED <<busy, filename, worker_lock, worker_pc, calls, accepted, printed,
                   rejected>>
MainTest ==
    /\ MainGoto("test", IF busy THEN "reject" ELSE "set")
    /\ UNCHANGED <<busy, filename, worker_lock, worker_pc, calls, accepted, printed,
                   rejected>>

\* "sorry, worker is busy": the call gives the name up.
MainReject ==
    /\ MainGoto("reject", "lock")
    /\ Release
    /\ rejected' = rejected + 1
    /\ calls' = calls + 1
    /\ UNCHANGED <<busy, filename, worker_pc, accepted, printed>>

MainSet ==
    /\ MainGoto("set", "unlock")
    /\ busy' = TRUE
    /\ filename' = FileOf(calls)
    /\ accepted' = Append(accepted, FileOf(calls))
    /\ UNCHANGED <<worker_lock, worker_pc, calls, printed, rejected>>

\* With BUSY there is no signal to send: the call returns.
MainUnlockWithoutSignal ==
    /\ MainGoto("unlock", "lock")
    /\ Release
    /\ calls' = calls + 1
    /\ UNCHANGED <<busy, filename, worker_pc, accepted, printed, rejected>>
MainUnlock ==
    /\ MainGoto("unlock", IF BUSY THEN "lock" ELSE "signal")
    /\ Release
    /\ calls' = IF BUSY THEN calls + 1 ELSE calls
    /\ UNCHANGED <<busy, filename, worker_pc, accepted, printed, rejected>>

\* pthread_cond_signal(&workReady_cv)
MainSignal ==
    /\ MainGoto("signal", "lock")
    /\ worker_pc' = IF worker_pc = "waiting" THEN "relock" ELSE worker_pc
    /\ calls' = calls + 1
    /\ UNCHANGED <<busy, filename, worker_lock, accepted, printed, rejected>>

Main == MainLock \/ MainTest \/ MainReject \/ MainSet \/ MainUnlock \/ MainSignal

-----------------------------------------------------------------------------
(* worker_func *)

WorkerGoto(from, to) ==
    /\ worker_pc = from
    /\ worker_pc' = to

WorkerLock ==
    /\ Take("worker")
    /\ WorkerGoto("lock", "test")
    /\ UNCHANGED <<busy, filename, main_pc, calls, accepted, printed, rejected>>

\* if (workertask.busy) ... else, unless BUSY, pthread_cond_wait
WorkerTest ==
    /\ WorkerGoto("test", IF busy THEN "print" ELSE IF BUSY THEN "unlock" ELSE "wait")
    /\ UNCHANGED <<busy, filename, worker_lock, main_pc, calls, accepted, printed,
                   rejected>>

\* printfileinfo(workertask.filename), with the lock held
WorkerPrint ==
    /\ WorkerGoto("print", "clear")
    /\ printed' = Append(printed, filename)
    /\ UNCHANGED <<busy, filename, worker_lock, main_pc, calls, accepted, rejected>>

WorkerClearForgotten ==
    /\ WorkerGoto("clear", "unlock")
    /\ UNCHANGED <<busy, filename, worker_lock, main_pc, calls, accepted, printed,
                   rejected>>
WorkerClear ==
    /\ WorkerGoto("clear", "unlock")
    /\ busy' = FALSE
    /\ UNCHANGED <<filename, worker_lock, main_pc, calls, accepted, printed, rejected>>

WorkerWait ==
    /\ WorkerGoto("wait", "waiting")
    /\ Release
    /\ UNCHANGED <<busy, filename, main_pc, calls, accepted, printed, rejected>>

\* pthread_cond_wait returns with the lock.
WorkerRelock ==
    /\ Take("worker")
    /\ WorkerGoto("relock", "unlock")
    /\ UNCHANGED <<busy, filename, main_pc, calls, accepted, printed, rejected>>

WorkerUnlock ==
    /\ WorkerGoto("unlock", "lock")
    /\ Release
    /\ UNCHANGED <<busy, filename, main_pc, calls, accepted, printed, rejected>>

Worker ==
    \/ WorkerLock \/ WorkerTest \/ WorkerPrint \/ WorkerClear
    \/ WorkerWait \/ WorkerRelock \/ WorkerUnlock

\* A wakeup nobody sent.
SpuriousWakeup ==
    /\ WorkerGoto("waiting", "relock")
    /\ UNCHANGED <<busy, filename, worker_lock, main_pc, calls, accepted, printed,
                   rejected>>

Next == Main \/ Worker \/ SpuriousWakeup

\* Both threads run when they can.  The worker gets the lock although main takes
\* it again and again: main sleeps a second after every third call.  No wakeup
\* but main's can be counted on.
Fairness ==
    /\ WF_vars(Main)
    /\ WF_vars(Worker)
    /\ SF_vars(WorkerLock)
    /\ SF_vars(WorkerRelock)

Spec == Init /\ [][Next]_vars /\ Fairness

-----------------------------------------------------------------------------
(* Properties *)

\* The type invariant.
TypeOK ==
    /\ busy \in BOOLEAN
    /\ filename \in Files \cup {NULL}
    /\ worker_lock \in {"main", "worker", NoThread}
    /\ main_pc \in {"lock", "test", "reject", "set", "unlock", "signal"}
    /\ worker_pc \in {"lock", "test", "print", "clear", "wait", "waiting", "relock",
                      "unlock"}
    /\ calls \in 0 .. MaxCalls
    /\ accepted \in Seq(Files)
    /\ printed \in Seq(Files)
    /\ rejected \in Nat

\* The worker never sleeps on a task: if one was stored while it waits, the
\* signal for it is still to come.
NoLostWakeup == worker_pc = "waiting" /\ busy => main_pc \in {"unlock", "signal"}

\* The task that was accepted and not yet printed, if there is one.
Pending == IF busy /\ worker_pc # "clear" THEN filename ELSE NULL

\* Every accepted name is printed once, and in the order of the calls.
PrintedOnceInOrder ==
    accepted = IF Pending = NULL THEN printed ELSE Append(printed, Pending)

\* The struct, the lock and the condition variable are a one-place mailbox: a
\* name is turned away only while an earlier one waits to be printed, and every
\* accepted name is printed eventually.
MB == INSTANCE Mailbox WITH Empty <- NULL, slot <- Pending
ImplementsMailbox == MB!Spec

=============================================================================
