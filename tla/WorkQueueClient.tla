--------------------------- MODULE WorkQueueClient ---------------------------
(* project2/test.c, the test of the work queue that project2/workqueue.h      *)
(* declares and students implement: main submits NUMTASKS tasks to a smaller  *)
(* queue, waits for them and looks at what they counted.                      *)
(*                                                                            *)
(* The queue itself is external: jobs leave it in order, wq_submit waits for  *)
(* room, wq_wait for the end of every job whose id it is given.               *)
EXTENDS Naturals, Sequences

CONSTANTS
    QueueWorkers,   \* threads of the queue: NUMTHREADS of them
    NUMTASKS,
    CAPACITY,
    NoTask          \* neither a task nor a holder of the lock

Tasks == 0..NUMTASKS - 1

VARIABLES
    main,           \* "create", "submit", "wait", or main's verdict
    submitted,      \* main's i, and the ids it has got
    queue,          \* jobs submitted and not taken
    job,            \* the job each worker runs
    place,          \* where each worker is in taskfunc
    mainlock,       \* holder of __mainlock
    counter,
    loaded,         \* counter as a worker has read it
    finished,       \* jobs that have ended
    arguments       \* arguments allocated and not freed

workVars == <<main, submitted, queue, job, place, mainlock, counter, loaded,
              finished, arguments>>
taskVars == <<job, place, mainlock, counter, loaded, finished>>

Init ==
    /\ main = "create"
    /\ submitted = 0
    /\ queue = <<>>
    /\ job = [w \in QueueWorkers |-> NoTask]
    /\ place = [w \in QueueWorkers |-> "idle"]
    /\ mainlock = NoTask
    /\ counter = 0
    /\ loaded = [w \in QueueWorkers |-> 0]
    /\ finished = {}
    /\ arguments = {}

-----------------------------------------------------------------------------
(* main *)

MainCreate ==
    /\ main = "create"
    /\ main' = "submit"
    /\ UNCHANGED <<submitted, queue, arguments, taskVars>>

\* wq_create returned NULL: a fatal TEST.
MainCreateFails ==
    /\ main = "create"
    /\ main' = "failed"
    /\ UNCHANGED <<submitted, queue, arguments, taskVars>>

HasRoom == Len(queue) < CAPACITY

\* An argument of its own for each task, and wq_submit, which may block.
MainSubmit ==
    /\ main = "submit"
    /\ submitted < NUMTASKS
    /\ HasRoom
    /\ arguments' = arguments \cup {submitted}
    /\ queue' = Append(queue, submitted)
    /\ submitted' = submitted + 1
    /\ UNCHANGED <<main, taskVars>>

MainSubmittedAll ==
    /\ main = "submit"
    /\ submitted = NUMTASKS
    /\ main' = "wait"
    /\ UNCHANGED <<submitted, queue, arguments, taskVars>>

\* wq_wait(myworkqueue, taskids, NUMTASKS)
Awaited == Tasks

Verdict ==
    IF counter = NUMTASKS THEN "matches"
    ELSE IF counter > NUMTASKS THEN "more"
    ELSE IF counter > 0 THEN "fewer" ELSE "none"

MainJudge ==
    /\ main = "wait"
    /\ Awaited \subseteq finished
    /\ main' = Verdict
    /\ UNCHANGED <<submitted, queue, arguments, taskVars>>

Running == main \in {"submit", "wait"}

-----------------------------------------------------------------------------
(* A worker of the queue, and taskfunc *)

Goes(w, from, to) == place[w] = from /\ place' = [place EXCEPT ![w] = to]

Take(w) ==
    /\ Running
    /\ queue # <<>>
    /\ Goes(w, "idle", "test")
    /\ job' = [job EXCEPT ![w] = Head(queue)]
    /\ queue' = Tail(queue)
    /\ UNCHANGED <<main, submitted, mainlock, counter, loaded, finished, arguments>>

\* The TESTs of the argument and of the thread only print.
TestArgument(w) ==
    /\ Running
    /\ Goes(w, "test", "lock")
    /\ UNCHANGED <<main, submitted, queue, job, mainlock, counter, loaded,
                   finished, arguments>>

\* pthread_mutex_lock waits for the holder.
LockFreeAlways == TRUE
LockFree == mainlock = NoTask

LockCounter(w) ==
    /\ Running
    /\ LockFree
    /\ Goes(w, "lock", "load")
    /\ mainlock' = job[w]
    /\ UNCHANGED <<main, submitted, queue, job, counter, loaded, finished, arguments>>

LoadCounter(w) ==
    /\ Running
    /\ Goes(w, "load", "store")
    /\ loaded' = [loaded EXCEPT ![w] = counter]
    /\ UNCHANGED <<main, submitted, queue, job, mainlock, counter, finished, arguments>>

StoreCounter(w) ==
    /\ Running
    /\ Goes(w, "store", "free")
    /\ counter' = loaded[w] + 1
    /\ mainlock' = NoTask
    /\ UNCHANGED <<main, submitted, queue, job, loaded, finished, arguments>>

FreeArgument(w) ==
    /\ Running
    /\ Goes(w, "free", "return")
    /\ arguments' = arguments \ {job[w]}
    /\ UNCHANGED <<main, submitted, queue, job, mainlock, counter, loaded, finished>>

\* taskfunc has returned: the queue counts the job as done.
Finish(w) ==
    /\ Running
    /\ Goes(w, "return", "idle")
    /\ finished' = finished \cup {job[w]}
    /\ job' = [job EXCEPT ![w] = NoTask]
    /\ UNCHANGED <<main, submitted, queue, mainlock, counter, loaded, arguments>>

-----------------------------------------------------------------------------
\* main has returned, which ends the process and the workers.
Exited == main \notin {"create", "submit", "wait"} /\ UNCHANGED workVars

Next ==
    \/ MainCreate \/ MainCreateFails \/ MainSubmit \/ MainSubmittedAll
    \/ MainJudge \/ Exited
    \/ \E w \in QueueWorkers :
          \/ Take(w) \/ TestArgument(w) \/ LockCounter(w) \/ LoadCounter(w)
          \/ StoreCounter(w) \/ FreeArgument(w) \/ Finish(w)

Spec == Init /\ [][Next]_workVars

-----------------------------------------------------------------------------
(* When wq_wait has returned every task has counted once, whatever the order *)
(* in which the workers ran, and every argument has been freed: the test     *)
(* passes with any queue that keeps its promises (test.c:59-64, 84-101).     *)
CountsEveryTask ==
    main \notin {"create", "submit", "wait", "failed"} =>
        main = "matches" /\ arguments = {}
=============================================================================
