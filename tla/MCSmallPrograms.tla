--------------------------- MODULE MCSmallPrograms ---------------------------
(* Nine programs that have nothing in common: in each behaviour one of them   *)
(* runs and the others stay where they start.                                 *)
EXTENDS Integers, FiniteSets

CONSTANTS Adders, Big, Width, NoAdder
CONSTANTS BarrierWorkers, BarrierMain, Rounds
CONSTANTS QueueWorkers, NUMTASKS, CAPACITY, NoTask
CONSTANTS NUMTHREADS, Turns
CONSTANTS Readers
CONSTANTS SSIZE_MAX
CONSTANTS MaxForks
CONSTANTS Senders
CONSTANTS LocalServers, LocalClients, Backlog, Nobody

ASSUME BarrierAssumption == IsFiniteSet(BarrierWorkers) /\ BarrierMain \notin BarrierWorkers
ASSUME TasksAssumption == NUMTASKS \in Nat /\ NoTask \notin 0 .. NUMTASKS - 1
ASSUME WidthAssumption == SSIZE_MAX \in Nat
ASSUME LocalAssumption ==
    /\ Nobody \notin LocalServers \cup LocalClients
    /\ "garbage" \notin LocalClients \cup {Nobody}

VARIABLES shared, sum, myfancylock, i, read, step, printed
VARIABLES waiting, released, passed
VARIABLES main, submitted, queue, job, place, mainlock, counter, loaded,
          finished, arguments
VARIABLES canceller, next, thread, pending, live
VARIABLES reader, writer
VARIABLES wrapper, nbytes, did, result, where
VARIABLES program, terminal, proc, open, full, block, out, lines, forks
VARIABLES text, kind, content, sender, receiver, taken, stale, got, interrupted
VARIABLES name, server, client
VARIABLE running    \* the program that runs

Sum == INSTANCE SharedSum
Barrier == INSTANCE BarrierRounds
Work == INSTANCE WorkQueueClient
Cancelled == INSTANCE CancelledThread WITH main <- canceller
Lock == INSTANCE ReadersWriter
Wrap == INSTANCE Wrappers WITH place <- where
Fork == INSTANCE ForkedProcesses WITH printed <- lines
Pipe == INSTANCE NamedPipe
Local == INSTANCE LocalSockets

\* A sum has some width, so that it wraps at a positive number.
ASSUME SumAssumption ==
    /\ IsFiniteSet(Adders) /\ NoAdder \notin Adders
    /\ Big \in Nat
    /\ Sum!Modulus \in Nat \ {0}

sumState == <<shared, sum, myfancylock, i, read, step, printed>>
barrierState == <<waiting, released, passed>>
workState == <<main, submitted, queue, job, place, mainlock, counter, loaded,
               finished, arguments>>
cancelState == <<canceller, next, thread, pending, live>>
lockState == <<reader, writer>>
wrapState == <<wrapper, nbytes, did, result, where>>
forkState == <<program, terminal, proc, open, full, block, out, lines, forks>>
pipeState == <<text, kind, content, sender, receiver, taken, stale, got, interrupted>>
localState == <<name, server, client>>

vars == <<running, sumState, barrierState, workState, cancelState, lockState,
          wrapState, forkState, pipeState, localState>>

Runs(p) == running = p
Idle(p, state) == IF Runs(p) THEN TRUE ELSE UNCHANGED state

OthersIdle ==
    /\ UNCHANGED running
    /\ Idle("SharedSum", sumState)
    /\ Idle("BarrierRounds", barrierState)
    /\ Idle("WorkQueueClient", workState)
    /\ Idle("CancelledThread", cancelState)
    /\ Idle("ReadersWriter", lockState)
    /\ Idle("Wrappers", wrapState)
    /\ Idle("ForkedProcesses", forkState)
    /\ Idle("NamedPipe", pipeState)
    /\ Idle("LocalSockets", localState)

Init ==
    /\ running \in {"SharedSum", "BarrierRounds", "WorkQueueClient", "CancelledThread",
                    "ReadersWriter", "Wrappers", "ForkedProcesses", "NamedPipe",
                    "LocalSockets"}
    /\ Sum!Init /\ Barrier!Init /\ Work!Init /\ Cancelled!Init /\ Lock!Init
    /\ Wrap!Init /\ Fork!Init /\ Pipe!Init /\ Local!Init
    \* One start is enough for a program that does not run.
    /\ Runs("SharedSum") \/ shared
    /\ Runs("ForkedProcesses") \/ (program = "exec2" /\ terminal)
    /\ Runs("NamedPipe") \/ \A s \in Senders : text[s] = "plain"

SumNext     == Runs("SharedSum")       /\ Sum!Next       /\ OthersIdle
BarrierNext == Runs("BarrierRounds")   /\ Barrier!Next   /\ OthersIdle
WorkNext    == Runs("WorkQueueClient") /\ Work!Next      /\ OthersIdle
MainCancels == Runs("CancelledThread") /\ Cancelled!Running /\ Cancelled!Main /\ OthersIdle
ThreadRuns(t) ==
    Runs("CancelledThread") /\ Cancelled!Running /\ Cancelled!Thread(t) /\ OthersIdle
ReaderRuns(r) == Runs("ReadersWriter") /\ Lock!Reader(r) /\ OthersIdle
WriterRuns  == Runs("ReadersWriter")   /\ Lock!Writer    /\ OthersIdle
WrapNext    == Runs("Wrappers")        /\ Wrap!Next      /\ OthersIdle
ProcessRuns(p) == Runs("ForkedProcesses") /\ Fork!Step(p) /\ OthersIdle
ParentKilled == Runs("ForkedProcesses") /\ Fork!Killed   /\ OthersIdle
PipeNext    == Runs("NamedPipe")       /\ Pipe!Next      /\ OthersIdle
LocalNext   == Runs("LocalSockets")    /\ Local!Next     /\ OthersIdle

Next ==
    \/ SumNext \/ BarrierNext \/ WorkNext \/ WrapNext \/ PipeNext \/ LocalNext
    \/ MainCancels \/ \E t \in Cancelled!Threads : ThreadRuns(t)
    \/ WriterRuns \/ \E r \in Readers : ReaderRuns(r)
    \/ ParentKilled \/ \E p \in Fork!Process : ProcessRuns(p)

\* Where a property is about liveness: every thread and process gets to run.
Fairness ==
    /\ WF_vars(MainCancels) /\ \A t \in Cancelled!Threads : WF_vars(ThreadRuns(t))
    /\ WF_vars(WriterRuns) /\ \A r \in Readers : WF_vars(ReaderRuns(r))
    /\ \A p \in Fork!Process : WF_vars(ProcessRuns(p))

Spec == Init /\ [][Next]_vars /\ Fairness

-----------------------------------------------------------------------------
(* The properties of the programs, stated in their modules: the printed sum  *)
(* misses no addition; no thread is ahead of another at the barrier; every   *)
(* task has counted when main looks; wrappers die of failures and of nothing *)
(* else; output and memory after a fork; texts over the FIFO; who is greeted  *)
(* on the local socket.                                                       *)
SumComplete == Sum!SumComplete
RoundsTogether == Barrier!RoundsTogether
CountsEveryTask == Work!CountsEveryTask
DiesIffFailed == Wrap!DiesIffFailed
OutputFaithful == Fork!OutputFaithful
ReportsInOrder == Fork!ReportsInOrder
PlainTextsArriveOnce == Pipe!PlainTextsArriveOnce
GreetsWhomItReads == Local!GreetsWhomItReads

(* The program under it ends, when it runs, as its module says.               *)
OnlyCancelledLeaks == Runs("CancelledThread") => Cancelled!OnlyCancelledLeaks
ReadersReadOn == Runs("ReadersWriter") => Lock!ReadersReadOn
BothEnd == Runs("ForkedProcesses") => Fork!BothEnd
=============================================================================
