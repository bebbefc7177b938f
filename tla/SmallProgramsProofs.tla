------------------------ MODULE SmallProgramsProofs ------------------------
(***************************************************************************)
(* The barrier for any number of workers, the test of the work queue for   *)
(* any numbers of tasks, workers and places, the wrappers for every width  *)
(* of a size_t, the local socket and the FIFO for any numbers of those who *)
(* use them, the programs that fork for any number of forks, and the sums  *)
(* of any number of threads, as far as they count and at any width.        *)
(***************************************************************************)
EXTENDS MCSmallPrograms, FiniteSetTheorems, SequenceTheorems, TLAPS

\* A step is one of the program that runs, and invisible to the others.
LEMMA BarrierSteps == [Next]_vars => [Barrier!Next]_barrierState
BY DEF Next, vars, SumNext, BarrierNext, WorkNext, WrapNext, PipeNext, LocalNext,
   MainCancels, ThreadRuns, WriterRuns, ReaderRuns, ParentKilled, ProcessRuns,
   OthersIdle, Idle, Runs

LEMMA WorkSteps == [Next]_vars => [Work!Next]_workState
BY DEF Next, vars, SumNext, BarrierNext, WorkNext, WrapNext, PipeNext, LocalNext,
   MainCancels, ThreadRuns, WriterRuns, ReaderRuns, ParentKilled, ProcessRuns,
   OthersIdle, Idle, Runs

LEMMA WrapSteps == [Next]_vars => [Wrap!Next]_wrapState
BY DEF Next, vars, SumNext, BarrierNext, WorkNext, WrapNext, PipeNext, LocalNext,
   MainCancels, ThreadRuns, WriterRuns, ReaderRuns, ParentKilled, ProcessRuns,
   OthersIdle, Idle, Runs

-----------------------------------------------------------------------------
(* The barrier: those it has let go and who are not yet back are one round   *)
(* behind the others.                                                        *)

Parties == BarrierWorkers \cup {BarrierMain}

InRound(k) == \A t \in Parties : passed[t] = IF t \in released THEN k ELSE k + 1

BarrierInv ==
    /\ waiting \subseteq Parties /\ released \subseteq Parties
    /\ waiting \cap released = {}
    /\ passed \in [Parties -> Nat]
    /\ \E k \in Int : InRound(k)

LEMMA InitBarrier == Barrier!Init => BarrierInv
<1> SUFFICES ASSUME Barrier!Init PROVE BarrierInv
  OBVIOUS
<1>1. InRound(-1)
  BY DEF InRound, Barrier!Init, Barrier!Parties, Parties
<1>2. QED
  BY <1>1 DEF BarrierInv, Barrier!Init, Barrier!Parties, Parties

LEMMA SameCardinality == \A S : Barrier!Cardinality(S) = Cardinality(S)
BY DEF Barrier!Cardinality, Cardinality

\* The last to arrive is the last missing.
LEMMA AllArrived ==
    ASSUME BarrierInv, NEW t \in Parties, t \notin waiting,
           Cardinality(waiting) + 1 = Barrier!BarrierCount
    PROVE  waiting \cup {t} = Parties
<1>1. IsFiniteSet(Parties) /\ Cardinality(Parties) = Cardinality(BarrierWorkers) + 1
  BY BarrierAssumption, FS_AddElement DEF Parties
<1>2. IsFiniteSet(waiting)
  BY <1>1, FS_Subset DEF BarrierInv
<1>3. Cardinality(waiting \cup {t}) = Cardinality(waiting) + 1
  BY <1>2, FS_AddElement
<1>4. waiting \cup {t} \subseteq Parties
  BY DEF BarrierInv
<1>5. Cardinality(waiting \cup {t}) = Cardinality(Parties)
  BY <1>1, <1>3, SameCardinality DEF Barrier!BarrierCount
<1>6. QED
  BY <1>1, <1>4, <1>5, FS_Subset

LEMMA NextBarrier == BarrierInv /\ [Barrier!Next]_barrierState => BarrierInv'
<1> SUFFICES ASSUME BarrierInv, [Barrier!Next]_barrierState PROVE BarrierInv'
  OBVIOUS
<1> PICK k \in Int : InRound(k)
  BY DEF BarrierInv
<1>1. ASSUME NEW t \in Parties, Barrier!Arrive(t) PROVE BarrierInv'
  <2>1. CASE Cardinality(waiting) + 1 = Barrier!BarrierCount
    <3>1. waiting' = {} /\ released' = released \cup waiting \cup {t}
          /\ t \notin waiting \cup released /\ passed' = passed
      BY <1>1, <2>1, SameCardinality DEF Barrier!Arrive
    <3>2. waiting \cup {t} = Parties
      BY <2>1, <3>1, AllArrived
    <3>3. released = {} /\ released' = Parties
      BY <3>1, <3>2 DEF BarrierInv
    <3>4. InRound(k + 1)'
      BY <3>1, <3>3 DEF InRound
    <3>5. QED
      BY <3>1, <3>3, <3>4 DEF BarrierInv
  <2>2. CASE Cardinality(waiting) + 1 # Barrier!BarrierCount
    <3>1. waiting' = waiting \cup {t} /\ t \notin waiting \cup released
          /\ UNCHANGED <<released, passed>>
      BY <1>1, <2>2, SameCardinality DEF Barrier!Arrive
    <3>2. InRound(k)'
      BY <3>1 DEF InRound
    <3>3. QED
      BY <3>1, <3>2 DEF BarrierInv
  <2>3. QED
    BY <2>1, <2>2
<1>2. ASSUME NEW t \in Parties, Barrier!Go(t) PROVE BarrierInv'
  <2>1. InRound(k)'
    BY <1>2 DEF InRound, BarrierInv, Barrier!Go
  <2>2. QED
    BY <1>2, <2>1 DEF BarrierInv, Barrier!Go
<1>3. CASE Barrier!Exited \/ UNCHANGED barrierState
  <2>1. UNCHANGED <<waiting, released, passed>>
    BY <1>3 DEF Barrier!Exited, Barrier!barrierVars, barrierState
  <2>2. InRound(k)'
    BY <2>1 DEF InRound
  <2>3. QED
    BY <2>1, <2>2 DEF BarrierInv
<1>4. QED
  BY <1>1, <1>2, <1>3 DEF Barrier!Next, Barrier!WorkerArrive, Barrier!MainArrive,
     Barrier!WorkerGo, Barrier!MainGo, Parties

(* Whatever the number of threads and rounds, nobody starts a round before   *)
(* all have gone through the one before it (barriers.c:23-28, 42-47).        *)
THEOREM MeetsInRounds == Spec => []RoundsTogether
<1>1. Init => BarrierInv
  BY InitBarrier DEF Init
<1>2. BarrierInv /\ [Next]_vars => BarrierInv'
  BY NextBarrier, BarrierSteps
<1>3. BarrierInv => RoundsTogether
  BY DEF BarrierInv, InRound, RoundsTogether, Barrier!RoundsTogether,
     Barrier!Parties, Parties
<1>4. QED
  BY <1>1, <1>2, <1>3, PTL DEF Spec

-----------------------------------------------------------------------------
(* The work queue: its jobs leave in the order of their numbers, so that a   *)
(* job is queued, or run by one worker, or finished; the counter is the      *)
(* number of those that have counted, and only the holder of the lock may    *)
(* have read it.                                                             *)

Tasks == 0 .. NUMTASKS - 1
Taken == submitted - Len(queue)

WorkTypeInv ==
    /\ main \in {"create", "submit", "wait", "failed", "matches",
                 "more", "fewer", "none"}
    /\ submitted \in 0 .. NUMTASKS
    /\ queue \in Seq(Tasks) /\ Taken \in Nat
    /\ job \in [QueueWorkers -> Tasks \cup {NoTask}]
    /\ place \in [QueueWorkers -> {"idle", "test", "lock", "load", "store",
                                   "free", "return"}]
    /\ counter \in Nat
    /\ loaded \in [QueueWorkers -> Nat]
    /\ finished \subseteq Tasks /\ arguments \subseteq Tasks

JobInv ==
    /\ \A n \in 1 .. Len(queue) : queue[n] = Taken + n - 1
    /\ \A w \in QueueWorkers :
          /\ place[w] = "idle" <=> job[w] = NoTask
          /\ job[w] # NoTask => job[w] < Taken /\ job[w] \notin finished
    /\ \A v, w \in QueueWorkers : job[v] = job[w] /\ job[v] # NoTask => v = w
    /\ \A t \in finished : t < Taken

Counted == finished \cup {job[w] : w \in {v \in QueueWorkers : place[v] \in {"free", "return"}}}

CountInv ==
    /\ counter = Cardinality(Counted)
    /\ \A w \in QueueWorkers :
          /\ place[w] \in {"load", "store"} => mainlock = job[w]
          /\ place[w] = "store" => loaded[w] = counter

ArgumentInv ==
    /\ \A t \in arguments : t < submitted /\ t \notin finished
    /\ \A w \in QueueWorkers : place[w] = "return" => job[w] \notin arguments

WorkInv == WorkTypeInv /\ JobInv /\ CountInv /\ ArgumentInv /\ CountsEveryTask

\* A job that is not submitted yet is none of those taken.
LEMMA Later ==
    ASSUME NEW n \in 0 .. NUMTASKS, NEW m \in Int, NEW k \in Int, k < m, m <= n
    PROVE  k # n
BY TasksAssumption

LEMMA CountedType == WorkTypeInv /\ JobInv => Counted \subseteq Tasks
BY DEF WorkTypeInv, JobInv, Counted

LEMMA CountedFinite == WorkTypeInv /\ JobInv => IsFiniteSet(Counted)
<1>1. IsFiniteSet(Tasks)
  BY TasksAssumption, FS_Interval DEF Tasks
<1>2. QED
  BY <1>1, CountedType, FS_Subset

LEMMA CardinalityOfTasks == Cardinality(Tasks) = NUMTASKS
BY TasksAssumption, FS_Interval DEF Tasks

LEMMA InitWork == Work!Init => WorkInv
<1> SUFFICES ASSUME Work!Init PROVE WorkInv
  OBVIOUS
<1>1. submitted = 0 /\ Len(queue) = 0 /\ queue \in Seq(Tasks)
  BY EmptySeq DEF Work!Init
<1>2. Taken = 0
  BY <1>1 DEF Taken
<1>3. WorkTypeInv /\ JobInv
  BY <1>1, <1>2, TasksAssumption DEF Work!Init, WorkTypeInv, JobInv
<1>4. Counted = {}
  BY DEF Work!Init, Counted
<1>5. CountInv
  BY <1>4, FS_EmptySet DEF Work!Init, CountInv
<1>6. QED
  BY <1>3, <1>5 DEF Work!Init, WorkInv, ArgumentInv, CountsEveryTask, Work!CountsEveryTask

\* Jobs leave the queue and enter it in the order of their numbers.
LEMMA TakeQueue ==
    ASSUME WorkTypeInv, JobInv, queue # <<>>, queue' = Tail(queue), submitted' = submitted
    PROVE  /\ Head(queue) = Taken /\ Taken < submitted /\ Taken' = Taken + 1
           /\ queue' \in Seq(Tasks)
           /\ \A n \in 1 .. Len(queue') : queue'[n] = Taken' + n - 1
<1> queue \in Seq(Tasks) /\ submitted \in Nat /\ Taken \in Nat
  BY TasksAssumption DEF WorkTypeInv
<1>1. Len(queue) \in Nat /\ Len(queue) > 0
  BY EmptySeq, LenProperties
<1>2. /\ queue' \in Seq(Tasks) /\ Len(queue') = Len(queue) - 1
      /\ \A n \in 1 .. Len(queue') : queue'[n] = queue[n + 1]
  BY HeadTailProperties
<1>3. Taken' = Taken + 1 /\ Taken < submitted
  BY <1>1, <1>2 DEF Taken
<1>4. Head(queue) = Taken
  <2>1. Head(queue) = queue[1] /\ 1 \in 1 .. Len(queue)
    BY <1>1
  <2>2. QED
    BY <2>1 DEF JobInv
<1>5. ASSUME NEW n \in 1 .. Len(queue') PROVE queue'[n] = Taken' + n - 1
  <2>1. n + 1 \in 1 .. Len(queue)
    BY <1>1, <1>2
  <2>2. queue[n + 1] = Taken + (n + 1) - 1
    BY <2>1 DEF JobInv
  <2>3. QED
    BY <1>2, <1>3, <2>2
<1>6. QED
  BY <1>2, <1>3, <1>4, <1>5

LEMMA SubmitQueue ==
    ASSUME WorkTypeInv, JobInv, queue' = Append(queue, submitted),
           submitted' = submitted + 1, submitted \in Tasks
    PROVE  /\ Taken' = Taken /\ queue' \in Seq(Tasks)
           /\ \A n \in 1 .. Len(queue') : queue'[n] = Taken' + n - 1
<1> queue \in Seq(Tasks)
  BY DEF WorkTypeInv
<1>1. submitted \in Nat /\ Len(queue) \in Nat
  BY TasksAssumption, LenProperties DEF WorkTypeInv
<1>2. /\ queue' \in Seq(Tasks) /\ Len(queue') = Len(queue) + 1
      /\ \A n \in 1 .. Len(queue) : queue'[n] = queue[n]
      /\ queue'[Len(queue) + 1] = submitted
  BY AppendProperties
<1>3. Taken' = Taken
  BY <1>1, <1>2 DEF Taken
<1>4. ASSUME NEW n \in 1 .. Len(queue') PROVE queue'[n] = Taken' + n - 1
  <2>1. CASE n \in 1 .. Len(queue)
    BY <1>2, <1>3, <2>1 DEF JobInv
  <2>2. CASE n = Len(queue) + 1
    BY <1>1, <1>2, <1>3, <2>2 DEF Taken
  <2>3. QED
    BY <1>1, <1>2, <2>1, <2>2
<1>5. QED
  BY <1>2, <1>3, <1>4

LEMMA NextWork == WorkInv /\ [Work!Next]_workState => WorkInv'
<1> SUFFICES ASSUME WorkInv, [Work!Next]_workState PROVE WorkInv'
  OBVIOUS
<1> USE DEF WorkInv, CountsEveryTask, Work!CountsEveryTask, Work!taskVars
<1>1. ASSUME UNCHANGED <<queue, submitted, job, place, finished>>
      PROVE  Taken' = Taken /\ Counted' = Counted
  BY <1>1 DEF Taken, Counted
<1>2. CASE Work!MainCreate \/ Work!MainCreateFails \/ Work!MainSubmittedAll
  BY <1>1, <1>2 DEF Work!MainCreate, Work!MainCreateFails, Work!MainSubmittedAll,
     WorkTypeInv, JobInv, CountInv, ArgumentInv
<1>3. CASE Work!MainSubmit
  <2> USE DEF Work!MainSubmit
  <2>1. submitted \in Tasks /\ submitted + 1 \in 0 .. NUMTASKS
    BY <1>3, TasksAssumption DEF WorkTypeInv, Tasks
  <2>2. /\ Taken' = Taken /\ queue' \in Seq(Tasks)
        /\ \A n \in 1 .. Len(queue') : queue'[n] = Taken' + n - 1
    BY <1>3, <2>1, SubmitQueue
  <2>3. WorkTypeInv'
    BY <1>3, <2>1, <2>2 DEF WorkTypeInv
  <2>4. JobInv'
    BY <1>3, <2>2 DEF JobInv
  <2>5. CountInv'
    BY <1>3 DEF CountInv, Counted
  <2>6. Taken <= submitted
    <3>1. queue \in Seq(Tasks) /\ submitted \in Nat
      BY TasksAssumption DEF WorkTypeInv
    <3>2. Len(queue) \in Nat
      BY <3>1, LenProperties
    <3>3. QED
      BY <3>1, <3>2 DEF Taken
  <2>7. ASSUME NEW w \in QueueWorkers, job[w] # NoTask
        PROVE  job[w] # submitted
    BY <2>6, <2>7, Later DEF JobInv, WorkTypeInv
  <2>8. submitted \notin finished
    BY <2>6, Later DEF JobInv, WorkTypeInv
  <2>9. ArgumentInv'
    BY <1>3, <2>2, <2>7, <2>8 DEF ArgumentInv, JobInv, WorkTypeInv, Tasks
  <2>10. QED
    BY <1>3, <2>3, <2>4, <2>5, <2>9
<1>4. CASE Work!MainJudge
  <2> USE DEF Work!MainJudge
  <2>1. Tasks \subseteq finished
    BY <1>4 DEF Work!Awaited, Work!Tasks, Tasks
  <2>2. Counted = Tasks
    BY <2>1, CountedType DEF Counted
  <2>3. counter = NUMTASKS
    BY <2>2, CardinalityOfTasks DEF CountInv
  <2>4. main' = "matches"
    BY <1>4, <2>3 DEF Work!Verdict
  <2>5. arguments = {}
    BY <2>1 DEF ArgumentInv, WorkTypeInv
  <2>6. QED
    BY <1>1, <1>4, <2>4, <2>5 DEF WorkTypeInv, JobInv, CountInv, ArgumentInv
<1>5. ASSUME NEW w \in QueueWorkers, Work!Take(w) PROVE WorkInv'
  <2> USE DEF Work!Take, Work!Goes
  <2>1. /\ Head(queue) = Taken /\ Taken < submitted /\ Taken' = Taken + 1
        /\ queue' \in Seq(Tasks)
        /\ \A n \in 1 .. Len(queue') : queue'[n] = Taken' + n - 1
    BY <1>5, TakeQueue
  <2>2. Taken \in Tasks
    BY <2>1, TasksAssumption DEF WorkTypeInv, Tasks
  <2>3. /\ place[w] = "idle" /\ job[w] = NoTask
        /\ place' = [place EXCEPT ![w] = "test"]
        /\ job' = [job EXCEPT ![w] = Taken]
        /\ Work!Running
    BY <1>5, <2>1 DEF JobInv
  <2>4. WorkTypeInv'
    BY <1>5, <2>1, <2>2, <2>3 DEF WorkTypeInv
  <2>5. JobInv'
    BY <1>5, <2>1, <2>2, <2>3, TasksAssumption DEF JobInv, WorkTypeInv, Tasks
  <2>6. Counted' = Counted
    BY <1>5, <2>3 DEF Counted, WorkTypeInv
  <2>7. CountInv'
    BY <1>5, <2>3, <2>6 DEF CountInv, WorkTypeInv
  <2>8. ArgumentInv'
    BY <1>5, <2>3 DEF ArgumentInv, WorkTypeInv
  <2>9. QED
    BY <1>5, <2>3, <2>4, <2>5, <2>7, <2>8 DEF Work!Running
<1>6. ASSUME NEW w \in QueueWorkers, Work!TestArgument(w) PROVE WorkInv'
  <2> USE DEF Work!TestArgument, Work!Goes
  <2>1. WorkTypeInv' /\ JobInv' /\ ArgumentInv'
    BY <1>6 DEF WorkTypeInv, JobInv, ArgumentInv, Taken
  <2>2. Counted' = Counted
    BY <1>6 DEF Counted, WorkTypeInv
  <2>3. QED
    BY <1>6, <2>1, <2>2 DEF CountInv, WorkTypeInv, Work!Running
<1>7. ASSUME NEW w \in QueueWorkers, Work!LockCounter(w) PROVE WorkInv'
  <2> USE DEF Work!LockCounter, Work!LockFree, Work!Goes
  <2>1. WorkTypeInv' /\ JobInv' /\ ArgumentInv'
    BY <1>7 DEF WorkTypeInv, JobInv, ArgumentInv, Taken
  <2>2. Counted' = Counted
    BY <1>7 DEF Counted, WorkTypeInv
  <2>3. \A v \in QueueWorkers : place[v] \notin {"load", "store"}
    BY <1>7 DEF CountInv, JobInv
  <2>4. QED
    BY <1>7, <2>1, <2>2, <2>3 DEF CountInv, WorkTypeInv, Work!Running
<1>8. ASSUME NEW w \in QueueWorkers, Work!LoadCounter(w) PROVE WorkInv'
  <2> USE DEF Work!LoadCounter, Work!Goes
  <2>1. WorkTypeInv' /\ JobInv' /\ ArgumentInv'
    BY <1>8 DEF WorkTypeInv, JobInv, ArgumentInv, Taken
  <2>2. Counted' = Counted
    BY <1>8 DEF Counted, WorkTypeInv
  <2>3. QED
    BY <1>8, <2>1, <2>2 DEF CountInv, WorkTypeInv, Work!Running
<1>9. ASSUME NEW w \in QueueWorkers, Work!StoreCounter(w) PROVE WorkInv'
  <2> USE DEF Work!StoreCounter, Work!Goes
  <2>1. place[w] = "store" /\ loaded[w] = counter /\ job[w] # NoTask
    BY <1>9 DEF CountInv, JobInv
  <2>2. WorkTypeInv' /\ JobInv' /\ ArgumentInv'
    BY <1>9, <2>1 DEF WorkTypeInv, JobInv, ArgumentInv, Taken
  <2>3. Counted' = Counted \cup {job[w]}
    BY <1>9 DEF Counted, WorkTypeInv
  <2>4. job[w] \notin Counted
    BY <2>1 DEF Counted, JobInv
  <2>5. counter' = Cardinality(Counted')
    BY <1>9, <2>1, <2>3, <2>4, CountedFinite, FS_AddElement DEF CountInv
  <2>6. \A v \in QueueWorkers \ {w} : place[v] \notin {"load", "store"}
    BY <2>1 DEF CountInv, JobInv
  <2>7. CountInv'
    BY <1>9, <2>5, <2>6 DEF CountInv, WorkTypeInv
  <2>8. QED
    BY <1>9, <2>2, <2>7 DEF Work!Running
<1>10. ASSUME NEW w \in QueueWorkers, Work!FreeArgument(w) PROVE WorkInv'
  <2> USE DEF Work!FreeArgument, Work!Goes
  <2>1. WorkTypeInv' /\ JobInv' /\ ArgumentInv'
    BY <1>10 DEF WorkTypeInv, JobInv, ArgumentInv, Taken
  <2>2. Counted' = Counted
    BY <1>10 DEF Counted, WorkTypeInv
  <2>3. QED
    BY <1>10, <2>1, <2>2 DEF CountInv, WorkTypeInv, Work!Running
<1>11. ASSUME NEW w \in QueueWorkers, Work!Finish(w) PROVE WorkInv'
  <2> USE DEF Work!Finish, Work!Goes
  <2>1. place[w] = "return" /\ job[w] \in Tasks /\ job[w] < Taken
    BY <1>11 DEF JobInv, WorkTypeInv
  <2>2. WorkTypeInv'
    BY <1>11, <2>1 DEF WorkTypeInv, Taken
  <2>3. JobInv'
    BY <1>11, <2>1 DEF JobInv, WorkTypeInv, Taken
  <2>4. ArgumentInv'
    BY <1>11, <2>1 DEF ArgumentInv, WorkTypeInv
  <2>5. Counted' = Counted
    BY <1>11, <2>1 DEF Counted, WorkTypeInv
  <2>6. CountInv'
    BY <1>11, <2>1, <2>5 DEF CountInv, WorkTypeInv
  <2>7. QED
    BY <1>11, <2>2, <2>3, <2>4, <2>6 DEF Work!Running
<1>12. CASE Work!Exited \/ UNCHANGED workState
  BY <1>1, <1>12 DEF Work!Exited, Work!workVars, workState, WorkTypeInv, JobInv,
     CountInv, ArgumentInv
<1>13. QED
  BY <1>2, <1>3, <1>4, <1>5, <1>6, <1>7, <1>8, <1>9, <1>10, <1>11, <1>12 DEF Work!Next

(* The test of the work queue passes, and frees all its arguments, with any  *)
(* numbers of tasks, workers and places in the queue (test.c:59-64, 84-101). *)
THEOREM TestPasses == Spec => []CountsEveryTask
<1>1. Init => WorkInv
  BY InitWork DEF Init
<1>2. WorkInv /\ [Next]_vars => WorkInv'
  BY NextWork, WorkSteps
<1>3. WorkInv => CountsEveryTask
  BY DEF WorkInv
<1>4. QED
  BY <1>1, <1>2, <1>3, PTL DEF Spec

-----------------------------------------------------------------------------
(* The wrappers: what was asked and what the call did fit together once it   *)
(* has been made.                                                            *)

WrapInv ==
    /\ wrapper \in Wrap!Names
    /\ nbytes \in Wrap!Sizes
    /\ did \in Wrap!Deeds
    /\ result \in Int
    /\ where \in {"program", "call", "test", "dead"}
    /\ where = "test" => Wrap!MayDo(wrapper, nbytes, did, result)
    /\ DiesIffFailed

\* The test of a wrapper, on a result its call may give, tells whether the call
\* has failed, but for the one size (wrappers.c:13-325).
LEMMA TestIsRight ==
    ASSUME wrapper \in Wrap!Names, nbytes \in Wrap!Sizes,
           did \in Wrap!Deeds, result \in Int,
           Wrap!MayDo(wrapper, nbytes, did, result)
    PROVE  /\ ~Wrap!Failed => did = "all" \/ (wrapper \in Wrap!Sends /\ nbytes = Wrap!SIZE_MAX)
           /\ Wrap!Failed /\ ~Wrap!Aborted => did \in {"nothing", "part"}
<1> USE WidthAssumption DEF Wrap!MayDo, Wrap!Failed, Wrap!SocketFailed, Wrap!InetFailed,
        Wrap!UnixFailed, Wrap!Aborted, Wrap!Sends, Wrap!Receives, Wrap!Addresses,
        Wrap!Ordinary, Wrap!Unix, Wrap!SIZE_MAX, Wrap!Sizes, Wrap!Deeds
<1>1. CASE wrapper \in Wrap!Sends
  BY <1>1 DEF Wrap!Signed, Wrap!Unsigned
<1>2. CASE wrapper \notin Wrap!Sends
  BY <1>2 DEF Wrap!Names
<1>3. QED
  BY <1>1, <1>2

LEMMA InitWrap == Wrap!Init => WrapInv
BY WidthAssumption DEF Wrap!Init, WrapInv, DiesIffFailed, Wrap!DiesIffFailed, Wrap!Names,
   Wrap!Ordinary, Wrap!Sizes, Wrap!SIZE_MAX, Wrap!Deeds

LEMMA NextWrap == WrapInv /\ [Wrap!Next]_wrapState => WrapInv'
<1> SUFFICES ASSUME WrapInv, [Wrap!Next]_wrapState PROVE WrapInv'
  OBVIOUS
<1> USE WidthAssumption DEF WrapInv, DiesIffFailed, Wrap!DiesIffFailed
<1>1. CASE \E w \in Wrap!Names : Wrap!Use(w)
  BY <1>1 DEF Wrap!Use, Wrap!Sizes, Wrap!SIZE_MAX
<1>2. CASE Wrap!SystemCall
  BY <1>2 DEF Wrap!SystemCall, Wrap!MayDo, Wrap!SIZE_MAX
<1>3. CASE Wrap!Again
  BY <1>3 DEF Wrap!Again
<1>4. CASE Wrap!Return
  BY <1>4, TestIsRight DEF Wrap!Return
<1>5. CASE Wrap!Die
  BY <1>5, TestIsRight DEF Wrap!Die
<1>6. CASE Wrap!Exited \/ UNCHANGED wrapState
  BY <1>6 DEF Wrap!Exited, Wrap!wrapperVars, wrapState, Wrap!MayDo
<1>7. QED
  BY <1>1, <1>2, <1>3, <1>4, <1>5, <1>6 DEF Wrap!Next

(* The tests of the wrappers are right for every width of a size_t and every *)
(* order of calls (wrappers.c:13-325).                                       *)
THEOREM WrappersSound == Spec => []DiesIffFailed
<1>1. Init => WrapInv
  BY InitWrap DEF Init
<1>2. WrapInv /\ [Next]_vars => WrapInv'
  BY NextWrap, WrapSteps
<1>3. WrapInv => DiesIffFailed
  BY DEF WrapInv
<1>4. QED
  BY <1>1, <1>2, <1>3, PTL DEF Spec

-----------------------------------------------------------------------------
(* The local socket: a client is in the queue of the server it has connected *)
(* to, or is its peer; the peer is heard unless it was killed, and a server  *)
(* without a name or without a client has a rival.                           *)

Past == {"write", "close", "unlink again", "done", "dead"}
Over == {"unlink again", "done", "dead"}

ServerBlock ==
    [at : {"unlink", "bind", "listen", "accept", "read", "killed"} \cup Past,
     bound : BOOLEAN, queue : Seq(LocalClients), peer : LocalClients \cup {Nobody},
     heard : LocalClients \cup {Nobody, "garbage"}]
ClientBlock ==
    [at : {"connect", "write", "read", "done", "dead", "killed"},
     link : LocalServers \cup {Nobody}, said : BOOLEAN,
     read : {"", "Hello from server!"}]

LocalTypeInv ==
    /\ name \in LocalServers \cup {Nobody}
    /\ server \in [LocalServers -> ServerBlock]
    /\ client \in [LocalClients -> ClientBlock]

\* How far a server has come, and what it has then.
PlaceOf(s) ==
    /\ server[s].bound => server[s].at \notin {"unlink", "bind"}
    /\ server[s].at \in {"unlink", "bind", "listen"} => server[s].queue = <<>>
    /\ server[s].at \in {"unlink", "bind", "listen", "accept"} => server[s].peer = Nobody
    /\ server[s].at \in {"unlink", "bind", "listen", "accept", "read"} =>
          server[s].heard = Nobody
    /\ server[s].at \in {"read"} \cup Past /\ server[s].bound => server[s].peer # Nobody
    /\ server[s].at \in Past => server[s].heard \in {server[s].peer, "garbage"}

PlaceInv == \A s \in LocalServers : PlaceOf(s)

Queues(s, c) == \E k \in DOMAIN server[s].queue : server[s].queue[k] = c

LinkInv ==
    /\ \A s \in LocalServers, c \in LocalClients :
          client[c].link = s <=> server[s].peer = c \/ Queues(s, c)
    /\ \A s \in LocalServers :
          server[s].peer # Nobody \/ server[s].queue # <<>> => server[s].bound
    /\ \A c \in LocalClients : client[c].at = "connect" => client[c].link = Nobody

Heard(s, c) ==
    /\ server[s].peer = c /\ server[s].at \in Past /\ Local!Alive(c) =>
          server[s].heard = c
    /\ server[s].peer = c /\ server[s].at = "dead" => ~Local!Alive(c)
    /\ server[s].heard = c => client[c].said
    /\ Local!NoneKilled /\ server[s].peer = c /\ server[s].at \in Past =>
          server[s].heard = c

HeardInv == \A s \in LocalServers, c \in LocalClients : Heard(s, c)

ClientOf(c) ==
    /\ client[c].at \in {"connect", "write"} => ~client[c].said
    /\ client[c].at \in {"read", "done"} /\ client[c].link # Nobody => client[c].said
    /\ client[c].at # "done" => client[c].read = ""

\* A client that has got no answer has come after the server took another.
LeftOut(c) ==
    Local!NoneKilled /\ client[c].at \in {"dead", "done"} /\ client[c].read = "" =>
        \A s \in LocalServers : client[c].link = s =>
            server[s].at \in Over /\ server[s].peer \in LocalClients \ {c}

AnsweredBy(c) ==
    client[c].read # "" => \E s \in LocalServers : client[c].link = s /\ server[s].heard = c

ClientInv == \A c \in LocalClients : ClientOf(c) /\ LeftOut(c) /\ AnsweredBy(c)

NameInv ==
    /\ name # Nobody => server[name].bound
    /\ \A s \in LocalServers :
          /\ server[s].at \notin {"unlink", "bind", "killed"} /\ ~server[s].bound =>
                Local!Rival(s)
          /\ server[s].at \in {"listen", "accept"} /\ name # s => Local!Rival(s)

LocalInv ==
    LocalTypeInv /\ PlaceInv /\ LinkInv /\ HeardInv /\ ClientInv /\ NameInv

LEMMA LocalSteps == [Next]_vars => [Local!Next]_localState
BY DEF Next, vars, SumNext, BarrierNext, WorkNext, WrapNext, PipeNext, LocalNext,
   MainCancels, ThreadRuns, WriterRuns, ReaderRuns, ParentKilled, ProcessRuns,
   OthersIdle, Idle, Runs

LEMMA EmptyDomain == DOMAIN <<>> = {}
OBVIOUS

LEMMA InitLocal == Local!Init => LocalInv
<1> SUFFICES ASSUME Local!Init PROVE LocalInv
  OBVIOUS
<1> USE LocalAssumption DEF Local!Init
<1>1. <<>> \in Seq(LocalClients)
  BY EmptySeq
<1>2. LocalTypeInv
  BY <1>1 DEF LocalTypeInv, ServerBlock, ClientBlock
<1>3. \A s \in LocalServers, c \in LocalClients :
         /\ server[s].queue = <<>> /\ server[s].peer = Nobody /\ server[s].at = "unlink"
         /\ server[s].heard = Nobody /\ ~server[s].bound
  OBVIOUS
<1>4. \A c \in LocalClients :
         /\ client[c].at = "connect" /\ client[c].link = Nobody
         /\ ~client[c].said /\ client[c].read = ""
  OBVIOUS
<1>5. PlaceInv
  BY <1>3 DEF PlaceInv, PlaceOf, Past
<1>6. LinkInv
  <2>1. \A s \in LocalServers, c \in LocalClients : ~Queues(s, c)
    <3>1. \A s \in LocalServers : DOMAIN server[s].queue = {}
      BY <1>3, EmptyDomain
    <3>2. QED
      BY <1>3, <3>1 DEF Queues
  <2>2. QED
    BY <1>3, <1>4, <2>1 DEF LinkInv
<1>7. HeardInv
  BY <1>3, <1>4 DEF HeardInv, Heard
<1>8. ClientInv
  BY <1>4 DEF ClientInv, ClientOf, LeftOut, AnsweredBy
<1>9. NameInv
  BY <1>3 DEF NameInv
<1>10. QED
  BY <1>2, <1>5, <1>6, <1>7, <1>8, <1>9 DEF LocalInv

\* A server goes from one place to another, its socket, queue and peer stay.
LEMMA ServerMoves ==
    ASSUME LocalInv, NEW s \in LocalServers, NEW to,
           to \in {"unlink", "bind", "listen", "accept", "read", "killed"} \cup Past,
           server' = [server EXCEPT ![s] = [server[s] EXCEPT !.at = to]],
           UNCHANGED client
    PROVE  /\ server' \in [LocalServers -> ServerBlock]
           /\ \A r \in LocalServers :
                /\ server'[r].at = IF r = s THEN to ELSE server[r].at
                /\ server'[r].bound = server[r].bound
                /\ server'[r].queue = server[r].queue
                /\ server'[r].peer = server[r].peer
                /\ server'[r].heard = server[r].heard
           /\ LinkInv'
<1>1. /\ server' \in [LocalServers -> ServerBlock]
      /\ \A r \in LocalServers :
           /\ server'[r].at = IF r = s THEN to ELSE server[r].at
           /\ server'[r].bound = server[r].bound
           /\ server'[r].queue = server[r].queue
           /\ server'[r].peer = server[r].peer
           /\ server'[r].heard = server[r].heard
  BY DEF LocalInv, LocalTypeInv, ServerBlock
<1>2. \A r \in LocalServers : \A c \in LocalClients : Queues(r, c)' = Queues(r, c)
  BY <1>1 DEF Queues
<1>3. LinkInv'
  BY <1>1, <1>2 DEF LocalInv, LinkInv
<1>4. QED
  BY <1>1, <1>3

\* The places a server goes between without a call that tells it something
Goes(s, to) ==
    \/ server[s].at = "unlink" /\ to = "bind"
    \/ server[s].at = "listen" /\ to = "accept"
    \/ server[s].at = "write" /\ to = "close"
    \/ server[s].at = "close" /\ to = "unlink again"
    \/ server[s].at = "unlink again" /\ to = "done"
    \/ server[s].at = "write" /\ to = "dead"
    \/ server[s].at # "unlink" /\ to = "killed"

LEMMA ServerGoes ==
    ASSUME LocalInv, NEW s \in LocalServers, NEW to, Goes(s, to),
           server' = [server EXCEPT ![s] = [server[s] EXCEPT !.at = to]],
           name' = name \/ name' = Nobody,
           server[s].at \in {"listen", "accept", "read"} => name' = name,
           to = "dead" => server[s].peer \in LocalClients /\ ~Local!Alive(server[s].peer),
           UNCHANGED client
    PROVE  LocalInv'
<1> USE LocalAssumption
<1>1. to \in {"unlink", "bind", "listen", "accept", "read", "killed"} \cup Past
  BY DEF Goes, Past
<1>2. /\ server' \in [LocalServers -> ServerBlock]
      /\ \A r \in LocalServers :
           /\ server'[r].at = IF r = s THEN to ELSE server[r].at
           /\ server'[r].bound = server[r].bound
           /\ server'[r].queue = server[r].queue
           /\ server'[r].peer = server[r].peer
           /\ server'[r].heard = server[r].heard
      /\ LinkInv'
  BY <1>1, ServerMoves
<1>3. LocalTypeInv'
  BY <1>2 DEF LocalInv, LocalTypeInv
<1>4. PlaceInv'
  <2> SUFFICES ASSUME NEW r \in LocalServers PROVE PlaceOf(r)'
    BY DEF PlaceInv
  <2>1. PlaceOf(r)
    BY DEF LocalInv, PlaceInv
  <2>2. CASE r # s
    BY <1>2, <2>1, <2>2 DEF PlaceOf
  <2>3. CASE r = s
    BY <1>2, <2>1, <2>3 DEF PlaceOf, Past, Goes
  <2>4. QED
    BY <2>2, <2>3
<1>5. Local!NoneKilled' => Local!NoneKilled /\ to # "killed"
  BY <1>2 DEF Local!NoneKilled, Goes
<1>6. \A c \in LocalClients : Local!Alive(c)' = Local!Alive(c)
  BY DEF Local!Alive
<1>7. HeardInv'
  <2> SUFFICES ASSUME NEW r \in LocalServers, NEW c \in LocalClients PROVE Heard(r, c)'
    BY DEF HeardInv
  <2>1. Heard(r, c)
    BY DEF LocalInv, HeardInv
  <2>2. CASE r # s
    BY <1>2, <1>5, <1>6, <2>1, <2>2 DEF Heard
  <2>3. CASE r = s
    <3>1. server'[s].at \in Past /\ to # "dead" => server[s].at \in Past
      BY <1>2 DEF Past, Goes
    <3>2. to = "dead" => server[s].at \in Past
      BY DEF Past, Goes
    <3>3. to = "dead" /\ server[s].peer = c => ~Local!Alive(c)
      OBVIOUS
    <3>4. QED
      BY <1>2, <1>5, <1>6, <2>1, <2>3, <3>1, <3>2, <3>3 DEF Heard
  <2>4. QED
    BY <2>2, <2>3
<1>8. ClientInv'
  <2> SUFFICES ASSUME NEW c \in LocalClients PROVE (ClientOf(c) /\ LeftOut(c) /\ AnsweredBy(c))'
    BY DEF ClientInv
  <2>1. ClientOf(c) /\ LeftOut(c) /\ AnsweredBy(c)
    BY DEF LocalInv, ClientInv
  <2>2. ClientOf(c)' /\ AnsweredBy(c)'
    BY <1>2, <2>1 DEF ClientOf, AnsweredBy
  <2>3. LeftOut(c)'
    BY <1>2, <1>5, <2>1 DEF LeftOut, Over, Goes
  <2>4. QED
    BY <2>2, <2>3
<1>9. \A r \in LocalServers : Local!Rival(r) => Local!Rival(r)'
  BY <1>2 DEF Local!Rival, Goes
<1>10. NameInv'
  <2>1. name' # Nobody => server'[name'].bound
    BY <1>2 DEF LocalInv, LocalTypeInv, NameInv
  <2>2. ASSUME NEW r \in LocalServers, server'[r].at \notin {"unlink", "bind", "killed"},
               ~server'[r].bound
        PROVE  Local!Rival(r)'
    BY <1>2, <1>9, <2>2 DEF LocalInv, NameInv, Goes
  <2>3. ASSUME NEW r \in LocalServers, server'[r].at \in {"listen", "accept"}, name' # r
        PROVE  Local!Rival(r)'
    <3>1. CASE r = s
      BY <1>2, <1>9, <2>3, <3>1 DEF LocalInv, NameInv, Goes
    <3>2. CASE r # s
      <4>1. server'[s].at # "unlink"
        BY <1>2 DEF Goes
      <4>2. QED
        BY <3>2, <4>1 DEF Local!Rival
    <3>3. QED
      BY <3>1, <3>2
  <2>4. QED
    BY <2>1, <2>2, <2>3 DEF NameInv
<1>11. QED
  BY <1>2, <1>3, <1>4, <1>7, <1>8, <1>10 DEF LocalInv

LEMMA LocalServerMoves ==
    ASSUME LocalInv, NEW s \in LocalServers,
           \/ Local!Unlink(s) \/ Local!Listen(s) \/ Local!ServerWrite(s)
           \/ Local!ServerClose(s) \/ Local!UnlinkAgain(s) \/ Local!ServerKilled(s)
    PROVE  LocalInv'
<1> USE DEF Local!ServerGoes
<1>1. CASE Local!Unlink(s)
  BY <1>1, ServerGoes DEF Local!Unlink, Goes
<1>2. CASE Local!Listen(s)
  BY <1>2, ServerGoes DEF Local!Listen, Goes
<1>3. CASE Local!ServerWrite(s)
  <2>1. server[s].peer \in LocalClients \cup {Nobody}
    BY DEF LocalInv, LocalTypeInv, ServerBlock
  <2>2. CASE server[s].peer = Nobody \/ Local!Alive(server[s].peer)
    BY <1>3, <2>2, ServerGoes DEF Local!ServerWrite, Goes
  <2>3. CASE ~(server[s].peer = Nobody \/ Local!Alive(server[s].peer))
    BY <1>3, <2>1, <2>3, ServerGoes DEF Local!ServerWrite, Goes
  <2>4. QED
    BY <2>2, <2>3
<1>4. CASE Local!ServerClose(s)
  BY <1>4, ServerGoes DEF Local!ServerClose, Goes
<1>5. CASE Local!UnlinkAgain(s)
  BY <1>5, ServerGoes DEF Local!UnlinkAgain, Goes
<1>6. CASE Local!ServerKilled(s)
  <2>1. server' = [server EXCEPT ![s] = [server[s] EXCEPT !.at = "killed"]]
    BY <1>6 DEF Local!ServerKilled
  <2>2. QED
    BY <1>6, <2>1, ServerGoes DEF Local!ServerKilled, Goes
<1>7. QED
  BY <1>1, <1>2, <1>3, <1>4, <1>5, <1>6

\* The name is free, or another server's.
LEMMA BindKeeps == ASSUME LocalInv, NEW s \in LocalServers, Local!Bind(s) PROVE LocalInv'
<1> USE LocalAssumption
<1>1. /\ server[s].at = "bind"
      /\ server' = [server EXCEPT ![s] =
                      [server[s] EXCEPT !.at = "listen", !.bound = (name = Nobody)]]
      /\ name' = IF name = Nobody THEN s ELSE name
      /\ UNCHANGED client
  BY DEF Local!Bind, Local!ServerGoes
<1>2. /\ server' \in [LocalServers -> ServerBlock]
      /\ \A r \in LocalServers :
           /\ server'[r].at = IF r = s THEN "listen" ELSE server[r].at
           /\ server'[r].bound = IF r = s THEN name = Nobody ELSE server[r].bound
           /\ server'[r].queue = server[r].queue
           /\ server'[r].peer = server[r].peer
           /\ server'[r].heard = server[r].heard
  BY <1>1 DEF LocalInv, LocalTypeInv, ServerBlock
<1>3. ~server[s].bound /\ server[s].queue = <<>> /\ server[s].peer = Nobody
  BY <1>1 DEF LocalInv, PlaceInv, PlaceOf
<1>4. LocalTypeInv'
  BY <1>1, <1>2 DEF LocalInv, LocalTypeInv
<1>5. PlaceInv'
  <2> SUFFICES ASSUME NEW r \in LocalServers PROVE PlaceOf(r)'
    BY DEF PlaceInv
  <2>1. PlaceOf(r)
    BY DEF LocalInv, PlaceInv
  <2>2. CASE r # s
    BY <1>2, <2>1, <2>2 DEF PlaceOf
  <2>3. CASE r = s
    <3>1. /\ server'[s].at = "listen" /\ server'[s].queue = <<>>
          /\ server'[s].peer = Nobody /\ server'[s].heard = Nobody
      BY <1>1, <1>2, <1>3, <2>1, <2>3 DEF PlaceOf
    <3>2. QED
      BY <2>3, <3>1 DEF PlaceOf, Past
  <2>4. QED
    BY <2>2, <2>3
<1>6. LinkInv'
  <2>1. \A r \in LocalServers : \A c \in LocalClients : Queues(r, c)' = Queues(r, c)
    BY <1>2 DEF Queues
  <2>2. \A r \in LocalServers : \A c \in LocalClients :
           client'[c].link = r <=> server'[r].peer = c \/ Queues(r, c)'
    BY <1>1, <1>2, <2>1 DEF LocalInv, LinkInv
  <2>3. \A r \in LocalServers :
           server'[r].peer # Nobody \/ server'[r].queue # <<>> => server'[r].bound
    BY <1>2, <1>3 DEF LocalInv, LinkInv
  <2>4. QED
    BY <1>1, <2>2, <2>3 DEF LocalInv, LinkInv
<1>7. Local!NoneKilled' => Local!NoneKilled
  BY <1>1, <1>2 DEF Local!NoneKilled
<1>8. \A c \in LocalClients : Local!Alive(c)' = Local!Alive(c)
  BY <1>1 DEF Local!Alive
<1>9. HeardInv'
  <2> SUFFICES ASSUME NEW r \in LocalServers, NEW c \in LocalClients PROVE Heard(r, c)'
    BY DEF HeardInv
  <2>1. Heard(r, c)
    BY DEF LocalInv, HeardInv
  <2>2. server'[r].at # server[r].at => server'[r].at \notin Past \cup {"dead"}
    BY <1>2 DEF Past
  <2>3. QED
    BY <1>1, <1>2, <1>7, <1>8, <2>1, <2>2 DEF Heard
<1>10. ClientInv'
  <2> SUFFICES ASSUME NEW c \in LocalClients PROVE (ClientOf(c) /\ LeftOut(c) /\ AnsweredBy(c))'
    BY DEF ClientInv
  <2>1. ClientOf(c) /\ LeftOut(c) /\ AnsweredBy(c)
    BY DEF LocalInv, ClientInv
  <2>2. ClientOf(c)' /\ AnsweredBy(c)'
    BY <1>1, <1>2, <2>1 DEF ClientOf, AnsweredBy
  <2>3. LeftOut(c)'
    BY <1>1, <1>2, <1>7, <2>1 DEF LeftOut, Over
  <2>4. QED
    BY <2>2, <2>3
<1>11. \A r \in LocalServers : Local!Rival(r) => Local!Rival(r)'
  BY <1>2 DEF Local!Rival
<1>12. NameInv'
  <2>1. \A r \in LocalServers \ {s} : Local!Rival(r)'
    BY <1>2 DEF Local!Rival
  <2>2. name # Nobody => server[name].bound /\ name # s
    BY <1>3 DEF LocalInv, NameInv
  <2>3. name # Nobody => Local!Rival(s)'
    <3>1. name # Nobody => name \in LocalServers \ {s} /\ server[name].at # "unlink"
      BY <2>2 DEF LocalInv, LocalTypeInv, PlaceInv, PlaceOf
    <3>2. QED
      BY <1>2, <3>1 DEF Local!Rival
  <2>4. name' # Nobody => server'[name'].bound
    BY <1>1, <1>2, <2>2 DEF LocalInv, LocalTypeInv
  <2>5. QED
    BY <1>1, <1>2, <2>1, <2>3, <2>4 DEF NameInv
<1>13. QED
  BY <1>4, <1>5, <1>6, <1>9, <1>10, <1>12 DEF LocalInv

\* The server takes the first of its queue, if it has one to accept from.
LEMMA AcceptKeeps == ASSUME LocalInv, NEW s \in LocalServers, Local!Accept(s) PROVE LocalInv'
<1> USE LocalAssumption
<1> DEFINE q == server[s].queue
           peer == IF q = <<>> THEN server[s].peer ELSE Head(q)
           rest == IF q = <<>> THEN q ELSE Tail(q)
<1>1. /\ server[s].at = "accept" /\ (server[s].bound => q # <<>>)
      /\ UNCHANGED <<name, client>>
      /\ server' = [server EXCEPT ![s] = IF q = <<>> THEN [server[s] EXCEPT !.at = "read"]
            ELSE [server[s] EXCEPT !.at = "read", !.peer = Head(q), !.queue = Tail(q)]]
  BY DEF Local!Accept, Local!ServerGoes
<1>2. q \in Seq(LocalClients) /\ server[s].peer = Nobody /\ server[s].heard = Nobody
  BY <1>1 DEF LocalInv, LocalTypeInv, ServerBlock, PlaceInv, PlaceOf
<1>3. rest \in Seq(LocalClients) /\ peer \in LocalClients \cup {Nobody}
  BY <1>2, HeadTailProperties
<1>4. \A c \in LocalClients :
         Queues(s, c) <=> peer = c \/ \E k \in DOMAIN rest : rest[k] = c
  <2>1. CASE q = <<>>
    BY <1>2, <2>1, EmptyDomain DEF Queues
  <2>2. CASE q # <<>>
    <3>1. Len(q) \in Nat \ {0} /\ DOMAIN q = 1 .. Len(q) /\ q[1] = Head(q)
      BY <1>2, <2>2, EmptySeq, LenProperties
    <3>2. /\ DOMAIN Tail(q) = 1 .. Len(q) - 1
          /\ \A k \in 1 .. Len(q) - 1 : Tail(q)[k] = q[k + 1]
      BY <1>2, <2>2, HeadTailProperties, LenProperties
    <3> HIDE DEF q
    <3>3. ASSUME NEW c, NEW k \in 1 .. Len(q), q[k] = c
          PROVE  Head(q) = c \/ \E l \in DOMAIN Tail(q) : Tail(q)[l] = c
      <4>1. CASE k = 1
        BY <3>1, <3>3, <4>1
      <4>2. CASE k # 1
        <5>1. k - 1 \in 1 .. Len(q) - 1 /\ (k - 1) + 1 = k
          BY <3>1, <4>2
        <5>2. Tail(q)[k - 1] = c /\ k - 1 \in DOMAIN Tail(q)
          BY <3>2, <3>3, <5>1
        <5>3. QED
          BY <5>2
      <4>3. QED
        BY <4>1, <4>2
    <3>4. ASSUME NEW c, Head(q) = c \/ \E l \in DOMAIN Tail(q) : Tail(q)[l] = c
          PROVE  \E k \in 1 .. Len(q) : q[k] = c
      <4>1. CASE Head(q) = c
        <5>1. 1 \in 1 .. Len(q)
          BY <3>1
        <5>2. QED
          BY <3>1, <4>1, <5>1
      <4>2. CASE \E l \in DOMAIN Tail(q) : Tail(q)[l] = c
        <5>1. PICK l \in 1 .. Len(q) - 1 : Tail(q)[l] = c
          BY <3>2, <4>2
        <5>2. l + 1 \in 1 .. Len(q) /\ q[l + 1] = c
          BY <3>1, <3>2, <5>1
        <5>3. QED
          BY <5>2
      <4>3. QED
        BY <3>4, <4>1, <4>2
    <3>5. \A c : (\E k \in DOMAIN q : q[k] = c) <=>
                   (Head(q) = c \/ \E l \in DOMAIN Tail(q) : Tail(q)[l] = c)
      BY <3>1, <3>3, <3>4
    <3>6. peer = Head(q) /\ rest = Tail(q)
      BY <2>2
    <3> USE DEF q
    <3> HIDE DEF peer, rest
    <3>7. QED
      BY <3>5, <3>6 DEF Queues
  <2>3. QED
    BY <2>1, <2>2
<1>5. peer # Nobody \/ rest # <<>> => server[s].bound
  <2>1. peer # Nobody \/ rest # <<>> => q # <<>>
    BY <1>2
  <2>2. QED
    BY <2>1 DEF LocalInv, LinkInv
<1>6. server[s].bound => peer # Nobody
  BY <1>1, <1>2, EmptySeq
<1>7. /\ server' \in [LocalServers -> ServerBlock]
      /\ \A r \in LocalServers :
           /\ server'[r].at = IF r = s THEN "read" ELSE server[r].at
           /\ server'[r].bound = server[r].bound
           /\ server'[r].queue = IF r = s THEN rest ELSE server[r].queue
           /\ server'[r].peer = IF r = s THEN peer ELSE server[r].peer
           /\ server'[r].heard = server[r].heard
  <2> DEFINE new == IF q = <<>> THEN [server[s] EXCEPT !.at = "read"]
                    ELSE [server[s] EXCEPT !.at = "read", !.peer = Head(q), !.queue = Tail(q)]
  <2>1. server \in [LocalServers -> ServerBlock] /\ server[s] \in ServerBlock
    BY DEF LocalInv, LocalTypeInv
  <2>2. /\ new \in ServerBlock
        /\ new.at = "read" /\ new.bound = server[s].bound /\ new.queue = rest
        /\ new.peer = peer /\ new.heard = server[s].heard
    <3>1. CASE q = <<>>
      <4>1. new = [server[s] EXCEPT !.at = "read"] /\ rest = q /\ peer = server[s].peer
        BY <3>1
      <4>2. QED
        BY <2>1, <4>1 DEF ServerBlock
    <3>2. CASE q # <<>>
      <4>1. /\ new = [[[server[s] EXCEPT !.at = "read"] EXCEPT !.peer = Head(q)]
                         EXCEPT !.queue = Tail(q)]
            /\ rest = Tail(q) /\ peer = Head(q)
        BY <3>2
      <4>2. new = [at |-> "read", bound |-> server[s].bound, queue |-> rest, peer |-> peer,
                   heard |-> server[s].heard]
        BY <2>1, <4>1 DEF ServerBlock
      <4>3. QED
        BY <1>3, <2>1, <4>2 DEF ServerBlock
    <3>3. QED
      BY <3>1, <3>2
  <2>3. server' = [server EXCEPT ![s] = new]
    BY <1>1
  <2> HIDE DEF new
  <2>4. QED
    BY <2>1, <2>2, <2>3
<1> HIDE DEF q, peer, rest
<1>8. LocalTypeInv'
  BY <1>1, <1>7 DEF LocalInv, LocalTypeInv
<1>9. PlaceInv'
  <2> SUFFICES ASSUME NEW r \in LocalServers PROVE PlaceOf(r)'
    BY DEF PlaceInv
  <2>1. PlaceOf(r)
    BY DEF LocalInv, PlaceInv
  <2>2. CASE r # s
    BY <1>7, <2>1, <2>2 DEF PlaceOf
  <2>3. CASE r = s
    BY <1>2, <1>6, <1>7, <2>1, <2>3 DEF PlaceOf, Past
  <2>4. QED
    BY <2>2, <2>3
<1>10. LinkInv'
  <2>1. \A r \in LocalServers \ {s} : \A c \in LocalClients : Queues(r, c)' = Queues(r, c)
    BY <1>7 DEF Queues
  <2>2. \A c \in LocalClients : Queues(s, c)' <=> \E k \in DOMAIN rest : rest[k] = c
    BY <1>7 DEF Queues
  <2>3. ASSUME NEW r \in LocalServers, NEW c \in LocalClients
        PROVE  client'[c].link = r <=> server'[r].peer = c \/ Queues(r, c)'
    <3>1. client'[c].link = r <=> server[r].peer = c \/ Queues(r, c)
      BY <1>1 DEF LocalInv, LinkInv
    <3>2. QED
      BY <1>2, <1>4, <1>7, <2>1, <2>2, <3>1
  <2>4. \A r \in LocalServers :
           server'[r].peer # Nobody \/ server'[r].queue # <<>> => server'[r].bound
    BY <1>5, <1>7 DEF LocalInv, LinkInv
  <2>5. QED
    BY <1>1, <2>3, <2>4 DEF LocalInv, LinkInv
<1>11. Local!NoneKilled' => Local!NoneKilled
  BY <1>1, <1>7 DEF Local!NoneKilled
<1>12. \A c \in LocalClients : Local!Alive(c)' = Local!Alive(c)
  BY <1>1 DEF Local!Alive
<1>13. HeardInv'
  <2> SUFFICES ASSUME NEW r \in LocalServers, NEW c \in LocalClients PROVE Heard(r, c)'
    BY DEF HeardInv
  <2>1. Heard(r, c)
    BY DEF LocalInv, HeardInv
  <2>2. CASE r # s
    BY <1>1, <1>7, <1>11, <1>12, <2>1, <2>2 DEF Heard
  <2>3. CASE r = s
    <3>1. /\ server'[s].at = "read" /\ server'[s].heard = server[s].heard
          /\ client' = client
      BY <1>1, <1>7
    <3>2. QED
      BY <2>1, <2>3, <3>1 DEF Heard, Past
  <2>4. QED
    BY <2>2, <2>3
<1>14. ClientInv'
  <2> SUFFICES ASSUME NEW c \in LocalClients PROVE (ClientOf(c) /\ LeftOut(c) /\ AnsweredBy(c))'
    BY DEF ClientInv
  <2>1. ClientOf(c) /\ LeftOut(c) /\ AnsweredBy(c)
    BY DEF LocalInv, ClientInv
  <2>2. ClientOf(c)' /\ AnsweredBy(c)'
    BY <1>1, <1>7, <2>1 DEF ClientOf, AnsweredBy
  <2>3. LeftOut(c)'
    BY <1>1, <1>7, <1>11, <2>1 DEF LeftOut, Over
  <2>4. QED
    BY <2>2, <2>3
<1>15. \A r \in LocalServers : Local!Rival(r) => Local!Rival(r)'
  BY <1>7 DEF Local!Rival
<1>16. NameInv'
  BY <1>1, <1>7, <1>15 DEF LocalInv, LocalTypeInv, NameInv
<1>17. QED
  BY <1>8, <1>9, <1>10, <1>13, <1>14, <1>16 DEF LocalInv

\* A peer that has neither written nor gone is waited for.
LEMMA ReadKeeps == ASSUME LocalInv, NEW s \in LocalServers, Local!ServerRead(s) PROVE LocalInv'
<1> USE LocalAssumption
<1> DEFINE p == server[s].peer
           heard == IF p # Nobody /\ client[p].said THEN p ELSE "garbage"
<1>1. /\ server[s].at = "read"
      /\ UNCHANGED <<name, client>>
      /\ p # Nobody => client[p].said \/ ~Local!Alive(p)
      /\ server' = [server EXCEPT ![s] = [server[s] EXCEPT !.at = "write", !.heard = heard]]
  BY DEF Local!ServerRead, Local!ServerGoes
<1>2. p \in LocalClients \cup {Nobody} /\ server[s].heard = Nobody
  BY <1>1 DEF LocalInv, LocalTypeInv, ServerBlock, PlaceInv, PlaceOf
<1>3. heard \in {p, "garbage"}
  OBVIOUS
<1>4. /\ server' \in [LocalServers -> ServerBlock]
      /\ \A r \in LocalServers :
           /\ server'[r].at = IF r = s THEN "write" ELSE server[r].at
           /\ server'[r].bound = server[r].bound
           /\ server'[r].queue = server[r].queue
           /\ server'[r].peer = server[r].peer
           /\ server'[r].heard = IF r = s THEN heard ELSE server[r].heard
  <2> HIDE DEF p, heard
  <2>1. heard \in LocalClients \cup {Nobody, "garbage"}
    BY <1>2, <1>3
  <2>2. QED
    BY <1>1, <2>1 DEF LocalInv, LocalTypeInv, ServerBlock, Past
<1>5. ASSUME NEW c \in LocalClients, p = c
      PROVE  /\ Local!Alive(c) \/ Local!NoneKilled => heard = c
             /\ client[c].said \/ heard # c
  <2>1. client[c].said => heard = c
    BY <1>5
  <2>2. Local!Alive(c) => client[c].said
    BY <1>1, <1>5
  <2>3. ASSUME Local!NoneKilled, ~Local!Alive(c) PROVE client[c].said
    <3>1. client[c].link = s
      BY <1>5 DEF LocalInv, LinkInv
    <3>2. ClientOf(c) /\ LeftOut(c)
      BY DEF LocalInv, ClientInv
    <3>3. client[c].at \in {"done", "dead"}
      BY <2>3 DEF Local!NoneKilled, Local!Alive, LocalInv, LocalTypeInv, ClientBlock
    <3>4. client[c].at # "dead"
      BY <1>1, <2>3, <3>1, <3>2 DEF ClientOf, LeftOut, Over
    <3>5. QED
      BY <3>1, <3>2, <3>3, <3>4 DEF ClientOf
  <2>4. QED
    BY <1>5, <2>1, <2>2, <2>3
<1>6. \A c \in LocalClients : heard = c => client[c].said
  OBVIOUS
<1> HIDE DEF heard
<1>7. LocalTypeInv'
  BY <1>1, <1>4 DEF LocalInv, LocalTypeInv
<1>8. PlaceInv'
  <2> SUFFICES ASSUME NEW r \in LocalServers PROVE PlaceOf(r)'
    BY DEF PlaceInv
  <2>1. PlaceOf(r)
    BY DEF LocalInv, PlaceInv
  <2>2. CASE r # s
    BY <1>4, <2>1, <2>2 DEF PlaceOf
  <2>3. CASE r = s
    <3>1. server[s].at = "read"
      BY <1>1
    <3>2. QED
      BY <1>3, <1>4, <2>1, <2>3, <3>1 DEF PlaceOf, Past
  <2>4. QED
    BY <2>2, <2>3
<1>9. LinkInv'
  <2>1. \A r \in LocalServers : \A c \in LocalClients : Queues(r, c)' = Queues(r, c)
    BY <1>4 DEF Queues
  <2>2. QED
    BY <1>1, <1>4, <2>1 DEF LocalInv, LinkInv
<1>10. Local!NoneKilled' => Local!NoneKilled
  BY <1>1, <1>4 DEF Local!NoneKilled
<1>11. client' = client /\ \A c \in LocalClients : Local!Alive(c)' = Local!Alive(c)
  BY <1>1 DEF Local!Alive
<1>12. HeardInv'
  <2> SUFFICES ASSUME NEW r \in LocalServers, NEW c \in LocalClients PROVE Heard(r, c)'
    BY DEF HeardInv
  <2>1. Heard(r, c)
    BY DEF LocalInv, HeardInv
  <2>2. CASE r # s
    BY <1>4, <1>10, <1>11, <2>1, <2>2 DEF Heard
  <2>3. CASE r = s
    BY <1>4, <1>5, <1>6, <1>10, <1>11, <2>3 DEF Heard
  <2>4. QED
    BY <2>2, <2>3
<1>13. ClientInv'
  <2> SUFFICES ASSUME NEW c \in LocalClients PROVE (ClientOf(c) /\ LeftOut(c) /\ AnsweredBy(c))'
    BY DEF ClientInv
  <2>1. ClientOf(c) /\ LeftOut(c) /\ AnsweredBy(c)
    BY DEF LocalInv, ClientInv
  <2>2. ClientOf(c)' /\ AnsweredBy(c)'
    BY <1>2, <1>4, <1>11, <2>1 DEF ClientOf, AnsweredBy
  <2>3. LeftOut(c)'
    <3>1. server[s].at = "read"
      BY <1>1
    <3>2. QED
      BY <1>4, <1>10, <1>11, <2>1, <3>1 DEF LeftOut, Over
  <2>4. QED
    BY <2>2, <2>3
<1>14. \A r \in LocalServers : Local!Rival(r) => Local!Rival(r)'
  BY <1>4 DEF Local!Rival
<1>15. NameInv'
  BY <1>1, <1>4, <1>14 DEF LocalInv, LocalTypeInv, NameInv
<1>16. QED
  BY <1>7, <1>8, <1>9, <1>12, <1>13, <1>15 DEF LocalInv

\* A client goes on, with the socket it has.
LEMMA ClientGoes ==
    ASSUME LocalInv, NEW c \in LocalClients, Local!Alive(c), UNCHANGED <<name, server>>,
           NEW new \in ClientBlock, client' = [client EXCEPT ![c] = new],
           new.link = client[c].link, new.at # "connect",
           client[c].said => new.said,
           ClientOf(c)', LeftOut(c)', AnsweredBy(c)'
    PROVE  LocalInv'
<1>1. client' \in [LocalClients -> ClientBlock]
  BY DEF LocalInv, LocalTypeInv
<1>2. \A d \in LocalClients :
         /\ client'[d].link = client[d].link
         /\ client[d].said => client'[d].said
         /\ d # c => client'[d] = client[d]
         /\ d = c => client'[d] = new
  BY DEF LocalInv, LocalTypeInv
<1>3. server' = server /\ name' = name
  OBVIOUS
<1>4. Local!NoneKilled' => Local!NoneKilled
  BY <1>2, <1>3 DEF Local!NoneKilled, Local!Alive
<1>5. \A d \in LocalClients : Local!Alive(d)' => Local!Alive(d)
  BY <1>2 DEF Local!Alive
<1>6. LinkInv'
  <2>1. \A r \in LocalServers : \A d \in LocalClients : Queues(r, d)' = Queues(r, d)
    BY <1>3 DEF Queues
  <2>2. \A d \in LocalClients : client'[d].at = "connect" => client[d].at = "connect"
    BY <1>2
  <2>3. QED
    BY <1>2, <1>3, <2>1, <2>2 DEF LocalInv, LinkInv
<1>7. HeardInv'
  <2> SUFFICES ASSUME NEW s \in LocalServers, NEW d \in LocalClients PROVE Heard(s, d)'
    BY DEF HeardInv
  <2>1. Heard(s, d)
    BY DEF LocalInv, HeardInv
  <2>2. QED
    BY <1>2, <1>3, <1>4, <1>5, <2>1 DEF Heard
<1>8. ClientInv'
  <2> SUFFICES ASSUME NEW d \in LocalClients \ {c}
               PROVE (ClientOf(d) /\ LeftOut(d) /\ AnsweredBy(d))'
    BY DEF ClientInv
  <2>1. ClientOf(d) /\ LeftOut(d) /\ AnsweredBy(d)
    BY DEF LocalInv, ClientInv
  <2>2. client'[d] = client[d]
    BY <1>2
  <2>3. QED
    BY <1>3, <1>4, <2>1, <2>2 DEF ClientOf, LeftOut, AnsweredBy
<1>9. LocalTypeInv' /\ PlaceInv' /\ NameInv'
  BY <1>1, <1>3 DEF LocalInv, LocalTypeInv, PlaceInv, PlaceOf, NameInv, Local!Rival
<1>10. QED
  BY <1>6, <1>7, <1>8, <1>9 DEF LocalInv

\* A client that is linked to nobody any more, though it has connected, was left
\* in the queue of a server that is through.
LEMMA NotLinked ==
    ASSUME LocalInv, NEW c \in LocalClients, Local!Alive(c), ~Local!Linked(c),
           Local!NoneKilled, NEW s \in LocalServers, client[c].link = s,
           server[s].peer = c => server[s].at \notin {"close", "unlink again", "done"}
    PROVE  server[s].at \in Over /\ server[s].peer \in LocalClients \ {c}
<1> USE LocalAssumption
<1>1. PlaceOf(s) /\ Heard(s, c) /\ (server[s].peer = c \/ Queues(s, c))
  BY DEF LocalInv, PlaceInv, HeardInv, LinkInv
<1>2. /\ server[s].at \in {"unlink", "bind", "listen", "accept", "read", "killed"} \cup Past
      /\ server[s].peer \in LocalClients \cup {Nobody}
      /\ server[s].at # "killed"
  BY DEF LocalInv, LocalTypeInv, ServerBlock, Local!NoneKilled
<1>3. server[s].peer # c
  BY <1>1, <1>2 DEF PlaceOf, Heard, Past, Local!Linked
<1>4. Queues(s, c)
  BY <1>1, <1>3
<1>5. server[s].queue # <<>>
  BY <1>4, EmptyDomain DEF Queues
<1>6. server[s].bound
  BY <1>5 DEF LocalInv, LinkInv
<1>7. ~Local!Listening(s)
  BY <1>4 DEF Queues, Local!Linked
<1>8. server[s].at \in Over
  BY <1>1, <1>2, <1>5, <1>6, <1>7 DEF PlaceOf, Past, Over, Local!Listening
<1>9. QED
  BY <1>1, <1>2, <1>3, <1>6, <1>8 DEF PlaceOf, Past, Over

LEMMA WriteKeeps ==
    ASSUME LocalInv, NEW c \in LocalClients, Local!ClientWrite(c) PROVE LocalInv'
<1> USE LocalAssumption
<1> DEFINE to == IF client[c].link = Nobody \/ Local!Linked(c) THEN "read" ELSE "dead"
           new == [client[c] EXCEPT !.said = Local!Linked(c), !.at = to]
<1>1. /\ client[c].at = "write" /\ UNCHANGED <<name, server>>
      /\ client' = [client EXCEPT ![c] = new]
  BY DEF Local!ClientWrite, Local!ClientGoes
<1>2. client[c] \in ClientBlock /\ ClientOf(c)
  BY DEF LocalInv, LocalTypeInv, ClientInv
<1>3. Local!Alive(c) /\ ~client[c].said /\ client[c].read = ""
  BY <1>1, <1>2 DEF Local!Alive, ClientOf
<1>4. Local!Linked(c) \in BOOLEAN
  BY DEF Local!Linked
<1>5. /\ new \in ClientBlock /\ new.at = to /\ new.said = Local!Linked(c)
      /\ new.link = client[c].link /\ new.read = ""
  BY <1>2, <1>3, <1>4 DEF ClientBlock
<1> HIDE DEF new
<1>6. client'[c] = new /\ server' = server
  BY <1>1 DEF LocalInv, LocalTypeInv
<1>7. ClientOf(c)' /\ AnsweredBy(c)'
  BY <1>5, <1>6 DEF ClientOf, AnsweredBy
<1>8. LeftOut(c)'
  <2> SUFFICES ASSUME Local!NoneKilled', to = "dead", NEW s \in LocalServers,
                      client[c].link = s
               PROVE  server[s].at \in Over /\ server[s].peer \in LocalClients \ {c}
    BY <1>5, <1>6 DEF LeftOut
  <2>1. Local!NoneKilled
    BY <1>1, <1>3 DEF Local!NoneKilled, Local!Alive, LocalInv, LocalTypeInv
  <2>2. ~Local!Linked(c)
    OBVIOUS
  <2>3. server[s].peer = c => server[s].at \notin Past
    BY <1>3 DEF LocalInv, HeardInv, Heard
  <2>4. QED
    BY <1>3, <2>1, <2>2, <2>3, NotLinked DEF Past
<1>9. QED
  BY <1>1, <1>3, <1>5, <1>7, <1>8, ClientGoes

LEMMA GreetingKeeps ==
    ASSUME LocalInv, NEW c \in LocalClients, Local!ClientRead(c) PROVE LocalInv'
<1> USE LocalAssumption
<1> DEFINE greeting == IF Local!Greeted(c) THEN "Hello from server!" ELSE ""
           new == [client[c] EXCEPT !.at = "done", !.read = greeting]
<1>1. /\ client[c].at = "read" /\ UNCHANGED <<name, server>>
      /\ Local!Greeted(c) \/ ~Local!Linked(c)
      /\ client' = [client EXCEPT ![c] = new]
  BY DEF Local!ClientRead, Local!ClientGoes
<1>2. client[c] \in ClientBlock /\ ClientOf(c)
  BY DEF LocalInv, LocalTypeInv, ClientInv
<1>3. Local!Alive(c)
  BY <1>1 DEF Local!Alive
<1>4. /\ new \in ClientBlock /\ new.at = "done" /\ new.said = client[c].said
      /\ new.link = client[c].link /\ new.read = greeting
  BY <1>2 DEF ClientBlock
<1> HIDE DEF new
<1>5. client'[c] = new /\ server' = server
  BY <1>1 DEF LocalInv, LocalTypeInv
<1>6. ClientOf(c)'
  BY <1>1, <1>2, <1>4, <1>5 DEF ClientOf
<1>7. AnsweredBy(c)'
  <2> SUFFICES ASSUME Local!Greeted(c)
               PROVE  \E s \in LocalServers : client[c].link = s /\ server[s].heard = c
    BY <1>4, <1>5 DEF AnsweredBy
  <2>1. PICK s \in LocalServers :
           server[s].peer = c /\ server[s].at \in {"close", "unlink again", "done"}
    BY DEF Local!Greeted
  <2>2. client[c].link = s /\ Heard(s, c)
    BY <2>1 DEF LocalInv, LinkInv, HeardInv
  <2>3. QED
    BY <1>3, <2>1, <2>2 DEF Heard, Past
<1>8. LeftOut(c)'
  <2> SUFFICES ASSUME Local!NoneKilled', ~Local!Greeted(c), NEW s \in LocalServers,
                      client[c].link = s
               PROVE  server[s].at \in Over /\ server[s].peer \in LocalClients \ {c}
    BY <1>4, <1>5 DEF LeftOut
  <2>1. Local!NoneKilled
    BY <1>1, <1>3 DEF Local!NoneKilled, Local!Alive, LocalInv, LocalTypeInv
  <2>2. ~Local!Linked(c)
    BY <1>1
  <2>3. server[s].peer = c => server[s].at \notin {"close", "unlink again", "done"}
    BY DEF Local!Greeted
  <2>4. QED
    BY <1>3, <2>1, <2>2, <2>3, NotLinked
<1>9. QED
  BY <1>1, <1>3, <1>4, <1>6, <1>7, <1>8, ClientGoes

LEMMA KillKeeps ==
    ASSUME LocalInv, NEW c \in LocalClients, Local!ClientKilled(c) PROVE LocalInv'
<1> DEFINE new == [client[c] EXCEPT !.at = "killed"]
<1>1. /\ Local!Alive(c) /\ UNCHANGED <<name, server>>
      /\ client' = [client EXCEPT ![c] = new]
  BY DEF Local!ClientKilled
<1>2. client[c] \in ClientBlock /\ ClientOf(c)
  BY DEF LocalInv, LocalTypeInv, ClientInv
<1>3. /\ new \in ClientBlock /\ new.at = "killed" /\ new.said = client[c].said
      /\ new.link = client[c].link /\ new.read = client[c].read
  BY <1>2 DEF ClientBlock
<1> HIDE DEF new
<1>4. client'[c] = new
  BY <1>1 DEF LocalInv, LocalTypeInv
<1>5. ClientOf(c)' /\ AnsweredBy(c)'
  BY <1>1, <1>2, <1>3, <1>4 DEF ClientOf, AnsweredBy, Local!Alive
<1>6. LeftOut(c)'
  BY <1>3, <1>4 DEF LeftOut
<1>7. QED
  BY <1>1, <1>3, <1>5, <1>6, ClientGoes

\* A client that connects enters the queue of the server that listens, if one does.
LEMMA ConnectKeeps ==
    ASSUME LocalInv, NEW c \in LocalClients, Local!Connect(c) PROVE LocalInv'
<1> USE LocalAssumption
<1> DEFINE met == name # Nobody /\ Local!Listening(name)
           new == [client[c] EXCEPT !.at = "write", !.link = IF met THEN name ELSE Nobody]
<1>1. /\ client[c].at = "connect" /\ name' = name
      /\ client' = [client EXCEPT ![c] = new]
  BY DEF Local!Connect, Local!ClientGoes
<1>2. IF met THEN server' = [server EXCEPT ![name].queue = Append(@, c)]
      ELSE server' = server
  BY DEF Local!Connect
<1>3. /\ name \in LocalServers \cup {Nobody}
      /\ client[c] \in ClientBlock /\ ClientOf(c) /\ LeftOut(c)
      /\ client[c].link = Nobody
  BY <1>1 DEF LocalInv, LocalTypeInv, ClientInv, LinkInv
<1>4. /\ new \in ClientBlock /\ new.at = "write" /\ new.said = client[c].said
      /\ new.read = client[c].read /\ new.link = IF met THEN name ELSE Nobody
  BY <1>3 DEF ClientBlock
<1> HIDE DEF new
<1>5. /\ client' \in [LocalClients -> ClientBlock]
      /\ client'[c] = new
      /\ \A d \in LocalClients \ {c} : client'[d] = client[d]
  BY <1>1, <1>4 DEF LocalInv, LocalTypeInv
<1>6. \A r \in LocalServers :
         server[r] \in ServerBlock /\ server[r].queue \in Seq(LocalClients)
  BY DEF LocalInv, LocalTypeInv, ServerBlock
<1>7. \A r \in LocalServers : Append(server[r].queue, c) \in Seq(LocalClients)
  BY <1>6, AppendProperties
<1>8. /\ server' \in [LocalServers -> ServerBlock]
      /\ \A r \in LocalServers :
           /\ server'[r].at = server[r].at
           /\ server'[r].bound = server[r].bound
           /\ server'[r].queue = IF met /\ r = name THEN Append(server[r].queue, c)
                                 ELSE server[r].queue
           /\ server'[r].peer = server[r].peer
           /\ server'[r].heard = server[r].heard
  <2>1. CASE ~met
    BY <1>2, <2>1 DEF LocalInv, LocalTypeInv
  <2>2. CASE met
    <3>1. name \in LocalServers
      BY <1>3, <2>2
    <3>2. server' = [server EXCEPT ![name] =
                       [server[name] EXCEPT !.queue = Append(server[name].queue, c)]]
      BY <1>2, <2>2
    <3> HIDE DEF met
    <3>3. QED
      BY <1>6, <1>7, <2>2, <3>1, <3>2 DEF LocalInv, LocalTypeInv, ServerBlock
  <2>3. QED
    BY <2>1, <2>2
<1>9. met => /\ name \in LocalServers /\ server[name].bound
             /\ server[name].at \in {"accept", "read", "write", "close"}
  BY <1>3 DEF Local!Listening
<1>10. \A r \in LocalServers :
          server[r].peer # c /\ ~Queues(r, c) /\ server[r].heard # c
  <2>1. \A r \in LocalServers : server[r].peer # c /\ ~Queues(r, c)
    BY <1>3 DEF LocalInv, LinkInv
  <2>2. \A r \in LocalServers : server[r].heard # c
    BY <1>1, <1>3 DEF LocalInv, HeardInv, Heard, ClientOf
  <2>3. QED
    BY <2>1, <2>2
<1>11. \A r \in LocalServers : \A d \in LocalClients :
          Queues(r, d)' <=> Queues(r, d) \/ (met /\ r = name /\ d = c)
  <2> SUFFICES ASSUME NEW r \in LocalServers, NEW d \in LocalClients
               PROVE  Queues(r, d)' <=> Queues(r, d) \/ (met /\ r = name /\ d = c)
    OBVIOUS
  <2>1. CASE ~(met /\ r = name)
    <3>1. server'[r].queue = server[r].queue
      BY <1>8, <2>1
    <3>2. QED
      BY <2>1, <3>1 DEF Queues
  <2>2. CASE met /\ r = name
    <3> DEFINE q == server[r].queue
    <3>1. q \in Seq(LocalClients) /\ server'[r].queue = Append(q, c)
      BY <1>6, <1>8, <2>2
    <3>2. Queues(r, d) <=> \E k \in DOMAIN q : q[k] = d
      BY DEF Queues
    <3>3. Queues(r, d)' <=> \E k \in DOMAIN Append(q, c) : Append(q, c)[k] = d
      BY <3>1 DEF Queues
    <3> HIDE DEF q, met
    <3>4. /\ Len(q) \in Nat /\ DOMAIN q = 1 .. Len(q)
          /\ DOMAIN Append(q, c) = 1 .. Len(q) + 1
          /\ \A k \in 1 .. Len(q) : Append(q, c)[k] = q[k]
          /\ Append(q, c)[Len(q) + 1] = c
      BY <3>1, AppendProperties, LenProperties
    <3>5. 1 .. Len(q) + 1 = 1 .. Len(q) \cup {Len(q) + 1}
      BY <3>4
    <3>6. QED
      BY <2>2, <3>2, <3>3, <3>4, <3>5
  <2>3. QED
    BY <2>1, <2>2
<1> HIDE DEF met
<1>12. LocalTypeInv'
  BY <1>1, <1>5, <1>8 DEF LocalInv, LocalTypeInv
<1>13. PlaceInv'
  <2> SUFFICES ASSUME NEW r \in LocalServers PROVE PlaceOf(r)'
    BY DEF PlaceInv
  <2>1. PlaceOf(r)
    BY DEF LocalInv, PlaceInv
  <2>2. QED
    BY <1>8, <1>9, <2>1 DEF PlaceOf
<1>14. LinkInv'
  <2>1. ASSUME NEW r \in LocalServers, NEW d \in LocalClients
        PROVE  client'[d].link = r <=> server'[r].peer = d \/ Queues(r, d)'
    <3>1. client[d].link = r <=> server[r].peer = d \/ Queues(r, d)
      BY DEF LocalInv, LinkInv
    <3>2. QED
      BY <1>4, <1>5, <1>8, <1>9, <1>10, <1>11, <3>1
  <2>2. \A r \in LocalServers :
           server'[r].peer # Nobody \/ server'[r].queue # <<>> => server'[r].bound
    BY <1>8, <1>9 DEF LocalInv, LinkInv
  <2>3. \A d \in LocalClients : client'[d].at = "connect" => client'[d].link = Nobody
    BY <1>4, <1>5 DEF LocalInv, LinkInv
  <2>4. QED
    BY <2>1, <2>2, <2>3 DEF LinkInv
<1>15. Local!NoneKilled' => Local!NoneKilled
  BY <1>1, <1>5, <1>8 DEF Local!NoneKilled
<1>16. HeardInv'
  <2> SUFFICES ASSUME NEW r \in LocalServers, NEW d \in LocalClients PROVE Heard(r, d)'
    BY DEF HeardInv
  <2>1. Heard(r, d)
    BY DEF LocalInv, HeardInv
  <2>2. CASE d = c
    BY <1>8, <1>10, <2>2 DEF Heard
  <2>3. CASE d # c
    BY <1>5, <1>8, <1>15, <2>1, <2>3 DEF Heard, Local!Alive
  <2>4. QED
    BY <2>2, <2>3
<1>17. ClientInv'
  <2> SUFFICES ASSUME NEW d \in LocalClients
               PROVE (ClientOf(d) /\ LeftOut(d) /\ AnsweredBy(d))'
    BY DEF ClientInv
  <2>1. ClientOf(d) /\ LeftOut(d) /\ AnsweredBy(d)
    BY DEF LocalInv, ClientInv
  <2>2. CASE d = c
    BY <1>1, <1>3, <1>4, <1>5, <2>2 DEF ClientOf, LeftOut, AnsweredBy
  <2>3. CASE d # c
    BY <1>5, <1>8, <1>15, <2>1, <2>3 DEF ClientOf, LeftOut, AnsweredBy
  <2>4. QED
    BY <2>2, <2>3
<1>18. NameInv'
  BY <1>1, <1>3, <1>8 DEF LocalInv, NameInv, Local!Rival
<1>19. QED
  BY <1>12, <1>13, <1>14, <1>16, <1>17, <1>18 DEF LocalInv

LEMMA NextLocal == LocalInv /\ [Local!Next]_localState => LocalInv'
<1> SUFFICES ASSUME LocalInv, [Local!Next]_localState PROVE LocalInv'
  OBVIOUS
<1>1. CASE UNCHANGED localState
  <2>1. server' = server /\ client' = client /\ name' = name
    BY <1>1 DEF localState
  <2>2. LocalTypeInv' /\ PlaceInv'
    BY <2>1 DEF LocalInv, LocalTypeInv, PlaceInv, PlaceOf
  <2>3. LinkInv'
    BY <2>1 DEF LocalInv, LinkInv, Queues
  <2>4. HeardInv'
    BY <2>1 DEF LocalInv, HeardInv, Heard, Local!Alive, Local!NoneKilled
  <2>5. ClientInv'
    BY <2>1 DEF LocalInv, ClientInv, ClientOf, LeftOut, AnsweredBy, Local!NoneKilled
  <2>6. NameInv'
    BY <2>1 DEF LocalInv, NameInv, Local!Rival
  <2>7. QED
    BY <2>2, <2>3, <2>4, <2>5, <2>6 DEF LocalInv
<1>2. QED
  BY <1>1, LocalServerMoves, BindKeeps, AcceptKeeps, ReadKeeps,
     ConnectKeeps, WriteKeeps, GreetingKeeps, KillKeeps
  DEF Local!Next, Local!ServerStep, Local!ClientStep

(* Any servers and clients that meet at one name, and a backlog of any size: *)
(* no result of a call is looked at, and yet a client is greeted by a server *)
(* that has read what it wrote, and all else has a rival server to blame     *)
(* (unix_domain_sockets.c:19-38, 53-58).                                      *)
THEOREM GreetsItsClient == Spec => []GreetsWhomItReads
<1>1. Init => LocalInv
  BY InitLocal DEF Init
<1>2. LocalInv /\ [Next]_vars => LocalInv'
  BY NextLocal, LocalSteps
<1>3. LocalInv => GreetsWhomItReads
  <2> SUFFICES ASSUME LocalInv PROVE Local!GreetsWhomItReads
    BY DEF GreetsWhomItReads
  <2> USE LocalAssumption
  <2>1. ASSUME NEW c \in LocalClients, client[c].read # ""
        PROVE  server[client[c].link].heard = c
    BY <2>1 DEF LocalInv, ClientInv, AnsweredBy
  <2>2. ASSUME NEW c \in LocalClients, Local!NoneKilled, ~Local!Alive(c),
               client[c].read = "", client[c].link # Nobody
        PROVE  server[client[c].link].heard \in LocalClients \ {c}
    <3>1. PICK s \in LocalServers : client[c].link = s
      BY <2>2 DEF LocalInv, LocalTypeInv, ClientBlock
    <3>2. client[c].at \in {"done", "dead"}
      BY <2>2 DEF Local!NoneKilled, Local!Alive, LocalInv, LocalTypeInv, ClientBlock
    <3>3. server[s].at \in Over /\ server[s].peer \in LocalClients \ {c}
      BY <2>2, <3>1, <3>2 DEF LocalInv, ClientInv, LeftOut
    <3>4. server[s].heard = server[s].peer
      BY <2>2, <3>3 DEF LocalInv, HeardInv, Heard, Over, Past
    <3>5. QED
      BY <3>1, <3>3, <3>4
  <2>3. ASSUME NEW s \in LocalServers, Local!NoneKilled, server[s].heard = "garbage"
        PROVE  Local!Rival(s)
    <3>1. PlaceOf(s) /\ server[s] \in ServerBlock /\ server[s].at # "killed"
      BY <2>3 DEF LocalInv, LocalTypeInv, PlaceInv, Local!NoneKilled
    <3>2. server[s].at \in Past
      BY <2>3, <3>1 DEF PlaceOf, ServerBlock
    <3>3. server[s].peer = Nobody
      BY <2>3, <3>1, <3>2 DEF ServerBlock, LocalInv, HeardInv, Heard
    <3>4. ~server[s].bound
      BY <3>1, <3>2, <3>3 DEF PlaceOf
    <3>5. QED
      BY <3>1, <3>2, <3>4 DEF LocalInv, NameInv, Past
  <2>4. \A s \in LocalServers : server[s].at = "accept" /\ name # s => Local!Rival(s)
    BY DEF LocalInv, NameInv
  <2>5. QED
    BY <2>1, <2>2, <2>3, <2>4 DEF Local!GreetsWhomItReads
<1>4. QED
  BY <1>1, <1>2, <1>3, PTL DEF Spec

-----------------------------------------------------------------------------
(* The FIFO: plain texts go from the senders to content, to what stdio has   *)
(* taken, and to the line that is printed when the last writer has closed.   *)

Holds(seq, s) == \E k \in 1 .. Len(seq) : seq[k] = s

PipeTypeInv ==
    /\ kind \in {"none", "fifo", "file"}
    /\ receiver \in {"mkfifo", "open", "fgets", "print"}
    /\ sender \in [Senders -> {"open", "write", "close", "done", "dead"}]
    /\ content \in Seq(Senders) /\ taken \in Seq(Senders)
    /\ got \in [Senders -> Nat]
    /\ DOMAIN text = Senders

\* Nothing has happened that the property excludes.
Plain == kind # "file" /\ ~interrupted /\ \A s \in Senders : text[s] = "plain"

BeforeFifo ==
    kind = "none" <=> receiver = "mkfifo"
QuietStart ==
    kind = "none" => content = <<>> /\ \A s \in Senders : sender[s] = "open"

\* Where the text of a sender is
TextOf(s) ==
    /\ got[s] <= 1
    /\ sender[s] \in {"open", "write"} =>
          ~Holds(content, s) /\ ~Holds(taken, s) /\ got[s] = 0
    /\ sender[s] = "close" =>
          Holds(content, s) \/ (receiver = "fgets" /\ Holds(taken, s))
    /\ Holds(content, s) => got[s] = 0
    /\ Holds(taken, s) /\ receiver = "fgets" => got[s] = 0

\* A sender that runs alone meets a receiver that reads until it has ended.
Alone(s) == \A r \in Senders \ {s} : sender[r] = "open"
AloneInv(s) ==
    Alone(s) =>
        /\ sender[s] \in {"write", "close"} => receiver = "fgets"
        /\ sender[s] # "dead"
        /\ sender[s] = "done" =>
              got[s] = 1 \/ (receiver = "fgets" /\ (Holds(content, s) \/ Holds(taken, s)))

\* The receiver reads only when there has been a sender, and then there is
\* something to read, or will be.
ReceiverInv ==
    /\ receiver \in {"fgets", "print"} => \E s \in Senders : sender[s] # "open"
    /\ receiver = "fgets" =>
          content # <<>> \/ taken # <<>> \/ \E s \in Senders : sender[s] = "write"
    /\ receiver \in {"mkfifo", "open"} => taken = <<>>

PlainInv ==
    /\ BeforeFifo /\ QuietStart /\ ReceiverInv /\ ~stale
    /\ \A s \in Senders : TextOf(s) /\ AloneInv(s)

PipeInv == PipeTypeInv /\ (Plain => PlainInv)


LEMMA PipeSteps == [Next]_vars => [Pipe!Next]_pipeState
BY DEF Next, vars, SumNext, BarrierNext, WorkNext, WrapNext, PipeNext, LocalNext,
   MainCancels, ThreadRuns, WriterRuns, ReaderRuns, ParentKilled, ProcessRuns,
   OthersIdle, Idle, Runs

LEMMA HoldsEmpty == \A s : ~Holds(<<>>, s)
BY DEF Holds

LEMMA HoldsAppend ==
    ASSUME NEW S, NEW seq \in Seq(S), NEW e \in S
    PROVE  /\ Append(seq, e) \in Seq(S) /\ Append(seq, e) # <<>>
           /\ \A s : Holds(Append(seq, e), s) <=> Holds(seq, s) \/ s = e
<1>1. /\ Append(seq, e) \in Seq(S) /\ Len(Append(seq, e)) = Len(seq) + 1
      /\ \A k \in 1 .. Len(seq) : Append(seq, e)[k] = seq[k]
      /\ Append(seq, e)[Len(seq) + 1] = e
  BY AppendProperties
<1>2. Len(seq) \in Nat /\ 1 .. Len(seq) + 1 = 1 .. Len(seq) \cup {Len(seq) + 1}
  BY LenProperties
<1>3. \A s : Holds(Append(seq, e), s) <=> Holds(seq, s) \/ s = e
  BY <1>1, <1>2 DEF Holds
<1>4. Append(seq, e) # <<>>
  BY <1>3, HoldsEmpty
<1>5. QED
  BY <1>1, <1>3, <1>4

LEMMA HoldsConcat ==
    ASSUME NEW S, NEW a \in Seq(S), NEW b \in Seq(S)
    PROVE  a \o b \in Seq(S) /\ \A s : Holds(a \o b, s) <=> Holds(a, s) \/ Holds(b, s)
<1>1. /\ a \o b \in Seq(S) /\ Len(a \o b) = Len(a) + Len(b)
      /\ \A k \in 1 .. Len(a) + Len(b) :
            (a \o b)[k] = IF k <= Len(a) THEN a[k] ELSE b[k - Len(a)]
  BY ConcatProperties
<1>2. Len(a) \in Nat /\ Len(b) \in Nat
  BY LenProperties
<1>3. ASSUME NEW s, Holds(a, s) PROVE Holds(a \o b, s)
  <2>1. PICK k \in 1 .. Len(a) : a[k] = s
    BY <1>3 DEF Holds
  <2>2. k \in 1 .. Len(a) + Len(b) /\ k <= Len(a)
    BY <1>2
  <2>3. QED
    BY <1>1, <2>1, <2>2 DEF Holds
<1>4. ASSUME NEW s, Holds(b, s) PROVE Holds(a \o b, s)
  <2>1. PICK k \in 1 .. Len(b) : b[k] = s
    BY <1>4 DEF Holds
  <2>2. /\ Len(a) + k \in 1 .. Len(a) + Len(b)
        /\ ~(Len(a) + k <= Len(a)) /\ Len(a) + k - Len(a) = k
    BY <1>2
  <2>3. QED
    BY <1>1, <2>1, <2>2 DEF Holds
<1>5. ASSUME NEW s, Holds(a \o b, s) PROVE Holds(a, s) \/ Holds(b, s)
  <2>1. PICK k \in 1 .. Len(a) + Len(b) : (a \o b)[k] = s
    BY <1>1, <1>5 DEF Holds
  <2>2. CASE k <= Len(a)
    <3>1. k \in 1 .. Len(a)
      BY <1>2, <2>2
    <3>2. QED
      BY <1>1, <2>1, <2>2, <3>1 DEF Holds
  <2>3. CASE ~(k <= Len(a))
    <3>1. k - Len(a) \in 1 .. Len(b)
      BY <1>2, <2>3
    <3>2. QED
      BY <1>1, <2>1, <2>3, <3>1 DEF Holds
  <2>4. QED
    BY <2>2, <2>3
<1>6. QED
  BY <1>1, <1>3, <1>4, <1>5

LEMMA HoldsSome == ASSUME NEW seq, NEW s, Holds(seq, s) PROVE seq # <<>>
BY HoldsEmpty

LEMMA InitPipe == Pipe!Init => PipeInv
<1> SUFFICES ASSUME Pipe!Init PROVE PipeInv
  OBVIOUS
<1> USE DEF Pipe!Init
<1>1. <<>> \in Seq(Senders)
  BY EmptySeq
<1>2. PipeTypeInv
  BY <1>1 DEF PipeTypeInv
<1>3. BeforeFifo /\ QuietStart /\ ReceiverInv /\ ~stale
  BY DEF BeforeFifo, QuietStart, ReceiverInv
<1>4. \A s \in Senders : ~Holds(content, s) /\ ~Holds(taken, s)
  BY HoldsEmpty
<1>5. \A s \in Senders : TextOf(s) /\ AloneInv(s)
  BY <1>4 DEF TextOf, AloneInv
<1>6. QED
  BY <1>2, <1>3, <1>5 DEF PipeInv, PlainInv

LEMMA KeptType ==
    ASSUME PipeTypeInv, NEW writers, NEW reading
    PROVE  /\ Pipe!Kept(writers, reading) \in Seq(Senders)
           /\ writers # {} \/ reading => Pipe!Kept(writers, reading) = content
           /\ Pipe!Kept(writers, reading) \in {content, <<>>}
BY EmptySeq DEF Pipe!Kept, PipeTypeInv

LEMMA PipeType == PipeTypeInv /\ [Pipe!Next]_pipeState => PipeTypeInv'
<1> SUFFICES ASSUME PipeTypeInv, [Pipe!Next]_pipeState PROVE PipeTypeInv'
  OBVIOUS
<1> USE DEF Pipe!SenderGoes, Pipe!ReceiverGoes, Pipe!history
<1>1. <<>> \in Seq(Senders)
  BY EmptySeq
<1>2. ASSUME NEW s \in Senders, Pipe!SenderOpen(s) PROVE PipeTypeInv'
  BY <1>1, <1>2 DEF Pipe!SenderOpen, PipeTypeInv
<1>3. ASSUME NEW s \in Senders, Pipe!SenderWrite(s) PROVE PipeTypeInv'
  <2>1. <<s>> \in Seq(Senders) /\ Append(content, s) \in Seq(Senders)
    BY HoldsAppend DEF PipeTypeInv
  <2>2. content' \in Seq(Senders)
    BY <1>3, <2>1 DEF Pipe!SenderWrite, PipeTypeInv
  <2>3. QED
    BY <1>3, <2>2 DEF Pipe!SenderWrite, PipeTypeInv
<1>4. ASSUME NEW s \in Senders, Pipe!SenderClose(s) \/ Pipe!SenderKilled(s) PROVE PipeTypeInv'
  <2>1. content' \in Seq(Senders)
    BY <1>4, KeptType DEF Pipe!SenderClose, Pipe!SenderKilled
  <2>2. QED
    BY <1>4, <2>1 DEF Pipe!SenderClose, Pipe!SenderKilled, PipeTypeInv
<1>5. CASE Pipe!MakeFifo \/ Pipe!ReceiverOpen
  BY <1>5 DEF Pipe!MakeFifo, Pipe!ReceiverOpen, PipeTypeInv
<1>6. CASE Pipe!Read
  <2>1. taken' \in Seq(Senders)
    BY <1>6, HoldsConcat DEF Pipe!Read, PipeTypeInv
  <2>2. QED
    BY <1>1, <1>6, <2>1 DEF Pipe!Read, PipeTypeInv
<1>7. CASE Pipe!PrintLine
  BY <1>7 DEF Pipe!PrintLine, PipeTypeInv
<1>8. CASE Pipe!ReceiverClose \/ Pipe!ReceiverKilled
  <2>1. content' \in Seq(Senders)
    BY <1>8, KeptType DEF Pipe!ReceiverClose, Pipe!ReceiverKilled
  <2>2. QED
    BY <1>1, <1>8, <2>1 DEF Pipe!ReceiverClose, Pipe!ReceiverKilled, PipeTypeInv
<1>9. CASE UNCHANGED pipeState
  BY <1>9 DEF pipeState, PipeTypeInv
<1>10. QED
  BY <1>2, <1>3, <1>4, <1>5, <1>6, <1>7, <1>8, <1>9 DEF Pipe!Next

\* What the property excludes does not go away.
LEMMA PlainBefore == ASSUME [Pipe!Next]_pipeState, Plain' PROVE Plain
<1>1. text' = text /\ (interrupted => interrupted') /\ (kind = "file" => kind' = "file")
  <2> USE DEF Pipe!history
  <2>1. CASE \E s \in Senders : Pipe!SenderOpen(s) \/ Pipe!SenderWrite(s)
    BY <2>1 DEF Pipe!SenderOpen, Pipe!SenderWrite
  <2>2. CASE \E s \in Senders : Pipe!SenderClose(s) \/ Pipe!SenderKilled(s)
    BY <2>2 DEF Pipe!SenderClose, Pipe!SenderKilled
  <2>3. CASE Pipe!MakeFifo \/ Pipe!ReceiverOpen \/ Pipe!Read \/ Pipe!PrintLine
    BY <2>3 DEF Pipe!MakeFifo, Pipe!ReceiverOpen, Pipe!Read, Pipe!PrintLine
  <2>4. CASE Pipe!ReceiverClose
    BY <2>4 DEF Pipe!ReceiverClose
  <2>5. CASE Pipe!ReceiverKilled
    BY <2>5 DEF Pipe!ReceiverKilled
  <2>6. CASE UNCHANGED pipeState
    BY <2>6 DEF pipeState
  <2>7. QED
    BY <2>1, <2>2, <2>3, <2>4, <2>5, <2>6 DEF Pipe!Next
<1>2. QED
  BY <1>1 DEF Plain

\* A sender that is no longer at its start, if it moved, is the only one of them.
LEMMA SenderMoves ==
    ASSUME PipeTypeInv, NEW s \in Senders, NEW to \in {"write", "close", "done", "dead"},
           sender' = [sender EXCEPT ![s] = to]
    PROVE  /\ sender'[s] = to
           /\ \A r \in Senders \ {s} : sender'[r] = sender[r] /\ ~Alone(r)'
           /\ Alone(s)' => Alone(s)
BY DEF PipeTypeInv, Alone

LEMMA SenderPlain ==
    ASSUME PipeTypeInv, Plain, PlainInv, NEW s \in Senders, Plain',
           Pipe!SenderOpen(s) \/ Pipe!SenderWrite(s) \/ Pipe!SenderClose(s)
    PROVE  PlainInv'
<1> USE DEF Pipe!SenderGoes, Pipe!history
<1>1. kind = "fifo" /\ kind' = "fifo" /\ receiver # "mkfifo" /\ text[s] = "plain"
  BY DEF Pipe!SenderOpen, Pipe!SenderWrite, Pipe!SenderClose, Plain, PlainInv, BeforeFifo,
     QuietStart, PipeTypeInv
<1>2. TextOf(s) /\ AloneInv(s) /\ ReceiverInv /\ ~stale
  BY DEF PlainInv
<1>3. /\ taken' = taken /\ got' = got /\ stale' = stale
      /\ receiver' \in {"open", "fgets", "print"}
  BY <1>1 DEF Pipe!SenderOpen, Pipe!SenderWrite, Pipe!SenderClose, PipeTypeInv
<1>4. BeforeFifo' /\ QuietStart'
  BY <1>1, <1>3 DEF BeforeFifo, QuietStart
<1>5. SUFFICES ReceiverInv' /\ \A r \in Senders : TextOf(r)' /\ AloneInv(r)'
  BY <1>2, <1>3, <1>4 DEF PlainInv
<1>6. CASE Pipe!SenderOpen(s)
  <2>1. /\ sender[s] = "open" /\ content' = content
        /\ sender' = [sender EXCEPT ![s] = "write"]
        /\ receiver = "open" \/ receiver \in {"fgets", "print"}
        /\ receiver' = IF receiver = "open" THEN "fgets" ELSE receiver
    BY <1>1, <1>6 DEF Pipe!SenderOpen, Pipe!Reading
  <2>2. /\ sender'[s] = "write"
        /\ \A r \in Senders \ {s} : sender'[r] = sender[r] /\ ~Alone(r)'
        /\ Alone(s)' => Alone(s)
    BY <2>1, SenderMoves
  <2>3. ReceiverInv'
    BY <1>3, <2>1, <2>2 DEF ReceiverInv
  <2>4. receiver' = receiver \/ taken = <<>>
    BY <1>2, <2>1 DEF ReceiverInv
  <2>5. ASSUME NEW r \in Senders PROVE TextOf(r)'
    <3>1. TextOf(r)
      BY DEF PlainInv
    <3>2. CASE r = s
      BY <1>3, <2>1, <2>2, <3>1, <3>2 DEF TextOf
    <3>3. CASE r # s
      <4>1. sender'[r] = sender[r]
        BY <2>2, <3>3
      <4>2. CASE receiver' = receiver
        BY <1>3, <2>1, <3>1, <4>1, <4>2 DEF TextOf
      <4>3. CASE taken = <<>> /\ receiver = "open"
        BY <1>3, <2>1, <3>1, <4>1, <4>3, HoldsEmpty DEF TextOf
      <4>4. QED
        BY <2>1, <2>4, <4>2, <4>3
    <3>4. QED
      BY <3>2, <3>3
  <2>6. AloneInv(s)'
    <3>1. Alone(s) => receiver = "open"
      BY <1>2, <2>1 DEF Alone, ReceiverInv
    <3>2. QED
      BY <2>1, <2>2, <3>1 DEF AloneInv
  <2>7. \A r \in Senders \ {s} : AloneInv(r)'
    BY <2>2 DEF AloneInv
  <2>8. QED
    BY <2>3, <2>5, <2>6, <2>7
<1>7. CASE Pipe!SenderWrite(s)
  <2> DEFINE reading == receiver \in {"fgets", "print"}
             to == IF reading THEN "close" ELSE "dead"
  <2>1. /\ sender[s] = "write" /\ receiver' = receiver
        /\ sender' = [sender EXCEPT ![s] = to]
        /\ content' = IF reading THEN Append(content, s) ELSE content
    BY <1>1, <1>7 DEF Pipe!SenderWrite, Pipe!Reading
  <2>2. /\ sender'[s] = to
        /\ \A r \in Senders \ {s} : sender'[r] = sender[r] /\ ~Alone(r)'
        /\ Alone(s)' => Alone(s)
    BY <2>1, SenderMoves
  <2>3. reading =>
          /\ content' # <<>>
          /\ \A r \in Senders : Holds(content', r) <=> Holds(content, r) \/ r = s
    BY <2>1, HoldsAppend DEF PipeTypeInv
  <2>4. ~reading => content' = content
    BY <2>1
  <2>5. ReceiverInv'
    BY <1>2, <1>3, <2>1, <2>2, <2>3 DEF ReceiverInv
  <2>6. ASSUME NEW r \in Senders PROVE TextOf(r)'
    <3>1. TextOf(r)
      BY DEF PlainInv
    <3>2. \/ Holds(content', r) <=> Holds(content, r)
          \/ reading /\ r = s /\ Holds(content', r)
      BY <2>3, <2>4
    <3>3. CASE r = s
      <4>1. got[s] = 0 /\ ~Holds(taken, s) /\ sender'[s] \in {"close", "dead"}
            /\ (sender'[s] = "close" => reading)
        BY <1>2, <2>1, <2>2 DEF TextOf
      <4>2. sender'[s] = "close" => Holds(content', s)
        BY <2>3, <4>1
      <4>3. QED
        BY <1>3, <2>1, <3>3, <4>1, <4>2 DEF TextOf
    <3>4. CASE r # s
      <4>1. Holds(content', r) <=> Holds(content, r)
        BY <3>2, <3>4
      <4>2. sender'[r] = sender[r]
        BY <2>2, <3>4
      <4>3. QED
        BY <1>3, <2>1, <3>1, <4>1, <4>2 DEF TextOf
    <3>5. QED
      BY <3>3, <3>4
  <2>7. AloneInv(s)'
    BY <1>2, <2>1, <2>2 DEF AloneInv
  <2>8. \A r \in Senders \ {s} : AloneInv(r)'
    BY <2>2 DEF AloneInv
  <2>9. QED
    BY <2>5, <2>6, <2>7, <2>8
<1>8. CASE Pipe!SenderClose(s)
  <2>1. /\ sender[s] = "close" /\ receiver' = receiver
        /\ sender' = [sender EXCEPT ![s] = "done"]
        /\ content' = Pipe!Kept(Pipe!Writers \ {s}, Pipe!Reading)
    BY <1>8 DEF Pipe!SenderClose
  <2>2. /\ sender'[s] = "done"
        /\ \A r \in Senders \ {s} : sender'[r] = sender[r] /\ ~Alone(r)'
        /\ Alone(s)' => Alone(s)
    BY <2>1, SenderMoves
  <2>3. /\ receiver \in {"fgets", "print"} => content' = content
        /\ \A r \in Senders \ {s} : sender[r] \in {"write", "close"} => content' = content
        /\ content' \in {content, <<>>}
    <3>1. receiver \in {"fgets", "print"} => Pipe!Reading
      BY DEF Pipe!Reading
    <3>2. \A r \in Senders \ {s} : sender[r] \in {"write", "close"} => Pipe!Writers \ {s} # {}
      BY DEF Pipe!Writers
    <3>3. QED
      BY <2>1, <3>1, <3>2, KeptType
  <2>4. \A r \in Senders : Holds(content', r) => Holds(content, r)
    BY <2>3, HoldsEmpty
  <2>5. ReceiverInv'
    BY <1>2, <1>3, <2>1, <2>2, <2>3 DEF ReceiverInv
  <2>6. ASSUME NEW r \in Senders PROVE TextOf(r)'
    <3>1. TextOf(r)
      BY DEF PlainInv
    <3>2. CASE r = s
      BY <1>3, <2>1, <2>2, <2>4, <3>1, <3>2 DEF TextOf
    <3>3. CASE r # s
      <4>1. sender'[r] = sender[r] /\ (sender[r] = "close" => content' = content)
        BY <2>2, <2>3, <3>3
      <4>2. QED
        BY <1>3, <2>1, <2>4, <3>1, <4>1 DEF TextOf
    <3>4. QED
      BY <3>2, <3>3
  <2>7. AloneInv(s)'
    BY <1>2, <1>3, <2>1, <2>2, <2>3 DEF AloneInv, TextOf
  <2>8. \A r \in Senders \ {s} : AloneInv(r)'
    BY <2>2 DEF AloneInv
  <2>9. QED
    BY <2>5, <2>6, <2>7, <2>8
<1>9. QED
  BY <1>6, <1>7, <1>8

\* No text of plain senders ends a line before its sender closes.
LEMMA PlainLine ==
    ASSUME PipeTypeInv, Plain PROVE ~Pipe!Complete /\ Pipe!Line = taken
<1>1. \A k \in 1 .. Len(taken) : taken[k] \in Senders
  BY LenProperties DEF PipeTypeInv
<1>2. {k \in 1 .. Len(taken) : Pipe!EndsLine(taken[k])} = {}
  BY <1>1 DEF Plain, Pipe!EndsLine
<1>3. Pipe!SelectInSeq(taken, Pipe!EndsLine) = 0
  BY <1>2 DEF Pipe!SelectInSeq
<1>4. ~Pipe!Complete
  BY <1>3 DEF Pipe!Complete
<1>5. QED
  BY <1>4 DEF Pipe!Line

LEMMA ReceiverPlain ==
    ASSUME PipeTypeInv, Plain, PlainInv, Plain',
           \/ Pipe!MakeFifo \/ Pipe!ReceiverOpen \/ Pipe!Read \/ Pipe!PrintLine
           \/ Pipe!ReceiverClose
    PROVE  PlainInv'
<1> USE DEF Pipe!ReceiverGoes, Pipe!history
<1>1. /\ kind = "fifo" \/ Pipe!MakeFifo
      /\ kind' = "fifo" /\ receiver' # "mkfifo"
  BY DEF Pipe!MakeFifo, Pipe!ReceiverOpen, Pipe!Read, Pipe!PrintLine, Pipe!ReceiverClose,
     Plain, PlainInv, BeforeFifo, PipeTypeInv
<1>2. ReceiverInv /\ ~stale /\ \A s \in Senders : TextOf(s) /\ AloneInv(s)
  BY DEF PlainInv
<1>3. sender' = sender /\ \A s \in Senders : Alone(s)' <=> Alone(s)
  BY DEF Pipe!MakeFifo, Pipe!ReceiverOpen, Pipe!Read, Pipe!PrintLine, Pipe!ReceiverClose, Alone
<1>4. BeforeFifo' /\ QuietStart'
  BY <1>1 DEF BeforeFifo, QuietStart
<1>5. SUFFICES ReceiverInv' /\ ~stale' /\ \A s \in Senders : TextOf(s)' /\ AloneInv(s)'
  BY <1>4 DEF PlainInv
<1>6. CASE Pipe!MakeFifo
  <2>1. /\ receiver = "mkfifo" /\ receiver' = "open"
        /\ UNCHANGED <<content, taken, got, stale>>
    BY <1>6 DEF Pipe!MakeFifo
  <2>2. \A s \in Senders : sender[s] = "open"
    BY <2>1 DEF PlainInv, BeforeFifo, QuietStart
  <2>3. QED
    BY <1>2, <1>3, <2>1, <2>2 DEF ReceiverInv, TextOf, AloneInv
<1>7. CASE Pipe!ReceiverOpen
  <2>1. /\ receiver = "open" /\ receiver' = "fgets"
        /\ UNCHANGED <<content, taken, got, stale>>
        /\ taken = <<>>
    BY <1>2, <1>7 DEF Pipe!ReceiverOpen, ReceiverInv
  <2>2. PICK w \in Senders : sender[w] \in {"write", "close"}
    BY <1>1, <1>7 DEF Pipe!ReceiverOpen, Pipe!MakeFifo, Pipe!Writers
  <2>3. sender[w] = "write" \/ content # <<>>
    BY <1>2, <2>1, <2>2, HoldsSome DEF TextOf
  <2>4. ReceiverInv'
    BY <1>3, <2>1, <2>2, <2>3 DEF ReceiverInv
  <2>5. ASSUME NEW s \in Senders PROVE TextOf(s)' /\ AloneInv(s)'
    <3>1. TextOf(s) /\ AloneInv(s)
      BY <1>2
    <3>2. TextOf(s)'
      BY <1>3, <2>1, <3>1, HoldsEmpty DEF TextOf
    <3>3. AloneInv(s)'
      BY <1>3, <2>1, <3>1 DEF AloneInv
    <3>4. QED
      BY <3>2, <3>3
  <2>6. QED
    BY <1>2, <2>1, <2>4, <2>5
<1>8. CASE Pipe!Read
  <2>1. /\ receiver = "fgets" /\ receiver' = "fgets" /\ content # <<>>
        /\ taken' = taken \o content /\ content' = <<>>
        /\ UNCHANGED <<got, stale>>
    BY <1>1, <1>8 DEF Pipe!Read, Pipe!MakeFifo
  <2>2. /\ \A s : Holds(taken', s) <=> Holds(taken, s) \/ Holds(content, s)
        /\ \A s : ~Holds(content', s)
    BY <2>1, HoldsConcat, HoldsEmpty DEF PipeTypeInv
  <2>3. taken' # <<>>
    <3>1. content \in Seq(Senders) /\ taken \in Seq(Senders)
      BY DEF PipeTypeInv
    <3>2. QED
      BY <2>1, <3>1, ConcatSimplifications!concIsEmpty
  <2>4. ReceiverInv'
    BY <1>2, <1>3, <2>1, <2>3 DEF ReceiverInv
  <2>5. ASSUME NEW s \in Senders PROVE TextOf(s)' /\ AloneInv(s)'
    <3>1. TextOf(s) /\ AloneInv(s)
      BY <1>2
    <3>2. TextOf(s)'
      BY <1>3, <2>1, <2>2, <3>1 DEF TextOf
    <3>3. AloneInv(s)'
      BY <1>3, <2>1, <2>2, <3>1 DEF AloneInv
    <3>4. QED
      BY <3>2, <3>3
  <2>6. QED
    BY <1>2, <2>1, <2>4, <2>5
<1>9. CASE Pipe!PrintLine
  <2>1. /\ receiver = "fgets" /\ receiver' = "print" /\ UNCHANGED <<content, taken>>
        /\ stale' = (stale \/ taken = <<>>)
        /\ got' = [s \in Senders |->
                     IF Pipe!Contains(Pipe!Line, s) /\ got[s] < 2 THEN got[s] + 1 ELSE got[s]]
        /\ Pipe!Complete \/ Pipe!EndOfFile
    BY <1>9 DEF Pipe!PrintLine
  <2>2. ~Pipe!Complete /\ Pipe!Line = taken
    BY PlainLine
  <2>3. content = <<>> /\ \A s \in Senders : sender[s] \notin {"write", "close"}
    BY <1>1, <1>9, <2>1, <2>2 DEF Pipe!EndOfFile, Pipe!Writers, Pipe!MakeFifo
  <2>4. taken # <<>>
    BY <1>2, <2>1, <2>3 DEF ReceiverInv
  <2>5. \A s \in Senders : Pipe!Contains(Pipe!Line, s) <=> Holds(taken, s)
    BY <2>2 DEF Pipe!Contains, Holds
  <2>6. \A s \in Senders : got'[s] = IF Holds(taken, s) THEN 1 ELSE got[s]
    BY <1>2, <2>1, <2>5 DEF TextOf, PipeTypeInv
  <2>7. ReceiverInv'
    BY <1>2, <1>3, <2>1 DEF ReceiverInv
  <2>8. ASSUME NEW s \in Senders PROVE TextOf(s)' /\ AloneInv(s)'
    <3>1. TextOf(s) /\ AloneInv(s) /\ ~Holds(content, s)
      BY <1>2, <2>3, HoldsEmpty
    <3>2. TextOf(s)'
      BY <1>3, <2>1, <2>3, <2>6, <3>1 DEF TextOf
    <3>3. AloneInv(s)'
      BY <1>3, <2>1, <2>3, <2>6, <3>1 DEF AloneInv
    <3>4. QED
      BY <3>2, <3>3
  <2>9. QED
    BY <1>2, <2>1, <2>4, <2>7, <2>8
<1>10. CASE Pipe!ReceiverClose
  <2>1. /\ receiver = "print" /\ receiver' = "open" /\ UNCHANGED <<got, stale>>
        /\ taken' = <<>> /\ content' = Pipe!Kept(Pipe!Writers, FALSE)
    BY <1>10 DEF Pipe!ReceiverClose
  <2>2. /\ \A r \in Senders : sender[r] \in {"write", "close"} => content' = content
        /\ content' \in {content, <<>>}
    <3>1. \A r \in Senders : sender[r] \in {"write", "close"} => Pipe!Writers # {}
      BY DEF Pipe!Writers
    <3>2. QED
      BY <2>1, <3>1, KeptType
  <2>3. \A s \in Senders : ~Holds(taken', s) /\ (Holds(content', s) => Holds(content, s))
    BY <2>1, <2>2, HoldsEmpty
  <2>4. ReceiverInv'
    BY <2>1 DEF ReceiverInv
  <2>5. ASSUME NEW s \in Senders PROVE TextOf(s)' /\ AloneInv(s)'
    <3>1. TextOf(s) /\ AloneInv(s)
      BY <1>2
    <3>2. TextOf(s)'
      BY <1>3, <2>1, <2>2, <2>3, <3>1 DEF TextOf
    <3>3. AloneInv(s)'
      BY <1>3, <2>1, <3>1 DEF AloneInv
    <3>4. QED
      BY <3>2, <3>3
  <2>6. QED
    BY <1>2, <2>1, <2>4, <2>5
<1>11. QED
  BY <1>6, <1>7, <1>8, <1>9, <1>10

LEMMA NextPipe == PipeInv /\ [Pipe!Next]_pipeState => PipeInv'
<1> SUFFICES ASSUME PipeInv, [Pipe!Next]_pipeState, Plain' PROVE PlainInv'
  BY PipeType DEF PipeInv
<1>1. PipeTypeInv /\ Plain /\ PlainInv
  BY PlainBefore DEF PipeInv
<1>2. CASE UNCHANGED pipeState
  BY <1>1, <1>2 DEF pipeState, PlainInv, BeforeFifo, QuietStart, ReceiverInv, TextOf,
     AloneInv, Alone, Holds
<1>3. CASE \E s \in Senders : Pipe!SenderKilled(s)
  BY <1>3 DEF Pipe!SenderKilled, Plain
<1>4. CASE Pipe!ReceiverKilled
  BY <1>4 DEF Pipe!ReceiverKilled, Plain
<1>5. QED
  BY <1>1, <1>2, <1>3, <1>4, SenderPlain, ReceiverPlain DEF Pipe!Next

(* Any number of senders: over a FIFO and without signals no plain text is   *)
(* printed twice and no line that was not read, and a sender that runs alone *)
(* is printed (named_pipe_recver.c:23-30, named_pipe_sender.c:21-28).        *)
THEOREM PlainTextsPrintOnce == Spec => []PlainTextsArriveOnce
<1>1. Init => PipeInv
  BY InitPipe DEF Init
<1>2. PipeInv /\ [Next]_vars => PipeInv'
  BY NextPipe, PipeSteps
<1>3. PipeInv => PlainTextsArriveOnce
  BY DEF PipeInv, Plain, PlainInv, TextOf, AloneInv, Alone, PlainTextsArriveOnce,
     Pipe!PlainTextsArriveOnce
<1>4. QED
  BY <1>1, <1>2, <1>3, PTL DEF Spec

-----------------------------------------------------------------------------
(* The programs that fork.  What their codes are like, step by step.         *)

ForkAt == [forktest |-> 2, exec2 |-> 1, exec3 |-> 1, exec4 |-> 1,
           orphans |-> 1, zombies |-> 1, shmem |-> 2, pipes |-> 1]
Execs == {"exec2", "exec3", "exec4"}

StepFacts(prog, p, k, act) ==
    /\ act = "fork" => p = "parent" /\ k = ForkAt[prog]
    /\ act = "exec" => p = "child" /\ k = 1 /\ prog \in Execs
    /\ act = "again" => prog = "zombies" /\ p = "parent" /\ k = 4
    /\ act = "write" => p = "parent"
    /\ prog = "zombies" /\ p = "parent" => (k = 1 => act = "fork") /\ (k = 2 => act = "wait")
    /\ prog \in {"zombies", "orphans"} => act \notin {"set", "read"}
    /\ p = "parent" /\ k <= ForkAt[prog] => act \notin {"set", "read"}
    /\ act = "read" => prog = "pipes"
    /\ prog = "pipes" => act # "set"
    /\ prog = "shmem" =>
          /\ act \notin {"return", "write"}
          /\ act = "share" <=> k = IF p = "parent" THEN 1 ELSE 5
          /\ p = "parent" /\ k = 3 => act = "wait"
          /\ p = "parent" /\ act = "print" => k > 3

CodeFacts(prog, p, code) ==
    /\ Len(code) \in Nat
    /\ prog = "orphans" /\ p = "parent" => Len(code) = 8
    /\ prog = "shmem" /\ p = "child" => Len(code) = 5
    /\ \A k \in 1 .. Len(code) : StepFacts(prog, p, k, code[k])

Lines == [by : Fork!Process, at : Nat, fork : Nat, own : {0, 1}, block : Fork!Process]
Processes == [status : {"none", "runs", "ended", "killed"},
              at : Nat \ {0}, own : {0, 1}, held : Seq(Lines)]

ForkTypeInv ==
    /\ program \in DOMAIN Fork!Code
    /\ terminal \in BOOLEAN
    /\ proc \in [Fork!Process -> Processes]
    /\ block \in Fork!Process
    /\ out \in Seq(Lines)
    /\ lines \subseteq Lines
    /\ forks \in Nat

\* The acts of a process that has done the first n of them.
Did(p, n, acts) == \E k \in 1 .. n : Fork!Code[program][p][k] \in acts
Passed(p, acts) == Did(p, proc[p].at - 1, acts)

\* When a process has its own assignment: after "set", or after it read one.
OwnInv ==
    \A p \in Fork!Process :
        /\ Passed(p, {"set"}) => proc[p].own = 1
        /\ proc[p].own = 1 => Passed(p, {"set", "read"})

LineInv ==
    \A line \in lines :
        /\ Fork!Before(line, {"set"}) => line.own = 1
        /\ line.own = 1 => Fork!Before(line, {"set", "read"})

\* The block of shmem.c: the parent prints when the child has shared it.
ShareInv ==
    program = "shmem" =>
        /\ proc["parent"].at <= 2 => proc["child"].status = "none"
        /\ proc["parent"].at > 3 => proc["child"].status # "runs"
        /\ proc["child"].status = "runs" /\ proc["child"].at > 5 => block = "child"
        /\ proc["child"].status = "ended" => block = "child"
        /\ \A line \in lines : line.by = "parent" =>
              /\ proc["parent"].at > 3
              /\ proc["child"].status # "none" => line.block = "child"

ChildLives == proc["child"].status # "killed"

\* There is no second child while the first runs.
OneChild ==
    \/ proc["parent"].at <= ForkAt[program]
    \/ program = "zombies" /\ proc["parent"].at > 2
    => proc["child"].status # "runs"

\* A process prints each line once for each fork.
Fresh ==
    \A line \in lines :
        /\ line.fork <= forks
        /\ line.fork = forks /\ proc[line.by].at <= line.at =>
              program = "zombies" /\ line.by = "parent" /\ proc["parent"].at = 1

\* Every line is printed before it is held back or written.
Printed ==
    /\ \A line : Holds(out, line) => line \in lines
    /\ \A p \in Fork!Process : \A line : Holds(proc[p].held, line) => line \in lines
    /\ terminal => \A p \in Fork!Process : proc[p].held = <<>>

Once(seq, line) == \A k, l \in 1 .. Len(seq) : seq[k] = line /\ seq[l] = line => k = l

\* Where a line is in one place: it is of this fork, or of any on a terminal.
WrittenOnce(line) ==
    /\ Once(out, line)
    /\ \A p \in Fork!Process :
          /\ Once(proc[p].held, line)
          /\ ~(Holds(proc[p].held, line) /\ Holds(out, line))
    /\ ~(Holds(proc["parent"].held, line) /\ Holds(proc["child"].held, line))
CopyInv == \A line \in lines : terminal \/ line.fork = forks => WrittenOnce(line)

\* Nothing is dropped but by a signal: exec comes before anything is held back.
NoneHeld == program \in Execs => \A p \in Fork!Process : proc[p].at = 1 => proc[p].held = <<>>
Kept(line) ==
    \/ Holds(out, line)
    \/ \E p \in Fork!Process : proc[p].status = "runs" /\ Holds(proc[p].held, line)
KeptInv == proc["parent"].status # "killed" => \A line \in lines : Kept(line)

ReportInv == OwnInv /\ LineInv /\ ShareInv
OutputInv == OneChild /\ Fresh /\ Printed /\ CopyInv /\ NoneHeld /\ KeptInv
ForkInv == ForkTypeInv /\ ChildLives /\ ReportInv /\ OutputInv

(* What a step of a process does to it and to the output, by kind of step.   *)

OthersKeep(p) ==
    /\ program' = program /\ terminal' = terminal
    /\ proc[p].status = "runs"
    /\ proc' = [q \in Fork!Process |-> proc'[q]]
    /\ \A q \in Fork!Process \ {p} : proc'[q] = proc[q]
Act(p) == Fork!Code[program][p][proc[p].at]
AtAct(p) == proc[p].at \in 1 .. Len(Fork!Code[program][p])

\* A step that neither prints nor writes.
Quiet(p) ==
    /\ AtAct(p) /\ Act(p) \notin {"print", "again"}
    /\ proc'[p] = [status |-> "runs", at |-> proc[p].at + 1,
                   own |-> proc'[p].own, held |-> proc[p].held]
    /\ proc'[p].own \in {0, 1}
    /\ Act(p) \notin {"set", "read"} => proc'[p].own = proc[p].own
    /\ Act(p) = "set" => proc'[p].own = 1
    /\ Act(p) = "wait" /\ p = "parent" => proc["child"].status # "runs"
    /\ block' = IF Act(p) = "share" THEN p ELSE block
    /\ forks' = IF Act(p) = "fork" THEN forks + 1 ELSE forks
    /\ UNCHANGED <<out, lines>>

Jumps(p) ==
    /\ AtAct(p) /\ UNCHANGED <<block, out, lines>>
    /\ \/ /\ Act(p) = "again" /\ forks' = forks
          /\ proc'[p] = [status |-> "runs", at |-> 1, own |-> proc[p].own, held |-> proc[p].held]
       \/ /\ Act(p) = "fork" /\ program = "orphans" /\ forks' = forks + 1
          /\ proc'[p] = [status |-> "runs", at |-> 5, own |-> proc[p].own, held |-> proc[p].held]

NewLine(p) ==
    [by |-> p, at |-> proc[p].at, fork |-> forks, own |-> proc[p].own, block |-> block]
Prints(p) ==
    /\ AtAct(p) /\ Act(p) = "print" /\ UNCHANGED <<block, forks>>
    /\ lines' = lines \cup {NewLine(p)}
    /\ proc'[p] = [status |-> "runs", at |-> proc[p].at + 1, own |-> proc[p].own,
                   held |-> IF terminal THEN proc[p].held ELSE Append(proc[p].held, NewLine(p))]
    /\ out' = IF terminal THEN Append(out, NewLine(p)) ELSE out

Flushes(p) ==
    /\ AtAct(p) /\ Act(p) = "flush" /\ UNCHANGED <<block, forks, lines>>
    /\ out' = out \o proc[p].held
    /\ proc'[p] = [status |-> "runs", at |-> proc[p].at + 1, own |-> proc[p].own, held |-> <<>>]

Execed(p) ==
    /\ AtAct(p) /\ Act(p) = "exec" /\ UNCHANGED <<block, forks, lines, out>>
    /\ proc'[p] = [status |-> "ended", at |-> proc[p].at, own |-> proc[p].own, held |-> <<>>]

Ends(p) ==
    /\ proc[p].at > Len(Fork!Code[program][p]) \/ (AtAct(p) /\ Act(p) = "return")
    /\ UNCHANGED <<block, forks, lines>>
    /\ out' = out \o proc[p].held
    /\ proc'[p] = [status |-> "ended", at |-> proc[p].at, own |-> proc[p].own, held |-> <<>>]

Dies(p) ==
    /\ p = "parent" \/ (AtAct(p) /\ Act(p) = "write")
    /\ UNCHANGED <<block, forks, lines, out>>
    /\ proc'[p] = [proc[p] EXCEPT !.status = "killed"]

Forks(p) ==
    /\ program' = program /\ terminal' = terminal
    /\ proc[p].status = "runs" /\ AtAct(p) /\ Act(p) = "fork"
    /\ UNCHANGED <<block, out, lines>> /\ forks' = forks + 1
    /\ p = "parent" => proc' = [proc EXCEPT !["child"] = [proc["parent"] EXCEPT !.at = 1],
                                            !["parent"].at = proc["parent"].at + 1]

StepOf(p) ==
    \/ Forks(p)
    \/ /\ OthersKeep(p)
       /\ \/ Quiet(p) \/ Jumps(p) \/ Prints(p) \/ Flushes(p) \/ Execed(p) \/ Ends(p) \/ Dies(p)

LEMMA ForkTestFacts ==
    \A p \in Fork!Process : CodeFacts("forktest", p, Fork!ForkTest[p])
<1>1. CodeFacts("forktest", "parent", Fork!ForkTest["parent"])
  <2>1. Fork!ForkTest["parent"] = <<"print", "fork", "wait", "print", "print">>
    BY DEF Fork!ForkTest
  <2>2. Len(Fork!ForkTest["parent"]) = 5
    BY <2>1
  <2>3. \A k \in 1 .. 5 : StepFacts("forktest", "parent", k, Fork!ForkTest["parent"][k])
    BY <2>1 DEF StepFacts, ForkAt, Execs
  <2>4. QED
    BY <2>2, <2>3 DEF CodeFacts
<1>2. CodeFacts("forktest", "child", Fork!ForkTest["child"])
  <2>1. Fork!ForkTest["child"] = <<"set", "print", "print">>
    BY DEF Fork!ForkTest
  <2>2. Len(Fork!ForkTest["child"]) = 3
    BY <2>1
  <2>3. \A k \in 1 .. 3 : StepFacts("forktest", "child", k, Fork!ForkTest["child"][k])
    BY <2>1 DEF StepFacts, ForkAt, Execs
  <2>4. QED
    BY <2>2, <2>3 DEF CodeFacts
<1>3. QED
  BY <1>1, <1>2 DEF Fork!Process

LEMMA Exec2Facts ==
    \A p \in Fork!Process : CodeFacts("exec2", p, Fork!Exec2[p])
<1>1. CodeFacts("exec2", "parent", Fork!Exec2["parent"])
  <2>1. Fork!Exec2["parent"] = <<"fork", "wait", "set", "print">>
    BY DEF Fork!Exec2
  <2>2. Len(Fork!Exec2["parent"]) = 4
    BY <2>1
  <2>3. \A k \in 1 .. 4 : StepFacts("exec2", "parent", k, Fork!Exec2["parent"][k])
    BY <2>1 DEF StepFacts, ForkAt, Execs
  <2>4. QED
    BY <2>2, <2>3 DEF CodeFacts
<1>2. CodeFacts("exec2", "child", Fork!Exec2["child"])
  <2>1. Fork!Exec2["child"] = <<"exec">>
    BY DEF Fork!Exec2
  <2>2. Len(Fork!Exec2["child"]) = 1
    BY <2>1
  <2>3. \A k \in 1 .. 1 : StepFacts("exec2", "child", k, Fork!Exec2["child"][k])
    BY <2>1 DEF StepFacts, ForkAt, Execs
  <2>4. QED
    BY <2>2, <2>3 DEF CodeFacts
<1>3. QED
  BY <1>1, <1>2 DEF Fork!Process

LEMMA Exec3Facts ==
    \A p \in Fork!Process : CodeFacts("exec3", p, Fork!Exec3[p])
<1>1. CodeFacts("exec3", "parent", Fork!Exec3["parent"])
  <2>1. Fork!Exec3["parent"] = <<"fork", "wait", "set", "print">>
    BY DEF Fork!Exec3
  <2>2. Len(Fork!Exec3["parent"]) = 4
    BY <2>1
  <2>3. \A k \in 1 .. 4 : StepFacts("exec3", "parent", k, Fork!Exec3["parent"][k])
    BY <2>1 DEF StepFacts, ForkAt, Execs
  <2>4. QED
    BY <2>2, <2>3 DEF CodeFacts
<1>2. CodeFacts("exec3", "child", Fork!Exec3["child"])
  <2>1. Fork!Exec3["child"] = <<"exec", "wait", "set", "print">>
    BY DEF Fork!Exec3
  <2>2. Len(Fork!Exec3["child"]) = 4
    BY <2>1
  <2>3. \A k \in 1 .. 4 : StepFacts("exec3", "child", k, Fork!Exec3["child"][k])
    BY <2>1 DEF StepFacts, ForkAt, Execs
  <2>4. QED
    BY <2>2, <2>3 DEF CodeFacts
<1>3. QED
  BY <1>1, <1>2 DEF Fork!Process

LEMMA Exec4Facts ==
    \A p \in Fork!Process : CodeFacts("exec4", p, Fork!Exec4[p])
<1>1. CodeFacts("exec4", "parent", Fork!Exec4["parent"])
  <2>1. Fork!Exec4["parent"] = <<"fork">>
    BY DEF Fork!Exec4
  <2>2. Len(Fork!Exec4["parent"]) = 1
    BY <2>1
  <2>3. \A k \in 1 .. 1 : StepFacts("exec4", "parent", k, Fork!Exec4["parent"][k])
    BY <2>1 DEF StepFacts, ForkAt, Execs
  <2>4. QED
    BY <2>2, <2>3 DEF CodeFacts
<1>2. CodeFacts("exec4", "child", Fork!Exec4["child"])
  <2>1. Fork!Exec4["child"] = <<"exec">>
    BY DEF Fork!Exec4
  <2>2. Len(Fork!Exec4["child"]) = 1
    BY <2>1
  <2>3. \A k \in 1 .. 1 : StepFacts("exec4", "child", k, Fork!Exec4["child"][k])
    BY <2>1 DEF StepFacts, ForkAt, Execs
  <2>4. QED
    BY <2>2, <2>3 DEF CodeFacts
<1>3. QED
  BY <1>1, <1>2 DEF Fork!Process

LEMMA OrphansFacts ==
    \A p \in Fork!Process : CodeFacts("orphans", p, Fork!Orphans[p])
<1>1. CodeFacts("orphans", "parent", Fork!Orphans["parent"])
  <2>1. Fork!Orphans["parent"] =
             <<"fork", "print", "flush", "return", "print", "flush", "print", "print">>
    BY DEF Fork!Orphans
  <2>2. Len(Fork!Orphans["parent"]) = 8
    BY <2>1
  <2>3. \A k \in 1 .. 8 : StepFacts("orphans", "parent", k, Fork!Orphans["parent"][k])
    BY <2>1 DEF StepFacts, ForkAt, Execs
  <2>4. QED
    BY <2>2, <2>3 DEF CodeFacts
<1>2. CodeFacts("orphans", "child", Fork!Orphans["child"])
  <2>1. Fork!Orphans["child"] = <<"print", "flush", "print", "print">>
    BY DEF Fork!Orphans
  <2>2. Len(Fork!Orphans["child"]) = 4
    BY <2>1
  <2>3. \A k \in 1 .. 4 : StepFacts("orphans", "child", k, Fork!Orphans["child"][k])
    BY <2>1 DEF StepFacts, ForkAt, Execs
  <2>4. QED
    BY <2>2, <2>3 DEF CodeFacts
<1>3. QED
  BY <1>1, <1>2 DEF Fork!Process

LEMMA ZombiesFacts ==
    \A p \in Fork!Process : CodeFacts("zombies", p, Fork!Zombies[p])
<1>1. CodeFacts("zombies", "parent", Fork!Zombies["parent"])
  <2>1. Fork!Zombies["parent"] = <<"fork", "wait", "print", "again">>
    BY DEF Fork!Zombies
  <2>2. Len(Fork!Zombies["parent"]) = 4
    BY <2>1
  <2>3. \A k \in 1 .. 4 : StepFacts("zombies", "parent", k, Fork!Zombies["parent"][k])
    BY <2>1 DEF StepFacts, ForkAt, Execs
  <2>4. QED
    BY <2>2, <2>3 DEF CodeFacts
<1>2. CodeFacts("zombies", "child", Fork!Zombies["child"])
  <2>1. Fork!Zombies["child"] = <<"print">>
    BY DEF Fork!Zombies
  <2>2. Len(Fork!Zombies["child"]) = 1
    BY <2>1
  <2>3. \A k \in 1 .. 1 : StepFacts("zombies", "child", k, Fork!Zombies["child"][k])
    BY <2>1 DEF StepFacts, ForkAt, Execs
  <2>4. QED
    BY <2>2, <2>3 DEF CodeFacts
<1>3. QED
  BY <1>1, <1>2 DEF Fork!Process

LEMMA ShMemFacts ==
    \A p \in Fork!Process : CodeFacts("shmem", p, Fork!ShMem[p])
<1>1. CodeFacts("shmem", "parent", Fork!ShMem["parent"])
  <2>1. Fork!ShMem["parent"] = <<"share", "fork", "wait", "print", "print", "print">>
    BY DEF Fork!ShMem
  <2>2. Len(Fork!ShMem["parent"]) = 6
    BY <2>1
  <2>3. \A k \in 1 .. 6 : StepFacts("shmem", "parent", k, Fork!ShMem["parent"][k])
    BY <2>1 DEF StepFacts, ForkAt, Execs
  <2>4. QED
    BY <2>2, <2>3 DEF CodeFacts
<1>2. CodeFacts("shmem", "child", Fork!ShMem["child"])
  <2>1. Fork!ShMem["child"] = <<"print", "print", "set", "print", "share">>
    BY DEF Fork!ShMem
  <2>2. Len(Fork!ShMem["child"]) = 5
    BY <2>1
  <2>3. \A k \in 1 .. 5 : StepFacts("shmem", "child", k, Fork!ShMem["child"][k])
    BY <2>1 DEF StepFacts, ForkAt, Execs
  <2>4. QED
    BY <2>2, <2>3 DEF CodeFacts
<1>3. QED
  BY <1>1, <1>2 DEF Fork!Process

LEMMA PipesFacts ==
    \A p \in Fork!Process : CodeFacts("pipes", p, Fork!Pipes[p])
<1>1. CodeFacts("pipes", "parent", Fork!Pipes["parent"])
  <2>1. Fork!Pipes["parent"] = <<"fork", "closeRead", "write", "print", "closeWrite", "wait">>
    BY DEF Fork!Pipes
  <2>2. Len(Fork!Pipes["parent"]) = 6
    BY <2>1
  <2>3. \A k \in 1 .. 6 : StepFacts("pipes", "parent", k, Fork!Pipes["parent"][k])
    BY <2>1 DEF StepFacts, ForkAt, Execs
  <2>4. QED
    BY <2>2, <2>3 DEF CodeFacts
<1>2. CodeFacts("pipes", "child", Fork!Pipes["child"])
  <2>1. Fork!Pipes["child"] = <<"closeWrite", "read", "print", "closeRead">>
    BY DEF Fork!Pipes
  <2>2. Len(Fork!Pipes["child"]) = 4
    BY <2>1
  <2>3. \A k \in 1 .. 4 : StepFacts("pipes", "child", k, Fork!Pipes["child"][k])
    BY <2>1 DEF StepFacts, ForkAt, Execs
  <2>4. QED
    BY <2>2, <2>3 DEF CodeFacts
<1>3. QED
  BY <1>1, <1>2 DEF Fork!Process

LEMMA CodeOK ==
    ASSUME program \in DOMAIN Fork!Code
    PROVE  \A p \in Fork!Process : CodeFacts(program, p, Fork!Code[program][p])
<1>1. CASE program = "forktest"
  <2>1. Fork!Code["forktest"] = Fork!ForkTest
    BY DEF Fork!Code
  <2>2. QED
    BY <1>1, <2>1, ForkTestFacts
<1>2. CASE program = "exec2"
  <2>1. Fork!Code["exec2"] = Fork!Exec2
    BY DEF Fork!Code
  <2>2. QED
    BY <1>2, <2>1, Exec2Facts
<1>3. CASE program = "exec3"
  <2>1. Fork!Code["exec3"] = Fork!Exec3
    BY DEF Fork!Code
  <2>2. QED
    BY <1>3, <2>1, Exec3Facts
<1>4. CASE program = "exec4"
  <2>1. Fork!Code["exec4"] = Fork!Exec4
    BY DEF Fork!Code
  <2>2. QED
    BY <1>4, <2>1, Exec4Facts
<1>5. CASE program = "orphans"
  <2>1. Fork!Code["orphans"] = Fork!Orphans
    BY DEF Fork!Code
  <2>2. QED
    BY <1>5, <2>1, OrphansFacts
<1>6. CASE program = "zombies"
  <2>1. Fork!Code["zombies"] = Fork!Zombies
    BY DEF Fork!Code
  <2>2. QED
    BY <1>6, <2>1, ZombiesFacts
<1>7. CASE program = "shmem"
  <2>1. Fork!Code["shmem"] = Fork!ShMem
    BY DEF Fork!Code
  <2>2. QED
    BY <1>7, <2>1, ShMemFacts
<1>8. CASE program = "pipes"
  <2>1. Fork!Code["pipes"] = Fork!Pipes
    BY DEF Fork!Code
  <2>2. QED
    BY <1>8, <2>1, PipesFacts
<1>9. DOMAIN Fork!Code = {"forktest", "exec2", "exec3", "exec4", "orphans", "zombies",
                           "shmem", "pipes"}
  BY DEF Fork!Code
<1>10. QED
  BY <1>1, <1>2, <1>3, <1>4, <1>5, <1>6, <1>7, <1>8, <1>9

LEMMA ForkSteps == [Next]_vars => [Fork!Next]_forkState
BY DEF Next, vars, SumNext, BarrierNext, WorkNext, WrapNext, PipeNext, LocalNext,
   MainCancels, ThreadRuns, WriterRuns, ReaderRuns, ParentKilled, ProcessRuns,
   OthersIdle, Idle, Runs, Fork!Next

LEMMA StepKinds ==
    ASSUME ForkTypeInv, Fork!Next
    PROVE  \E p \in Fork!Process : StepOf(p)
<1> USE DEF Fork!files, Fork!Runs, Fork!CodeOf, Fork!Does, Fork!Goes, Fork!GoesOn,
        OthersKeep, AtAct, Act
<1>1. proc \in [Fork!Process -> Processes]
  BY DEF ForkTypeInv
<1>2. CASE Fork!Killed
  <2>1. "parent" \in Fork!Process
    BY DEF Fork!Process
  <2>2. OthersKeep("parent") /\ Dies("parent")
    BY <1>1, <1>2, <2>1 DEF Fork!Killed, Dies, Processes
  <2>3. QED
    BY <2>1, <2>2 DEF StepOf
<1>3. ASSUME NEW p \in Fork!Process, Fork!Step(p) PROVE StepOf(p)
  <2>0. proc[p] = [status |-> proc[p].status, at |-> proc[p].at, own |-> proc[p].own,
                  held |-> proc[p].held]
    BY <1>1 DEF Processes
  <2>1. CASE Fork!Fork(p)
    <3>1. p = "parent" =>
             proc' = [proc EXCEPT !["child"] = [proc["parent"] EXCEPT !.at = 1],
                                  !["parent"].at = proc["parent"].at + 1]
      BY <1>1, <2>1 DEF Fork!Fork, Fork!Process
    <3>3. Forks(p)
      BY <1>1, <2>1, <3>1 DEF Fork!Fork, Forks, Processes
    <3>2. QED
      BY <3>3 DEF StepOf
  <2>2. CASE Fork!ForkFails(p)
    <3>1. CASE program = "orphans"
      <4>1. OthersKeep(p) /\ Jumps(p)
        <5>1. /\ proc' = [q \in Fork!Process |-> proc'[q]]
              /\ \A q \in Fork!Process \ {p} : proc'[q] = proc[q]
          BY <1>1, <2>2, <3>1 DEF Fork!ForkFails
        <5>2. OthersKeep(p)
          BY <1>1, <2>2, <3>1, <5>1 DEF Fork!ForkFails
        <5>3. /\ AtAct(p) /\ Act(p) = "fork" /\ forks' = forks + 1
              /\ UNCHANGED <<block, out, lines>>
          BY <1>1, <2>2 DEF Fork!ForkFails, Processes
        <5>4. proc[p].status = "runs" /\ proc'[p] = [proc[p] EXCEPT !.at = 5]
          BY <1>1, <2>2, <3>1 DEF Fork!ForkFails
        <5>5. proc'[p] = [status |-> "runs", at |-> 5, own |-> proc[p].own,
                         held |-> proc[p].held]
          BY <2>0, <5>4
        <5>6. Jumps(p)
          BY <3>1, <5>3, <5>5 DEF Jumps
        <5>7. QED
          BY <5>2, <5>6
      <4>2. QED
        BY <4>1 DEF StepOf
    <3>2. CASE program # "orphans"
      <4>1. OthersKeep(p) /\ Quiet(p)
        <5>1. /\ proc' = [q \in Fork!Process |-> proc'[q]]
              /\ \A q \in Fork!Process \ {p} : proc'[q] = proc[q]
          BY <1>1, <2>2, <3>2 DEF Fork!ForkFails
        <5>2. OthersKeep(p)
          BY <1>1, <2>2, <3>2, <5>1 DEF Fork!ForkFails
        <5>3. Quiet(p)
          BY <1>1, <2>2, <3>2, <2>0 DEF Fork!ForkFails, Quiet, Processes
        <5>4. QED
          BY <5>2, <5>3
      <4>2. QED
        BY <4>1 DEF StepOf
    <3>3. QED
      BY <3>1, <3>2
  <2>3. CASE Fork!PrintLine(p)
    <3>1. /\ proc[p].status = "runs" /\ AtAct(p) /\ Act(p) = "print"
          /\ UNCHANGED <<program, terminal, block, forks>>
          /\ lines' = lines \cup {NewLine(p)}
          /\ out' = IF terminal THEN Append(out, NewLine(p)) ELSE out
      BY <1>1, <2>3 DEF Fork!PrintLine, Fork!LineBuffered, NewLine, Processes
    <3>2. proc' = [proc EXCEPT ![p].at = proc[p].at + 1,
                          ![p].held = IF terminal THEN proc[p].held
                                      ELSE Append(proc[p].held, NewLine(p))]
      BY <1>1, <2>3 DEF Fork!PrintLine, Fork!LineBuffered, NewLine
    <3>3. /\ proc' = [q \in Fork!Process |-> proc'[q]]
          /\ \A q \in Fork!Process \ {p} : proc'[q] = proc[q]
      BY <1>1, <3>2
    <3>4. proc'[p] =
             [[proc[p] EXCEPT !.at = proc[p].at + 1] EXCEPT
                !.held = IF terminal THEN proc[p].held
                         ELSE Append(proc[p].held, NewLine(p))]
      BY <1>1, <3>2
    <3>5. proc'[p] = [status |-> proc[p].status, at |-> proc[p].at + 1, own |-> proc[p].own,
                     held |-> IF terminal THEN proc[p].held
                              ELSE Append(proc[p].held, NewLine(p))]
      BY <2>0, <3>4
    <3>6. OthersKeep(p) /\ Prints(p)
      BY <1>1, <3>1, <3>3, <3>5 DEF Prints
    <3>7. QED
      BY <3>6 DEF StepOf
  <2>4. CASE Fork!Flush(p)
    <3>1. /\ proc[p].status = "runs" /\ AtAct(p) /\ Act(p) = "flush"
          /\ UNCHANGED <<program, terminal, block, forks, lines>>
          /\ out' = out \o proc[p].held
      BY <1>1, <2>4 DEF Fork!Flush, Processes
    <3>2. proc' = [proc EXCEPT ![p].at = proc[p].at + 1,
                          ![p].held = <<>>]
      BY <1>1, <2>4 DEF Fork!Flush
    <3>3. /\ proc' = [q \in Fork!Process |-> proc'[q]]
          /\ \A q \in Fork!Process \ {p} : proc'[q] = proc[q]
      BY <1>1, <3>2
    <3>4. proc'[p] =
             [[proc[p] EXCEPT !.at = proc[p].at + 1] EXCEPT
                !.held = <<>>]
      BY <1>1, <3>2
    <3>5. proc'[p] = [status |-> proc[p].status, at |-> proc[p].at + 1, own |-> proc[p].own,
                     held |-> <<>>]
      BY <2>0, <3>4
    <3>6. OthersKeep(p) /\ Flushes(p)
      BY <1>1, <3>1, <3>3, <3>5 DEF Flushes
    <3>7. QED
      BY <3>6 DEF StepOf
  <2>5. CASE Fork!Set(p)
    <3>1. /\ proc[p].status = "runs" /\ AtAct(p) /\ Act(p) = "set"
          /\ UNCHANGED <<program, terminal, block, forks, lines, out>>
      BY <1>1, <2>5 DEF Fork!Set, Processes
    <3>2. proc' = [proc EXCEPT ![p].at = proc[p].at + 1,
                          ![p].own = 1]
      BY <1>1, <2>5 DEF Fork!Set
    <3>3. /\ proc' = [q \in Fork!Process |-> proc'[q]]
          /\ \A q \in Fork!Process \ {p} : proc'[q] = proc[q]
      BY <1>1, <3>2
    <3>4. proc'[p] =
             [[proc[p] EXCEPT !.at = proc[p].at + 1] EXCEPT
                !.own = 1]
      BY <1>1, <3>2
    <3>5. proc'[p] = [status |-> proc[p].status, at |-> proc[p].at + 1, own |-> 1,
                     held |-> proc[p].held]
      BY <2>0, <3>4
    <3>6. OthersKeep(p) /\ Quiet(p)
      BY <1>1, <3>1, <3>3, <3>5 DEF Quiet
    <3>7. QED
      BY <3>6 DEF StepOf
  <2>6. CASE Fork!Share(p) \/ Fork!Wait(p) \/ Fork!ExecFails(p)
    <3>1. OthersKeep(p) /\ Quiet(p)
      <4>1. /\ proc' = [q \in Fork!Process |-> proc'[q]]
            /\ \A q \in Fork!Process \ {p} : proc'[q] = proc[q]
        BY <1>1, <2>6 DEF Fork!Share, Fork!Wait, Fork!ExecFails
      <4>2. OthersKeep(p)
        BY <1>1, <2>6, <4>1 DEF Fork!Share, Fork!Wait, Fork!ExecFails
      <4>3. Quiet(p)
        BY <1>1, <2>6, <2>0 DEF Fork!Share, Fork!Wait, Fork!ExecFails, Quiet, Processes
      <4>4. QED
        BY <4>2, <4>3
    <3>2. QED
      BY <3>1 DEF StepOf
  <2>7. CASE Fork!Again(p)
    <3>1. OthersKeep(p) /\ Jumps(p)
      <4>1. /\ proc' = [q \in Fork!Process |-> proc'[q]]
            /\ \A q \in Fork!Process \ {p} : proc'[q] = proc[q]
        BY <1>1, <2>7 DEF Fork!Again
      <4>2. OthersKeep(p)
        BY <1>1, <2>7, <4>1 DEF Fork!Again
      <4>3. Jumps(p)
        <5>1. AtAct(p) /\ Act(p) = "again" /\ UNCHANGED <<block, forks, out, lines>>
          BY <1>1, <2>7 DEF Fork!Again, Processes
        <5>2. proc[p].status = "runs" /\ proc'[p] = [proc[p] EXCEPT !.at = 1]
          BY <1>1, <2>7 DEF Fork!Again
        <5>3. proc'[p] = [status |-> "runs", at |-> 1, own |-> proc[p].own,
                         held |-> proc[p].held]
          BY <2>0, <5>2
        <5>4. QED
          BY <5>1, <5>3 DEF Jumps
      <4>4. QED
        BY <4>2, <4>3
    <3>2. QED
      BY <3>1 DEF StepOf
  <2>8. CASE Fork!Exec(p)
    <3>1. /\ proc[p].status = "runs" /\ AtAct(p) /\ Act(p) = "exec"
          /\ UNCHANGED <<program, terminal, block, forks, lines, out>>
      BY <1>1, <2>8 DEF Fork!Exec, Processes
    <3>2. proc' = [proc EXCEPT ![p].status = "ended",
                          ![p].held = <<>>]
      BY <1>1, <2>8 DEF Fork!Exec
    <3>3. /\ proc' = [q \in Fork!Process |-> proc'[q]]
          /\ \A q \in Fork!Process \ {p} : proc'[q] = proc[q]
      BY <1>1, <3>2
    <3>4. proc'[p] =
             [[proc[p] EXCEPT !.status = "ended"] EXCEPT
                !.held = <<>>]
      BY <1>1, <3>2
    <3>5. proc'[p] = [status |-> "ended", at |-> proc[p].at, own |-> proc[p].own,
                     held |-> <<>>]
      BY <2>0, <3>4
    <3>6. OthersKeep(p) /\ Execed(p)
      BY <1>1, <3>1, <3>3, <3>5 DEF Execed
    <3>7. QED
      BY <3>6 DEF StepOf
  <2>9. CASE Fork!Close(p)
    <3>1. OthersKeep(p) /\ Quiet(p)
      <4>1. /\ proc' = [q \in Fork!Process |-> proc'[q]]
            /\ \A q \in Fork!Process \ {p} : proc'[q] = proc[q]
        BY <1>1, <2>9 DEF Fork!Close
      <4>2. OthersKeep(p)
        BY <1>1, <2>9, <4>1 DEF Fork!Close
      <4>3. Quiet(p)
        BY <1>1, <2>9, <2>0 DEF Fork!Close, Quiet, Processes
      <4>4. QED
        BY <4>2, <4>3
    <3>2. QED
      BY <3>1 DEF StepOf
  <2>10. CASE Fork!Write(p)
    <3>1. CASE Fork!Opened("read")
      <4>1. OthersKeep(p) /\ Quiet(p)
        <5>1. /\ proc' = [q \in Fork!Process |-> proc'[q]]
              /\ \A q \in Fork!Process \ {p} : proc'[q] = proc[q]
          BY <1>1, <2>10, <3>1 DEF Fork!Write
        <5>2. OthersKeep(p)
          BY <1>1, <2>10, <3>1, <5>1 DEF Fork!Write
        <5>3. Quiet(p)
          BY <1>1, <2>10, <3>1, <2>0 DEF Fork!Write, Quiet, Processes
        <5>4. QED
          BY <5>2, <5>3
      <4>2. QED
        BY <4>1 DEF StepOf
    <3>2. CASE ~Fork!Opened("read")
      <4>1. OthersKeep(p) /\ Dies(p)
        BY <1>1, <2>10, <3>2 DEF Fork!Write, Dies, Processes
      <4>2. QED
        BY <4>1 DEF StepOf
    <3>3. QED
      BY <3>1, <3>2
  <2>11. CASE Fork!Read(p)
    <3>1. /\ proc[p].status = "runs" /\ AtAct(p) /\ Act(p) = "read"
          /\ UNCHANGED <<program, terminal, block, forks, lines, out>>
      BY <1>1, <2>11 DEF Fork!Read, Processes
    <3>2. proc' = [proc EXCEPT ![p].at = proc[p].at + 1,
                          ![p].own = IF full THEN 1 ELSE 0]
      BY <1>1, <2>11 DEF Fork!Read
    <3>3. /\ proc' = [q \in Fork!Process |-> proc'[q]]
          /\ \A q \in Fork!Process \ {p} : proc'[q] = proc[q]
      BY <1>1, <3>2
    <3>4. proc'[p] =
             [[proc[p] EXCEPT !.at = proc[p].at + 1] EXCEPT
                !.own = IF full THEN 1 ELSE 0]
      BY <1>1, <3>2
    <3>5. proc'[p] = [status |-> proc[p].status, at |-> proc[p].at + 1,
                     own |-> IF full THEN 1 ELSE 0,
                     held |-> proc[p].held]
      BY <2>0, <3>4
    <3>6. OthersKeep(p) /\ Quiet(p)
      BY <1>1, <3>1, <3>3, <3>5 DEF Quiet
    <3>7. QED
      BY <3>6 DEF StepOf
  <2>12. CASE Fork!End(p)
    <3>1. /\ proc[p].status = "runs"
          /\ proc[p].at > Len(Fork!Code[program][p]) \/ (AtAct(p) /\ Act(p) = "return")
          /\ UNCHANGED <<program, terminal, block, forks, lines>> /\ out' = out \o proc[p].held
      BY <1>1, <2>12 DEF Fork!End, Processes
    <3>2. proc' = [proc EXCEPT ![p].status = "ended",
                          ![p].held = <<>>]
      BY <1>1, <2>12 DEF Fork!End
    <3>3. /\ proc' = [q \in Fork!Process |-> proc'[q]]
          /\ \A q \in Fork!Process \ {p} : proc'[q] = proc[q]
      BY <1>1, <3>2
    <3>4. proc'[p] =
             [[proc[p] EXCEPT !.status = "ended"] EXCEPT
                !.held = <<>>]
      BY <1>1, <3>2
    <3>5. proc'[p] = [status |-> "ended", at |-> proc[p].at, own |-> proc[p].own,
                     held |-> <<>>]
      BY <2>0, <3>4
    <3>6. OthersKeep(p) /\ Ends(p)
      BY <1>1, <3>1, <3>3, <3>5 DEF Ends
    <3>7. QED
      BY <3>6 DEF StepOf
  <2>13. QED
    BY <1>3, <2>1, <2>2, <2>3, <2>4, <2>5, <2>6, <2>7, <2>8, <2>9, <2>10, <2>11, <2>12
       DEF Fork!Step
<1>4. QED
  BY <1>2, <1>3 DEF Fork!Next

LEMMA AppendIn == ASSUME NEW S, NEW seq \in Seq(S), NEW e \in S PROVE Append(seq, e) \in Seq(S)
OBVIOUS

LEMMA ConcatIn == ASSUME NEW S, NEW a \in Seq(S), NEW b \in Seq(S) PROVE a \o b \in Seq(S)
OBVIOUS

LEMMA ProcIn ==
    ASSUME NEW p \in Fork!Process, ForkTypeInv
    PROVE  /\ proc[p] \in Processes
           /\ proc[p] = [status |-> proc[p].status, at |-> proc[p].at, own |-> proc[p].own,
                         held |-> proc[p].held]
           /\ proc[p].status \in {"none", "runs", "ended", "killed"}
           /\ proc[p].at \in Nat \ {0} /\ proc[p].own \in {0, 1} /\ proc[p].held \in Seq(Lines)
BY DEF ForkTypeInv, Processes

\* What a fork by the parent makes of the two.
LEMMA ForkFields ==
    ASSUME ForkTypeInv, Forks("parent")
    PROVE  /\ proc' = [q \in Fork!Process |-> proc'[q]]
           /\ proc'["parent"] = [status |-> "runs", at |-> proc["parent"].at + 1,
                                 own |-> proc["parent"].own, held |-> proc["parent"].held]
           /\ proc'["child"] = [status |-> "runs", at |-> 1,
                                own |-> proc["parent"].own, held |-> proc["parent"].held]
<1>1. proc \in [{"parent", "child"} -> Processes]
  BY DEF ForkTypeInv, Fork!Process
<1>2. proc["parent"] = [status |-> "runs", at |-> proc["parent"].at,
                        own |-> proc["parent"].own, held |-> proc["parent"].held]
  BY ProcIn DEF Forks, Fork!Process
<1>3. proc' = [[proc EXCEPT !["child"] = [proc["parent"] EXCEPT !.at = 1]]
                 EXCEPT !["parent"].at = proc["parent"].at + 1]
  BY DEF Forks
<1>4. /\ proc' = [q \in {"parent", "child"} |-> proc'[q]]
      /\ proc'["child"] = [proc["parent"] EXCEPT !.at = 1]
      /\ proc'["parent"] = [proc["parent"] EXCEPT !.at = proc["parent"].at + 1]
  BY <1>1, <1>3
<1>5. proc'["child"] = [status |-> "runs", at |-> 1,
                        own |-> proc["parent"].own, held |-> proc["parent"].held]
  BY <1>2, <1>4
<1>6. proc'["parent"] = [status |-> "runs", at |-> proc["parent"].at + 1,
                         own |-> proc["parent"].own, held |-> proc["parent"].held]
  BY <1>2, <1>4
<1>7. QED
  BY <1>4, <1>5, <1>6 DEF Fork!Process

LEMMA ActFacts ==
    ASSUME ForkTypeInv, NEW p \in Fork!Process
    PROVE  /\ AtAct(p) => StepFacts(program, p, proc[p].at, Act(p))
           /\ proc[p].at > Len(Fork!Code[program][p]) => ~AtAct(p)
           /\ program = "orphans" /\ p = "parent" => Len(Fork!Code[program][p]) = 8
           /\ program = "shmem" /\ p = "child" => Len(Fork!Code[program][p]) = 5
<1>1. CodeFacts(program, p, Fork!Code[program][p])
  BY CodeOK DEF ForkTypeInv
<1>2. proc[p].at \in Nat
  BY ProcIn
<1>3. Len(Fork!Code[program][p]) \in Nat
  BY <1>1 DEF CodeFacts
<1>4. AtAct(p) => StepFacts(program, p, proc[p].at, Act(p))
  BY <1>1 DEF CodeFacts, AtAct, Act
<1>5. proc[p].at > Len(Fork!Code[program][p]) => ~AtAct(p)
  BY <1>2, <1>3 DEF AtAct
<1>6. QED
  BY <1>1, <1>4, <1>5 DEF CodeFacts

\* Only the parent forks, at one place.
LEMMA ForkPlace ==
    ASSUME ForkTypeInv, NEW p \in Fork!Process, Forks(p)
    PROVE  /\ p = "parent" /\ proc["parent"].at = ForkAt[program]
           /\ Act("parent") = "fork" /\ AtAct("parent")
BY ActFacts DEF Forks, StepFacts

LEMMA NewLineIn ==
    ASSUME ForkTypeInv, NEW p \in Fork!Process
    PROVE  NewLine(p) \in Lines
BY ProcIn DEF ForkTypeInv, NewLine, Lines

LEMMA ForkType == ASSUME ForkTypeInv, NEW p \in Fork!Process, StepOf(p) PROVE ForkTypeInv'
<1>1. <<>> \in Seq(Lines) /\ out \in Seq(Lines) /\ NewLine(p) \in Lines
      /\ proc[p].held \in Seq(Lines) /\ proc[p].at \in Nat \ {0} /\ forks \in Nat
      /\ lines \subseteq Lines /\ block \in Fork!Process /\ proc[p].own \in {0, 1}
  BY EmptySeq, ProcIn, NewLineIn DEF ForkTypeInv
<1>2. CASE Forks(p)
  <2>1. Forks("parent")
    BY <1>2, ForkPlace
  <2>2. "parent" \in Fork!Process /\ Fork!Process = {"parent", "child"}
    BY DEF Fork!Process
  <2>3. /\ proc["parent"].at \in Nat \ {0} /\ proc["parent"].own \in {0, 1}
        /\ proc["parent"].held \in Seq(Lines)
    BY <2>2, ProcIn
  <2>4. proc'["parent"] \in Processes /\ proc'["child"] \in Processes
    BY <2>1, <2>3, ForkFields DEF Processes
  <2>5. proc' \in [Fork!Process -> Processes]
    <3>1. proc' = [q \in Fork!Process |-> proc'[q]]
      BY <2>1, ForkFields
    <3>2. QED
      BY <2>2, <2>4, <3>1
  <2>6. QED
    BY <1>1, <1>2, <2>5 DEF ForkTypeInv, Forks
<1>3. ASSUME OthersKeep(p), proc'[p] \in Processes PROVE proc' \in [Fork!Process -> Processes]
  BY <1>3, ProcIn DEF OthersKeep
<1>4. CASE OthersKeep(p) /\ ~Forks(p)
  <2> SUFFICES /\ proc'[p] \in Processes /\ out' \in Seq(Lines) /\ lines' \subseteq Lines
               /\ forks' \in Nat /\ block' \in Fork!Process
    BY <1>3, <1>4 DEF ForkTypeInv, OthersKeep
  <2>1. CASE Quiet(p)
    BY <1>1, <2>1 DEF Quiet, Processes
  <2>2. CASE Jumps(p)
    BY <1>1, <2>2 DEF Jumps, Processes
  <2>3. CASE Prints(p)
    <3>1. /\ Append(proc[p].held, NewLine(p)) \in Seq(Lines)
          /\ Append(out, NewLine(p)) \in Seq(Lines)
      BY <1>1, AppendIn
    <3>2. out' \in Seq(Lines) /\ UNCHANGED <<block, forks>> /\ lines' \subseteq Lines
      BY <1>1, <2>3, <3>1 DEF Prints
    <3>3. proc'[p] \in Processes
      BY <1>1, <2>3, <3>1 DEF Prints, Processes
    <3>4. QED
      BY <1>1, <3>2, <3>3
  <2>4. CASE Flushes(p) \/ Ends(p)
    <3>1. out \o proc[p].held \in Seq(Lines)
      BY <1>1, ConcatIn
    <3>2. out' \in Seq(Lines) /\ UNCHANGED <<block, forks, lines>>
      BY <2>4, <3>1 DEF Flushes, Ends
    <3>3. proc'[p] \in Processes
      <4>1. CASE Flushes(p)
        BY <1>1, <4>1 DEF Flushes, Processes
      <4>2. CASE Ends(p)
        BY <1>1, <4>2 DEF Ends, Processes
      <4>3. QED
        BY <2>4, <4>1, <4>2
    <3>4. QED
      BY <1>1, <3>2, <3>3
  <2>5. CASE Execed(p) \/ Dies(p)
    <3>1. UNCHANGED <<block, forks, lines, out>>
      BY <2>5 DEF Execed, Dies
    <3>2. CASE Execed(p)
      <4>1. proc'[p] \in Processes
        BY <1>1, <3>2 DEF Execed, Processes
      <4>2. QED
        BY <1>1, <3>1, <4>1
    <3>3. CASE Dies(p)
      <4>1. proc'[p] = [proc[p] EXCEPT !.status = "killed"] /\ proc[p] \in Processes
        BY <3>3, ProcIn DEF Dies
      <4>2. proc'[p] \in Processes
        BY <4>1 DEF Processes
      <4>3. QED
        BY <1>1, <3>1, <4>2
    <3>4. QED
      BY <2>5, <3>2, <3>3
  <2>6. QED
    BY <1>4, <2>1, <2>2, <2>3, <2>4, <2>5 DEF StepOf
<1>5. QED
  BY <1>2, <1>4 DEF StepOf

\* Where a step takes a process, and what of its own it has then.
Advances(p) ==
    /\ AtAct(p) /\ Act(p) # "again"
    /\ proc'[p].at = proc[p].at + 1
    /\ Act(p) \notin {"set", "read"} => proc'[p].own = proc[p].own
    /\ Act(p) = "set" => proc'[p].own = 1
Leaps(p) ==
    /\ AtAct(p) /\ proc'[p].own = proc[p].own
    /\ \/ Act(p) = "again" /\ proc'[p].at = 1
       \/ Act(p) = "fork" /\ program = "orphans" /\ proc'[p].at = 5
Stays(p) == proc'[p].own = proc[p].own /\ proc'[p].at = proc[p].at

LEMMA Places ==
    ASSUME ForkTypeInv, NEW p \in Fork!Process, StepOf(p), ~Forks(p)
    PROVE  OthersKeep(p) /\ (Advances(p) \/ Leaps(p) \/ Stays(p))
<1>1. OthersKeep(p)
  BY DEF StepOf
<1>2. CASE Quiet(p)
  BY <1>1, <1>2 DEF Quiet, Advances
<1>3. CASE Prints(p)
  BY <1>1, <1>3 DEF Prints, Advances
<1>4. CASE Flushes(p)
  BY <1>1, <1>4 DEF Flushes, Advances
<1>5. CASE Jumps(p)
  BY <1>1, <1>5 DEF Jumps, Leaps
<1>6. CASE Execed(p) \/ Ends(p)
  BY <1>1, <1>6 DEF Execed, Ends, Stays
<1>7. CASE Dies(p)
  BY <1>1, <1>7, ProcIn DEF Dies, Stays, Processes
<1>8. QED
  BY <1>1, <1>2, <1>3, <1>4, <1>5, <1>6, <1>7 DEF StepOf

LEMMA OneMore == \A n \in Nat \ {0} : 1 .. n + 1 - 1 = (1 .. n - 1) \cup {n}
OBVIOUS

LEMMA DidOneMore ==
    ASSUME ForkTypeInv, NEW p \in Fork!Process, program' = program,
           proc'[p].at = proc[p].at + 1
    PROVE  \A acts : Passed(p, acts)' <=> Passed(p, acts) \/ Act(p) \in acts
<1>1. proc[p].at \in Nat \ {0}
  BY ProcIn
<1>2. 1 .. proc'[p].at - 1 = (1 .. proc[p].at - 1) \cup {proc[p].at}
  BY <1>1, OneMore
<1>3. QED
  BY <1>2 DEF Passed, Did, Act

LEMMA DidNone ==
    ASSUME NEW p \in Fork!Process, proc'[p].at = 1
    PROVE  \A acts : ~Passed(p, acts)'
BY DEF Passed, Did

OwnOf(p) ==
    /\ Passed(p, {"set"}) => proc[p].own = 1
    /\ proc[p].own = 1 => Passed(p, {"set", "read"})

LEMMA OwnKept ==
    ASSUME NEW p \in Fork!Process, OwnOf(p), program' = program,
           proc'[p].at = proc[p].at, proc'[p].own = proc[p].own
    PROVE  OwnOf(p)'
BY DEF OwnOf, Passed, Did

\* A process has nothing of its own where it forks, or in a program without.
LEMMA OwnNothing ==
    ASSUME ForkTypeInv, NEW p \in Fork!Process, OwnOf(p), AtAct(p),
           (Act(p) = "fork") \/ (Act(p) = "again")
    PROVE  proc[p].own = 0
<1>1. /\ CodeFacts(program, p, Fork!Code[program][p])
      /\ proc[p].at \in Nat \ {0} /\ proc[p].own \in {0, 1}
  BY CodeOK, ProcIn DEF ForkTypeInv
<1>2. StepFacts(program, p, proc[p].at, Act(p))
  BY ActFacts
<1>3. ASSUME NEW k \in 1 .. proc[p].at - 1
      PROVE  Fork!Code[program][p][k] \notin {"set", "read"}
  <2>1. k \in 1 .. Len(Fork!Code[program][p]) /\ k <= proc[p].at /\ k \in Nat
    BY <1>1, <1>3 DEF AtAct, CodeFacts
  <2>2. StepFacts(program, p, k, Fork!Code[program][p][k])
    BY <1>1, <2>1 DEF CodeFacts
  <2>3. CASE Act(p) = "fork"
    BY <1>1, <1>2, <2>1, <2>2, <2>3 DEF StepFacts
  <2>4. CASE Act(p) = "again"
    BY <1>2, <2>2, <2>4 DEF StepFacts
  <2>5. QED
    BY <2>3, <2>4
<1>4. ~Passed(p, {"set", "read"})
  BY <1>3 DEF Passed, Did
<1>5. QED
  BY <1>1, <1>4 DEF OwnOf

LEMMA OwnNext ==
    ASSUME ForkTypeInv, OwnInv, NEW p \in Fork!Process, StepOf(p)
    PROVE  OwnInv'
<1>1. \A q \in Fork!Process : OwnOf(q)
  BY DEF OwnInv, OwnOf
<1>2. SUFFICES \A q \in Fork!Process : OwnOf(q)'
  BY DEF OwnInv, OwnOf
<1>3. CASE Forks(p)
  <2>1. /\ Forks("parent") /\ Act("parent") = "fork" /\ AtAct("parent")
        /\ "parent" \in Fork!Process /\ "child" \in Fork!Process
        /\ program' = program
    BY <1>3, ForkPlace DEF Forks, Fork!Process
  <2>2. proc["parent"].own = 0
    BY <1>1, <2>1, OwnNothing
  <2>3. /\ proc'["parent"].at = proc["parent"].at + 1 /\ proc'["parent"].own = 0
        /\ proc'["child"].at = 1 /\ proc'["child"].own = 0
    BY <2>1, <2>2, ForkFields
  <2>4. OwnOf("child")'
    BY <2>1, <2>3, DidNone DEF OwnOf
  <2>5. ~Passed("parent", {"set"})
    BY <1>1, <2>1, <2>2 DEF OwnOf
  <2>6. ~Passed("parent", {"set"})'
    BY <2>1, <2>3, <2>5, DidOneMore
  <2>7. OwnOf("parent")'
    BY <2>3, <2>6 DEF OwnOf
  <2>8. QED
    BY <2>4, <2>7 DEF Fork!Process
<1>4. CASE ~Forks(p)
  <2>1. OthersKeep(p) /\ (Advances(p) \/ Leaps(p) \/ Stays(p)) /\ program' = program
    BY <1>4, Places DEF OthersKeep
  <2>2. \A q \in Fork!Process \ {p} : OwnOf(q)'
    BY <1>1, <2>1, OwnKept DEF OthersKeep
  <2>3. CASE Stays(p)
    BY <1>1, <2>1, <2>2, <2>3, OwnKept DEF Stays
  <2>4. CASE Advances(p)
    <3>1. /\ OwnOf(p) /\ proc'[p].at = proc[p].at + 1
          /\ Act(p) \notin {"set", "read"} => proc'[p].own = proc[p].own
          /\ Act(p) = "set" => proc'[p].own = 1
      BY <1>1, <2>4 DEF Advances
    <3>2. StepFacts(program, p, proc[p].at, Act(p))
      BY <2>4, ActFacts DEF Advances
    <3>3. \A acts : Passed(p, acts)' <=> Passed(p, acts) \/ Act(p) \in acts
      BY <2>1, <3>1, DidOneMore
    <3>4. Act(p) = "read" => ~Passed(p, {"set"})
      <4>1. ASSUME Act(p) = "read", Passed(p, {"set"}) PROVE FALSE
        <5>1. /\ CodeFacts(program, p, Fork!Code[program][p])
              /\ proc[p].at \in Nat \ {0} /\ proc[p].at \in 1 .. Len(Fork!Code[program][p])
          BY <2>4, CodeOK, ProcIn DEF ForkTypeInv, Advances, AtAct
        <5>2. PICK k \in 1 .. proc[p].at - 1 : Fork!Code[program][p][k] = "set"
          BY <4>1 DEF Passed, Did
        <5>3. k \in 1 .. Len(Fork!Code[program][p])
          BY <5>1, <5>2 DEF CodeFacts
        <5>4. StepFacts(program, p, k, "set")
          BY <5>1, <5>2, <5>3 DEF CodeFacts
        <5>5. QED
          BY <3>2, <4>1, <5>4 DEF StepFacts
      <4>2. QED
        BY <4>1
    <3>5. OwnOf(p)'
      BY <3>1, <3>3, <3>4 DEF OwnOf
    <3>6. QED
      BY <2>2, <3>5
  <2>5. CASE Leaps(p)
    <3>1. proc[p].own = 0
      BY <1>1, <2>5, OwnNothing DEF Leaps
    <3>2. ~Passed(p, {"set"})'
      <4>1. CASE proc'[p].at = 1
        BY <4>1, DidNone
      <4>2. CASE Act(p) = "fork" /\ program = "orphans" /\ proc'[p].at = 5
        <5>1. StepFacts(program, p, proc[p].at, "fork") /\ p = "parent"
          BY <2>5, <4>2, ActFacts DEF Leaps, StepFacts
        <5>2. /\ CodeFacts(program, p, Fork!Code[program][p])
              /\ Len(Fork!Code[program][p]) = 8
          BY <4>2, <5>1, CodeOK DEF ForkTypeInv, CodeFacts
        <5>3. \A k \in 1 .. 4 : k \in 1 .. 8
          OBVIOUS
        <5>4. \A k \in 1 .. 4 : Fork!Code[program][p][k] # "set"
          BY <4>2, <5>2, <5>3 DEF CodeFacts, StepFacts
        <5>5. 1 .. proc'[p].at - 1 = 1 .. 4
          BY <4>2
        <5>6. QED
          BY <2>1, <5>4, <5>5 DEF Passed, Did
      <4>3. QED
        BY <2>5, <4>1, <4>2 DEF Leaps
    <3>3. OwnOf(p)'
      BY <2>5, <3>1, <3>2 DEF OwnOf, Leaps
    <3>4. QED
      BY <2>2, <3>3
  <2>6. QED
    BY <2>1, <2>3, <2>4, <2>5
<1>5. QED
  BY <1>3, <1>4

LEMMA LinesKept ==
    ASSUME NEW p \in Fork!Process, StepOf(p)
    PROVE  program' = program /\ (lines' = lines \/ Prints(p))
BY DEF StepOf, Forks, OthersKeep, Quiet, Jumps, Flushes, Execed, Ends, Dies

LEMMA LineNext ==
    ASSUME ForkTypeInv, OwnInv, LineInv, NEW p \in Fork!Process, StepOf(p)
    PROVE  LineInv'
<1>1. program' = program /\ (lines' = lines \/ Prints(p))
  BY LinesKept
<1>2. \A line \in lines' : line \in lines \/ line = NewLine(p)
  BY <1>1 DEF Prints
<1>3. \A line : Fork!Before(line, {"set"})' <=> Fork!Before(line, {"set"})
  BY <1>1 DEF Fork!Before
<1>4. \A line : Fork!Before(line, {"set", "read"})' <=> Fork!Before(line, {"set", "read"})
  BY <1>1 DEF Fork!Before
<1>5. \A acts : Fork!Before(NewLine(p), acts) <=> Passed(p, acts)
  BY DEF Fork!Before, NewLine, Passed, Did
<1>6. NewLine(p).own = proc[p].own
  BY DEF NewLine
<1>7. QED
  BY <1>2, <1>3, <1>4, <1>5, <1>6 DEF LineInv, OwnInv

\* The status of a process that goes on, and of one that does not.
LEMMA Statuses ==
    ASSUME ForkTypeInv, NEW p \in Fork!Process, StepOf(p), ~Forks(p)
    PROVE  /\ proc[p].status = "runs"
           /\ \/ proc'[p].status = "runs"
              \/ Stays(p) /\ proc'[p].status = "ended" /\ (Execed(p) \/ Ends(p))
              \/ Stays(p) /\ proc'[p].status = "killed" /\ Dies(p) /\ p = "parent"
<1>1. proc[p].status = "runs"
  BY DEF StepOf, OthersKeep
<1>2. CASE Quiet(p) \/ Prints(p) \/ Flushes(p) \/ Jumps(p)
  <2>1. proc'[p].status = "runs"
    BY <1>2 DEF Quiet, Prints, Flushes, Jumps
  <2>2. QED
    BY <1>1, <2>1
<1>3. CASE Execed(p) \/ Ends(p)
  <2>1. Stays(p) /\ proc'[p].status = "ended"
    BY <1>3 DEF Execed, Ends, Stays
  <2>2. QED
    BY <1>1, <1>3, <2>1
<1>4. CASE Dies(p)
  <2>1. Stays(p) /\ proc'[p].status = "killed"
    BY <1>4, ProcIn DEF Dies, Stays, Processes
  <2>2. p = "parent"
    BY <1>4, ActFacts DEF Dies, StepFacts
  <2>3. QED
    BY <1>1, <1>4, <2>1, <2>2
<1>5. QED
  BY <1>2, <1>3, <1>4 DEF StepOf

LEMMA Advancing ==
    ASSUME ForkTypeInv, NEW p \in Fork!Process, StepOf(p), ~Forks(p), Advances(p)
    PROVE  /\ ~Stays(p) /\ proc'[p].status = "runs"
           /\ Quiet(p) \/ (Prints(p) /\ Act(p) = "print") \/ (Flushes(p) /\ Act(p) = "flush")
<1>1. ~Stays(p)
  <2>1. proc[p].at \in Nat
    BY ProcIn
  <2>2. proc'[p].at = proc[p].at + 1
    BY DEF Advances
  <2>3. QED
    BY <2>1, <2>2 DEF Stays
<1>2. proc'[p].status = "runs"
  BY <1>1, Statuses
<1>3. ~Execed(p) /\ ~Ends(p) /\ ~Dies(p)
  <2>1. ~Execed(p) /\ ~Ends(p)
    BY <1>2 DEF Execed, Ends
  <2>2. ~Dies(p)
    BY <1>2, ProcIn DEF Dies, Processes
  <2>3. QED
    BY <2>1, <2>2
<1>4. ~Jumps(p)
  <2>1. StepFacts(program, p, proc[p].at, Act(p)) /\ ForkAt["orphans"] = 1
    BY ActFacts DEF Advances, ForkAt
  <2>2. ASSUME Jumps(p) PROVE FALSE
    <3>1. Act(p) = "fork" /\ program = "orphans" /\ proc'[p].at = 5
      BY <2>2 DEF Jumps, Advances
    <3>2. proc[p].at = 1 /\ proc'[p].at = proc[p].at + 1
      BY <2>1, <3>1 DEF StepFacts, Advances
    <3>3. QED
      BY <3>1, <3>2
  <2>3. QED
    BY <2>2
<1>5. QED
  BY <1>1, <1>2, <1>3, <1>4 DEF StepOf, Prints, Flushes

LEMMA TwoProcesses ==
    ASSUME NEW p \in Fork!Process
    PROVE  /\ "parent" \in Fork!Process /\ "child" \in Fork!Process
           /\ p = "parent" \/ p = "child"
BY DEF Fork!Process

LEMMA LivesNext ==
    ASSUME ForkTypeInv, ChildLives, NEW p \in Fork!Process, StepOf(p)
    PROVE  ChildLives'
<1>1. CASE Forks(p)
  BY <1>1, ForkPlace, ForkFields DEF ChildLives
<1>2. CASE ~Forks(p)
  <2>1. OthersKeep(p)
    BY <1>2 DEF StepOf
  <2>2. QED
    BY <1>2, <2>1, Statuses, TwoProcesses DEF ChildLives, OthersKeep
<1>3. QED
  BY <1>1, <1>2

LEMMA OneChildNext ==
    ASSUME ForkTypeInv, OneChild, NEW p \in Fork!Process, StepOf(p)
    PROVE  OneChild'
<1>1. /\ proc["parent"].at \in Nat \ {0}
      /\ ForkAt[program] \in Nat /\ (program = "zombies" => ForkAt[program] = 1)
  <2>1. ForkAt[program] \in Nat
    BY DEF ForkTypeInv, Fork!Code, ForkAt
  <2>2. ForkAt["zombies"] = 1
    BY DEF ForkAt
  <2>3. QED
    BY <2>1, <2>2, ProcIn, TwoProcesses
<1>2. CASE Forks(p)
  <2>1. /\ Forks("parent") /\ proc["parent"].at = ForkAt[program] /\ program' = program
    BY <1>2, ForkPlace DEF Forks
  <2>2. proc'["parent"].at = proc["parent"].at + 1
    BY <2>1, ForkFields
  <2>3. QED
    BY <1>1, <2>1, <2>2 DEF OneChild
<1>3. CASE ~Forks(p)
  <2>1. /\ OthersKeep(p) /\ program' = program /\ proc[p].status = "runs"
        /\ Advances(p) \/ Leaps(p) \/ Stays(p)
    BY <1>3, Places DEF OthersKeep
  <2>2. CASE p = "child"
    BY <2>1, <2>2, TwoProcesses DEF OneChild, OthersKeep
  <2>3. CASE p = "parent"
    <3>1. proc'["child"] = proc["child"]
      BY <2>1, <2>3, TwoProcesses DEF OthersKeep
    <3>2. CASE Stays(p)
      BY <2>1, <2>3, <3>1, <3>2 DEF OneChild, Stays
    <3>3. CASE Leaps(p)
      <4>1. StepFacts(program, p, proc[p].at, Act(p))
        BY <3>3, ActFacts DEF Leaps
      <4>2. proc["child"].status # "runs"
        <5>1. CASE Act(p) = "again"
          BY <1>1, <2>3, <4>1, <5>1 DEF OneChild, StepFacts
        <5>2. CASE Act(p) = "fork"
          BY <1>1, <2>3, <4>1, <5>2 DEF OneChild, StepFacts
        <5>3. QED
          BY <3>3, <5>1, <5>2 DEF Leaps
      <4>3. QED
        BY <3>1, <4>2 DEF OneChild
    <3>4. CASE Advances(p)
      <4>1. /\ StepFacts(program, p, proc[p].at, Act(p))
            /\ proc'["parent"].at = proc["parent"].at + 1
        BY <2>3, <3>4, ActFacts DEF Advances
      <4>2. CASE program = "zombies" /\ proc["parent"].at = 2
        <5>1. Act(p) = "wait"
          BY <2>3, <4>1, <4>2 DEF StepFacts
        <5>2. Quiet(p)
          BY <1>3, <3>4, <5>1, Advancing
        <5>3. proc["child"].status # "runs"
          BY <2>3, <5>1, <5>2 DEF Quiet
        <5>4. QED
          BY <3>1, <5>3 DEF OneChild
      <4>3. CASE ~(program = "zombies" /\ proc["parent"].at = 2)
        BY <1>1, <2>1, <3>1, <4>1, <4>3 DEF OneChild
      <4>4. QED
        BY <4>2, <4>3
    <3>5. QED
      BY <2>1, <3>2, <3>3, <3>4
  <2>4. QED
    BY <2>2, <2>3, TwoProcesses
<1>4. QED
  BY <1>2, <1>3

LEMMA ShareNext ==
    ASSUME ForkTypeInv, ChildLives, ShareInv, NEW p \in Fork!Process, StepOf(p)
    PROVE  ShareInv'
<1>1. CASE program' # "shmem"
  BY <1>1 DEF ShareInv
<1>2. CASE program' = "shmem"
  <2>1. /\ program' = program /\ program = "shmem" /\ (lines' = lines \/ Prints(p))
        /\ proc["parent"].at \in Nat /\ proc["child"].at \in Nat /\ ForkAt["shmem"] = 2
    BY <1>2, LinesKept, ProcIn, TwoProcesses DEF ForkAt
  <2>2. AtAct(p) => StepFacts("shmem", p, proc[p].at, Act(p))
    BY <2>1, ActFacts
  <2>3. CASE Forks(p)
    <3>1. Forks("parent") /\ proc["parent"].at = 2 /\ lines' = lines
      BY <2>1, <2>3, ForkPlace DEF Forks
    <3>2. /\ proc'["parent"].at = 3
          /\ proc'["child"].at = 1 /\ proc'["child"].status = "runs"
      BY <3>1, ForkFields
    <3>3. \A line \in lines : line.by # "parent"
      BY <2>1, <3>1 DEF ShareInv
    <3>4. QED
      BY <3>1, <3>2, <3>3 DEF ShareInv
  <2>4. CASE ~Forks(p) /\ p = "child"
    <3>1. /\ proc'["parent"] = proc["parent"] /\ proc["child"].status = "runs"
          /\ OthersKeep(p) /\ (Advances(p) \/ Leaps(p) \/ Stays(p))
      BY <2>4, Places, TwoProcesses DEF OthersKeep
    <3>2. \A line \in lines' : line \in lines \/ line.by # "parent"
      BY <2>1, <2>4 DEF Prints, NewLine
    <3>3. /\ proc["parent"].at > 2 /\ proc["parent"].at <= 3
          /\ \A line \in lines : line.by # "parent"
      BY <2>1, <3>1 DEF ShareInv
    <3>4. proc'["child"].status # "killed"
      BY <2>4, Statuses
    <3>5. CASE Advances(p)
      <4>1. /\ StepFacts("shmem", "child", proc["child"].at, Act("child"))
            /\ proc'["child"].at = proc["child"].at + 1 /\ proc'["child"].status = "runs"
        BY <2>2, <2>4, <3>5, Advancing DEF Advances
      <4>2. Act("child") = "share" => Quiet(p) /\ block' = "child"
        BY <2>4, <3>5, Advancing DEF Quiet
      <4>3. Act("child") # "share" => block' = block
        BY <2>4, <3>5, Advancing DEF Quiet, Prints, Flushes
      <4>4. proc'["child"].at > 5 => block' = "child"
        <5>1. proc["child"].at = 5 => Act("child") = "share"
          BY <4>1 DEF StepFacts
        <5>2. proc["child"].at > 5 => block = "child" /\ Act("child") # "share"
          BY <2>1, <3>1, <4>1 DEF StepFacts, ShareInv
        <5>3. proc'["child"].at > 5 => proc["child"].at = 5 \/ proc["child"].at > 5
          BY <2>1, <4>1
        <5>4. QED
          BY <4>2, <4>3, <5>1, <5>2, <5>3
      <4>5. QED
        BY <2>1, <3>1, <3>2, <3>3, <4>1, <4>4 DEF ShareInv
    <3>6. CASE Leaps(p)
      BY <2>2, <2>4, <3>6 DEF Leaps, StepFacts
    <3>7. CASE Stays(p) /\ ~Advances(p) /\ ~Leaps(p)
      <4>1. proc'["child"].status = "ended" /\ (Execed(p) \/ Ends(p))
        <5>1. ~Quiet(p) /\ ~Prints(p) /\ ~Flushes(p) /\ ~Jumps(p)
          BY <3>7 DEF Quiet, Prints, Flushes, Jumps, Advances, Leaps
        <5>2. Execed(p) \/ Ends(p) \/ Dies(p)
          BY <2>4, <5>1 DEF StepOf
        <5>3. ~Dies(p)
          BY <2>2, <2>4 DEF Dies, StepFacts
        <5>4. QED
          BY <2>4, <5>2, <5>3 DEF Execed, Ends
      <4>2. ~Execed(p)
        <5>1. "shmem" \notin Execs
          BY DEF Execs
        <5>2. QED
          BY <2>2, <5>1 DEF Execed, StepFacts
      <4>3. Ends(p) /\ block' = block
        BY <4>1, <4>2 DEF Ends
      <4>4. proc["child"].at > 5
        <5>1. Len(Fork!Code["shmem"]["child"]) = 5
          BY <2>1, <2>4, ActFacts
        <5>2. ~(AtAct(p) /\ Act(p) = "return")
          BY <2>2 DEF StepFacts
        <5>3. QED
          BY <2>1, <2>4, <4>3, <5>1, <5>2 DEF Ends
      <4>5. block' = "child"
        BY <2>1, <3>1, <4>3, <4>4 DEF ShareInv
      <4>6. QED
        BY <2>1, <3>1, <3>2, <3>3, <4>1, <4>5 DEF ShareInv
    <3>8. QED
      BY <3>1, <3>5, <3>6, <3>7
  <2>5. CASE ~Forks(p) /\ p = "parent"
    <3>1. /\ proc'["child"] = proc["child"] /\ proc["parent"].status = "runs"
          /\ OthersKeep(p) /\ (Advances(p) \/ Leaps(p) \/ Stays(p))
      BY <2>5, Places, TwoProcesses DEF OthersKeep
    <3>2. CASE Leaps(p)
      BY <2>1, <2>2, <2>5, <3>2 DEF Leaps, StepFacts
    <3>3. CASE Stays(p) /\ ~Advances(p) /\ ~Leaps(p)
      <4>1. ~Quiet(p) /\ ~Prints(p) /\ ~Flushes(p) /\ ~Jumps(p)
        BY <3>3 DEF Quiet, Prints, Flushes, Jumps, Advances, Leaps
      <4>2. block' = block /\ lines' = lines
        BY <2>5, <4>1 DEF StepOf, Execed, Ends, Dies
      <4>3. proc'["parent"].at = proc["parent"].at
        BY <2>5, <3>3 DEF Stays
      <4>4. QED
        BY <2>1, <3>1, <4>2, <4>3 DEF ShareInv
    <3>4. CASE Advances(p)
      <4>1. /\ StepFacts("shmem", "parent", proc["parent"].at, Act("parent"))
            /\ proc'["parent"].at = proc["parent"].at + 1
        BY <2>2, <2>5, <3>4 DEF Advances
      <4>2. Quiet(p) \/ (Prints(p) /\ Act("parent") = "print")
                     \/ (Flushes(p) /\ Act("parent") = "flush")
        BY <2>5, <3>4, Advancing
      <4>4. Act("parent") = "share" => proc["parent"].at = 1
        BY <4>1 DEF StepFacts
      <4>5. block' = block \/ proc["parent"].at = 1
        BY <2>5, <4>2, <4>4 DEF Quiet, Prints, Flushes
      <4>6. proc["parent"].at = 3 => proc["child"].status # "runs"
        <5>1. proc["parent"].at = 3 => Act("parent") = "wait"
          BY <4>1 DEF StepFacts
        <5>2. QED
          BY <2>5, <4>2, <5>1 DEF Quiet
      <4>7. ASSUME NEW line \in lines', line.by = "parent"
            PROVE  /\ proc["parent"].at > 3
                   /\ proc["child"].status # "none" => line.block = "child"
        <5>1. CASE line \in lines
          BY <2>1, <4>7, <5>1 DEF ShareInv
        <5>2. CASE line \notin lines
          <6>1. Prints(p) /\ line = NewLine(p) /\ line.block = block
            BY <2>1, <4>7, <5>2 DEF Prints, NewLine
          <6>2. proc["parent"].at > 3
            BY <2>5, <4>1, <6>1 DEF Prints, StepFacts
          <6>3. proc["child"].status \in {"none", "ended"}
            BY <2>1, <6>2, ProcIn, TwoProcesses DEF ShareInv, ChildLives
          <6>4. QED
            BY <2>1, <6>1, <6>2, <6>3 DEF ShareInv
        <5>3. QED
          BY <5>1, <5>2
      <4>8. QED
        BY <2>1, <3>1, <4>1, <4>5, <4>6, <4>7 DEF ShareInv
    <3>5. QED
      BY <3>1, <3>2, <3>3, <3>4
  <2>6. QED
    BY <2>3, <2>4, <2>5, TwoProcesses
<1>3. QED
  BY <1>1, <1>2

LEMMA OnceEmpty == \A s : Once(<<>>, s)
BY DEF Once

LEMMA OnceAppend ==
    ASSUME NEW S, NEW seq \in Seq(S), NEW e \in S, NEW s, Once(seq, s), s # e \/ ~Holds(seq, s)
    PROVE  Once(Append(seq, e), s)
<1>1. /\ Len(Append(seq, e)) = Len(seq) + 1
      /\ \A k \in 1 .. Len(seq) : Append(seq, e)[k] = seq[k]
      /\ Append(seq, e)[Len(seq) + 1] = e
  BY AppendProperties
<1>2. Len(seq) \in Nat /\ 1 .. Len(seq) + 1 = 1 .. Len(seq) \cup {Len(seq) + 1}
  BY LenProperties
<1>3. QED
  BY <1>1, <1>2 DEF Once, Holds

LEMMA OnceConcat ==
    ASSUME NEW S, NEW a \in Seq(S), NEW b \in Seq(S), NEW s, Once(a, s), Once(b, s),
           ~(Holds(a, s) /\ Holds(b, s))
    PROVE  Once(a \o b, s)
<1>1. /\ Len(a \o b) = Len(a) + Len(b)
      /\ \A k \in 1 .. Len(a) + Len(b) :
            (a \o b)[k] = IF k <= Len(a) THEN a[k] ELSE b[k - Len(a)]
  BY ConcatProperties
<1>2. Len(a) \in Nat /\ Len(b) \in Nat
  BY LenProperties
<1>3. SUFFICES ASSUME NEW k \in 1 .. Len(a) + Len(b), NEW l \in 1 .. Len(a) + Len(b),
                      (a \o b)[k] = s, (a \o b)[l] = s
               PROVE  k = l
  BY <1>1 DEF Once
<1>4. \A m \in 1 .. Len(a) + Len(b) :
         m \in 1 .. Len(a) \/ (~(m <= Len(a)) /\ m - Len(a) \in 1 .. Len(b))
  BY <1>2
<1>5. \A m \in 1 .. Len(a) : m <= Len(a)
  BY <1>2
<1>6. CASE k \in 1 .. Len(a) /\ l \in 1 .. Len(a)
  BY <1>1, <1>3, <1>5, <1>6 DEF Once
<1>7. CASE k \in 1 .. Len(a) /\ ~(l <= Len(a)) /\ l - Len(a) \in 1 .. Len(b)
  BY <1>1, <1>3, <1>5, <1>7 DEF Holds
<1>8. CASE l \in 1 .. Len(a) /\ ~(k <= Len(a)) /\ k - Len(a) \in 1 .. Len(b)
  BY <1>1, <1>3, <1>5, <1>8 DEF Holds
<1>9. CASE /\ ~(k <= Len(a)) /\ k - Len(a) \in 1 .. Len(b)
           /\ ~(l <= Len(a)) /\ l - Len(a) \in 1 .. Len(b)
  <2>1. k - Len(a) = l - Len(a)
    BY <1>1, <1>3, <1>9 DEF Once
  <2>2. QED
    BY <1>2, <2>1
<1>10. QED
  BY <1>4, <1>6, <1>7, <1>8, <1>9

\* Where the lines go: nowhere, held back or out, out, or away.
NoneGo(p) ==
    /\ proc'[p].held = proc[p].held /\ UNCHANGED <<out, lines>>
    /\ proc'[p].status \in {"runs", "killed"}
    /\ proc'[p].status = "killed" => p = "parent"
    /\ \/ forks' = forks /\ (proc'[p].at = 1 => Stays(p) \/ Act(p) = "again")
       \/ forks' = forks + 1
HeldGo(p) ==
    /\ proc'[p].held = <<>> /\ out' = out \o proc[p].held /\ UNCHANGED <<lines, forks>>

LEMMA LinesGo ==
    ASSUME ForkTypeInv, NEW p \in Fork!Process, StepOf(p), ~Forks(p)
    PROVE  /\ OthersKeep(p)
           /\ NoneGo(p) \/ Prints(p) \/ HeldGo(p) \/ Execed(p)
<1>1. OthersKeep(p) /\ proc[p].at \in Nat \ {0}
  BY ProcIn DEF StepOf
<1>2. CASE Quiet(p)
  <2>1. proc'[p].at = proc[p].at + 1 /\ proc'[p].held = proc[p].held /\ proc'[p].status = "runs"
    BY <1>2 DEF Quiet
  <2>2. proc'[p].at # 1
    BY <1>1, <2>1
  <2>3. QED
    BY <1>1, <1>2, <2>1, <2>2 DEF Quiet, NoneGo
<1>3. CASE Jumps(p)
  BY <1>1, <1>3 DEF Jumps, NoneGo
<1>4. CASE Dies(p)
  <2>1. p = "parent"
    BY <1>4, ActFacts DEF Dies, StepFacts
  <2>2. /\ proc'[p].status = "killed" /\ proc'[p].held = proc[p].held /\ Stays(p)
        /\ UNCHANGED <<out, lines, forks>>
    BY <1>4, ProcIn DEF Dies, Processes, Stays
  <2>3. QED
    BY <1>1, <2>1, <2>2 DEF NoneGo
<1>5. CASE Flushes(p) \/ Ends(p)
  BY <1>1, <1>5 DEF Flushes, Ends, HeldGo
<1>6. QED
  BY <1>1, <1>2, <1>3, <1>4, <1>5 DEF StepOf

LEMMA FreshNext ==
    ASSUME ForkTypeInv, Fresh, NEW p \in Fork!Process, StepOf(p)
    PROVE  Fresh'
<1>1. /\ forks \in Nat /\ proc[p].at \in Nat \ {0} /\ program' = program
      /\ \A line \in lines : line.by \in Fork!Process /\ line.at \in Nat /\ line.fork \in Nat
  BY ProcIn, LinesKept DEF ForkTypeInv, Lines
<1>2. CASE forks' = forks + 1 /\ lines' = lines
  BY <1>1, <1>2 DEF Fresh
<1>3. CASE forks' = forks /\ ~Forks(p)
  <2>1. /\ OthersKeep(p) /\ forks' = forks
        /\ \A line \in lines' : line \in lines \/ (Prints(p) /\ line = NewLine(p))
    BY <1>3, LinesKept DEF StepOf, Prints
  <2>2. ASSUME Prints(p)
        PROVE  ~(proc'[NewLine(p).by].at <= NewLine(p).at) /\ NewLine(p).fork = forks
    BY <1>1, <2>2 DEF Prints, NewLine
  <2>3. ASSUME NEW line \in lines, line.fork = forks, proc'[line.by].at <= line.at
        PROVE  program = "zombies" /\ line.by = "parent" /\ proc'["parent"].at = 1
    <3>1. CASE line.by # p
      BY <1>1, <2>1, <2>3, <3>1 DEF OthersKeep, Fresh
    <3>2. CASE line.by = p /\ Stays(p)
      BY <2>3, <3>2 DEF Stays, Fresh
    <3>3. CASE line.by = p /\ Advances(p) /\ ~Stays(p)
      <4>1. proc[p].at <= line.at
        <5>1. line.at \in Nat /\ proc'[p].at = proc[p].at + 1 /\ proc'[p].at <= line.at
          BY <1>1, <2>3, <3>3 DEF Advances
        <5>2. QED
          BY <1>1, <5>1
      <4>2. program = "zombies" /\ p = "parent" /\ proc[p].at = 1
        BY <2>3, <3>3, <4>1 DEF Fresh
      <4>3. Act(p) = "fork"
        BY <3>3, <4>2, ActFacts DEF StepFacts, Advances
      <4>4. Quiet(p)
        BY <1>3, <3>3, <4>3, Advancing
      <4>5. QED
        BY <1>1, <1>3, <4>3, <4>4 DEF Quiet
    <3>4. CASE line.by = p /\ Leaps(p) /\ ~Stays(p) /\ ~Advances(p)
      <4>1. Jumps(p)
        <5>1. ~Quiet(p) /\ ~Prints(p) /\ ~Flushes(p)
          BY <3>4 DEF Quiet, Prints, Flushes, Advances
        <5>2. ~Execed(p) /\ ~Ends(p)
          BY <3>4 DEF Execed, Ends, Stays
        <5>3. ~Dies(p)
          BY <3>4, ProcIn DEF Dies, Stays, Processes
        <5>4. QED
          BY <1>3, <5>1, <5>2, <5>3 DEF StepOf
      <4>2. AtAct(p) /\ Act(p) = "again" /\ proc'[p].at = 1
        BY <1>1, <1>3, <4>1 DEF Jumps
      <4>3. QED
        BY <3>4, <4>2, ActFacts DEF StepFacts
    <3>5. QED
      BY <1>3, <3>1, <3>2, <3>3, <3>4, Places
  <2>4. QED
    BY <1>1, <2>1, <2>2, <2>3 DEF Fresh
<1>4. QED
  <2>1. CASE Forks(p)
    BY <1>2, <2>1 DEF Forks
  <2>2. CASE ~Forks(p)
    BY <1>2, <1>3, <2>2, LinesGo DEF NoneGo, Prints, HeldGo, Execed
  <2>3. QED
    BY <2>1, <2>2

\* A line that is about to be printed has not been.
LEMMA NewLineNew ==
    ASSUME ForkTypeInv, Fresh, NEW p \in Fork!Process, Prints(p)
    PROVE  NewLine(p) \notin lines
<1>1. SUFFICES ASSUME NewLine(p) \in lines PROVE FALSE
  OBVIOUS
<1>2. NewLine(p).fork = forks /\ NewLine(p).by = p /\ NewLine(p).at = proc[p].at
  BY DEF NewLine
<1>3. proc[p].at <= proc[p].at
  <2>1. proc[p].at \in Nat
    BY ProcIn
  <2>2. QED
    BY <2>1
<1>4. program = "zombies" /\ p = "parent" /\ proc[p].at = 1
  BY <1>1, <1>2, <1>3 DEF Fresh
<1>5. Act(p) = "fork"
  BY <1>4, ActFacts DEF Prints, StepFacts
<1>6. QED
  BY <1>5 DEF Prints

LEMMA HeldAfter ==
    ASSUME ForkTypeInv, NEW p \in Fork!Process, Prints(p)
    PROVE  /\ terminal => proc'[p].held = proc[p].held /\ out' = Append(out, NewLine(p))
           /\ ~terminal => proc'[p].held = Append(proc[p].held, NewLine(p)) /\ out' = out
           /\ proc[p].held \in Seq(Lines) /\ out \in Seq(Lines) /\ NewLine(p) \in Lines
           /\ \A s : Holds(Append(out, NewLine(p)), s) <=> Holds(out, s) \/ s = NewLine(p)
           /\ \A s : Holds(Append(proc[p].held, NewLine(p)), s) <=>
                        Holds(proc[p].held, s) \/ s = NewLine(p)
<1>1. proc[p].held \in Seq(Lines) /\ out \in Seq(Lines) /\ NewLine(p) \in Lines
  BY ProcIn, NewLineIn DEF ForkTypeInv
<1>2. QED
  BY <1>1, HoldsAppend DEF Prints

LEMMA OutAfter ==
    ASSUME ForkTypeInv, NEW p \in Fork!Process, HeldGo(p)
    PROVE  /\ proc[p].held \in Seq(Lines) /\ out \in Seq(Lines)
           /\ \A s : Holds(out', s) <=> Holds(out, s) \/ Holds(proc[p].held, s)
           /\ \A s : ~Holds(proc'[p].held, s)
           /\ \A s : /\ Once(out, s) /\ Once(proc[p].held, s)
                    /\ ~(Holds(proc[p].held, s) /\ Holds(out, s))
                    => Once(out', s)
<1>1. proc[p].held \in Seq(Lines) /\ out \in Seq(Lines)
  BY ProcIn DEF ForkTypeInv
<1>2. QED
  BY <1>1, HoldsConcat, HoldsEmpty, OnceConcat DEF HeldGo

LEMMA PrintedNext ==
    ASSUME ForkTypeInv, Printed, NEW p \in Fork!Process, StepOf(p)
    PROVE  Printed'
<1>1. CASE Forks(p)
  <2>1. Forks("parent") /\ UNCHANGED <<out, lines, terminal>>
    BY <1>1, ForkPlace DEF Forks
  <2>2. \A q \in Fork!Process : proc'[q].held = proc["parent"].held
    BY <2>1, ForkFields, TwoProcesses
  <2>3. QED
    BY <2>1, <2>2, TwoProcesses DEF Printed
<1>2. CASE ~Forks(p)
  <2>1. /\ OthersKeep(p) /\ terminal' = terminal
        /\ \A q \in Fork!Process \ {p} : proc'[q] = proc[q]
        /\ NoneGo(p) \/ Prints(p) \/ HeldGo(p) \/ Execed(p)
    BY <1>2, LinesGo DEF OthersKeep
  <2>2. CASE NoneGo(p)
    BY <2>1, <2>2 DEF NoneGo, Printed
  <2>3. CASE Prints(p)
    <3>1. lines' = lines \cup {NewLine(p)}
      BY <2>3 DEF Prints
    <3>2. CASE terminal
      BY <2>1, <2>3, <3>1, <3>2, HeldAfter DEF Printed
    <3>3. CASE ~terminal
      BY <2>1, <2>3, <3>1, <3>3, HeldAfter DEF Printed
    <3>4. QED
      BY <3>2, <3>3
  <2>4. CASE HeldGo(p)
    <3>1. lines' = lines /\ proc'[p].held = <<>>
      BY <2>4 DEF HeldGo
    <3>2. QED
      BY <2>1, <2>4, <3>1, OutAfter DEF Printed
  <2>5. CASE Execed(p)
    <3>1. UNCHANGED <<lines, out>> /\ proc'[p].held = <<>> /\ \A s : ~Holds(<<>>, s)
      BY <2>5, HoldsEmpty DEF Execed
    <3>2. QED
      BY <2>1, <3>1 DEF Printed
  <2>6. QED
    BY <2>1, <2>2, <2>3, <2>4, <2>5
<1>3. QED
  BY <1>1, <1>2

LEMMA CopyNext ==
    ASSUME ForkTypeInv, Fresh, Printed, CopyInv, NEW p \in Fork!Process, StepOf(p)
    PROVE  CopyInv'
<1>1. SUFFICES ASSUME NEW line \in lines', terminal' \/ line.fork = forks'
               PROVE  WrittenOnce(line)'
  BY DEF CopyInv
<1>2. terminal' = terminal /\ (line \in lines \/ (Prints(p) /\ line = NewLine(p)))
  BY LinesKept DEF StepOf, Forks, OthersKeep, Prints
<1>3. forks \in Nat /\ \A l \in lines : l.fork <= forks /\ l.fork \in Nat
  BY DEF ForkTypeInv, Fresh, Lines
<1>4. CASE Forks(p)
  <2>1. Forks("parent") /\ UNCHANGED <<out, lines>> /\ forks' = forks + 1
    BY <1>4, ForkPlace DEF Forks
  <2>2. terminal /\ line \in lines
    BY <1>1, <1>2, <1>3, <2>1
  <2>3. \A q \in Fork!Process : proc'[q].held = <<>>
    BY <2>1, <2>2, ForkFields, TwoProcesses DEF Printed
  <2>4. Once(out, line)
    BY <2>2 DEF CopyInv, WrittenOnce
  <2>5. \A q \in Fork!Process : Once(proc'[q].held, line) /\ ~Holds(proc'[q].held, line)
    BY <2>3, OnceEmpty, HoldsEmpty
  <2>6. QED
    BY <2>1, <2>4, <2>5, TwoProcesses DEF WrittenOnce
<1>5. CASE ~Forks(p)
  <2>1. /\ \A q \in Fork!Process \ {p} : proc'[q] = proc[q]
        /\ NoneGo(p) \/ Prints(p) \/ HeldGo(p) \/ Execed(p)
    BY <1>5, LinesGo DEF OthersKeep
  <2>2. line \in lines => WrittenOnce(line)
    <3>1. forks' \in {forks, forks + 1}
      BY <2>1 DEF NoneGo, Prints, HeldGo, Execed
    <3>2. line \in lines => terminal \/ line.fork = forks
      BY <1>1, <1>2, <1>3, <3>1
    <3>3. QED
      BY <3>2 DEF CopyInv
  <2>3. PICK q \in Fork!Process : q # p /\ \A r \in Fork!Process : r = p \/ r = q
    BY DEF Fork!Process
  <2>4. /\ proc'[q] = proc[q]
        /\ {p, q} = {"parent", "child"}
    BY <2>1, <2>3 DEF Fork!Process
  <2>5. /\ WrittenOnce(line) <=>
             /\ Once(out, line) /\ Once(proc[p].held, line) /\ Once(proc[q].held, line)
             /\ ~(Holds(proc[p].held, line) /\ Holds(out, line))
             /\ ~(Holds(proc[q].held, line) /\ Holds(out, line))
             /\ ~(Holds(proc[p].held, line) /\ Holds(proc[q].held, line))
        /\ WrittenOnce(line)' <=>
             /\ Once(out', line) /\ Once(proc'[p].held, line) /\ Once(proc[q].held, line)
             /\ ~(Holds(proc'[p].held, line) /\ Holds(out', line))
             /\ ~(Holds(proc[q].held, line) /\ Holds(out', line))
             /\ ~(Holds(proc'[p].held, line) /\ Holds(proc[q].held, line))
    <3>1. CASE p = "parent" /\ q = "child"
      BY <2>4, <3>1 DEF WrittenOnce, Fork!Process
    <3>2. CASE p = "child" /\ q = "parent"
      BY <2>4, <3>2 DEF WrittenOnce, Fork!Process
    <3>3. QED
      BY <2>3, <3>1, <3>2, TwoProcesses
  <2>6. CASE NoneGo(p)
    <3>1. proc'[p].held = proc[p].held /\ out' = out /\ line \in lines
      BY <1>1, <2>6 DEF NoneGo
    <3>2. QED
      BY <2>2, <2>5, <3>1
  <2>7. CASE Prints(p)
    <3>1. CASE line = NewLine(p)
      <4>1. /\ ~Holds(out, line) /\ ~Holds(proc[p].held, line) /\ ~Holds(proc[q].held, line)
        BY <2>7, <3>1, NewLineNew DEF Printed
      <4>2. Once(out, line) /\ Once(proc[p].held, line) /\ Once(proc[q].held, line)
        BY <4>1 DEF Once, Holds
      <4>3. Once(Append(out, NewLine(p)), line) /\ Once(Append(proc[p].held, NewLine(p)), line)
        BY <2>7, <4>1, <4>2, HeldAfter, OnceAppend
      <4>4. CASE terminal
        BY <2>5, <2>7, <4>1, <4>2, <4>3, <4>4, HeldAfter
      <4>5. CASE ~terminal
        BY <2>5, <2>7, <4>1, <4>2, <4>3, <4>5, HeldAfter
      <4>6. QED
        BY <4>4, <4>5
    <3>2. CASE line # NewLine(p)
      <4>1. WrittenOnce(line)
        BY <1>2, <2>2, <3>2
      <4>2. Once(Append(out, NewLine(p)), line) /\ Once(Append(proc[p].held, NewLine(p)), line)
        BY <2>5, <2>7, <3>2, <4>1, HeldAfter, OnceAppend
      <4>3. /\ Holds(Append(out, NewLine(p)), line) <=> Holds(out, line)
            /\ Holds(Append(proc[p].held, NewLine(p)), line) <=> Holds(proc[p].held, line)
        BY <2>7, <3>2, HeldAfter
      <4>4. CASE terminal
        BY <2>5, <2>7, <4>1, <4>2, <4>3, <4>4, HeldAfter
      <4>5. CASE ~terminal
        BY <2>5, <2>7, <4>1, <4>2, <4>3, <4>5, HeldAfter
      <4>6. QED
        BY <4>4, <4>5
    <3>3. QED
      BY <3>1, <3>2
  <2>8. CASE HeldGo(p)
    <3>1. line \in lines /\ proc'[p].held = <<>>
      BY <1>1, <2>8 DEF HeldGo
    <3>2. Once(out', line)
      BY <2>2, <2>5, <2>8, <3>1, OutAfter
    <3>3. QED
      BY <2>2, <2>5, <2>8, <3>1, <3>2, OnceEmpty, OutAfter
  <2>9. CASE Execed(p)
    <3>1. proc'[p].held = <<>> /\ out' = out /\ line \in lines
      BY <1>1, <2>9 DEF Execed
    <3>2. QED
      BY <2>2, <2>5, <3>1, OnceEmpty, HoldsEmpty
  <2>10. QED
    BY <2>1, <2>6, <2>7, <2>8, <2>9
<1>6. QED
  BY <1>4, <1>5

LEMMA NoneHeldNext ==
    ASSUME ForkTypeInv, NoneHeld, NEW p \in Fork!Process, StepOf(p)
    PROVE  NoneHeld'
<1>1. /\ program' = program
      /\ program \in Execs => ForkAt[program] = 1 /\ program \notin {"zombies", "orphans"}
  BY LinesKept DEF ForkAt, Execs
<1>2. CASE Forks(p)
  <2>1. Forks("parent") /\ proc["parent"].at = ForkAt[program]
    BY <1>2, ForkPlace
  <2>2. program \in Execs => proc["parent"].held = <<>>
    BY <1>1, <2>1, TwoProcesses DEF NoneHeld
  <2>3. \A q \in Fork!Process : proc'[q].held = proc["parent"].held
    BY <2>1, ForkFields, TwoProcesses
  <2>4. QED
    BY <1>1, <2>2, <2>3 DEF NoneHeld
<1>3. CASE ~Forks(p)
  <2>1. /\ OthersKeep(p) /\ (Advances(p) \/ Leaps(p) \/ Stays(p)) /\ proc[p].at \in Nat \ {0}
        /\ \A q \in Fork!Process \ {p} : proc'[q] = proc[q]
    BY <1>3, Places, ProcIn DEF OthersKeep
  <2>2. SUFFICES ASSUME program \in Execs, proc'[p].at = 1 PROVE proc'[p].held = <<>>
    BY <1>1, <2>1 DEF NoneHeld
  <2>3. CASE Advances(p)
    BY <2>1, <2>2, <2>3 DEF Advances
  <2>4. CASE Leaps(p)
    <3>1. Act(p) = "again"
      BY <2>2, <2>4 DEF Leaps
    <3>2. QED
      BY <1>1, <2>2, <2>4, <3>1, ActFacts DEF Leaps, StepFacts
  <2>5. CASE Stays(p) /\ ~Advances(p) /\ ~Leaps(p)
    <3>1. ~Prints(p)
      BY <2>5 DEF Prints, Advances
    <3>2. proc'[p].held \in {proc[p].held, <<>>}
      <4>1. Execed(p) => proc'[p].held = <<>>
        BY DEF Execed
      <4>2. NoneGo(p) => proc'[p].held = proc[p].held
        BY DEF NoneGo
      <4>3. HeldGo(p) => proc'[p].held = <<>>
        BY DEF HeldGo
      <4>4. QED
        BY <1>3, <3>1, <4>1, <4>2, <4>3, LinesGo
    <3>3. proc[p].held = <<>>
      BY <2>2, <2>5 DEF NoneHeld, Stays
    <3>4. QED
      BY <3>2, <3>3
  <2>6. QED
    BY <2>1, <2>3, <2>4, <2>5
<1>4. QED
  BY <1>2, <1>3

LEMMA KeptNext ==
    ASSUME ForkTypeInv, OneChild, NoneHeld, KeptInv, NEW p \in Fork!Process, StepOf(p)
    PROVE  KeptInv'
<1>1. SUFFICES ASSUME proc'["parent"].status # "killed", NEW line \in lines'
               PROVE  Kept(line)'
  BY DEF KeptInv
<1>2. CASE Forks(p)
  <2>1. /\ Forks("parent") /\ UNCHANGED <<out, lines>> /\ proc["parent"].status = "runs"
        /\ proc["parent"].at = ForkAt[program] /\ program \in DOMAIN Fork!Code
    BY <1>2, ForkPlace DEF Forks, ForkTypeInv
  <2>2. /\ proc'["parent"].status = "runs" /\ proc'["parent"].held = proc["parent"].held
    BY <2>1, ForkFields
  <2>3. proc["child"].status # "runs"
    <3>1. proc["parent"].at \in Nat
      BY ProcIn, TwoProcesses
    <3>2. QED
      BY <2>1, <3>1 DEF OneChild
  <2>4. Kept(line)
    BY <2>1 DEF KeptInv
  <2>5. Holds(out, line) \/ Holds(proc["parent"].held, line)
    BY <2>3, <2>4, TwoProcesses DEF Kept
  <2>6. QED
    BY <2>1, <2>2, <2>5, TwoProcesses DEF Kept
<1>3. CASE ~Forks(p)
  <2>1. /\ \A q \in Fork!Process \ {p} : proc'[q] = proc[q]
        /\ proc[p].status = "runs"
        /\ NoneGo(p) \/ Prints(p) \/ HeldGo(p) \/ Execed(p)
    BY <1>3, LinesGo DEF OthersKeep
  <2>2. proc["parent"].status # "killed"
    BY <1>1, <2>1, TwoProcesses
  <2>3. line \in lines =>
          \/ Holds(out, line) \/ Holds(proc[p].held, line)
          \/ \E q \in Fork!Process \ {p} : proc'[q].status = "runs" /\ Holds(proc'[q].held, line)
    BY <2>1, <2>2 DEF KeptInv, Kept
  <2>4. CASE NoneGo(p)
    <3>1. /\ proc'[p].held = proc[p].held /\ out' = out /\ line \in lines
          /\ proc'[p].status = "runs"
      BY <1>1, <2>4 DEF NoneGo
    <3>2. QED
      BY <2>3, <3>1 DEF Kept
  <2>5. CASE Prints(p)
    <3>1. /\ line \in lines \/ line = NewLine(p)
          /\ proc'[p].status = "runs"
      BY <1>1, <2>5 DEF Prints
    <3>2. Holds(out, line) => Holds(out', line)
      BY <2>5, HeldAfter
    <3>3. Holds(proc[p].held, line) => Holds(proc'[p].held, line)
      BY <2>5, HeldAfter
    <3>4. line = NewLine(p) => Holds(out', line) \/ Holds(proc'[p].held, line)
      BY <2>5, HeldAfter
    <3>5. QED
      BY <2>3, <3>1, <3>2, <3>3, <3>4 DEF Kept
  <2>6. CASE HeldGo(p)
    <3>1. line \in lines /\ \A s : Holds(out', s) <=> Holds(out, s) \/ Holds(proc[p].held, s)
      BY <1>1, <2>6, OutAfter DEF HeldGo
    <3>2. QED
      BY <2>3, <3>1 DEF Kept
  <2>7. CASE Execed(p)
    <3>1. line \in lines /\ out' = out /\ AtAct(p) /\ Act(p) = "exec"
      BY <1>1, <2>7 DEF Execed
    <3>2. program \in Execs /\ proc[p].at = 1
      BY <3>1, ActFacts DEF StepFacts
    <3>3. proc[p].held = <<>>
      BY <3>2 DEF NoneHeld
    <3>4. QED
      BY <2>3, <3>1, <3>3, HoldsEmpty DEF Kept
  <2>8. QED
    BY <2>1, <2>4, <2>5, <2>6, <2>7
<1>4. QED
  BY <1>2, <1>3

LEMMA InitFork == Fork!Init => ForkInv
<1> SUFFICES ASSUME Fork!Init PROVE ForkInv
  OBVIOUS
<1>1. /\ program \in DOMAIN Fork!Code /\ terminal \in BOOLEAN
      /\ block = "parent" /\ out = <<>> /\ lines = {} /\ forks = 0
      /\ proc = [p \in Fork!Process |-> [status |-> IF p = "parent" THEN "runs" ELSE "none",
                                         at |-> 1, own |-> 0, held |-> <<>>]]
  BY DEF Fork!Init
<1>2. /\ proc["parent"] = [status |-> "runs", at |-> 1, own |-> 0, held |-> <<>>]
      /\ proc["child"] = [status |-> "none", at |-> 1, own |-> 0, held |-> <<>>]
      /\ "parent" \in Fork!Process
      /\ \A p \in Fork!Process : proc[p].at = 1 /\ proc[p].own = 0 /\ proc[p].held = <<>>
  BY <1>1 DEF Fork!Process
<1>3. ForkTypeInv
  <2>1. <<>> \in Seq(Lines)
    BY EmptySeq
  <2>2. proc \in [Fork!Process -> Processes]
    BY <1>1, <2>1 DEF Processes
  <2>3. QED
    BY <1>1, <1>2, <2>1, <2>2 DEF ForkTypeInv
<1>4. OwnInv /\ LineInv
  BY <1>1, <1>2 DEF OwnInv, LineInv, Passed, Did
<1>5. ShareInv
  BY <1>1, <1>2 DEF ShareInv
<1>6. ChildLives /\ OneChild /\ Fresh
  BY <1>1, <1>2 DEF ChildLives, OneChild, Fresh
<1>7. Printed /\ CopyInv /\ NoneHeld /\ KeptInv
  BY <1>1, <1>2, HoldsEmpty DEF Printed, CopyInv, NoneHeld, KeptInv
<1>8. QED
  BY <1>3, <1>4, <1>5, <1>6, <1>7 DEF ForkInv, ReportInv, OutputInv

LEMMA NextFork == ForkInv /\ [Fork!Next]_forkState => ForkInv'
<1> SUFFICES ASSUME ForkInv, [Fork!Next]_forkState PROVE ForkInv'
  OBVIOUS
<1>1. /\ ForkTypeInv /\ ChildLives /\ OwnInv /\ LineInv /\ ShareInv
      /\ OneChild /\ Fresh /\ Printed /\ CopyInv /\ NoneHeld /\ KeptInv
  BY DEF ForkInv, ReportInv, OutputInv
<1>2. CASE Fork!Next
  <2>1. PICK p \in Fork!Process : StepOf(p)
    BY <1>1, <1>2, StepKinds
  <2>2. ForkTypeInv' /\ ChildLives' /\ OwnInv' /\ LineInv' /\ ShareInv'
    BY <1>1, <2>1, ForkType, LivesNext, OwnNext, LineNext, ShareNext
  <2>3. OneChild' /\ Fresh' /\ Printed' /\ CopyInv' /\ NoneHeld' /\ KeptInv'
    BY <1>1, <2>1, OneChildNext, FreshNext, PrintedNext, CopyNext, NoneHeldNext, KeptNext
  <2>4. QED
    BY <2>2, <2>3 DEF ForkInv, ReportInv, OutputInv
<1>3. CASE UNCHANGED forkState
  <2>1. UNCHANGED <<program, terminal, proc, block, out, lines, forks>>
    BY <1>3 DEF forkState
  <2>2. ForkTypeInv' /\ ChildLives' /\ ShareInv'
    BY <1>1, <2>1 DEF ForkTypeInv, ChildLives, ShareInv
  <2>3. OwnInv' /\ LineInv'
    BY <1>1, <2>1 DEF OwnInv, LineInv, Passed, Did, Fork!Before
  <2>4. OneChild' /\ Fresh' /\ NoneHeld'
    BY <1>1, <2>1 DEF OneChild, Fresh, NoneHeld
  <2>5. Printed' /\ KeptInv'
    BY <1>1, <2>1 DEF Printed, KeptInv, Kept
  <2>6. CopyInv'
    BY <1>1, <2>1 DEF CopyInv, WrittenOnce
  <2>7. QED
    BY <2>2, <2>3, <2>4, <2>5, <2>6 DEF ForkInv, ReportInv, OutputInv
<1>4. QED
  BY <1>2, <1>3

LEMMA ForkInvariant == Spec => []ForkInv
<1>1. Init => ForkInv
  BY InitFork DEF Init
<1>2. ForkInv /\ [Next]_vars => ForkInv'
  BY NextFork, ForkSteps
<1>3. QED
  BY <1>1, <1>2, PTL DEF Spec

(* What shmem.c's parent prints after its wait shows the block as its child  *)
(* left it, and in no program does a line show an assignment of the other    *)
(* process (shmem.c:41-52, forktest.c:17-25, exec3.c:16-27).                 *)
THEOREM PrintsWhatItHas == Spec => []ReportsInOrder
<1>1. ForkInv => ReportsInOrder
  <2> SUFFICES ASSUME ForkInv PROVE ReportsInOrder
    OBVIOUS
  <2>1. LineInv /\ ShareInv
    BY DEF ForkInv, ReportInv
  <2>2. QED
    BY <2>1 DEF LineInv, ShareInv, ReportsInOrder, Fork!ReportsInOrder
<1>2. QED
  BY <1>1, ForkInvariant, PTL

\* The copies of a line that the output has.
LEMMA CopiesOf ==
    ASSUME NEW line, out \in Seq(Lines)
    PROVE  /\ Once(out, line) => ~(Fork!Copies(line) > 1)
           /\ Holds(out, line) => Fork!Copies(line) >= 1
<1> DEFINE C == {k \in DOMAIN out : out[k] = line}
<1>1. DOMAIN out = 1 .. Len(out) /\ Len(out) \in Nat
  BY LenProperties
<1>2. IsFiniteSet(C) /\ Cardinality(C) \in Nat
  <2>1. IsFiniteSet(1 .. Len(out))
    BY <1>1, FS_Interval
  <2>2. IsFiniteSet(C)
    BY <1>1, <2>1, FS_Subset
  <2>3. QED
    BY <2>2, FS_CardinalityType
<1>3. Fork!Copies(line) = Cardinality(C)
  BY DEF Fork!Copies, Fork!Cardinality, Cardinality
<1>4. ASSUME Once(out, line) PROVE ~(Cardinality(C) > 1)
  <2>1. CASE C = {}
    BY <2>1, FS_EmptySet
  <2>2. CASE C # {}
    <3>1. PICK k \in C : TRUE
      BY <2>2
    <3>2. C = {k}
      BY <1>1, <1>4, <3>1 DEF Once
    <3>3. Cardinality(C) = 1
      BY <3>2, FS_Singleton
    <3>4. QED
      BY <3>3
  <2>3. QED
    BY <2>1, <2>2
<1>5. ASSUME Holds(out, line) PROVE Cardinality(C) >= 1
  <2>1. C # {}
    BY <1>1, <1>5 DEF Holds
  <2>2. Cardinality(C) # 0
    BY <1>2, <2>1, FS_EmptySet
  <2>3. QED
    BY <1>2, <2>2
<1>6. QED
  BY <1>3, <1>4, <1>5

(* However often zombies.c forks: on a terminal every line is written once;  *)
(* into a file one that was printed before a fork may be written again, but  *)
(* no later one; and nothing printed is lost but by a signal (forktest.c:13, *)
(* zombies.c:20, orphans.c:15, pipes.c:49).                                  *)
THEOREM WritesWhatItPrints == Spec => []OutputFaithful
<1>1. ForkInv => OutputFaithful
  <2> SUFFICES ASSUME ForkInv PROVE OutputFaithful
    OBVIOUS
  <2>1. /\ out \in Seq(Lines) /\ forks \in Nat /\ \A line \in lines : line.fork \in Nat
        /\ CopyInv /\ KeptInv /\ Fresh
    BY DEF ForkInv, OutputInv, ForkTypeInv, Lines
  <2>2. ASSUME NEW line \in lines, Fork!Copies(line) > 1 PROVE ~terminal /\ line.fork < forks
    <3>1. ~Once(out, line)
      BY <2>1, <2>2, CopiesOf
    <3>2. ~(terminal \/ line.fork = forks)
      BY <2>1, <3>1 DEF CopyInv, WrittenOnce
    <3>3. QED
      BY <2>1, <3>2 DEF Fresh
  <2>3. ASSUME NEW line \in lines,
               \A p \in Fork!Process : proc[p].status \in {"none", "ended"}
        PROVE  Fork!Copies(line) >= 1
    <3>1. \A p \in Fork!Process : proc[p].status # "runs" /\ proc[p].status # "killed"
      BY <2>3
    <3>2. proc["parent"].status # "killed"
      BY <3>1 DEF Fork!Process
    <3>5. Kept(line)
      BY <2>1, <3>2 DEF KeptInv
    <3>3. Holds(out, line)
      BY <3>1, <3>5 DEF Kept
    <3>4. QED
      BY <2>1, <3>3, CopiesOf
  <2>4. QED
    BY <2>2, <2>3 DEF OutputFaithful, Fork!OutputFaithful
<1>2. QED
  BY <1>1, ForkInvariant, PTL

-----------------------------------------------------------------------------
(* The sums.  First what a fold over a function adds up to: a fold goes       *)
(* through the subsets of the function's domain, each with one element less,  *)
(* so that facts about it are proved by induction over these subsets, which   *)
(* is one over their cardinality.  A set that holds 0 and with n also n + 1   *)
(* holds every number, or adding 1 would map 0 .. n without n into itself     *)
(* without 0, and two numbers would have one successor.                       *)

LEMMA Induct == ASSUME NEW T, 0 \in T, \A n \in Nat : n \in T => n + 1 \in T
                PROVE  Nat \subseteq T
<1> SUFFICES ASSUME NEW n \in Nat, n \notin T PROVE FALSE
  OBVIOUS
<1> DEFINE S == (0 .. n) \cap T
           U == S \ {0}
           f == [x \in S |-> x + 1]
<1>1. 0 \in S /\ f \in [S -> U] /\ \A x, y \in S : f[x] = f[y] => x = y
  OBVIOUS
<1>2. S \in SUBSET (0 .. n)
  OBVIOUS
<1> HIDE DEF S, f
<1>3. IsFiniteSet(0 .. n)
  BY FS_Interval
<1>4. IsFiniteSet(S)
  BY <1>2, <1>3, FS_Subset
<1>5. IsFiniteSet(U) /\ Cardinality(U) = Cardinality(S) - 1
  BY <1>1, <1>4, FS_RemoveElement
<1>6. Cardinality(S) \in Nat
  BY <1>4, FS_CardinalityType
<1> HIDE DEF U
<1>7. Cardinality(U) < Cardinality(S)
  BY <1>5, <1>6
<1>8. \E x, y \in S : x # y /\ f[x] = f[y]
  BY <1>1, <1>4, <1>5, <1>7, FS_PigeonHole
<1> QED BY <1>1, <1>8

\* What FoldFunction(+, 0, f) unfolds to.
Element(s) == CHOOSE x \in s : TRUE
Others(s) == s \ {Element(s)}
FoldBody(f, g, s) == IF s = {} THEN 0 ELSE f[Element(s)] + g[Others(s)]
Fold(f, S) == CHOOSE g : g = [s \in SUBSET S |-> FoldBody(f, g, s)]

SumOf(f) == Sum!FoldFunction(+, 0, f)

LEMMA FoldIs == ASSUME NEW f PROVE SumOf(f) = Fold(f, DOMAIN f)[DOMAIN f]
BY DEF SumOf, Sum!FoldFunction, Sum!FoldFunctionOnSet, Sum!MapThenFoldSet,
   Fold, FoldBody, Element, Others

LEMMA OthersSmaller ==
    ASSUME NEW s, IsFiniteSet(s), s # {}
    PROVE  /\ Element(s) \in s /\ Others(s) \subseteq s
           /\ IsFiniteSet(Others(s)) /\ Cardinality(Others(s)) = Cardinality(s) - 1
           /\ Cardinality(s) \in Nat
<1>1. Element(s) \in s
  BY DEF Element
<1> QED BY <1>1, FS_RemoveElement, FS_CardinalityType DEF Others

\* To prove something of every subset of S: of {}, and of s if of Others(s).
LEMMA SubsetInduct ==
    ASSUME NEW S, IsFiniteSet(S), NEW P, {} \in P,
           \A s \in SUBSET S : s # {} /\ Others(s) \in P => s \in P
    PROVE  SUBSET S \subseteq P
<1> DEFINE Q == {n \in Nat : \A s \in SUBSET S : Cardinality(s) = n => s \in P}
<1>0. \A s \in SUBSET S : IsFiniteSet(s) /\ Cardinality(s) \in Nat
  BY FS_Subset, FS_CardinalityType
<1>1. 0 \in Q
  <2> SUFFICES ASSUME NEW s \in SUBSET S, Cardinality(s) = 0 PROVE s \in P
    OBVIOUS
  <2>1. s = {}
    BY <1>0, FS_EmptySet
  <2> QED BY <2>1
<1>2. \A n \in Nat : n \in Q => n + 1 \in Q
  <2> SUFFICES ASSUME NEW n \in Nat, n \in Q, NEW s \in SUBSET S, Cardinality(s) = n + 1
               PROVE  s \in P
    OBVIOUS
  <2>1. s # {}
    BY FS_EmptySet
  <2>2. Others(s) \in SUBSET S /\ Cardinality(Others(s)) = n
    BY <1>0, <2>1, OthersSmaller
  <2>3. Others(s) \in P
    BY <2>2
  <2> QED BY <2>1, <2>3
<1>3. Nat \subseteq Q
  <2> HIDE DEF Q
  <2> QED BY <1>1, <1>2, Induct
<1> SUFFICES ASSUME NEW s \in SUBSET S PROVE s \in P
  OBVIOUS
<1>4. Cardinality(s) \in Q
  BY <1>0, <1>3
<1> QED BY <1>4

\* The recursion has a solution on the subsets of each cardinality.
Smaller(S, n) == {s \in SUBSET S : Cardinality(s) <= n}
FoldsTo(f, D, g) == g = [s \in D |-> FoldBody(f, g, s)]

LEMMA FoldUnfold ==
    ASSUME NEW S, IsFiniteSet(S), NEW f
    PROVE  Fold(f, S) = [s \in SUBSET S |-> FoldBody(f, Fold(f, S), s)]
<1> DEFINE Q == {n \in Nat : \E g : FoldsTo(f, Smaller(S, n), g)}
<1>0. \A s \in SUBSET S : IsFiniteSet(s) /\ Cardinality(s) \in Nat
  BY FS_Subset, FS_CardinalityType
<1>1. 0 \in Q
  <2> DEFINE g == [s \in Smaller(S, 0) |-> 0]
  <2>1. \A s \in Smaller(S, 0) : s = {}
    BY <1>0, FS_EmptySet DEF Smaller
  <2>2. g = [s \in Smaller(S, 0) |-> FoldBody(f, g, s)]
    BY <2>1 DEF FoldBody
  <2> HIDE DEF g
  <2>3. FoldsTo(f, Smaller(S, 0), g)
    BY <2>2 DEF FoldsTo
  <2> QED BY <2>3
<1>2. \A n \in Nat : n \in Q => n + 1 \in Q
  <2> SUFFICES ASSUME NEW n \in Nat, n \in Q PROVE \E g : FoldsTo(f, Smaller(S, n + 1), g)
    OBVIOUS
  <2>1. PICK g : FoldsTo(f, Smaller(S, n), g)
    OBVIOUS
  <2> DEFINE h == [s \in Smaller(S, n + 1) |-> FoldBody(f, g, s)]
  <2>2. ASSUME NEW s \in Smaller(S, n + 1), s # {}
        PROVE  Others(s) \in Smaller(S, n) /\ Others(s) \in Smaller(S, n + 1)
    <3>1. Others(s) \in SUBSET S /\ Cardinality(Others(s)) = Cardinality(s) - 1
          /\ Cardinality(s) \in Nat /\ Cardinality(s) <= n + 1
      BY <2>2, <1>0, OthersSmaller DEF Smaller
    <3> QED BY <3>1 DEF Smaller
  <2>3. ASSUME NEW s \in Smaller(S, n + 1), s # {} PROVE h[Others(s)] = g[Others(s)]
    <3>1. h[Others(s)] = FoldBody(f, g, Others(s))
      BY <2>2, <2>3
    <3>2. g[Others(s)] = FoldBody(f, g, Others(s))
      BY <2>1, <2>2, <2>3 DEF FoldsTo
    <3> QED BY <3>1, <3>2
  <2> HIDE DEF h
  <2>4. ASSUME NEW s \in Smaller(S, n + 1) PROVE FoldBody(f, g, s) = FoldBody(f, h, s)
    BY <2>3, <2>4 DEF FoldBody
  <2>5. h = [s \in Smaller(S, n + 1) |-> FoldBody(f, h, s)]
    BY <2>4 DEF h
  <2>6. FoldsTo(f, Smaller(S, n + 1), h)
    BY <2>5 DEF FoldsTo
  <2> QED BY <2>6
<1>3. Nat \subseteq Q
  <2> HIDE DEF Q
  <2> QED BY <1>1, <1>2, Induct
<1>4. Cardinality(S) \in Nat
  BY FS_CardinalityType
<1>5. Smaller(S, Cardinality(S)) = SUBSET S
  BY FS_Subset DEF Smaller
<1>6. \E g : g = [s \in SUBSET S |-> FoldBody(f, g, s)]
  <2>1. Cardinality(S) \in Q
    BY <1>3, <1>4
  <2>2. \E g : FoldsTo(f, Smaller(S, Cardinality(S)), g)
    BY <2>1
  <2> QED BY <2>2, <1>5 DEF FoldsTo
<1> QED BY <1>6 DEF Fold

LEMMA FoldSteps ==
    ASSUME NEW S, IsFiniteSet(S), NEW f, NEW s \in SUBSET S
    PROVE  /\ s = {} => Fold(f, S)[s] = 0
           /\ s # {} => /\ Fold(f, S)[s] = f[Element(s)] + Fold(f, S)[Others(s)]
                        /\ Element(s) \in s /\ Others(s) \in SUBSET S
                        /\ Cardinality(Others(s)) \in Nat
                        /\ Cardinality(s) = Cardinality(Others(s)) + 1
<1>1. Fold(f, S)[s] = FoldBody(f, Fold(f, S), s)
  <2> DEFINE F == Fold(f, S)
  <2>1. F = [x \in SUBSET S |-> FoldBody(f, F, x)]
    BY FoldUnfold
  <2> HIDE DEF F
  <2>2. F[s] = FoldBody(f, F, s)
    BY <2>1
  <2> QED BY <2>2 DEF F
<1>2. IsFiniteSet(s)
  BY FS_Subset
<1>3. s # {} => /\ Element(s) \in s /\ Others(s) \in SUBSET S
                /\ Cardinality(Others(s)) \in Nat
                /\ Cardinality(s) = Cardinality(Others(s)) + 1
  <2> HAVE s # {}
  <2>1. Element(s) \in s /\ Others(s) \subseteq s /\ IsFiniteSet(Others(s))
        /\ Cardinality(Others(s)) = Cardinality(s) - 1 /\ Cardinality(s) \in Nat
    BY <1>2, OthersSmaller
  <2>2. Cardinality(Others(s)) \in Nat
    BY <2>1, FS_CardinalityType
  <2> QED BY <2>1, <2>2
<1>4. Fold(f, S)[s] = IF s = {} THEN 0 ELSE f[Element(s)] + Fold(f, S)[Others(s)]
  BY <1>1 DEF FoldBody
<1> HIDE DEF Fold
<1> QED BY <1>3, <1>4

LEMMA FoldNone == ASSUME NEW S, IsFiniteSet(S), NEW f PROVE Fold(f, S)[{}] = 0
<1> DEFINE F == Fold(f, S)
<1>1. F = [x \in SUBSET S |-> FoldBody(f, F, x)]
  BY FoldUnfold
<1> HIDE DEF F
<1>2. {} \in SUBSET S
  OBVIOUS
<1>3. F[{}] = FoldBody(f, F, {})
  BY <1>1, <1>2
<1>4. F[{}] = 0
  BY <1>3 DEF FoldBody
<1> QED BY <1>4 DEF F

\* Remainders.
LEMMA ModDef == ASSUME NEW a \in Nat, NEW M \in Nat \ {0}
                PROVE  /\ a % M \in Nat /\ a % M < M
                       /\ a \div M \in Nat /\ a = M * (a \div M) + (a % M)
<1>1. a % M \in Nat
  OBVIOUS
<1>2. a % M < M
  OBVIOUS
<1>3. a \div M \in Int
  OBVIOUS
<1>4. a = M * (a \div M) + (a % M)
  OBVIOUS
<1>5. a \div M >= 0
  OBVIOUS
<1> QED BY <1>1, <1>2, <1>3, <1>4, <1>5

LEMMA ModUnique == ASSUME NEW M \in Nat \ {0}, NEW q \in Nat, NEW r \in Nat, r < M
                   PROVE  (M * q + r) % M = r
<1> DEFINE a == M * q + r
<1>0. a \in Nat
  OBVIOUS
<1>1. PICK d \in Nat, s \in Nat : s = a % M /\ s < M /\ a = M * d + s
  BY <1>0, ModDef
<1>2. M * d + s = M * q + r
  BY <1>1
<1>3. M * (d - q) = r - s
  BY <1>2
<1>4. ~ (d - q >= 1)
  <2> SUFFICES ASSUME d - q >= 1 PROVE FALSE
    OBVIOUS
  <2>1. M * (d - q) >= M
    OBVIOUS
  <2> QED BY <2>1, <1>3, <1>1
<1>5. ~ (q - d >= 1)
  <2> SUFFICES ASSUME q - d >= 1 PROVE FALSE
    OBVIOUS
  <2>1. M * (q - d) >= M
    OBVIOUS
  <2>2. M * (q - d) = s - r
    BY <1>2
  <2> QED BY <2>1, <2>2, <1>1
<1>6. d = q
  BY <1>4, <1>5
<1> QED BY <1>1, <1>2, <1>6

LEMMA ModAdd == ASSUME NEW a \in Nat, NEW b \in Nat, NEW M \in Nat \ {0}
                PROVE  ((a % M) + b) % M = (a + b) % M
<1> DEFINE s == a % M
           d == a \div M
           c == s + b
           e == c \div M
           r == c % M
<1>1. s \in Nat /\ d \in Nat /\ a = M * d + s
  BY ModDef
<1>2. c \in Nat
  BY <1>1
<1>3. e \in Nat /\ r \in Nat /\ r < M /\ c = M * e + r
  BY <1>2, ModDef
<1> HIDE DEF s, d, e, r
<1>4. a + b = M * (d + e) + r
  BY <1>1, <1>3
<1>5. (M * (d + e) + r) % M = r
  <2>1. d + e \in Nat
    BY <1>1, <1>3
  <2> QED BY <2>1, <1>3, ModUnique
<1> QED BY <1>4, <1>5 DEF r, s

LEMMA TimesNext == ASSUME NEW k \in Nat, NEW c \in Nat PROVE (k + 1) * c = k * c + c /\ k * c \in Nat
OBVIOUS

\* 0 + 1 + ... + n - 1.
Triangle(n) == (n * (n - 1)) \div 2
LEMMA TNext == ASSUME NEW n \in Nat PROVE Triangle(n) \in Nat /\ Triangle(n + 1) = Triangle(n) + n
<1>1. n * (n - 1) \in Nat
  <2>1. CASE n = 0
    BY <2>1
  <2>2. CASE n >= 1
    <3>1. n - 1 \in Nat
      BY <2>2
    <3> QED BY <3>1
  <2> QED BY <2>1, <2>2
<1>2. (n + 1) * ((n + 1) - 1) = n * (n - 1) + 2 * n
  OBVIOUS
<1> DEFINE m == n * (n - 1)
<1>3. m \in Nat /\ (n + 1) * ((n + 1) - 1) = m + 2 * n
  BY <1>1, <1>2
<1> HIDE DEF m
<1>4. (m + 2 * n) \div 2 = (m \div 2) + n
  BY <1>3
<1>5. m \div 2 \in Nat
  BY <1>3
<1> QED BY <1>3, <1>4, <1>5 DEF Triangle, m

\* The same number everywhere.
LEMMA FoldConstant ==
    ASSUME NEW S, IsFiniteSet(S), NEW c \in Nat
    PROVE  SumOf([x \in S |-> c]) = Cardinality(S) * c
<1> DEFINE f == [x \in S |-> c]
           F == Fold(f, S)
           P == {s \in SUBSET S : F[s] = Cardinality(s) * c}
<1>1. {} \in P
  <2>1. {} \in SUBSET S
    OBVIOUS
  <2>2. F[{}] = 0 /\ Cardinality({}) = 0
    BY FoldNone, FS_EmptySet
  <2> QED BY <2>1, <2>2
<1>2. \A s \in SUBSET S : s # {} /\ Others(s) \in P => s \in P
  <2> SUFFICES ASSUME NEW s \in SUBSET S, s # {}, Others(s) \in P PROVE s \in P
    OBVIOUS
  <2>1. F[s] = f[Element(s)] + F[Others(s)] /\ Element(s) \in s
        /\ Cardinality(Others(s)) \in Nat /\ Cardinality(s) = Cardinality(Others(s)) + 1
    BY FoldSteps
  <2>2. f[Element(s)] = c
    BY <2>1
  <2>3. F[Others(s)] = Cardinality(Others(s)) * c
    OBVIOUS
  <2> HIDE DEF F, f
  <2> DEFINE k == Cardinality(Others(s))
  <2>4. k \in Nat /\ F[s] = c + k * c /\ Cardinality(s) = k + 1
    BY <2>1, <2>2, <2>3
  <2> HIDE DEF k
  <2>5. (k + 1) * c = k * c + c /\ k * c \in Nat
    BY <2>4, TimesNext
  <2>6. F[s] = (k + 1) * c
    BY <2>4, <2>5
  <2>7. F[s] = Cardinality(s) * c
    BY <2>4, <2>6
  <2> QED BY <2>7
<1>3. SUBSET S \subseteq P
  <2> HIDE DEF P
  <2> QED BY <1>1, <1>2, SubsetInduct
<1>4. F[S] = Cardinality(S) * c
  BY <1>3
<1>5. DOMAIN f = S
  OBVIOUS
<1>6. SumOf(f) = Fold(f, S)[S]
  <2> HIDE DEF f
  <2> QED BY FoldIs, <1>5
<1> QED BY <1>4, <1>6

LEMMA FoldNat ==
    ASSUME NEW S, IsFiniteSet(S), NEW f \in [S -> Nat]
    PROVE  /\ SumOf(f) = Fold(f, S)[S]
           /\ SumOf(f) \in Nat
           /\ \A s \in SUBSET S : Fold(f, S)[s] \in Nat
<1> DEFINE F == Fold(f, S)
           P == {s \in SUBSET S : F[s] \in Nat}
<1>1. {} \in P
  <2>1. {} \in SUBSET S
    OBVIOUS
  <2>2. F[{}] = 0
    BY FoldNone
  <2> QED BY <2>1, <2>2
<1>2. \A s \in SUBSET S : s # {} /\ Others(s) \in P => s \in P
  <2> SUFFICES ASSUME NEW s \in SUBSET S, s # {}, Others(s) \in P PROVE s \in P
    OBVIOUS
  <2>1. F[s] = f[Element(s)] + F[Others(s)] /\ Element(s) \in s
    BY FoldSteps
  <2>2. f[Element(s)] \in Nat
    BY <2>1
  <2>3. F[Others(s)] \in Nat
    OBVIOUS
  <2> HIDE DEF F
  <2>4. F[s] \in Nat
    BY <2>1, <2>2, <2>3
  <2> QED BY <2>4
<1>3. SUBSET S \subseteq P
  <2> HIDE DEF P
  <2> QED BY <1>1, <1>2, SubsetInduct
<1>4. \A s \in SUBSET S : F[s] \in Nat
  BY <1>3
<1>5. DOMAIN f = S
  OBVIOUS
<1>6. SumOf(f) = Fold(f, S)[S]
  BY FoldIs, <1>5
<1> QED BY <1>4, <1>6

\* One number grows by d.
LEMMA FoldChanges ==
    ASSUME NEW S, IsFiniteSet(S), NEW f \in [S -> Nat], NEW g \in [S -> Nat],
           NEW t \in S, NEW d \in Nat,
           g[t] = f[t] + d, \A x \in S \ {t} : g[x] = f[x]
    PROVE  SumOf(g) = SumOf(f) + d
<1> DEFINE F == Fold(f, S)
           G == Fold(g, S)
           P == {s \in SUBSET S : G[s] = F[s] + (IF t \in s THEN d ELSE 0)}
<1>1. {} \in P
  <2>1. {} \in SUBSET S
    OBVIOUS
  <2>2. F[{}] = 0 /\ G[{}] = 0
    BY FoldNone
  <2> QED BY <2>1, <2>2
<1>2. \A s \in SUBSET S : s # {} /\ Others(s) \in P => s \in P
  <2> SUFFICES ASSUME NEW s \in SUBSET S, s # {}, Others(s) \in P PROVE s \in P
    OBVIOUS
  <2>1. F[s] = f[Element(s)] + F[Others(s)] /\ Element(s) \in s
        /\ G[s] = g[Element(s)] + G[Others(s)] /\ Others(s) \in SUBSET S
    BY FoldSteps
  <2>2. F[Others(s)] \in Nat
    BY <2>1, FoldNat
  <2>3. G[Others(s)] = F[Others(s)] + (IF t \in Others(s) THEN d ELSE 0)
    OBVIOUS
  <2> HIDE DEF F, G
  <2>4. t \in Others(s) <=> t \in s /\ t # Element(s)
    BY DEF Others
  <2>5. f[Element(s)] \in Nat
    BY <2>1
  <2>6. g[Element(s)] = IF t = Element(s) THEN f[Element(s)] + d ELSE f[Element(s)]
    BY <2>1
  <2>7. G[s] = F[s] + (IF t \in s THEN d ELSE 0)
    BY <2>1, <2>2, <2>3, <2>4, <2>5, <2>6
  <2> QED BY <2>7
<1>3. SUBSET S \subseteq P
  <2> HIDE DEF P
  <2> QED BY <1>1, <1>2, SubsetInduct
<1>4. G[S] = F[S] + d
  BY <1>3
<1>5. SumOf(f) = F[S] /\ SumOf(g) = G[S]
  BY FoldNat
<1> QED BY <1>4, <1>5

LEMMA ModTimes ==
    ASSUME NEW N \in Nat, NEW a \in Nat, NEW M \in Nat \ {0}
    PROVE  (N * (a % M)) % M = (N * a) % M
<1> DEFINE Q == {n \in Nat : (n * (a % M)) % M = (n * a) % M}
           b == a % M
<1>0. b \in Nat
  BY ModDef
<1>1. 0 \in Q
  BY <1>0
<1>2. \A n \in Nat : n \in Q => n + 1 \in Q
  <2> SUFFICES ASSUME NEW n \in Nat, n \in Q PROVE n + 1 \in Q
    OBVIOUS
  <2>1. (n * b) % M = (n * a) % M
    OBVIOUS
  <2> HIDE DEF b
  <2>2. (n + 1) * b = n * b + b /\ n * b \in Nat /\ (n + 1) * a = n * a + a /\ n * a \in Nat
    BY <1>0, TimesNext
  <2> DEFINE u == n * b
             v == n * a
  <2>3. (u + b) % M = ((u % M) + b) % M
    BY <2>2, <1>0, ModAdd
  <2>4. (v + a) % M = ((v % M) + a) % M
    BY <2>2, ModAdd
  <2>5. u % M \in Nat
    BY <2>2, ModDef
  <2> HIDE DEF u, v
  <2>6. (b + (u % M)) % M = (a + (u % M)) % M
    BY <2>5, ModAdd DEF b
  <2>7. (u + b) % M = (v + a) % M
    BY <2>1, <2>3, <2>4, <2>5, <2>6, <1>0 DEF u, v
  <2>8. ((n + 1) * b) % M = ((n + 1) * a) % M
    BY <2>7, <2>2 DEF u, v
  <2> QED BY <2>8 DEF b
<1>3. Nat \subseteq Q
  <2> HIDE DEF Q
  <2> QED BY <1>1, <1>2, Induct
<1> QED BY <1>3
-----------------------------------------------------------------------------
(* The threads that add: under the lock the one sum holds what all have      *)
(* added, without it each thread's own sum what that thread has added.       *)

Mod == Sum!Modulus

\* How many numbers thread t has added, and what they add up to.
Done(t) == IF step[t] = "next" THEN i[t] + 1 ELSE i[t]
Added == [t \in Adders |-> Triangle(Done(t))]
Total == SumOf(Added)

Inside == {"read", "write", "next"}

SumTypeInv ==
    /\ shared \in BOOLEAN
    /\ sum \in [Adders -> Nat] /\ i \in [Adders -> Nat] /\ read \in [Adders -> Nat]
    /\ step \in [Adders -> Inside \cup {"loop", "ended"}]
    /\ myfancylock \in Adders \cup {NoAdder}

\* Where a thread is in its loop.
LoopInv ==
    \A t \in Adders :
        /\ i[t] <= Big
        /\ step[t] \in Inside => i[t] < Big /\ (shared => myfancylock = t)
        /\ step[t] = "ended" => i[t] = Big
        /\ step[t] = "write" => read[t] = sum[Sum!Subsum(t)]

\* Each sum holds what was added to it.
HoldsInv ==
    \A t \in Adders :
        sum[t] = IF ~shared THEN Added[t] % Mod
                 ELSE IF t = Sum!Subsum(t) THEN Total % Mod ELSE 0

PrintInv == printed # -1 => Sum!Joined /\ Sum!SumComplete

SumInv == SumTypeInv /\ LoopInv /\ HoldsInv /\ PrintInv

LEMMA SumSteps == [Next]_vars => [Sum!Next]_sumState
BY DEF Next, vars, SumNext, BarrierNext, WorkNext, WrapNext, PipeNext, LocalNext,
   MainCancels, ThreadRuns, WriterRuns, ReaderRuns, ParentKilled, ProcessRuns,
   OthersIdle, Idle, Runs

\* The one sum that the threads of pthreadex.c add to.
LEMMA OneSum == \A t, u \in Adders : /\ Sum!Subsum(t) \in Adders
                                     /\ shared => Sum!Subsum(t) = Sum!Subsum(u)
                                     /\ ~shared => Sum!Subsum(t) = t
BY DEF Sum!Subsum

LEMMA AddedType == SumTypeInv => Added \in [Adders -> Nat] /\ Total \in Nat
<1> SUFFICES ASSUME SumTypeInv PROVE Added \in [Adders -> Nat] /\ Total \in Nat
  OBVIOUS
<1>1. \A t \in Adders : Done(t) \in Nat
  BY DEF SumTypeInv, Done
<1>2. Added \in [Adders -> Nat]
  BY <1>1, TNext DEF Added
<1>3. QED
  BY <1>2, SumAssumption, FoldNat DEF Total

LEMMA InitSum == Sum!Init => SumInv
<1> SUFFICES ASSUME Sum!Init PROVE SumInv
  OBVIOUS
<1>1. SumTypeInv /\ LoopInv /\ PrintInv
  BY SumAssumption DEF Sum!Init, SumTypeInv, LoopInv, PrintInv, Inside
<1>2. Triangle(0) = 0
  BY DEF Triangle
<1>3. Added = [t \in Adders |-> 0]
  BY <1>2 DEF Added, Done, Sum!Init
<1>4. Total = Cardinality(Adders) * 0
  BY <1>3, SumAssumption, FoldConstant DEF Total
<1>5. Cardinality(Adders) \in Nat
  BY SumAssumption, FS_CardinalityType
<1>6. Total = 0
  BY <1>4, <1>5
<1>7. 0 % Mod = 0
  BY SumAssumption DEF Mod
<1>8. HoldsInv
  BY <1>3, <1>6, <1>7 DEF HoldsInv, Sum!Init
<1>9. QED
  BY <1>1, <1>8 DEF SumInv

\* A step that adds nothing and leaves the sums alone.
LEMMA AddsNothing ==
    ASSUME HoldsInv, \A t \in Adders : Done(t)' = Done(t), sum' = sum, shared' = shared
    PROVE  HoldsInv'
<1>1. Added' = Added
  BY DEF Added
<1>2. Total' = Total
  BY <1>1 DEF Total
<1>3. \A t \in Adders : Sum!Subsum(t)' = Sum!Subsum(t)
  BY DEF Sum!Subsum
<1>4. QED
  BY <1>1, <1>2, <1>3 DEF HoldsInv, Mod, Sum!Modulus

\* main has not printed while a thread takes a step.
LEMMA NotPrinted == ASSUME SumInv, NEW t \in Adders, step[t] # "ended" PROVE printed = -1
BY DEF SumInv, PrintInv, Sum!Joined

LEMMA EnterKeeps ==
    ASSUME SumInv, NEW t \in Adders, Sum!Lock(t) \/ Sum!StartUnlocked(t)
    PROVE  SumInv'
<1>1. step[t] = "loop" /\ i[t] < Big /\ step' = [step EXCEPT ![t] = "read"]
      /\ myfancylock' = (IF shared THEN t ELSE myfancylock)
      /\ (shared => myfancylock = NoAdder)
      /\ UNCHANGED <<shared, sum, i, read, printed>>
  BY DEF Sum!Lock, Sum!StartUnlocked, Sum!Goes
<1>2. printed' = -1
  BY <1>1, NotPrinted
<1>3. SumTypeInv'
  BY <1>1 DEF SumInv, SumTypeInv, Inside
<1>4. \A u \in Adders : Sum!Subsum(u)' = Sum!Subsum(u)
  BY <1>1 DEF Sum!Subsum
<1>5. LoopInv'
  <2> SUFFICES ASSUME NEW u \in Adders
               PROVE (/\ i[u] <= Big
                      /\ step[u] \in Inside => i[u] < Big /\ (shared => myfancylock = u)
                      /\ step[u] = "ended" => i[u] = Big
                      /\ step[u] = "write" => read[u] = sum[Sum!Subsum(u)])'
    BY DEF LoopInv
  <2>1. CASE u = t
    BY <1>1, <2>1 DEF SumInv, SumTypeInv, LoopInv, Inside
  <2>2. CASE u # t
    BY <1>1, <1>4, <2>2, SumAssumption DEF SumInv, SumTypeInv, LoopInv, Inside
  <2>3. QED
    BY <2>1, <2>2
<1>6. HoldsInv'
  <2>1. \A u \in Adders : Done(u)' = Done(u)
    BY <1>1 DEF SumInv, SumTypeInv, Done
  <2>2. QED
    BY <1>1, <2>1, AddsNothing DEF SumInv
<1>7. QED
  BY <1>2, <1>3, <1>5, <1>6 DEF SumInv, PrintInv

LEMMA ReadSumKeeps == ASSUME SumInv, NEW t \in Adders, Sum!ReadSum(t) PROVE SumInv'
<1>1. step[t] = "read" /\ step' = [step EXCEPT ![t] = "write"]
      /\ read' = [read EXCEPT ![t] = sum[Sum!Subsum(t)]]
      /\ UNCHANGED <<shared, sum, myfancylock, i, printed>>
  BY DEF Sum!ReadSum, Sum!Goes
<1>2. printed' = -1
  BY <1>1, NotPrinted
<1>3. SumTypeInv'
  BY <1>1, OneSum DEF SumInv, SumTypeInv, Inside
<1>4. \A u \in Adders : Sum!Subsum(u)' = Sum!Subsum(u)
  BY <1>1 DEF Sum!Subsum
<1>5. LoopInv'
  BY <1>1, <1>4 DEF SumInv, SumTypeInv, LoopInv, Inside
<1>6. HoldsInv'
  <2>1. \A u \in Adders : Done(u)' = Done(u)
    BY <1>1 DEF SumInv, SumTypeInv, Done
  <2>2. QED
    BY <1>1, <2>1, AddsNothing DEF SumInv
<1>7. QED
  BY <1>2, <1>3, <1>5, <1>6 DEF SumInv, PrintInv

\* The write adds what is due, for nobody else has written since the read.
LEMMA WriteSumKeeps == ASSUME SumInv, NEW t \in Adders, Sum!WriteSum(t) PROVE SumInv'
<1> DEFINE s == Sum!Subsum(t)
<1>1. step[t] = "write" /\ step' = [step EXCEPT ![t] = "next"]
      /\ sum' = [sum EXCEPT ![s] = (read[t] + i[t]) % Mod]
      /\ UNCHANGED <<shared, myfancylock, i, read, printed>>
  BY DEF Sum!WriteSum, Sum!Goes, Mod
<1>2. printed' = -1
  BY <1>1, NotPrinted
<1>3. s \in Adders /\ i[t] \in Nat /\ i[t] < Big /\ read[t] = sum[s] /\ sum[s] \in Nat
      /\ (shared => myfancylock = t)
  BY <1>1, OneSum DEF SumInv, SumTypeInv, LoopInv, Inside
<1>4. Mod \in Nat \ {0} /\ Mod' = Mod
  BY SumAssumption DEF Mod, Sum!Modulus
<1>5. (read[t] + i[t]) % Mod \in Nat
  BY <1>3, <1>4, ModDef
<1>6. SumTypeInv'
  BY <1>1, <1>3, <1>5 DEF SumInv, SumTypeInv, Inside
<1>7. \A u \in Adders : Sum!Subsum(u)' = Sum!Subsum(u)
  BY <1>1 DEF Sum!Subsum
<1>8. LoopInv'
  <2> SUFFICES ASSUME NEW u \in Adders
               PROVE (/\ i[u] <= Big
                      /\ step[u] \in Inside => i[u] < Big /\ (shared => myfancylock = u)
                      /\ step[u] = "ended" => i[u] = Big
                      /\ step[u] = "write" => read[u] = sum[Sum!Subsum(u)])'
    BY DEF LoopInv
  <2>1. CASE u = t
    BY <1>1, <1>3, <2>1 DEF SumInv, SumTypeInv, LoopInv, Inside
  <2>2. CASE u # t
    <3>1. step'[u] = step[u]
      BY <1>1, <2>2 DEF SumInv, SumTypeInv
    <3>2. step[u] = "write" => Sum!Subsum(u) # s
      BY <1>3, <2>2, OneSum DEF SumInv, LoopInv, Inside
    <3>3. step[u] = "write" => sum'[Sum!Subsum(u)] = sum[Sum!Subsum(u)]
      BY <1>1, <3>2, OneSum DEF SumInv, SumTypeInv
    <3>4. QED
      BY <1>1, <1>7, <3>1, <3>3 DEF SumInv, LoopInv
  <2>3. QED
    BY <2>1, <2>2
<1>9. HoldsInv'
  <2>1. Done(t) = i[t] /\ Done(t)' = i[t] + 1 /\ \A u \in Adders : u # t => Done(u)' = Done(u)
    BY <1>1 DEF Done, SumInv, SumTypeInv
  <2>2. Added[t] = Triangle(i[t]) /\ Triangle(i[t]) \in Nat /\ Triangle(i[t] + 1) = Triangle(i[t]) + i[t]
    BY <1>3, <2>1, TNext DEF Added
  <2>3. Added' = [Added EXCEPT ![t] = Added[t] + i[t]]
    BY <2>1, <2>2 DEF Added
  <2>4. Added \in [Adders -> Nat] /\ Total \in Nat
    BY AddedType DEF SumInv
  <2>5. Total' = Total + i[t]
    <3> DEFINE f == Added
               g == Added'
    <3>1. /\ f \in [Adders -> Nat] /\ g \in [Adders -> Nat]
          /\ g[t] = f[t] + i[t] /\ \A u \in Adders \ {t} : g[u] = f[u]
      BY <1>3, <2>3, <2>4
    <3> HIDE DEF f, g
    <3>2. SumOf(g) = SumOf(f) + i[t]
      BY <1>3, <3>1, SumAssumption, FoldChanges
    <3>3. Total' = SumOf(g) /\ Total = SumOf(f)
      BY DEF Total, f, g
    <3>4. QED
      BY <3>2, <3>3
  <2>6. CASE shared
    <3>1. sum[s] = Total % Mod
      BY <1>3, <2>6, OneSum DEF SumInv, HoldsInv
    <3>2. sum'[s] = (Total + i[t]) % Mod
      <4>1. sum'[s] = ((Total % Mod) + i[t]) % Mod
        BY <1>1, <1>3, <3>1 DEF SumInv, SumTypeInv
      <4>2. QED
        BY <1>3, <1>4, <2>4, <4>1, ModAdd
    <3>3. \A u \in Adders : /\ u # s => sum'[u] = sum[u]
                            /\ Sum!Subsum(u) = s
      BY <1>1, <2>6, OneSum DEF SumInv, SumTypeInv
    <3>4. QED
      BY <1>1, <1>4, <1>7, <2>5, <2>6, <3>2, <3>3 DEF SumInv, HoldsInv
  <2>7. CASE ~shared
    <3>1. s = t /\ sum[t] = Added[t] % Mod
      BY <2>7, OneSum DEF SumInv, HoldsInv
    <3>2. sum'[t] = (Added[t] + i[t]) % Mod
      <4>1. sum'[t] = ((Added[t] % Mod) + i[t]) % Mod
        BY <1>1, <1>3, <3>1 DEF SumInv, SumTypeInv
      <4>2. Added[t] \in Nat
        BY <2>4
      <4>3. QED
        BY <1>3, <1>4, <4>1, <4>2, ModAdd
    <3>3. \A u \in Adders : u # t => sum'[u] = sum[u] /\ Added'[u] = Added[u]
      BY <1>1, <2>3, <2>4, <3>1 DEF SumInv, SumTypeInv
    <3>4. Added'[t] = Added[t] + i[t]
      BY <2>3, <2>4
    <3>5. QED
      BY <1>1, <1>4, <2>7, <3>2, <3>3, <3>4 DEF SumInv, HoldsInv
  <2>8. QED
    BY <2>6, <2>7 DEF SumInv, SumTypeInv
<1>10. QED
  BY <1>2, <1>6, <1>8, <1>9 DEF SumInv, PrintInv

LEMMA LeaveKeeps ==
    ASSUME SumInv, NEW t \in Adders, Sum!Unlock(t) \/ Sum!Return(t)
    PROVE  SumInv'
<1>1. UNCHANGED <<shared, sum, read, printed>>
  BY DEF Sum!Unlock, Sum!Return
<1>2. printed' = -1
  BY <1>1, NotPrinted DEF Sum!Unlock, Sum!Return, Sum!Goes
<1>3. \A u \in Adders : Sum!Subsum(u)' = Sum!Subsum(u)
  BY <1>1 DEF Sum!Subsum
<1>4. SumTypeInv' /\ LoopInv' /\ \A u \in Adders : Done(u)' = Done(u)
  <2>1. CASE Sum!Unlock(t)
    <3>1. step[t] = "next" /\ step' = [step EXCEPT ![t] = "loop"]
          /\ i' = [i EXCEPT ![t] = i[t] + 1]
          /\ myfancylock' = IF shared THEN NoAdder ELSE myfancylock
      BY <2>1 DEF Sum!Unlock, Sum!Goes
    <3>2. i[t] \in Nat /\ i[t] < Big /\ (shared => myfancylock = t)
      BY <3>1 DEF SumInv, SumTypeInv, LoopInv, Inside
    <3>3. SumTypeInv'
      BY <1>1, <3>1, <3>2 DEF SumInv, SumTypeInv, Inside
    <3>4. \A u \in Adders : u # t => i'[u] = i[u] /\ step'[u] = step[u]
      BY <3>1 DEF SumInv, SumTypeInv
    <3>5. i'[t] = i[t] + 1 /\ step'[t] = "loop"
      BY <3>1 DEF SumInv, SumTypeInv
    <3>6. \A u \in Adders : u # t /\ shared => step[u] \notin Inside
      BY <3>2 DEF SumInv, LoopInv
    <3>7. \A u \in Adders : Done(u)' = Done(u)
      BY <3>1, <3>4, <3>5 DEF Done
    <3>8. LoopInv'
      <4> SUFFICES ASSUME NEW u \in Adders
                   PROVE (/\ i[u] <= Big
                          /\ step[u] \in Inside => i[u] < Big /\ (shared => myfancylock = u)
                          /\ step[u] = "ended" => i[u] = Big
                          /\ step[u] = "write" => read[u] = sum[Sum!Subsum(u)])'
        BY DEF LoopInv
      <4>1. CASE u = t
        BY <3>2, <3>5, <4>1, SumAssumption DEF Inside
      <4>2. CASE u # t
        BY <1>1, <1>3, <3>1, <3>4, <3>6, <4>2 DEF SumInv, LoopInv
      <4>3. QED
        BY <4>1, <4>2
    <3>9. QED
      BY <3>3, <3>7, <3>8
  <2>2. CASE Sum!Return(t)
    <3>1. step[t] = "loop" /\ i[t] = Big /\ step' = [step EXCEPT ![t] = "ended"]
          /\ i' = i /\ myfancylock' = myfancylock
      BY <2>2 DEF Sum!Return, Sum!Goes
    <3>2. SumTypeInv'
      BY <1>1, <3>1 DEF SumInv, SumTypeInv
    <3>3. LoopInv'
      BY <1>1, <1>3, <3>1, SumAssumption DEF SumInv, SumTypeInv, LoopInv, Inside
    <3>4. \A u \in Adders : Done(u)' = Done(u)
      BY <3>1 DEF SumInv, SumTypeInv, Done
    <3>5. QED
      BY <3>2, <3>3, <3>4
  <2>3. QED
    BY <2>1, <2>2
<1>5. HoldsInv'
  BY <1>1, <1>4, AddsNothing DEF SumInv
<1>6. QED
  BY <1>2, <1>4, <1>5 DEF SumInv, PrintInv

\* When all have ended the sums hold all that was to be added.
LEMMA PrintsAll == ASSUME SumInv, Sum!Joined
                   PROVE  SumOf(sum) % Mod = (Cardinality(Adders) * Triangle(Big)) % Mod
<1> DEFINE all == Triangle(Big)
           n == Cardinality(Adders)
<1>1. all \in Nat /\ n \in Nat /\ Mod \in Nat \ {0}
  BY SumAssumption, TNext, FS_CardinalityType DEF Mod
<1>2. \A t \in Adders : Done(t) = Big
  BY DEF SumInv, LoopInv, Done, Sum!Joined
<1>3. Added = [t \in Adders |-> all]
  BY <1>2 DEF Added
<1>4. Total = n * all
  BY <1>1, <1>3, SumAssumption, FoldConstant DEF Total
<1>5. CASE ~shared
  <2> DEFINE each == all % Mod
  <2>1. each \in Nat
    BY <1>1, ModDef
  <2>2. sum = [t \in Adders |-> each]
    BY <1>3, <1>5 DEF SumInv, SumTypeInv, HoldsInv
  <2>3. SumOf(sum) = n * each
    <3> HIDE DEF each
    <3> QED BY <2>1, <2>2, SumAssumption, FoldConstant
  <2>4. QED
    BY <1>1, <2>3, ModTimes
<1>6. CASE shared
  <2>1. CASE Adders = {}
    <3>1. sum = [t \in Adders |-> 0] /\ n = 0
      BY <2>1, FS_EmptySet DEF SumInv, SumTypeInv
    <3>2. SumOf([t \in Adders |-> 0]) = n * 0
      BY SumAssumption, FoldConstant
    <3>3. n * 0 = n * all
      BY <1>1, <3>1
    <3>4. QED
      BY <3>1, <3>2, <3>3, <1>4, <1>6 DEF Total
  <2>2. CASE Adders # {}
    <3>1. PICK u \in Adders : \A t \in Adders : Sum!Subsum(t) = u
      BY <1>6, <2>2, OneSum
    <3> DEFINE none == [t \in Adders |-> 0]
               it == Total % Mod
    <3>2. Total \in Nat /\ it \in Nat
      BY <1>1, AddedType, ModDef DEF SumInv
    <3>3. sum \in [Adders -> Nat] /\ sum[u] = none[u] + it
          /\ \A t \in Adders \ {u} : sum[t] = none[t]
      BY <1>6, <3>1, <3>2 DEF SumInv, SumTypeInv, HoldsInv
    <3>4. none \in [Adders -> Nat]
      OBVIOUS
    <3>5. SumOf(none) = n * 0
      BY SumAssumption, FoldConstant
    <3> HIDE DEF none, it
    <3>6. SumOf(sum) = SumOf(none) + it
      BY <3>2, <3>3, <3>4, SumAssumption, FoldChanges
    <3>7. SumOf(sum) = it
      BY <1>1, <3>2, <3>3, <3>5, <3>6
    <3>8. (1 * (Total % Mod)) % Mod = (1 * Total) % Mod
      BY <1>1, <3>2, ModTimes
    <3>9. it % Mod = Total % Mod
      BY <3>2, <3>8 DEF it
    <3>10. QED
      BY <1>4, <3>7, <3>9
  <2>3. QED
    BY <2>1, <2>2
<1>7. QED
  BY <1>5, <1>6

LEMMA NextSum == SumInv /\ [Sum!Next]_sumState => SumInv'
<1> SUFFICES ASSUME SumInv, [Sum!Next]_sumState PROVE SumInv'
  OBVIOUS
<1>1. CASE Sum!MainPrint
  <2>1. Sum!Joined /\ printed' = SumOf(sum) % Mod
        /\ UNCHANGED <<shared, sum, myfancylock, i, read, step>>
    BY <1>1 DEF Sum!MainPrint, Mod, SumOf
  <2>2. SumTypeInv'
    BY <2>1 DEF SumInv, SumTypeInv
  <2>3. LoopInv'
    BY <2>1 DEF SumInv, LoopInv, Sum!Subsum
  <2>4. HoldsInv'
    BY <2>1, AddsNothing DEF SumInv, Done
  <2>5. Sum!Joined' /\ Sum!SumComplete'
    <3>1. printed' = (Cardinality(Adders) * Triangle(Big)) % Mod
      BY <2>1, PrintsAll
    <3>2. QED
      BY <2>1, <3>1 DEF Sum!Joined, Sum!SumComplete, Triangle, Mod, Sum!Modulus,
         Sum!Cardinality, Cardinality
  <2>6. QED
    BY <2>2, <2>3, <2>4, <2>5 DEF SumInv, PrintInv
<1>2. CASE UNCHANGED sumState
  <2>1. UNCHANGED <<shared, sum, myfancylock, i, read, step, printed>>
    BY <1>2 DEF sumState
  <2>2. SumTypeInv'
    BY <2>1 DEF SumInv, SumTypeInv
  <2>3. LoopInv'
    BY <2>1 DEF SumInv, LoopInv, Sum!Subsum
  <2>4. HoldsInv'
    BY <2>1, AddsNothing DEF SumInv, Done
  <2>5. PrintInv'
    BY <2>1 DEF SumInv, PrintInv, Sum!Joined, Sum!SumComplete, Sum!Modulus
  <2>6. QED
    BY <2>2, <2>3, <2>4, <2>5 DEF SumInv
<1>3. CASE Sum!Exited
  BY <1>2, <1>3 DEF Sum!Exited, Sum!sumVars, sumState
<1>4. QED
  BY <1>1, <1>2, <1>3, EnterKeeps, ReadSumKeeps, WriteSumKeeps, LeaveKeeps DEF Sum!Next

(* No addition is lost, whatever the number of threads, what each counts to  *)
(* and the width of a sum: in pthreadex.c the lock keeps the others away     *)
(* between a thread's read and its write, and in pthreadex3.c nobody else    *)
(* has its sum (pthreadex.c:13-24, 47-49; pthreadex3.c:12-18, 50-53).        *)
THEOREM AddsUp == Spec => []SumComplete
<1>1. Init => SumInv
  BY InitSum DEF Init
<1>2. SumInv /\ [Next]_vars => SumInv'
  BY NextSum, SumSteps
<1>3. SumInv => SumComplete
  <2> SUFFICES ASSUME SumInv PROVE Sum!SumComplete
    BY DEF SumComplete
  <2> QED BY DEF SumInv, PrintInv, Sum!SumComplete
<1>4. QED
  BY <1>1, <1>2, <1>3, PTL DEF Spec
=============================================================================
