----------------------------- MODULE SemBuffer -----------------------------
(***************************************************************************)
(* The bounded buffer of threads/sem.c: one producer and NUM_THREADS       *)
(* consumers share a circular array of NUM_BUFFERS message pointers.  Two  *)
(* counting semaphores say how many slots are empty and how many are full, *)
(* a mutex guards the array and its two indices, and the flag `done',      *)
(* which no lock guards, tells the consumers that the producer has ended.  *)
(*                                                                         *)
(* Every access to shared memory and every blocking call is a step of its  *)
(* own; a sleep, a printf and the sprintf into a block that no other       *)
(* thread has seen yet are left out.  A thread that was not created yet is *)
(* one that has not taken its first step, so thread creation needs no      *)
(* action.  The build (-g, no optimisation) loads `done' from memory each  *)
(* time; a store to it that lingers in a store buffer is the same as a     *)
(* later ProducerSetDone, because the producer touches nothing else        *)
(* between that store and its end.                                         *)
(*                                                                         *)
(* A definition preceded by a variant of itself (TakeMutex by              *)
(* TakeMutexWithoutWaiting): the variant is a fault that nothing uses, see *)
(* README.md.                                                              *)
(***************************************************************************)
EXTENDS Integers, Sequences, FiniteSets

CONSTANTS Consumers,    \* the worker threads, NUM_THREADS of them
          NumBuffers,   \* NUM_BUFFERS
          Iterations,   \* ITERATIONS, the messages to produce
          NULL,         \* the null pointer
          NoThread      \* the owner of a free mutex

ASSUME ConsumersAssumption == IsFiniteSet(Consumers) /\ "producer" \notin Consumers
ASSUME NumBuffersAssumption == NumBuffers \in Nat \ {0}
ASSUME IterationsAssumption == Iterations \in Nat
ASSUME NULLAssumption == NULL \notin Nat
ASSUME NoThreadAssumption == NoThread \notin Consumers \cup {"producer"}

VARIABLES
    empty_semaphore, full_semaphore,  \* values of the two semaphores
    mutex,                            \* the thread that holds it
    front, back, buffer,              \* the circular array
    done,                             \* the shutdown flag
    i,                                \* the producer's loop counter
    posted,                           \* posts of main's shutdown loop
    pc, prod_pc, main_pc,             \* program counters
    thebuf,                           \* each consumer's local pointer
    consumed,                         \* history: messages taken, in order
    freed                             \* history: messages given to free()

vars == <<empty_semaphore, full_semaphore, mutex, front, back, buffer, done,
          i, posted, pc, prod_pc, main_pc, thebuf, consumed, freed>>

Slots == 0 .. NumBuffers - 1
Messages == 0 .. Iterations - 1

\* sem_init(&empty_semaphore, 0, NUM_BUFFERS)
InitialEmptyTooLarge == NumBuffers + 1
InitialEmpty == NumBuffers

Init ==
    /\ empty_semaphore = InitialEmpty
    /\ full_semaphore = 0
    /\ mutex = NoThread
    /\ front = 0
    /\ back = 0
    /\ buffer = [s \in Slots |-> NULL]
    /\ done = FALSE
    /\ i = 0
    /\ posted = 0
    /\ pc = [c \in Consumers |-> "test"]
    /\ prod_pc = "wait"
    /\ main_pc = "join_producer"
    /\ thebuf = [c \in Consumers |-> NULL]
    /\ consumed = <<>>
    /\ freed = {}

\* The next index of the circular array.
Successor(k) == (k + 1) % NumBuffers

\* pthread_mutex_lock(&mutex) by thread t
TakeMutexWithoutWaiting(t) == mutex' = t
TakeMutex(t) == mutex = NoThread /\ mutex' = t

-----------------------------------------------------------------------------
(* worker_func *)

Goto(c, from, to) ==
    /\ pc[c] = from
    /\ pc' = [pc EXCEPT ![c] = to]

\* while (!done)
WorkerTest(c) ==
    /\ Goto(c, "test", IF done THEN "end" ELSE "wait")
    /\ UNCHANGED <<empty_semaphore, full_semaphore, mutex, front, back, buffer,
                   done, i, posted, prod_pc, main_pc, thebuf, consumed, freed>>

\* sem_wait(&full_semaphore)
WorkerWait(c) ==
    /\ full_semaphore > 0
    /\ Goto(c, "wait", "check")
    /\ full_semaphore' = full_semaphore - 1
    /\ UNCHANGED <<empty_semaphore, mutex, front, back, buffer, done, i, posted,
                   prod_pc, main_pc, thebuf, consumed, freed>>

\* if (done) break;
AfterWait == IF done THEN "end" ELSE "lock"

WorkerCheck(c) ==
    /\ Goto(c, "check", AfterWait)
    /\ UNCHANGED <<empty_semaphore, full_semaphore, mutex, front, back, buffer,
                   done, i, posted, prod_pc, main_pc, thebuf, consumed, freed>>

WorkerLock(c) ==
    /\ Goto(c, "lock", "fetch")
    /\ TakeMutex(c)
    /\ UNCHANGED <<empty_semaphore, full_semaphore, front, back, buffer, done, i,
                   posted, prod_pc, main_pc, thebuf, consumed, freed>>

\* thebuf = buffer[back]
WorkerFetch(c) ==
    /\ Goto(c, "fetch", "clear")
    /\ thebuf' = [thebuf EXCEPT ![c] = buffer[back]]
    /\ UNCHANGED <<empty_semaphore, full_semaphore, mutex, front, back, buffer,
                   done, i, posted, prod_pc, main_pc, consumed, freed>>

\* buffer[back] = NULL; oldback = back; back = (back + 1) % NUM_BUFFERS
WorkerClear(c) ==
    /\ Goto(c, "clear", "unlock")
    /\ buffer' = [buffer EXCEPT ![back] = NULL]
    /\ back' = Successor(back)
    /\ consumed' = Append(consumed, thebuf[c])
    /\ UNCHANGED <<empty_semaphore, full_semaphore, mutex, front, done, i, posted,
                   prod_pc, main_pc, thebuf, freed>>

WorkerUnlock(c) ==
    /\ Goto(c, "unlock", "free")
    /\ mutex' = NoThread
    /\ UNCHANGED <<empty_semaphore, full_semaphore, front, back, buffer, done, i,
                   posted, prod_pc, main_pc, thebuf, consumed, freed>>

\* free(thebuf), after the sleep and the printf
WorkerFree(c) ==
    /\ Goto(c, "free", "post")
    /\ freed' = freed \cup {thebuf[c]}
    /\ UNCHANGED <<empty_semaphore, full_semaphore, mutex, front, back, buffer,
                   done, i, posted, prod_pc, main_pc, thebuf, consumed>>

\* sem_post(&empty_semaphore)
WorkerPostDropped(c) ==
    /\ Goto(c, "post", "test")
    /\ UNCHANGED <<empty_semaphore, full_semaphore, mutex, front, back, buffer,
                   done, i, posted, prod_pc, main_pc, thebuf, consumed, freed>>
WorkerPost(c) ==
    /\ Goto(c, "post", "test")
    /\ empty_semaphore' = empty_semaphore + 1
    /\ UNCHANGED <<full_semaphore, mutex, front, back, buffer, done, i, posted,
                   prod_pc, main_pc, thebuf, consumed, freed>>

Worker(c) ==
    \/ WorkerTest(c) \/ WorkerWait(c) \/ WorkerCheck(c)
    \/ WorkerLock(c) \/ WorkerFetch(c) \/ WorkerClear(c) \/ WorkerUnlock(c)
    \/ WorkerFree(c) \/ WorkerPost(c)

-----------------------------------------------------------------------------
(* producer_func *)

ProducerGoto(from, to) ==
    /\ prod_pc = from
    /\ prod_pc' = to

\* for (i < ITERATIONS) ... sem_wait(&empty_semaphore)
ProducerWait ==
    /\ i < Iterations
    /\ empty_semaphore > 0
    /\ ProducerGoto("wait", "lock")
    /\ empty_semaphore' = empty_semaphore - 1
    /\ UNCHANGED <<full_semaphore, mutex, front, back, buffer, done, i, posted,
                   pc, main_pc, thebuf, consumed, freed>>

ProducerLock ==
    /\ ProducerGoto("lock", "put")
    /\ TakeMutex("producer")
    /\ UNCHANGED <<empty_semaphore, full_semaphore, front, back, buffer, done, i,
                   posted, pc, main_pc, thebuf, consumed, freed>>

\* buffer[front] = malloc(1024), filled with "message i"
ProducerPut ==
    /\ ProducerGoto("put", "advance")
    /\ buffer' = [buffer EXCEPT ![front] = i]
    /\ UNCHANGED <<empty_semaphore, full_semaphore, mutex, front, back, done, i,
                   posted, pc, main_pc, thebuf, consumed, freed>>

\* front = (front + 1) % NUM_BUFFERS; pthread_mutex_unlock(&mutex)
ProducerAdvance ==
    /\ ProducerGoto("advance", "post")
    /\ front' = Successor(front)
    /\ mutex' = NoThread
    /\ UNCHANGED <<empty_semaphore, full_semaphore, back, buffer, done, i, posted,
                   pc, main_pc, thebuf, consumed, freed>>

\* sem_post(&full_semaphore); i++
ProducerPost ==
    /\ ProducerGoto("post", "wait")
    /\ full_semaphore' = full_semaphore + 1
    /\ i' = i + 1
    /\ UNCHANGED <<empty_semaphore, mutex, front, back, buffer, done, posted, pc,
                   main_pc, thebuf, consumed, freed>>

\* the loop is over: done = 1
ProducerSetDone ==
    /\ i = Iterations
    /\ ProducerGoto("wait", "end")
    /\ done' = TRUE
    /\ UNCHANGED <<empty_semaphore, full_semaphore, mutex, front, back, buffer, i,
                   posted, pc, main_pc, thebuf, consumed, freed>>

Producer ==
    \/ ProducerWait \/ ProducerLock \/ ProducerPut
    \/ ProducerAdvance \/ ProducerPost \/ ProducerSetDone

-----------------------------------------------------------------------------
(* main, once it has created the threads *)

MainGoto(from, to) ==
    /\ main_pc = from
    /\ main_pc' = to

\* pthread_join(producer, NULL)
MainJoinProducer ==
    /\ prod_pc = "end"
    /\ MainGoto("join_producer", "post")
    /\ UNCHANGED <<empty_semaphore, full_semaphore, mutex, front, back, buffer,
                   done, i, posted, pc, prod_pc, thebuf, consumed, freed>>

\* for NUM_THREADS rounds: sem_post(&full_semaphore)
ShutdownPostsOneShort == Cardinality(Consumers) - 1
ShutdownPosts == Cardinality(Consumers)

MainPost ==
    /\ posted < ShutdownPosts
    /\ MainGoto("post", "post")
    /\ posted' = posted + 1
    /\ full_semaphore' = full_semaphore + 1
    /\ UNCHANGED <<empty_semaphore, mutex, front, back, buffer, done, i, pc,
                   prod_pc, thebuf, consumed, freed>>

\* the loop over pthread_join(consumers[i], NULL), then the end of the process
MainJoinConsumers ==
    /\ posted = ShutdownPosts
    /\ \A c \in Consumers : pc[c] = "end"
    /\ MainGoto("post", "exit")
    /\ UNCHANGED <<empty_semaphore, full_semaphore, mutex, front, back, buffer,
                   done, i, posted, pc, prod_pc, thebuf, consumed, freed>>

Main == MainJoinProducer \/ MainPost \/ MainJoinConsumers

\* The process is gone: keeps TLC's deadlock check for real deadlocks.
Exited == main_pc = "exit" /\ UNCHANGED vars

Next == (\E c \in Consumers : Worker(c)) \/ Producer \/ Main \/ Exited

\* The kernel runs every thread that can run.
Fairness ==
    /\ \A c \in Consumers : WF_vars(Worker(c))
    /\ WF_vars(Producer)
    /\ WF_vars(Main)

Spec == Init /\ [][Next]_vars
FairSpec == Spec /\ Fairness

-----------------------------------------------------------------------------
(* Properties *)

WorkerPCs == {"test", "wait", "check", "lock", "fetch", "clear", "unlock",
              "free", "post", "end"}
ProducerPCs == {"wait", "lock", "put", "advance", "post", "end"}

\* The type invariant.
TypeOK ==
    /\ empty_semaphore \in Nat
    /\ full_semaphore \in Nat
    /\ mutex \in Consumers \cup {"producer", NoThread}
    /\ front \in Slots
    /\ back \in Slots
    /\ buffer \in [Slots -> Nat \cup {NULL}]
    /\ done \in BOOLEAN
    /\ i \in 0 .. Iterations
    /\ posted \in 0 .. ShutdownPosts
    /\ pc \in [Consumers -> WorkerPCs]
    /\ prod_pc \in ProducerPCs
    /\ main_pc \in {"join_producer", "post", "exit"}
    /\ thebuf \in [Consumers -> Nat \cup {NULL}]
    /\ consumed \in Seq(Nat \cup {NULL})
    /\ freed \subseteq Nat \cup {NULL}

\* How many messages the producer has stored in the array so far.
NumPut == IF prod_pc \in {"advance", "post"} THEN i + 1 ELSE i

\* The consumers whose program counter is in P.
At(P) == {c \in Consumers : pc[c] \in P}

\* The consumers that have emptied a slot and not posted it to the producer.
Returning == Cardinality(At({"unlock", "free", "post"}))

\* A consumer between taking a message out of the array and freeing it.
Holders == At({"unlock", "free"})

InBuffer == {buffer[s] : s \in Slots} \ {NULL}
Held == {thebuf[c] : c \in Holders}

\* The producer never stores into a slot whose message was not taken yet: a
\* token of empty_semaphore stands for a slot that a consumer has emptied.
NoOverwrite == prod_pc = "put" => buffer[front] = NULL

\* A consumer that has passed sem_wait(&full_semaphore) and the test of `done'
\* finds a message at `back', also when the shutdown posts of main arrive
\* while it is on its way: none of those tokens stands for a message.
NoEmptyTake == \A c \in At({"fetch"}) : buffer[back] # NULL

\* Every message that was produced is in exactly one place: a slot of the
\* array, the hands of one consumer, or free()d.  None is lost, freed twice or
\* freed while another thread can still reach it.
OneOwner ==
    /\ InBuffer \cup Held \cup freed = 0 .. NumPut - 1
    /\ InBuffer \cap Held = {} /\ InBuffer \cap freed = {} /\ Held \cap freed = {}
    /\ \A s, t \in Slots : s # t /\ buffer[s] # NULL => buffer[s] # buffer[t]
    /\ \A c, d \in Holders : c # d => thebuf[c] # thebuf[d]

\* Messages leave the array in the order in which they were produced, whichever
\* consumers take them.
FIFO == \A k \in 1 .. Len(consumed) : consumed[k] = k - 1

\* No slot is ever lost: each one is counted by empty_semaphore, reserved by
\* the producer, full, or about to be given back by a consumer.
SlotsConserved ==
    empty_semaphore
      + (IF prod_pc \in {"lock", "put"} THEN 1 ELSE 0)
      + (NumPut - Len(consumed))
      + Returning = NumBuffers

\* The array read from `back' for as long as its slots are full.
Queue == [k \in 1 .. NumPut - Len(consumed) |->
            buffer[(back + k - 1) % NumBuffers]]

\* The circular array implements the bounded FIFO buffer, and the consumers
\* always end up making room for the producer's next message.
BB == INSTANCE BoundedBuffer WITH
        Capacity <- NumBuffers, NumMessages <- Iterations,
        queue <- Queue, put <- NumPut, taken <- consumed
ImplementsBoundedBuffer == BB!Spec

\* The process ends: the posts main makes after the producer's end are enough
\* to wake every consumer, whichever of them took the earlier tokens.
Termination == <>(main_pc = "exit")

=============================================================================
