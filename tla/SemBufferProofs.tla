-------------------------- MODULE SemBufferProofs --------------------------
(***************************************************************************)
(* The safety of SemBuffer for any number of consumers, slots and          *)
(* messages.  The invariant IInv ties the semaphores and the two indices   *)
(* to the number of messages put and taken, and follows each message.      *)
(***************************************************************************)
EXTENDS SemBuffer, FiniteSetTheorems, TLAPS

Taken == Len(consumed)
Depth == NumPut - Taken

\* What the producer has advanced `front' past.
Advanced == IF prod_pc = "post" THEN i + 1 ELSE i

\* Where position k of the window that starts at `back' lies, and back.
Wrap(k) == IF k < NumBuffers THEN k ELSE k - NumBuffers
Offset(s) == IF s >= back THEN s - back ELSE s - back + NumBuffers

\* The consumers that hold a token of full_semaphore and have still to test
\* `done', and those whose token stands for a message they have not taken.
Checking == Cardinality(At({"check"}))
Claiming == Cardinality(At({"lock", "fetch", "clear"}))

MutexInv ==
    /\ \A c \in Consumers : pc[c] \in {"fetch", "clear", "unlock"} <=> mutex = c
    /\ prod_pc \in {"put", "advance"} <=> mutex = "producer"

PhaseInv ==
    /\ done <=> prod_pc = "end"
    /\ main_pc # "join_producer" => done
    /\ prod_pc \in {"lock", "put", "advance", "post"} => i < Iterations

TokenInv ==
    /\ Claiming <= Depth
    /\ ~done => full_semaphore + Checking + Claiming
                  + (IF prod_pc \in {"advance", "post"} THEN 1 ELSE 0) = Depth

ArrayInv ==
    /\ front = Wrap(back + (Advanced - Taken))
    /\ \A s \in Slots :
         buffer[s] = IF Offset(s) < Depth THEN Taken + Offset(s) ELSE NULL

ClearInv == \A c \in Consumers : pc[c] = "clear" => thebuf[c] = Taken

OwnerInv ==
    /\ Held \cup freed = 0 .. Taken - 1
    /\ Held \cap freed = {}
    /\ \A c, d \in Holders : c # d => thebuf[c] # thebuf[d]

IInv ==
    /\ TypeOK /\ MutexInv /\ PhaseInv
    /\ SlotsConserved /\ TokenInv
    /\ ArrayInv /\ FIFO /\ ClearInv /\ OwnerInv

-----------------------------------------------------------------------------
(* Lemmas *)

\* The index arithmetic of the circular array, (k + 1) % NUM_BUFFERS, without
\* the modulus.
LEMMA NextSlot ==
  ASSUME NEW k \in Slots
  PROVE  /\ Successor(k) \in Slots
         /\ Successor(k) = IF k = NumBuffers - 1 THEN 0 ELSE k + 1
<1>1. CASE k = NumBuffers - 1
  BY <1>1, NumBuffersAssumption DEF Slots, Successor
<1>2. CASE k # NumBuffers - 1
  BY <1>2, NumBuffersAssumption DEF Slots, Successor
<1>3. QED
  BY <1>1, <1>2

\* The number of consumers at a set P of program counters is a natural number.
LEMMA AtType ==
  ASSUME NEW P
  PROVE  IsFiniteSet(At(P)) /\ Cardinality(At(P)) \in Nat
  BY ConsumersAssumption, FS_Subset, FS_CardinalityType DEF At

\* How one consumer's step changes the number of consumers at P.
LEMMA AtStep ==
  ASSUME NEW P, NEW c \in Consumers, NEW to, TypeOK,
         pc' = [pc EXCEPT ![c] = to]
  PROVE  Cardinality(At(P)') = Cardinality(At(P))
            + (IF to \in P THEN 1 ELSE 0) - (IF pc[c] \in P THEN 1 ELSE 0)
<1>1. At(P)' = IF to \in P THEN At(P) \cup {c} ELSE At(P) \ {c}
  BY DEF At, TypeOK
<1>2. c \in At(P) <=> pc[c] \in P
  BY DEF At
<1>3. IsFiniteSet(At(P)) /\ Cardinality(At(P)) \in Nat
  BY AtType
<1>4. Cardinality(At(P) \cup {c}) =
         IF c \in At(P) THEN Cardinality(At(P)) ELSE Cardinality(At(P)) + 1
  BY <1>3, FS_AddElement
<1>5. Cardinality(At(P) \ {c}) =
         IF c \in At(P) THEN Cardinality(At(P)) - 1 ELSE Cardinality(At(P))
  BY <1>3, FS_RemoveElement
<1>6. CASE to \in P
  BY <1>1, <1>2, <1>3, <1>4, <1>6
<1>7. CASE to \notin P
  BY <1>1, <1>2, <1>3, <1>5, <1>7
<1>8. QED
  BY <1>6, <1>7

\* The same for the three counts the invariant speaks of.
LEMMA Counts ==
  ASSUME TypeOK, NEW c \in Consumers, NEW from, NEW to, Goto(c, from, to)
  PROVE  LET one(b) == IF b THEN 1 ELSE 0
         IN /\ Checking' = Checking + one(to = "check") - one(from = "check")
            /\ Claiming' = Claiming + one(to \in {"lock", "fetch", "clear"})
                             - one(from \in {"lock", "fetch", "clear"})
            /\ Returning' = Returning + one(to \in {"unlock", "free", "post"})
                             - one(from \in {"unlock", "free", "post"})
<1>1. pc' = [pc EXCEPT ![c] = to] /\ pc[c] = from
  BY DEF Goto
<1>2. Checking' = Checking + (IF to \in {"check"} THEN 1 ELSE 0)
                    - (IF pc[c] \in {"check"} THEN 1 ELSE 0)
  BY <1>1, AtStep DEF Checking
<1>3. Claiming' = Claiming + (IF to \in {"lock", "fetch", "clear"} THEN 1 ELSE 0)
                    - (IF pc[c] \in {"lock", "fetch", "clear"} THEN 1 ELSE 0)
  BY <1>1, AtStep DEF Claiming
<1>4. Returning' = Returning + (IF to \in {"unlock", "free", "post"} THEN 1 ELSE 0)
                    - (IF pc[c] \in {"unlock", "free", "post"} THEN 1 ELSE 0)
  BY <1>1, AtStep DEF Returning
<1>5. QED
  BY <1>1, <1>2, <1>3, <1>4

\* The three counts and the history are natural numbers.
LEMMA CountsType ==
  ASSUME TypeOK
  PROVE  /\ Checking \in Nat /\ Claiming \in Nat /\ Returning \in Nat
         /\ Taken \in Nat /\ NumPut \in Nat /\ Advanced \in Nat
<1>1. Checking \in Nat /\ Claiming \in Nat /\ Returning \in Nat
  BY AtType DEF Checking, Claiming, Returning
<1>2. Taken \in Nat
  BY DEF Taken, TypeOK
<1>3. QED
  BY <1>1, <1>2, IterationsAssumption DEF NumPut, Advanced, TypeOK

\* A consumer that is checking or claiming is counted.
LEMMA CountsPositive ==
  ASSUME NEW c \in Consumers
  PROVE  /\ pc[c] = "check" => Checking > 0
         /\ pc[c] \in {"lock", "fetch", "clear"} => Claiming > 0
<1>1. ASSUME NEW P, pc[c] \in P
      PROVE  Cardinality(At(P)) > 0
  <2>1. c \in At(P)
    BY <1>1 DEF At
  <2>2. QED
    BY <2>1, AtType, FS_EmptySet
<1>2. QED
  <2>1. ASSUME pc[c] = "check" PROVE Checking > 0
    BY <2>1, <1>1 DEF Checking
  <2>2. ASSUME pc[c] \in {"lock", "fetch", "clear"} PROVE Claiming > 0
    BY <2>2, <1>1 DEF Claiming
  <2>3. QED
    BY <2>1, <2>2

\* A step that moves no consumer changes no count.
LEMMA CountsSame ==
  ASSUME UNCHANGED pc
  PROVE  /\ Checking' = Checking /\ Claiming' = Claiming /\ Returning' = Returning
         /\ Holders' = Holders
  BY DEF Checking, Claiming, Returning, Holders, At

\* The array is never over-full, and is not empty while the producer has a
\* message to announce.
LEMMA DepthBounds ==
  ASSUME IInv
  PROVE  /\ Depth \in 0 .. NumBuffers
         /\ Advanced - Taken \in 0 .. Depth
         /\ prod_pc \in {"lock", "put"} => Depth < NumBuffers
<1>1. Depth \in 0 .. NumBuffers /\ (prod_pc \in {"lock", "put"} => Depth < NumBuffers)
  <2>1. /\ Claiming \in Nat /\ Returning \in Nat /\ Taken \in Nat /\ NumPut \in Nat
        /\ empty_semaphore \in Nat
    BY CountsType DEF IInv, TypeOK
  <2>2. /\ Claiming <= NumPut - Taken
        /\ empty_semaphore + (IF prod_pc \in {"lock", "put"} THEN 1 ELSE 0)
             + (NumPut - Taken) + Returning = NumBuffers
    BY DEF IInv, TokenInv, SlotsConserved, Depth, Taken
  <2>3. QED
    BY <2>1, <2>2, NumBuffersAssumption DEF Depth
<1>2. prod_pc \in {"advance", "post"} => Depth > 0
  BY CountsType DEF IInv, TypeOK, TokenInv, PhaseInv, Depth
<1>3. QED
  BY <1>1, <1>2, CountsType DEF Depth, NumPut, Advanced, IInv, TypeOK

-----------------------------------------------------------------------------
(* One lemma per action: it preserves IInv *)

LEMMA WorkerTestStep ==
  ASSUME IInv, NEW c \in Consumers, WorkerTest(c)
  PROVE  IInv'
<1> USE DEF IInv
<1>1. Checking' = Checking /\ Claiming' = Claiming /\ Returning' = Returning
  BY Counts, CountsType DEF WorkerTest
<1>2. Holders' = Holders
  BY DEF WorkerTest, Goto, Holders, At, TypeOK
<1>3. TypeOK'
  BY DEF WorkerTest, Goto, TypeOK, WorkerPCs
<1>4. MutexInv' /\ PhaseInv'
  BY DEF WorkerTest, Goto, TypeOK, MutexInv, PhaseInv
<1>5. SlotsConserved' /\ TokenInv'
  BY <1>1, CountsType DEF WorkerTest, TypeOK, SlotsConserved, TokenInv, NumPut, Depth, Taken
<1>6. ArrayInv' /\ FIFO'
  BY DEF WorkerTest, ArrayInv, FIFO, Advanced, Taken, Depth, NumPut, Offset, Wrap
<1>7. ClearInv'
  BY DEF WorkerTest, Goto, ClearInv, TypeOK, Taken
<1>8. OwnerInv'
  BY <1>2 DEF WorkerTest, OwnerInv, Held, Taken
<1>9. QED
  BY <1>3, <1>4, <1>5, <1>6, <1>7, <1>8

LEMMA WorkerWaitStep ==
  ASSUME IInv, NEW c \in Consumers, WorkerWait(c)
  PROVE  IInv'
<1> USE DEF IInv
<1>1. Checking' = Checking + 1 /\ Claiming' = Claiming /\ Returning' = Returning
  BY Counts, CountsType DEF WorkerWait
<1>2. Holders' = Holders
  BY DEF WorkerWait, Goto, Holders, At, TypeOK
<1>3. TypeOK'
  BY DEF WorkerWait, Goto, TypeOK, WorkerPCs
<1>4. MutexInv' /\ PhaseInv'
  BY DEF WorkerWait, Goto, TypeOK, MutexInv, PhaseInv
<1>5. SlotsConserved' /\ TokenInv'
  BY <1>1, CountsType DEF WorkerWait, TypeOK, SlotsConserved, TokenInv, NumPut, Depth, Taken
<1>6. ArrayInv' /\ FIFO'
  BY DEF WorkerWait, ArrayInv, FIFO, Advanced, Taken, Depth, NumPut, Offset, Wrap
<1>7. ClearInv'
  BY DEF WorkerWait, Goto, ClearInv, TypeOK, Taken
<1>8. OwnerInv'
  BY <1>2 DEF WorkerWait, OwnerInv, Held, Taken
<1>9. QED
  BY <1>3, <1>4, <1>5, <1>6, <1>7, <1>8

LEMMA WorkerCheckStep ==
  ASSUME IInv, NEW c \in Consumers, WorkerCheck(c)
  PROVE  IInv'
<1> USE DEF IInv
<1>1. /\ Checking' = Checking - 1 /\ Returning' = Returning
      /\ Claiming' = IF done THEN Claiming ELSE Claiming + 1
  BY Counts, CountsType DEF WorkerCheck, AfterWait
<1>2. Holders' = Holders
  BY DEF WorkerCheck, AfterWait, Goto, Holders, At, TypeOK
<1>3. TypeOK'
  BY DEF WorkerCheck, AfterWait, Goto, TypeOK, WorkerPCs
<1>4. MutexInv' /\ PhaseInv'
  BY DEF WorkerCheck, AfterWait, Goto, TypeOK, MutexInv, PhaseInv
<1>5. SlotsConserved' /\ TokenInv'
  <2>1. Depth' = Depth /\ NumPut' = NumPut /\ consumed' = consumed
    BY DEF WorkerCheck, AfterWait, Depth, NumPut, Taken
  <2>2. SlotsConserved'
    BY <1>1, <2>1 DEF WorkerCheck, AfterWait, SlotsConserved
  <2>3. /\ Checking \in Nat /\ Claiming \in Nat /\ full_semaphore \in Nat
        /\ Checking > 0
    BY CountsPositive, CountsType DEF WorkerCheck, AfterWait, Goto, TypeOK
  <2>4. TokenInv'
    BY <1>1, <2>1, <2>3 DEF WorkerCheck, AfterWait, TokenInv
  <2>5. QED
    BY <2>2, <2>4
<1>6. ArrayInv' /\ FIFO'
  BY DEF WorkerCheck, AfterWait, ArrayInv, FIFO, Advanced, Taken, Depth, NumPut, Offset, Wrap
<1>7. ClearInv'
  BY DEF WorkerCheck, AfterWait, Goto, ClearInv, TypeOK, Taken
<1>8. OwnerInv'
  BY <1>2 DEF WorkerCheck, AfterWait, OwnerInv, Held, Taken
<1>9. QED
  BY <1>3, <1>4, <1>5, <1>6, <1>7, <1>8

LEMMA WorkerLockStep ==
  ASSUME IInv, NEW c \in Consumers, WorkerLock(c)
  PROVE  IInv'
<1> USE DEF IInv
<1>1. Checking' = Checking /\ Claiming' = Claiming /\ Returning' = Returning
  BY Counts, CountsType DEF WorkerLock, TakeMutex
<1>2. Holders' = Holders
  BY DEF WorkerLock, TakeMutex, Goto, Holders, At, TypeOK
<1>3. TypeOK'
  BY DEF WorkerLock, TakeMutex, Goto, TypeOK, WorkerPCs
<1>4. MutexInv' /\ PhaseInv'
  BY ConsumersAssumption, NoThreadAssumption DEF WorkerLock, TakeMutex, Goto, TypeOK, MutexInv, PhaseInv
<1>5. SlotsConserved' /\ TokenInv'
  BY <1>1, CountsType DEF WorkerLock, TakeMutex, TypeOK, SlotsConserved, TokenInv, NumPut, Depth, Taken
<1>6. ArrayInv' /\ FIFO'
  BY DEF WorkerLock, TakeMutex, ArrayInv, FIFO, Advanced, Taken, Depth, NumPut, Offset, Wrap
<1>7. ClearInv'
  BY DEF WorkerLock, TakeMutex, Goto, ClearInv, TypeOK, Taken
<1>8. OwnerInv'
  BY <1>2 DEF WorkerLock, TakeMutex, OwnerInv, Held, Taken
<1>9. QED
  BY <1>3, <1>4, <1>5, <1>6, <1>7, <1>8

LEMMA WorkerFetchStep ==
  ASSUME IInv, NEW c \in Consumers, WorkerFetch(c)
  PROVE  IInv'
<1> USE DEF IInv
<1>1. Checking' = Checking /\ Claiming' = Claiming /\ Returning' = Returning
  BY Counts, CountsType DEF WorkerFetch
<1>2. Holders' = Holders
  BY DEF WorkerFetch, Goto, Holders, At, TypeOK
<1>3. TypeOK'
  BY DEF WorkerFetch, Goto, TypeOK, WorkerPCs
<1>4. MutexInv' /\ PhaseInv'
  BY DEF WorkerFetch, Goto, TypeOK, MutexInv, PhaseInv
<1>5. SlotsConserved' /\ TokenInv'
  BY <1>1, CountsType DEF WorkerFetch, TypeOK, SlotsConserved, TokenInv, NumPut, Depth, Taken
<1>6. ArrayInv' /\ FIFO'
  BY DEF WorkerFetch, ArrayInv, FIFO, Advanced, Taken, Depth, NumPut, Offset, Wrap
<1>7. ClearInv'
  <2>1. Offset(back) = 0 /\ Depth > 0
    BY CountsPositive, CountsType DEF WorkerFetch, Goto, TypeOK, TokenInv, Offset, Depth, Slots
  <2>2. buffer[back] = Taken
    BY <2>1, CountsType DEF ArrayInv, TypeOK
  <2>3. \A d \in Consumers : pc[d] = "clear" => d = c
    BY DEF MutexInv, WorkerFetch, Goto
  <2>4. QED
    BY <2>2, <2>3 DEF WorkerFetch, Goto, ClearInv, TypeOK, Taken
<1>8. OwnerInv'
  <2>1. c \notin Holders
    BY DEF WorkerFetch, Goto, Holders, At
  <2>2. \A d \in Holders : thebuf'[d] = thebuf[d]
    BY <2>1 DEF WorkerFetch, Holders, At, TypeOK
  <2>3. Held' = Held
    BY <1>2, <2>2 DEF Held
  <2>4. QED
    BY <1>2, <2>2, <2>3 DEF WorkerFetch, OwnerInv, Taken
<1>9. QED
  BY <1>3, <1>4, <1>5, <1>6, <1>7, <1>8

LEMMA WorkerClearStep ==
  ASSUME IInv, NEW c \in Consumers, WorkerClear(c)
  PROVE  IInv'
<1> USE DEF IInv
<1>1. /\ Checking' = Checking
      /\ Claiming' = Claiming - 1
      /\ Returning' = Returning + 1
  <2>1. Goto(c, "clear", "unlock") /\ TypeOK
    BY DEF WorkerClear
  <2>2. Claiming \in Nat /\ Checking \in Nat /\ Returning \in Nat
    BY CountsType
  <2>3. QED
    BY <2>1, <2>2, Counts
<1>2. Holders' = Holders \cup {c} /\ c \notin Holders
  BY DEF WorkerClear, Goto, Holders, At, TypeOK
<1>3. thebuf[c] = Taken /\ Taken \in Nat /\ Taken' = Taken + 1
  BY CountsType DEF WorkerClear, Goto, ClearInv, Taken, TypeOK
<1>4. TypeOK'
  BY NextSlot DEF WorkerClear, Goto, TypeOK, WorkerPCs
<1>5. MutexInv' /\ PhaseInv'
  BY DEF WorkerClear, Goto, TypeOK, MutexInv, PhaseInv
<1>6. Depth' = Depth - 1 /\ NumPut' = NumPut /\ Advanced' = Advanced
  <2>1. NumPut' = NumPut /\ Advanced' = Advanced
    BY DEF WorkerClear, NumPut, Advanced
  <2>2. NumPut \in Nat
    BY CountsType
  <2>3. QED
    BY <1>3, <2>1, <2>2 DEF Depth
<1>7. SlotsConserved' /\ TokenInv'
  <2>1. /\ Claiming \in Nat /\ Checking \in Nat /\ Returning \in Nat
        /\ NumPut \in Nat /\ full_semaphore \in Nat /\ empty_semaphore \in Nat
        /\ Depth \in Nat
    BY CountsType, DepthBounds DEF TypeOK
  <2>2. UNCHANGED <<empty_semaphore, full_semaphore, prod_pc, done>>
    BY DEF WorkerClear
  <2>3. TokenInv'
    BY <1>1, <1>6, <2>1, <2>2 DEF TokenInv
  <2>4. SlotsConserved'
    BY <1>1, <1>3, <1>6, <2>1, <2>2 DEF SlotsConserved, Taken
  <2>5. QED
    BY <2>3, <2>4
<1>8. ArrayInv'
  <2>1. Advanced = NumPut /\ Depth > 0
    <3>1. prod_pc # "advance" /\ Claiming > 0
      BY CountsPositive, ConsumersAssumption DEF WorkerClear, Goto, MutexInv
    <3>2. QED
      BY <3>1, CountsType, DepthBounds DEF Advanced, NumPut, TokenInv
  <2>2. front' = Wrap(back + Depth) /\ Advanced' - Taken' = Depth - 1
    BY <1>3, <1>6, <2>1, CountsType DEF WorkerClear, ArrayInv, Depth, Wrap
  <2>3. back' = (IF back = NumBuffers - 1 THEN 0 ELSE back + 1)
    BY NextSlot DEF WorkerClear, TypeOK
  <2>4. Depth \in 1 .. NumBuffers /\ back \in 0 .. NumBuffers - 1
    BY <2>1, DepthBounds DEF TypeOK, Slots
  <2>5. front' = Wrap(back' + (Advanced' - Taken'))
    BY <2>2, <2>3, <2>4, NumBuffersAssumption DEF Wrap
  <2>6. ASSUME NEW s \in Slots
        PROVE  buffer'[s] = IF Offset(s)' < Depth' THEN Taken' + Offset(s)' ELSE NULL
    <3>1. CASE s = back
      <4>1. Offset(s)' = NumBuffers - 1
        BY <3>1, <2>3, <2>4, NumBuffersAssumption DEF Offset
      <4>2. buffer'[s] = NULL
        BY <3>1 DEF WorkerClear, TypeOK
      <4>3. QED
        BY <4>1, <4>2, <1>6, <2>4, NumBuffersAssumption
    <3>2. CASE s # back
      <4>1. Offset(s)' = Offset(s) - 1 /\ Offset(s) \in Int
        BY <3>2, <2>3, <2>4, NumBuffersAssumption DEF Offset, Slots
      <4>2. buffer'[s] = buffer[s]
        BY <3>2 DEF WorkerClear, TypeOK
      <4>3. QED
        BY <4>1, <4>2, <1>3, <1>6, <2>4 DEF ArrayInv
    <3>3. QED
      BY <3>1, <3>2
  <2>7. QED
    BY <2>5, <2>6 DEF ArrayInv, Wrap
<1>9. FIFO'
  BY <1>3 DEF WorkerClear, FIFO, Taken, TypeOK
<1>10. ClearInv'
  BY DEF WorkerClear, Goto, ClearInv, MutexInv, TypeOK
<1>11. OwnerInv'
  <2>1. Held' = Held \cup {Taken}
    BY <1>2, <1>3 DEF WorkerClear, Held
  <2>2. Taken \notin Held \cup freed
    BY <1>3 DEF OwnerInv
  <2>3. (0 .. Taken' - 1) = (0 .. Taken - 1) \cup {Taken}
    BY <1>3
  <2>4. \A d, e \in Holders' : d # e => thebuf'[d] # thebuf'[e]
    BY <1>2, <1>3, <2>2 DEF WorkerClear, Held, OwnerInv
  <2>5. QED
    BY <2>1, <2>2, <2>3, <2>4 DEF WorkerClear, OwnerInv
<1>12. QED
  BY <1>4, <1>5, <1>7, <1>8, <1>9, <1>10, <1>11

LEMMA WorkerUnlockStep ==
  ASSUME IInv, NEW c \in Consumers, WorkerUnlock(c)
  PROVE  IInv'
<1> USE DEF IInv
<1>1. Checking' = Checking /\ Claiming' = Claiming /\ Returning' = Returning
  BY Counts, CountsType DEF WorkerUnlock
<1>2. Holders' = Holders
  BY DEF WorkerUnlock, Goto, Holders, At, TypeOK
<1>3. TypeOK'
  BY DEF WorkerUnlock, Goto, TypeOK, WorkerPCs
<1>4. MutexInv' /\ PhaseInv'
  BY ConsumersAssumption, NoThreadAssumption DEF WorkerUnlock, Goto, TypeOK, MutexInv, PhaseInv
<1>5. SlotsConserved' /\ TokenInv'
  BY <1>1, CountsType DEF WorkerUnlock, TypeOK, SlotsConserved, TokenInv, NumPut, Depth, Taken
<1>6. ArrayInv' /\ FIFO'
  BY DEF WorkerUnlock, ArrayInv, FIFO, Advanced, Taken, Depth, NumPut, Offset, Wrap
<1>7. ClearInv'
  BY DEF WorkerUnlock, Goto, ClearInv, TypeOK, Taken
<1>8. OwnerInv'
  BY <1>2 DEF WorkerUnlock, OwnerInv, Held, Taken
<1>9. QED
  BY <1>3, <1>4, <1>5, <1>6, <1>7, <1>8

LEMMA WorkerFreeStep ==
  ASSUME IInv, NEW c \in Consumers, WorkerFree(c)
  PROVE  IInv'
<1> USE DEF IInv
<1>1. Checking' = Checking /\ Claiming' = Claiming /\ Returning' = Returning
  BY Counts, CountsType DEF WorkerFree
<1>2. Holders' = Holders \ {c} /\ c \in Holders
  BY DEF WorkerFree, Goto, Holders, At, TypeOK
<1>3. TypeOK'
  BY DEF WorkerFree, Goto, TypeOK, WorkerPCs
<1>4. MutexInv' /\ PhaseInv'
  BY DEF WorkerFree, Goto, TypeOK, MutexInv, PhaseInv
<1>5. SlotsConserved' /\ TokenInv'
  BY <1>1, CountsType DEF WorkerFree, TypeOK, SlotsConserved, TokenInv, NumPut, Depth, Taken
<1>6. ArrayInv' /\ FIFO'
  BY DEF WorkerFree, ArrayInv, FIFO, Advanced, Taken, Depth, NumPut, Offset, Wrap
<1>7. ClearInv'
  BY DEF WorkerFree, Goto, ClearInv, TypeOK, Taken
<1>8. OwnerInv'
  <2>1. Held = Held' \cup {thebuf[c]} /\ thebuf[c] \notin Held'
    BY <1>2 DEF WorkerFree, Held, OwnerInv
  <2>2. freed' = freed \cup {thebuf[c]} /\ Taken' = Taken
    BY DEF WorkerFree, Taken
  <2>3. \A d, e \in Holders' : d # e => thebuf'[d] # thebuf'[e]
    BY <1>2 DEF WorkerFree, OwnerInv
  <2>4. QED
    BY <2>1, <2>2, <2>3 DEF OwnerInv
<1>9. QED
  BY <1>3, <1>4, <1>5, <1>6, <1>7, <1>8

LEMMA WorkerPostStep ==
  ASSUME IInv, NEW c \in Consumers, WorkerPost(c)
  PROVE  IInv'
<1> USE DEF IInv
<1>1. /\ Checking' = Checking /\ Claiming' = Claiming
      /\ Returning' = Returning - 1
  BY Counts, CountsType DEF WorkerPost
<1>2. Holders' = Holders
  BY DEF WorkerPost, Goto, Holders, At, TypeOK
<1>3. TypeOK'
  BY DEF WorkerPost, Goto, TypeOK, WorkerPCs
<1>4. MutexInv' /\ PhaseInv'
  BY DEF WorkerPost, Goto, TypeOK, MutexInv, PhaseInv
<1>5. SlotsConserved' /\ TokenInv'
  <2>1. Returning \in Nat /\ NumPut \in Nat /\ Taken \in Nat /\ empty_semaphore \in Nat
    BY CountsType DEF TypeOK
  <2>2. NumPut' = NumPut /\ Depth' = Depth /\ Taken' = Taken
    BY DEF WorkerPost, NumPut, Depth, Taken
  <2>3. SlotsConserved'
    BY <1>1, <2>1, <2>2, NumBuffersAssumption DEF WorkerPost, SlotsConserved, Taken
  <2>4. TokenInv'
    BY <1>1, <2>2 DEF WorkerPost, TokenInv
  <2>5. QED
    BY <2>3, <2>4
<1>6. ArrayInv' /\ FIFO'
  BY DEF WorkerPost, ArrayInv, FIFO, Advanced, Taken, Depth, NumPut, Offset, Wrap
<1>7. ClearInv'
  BY DEF WorkerPost, Goto, ClearInv, TypeOK, Taken
<1>8. OwnerInv'
  BY <1>2 DEF WorkerPost, OwnerInv, Held, Taken
<1>9. QED
  BY <1>3, <1>4, <1>5, <1>6, <1>7, <1>8

LEMMA ProducerWaitStep ==
  ASSUME IInv, ProducerWait
  PROVE  IInv'
<1> USE DEF IInv
<1>1. Checking' = Checking /\ Claiming' = Claiming /\ Returning' = Returning /\ Holders' = Holders
  BY CountsSame DEF ProducerWait
<1>2. TypeOK'
  BY DEF ProducerWait, ProducerGoto, TypeOK, ProducerPCs
<1>3. MutexInv' /\ PhaseInv'
  BY DEF ProducerWait, ProducerGoto, TypeOK, MutexInv, PhaseInv
<1>4. SlotsConserved' /\ TokenInv'
  BY <1>1, CountsType DEF ProducerWait, ProducerGoto, TypeOK, SlotsConserved, TokenInv, PhaseInv, NumPut, Depth, Taken
<1>5. ArrayInv' /\ FIFO'
  BY DEF ProducerWait, ProducerGoto, ArrayInv, FIFO, Advanced, Taken, Depth, NumPut, Offset, Wrap
<1>6. ClearInv' /\ OwnerInv'
  BY <1>1 DEF ProducerWait, ClearInv, OwnerInv, Held, Taken
<1>7. QED
  BY <1>2, <1>3, <1>4, <1>5, <1>6

LEMMA ProducerLockStep ==
  ASSUME IInv, ProducerLock
  PROVE  IInv'
<1> USE DEF IInv
<1>1. Checking' = Checking /\ Claiming' = Claiming /\ Returning' = Returning /\ Holders' = Holders
  BY CountsSame DEF ProducerLock, TakeMutex
<1>2. TypeOK'
  BY DEF ProducerLock, TakeMutex, ProducerGoto, TypeOK, ProducerPCs
<1>3. MutexInv' /\ PhaseInv'
  BY ConsumersAssumption, NoThreadAssumption DEF ProducerLock, TakeMutex, ProducerGoto, TypeOK, MutexInv, PhaseInv
<1>4. SlotsConserved' /\ TokenInv'
  BY <1>1, CountsType DEF ProducerLock, TakeMutex, ProducerGoto, TypeOK, SlotsConserved, TokenInv, PhaseInv, NumPut, Depth, Taken
<1>5. ArrayInv' /\ FIFO'
  BY DEF ProducerLock, TakeMutex, ProducerGoto, ArrayInv, FIFO, Advanced, Taken, Depth, NumPut, Offset, Wrap
<1>6. ClearInv' /\ OwnerInv'
  BY <1>1 DEF ProducerLock, TakeMutex, ClearInv, OwnerInv, Held, Taken
<1>7. QED
  BY <1>2, <1>3, <1>4, <1>5, <1>6

LEMMA ProducerPutStep ==
  ASSUME IInv, ProducerPut
  PROVE  IInv'
<1> USE DEF IInv
<1>1. Checking' = Checking /\ Claiming' = Claiming /\ Returning' = Returning /\ Holders' = Holders
  BY CountsSame DEF ProducerPut
<1>2. TypeOK'
  BY IterationsAssumption DEF ProducerPut, ProducerGoto, TypeOK, ProducerPCs
<1>3. MutexInv' /\ PhaseInv'
  BY DEF ProducerPut, ProducerGoto, TypeOK, MutexInv, PhaseInv
<1>4. SlotsConserved' /\ TokenInv'
  BY <1>1, CountsType DEF ProducerPut, ProducerGoto, TypeOK, SlotsConserved, TokenInv, PhaseInv, NumPut, Depth, Taken
<1>5. ArrayInv' /\ FIFO'
  <2>1. Advanced' = Advanced /\ Advanced = i /\ Taken' = Taken /\ Depth' = Depth + 1
    BY CountsType DEF ProducerPut, ProducerGoto, Advanced, NumPut, Depth, Taken
  <2>2. Advanced - Taken = Depth
    BY <2>1 DEF ProducerPut, ProducerGoto, Depth, NumPut
  <2>3. Depth \in 0 .. NumBuffers - 1 /\ back \in 0 .. NumBuffers - 1
    BY DepthBounds, NumBuffersAssumption DEF ProducerPut, ProducerGoto, TypeOK, Slots
  <2>4. front = Wrap(back + Depth) /\ front' = Wrap(back' + (Advanced' - Taken'))
    BY <2>1, <2>2 DEF ProducerPut, ArrayInv, Wrap
  <2>5. ASSUME NEW s \in Slots
        PROVE  buffer'[s] = IF Offset(s)' < Depth' THEN Taken' + Offset(s)' ELSE NULL
    <3>1. Offset(s)' = Offset(s) /\ Offset(s) \in 0 .. NumBuffers - 1
      BY <2>3, NumBuffersAssumption DEF ProducerPut, Offset, Slots
    <3>2. s = front <=> Offset(s) = Depth
      BY <2>3, <2>4, NumBuffersAssumption DEF Wrap, Offset, Slots
    <3>3. CASE s = front
      <4>1. buffer'[s] = i /\ i = Taken + Depth
        BY <3>3, <2>1, <2>2, CountsType DEF ProducerPut, TypeOK
      <4>2. QED
        BY <4>1, <3>1, <3>2, <3>3, <2>1, <2>3
    <3>4. CASE s # front
      <4>1. buffer'[s] = buffer[s]
        BY <3>4 DEF ProducerPut, TypeOK
      <4>2. QED
        BY <4>1, <3>1, <3>2, <3>4, <2>1, <2>3 DEF ArrayInv
    <3>5. QED
      BY <3>3, <3>4
  <2>6. QED
    BY <2>4, <2>5 DEF ArrayInv, FIFO, ProducerPut, Wrap
<1>6. ClearInv' /\ OwnerInv'
  BY <1>1 DEF ProducerPut, ClearInv, OwnerInv, Held, Taken
<1>7. QED
  BY <1>2, <1>3, <1>4, <1>5, <1>6

LEMMA ProducerAdvanceStep ==
  ASSUME IInv, ProducerAdvance
  PROVE  IInv'
<1> USE DEF IInv
<1>1. Checking' = Checking /\ Claiming' = Claiming /\ Returning' = Returning /\ Holders' = Holders
  BY CountsSame DEF ProducerAdvance
<1>2. TypeOK'
  BY NextSlot DEF ProducerAdvance, ProducerGoto, TypeOK, ProducerPCs
<1>3. MutexInv' /\ PhaseInv'
  BY ConsumersAssumption, NoThreadAssumption DEF ProducerAdvance, ProducerGoto, TypeOK, MutexInv, PhaseInv
<1>4. SlotsConserved' /\ TokenInv'
  BY <1>1, CountsType DEF ProducerAdvance, ProducerGoto, TypeOK, SlotsConserved, TokenInv, PhaseInv, NumPut, Depth, Taken
<1>5. ArrayInv' /\ FIFO'
  <2>1. /\ Advanced' = Advanced + 1 /\ Taken' = Taken /\ Depth' = Depth
        /\ Advanced - Taken = Depth - 1
    BY CountsType DEF ProducerAdvance, ProducerGoto, Advanced, NumPut, Depth, Taken, TypeOK
  <2>2. Depth \in 1 .. NumBuffers /\ back \in 0 .. NumBuffers - 1
    BY <2>1, DepthBounds, NumBuffersAssumption DEF TypeOK, Slots
  <2>3. front' = IF front = NumBuffers - 1 THEN 0 ELSE front + 1
    BY NextSlot DEF ProducerAdvance, TypeOK
  <2>4. front = Wrap(back + (Depth - 1)) /\ Advanced' - Taken' = Depth
    <3>1. front = Wrap(back + (Advanced - Taken))
      BY DEF ArrayInv
    <3>2. Advanced \in Nat /\ Taken \in Nat /\ Depth \in Int /\ back \in Nat
      BY CountsType, DepthBounds DEF TypeOK, Slots
    <3>3. Advanced' - Taken' = Depth
      BY <2>1, <3>2
    <3>4. QED
      BY <2>1, <3>1, <3>3
  <2>5. front' = Wrap(back + Depth)
    BY <2>2, <2>3, <2>4, NumBuffersAssumption DEF Wrap
  <2>6. QED
    BY <2>1, <2>4, <2>5 DEF ProducerAdvance, ArrayInv, FIFO, Offset, Wrap
<1>6. ClearInv' /\ OwnerInv'
  BY <1>1 DEF ProducerAdvance, ClearInv, OwnerInv, Held, Taken
<1>7. QED
  BY <1>2, <1>3, <1>4, <1>5, <1>6

LEMMA ProducerPostStep ==
  ASSUME IInv, ProducerPost
  PROVE  IInv'
<1> USE DEF IInv
<1>1. Checking' = Checking /\ Claiming' = Claiming /\ Returning' = Returning /\ Holders' = Holders
  BY CountsSame DEF ProducerPost
<1>2. TypeOK'
  <2>1. i \in 0 .. Iterations - 1
    BY IterationsAssumption DEF ProducerPost, ProducerGoto, TypeOK, PhaseInv
  <2>2. QED
    BY <2>1, IterationsAssumption DEF ProducerPost, ProducerGoto, TypeOK, ProducerPCs
<1>3. MutexInv' /\ PhaseInv'
  BY DEF ProducerPost, ProducerGoto, TypeOK, MutexInv, PhaseInv
<1>4. SlotsConserved' /\ TokenInv'
  BY <1>1, CountsType DEF ProducerPost, ProducerGoto, TypeOK, SlotsConserved, TokenInv, PhaseInv, NumPut, Depth, Taken
<1>5. ArrayInv' /\ FIFO'
  BY DEF ProducerPost, ProducerGoto, ArrayInv, FIFO, Advanced, Taken, Depth, NumPut, Offset, Wrap
<1>6. ClearInv' /\ OwnerInv'
  BY <1>1 DEF ProducerPost, ClearInv, OwnerInv, Held, Taken
<1>7. QED
  BY <1>2, <1>3, <1>4, <1>5, <1>6

LEMMA ProducerSetDoneStep ==
  ASSUME IInv, ProducerSetDone
  PROVE  IInv'
<1> USE DEF IInv
<1>1. Checking' = Checking /\ Claiming' = Claiming /\ Returning' = Returning /\ Holders' = Holders
  BY CountsSame DEF ProducerSetDone
<1>2. TypeOK'
  BY DEF ProducerSetDone, ProducerGoto, TypeOK, ProducerPCs
<1>3. MutexInv' /\ PhaseInv'
  BY DEF ProducerSetDone, ProducerGoto, TypeOK, MutexInv, PhaseInv
<1>4. SlotsConserved' /\ TokenInv'
  BY <1>1, CountsType DEF ProducerSetDone, ProducerGoto, TypeOK, SlotsConserved, TokenInv, PhaseInv, NumPut, Depth, Taken
<1>5. ArrayInv' /\ FIFO'
  BY DEF ProducerSetDone, ProducerGoto, ArrayInv, FIFO, Advanced, Taken, Depth, NumPut, Offset, Wrap
<1>6. ClearInv' /\ OwnerInv'
  BY <1>1 DEF ProducerSetDone, ClearInv, OwnerInv, Held, Taken
<1>7. QED
  BY <1>2, <1>3, <1>4, <1>5, <1>6

LEMMA MainJoinProducerStep ==
  ASSUME IInv, MainJoinProducer
  PROVE  IInv'
<1> USE DEF IInv
<1>1. Checking' = Checking /\ Claiming' = Claiming /\ Returning' = Returning /\ Holders' = Holders
  BY CountsSame DEF MainJoinProducer
<1>2. TypeOK'
  BY ConsumersAssumption, FS_CardinalityType DEF MainJoinProducer, MainGoto, TypeOK, ProducerPCs
<1>3. MutexInv' /\ PhaseInv'
  BY DEF MainJoinProducer, MainGoto, TypeOK, MutexInv, PhaseInv
<1>4. SlotsConserved' /\ TokenInv'
  BY <1>1, CountsType DEF MainJoinProducer, MainGoto, TypeOK, SlotsConserved, TokenInv, PhaseInv, NumPut, Depth, Taken
<1>5. ArrayInv' /\ FIFO'
  BY DEF MainJoinProducer, MainGoto, ArrayInv, FIFO, Advanced, Taken, Depth, NumPut, Offset, Wrap
<1>6. ClearInv' /\ OwnerInv'
  BY <1>1 DEF MainJoinProducer, ClearInv, OwnerInv, Held, Taken
<1>7. QED
  BY <1>2, <1>3, <1>4, <1>5, <1>6

LEMMA MainPostStep ==
  ASSUME IInv, MainPost
  PROVE  IInv'
<1> USE DEF IInv
<1>1. Checking' = Checking /\ Claiming' = Claiming /\ Returning' = Returning /\ Holders' = Holders
  BY CountsSame DEF MainPost
<1>2. TypeOK'
  BY ConsumersAssumption, FS_CardinalityType DEF MainPost, MainGoto, ShutdownPosts, TypeOK, ProducerPCs
<1>3. MutexInv' /\ PhaseInv'
  BY DEF MainPost, MainGoto, ShutdownPosts, TypeOK, MutexInv, PhaseInv
<1>4. SlotsConserved' /\ TokenInv'
  BY <1>1, CountsType DEF MainPost, MainGoto, ShutdownPosts, TypeOK, SlotsConserved, TokenInv, PhaseInv, NumPut, Depth, Taken
<1>5. ArrayInv' /\ FIFO'
  BY DEF MainPost, MainGoto, ArrayInv, FIFO, Advanced, Taken, Depth, NumPut, Offset, Wrap
<1>6. ClearInv' /\ OwnerInv'
  BY <1>1 DEF MainPost, ClearInv, OwnerInv, Held, Taken
<1>7. QED
  BY <1>2, <1>3, <1>4, <1>5, <1>6

LEMMA MainJoinConsumersStep ==
  ASSUME IInv, MainJoinConsumers
  PROVE  IInv'
<1> USE DEF IInv
<1>1. Checking' = Checking /\ Claiming' = Claiming /\ Returning' = Returning /\ Holders' = Holders
  BY CountsSame DEF MainJoinConsumers
<1>2. TypeOK'
  BY ConsumersAssumption, FS_CardinalityType DEF MainJoinConsumers, MainGoto, ShutdownPosts, TypeOK, ProducerPCs
<1>3. MutexInv' /\ PhaseInv'
  BY DEF MainJoinConsumers, MainGoto, ShutdownPosts, TypeOK, MutexInv, PhaseInv
<1>4. SlotsConserved' /\ TokenInv'
  BY <1>1, CountsType DEF MainJoinConsumers, MainGoto, ShutdownPosts, TypeOK, SlotsConserved, TokenInv, PhaseInv, NumPut, Depth, Taken
<1>5. ArrayInv' /\ FIFO'
  BY DEF MainJoinConsumers, MainGoto, ArrayInv, FIFO, Advanced, Taken, Depth, NumPut, Offset, Wrap
<1>6. ClearInv' /\ OwnerInv'
  BY <1>1 DEF MainJoinConsumers, ClearInv, OwnerInv, Held, Taken
<1>7. QED
  BY <1>2, <1>3, <1>4, <1>5, <1>6

-----------------------------------------------------------------------------
(* The invariant *)

LEMMA InitIInv == Init => IInv
<1> SUFFICES ASSUME Init PROVE IInv
  OBVIOUS
<1>1. At({"check"}) = {} /\ At({"lock", "fetch", "clear"}) = {}
        /\ At({"unlock", "free", "post"}) = {} /\ Holders = {}
  BY DEF Init, At, Holders
<1>2. Checking = 0 /\ Claiming = 0 /\ Returning = 0 /\ Held = {}
  BY <1>1, FS_EmptySet DEF Checking, Claiming, Returning, Held
<1>3. Taken = 0 /\ NumPut = 0 /\ Advanced = 0 /\ Depth = 0
  BY DEF Init, Taken, NumPut, Advanced, Depth
<1>4. TypeOK
  <2>1. 0 \in 0 .. Cardinality(Consumers)
    BY ConsumersAssumption, FS_CardinalityType
  <2>2. QED
    BY <2>1, NumBuffersAssumption, IterationsAssumption
    DEF Init, InitialEmpty, ShutdownPosts, TypeOK, Slots, WorkerPCs, ProducerPCs
<1>5. MutexInv /\ PhaseInv
  BY NoThreadAssumption DEF Init, MutexInv, PhaseInv
<1>6. SlotsConserved /\ TokenInv
  BY <1>2, <1>3, NumBuffersAssumption DEF Init, InitialEmpty, SlotsConserved, TokenInv, Taken
<1>7. ArrayInv
  BY <1>3, NumBuffersAssumption DEF Init, ArrayInv, Wrap, Offset, Slots
<1>8. FIFO /\ ClearInv /\ OwnerInv
  BY <1>1, <1>2, <1>3 DEF Init, FIFO, ClearInv, OwnerInv
<1>9. QED
  BY <1>4, <1>5, <1>6, <1>7, <1>8 DEF IInv

\* A step that changes nothing keeps every part of the invariant.
LEMMA StutterIInv == IInv /\ UNCHANGED vars => IInv'
<1> SUFFICES ASSUME IInv, UNCHANGED vars PROVE IInv'
  OBVIOUS
<1>1. /\ Checking' = Checking /\ Claiming' = Claiming /\ Returning' = Returning
      /\ Holders' = Holders
  BY CountsSame DEF vars
<1>2. TypeOK' /\ MutexInv' /\ PhaseInv'
  BY DEF IInv, vars, TypeOK, MutexInv, PhaseInv
<1>3. SlotsConserved' /\ TokenInv'
  BY <1>1 DEF IInv, vars, SlotsConserved, TokenInv, NumPut, Depth, Taken
<1>4. ArrayInv' /\ FIFO'
  BY DEF IInv, vars, ArrayInv, FIFO, Advanced, Taken, Depth, NumPut, Offset, Wrap
<1>5. ClearInv' /\ OwnerInv'
  BY <1>1 DEF IInv, vars, ClearInv, OwnerInv, Held, Taken
<1>6. QED
  BY <1>2, <1>3, <1>4, <1>5 DEF IInv

LEMMA NextIInv == IInv /\ [Next]_vars => IInv'
<1> SUFFICES ASSUME IInv, [Next]_vars PROVE IInv'
  OBVIOUS
<1>1. ASSUME NEW c \in Consumers, Worker(c) PROVE IInv'
  BY <1>1, WorkerTestStep, WorkerWaitStep, WorkerCheckStep, WorkerLockStep,
     WorkerFetchStep, WorkerClearStep, WorkerUnlockStep, WorkerFreeStep,
     WorkerPostStep
  DEF Worker
<1>2. CASE Producer
  BY <1>2, ProducerWaitStep, ProducerLockStep, ProducerPutStep,
     ProducerAdvanceStep, ProducerPostStep, ProducerSetDoneStep
  DEF Producer
<1>3. CASE Main
  BY <1>3, MainJoinProducerStep, MainPostStep, MainJoinConsumersStep DEF Main
<1>4. CASE Exited \/ UNCHANGED vars
  BY <1>4, StutterIInv DEF Exited
<1>5. QED
  BY <1>1, <1>2, <1>3, <1>4 DEF Next

\* IInv is an invariant of sem.c for any number of threads, slots and messages.
THEOREM Inductive == Spec => []IInv
<1>1. QED
  BY InitIInv, NextIInv, PTL DEF Spec

\* The producer never stores over a message that no consumer has taken.
THEOREM NeverOverwrites == Spec => []NoOverwrite
<1>1. IInv => NoOverwrite
  <2> SUFFICES ASSUME IInv, prod_pc = "put" PROVE buffer[front] = NULL
    BY DEF NoOverwrite
  <2>1. Depth \in 0 .. NumBuffers - 1 /\ Advanced - Taken = Depth
    BY DepthBounds, NumBuffersAssumption DEF Depth, Advanced, NumPut
  <2>2. front = Wrap(back + Depth) /\ front \in Slots /\ back \in 0 .. NumBuffers - 1
    BY <2>1 DEF IInv, ArrayInv, TypeOK, Slots
  <2>3. Offset(front) = Depth
    BY <2>1, <2>2, NumBuffersAssumption DEF Offset, Wrap
  <2>4. QED
    BY <2>1, <2>2, <2>3 DEF IInv, ArrayInv
<1>2. QED
  BY Inductive, <1>1, PTL

\* A consumer that was let through always finds a message at `back'.
THEOREM NeverTakesEmpty == Spec => []NoEmptyTake
<1>1. IInv => NoEmptyTake
  <2> SUFFICES ASSUME IInv, NEW c \in Consumers, pc[c] = "fetch"
               PROVE  buffer[back] # NULL
    BY DEF NoEmptyTake, At
  <2>1. Claiming > 0 /\ Claiming \in Nat /\ Taken \in Nat /\ Depth \in Int
    BY CountsPositive, CountsType, DepthBounds DEF IInv
  <2>2. Depth > 0 /\ back \in Slots
    BY <2>1 DEF IInv, TokenInv, TypeOK
  <2>3. Offset(back) = 0
    BY <2>2 DEF Offset, Slots
  <2>4. QED
    BY <2>1, <2>2, <2>3, NULLAssumption DEF IInv, ArrayInv
<1>2. QED
  BY Inductive, <1>1, PTL

\* Messages are consumed in the order of their production, and every slot is
\* accounted for at every moment.
THEOREM ConsumesInOrder == Spec => [](FIFO /\ SlotsConserved)
<1>1. IInv => FIFO /\ SlotsConserved
  BY DEF IInv
<1>2. QED
  BY Inductive, <1>1, PTL

\* Each produced message is in exactly one place, so none is lost or freed twice.
THEOREM EachMessageHasOneOwner == Spec => []OneOwner
<1>1. IInv => OneOwner
  <2> SUFFICES ASSUME IInv PROVE OneOwner
    OBVIOUS
  <2>1. /\ Depth \in 0 .. NumBuffers /\ Depth = NumPut - Taken
        /\ Taken \in Nat /\ NumPut \in Nat /\ back \in 0 .. NumBuffers - 1
    BY DepthBounds, CountsType DEF Depth, IInv, TypeOK, Slots
  <2>2. \A s \in Slots : Offset(s) \in 0 .. NumBuffers - 1
    BY <2>1, NumBuffersAssumption DEF Offset, Slots
  <2>3. \A s \in Slots : buffer[s] =
           IF Offset(s) < Depth THEN Taken + Offset(s) ELSE NULL
    BY DEF IInv, ArrayInv
  <2>4. InBuffer = Taken .. NumPut - 1
    <3>1. InBuffer \subseteq Taken .. NumPut - 1
      BY <2>1, <2>2, <2>3 DEF InBuffer
    <3>2. ASSUME NEW m \in Taken .. NumPut - 1 PROVE m \in InBuffer
      <4> DEFINE s == Wrap(back + (m - Taken))
      <4>1. s \in Slots /\ Offset(s) = m - Taken
        BY <2>1, <3>2, NumBuffersAssumption DEF Wrap, Offset, Slots
      <4>2. buffer[s] = m /\ m # NULL
        BY <4>1, <2>1, <2>3, <3>2, NULLAssumption
      <4>3. QED
        BY <4>1, <4>2 DEF InBuffer
    <3>3. QED
      BY <3>1, <3>2
  <2>5. /\ Held \cup freed = 0 .. Taken - 1 /\ Held \cap freed = {}
        /\ \A c, d \in Holders : c # d => thebuf[c] # thebuf[d]
    BY DEF IInv, OwnerInv
  <2>6. (0 .. Taken - 1) \cup (Taken .. NumPut - 1) = 0 .. NumPut - 1
    BY <2>1
  <2>7. (0 .. Taken - 1) \cap (Taken .. NumPut - 1) = {}
    BY <2>1
  <2>8. ASSUME NEW s \in Slots, NEW t \in Slots, s # t, buffer[s] # NULL
        PROVE  buffer[s] # buffer[t]
    <3>1. Offset(s) # Offset(t)
      BY <2>1, <2>8, NumBuffersAssumption DEF Offset, Slots
    <3>2. QED
      BY <3>1, <2>1, <2>2, <2>3, <2>8
  <2>9. QED
    BY <2>4, <2>5, <2>6, <2>7, <2>8 DEF OneOwner
<1>2. QED
  BY Inductive, <1>1, PTL

-----------------------------------------------------------------------------
(* The circular array implements the FIFO queue of BoundedBuffer *)

\* Positions of the window, taken modulo NUM_BUFFERS, are slots.
LEMMA Modulo ==
  ASSUME NEW k \in 0 .. 2 * NumBuffers - 1
  PROVE  k % NumBuffers = Wrap(k)
<1>1. CASE k < NumBuffers
  BY <1>1, NumBuffersAssumption DEF Wrap
<1>2. CASE k >= NumBuffers
  BY <1>2, NumBuffersAssumption DEF Wrap
<1>3. QED
  BY <1>1, <1>2, NumBuffersAssumption

\* The window that starts at `back' holds the messages put and not yet taken.
Window ==
    /\ Queue = [k \in 1 .. Depth |-> Taken + k - 1]
    /\ Depth \in Nat /\ Taken \in Nat /\ NumPut = Taken + Depth

LEMMA QueueContents == IInv => Window
<1> SUFFICES ASSUME IInv PROVE Window
  OBVIOUS
<1>1. /\ Depth \in 0 .. NumBuffers /\ Depth = NumPut - Taken
      /\ Taken \in Nat /\ NumPut \in Nat /\ back \in 0 .. NumBuffers - 1
  BY DepthBounds, CountsType DEF Depth, IInv, TypeOK, Slots
<1>2. ASSUME NEW k \in 1 .. Depth
      PROVE  buffer[(back + k - 1) % NumBuffers] = Taken + k - 1
  <2> DEFINE s == Wrap(back + k - 1)
  <2>1. back + k - 1 \in 0 .. 2 * NumBuffers - 1
    BY <1>1, NumBuffersAssumption
  <2>2. (back + k - 1) % NumBuffers = s
    BY <2>1, Modulo
  <2>3. s \in Slots /\ Offset(s) = k - 1
    BY <1>1, NumBuffersAssumption DEF Wrap, Offset, Slots
  <2>4. buffer[s] = Taken + Offset(s)
    BY <1>1, <2>3 DEF IInv, ArrayInv
  <2>5. QED
    BY <1>1, <2>2, <2>3, <2>4
<1>3. Queue = [k \in 1 .. Depth |-> buffer[(back + k - 1) % NumBuffers]]
  BY DEF Queue, Depth, Taken
<1>4. Queue = [k \in 1 .. Depth |-> Taken + k - 1]
  BY <1>2, <1>3
<1>5. QED
  BY <1>1, <1>4 DEF Window

\* sem.c is a bounded FIFO buffer: the step that stores a message is a Put of
\* BoundedBuffer, the one that takes it out a Get, and no other step is visible.
THEOREM ImplementsFIFO == Spec => BB!Init /\ [][BB!Next]_(BB!vars)
<1>1. Init => BB!Init
  <2> SUFFICES ASSUME Init PROVE BB!Init
    OBVIOUS
  <2>1. NumPut = 0 /\ Len(consumed) = 0
    BY DEF Init, NumPut
  <2>2. Queue = <<>>
    BY <2>1 DEF Queue
  <2>3. QED
    BY <2>1, <2>2 DEF Init, BB!Init
<1>2. IInv' => Window'
  BY QueueContents, PTL
<1>3. IInv /\ IInv' /\ [Next]_vars => [BB!Next]_(BB!vars)
  <2> SUFFICES ASSUME IInv, IInv', [Next]_vars PROVE [BB!Next]_(BB!vars)
    OBVIOUS
  <2>1. /\ Queue = [k \in 1 .. Depth |-> Taken + k - 1]
        /\ Depth \in Nat /\ Taken \in Nat /\ NumPut = Taken + Depth
    BY QueueContents DEF Window
  <2>2. /\ Queue' = [k \in 1 .. Depth' |-> Taken' + k - 1]
        /\ Depth' \in Nat /\ Taken' \in Nat /\ NumPut' = Taken' + Depth'
    BY <1>2 DEF Window
  <2>3. CASE ProducerPut
    <3>1. NumPut' = NumPut + 1 /\ consumed' = consumed /\ NumPut < Iterations
      BY <2>3 DEF ProducerPut, ProducerGoto, NumPut, IInv, PhaseInv
    <3>2. Depth' = Depth + 1 /\ Taken' = Taken
      BY <2>1, <3>1 DEF Depth, Taken
    <3>3. Queue' = Append(Queue, NumPut) /\ Len(Queue) = Depth
      BY <2>1, <2>2, <3>2
    <3>4. Depth < NumBuffers
      BY <2>3, DepthBounds DEF ProducerPut, ProducerGoto
    <3>5. QED
      BY <3>1, <3>3, <3>4 DEF BB!Next, BB!Put
  <2>4. ASSUME NEW c \in Consumers, WorkerClear(c)
        PROVE  BB!Next
    <3>1. Depth > 0 /\ thebuf[c] = Taken
      <4>1. Claiming > 0 /\ Claiming \in Nat /\ Claiming <= Depth
        BY <2>4, CountsPositive, CountsType DEF WorkerClear, Goto, IInv, TokenInv
      <4>2. QED
        BY <2>1, <2>4, <4>1 DEF WorkerClear, Goto, IInv, ClearInv
    <3>2. NumPut' = NumPut /\ consumed' = Append(consumed, Taken)
      BY <2>4, <3>1 DEF WorkerClear, NumPut
    <3>3. Taken' = Taken + 1 /\ Depth' = Depth - 1
      BY <2>1, <3>2 DEF Taken, Depth, IInv, TypeOK
    <3>4. Queue # <<>> /\ Head(Queue) = Taken /\ Queue' = Tail(Queue)
      <4>1. /\ Queue \in Seq(Nat) /\ Len(Queue) = Depth
            /\ \A k \in 1 .. Depth : Queue[k] = Taken + k - 1
        BY <2>1
      <4>2. Queue # <<>>
        BY <2>1, <3>1, <4>1
      <4>3. Head(Queue) = Taken
        <5>1. 1 \in 1 .. Depth
          BY <2>1, <3>1
        <5>2. Head(Queue) = Queue[1]
          BY <4>1, <4>2
        <5>3. QED
          BY <2>1, <4>1, <5>1, <5>2
      <4>4. Tail(Queue) = [k \in 1 .. Depth - 1 |-> Queue[k + 1]]
        BY <2>1, <3>1, <4>1
      <4>5. \A k \in 1 .. Depth - 1 : Queue[k + 1] = Taken' + k - 1
        BY <2>1, <3>3, <4>1
      <4>6. Queue' = [k \in 1 .. Depth - 1 |-> Taken' + k - 1]
        BY <2>2, <3>3
      <4>7. QED
        BY <4>2, <4>3, <4>4, <4>5, <4>6
    <3>5. QED
      BY <3>2, <3>4 DEF BB!Next, BB!Get
  <2>5. ASSUME UNCHANGED NumPut, UNCHANGED consumed
        PROVE  UNCHANGED BB!vars
    <3>1. Taken' = Taken /\ Depth' = Depth
      BY <2>5 DEF Taken, Depth
    <3>2. QED
      BY <2>1, <2>2, <2>5, <3>1 DEF BB!vars
  <2>6. ASSUME NEW c \in Consumers, Worker(c), ~WorkerClear(c)
        PROVE  UNCHANGED NumPut /\ UNCHANGED consumed
    BY <2>6 DEF Worker, WorkerTest, WorkerWait, WorkerCheck, WorkerLock, WorkerFetch,
                WorkerUnlock, WorkerFree, WorkerPost, NumPut
  <2>7. ASSUME Producer, ~ProducerPut
        PROVE  UNCHANGED NumPut /\ UNCHANGED consumed
    BY <2>7 DEF Producer, ProducerWait, ProducerLock, ProducerAdvance, ProducerPost,
                ProducerSetDone, ProducerGoto, NumPut
  <2>8. ASSUME Main \/ Exited \/ UNCHANGED vars
        PROVE  UNCHANGED NumPut /\ UNCHANGED consumed
    BY <2>8 DEF Main, MainJoinProducer, MainPost, MainJoinConsumers, Exited, vars, NumPut
  <2>9. QED
    BY <2>3, <2>4, <2>5, <2>6, <2>7, <2>8 DEF Next
<1>4. QED
  BY <1>1, <1>3, Inductive, PTL DEF Spec

=============================================================================
