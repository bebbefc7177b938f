--------------------------- MODULE SpinLockProofs ---------------------------
(***************************************************************************)
(* The lock of spinlocks.c excludes for any set of threads, as long as no  *)
(* access to it falls inside a test_and_set.                               *)
(***************************************************************************)
EXTENDS SpinLock, TLAPS

\* One thread at most is between the halves of test_and_set, and what it loaded
\* is still the value of the lock.
StoreInv ==
    /\ \A t, u \in Threads : pc[t] = "store" /\ pc[u] = "store" => t = u
    /\ \A t \in Threads : pc[t] = "store" => initial[t] = thelock

OwnerInv ==
    /\ \A t, u \in Threads : Owner(t) /\ Owner(u) => t = u
    /\ thelock <=> \E t \in Threads : Owner(t)

\* The owner is the only one to write the counter.
CopyInv == \A t \in Threads : pc[t] = "write" => copy[t] = counter

\* A thread that is in the lock has a round left to count.
RoundInv == \A t \in Threads : pc[t] # "idle" => rounds[t] < MaxRounds

IInv == TypeOK /\ RoundInv /\ (interrupted \/ (StoreInv /\ OwnerInv /\ CopyInv))

LEMMA InitIInv == Init => IInv
<1> SUFFICES ASSUME Init PROVE IInv
  OBVIOUS
<1>1. TypeOK /\ RoundInv
  <2>1. 0 \in 0 .. MaxRounds
    BY MaxRoundsAssumption
  <2>2. rounds \in [Threads -> 0 .. MaxRounds] /\ RoundInv
    BY <2>1 DEF Init, RoundInv
  <2>3. /\ thelock \in BOOLEAN /\ interrupted \in BOOLEAN
        /\ initial \in [Threads -> BOOLEAN]
    BY DEF Init
  <2>4. pc \in [Threads -> PCs] /\ counter \in Nat /\ copy \in [Threads -> Nat]
    BY DEF Init, PCs
  <2>5. QED
    BY <2>2, <2>3, <2>4 DEF TypeOK
<1>2. StoreInv /\ OwnerInv /\ CopyInv
  BY DEF Init, StoreInv, OwnerInv, CopyInv, Owner, Inside
<1>3. QED
  BY <1>1, <1>2 DEF IInv

LEMMA NextIInv == IInv /\ [Next]_vars => IInv'
<1> SUFFICES ASSUME IInv, [Next]_vars PROVE IInv'
  OBVIOUS
<1> USE DEF IInv
<1>1. CASE UNCHANGED vars
  BY <1>1 DEF vars, TypeOK, RoundInv, StoreInv, OwnerInv, CopyInv, Owner, Inside
<1>2. ASSUME NEW t \in Threads, Thread(t) PROVE TypeOK'
  <2>1. pc' \in [Threads -> PCs]
    BY <1>2 DEF Thread, Call, Load, Store, Test, Read, Write, Unlock, Goto, TypeOK, PCs
  <2>2. thelock' \in BOOLEAN /\ initial' \in [Threads -> BOOLEAN] /\ interrupted' \in BOOLEAN
    BY <1>2 DEF Thread, Call, Load, Store, Test, Read, Write, Unlock, Access, TypeOK
  <2>3. counter' \in Nat /\ copy' \in [Threads -> Nat]
    BY <1>2 DEF Thread, Call, Load, Store, Test, Read, Write, Unlock, TypeOK
  <2>4. rounds' \in [Threads -> 0 .. MaxRounds]
    BY <1>2, MaxRoundsAssumption
    DEF Thread, Call, Load, Store, Test, Read, Write, Unlock, Goto, TypeOK, RoundInv
  <2>5. QED
    BY <2>1, <2>2, <2>3, <2>4 DEF TypeOK
<1>3. ASSUME NEW t \in Threads, Thread(t), ~interrupted'
      PROVE  StoreInv' /\ OwnerInv' /\ CopyInv'
  <2>1. TypeOK /\ StoreInv /\ OwnerInv /\ CopyInv
    BY <1>3 DEF Thread, Call, Load, Store, Test, Read, Write, Unlock, Access, TypeOK
  <2>2. CASE Call(t)
    BY <2>1, <2>2 DEF Call, Goto, TypeOK, StoreInv, OwnerInv, CopyInv, Owner, Inside
  <2>3. CASE Load(t)
    <3>1. \A u \in Threads \ {t} : pc[u] # "store"
      BY <1>3, <2>3 DEF Load, Access
    <3>2. StoreInv'
      BY <2>1, <2>3, <3>1 DEF Load, Goto, TypeOK, StoreInv
    <3>3. OwnerInv' /\ CopyInv'
      BY <2>1, <2>3 DEF Load, Goto, TypeOK, OwnerInv, CopyInv, Owner, Inside
    <3>4. QED
      BY <3>2, <3>3
  <2>4. CASE Store(t)
    <3>1. StoreInv' /\ CopyInv'
      BY <2>1, <2>4 DEF Store, Goto, TypeOK, StoreInv, CopyInv
    <3>2. initial[t] = thelock /\ initial' = initial
      BY <2>1, <2>4 DEF Store, Goto, StoreInv
    <3>3. \A u \in Threads : Owner(u)' <=> Owner(u) \/ (u = t /\ ~thelock)
      BY <2>1, <2>4, <3>2 DEF Store, Goto, TypeOK, Owner, Inside
    <3>4. OwnerInv'
      BY <2>1, <2>4, <3>3 DEF Store, OwnerInv, TypeOK
    <3>5. QED
      BY <3>1, <3>4
  <2>5. CASE Test(t)
    BY <2>1, <2>5 DEF Test, Goto, TypeOK, StoreInv, OwnerInv, CopyInv, Owner, Inside
  <2>6. CASE Read(t)
    BY <2>1, <2>6 DEF Read, Goto, TypeOK, StoreInv, OwnerInv, CopyInv, Owner, Inside
  <2>7. CASE Write(t)
    BY <2>1, <2>7 DEF Write, Goto, TypeOK, StoreInv, OwnerInv, CopyInv, Owner, Inside
  <2>8. CASE Unlock(t)
    <3>1. \A u \in Threads \ {t} : pc[u] # "store"
      BY <1>3, <2>8 DEF Unlock, Access
    <3>2. QED
      BY <2>1, <2>8, <3>1
      DEF Unlock, Goto, TypeOK, StoreInv, OwnerInv, CopyInv, Owner, Inside
  <2>9. QED
    BY <1>3, <2>2, <2>3, <2>4, <2>5, <2>6, <2>7, <2>8 DEF Thread
<1>4. ASSUME NEW t \in Threads, Thread(t) PROVE IInv'
  <2>1. TypeOK'
    BY <1>4, <1>2
  <2>2. RoundInv'
    BY <1>4 DEF Thread, Call, Load, Store, Test, Read, Write, Unlock, Goto, TypeOK, RoundInv
  <2>3. interrupted' \in BOOLEAN
    BY <2>1 DEF TypeOK
  <2>4. QED
    BY <1>3, <1>4, <2>1, <2>2, <2>3
<1>5. QED
  BY <1>1, <1>4 DEF Next

\* An uninterrupted test_and_set gives mutual exclusion to any set of threads,
\* and leaves the lock taken exactly while it has an owner.
THEOREM Excludes == Spec => [](ExclusiveUnlessInterrupted /\ TakenIffOwned)
<1>1. IInv => ExclusiveUnlessInterrupted /\ TakenIffOwned
  BY DEF IInv, OwnerInv, Owner, ExclusiveUnlessInterrupted, TakenIffOwned, MutualExclusion
<1>2. QED
  BY InitIInv, NextIInv, <1>1, PTL DEF Spec

\* And no increment made under the lock is lost.
THEOREM KeepsUpdates == Spec => NoLostUpdate
<1>1. IInv /\ [Next]_vars
        => [\A t \in Threads : Write(t) /\ ~interrupted => counter' = counter + 1]_vars
  BY DEF IInv, CopyInv, Write, Goto
<1>2. QED
  BY InitIInv, NextIInv, <1>1, PTL DEF Spec, NoLostUpdate

=============================================================================
