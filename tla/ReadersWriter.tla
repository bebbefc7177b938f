---------------------------- MODULE ReadersWriter ----------------------------
(* threads/readwritelockex.c: readers and a writer under a lock that, with    *)
(* default attributes, prefers readers: a writer that unlocks lets those in   *)
(* who wait, and gets in again only when nobody reads.                        *)
CONSTANT Readers

VARIABLES
    reader,     \* each reader: "rdlock", "wait", "read" or "sleep"
    writer      \* "sleep", "wrlock", "write" or "unlock"

lockVars == <<reader, writer>>

Init == reader = [r \in Readers |-> "rdlock"] /\ writer = "sleep"

ReaderGoes(r, from, to) == reader[r] = from /\ reader' = [reader EXCEPT ![r] = to]
WriterGoes(from, to) == writer = from /\ writer' = to

WriterInside == writer \in {"write", "unlock"}

ReadLock(r) ==
    /\ ReaderGoes(r, "rdlock", IF WriterInside THEN "wait" ELSE "read")
    /\ UNCHANGED writer

\* Prints the counter and unlocks.
ReadUnlock(r) == ReaderGoes(r, "read", "sleep") /\ UNCHANGED writer
ReaderWakes(r) == ReaderGoes(r, "sleep", "rdlock") /\ UNCHANGED writer

WriterWakes == WriterGoes("sleep", "wrlock") /\ UNCHANGED reader

WriteLock ==
    /\ \A r \in Readers : reader[r] # "read"
    /\ WriterGoes("wrlock", "write")
    /\ UNCHANGED reader

\* Prints, sleeps and counts.
Write == WriterGoes("write", "unlock") /\ UNCHANGED reader

WriteUnlockForgotten == WriterGoes("unlock", "sleep") /\ UNCHANGED reader
WriteUnlock ==
    /\ WriterGoes("unlock", "sleep")
    /\ reader' = [r \in Readers |-> IF reader[r] = "wait" THEN "read" ELSE reader[r]]

Reader(r) == ReadLock(r) \/ ReadUnlock(r) \/ ReaderWakes(r)
Writer == WriterWakes \/ WriteLock \/ Write \/ WriteUnlock

Next == Writer \/ \E r \in Readers : Reader(r)

Spec == Init /\ [][Next]_lockVars

-----------------------------------------------------------------------------
(* No reader prints while the writer writes, and every reader reads again and *)
(* again however often the writer comes.  The writer has no such promise: a   *)
(* reader may always be inside (readwritelockex.c:15-25, 34-40).              *)
ReadersReadOn ==
    /\ [](WriterInside => \A r \in Readers : reader[r] # "read")
    /\ \A r \in Readers : []<>(reader[r] = "read")
=============================================================================
