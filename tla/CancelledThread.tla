--------------------------- MODULE CancelledThread ---------------------------
(* threads/pthreadex2.c: main counts while its threads print slowly, cancels  *)
(* the first of them and joins all.  Each thread frees the number that main   *)
(* has allocated for it, if it gets there.                                    *)
EXTENDS Naturals

CONSTANTS
    NUMTHREADS,
    Turns           \* turns of do_something_really_slow, 10 in the code

Threads == 0 .. NUMTHREADS - 1

VARIABLES
    main,       \* "create", "count", "cancel", "join" or "done"
    next,       \* main's i
    thread,     \* of each thread: "none", turns left, "free", "ended", "cancelled"
    pending,    \* threads with a request to be cancelled
    live        \* numbers allocated and not freed

cancelVars == <<main, next, thread, pending, live>>

Init ==
    /\ main = "create" /\ next = 0
    /\ thread = [t \in Threads |-> [at |-> "none", turns |-> Turns]]
    /\ pending = {} /\ live = {}

Create ==
    /\ main = "create"
    /\ live' = live \cup {next}
    /\ thread' = [thread EXCEPT ![next].at = "slow"]
    /\ IF next + 1 = NUMTHREADS THEN main' = "count" /\ next' = 0
                                ELSE main' = main /\ next' = next + 1
    /\ UNCHANGED pending

\* Nobody else uses counter.
CountToBig ==
    /\ main = "count"
    /\ main' = "cancel"
    /\ UNCHANGED <<next, thread, pending, live>>

Cancel ==
    /\ main = "cancel"
    /\ pending' = {0}
    /\ main' = "join"
    /\ UNCHANGED <<next, thread, live>>

Over(t) == thread[t].at \in {"ended", "cancelled"}
JoinedAtOnce == TRUE
Joined == Over(next)

Join ==
    /\ main = "join"
    /\ Joined
    /\ IF next + 1 = NUMTHREADS THEN main' = "done" /\ UNCHANGED next
                                ELSE main' = main /\ next' = next + 1
    /\ UNCHANGED <<thread, pending, live>>

\* printf and sleep are where a request takes effect.
Slow(t) ==
    /\ thread[t].at = "slow" /\ t \notin pending
    /\ thread' = [thread EXCEPT ![t] =
          IF @.turns = 1 THEN [at |-> "free", turns |-> 0] ELSE [@ EXCEPT !.turns = @ - 1]]
    /\ UNCHANGED <<main, next, pending, live>>

Cancelled(t) ==
    /\ thread[t].at = "slow" /\ t \in pending
    /\ thread' = [thread EXCEPT ![t].at = "cancelled"]
    /\ UNCHANGED <<main, next, pending, live>>

Free(t) ==
    /\ thread[t].at = "free"
    /\ live' = live \ {t}
    /\ thread' = [thread EXCEPT ![t].at = "ended"]
    /\ UNCHANGED <<main, next, pending>>

Main == Create \/ CountToBig \/ Cancel \/ Join
Thread(t) == Slow(t) \/ Cancelled(t) \/ Free(t)
Running == main # "done"    \* main's return ends every thread

Next == Running /\ (Main \/ \E t \in Threads : Thread(t))

Spec == Init /\ [][Next]_cancelVars

-----------------------------------------------------------------------------
(* main ends, and then every number has been freed once, but the one of the  *)
(* first thread if the request reached it before its last turn               *)
(* (pthreadex2.c:33-40, 55-60).                                               *)
OnlyCancelledLeaks ==
    <>(main = "done" /\ live = {t \in Threads : thread[t].at = "cancelled"} /\ live \subseteq {0})
=============================================================================
