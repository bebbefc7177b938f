--------------------------- MODULE ForkedProcesses ---------------------------
(* The programs of processes/ that fork, and ipc/shmem.c: what a parent and   *)
(* its child share (the pipe, the mapped block, the output) and what they do  *)
(* not (their memory, and the output that stdio has not written yet).         *)
EXTENDS Naturals, Sequences, FiniteSets

CONSTANT MaxForks       \* bound on the rounds of zombies.c, which has none

VARIABLES
    program,    \* which of the programs runs
    terminal,   \* stdout is a terminal: stdio writes each line at its end
    proc,       \* of each process: status, place in its code, memory, and the
                \* lines that stdio holds back
    open,       \* the ends of the pipe each process has open
    full,       \* the message is in the pipe
    block,      \* who wrote the mapped block last
    out,        \* the lines written
    printed,    \* history: the lines printed
    forks       \* history: calls of fork

Process == {"parent", "child"}
files == <<open, full, block>>
forkVars == <<program, terminal, proc, files, out, printed, forks>>

-----------------------------------------------------------------------------
(* The programs, as far as the processes meet.  "set" is the assignment a    *)
(* program shows its memory with; a child begins after the fork.             *)

ForkTest == [parent |-> <<"print", "fork", "wait", "print", "print">>,
             child  |-> <<"set", "print", "print">>]

Exec2 == [parent |-> <<"fork", "wait", "set", "print">>, child |-> <<"exec">>]

\* When exec fails the child goes on with the code of the parent.
Exec3 == [parent |-> <<"fork", "wait", "set", "print">>,
          child  |-> <<"exec", "wait", "set", "print">>]

Exec4 == [parent |-> <<"fork">>, child |-> <<"exec">>]

\* When fork fails the parent goes on with the code of the child.
Orphans == [parent |-> <<"fork", "print", "flush", "return",
                         "print", "flush", "print", "print">>,
            child  |-> <<"print", "flush", "print", "print">>]

Zombies == [parent |-> <<"fork", "wait", "print", "again">>,
            child  |-> <<"print">>]

ShMemNoWait == [parent |-> <<"share", "fork", "print", "print", "print">>,
                child  |-> <<"print", "print", "set", "print", "share">>]
ShMem == [parent |-> <<"share", "fork", "wait", "print", "print", "print">>,
          child  |-> <<"print", "print", "set", "print", "share">>]

PipesEndLeftOpen == [parent |-> <<"fork", "closeRead", "write", "print",
                                  "closeWrite", "wait">>,
                     child  |-> <<"read", "print", "closeRead">>]
Pipes == [parent |-> <<"fork", "closeRead", "write", "print", "closeWrite", "wait">>,
          child  |-> <<"closeWrite", "read", "print", "closeRead">>]

Code == [forktest |-> ForkTest, exec2 |-> Exec2, exec3 |-> Exec3, exec4 |-> Exec4,
         orphans |-> Orphans, zombies |-> Zombies, shmem |-> ShMem, pipes |-> Pipes]

-----------------------------------------------------------------------------
Runs(p) == proc[p].status = "runs"
CodeOf(p) == Code[program][p]
Does(p, step) ==
    Runs(p) /\ proc[p].at <= Len(CodeOf(p)) /\ CodeOf(p)[proc[p].at] = step
Goes(p, to) == proc' = [proc EXCEPT ![p].at = to]
GoesOn(p) == Goes(p, proc[p].at + 1)

Init ==
    /\ program \in DOMAIN Code
    /\ terminal \in BOOLEAN
    /\ proc = [p \in Process |-> [status |-> IF p = "parent" THEN "runs" ELSE "none",
                                  at |-> 1, own |-> 0, held |-> <<>>]]
    /\ open = [p \in Process |-> IF p = "parent" THEN {"read", "write"} ELSE {}]
    /\ full = FALSE
    /\ block = "parent"
    /\ out = <<>>
    /\ printed = {}
    /\ forks = 0

\* The child gets copies of the memory and the descriptors of its parent.
Fork(p) ==
    /\ Does(p, "fork")
    /\ proc' = [proc EXCEPT !["child"] = [proc[p] EXCEPT !.at = 1],
                            ![p].at = @ + 1]
    /\ open' = [open EXCEPT !["child"] = open[p]]
    /\ forks' = forks + 1
    /\ UNCHANGED <<program, terminal, full, block, out, printed>>

ForkFails(p) ==
    /\ Does(p, "fork")
    /\ Goes(p, IF program = "orphans" THEN 5 ELSE proc[p].at + 1)
    /\ forks' = forks + 1
    /\ UNCHANGED <<program, terminal, files, out, printed>>

LineBufferedNever == FALSE
LineBuffered == terminal

PrintLine(p) ==
    LET line == [by |-> p, at |-> proc[p].at, fork |-> forks,
                 own |-> proc[p].own, block |-> block] IN
    /\ Does(p, "print")
    /\ printed' = printed \cup {line}
    /\ proc' = [proc EXCEPT ![p].at = @ + 1,
                            ![p].held = IF LineBuffered THEN @ ELSE Append(@, line)]
    /\ out' = IF LineBuffered THEN Append(out, line) ELSE out
    /\ UNCHANGED <<program, terminal, files, forks>>

Flush(p) ==
    /\ Does(p, "flush")
    /\ out' = out \o proc[p].held
    /\ proc' = [proc EXCEPT ![p].at = @ + 1, ![p].held = <<>>]
    /\ UNCHANGED <<program, terminal, files, printed, forks>>

Set(p) ==
    /\ Does(p, "set")
    /\ proc' = [proc EXCEPT ![p].at = @ + 1, ![p].own = 1]
    /\ UNCHANGED <<program, terminal, files, out, printed, forks>>

Share(p) ==
    /\ Does(p, "share")
    /\ block' = p
    /\ GoesOn(p)
    /\ UNCHANGED <<program, terminal, open, full, out, printed, forks>>

\* wait returns at once when there is no child.
Wait(p) ==
    /\ Does(p, "wait")
    /\ p = "parent" => ~Runs("child")
    /\ GoesOn(p)
    /\ UNCHANGED <<program, terminal, files, out, printed, forks>>

\* for(;;) in zombies.c; with no fork left the model leaves the parent asleep.
Again(p) ==
    /\ Does(p, "again")
    /\ forks < MaxForks
    /\ Goes(p, 1)
    /\ UNCHANGED <<program, terminal, files, out, printed, forks>>

\* ls takes the place of the process, and ends.
Exec(p) ==
    /\ Does(p, "exec")
    /\ proc' = [proc EXCEPT ![p].status = "ended", ![p].held = <<>>]
    /\ open' = [open EXCEPT ![p] = {}]
    /\ UNCHANGED <<program, terminal, full, block, out, printed, forks>>

ExecFails(p) ==
    /\ Does(p, "exec")
    /\ GoesOn(p)
    /\ UNCHANGED <<program, terminal, files, out, printed, forks>>

Close(p) ==
    /\ \/ Does(p, "closeRead") /\ open' = [open EXCEPT ![p] = @ \ {"read"}]
       \/ Does(p, "closeWrite") /\ open' = [open EXCEPT ![p] = @ \ {"write"}]
    /\ GoesOn(p)
    /\ UNCHANGED <<program, terminal, full, block, out, printed, forks>>

Opened(e) == \E p \in Process : e \in open[p]

Write(p) ==
    /\ Does(p, "write")
    /\ IF Opened("read")
       THEN full' = TRUE /\ GoesOn(p) /\ UNCHANGED open
       ELSE /\ proc' = [proc EXCEPT ![p].status = "killed"]     \* SIGPIPE
            /\ open' = [open EXCEPT ![p] = {}]
            /\ UNCHANGED full
    /\ UNCHANGED <<program, terminal, block, out, printed, forks>>

\* read waits for the message or the end of the last writer.
Read(p) ==
    /\ Does(p, "read")
    /\ full \/ ~Opened("write")
    /\ full' = FALSE
    /\ proc' = [proc EXCEPT ![p].at = @ + 1, ![p].own = IF full THEN 1 ELSE 0]
    /\ UNCHANGED <<program, terminal, open, block, out, printed, forks>>

End(p) ==
    /\ Runs(p)
    /\ proc[p].at > Len(CodeOf(p)) \/ Does(p, "return")
    /\ proc' = [proc EXCEPT ![p].status = "ended", ![p].held = <<>>]
    /\ out' = out \o proc[p].held
    /\ open' = [open EXCEPT ![p] = {}]
    /\ UNCHANGED <<program, terminal, full, block, printed, forks>>

\* A signal to the parent.
Killed ==
    /\ Runs("parent")
    /\ proc' = [proc EXCEPT !["parent"].status = "killed"]
    /\ open' = [open EXCEPT !["parent"] = {}]
    /\ UNCHANGED <<program, terminal, full, block, out, printed, forks>>

Step(p) ==
    \/ Fork(p) \/ ForkFails(p) \/ PrintLine(p) \/ Flush(p) \/ Set(p) \/ Share(p)
    \/ Wait(p) \/ Again(p) \/ Exec(p) \/ ExecFails(p) \/ Close(p) \/ Write(p)
    \/ Read(p) \/ End(p)

Next == (\E p \in Process : Step(p)) \/ Killed

Spec == Init /\ [][Next]_forkVars /\ \A p \in Process : WF_forkVars(Step(p))

-----------------------------------------------------------------------------
Copies(line) == Cardinality({k \in DOMAIN out : out[k] = line})

(* On a terminal each line is written once.  When the output is a file a     *)
(* line that was printed before a fork may be written by the child again     *)
(* (forktest.c:13, zombies.c:20), but never a later one; and nothing printed *)
(* is lost unless a signal ends the parent (orphans.c:15, pipes.c:49).       *)
OutputFaithful ==
    \A line \in printed :
        /\ Copies(line) > 1 => ~terminal /\ line.fork < forks
        /\ (\A p \in Process : proc[p].status \in {"none", "ended"}) => Copies(line) >= 1

(* What a parent prints after its wait shows the block as its child left it, *)
(* and neither process shows an assignment of the other (shmem.c:41-52,      *)
(* forktest.c:17-25, exec3.c:16-27).                                         *)
Before(line, steps) ==
    \E k \in 1 .. line.at - 1 : Code[program][line.by][k] \in steps
ReportsInOrder ==
    \A line \in printed :
        /\ Before(line, {"set"}) => line.own = 1
        /\ line.own = 1 => Before(line, {"set", "read"})
        /\ (line.by = "parent" /\ program = "shmem" /\ proc["child"].status # "none") =>
              line.block = "child"

(* Every program but zombies.c ends, parent and child, although the parent   *)
(* may be killed before it has written: the child has closed its own end for *)
(* writing, so that read returns (pipes.c:29-31).                            *)
BothEnd == program # "zombies" => <>(\A p \in Process : ~Runs(p))
=============================================================================
