------------------------- MODULE ConcurrentServers -------------------------
(***************************************************************************)
(* The three servers of concurrentservers/: sequential.c handles one       *)
(* connection after the other, threadedsvr.c starts a thread for each one, *)
(* and threadpoolsvr.c submits each one to the work queue of               *)
(* project2/workqueue.h.  They share handle_connection: read up to a chunk *)
(* that ends in a newline, or to the end of the stream, answer, close.     *)
(*                                                                         *)
(* Every client has connected, one that connects later being one that main *)
(* accepts later.  It sends bytes, of which only newlines matter, may      *)
(* close its side or reset the connection, and may stall for ever.  read() *)
(* returns any nonempty prefix of the bytes that have arrived.  err_n_die, *)
(* and SIGPIPE in write(), end the whole process.                          *)
(*                                                                         *)
(* Errors of socket, bind and listen before the loop, the sleep, the text  *)
(* of the answer and a failing malloc are left out; so are the errors of   *)
(* accept other than a full table and an aborted connection.               *)
(*                                                                         *)
(* A definition preceded by a variant of itself: the variant is a fault    *)
(* that nothing uses, see README.md.                                       *)
(***************************************************************************)
EXTENDS Integers, Sequences, SequencesExt, FiniteSetsExt

CONSTANTS
    Servers,        \* which of "sequential", "threaded" and "pool" to model
    Clients,
    Fds,            \* descriptors the process may use for connections
    PoolSize,       \* THREADPOOLSIZE
    QueueSize,      \* QUEUESIZE
    MaxBytes,       \* bound: bytes the clients of each server send, all together
    Nobody          \* the connection of a closed descriptor

ASSUME ServersAssumption == Servers \subseteq {"sequential", "threaded", "pool"}
ASSUME FdsAssumption == Fds \subseteq Nat
ASSUME PoolAssumption == PoolSize \in Nat \ {0} /\ QueueSize \in Nat \ {0}
ASSUME MaxBytesAssumption == MaxBytes \in [Servers -> Nat]
ASSUME NobodyAssumption == Nobody \notin Clients

VARIABLES
    server,         \* which of the programs runs
    client,         \* each client's end: in the backlog, aborted (reset while
                    \* in the backlog), open, closed (its last byte is sent) or reset
    inbox,          \* bytes that have arrived and that no read() has taken
    sent,           \* how many bytes were sent
    table,          \* the descriptor table: whose connection each one is
    connfd,         \* main's variable
    main_pc,
    jobs,           \* the connections accepted: one argument block each, in order
    seen,           \* history: the last that was read from a client
    answers,        \* history: answers written to each client
    died            \* "no", or what has ended the process

mainvars == <<server, connfd, main_pc>>
clientvars == <<client, inbox, sent>>
history == <<seen, answers>>
vars == <<server, client, inbox, sent, table, connfd, main_pc, jobs, seen, answers,
          died>>

Newline == "\n"
Bytes == {Newline, "x"}

Init ==
    /\ server \in Servers
    /\ client = [c \in Clients |-> "backlog"]
    /\ inbox = [c \in Clients |-> <<>>]
    /\ sent = 0
    /\ table = [f \in Fds |-> Nobody]
    /\ connfd \in Fds           \* uninitialised
    /\ main_pc = "accept"
    /\ jobs = <<>>
    /\ seen = [c \in Clients |-> "nothing"]
    /\ answers = [c \in Clients |-> 0]
    /\ died = "no"

Running == died = "no"

FreeFds == {f \in Fds : table[f] = Nobody}

-----------------------------------------------------------------------------
(* Clients, for as long as there is a server *)

\* A client may send before its connection was accepted.
Send(c) ==
    /\ Running /\ client[c] \in {"backlog", "open"} /\ sent < MaxBytes[server]
    /\ \E byte \in Bytes : inbox' = [inbox EXCEPT ![c] = Append(@, byte)]
    /\ sent' = sent + 1
    /\ UNCHANGED <<client, table, jobs, died, mainvars, history>>

Close(c) ==
    /\ Running /\ client[c] = "open"
    /\ client' = [client EXCEPT ![c] = "closed"]
    /\ UNCHANGED <<inbox, sent, table, jobs, died, mainvars, history>>

\* What had arrived is read still, or read() fails.
Reset(c) ==
    /\ Running /\ client[c] \in {"backlog", "open", "closed"}
    /\ client' = [client EXCEPT ![c] = IF @ = "backlog" THEN "aborted" ELSE "reset"]
    /\ UNCHANGED <<inbox, sent, table, jobs, died, mainvars, history>>

-----------------------------------------------------------------------------
(* main *)

\* accept() gives the lowest free descriptor for a connection of the backlog, one
\* whose client is gone included.
Accept ==
    /\ Running /\ main_pc = "accept"
    /\ \E c \in Clients, f \in FreeFds :
         /\ \A g \in FreeFds : f <= g
         /\ client[c] \in {"backlog", "aborted"}
         /\ client' = [client EXCEPT ![c] = IF @ = "backlog" THEN "open" ELSE "reset"]
         /\ table' = [table EXCEPT ![f] = c]
         /\ connfd' = f
    /\ main_pc' = "dispatch"
    /\ UNCHANGED <<server, inbox, sent, jobs, died, history>>

\* ECONNABORTED or EPROTO: the connection is gone, and main tries the next.
AcceptAborted ==
    /\ Running /\ main_pc = "accept"
    /\ \E c \in Clients :
         /\ client[c] = "aborted"
         /\ client' = [client EXCEPT ![c] = "reset"]
    /\ connfd' = -1
    /\ UNCHANGED <<server, inbox, sent, table, main_pc, jobs, died, history>>

\* No descriptor is left: EMFILE, whether or not a client waits, and "fatal error."
AcceptFails ==
    /\ Running /\ main_pc = "accept" /\ FreeFds = {}
    /\ died' = "accept"
    /\ UNCHANGED <<table, jobs, mainvars, clientvars, history>>

\* The argument of a job is a block of its own that holds a copy of connfd; owner
\* is history, the client main has accepted.
Job(pc) == [fd |-> connfd, pc |-> pc, owner |-> table[connfd]]

Queued == {j \in DOMAIN jobs : jobs[j].pc = "queued"}
InPool == {j \in DOMAIN jobs : jobs[j].pc \in {"read", "write", "close"}}

\* handle_connection(connfd), run by main itself
DispatchInline ==
    /\ server = "sequential"
    /\ jobs' = Append(jobs, Job("read"))
    /\ main_pc' = "wait"

\* pthread_create, whose result is not looked at
DispatchThread ==
    /\ server = "threaded"
    /\ \E pc \in {"read", "no thread"} : jobs' = Append(jobs, Job(pc))
    /\ main_pc' = "accept"

\* wq_submit blocks until there is room on the queue.
QueueRoomUnlimited == TRUE
QueueRoom == Cardinality(Queued) < QueueSize

DispatchQueue ==
    /\ server = "pool" /\ QueueRoom
    /\ jobs' = Append(jobs, Job("queued"))
    /\ main_pc' = "accept"

Dispatch ==
    /\ Running /\ main_pc = "dispatch"
    /\ DispatchInline \/ DispatchThread \/ DispatchQueue
    /\ UNCHANGED <<server, table, connfd, died, clientvars, history>>

\* The sequential server's call of handle_connection returns.
Return ==
    /\ Running /\ main_pc = "wait" /\ Last(jobs).pc = "done"
    /\ main_pc' = "accept"
    /\ UNCHANGED <<server, table, connfd, jobs, died, clientvars, history>>

-----------------------------------------------------------------------------
(* handle_connection and connection_func *)

\* The descriptor that job j works on: the copy its argument block holds.
ArgumentShared(j) == connfd
Argument(j) == jobs[j].fd

Peer(j) == table[Argument(j)]

JobGoto(j, from, to) ==
    /\ Running
    /\ j \in DOMAIN jobs /\ jobs[j].pc = from
    /\ jobs' = [jobs EXCEPT ![j].pc = to]

\* A worker of the pool takes the oldest job of the queue.
Start(j) ==
    /\ Cardinality(InPool) < PoolSize
    /\ \A k \in DOMAIN jobs : jobs[k].pc = "queued" => j <= k
    /\ JobGoto(j, "queued", "read")
    /\ UNCHANGED <<table, died, mainvars, clientvars, history>>

\* read() returns some bytes; the loop ends when the last of them is a newline.
EndsAnywhere(chunk) == Newline \in ToSet(chunk)
EndsMessage(chunk) == Last(chunk) = Newline

Read(j) ==
    /\ Running /\ j \in DOMAIN jobs /\ jobs[j].pc = "read" /\ Peer(j) # Nobody
    /\ \E k \in 1 .. Len(inbox[Peer(j)]) :
         LET chunk == SubSeq(inbox[Peer(j)], 1, k)
         IN /\ inbox' = [inbox EXCEPT ![Peer(j)] = SubSeq(@, k + 1, Len(@))]
            /\ seen' = [seen EXCEPT ![Peer(j)] = Last(chunk)]
            /\ JobGoto(j, "read", IF EndsMessage(chunk) THEN "write" ELSE "read")
    /\ UNCHANGED <<client, sent, table, answers, died, mainvars>>

\* read() returns 0.  The variant goes on reading.
ReadEndIgnored(j) ==
    /\ JobGoto(j, "read", "read")
    /\ Peer(j) # Nobody /\ client[Peer(j)] = "closed" /\ inbox[Peer(j)] = <<>>
    /\ UNCHANGED <<table, died, mainvars, clientvars, history>>
ReadEnd(j) ==
    /\ JobGoto(j, "read", "write")
    /\ Peer(j) # Nobody /\ client[Peer(j)] = "closed" /\ inbox[Peer(j)] = <<>>
    /\ seen' = [seen EXCEPT ![Peer(j)] = "end"]
    /\ UNCHANGED <<table, answers, died, mainvars, clientvars>>

\* read() fails, of a reset connection or of a closed descriptor: "read error"
ReadFails(j) ==
    /\ Running /\ j \in DOMAIN jobs /\ jobs[j].pc = "read"
    /\ Peer(j) = Nobody \/ client[Peer(j)] = "reset"
    /\ died' = IF Peer(j) = Nobody THEN "bad descriptor" ELSE "read"
    /\ UNCHANGED <<table, jobs, mainvars, clientvars, history>>

\* write(), whose result is not looked at
Write(j) ==
    /\ JobGoto(j, "write", "close")
    /\ answers' = [c \in Clients |->
                     IF c = Peer(j) /\ client[c] # "reset" THEN answers[c] + 1
                     ELSE answers[c]]
    /\ UNCHANGED <<table, seen, died, mainvars, clientvars>>

\* write() on a reset connection may raise SIGPIPE, which nobody handles.
WriteDies(j) ==
    /\ Running /\ j \in DOMAIN jobs /\ jobs[j].pc = "write"
    /\ Peer(j) # Nobody /\ client[Peer(j)] = "reset"
    /\ died' = "sigpipe"
    /\ UNCHANGED <<table, jobs, mainvars, clientvars, history>>

\* close(connectionfd), and free(arg) where there is an argument: the job is over.
CloseNothing(j) ==
    /\ JobGoto(j, "close", "done")
    /\ UNCHANGED <<table, died, mainvars, clientvars, history>>
CloseFd(j) ==
    /\ JobGoto(j, "close", "done")
    /\ table' = [table EXCEPT ![Argument(j)] = Nobody]
    /\ UNCHANGED <<died, mainvars, clientvars, history>>

Handler(j) ==
    \/ Start(j) \/ Read(j) \/ ReadEnd(j) \/ ReadFails(j)
    \/ Write(j) \/ WriteDies(j) \/ CloseFd(j)

Main == Accept \/ AcceptAborted \/ AcceptFails \/ Dispatch \/ Return

\* The process has ended, or every client is gone and main waits for ever.
Stopped ==
    /\ \/ ~Running
       \/ /\ \A c \in Clients : client[c] \in {"closed", "reset"}
          /\ \A j \in DOMAIN jobs : jobs[j].pc \in {"no thread", "done"}
          /\ main_pc = "accept"
    /\ UNCHANGED vars

Next ==
    \/ \E c \in Clients : Send(c) \/ Close(c) \/ Reset(c)
    \/ Main
    \/ \E j \in 1 .. Cardinality(Clients) : Handler(j)
    \/ Stopped

\* main and the threads that can run do run.  Nothing is assumed of the clients.
Fairness ==
    /\ WF_vars(Main)
    /\ \A j \in 1 .. Cardinality(Clients) : WF_vars(Handler(j))

Spec == Init /\ [][Next]_vars /\ Fairness

-----------------------------------------------------------------------------
(* Properties *)

Live(job) == job.pc \in {"queued", "read", "write", "close"}

\* Although descriptors are reused and main overwrites connfd all the time, a job
\* works on the connection it was created for until it closes it, so no two jobs
\* share one and none touches a closed descriptor.
OwnConnection ==
    /\ \A j \in DOMAIN jobs : Live(jobs[j]) => table[Argument(j)] = jobs[j].owner
    /\ \A j, k \in DOMAIN jobs :
         Live(jobs[j]) /\ Live(jobs[k]) /\ Argument(j) = Argument(k) => j = k
    /\ died # "bad descriptor"

\* An open descriptor belongs to a job that will close it, to the connection main
\* is about to dispatch, or to a thread that was never created: no other leak.
NoDescriptorLeak ==
    LET owners == {j \in DOMAIN jobs : Live(jobs[j]) \/ jobs[j].pc = "no thread"}
    IN Fds \ FreeFds = {jobs[j].fd : j \in owners}
                         \cup (IF main_pc = "dispatch" THEN {connfd} ELSE {})

\* A client gets one answer at most, and only once the server has read a chunk
\* that ends its message, or the end of the stream.
AnsweredAfterMessage ==
    \A c \in Clients : answers[c] > 0 => answers[c] = 1 /\ seen[c] \in {Newline, "end"}

\* The sequential server uses one descriptor, the pool server one for each worker,
\* each place in the queue and main; with that many neither runs out.
Enough == IF server = "sequential" THEN 1 ELSE PoolSize + QueueSize + 1
NeverOutOfDescriptors ==
    server # "threaded" =>
      /\ Cardinality(Fds \ FreeFds) <= Enough
      /\ Cardinality(Fds) >= Enough => died # "accept"

Answered(c) == answers[c] = 1 \/ client[c] = "reset" \/ ~Running

Unserved(c) == \E j \in DOMAIN jobs : jobs[j].owner = c /\ jobs[j].pc = "no thread"

\* With a thread of its own, a client that has closed its side is answered whatever
\* the others do, those included that stall for ever, unless it resets, its thread
\* could not be created, or another client's reset ends the server.
ServedAlone ==
    \A c \in Clients :
      server = "threaded" /\ client[c] = "closed" ~> Answered(c) \/ Unserved(c)

\* Clients that finish what they have begun: none stays open for ever.
Patient == \A c \in Clients : []<>(client[c] # "open")

\* Served one after the other, or by the pool, every client that connects is
\* answered, provided that the clients before it do not stall for ever.
ServedInTurn ==
    Patient =>
      \A c \in Clients :
        server # "threaded" /\ client[c] \in {"backlog", "aborted"} ~> Answered(c)

=============================================================================
