----------------------- MODULE ConcurrentServersProofs -----------------------
(***************************************************************************)
(* Whose connection a job works on and who answers whom, in the three      *)
(* servers, for any sets of clients and descriptors and any sizes of the   *)
(* pool and the queue.                                                     *)
(***************************************************************************)
EXTENDS ConcurrentServers, SequenceTheorems, FiniteSetTheorems, TLAPS

PCs == {"queued", "read", "write", "close", "done", "no thread"}
Jobs == [fd : Fds, pc : PCs, owner : Clients]

TypeInv ==
    /\ table \in [Fds -> Clients \cup {Nobody}]
    /\ client \in [Clients -> {"backlog", "aborted", "open", "closed", "reset"}]
    /\ main_pc \in {"accept", "dispatch", "wait"}
    /\ jobs \in Seq(Jobs)
    /\ answers \in [Clients -> Nat]
    /\ DOMAIN seen = Clients

\* A client is accepted once, and then it is the owner of one job, or about to be.
Accepted(c) == client[c] \notin {"backlog", "aborted"}

OwnerInv ==
    /\ \A j \in DOMAIN jobs : Accepted(jobs[j].owner)
    /\ \A j, k \in DOMAIN jobs : jobs[j].owner = jobs[k].owner => j = k
    /\ main_pc = "dispatch" =>
         /\ connfd \in Fds /\ table[connfd] \in Clients /\ Accepted(table[connfd])
         /\ \A j \in DOMAIN jobs : jobs[j].owner # table[connfd]

\* The descriptor of a job that is not over is that of its owner, and each open
\* descriptor has such a job, or is the one main is about to dispatch.
Holds(job, f) == job.pc # "done" /\ job.fd = f

DescriptorInv ==
    /\ \A j \in DOMAIN jobs : jobs[j].pc # "done" => table[jobs[j].fd] = jobs[j].owner
    /\ \A f \in Fds : table[f] # Nobody =>
         \/ main_pc = "dispatch" /\ f = connfd
         \/ \E j \in DOMAIN jobs : Holds(jobs[j], f)
    /\ died # "bad descriptor"

\* A job has written its answer when it closes, and has read to the end before.
AnswerInv ==
    /\ \A c \in Clients : answers[c] # 0 =>
         /\ answers[c] = 1
         /\ \E j \in DOMAIN jobs : jobs[j].owner = c /\ jobs[j].pc \in {"close", "done"}
    /\ \A j \in DOMAIN jobs :
         jobs[j].pc \in {"write", "close", "done"} => seen[jobs[j].owner] \in {Newline, "end"}

IInv == TypeInv /\ OwnerInv /\ DescriptorInv /\ AnswerInv

-----------------------------------------------------------------------------
LEMMA InitIInv == Init => IInv
<1> SUFFICES ASSUME Init PROVE IInv
  OBVIOUS
<1>1. DOMAIN jobs = {} /\ jobs \in Seq(Jobs)
  BY DEF Init
<1>2. QED
  BY <1>1 DEF Init, IInv, TypeInv, OwnerInv, DescriptorInv, AnswerInv, Accepted

\* What a step of one job changes of the argument blocks.
LEMMA JobStep ==
    ASSUME TypeInv, NEW j, NEW from, NEW to \in PCs, JobGoto(j, from, to)
    PROVE  /\ j \in DOMAIN jobs /\ jobs[j].pc = from
           /\ jobs' \in Seq(Jobs) /\ DOMAIN jobs' = DOMAIN jobs
           /\ \A k \in DOMAIN jobs :
                 /\ jobs'[k].fd = jobs[k].fd /\ jobs'[k].owner = jobs[k].owner
                 /\ jobs'[k].pc = IF k = j THEN to ELSE jobs[k].pc
<1>1. jobs \in Seq(Jobs) /\ j \in 1 .. Len(jobs) /\ DOMAIN jobs = 1 .. Len(jobs)
  BY DEF TypeInv, JobGoto
<1>2. \A k \in DOMAIN jobs : jobs[k] \in Jobs
  BY <1>1
<1>3. [jobs[j] EXCEPT !.pc = to] \in Jobs
  BY <1>1, <1>2 DEF Jobs
<1>4. jobs' = [jobs EXCEPT ![j] = [jobs[j] EXCEPT !.pc = to]]
  BY DEF JobGoto
<1>5. jobs' \in Seq(Jobs) /\ DOMAIN jobs' = DOMAIN jobs
  BY <1>1, <1>3, <1>4, ExceptSeq
<1>6. \A k \in DOMAIN jobs :
         jobs'[k] = IF k = j THEN [jobs[j] EXCEPT !.pc = to] ELSE jobs[k]
  BY <1>4
<1>7. QED
  BY <1>1, <1>2, <1>5, <1>6 DEF JobGoto, Jobs

\* One index more.
LEMMA Successor ==
    ASSUME NEW n \in Nat PROVE 1 .. n + 1 = 1 .. n \cup {n + 1} /\ n + 1 \notin 1 .. n
OBVIOUS

\* One block more, at the end.
LEMMA JobsAppended ==
    ASSUME NEW new \in Jobs, jobs \in Seq(Jobs), jobs' = Append(jobs, new)
    PROVE  /\ jobs' \in Seq(Jobs) /\ Len(jobs') = Len(jobs) + 1
           /\ \A k \in 1 .. Len(jobs) : jobs'[k] = jobs[k]
           /\ jobs'[Len(jobs) + 1] = new
<1>1. jobs' \in Seq(Jobs)
  OBVIOUS
<1>2. Len(jobs') = Len(jobs) + 1
  OBVIOUS
<1>3. \A k \in 1 .. Len(jobs) : jobs'[k] = jobs[k]
  OBVIOUS
<1>4. jobs'[Len(jobs) + 1] = new
  OBVIOUS
<1>5. QED
  BY <1>1, <1>2, <1>3, <1>4

\* What the dispatch of a connection adds to them.
LEMMA DispatchStep ==
    ASSUME TypeInv, OwnerInv, Dispatch
    PROVE  /\ main_pc = "dispatch" /\ main_pc' \in {"accept", "wait"}
           /\ jobs' \in Seq(Jobs) /\ DOMAIN jobs' = DOMAIN jobs \cup {Len(jobs) + 1}
           /\ Len(jobs) + 1 \notin DOMAIN jobs
           /\ \A k \in DOMAIN jobs : jobs'[k] = jobs[k]
           /\ jobs'[Len(jobs) + 1].fd = connfd
           /\ jobs'[Len(jobs) + 1].owner = table[connfd]
           /\ jobs'[Len(jobs) + 1].pc \in {"queued", "read", "no thread"}
<1>1. PICK pc \in {"queued", "read", "no thread"} :
         jobs' = Append(jobs, Job(pc)) /\ main_pc' \in {"accept", "wait"}
  BY DEF Dispatch, DispatchInline, DispatchThread, DispatchQueue
<1>2. Job(pc) \in Jobs
  BY DEF Dispatch, OwnerInv, Job, Jobs, PCs
<1>3. jobs \in Seq(Jobs)
  BY DEF TypeInv
<1>4. Len(jobs) \in Nat /\ DOMAIN jobs = 1 .. Len(jobs)
  BY <1>3, LenProperties
<1>5. /\ jobs' \in Seq(Jobs) /\ Len(jobs') = Len(jobs) + 1
      /\ \A k \in 1 .. Len(jobs) : jobs'[k] = jobs[k]
      /\ jobs'[Len(jobs) + 1] = Job(pc)
  <2>1. jobs' = Append(jobs, Job(pc))
    BY <1>1
  <2>2. QED
    BY ONLY <1>2, <1>3, <2>1, JobsAppended
<1>6. DOMAIN jobs' = 1 .. Len(jobs) + 1
  BY <1>5, LenProperties
<1>7. /\ 1 .. Len(jobs) + 1 = 1 .. Len(jobs) \cup {Len(jobs) + 1}
      /\ Len(jobs) + 1 \notin 1 .. Len(jobs)
  BY <1>4, Successor
<1>8. /\ jobs'[Len(jobs) + 1].fd = connfd
      /\ jobs'[Len(jobs) + 1].owner = table[connfd]
      /\ jobs'[Len(jobs) + 1].pc = pc
  <2>1. Job(pc).fd = connfd /\ Job(pc).owner = table[connfd] /\ Job(pc).pc = pc
    BY DEF Job
  <2>2. QED
    BY <1>5, <2>1
<1>9. main_pc = "dispatch"
  BY DEF Dispatch
<1>10. QED
  BY <1>1, <1>4, <1>5, <1>6, <1>7, <1>8, <1>9

LEMMA JobType ==
    ASSUME TypeInv
    PROVE  \A j \in DOMAIN jobs :
              jobs[j].fd \in Fds /\ jobs[j].pc \in PCs /\ jobs[j].owner \in Clients
<1>1. jobs \in Seq(Jobs)
  BY DEF TypeInv
<1>2. \A j \in DOMAIN jobs : jobs[j] \in Jobs
  BY <1>1, LenProperties
<1>3. QED
  BY <1>2 DEF Jobs

\* A step that touches neither descriptors nor jobs, and accepts nobody.
LEMMA Aside ==
    ASSUME IInv, UNCHANGED <<table, jobs, connfd, main_pc, seen, answers>>,
           died' # "bad descriptor",
           client' \in [Clients -> {"backlog", "aborted", "open", "closed", "reset"}],
           \A c \in Clients : Accepted(c) => Accepted(c)'
    PROVE  IInv'
<1>1. \A j \in DOMAIN jobs : jobs[j].owner \in Clients
  BY JobType DEF IInv
<1>2. TypeInv'
  BY DEF IInv, TypeInv
<1>3. OwnerInv'
  <2>1. \A j \in DOMAIN jobs : Accepted(jobs[j].owner)'
    BY <1>1 DEF IInv, OwnerInv
  <2>2. main_pc = "dispatch" => Accepted(table[connfd])'
    BY DEF IInv, OwnerInv
  <2>3. QED
    BY <2>1, <2>2 DEF IInv, OwnerInv
<1>4. DescriptorInv' /\ AnswerInv'
  BY DEF IInv, DescriptorInv, AnswerInv, Holds
<1>5. QED
  BY <1>2, <1>3, <1>4 DEF IInv

LEMMA ClientStep == IInv /\ (\E c \in Clients : Send(c) \/ Close(c) \/ Reset(c)) => IInv'
<1> SUFFICES ASSUME IInv, NEW c \in Clients, Send(c) \/ Close(c) \/ Reset(c) PROVE IInv'
  OBVIOUS
<1>1. UNCHANGED <<table, jobs, connfd, main_pc, seen, answers>>
  BY DEF Send, Close, Reset, mainvars, history
<1>2. died' # "bad descriptor"
  BY DEF IInv, DescriptorInv, Send, Close, Reset
<1>3. /\ client' \in [Clients -> {"backlog", "aborted", "open", "closed", "reset"}]
      /\ \A d \in Clients : Accepted(d) => Accepted(d)'
  BY DEF IInv, TypeInv, Accepted, Send, Close, Reset
<1>4. QED
  BY <1>1, <1>2, <1>3, Aside

LEMMA AcceptStep == IInv /\ Accept => IInv'
<1> SUFFICES ASSUME IInv, Accept PROVE IInv'
  OBVIOUS
<1>1. PICK c \in Clients, f \in Fds :
         /\ table[f] = Nobody /\ ~Accepted(c)
         /\ client' = [client EXCEPT ![c] = IF @ = "backlog" THEN "open" ELSE "reset"]
         /\ table' = [table EXCEPT ![f] = c]
         /\ connfd' = f
  BY DEF Accept, FreeFds, Accepted
<1>2. main_pc = "accept" /\ main_pc' = "dispatch" /\ UNCHANGED <<jobs, died, seen, answers>>
  BY DEF Accept, history
<1>3. \A j \in DOMAIN jobs :
         jobs[j].owner \in Clients /\ jobs[j].owner # c /\ jobs[j].fd \in Fds
  BY <1>1, JobType DEF IInv, OwnerInv
<1>4. \A j \in DOMAIN jobs : jobs[j].pc # "done" => jobs[j].fd # f
  BY <1>1, <1>3, NobodyAssumption DEF IInv, DescriptorInv
<1>5. TypeInv'
  BY <1>1, <1>2 DEF IInv, TypeInv
<1>6. OwnerInv'
  BY <1>1, <1>2, <1>3 DEF IInv, TypeInv, OwnerInv, Accepted
<1>7. DescriptorInv'
  BY <1>1, <1>2, <1>3, <1>4 DEF IInv, TypeInv, DescriptorInv, Holds
<1>8. AnswerInv'
  BY <1>2 DEF IInv, AnswerInv
<1>9. QED
  BY <1>5, <1>6, <1>7, <1>8 DEF IInv

LEMMA MainStep == IInv /\ (AcceptAborted \/ AcceptFails \/ Return) => IInv'
<1> SUFFICES ASSUME IInv, AcceptAborted \/ AcceptFails \/ Return PROVE IInv'
  OBVIOUS
<1>1. CASE AcceptFails
  <2>1. /\ UNCHANGED <<table, jobs, connfd, main_pc, seen, answers, client>>
        /\ died' = "accept"
    BY <1>1 DEF AcceptFails, mainvars, clientvars, history
  <2>2. /\ client' \in [Clients -> {"backlog", "aborted", "open", "closed", "reset"}]
        /\ \A c \in Clients : Accepted(c) => Accepted(c)'
    BY <2>1 DEF IInv, TypeInv, Accepted
  <2>3. QED
    BY <2>1, <2>2, Aside
<1>2. CASE AcceptAborted \/ Return
  <2>1. /\ main_pc # "dispatch" /\ main_pc' \in {"accept", "wait"}
        /\ UNCHANGED <<table, jobs, died, seen, answers>>
    BY <1>2 DEF AcceptAborted, Return, history, clientvars, IInv, TypeInv
  <2>2. /\ client' \in [Clients -> {"backlog", "aborted", "open", "closed", "reset"}]
        /\ \A c \in Clients : Accepted(c) => Accepted(c)'
    BY <1>2 DEF AcceptAborted, Return, clientvars, IInv, TypeInv, Accepted
  <2>3. TypeInv' /\ DescriptorInv' /\ AnswerInv'
    BY <2>1, <2>2 DEF IInv, TypeInv, DescriptorInv, AnswerInv, Holds
  <2>4. \A j \in DOMAIN jobs : jobs[j].owner \in Clients
    BY JobType DEF IInv
  <2>5. OwnerInv'
    BY <2>1, <2>2, <2>4 DEF IInv, OwnerInv
  <2>6. QED
    BY <2>3, <2>5 DEF IInv
<1>3. QED
  BY <1>1, <1>2

LEMMA DispatchKeeps == IInv /\ Dispatch => IInv'
<1> SUFFICES ASSUME IInv, Dispatch PROVE IInv'
  OBVIOUS
<1> DEFINE new == Len(jobs) + 1
<1>1. /\ main_pc = "dispatch" /\ main_pc' \in {"accept", "wait"}
      /\ jobs' \in Seq(Jobs) /\ DOMAIN jobs' = DOMAIN jobs \cup {new}
      /\ new \notin DOMAIN jobs
      /\ \A k \in DOMAIN jobs : jobs'[k] = jobs[k]
      /\ jobs'[new].fd = connfd /\ jobs'[new].owner = table[connfd]
      /\ jobs'[new].pc \in {"queued", "read", "no thread"}
  BY DispatchStep DEF IInv
<1>2. UNCHANGED <<table, connfd, died, client, seen, answers>>
  BY DEF Dispatch, clientvars, history
<1> HIDE DEF new
<1>3. connfd \in Fds /\ table[connfd] \in Clients /\ Accepted(table[connfd])
  BY <1>1 DEF IInv, OwnerInv
<1>4. TypeInv'
  BY <1>1, <1>2 DEF IInv, TypeInv
<1>5. OwnerInv'
  <2>1. \A j \in DOMAIN jobs' : client'[jobs'[j].owner] \notin {"backlog", "aborted"}
    BY <1>1, <1>2, <1>3 DEF IInv, OwnerInv, Accepted
  <2>2. \A j, k \in DOMAIN jobs' : jobs'[j].owner = jobs'[k].owner => j = k
    BY <1>1 DEF IInv, OwnerInv
  <2>3. QED
    BY <1>1, <2>1, <2>2 DEF OwnerInv, Accepted
<1>6. DescriptorInv'
  <2>1. \A j \in DOMAIN jobs' : jobs'[j].pc # "done" => table[jobs'[j].fd] = jobs'[j].owner
    BY <1>1 DEF IInv, DescriptorInv
  <2>2. ASSUME NEW f \in Fds, table[f] # Nobody
        PROVE  \E j \in DOMAIN jobs' : Holds(jobs'[j], f)
    <3>1. CASE f = connfd
      BY <1>1, <3>1 DEF Holds
    <3>2. CASE f # connfd
      <4>1. PICK j \in DOMAIN jobs : Holds(jobs[j], f)
        BY <2>2, <3>2 DEF IInv, DescriptorInv
      <4>2. j \in DOMAIN jobs' /\ jobs'[j] = jobs[j]
        BY <1>1
      <4>3. QED
        BY <4>1, <4>2
    <3>3. QED
      BY <3>1, <3>2
  <2>3. QED
    BY <1>2, <2>1, <2>2 DEF IInv, DescriptorInv
<1>7. AnswerInv'
  <2>1. ASSUME NEW c \in Clients, answers[c] # 0
        PROVE  /\ answers[c] = 1
               /\ \E j \in DOMAIN jobs' :
                     jobs'[j].owner = c /\ jobs'[j].pc \in {"close", "done"}
    <3>1. PICK j \in DOMAIN jobs : jobs[j].owner = c /\ jobs[j].pc \in {"close", "done"}
      BY <2>1 DEF IInv, AnswerInv
    <3>2. j \in DOMAIN jobs' /\ jobs'[j] = jobs[j]
      BY <1>1
    <3>3. QED
      BY <2>1, <3>1, <3>2 DEF IInv, AnswerInv
  <2>2. \A j \in DOMAIN jobs' : jobs'[j].pc \in {"write", "close", "done"} =>
           seen[jobs'[j].owner] \in {Newline, "end"}
    BY <1>1 DEF IInv, AnswerInv
  <2>3. QED
    BY <1>2, <2>1, <2>2 DEF AnswerInv
<1>8. QED
  BY <1>4, <1>5, <1>6, <1>7 DEF IInv

\* What a step of job j that goes to `to' must show to keep the invariant: it
\* closes its descriptor at the end, it answers only when it goes to close, and
\* what its owner has sent it has seen.
LEMMA JobKeeps ==
    ASSUME IInv, NEW j, NEW from \in PCs \ {"done"}, NEW to \in PCs, JobGoto(j, from, to),
           UNCHANGED <<client, connfd, main_pc, died>>,
           \/ to # "done" /\ UNCHANGED table
           \/ to = "done" /\ table' = [table EXCEPT ![jobs[j].fd] = Nobody],
           from = "close" => to = "done",
           answers' \in [Clients -> Nat],
           \A c \in Clients : \/ answers'[c] = answers[c]
                              \/ c = jobs[j].owner /\ answers'[c] = 1 /\ to = "close",
           DOMAIN seen' = Clients,
           \A c \in Clients \ {jobs[j].owner} : seen'[c] = seen[c],
           to \in {"write", "close", "done"} => seen'[jobs[j].owner] \in {Newline, "end"}
    PROVE  IInv'
<1>1. /\ j \in DOMAIN jobs /\ jobs[j].pc = from
      /\ jobs' \in Seq(Jobs) /\ DOMAIN jobs' = DOMAIN jobs
      /\ \A k \in DOMAIN jobs :
            /\ jobs'[k].fd = jobs[k].fd /\ jobs'[k].owner = jobs[k].owner
            /\ jobs'[k].pc = IF k = j THEN to ELSE jobs[k].pc
  BY JobStep DEF IInv
<1>2. \A k \in DOMAIN jobs : jobs[k].fd \in Fds /\ jobs[k].owner \in Clients
  BY JobType DEF IInv
<1>3. jobs[j].pc # "done" /\ table[jobs[j].fd] = jobs[j].owner
  BY <1>1 DEF IInv, DescriptorInv
<1>4. TypeInv'
  BY <1>1, <1>2 DEF IInv, TypeInv
<1>5. \A f \in Fds : table'[f] = IF to = "done" /\ f = jobs[j].fd THEN Nobody ELSE table[f]
  BY <1>1, <1>2 DEF IInv, TypeInv
<1>6. main_pc = "dispatch" => connfd \in Fds /\ connfd # jobs[j].fd
  BY <1>1, <1>3 DEF IInv, OwnerInv
<1>7. OwnerInv'
  <2>1. \A k \in DOMAIN jobs' : client'[jobs'[k].owner] \notin {"backlog", "aborted"}
    BY <1>1 DEF IInv, OwnerInv, Accepted
  <2>2. \A k, l \in DOMAIN jobs' : jobs'[k].owner = jobs'[l].owner => k = l
    BY <1>1 DEF IInv, OwnerInv
  <2>3. main_pc = "dispatch" =>
           /\ table'[connfd] = table[connfd]
           /\ \A k \in DOMAIN jobs' : jobs'[k].owner # table[connfd]
    BY <1>1, <1>5, <1>6 DEF IInv, OwnerInv
  <2>4. QED
    BY <1>6, <2>1, <2>2, <2>3 DEF IInv, OwnerInv, Accepted
<1>8. DescriptorInv'
  <2>1. ASSUME NEW k \in DOMAIN jobs', jobs'[k].pc # "done"
        PROVE  table'[jobs'[k].fd] = jobs'[k].owner
    <3>1. CASE k = j
      BY <1>1, <1>2, <1>3, <1>5, <2>1, <3>1
    <3>2. CASE k # j
      <4>1. table[jobs[k].fd] = jobs[k].owner /\ jobs[k].owner # jobs[j].owner
        BY <1>1, <2>1, <3>2 DEF IInv, OwnerInv, DescriptorInv
      <4>2. jobs[k].fd # jobs[j].fd
        BY <1>3, <4>1
      <4>3. QED
        BY <1>1, <1>2, <1>5, <2>1, <4>1, <4>2
    <3>3. QED
      BY <3>1, <3>2
  <2>2. ASSUME NEW f \in Fds, table'[f] # Nobody
        PROVE  \/ main_pc = "dispatch" /\ f = connfd
               \/ \E k \in DOMAIN jobs' : Holds(jobs'[k], f)
    <3>1. table[f] # Nobody /\ (to = "done" => f # jobs[j].fd)
      BY <1>5, <2>2
    <3>2. CASE main_pc = "dispatch" /\ f = connfd
      BY <3>2
    <3>3. CASE \E k \in DOMAIN jobs : Holds(jobs[k], f)
      BY <1>1, <3>1, <3>3 DEF Holds
    <3>4. QED
      BY <3>1, <3>2, <3>3 DEF IInv, DescriptorInv
  <2>3. QED
    BY <2>1, <2>2 DEF IInv, DescriptorInv
<1>9. AnswerInv'
  <2>1. ASSUME NEW c \in Clients, answers'[c] # 0
        PROVE  /\ answers'[c] = 1
               /\ \E k \in DOMAIN jobs' :
                     jobs'[k].owner = c /\ jobs'[k].pc \in {"close", "done"}
    <3>1. CASE c = jobs[j].owner /\ answers'[c] = 1 /\ to = "close"
      BY <1>1, <3>1
    <3>2. CASE answers'[c] = answers[c]
      <4>1. PICK k \in DOMAIN jobs : jobs[k].owner = c /\ jobs[k].pc \in {"close", "done"}
        BY <2>1, <3>2 DEF IInv, AnswerInv
      <4>2. jobs'[k].pc \in {"close", "done"}
        BY <1>1, <4>1
      <4>3. QED
        BY <1>1, <2>1, <3>2, <4>1, <4>2 DEF IInv, AnswerInv
    <3>3. QED
      BY <3>1, <3>2
  <2>2. ASSUME NEW k \in DOMAIN jobs', jobs'[k].pc \in {"write", "close", "done"}
        PROVE  seen'[jobs'[k].owner] \in {Newline, "end"}
    <3>1. CASE k = j
      BY <1>1, <2>2, <3>1
    <3>2. CASE k # j
      <4>1. jobs[k].owner \in Clients \ {jobs[j].owner}
        BY <1>1, <1>2, <3>2 DEF IInv, OwnerInv
      <4>2. seen[jobs[k].owner] \in {Newline, "end"}
        BY <1>1, <2>2, <3>2 DEF IInv, AnswerInv
      <4>3. QED
        BY <1>1, <4>1, <4>2
    <3>3. QED
      BY <3>1, <3>2
  <2>3. QED
    BY <2>1, <2>2 DEF AnswerInv
<1>10. QED
  BY <1>4, <1>7, <1>8, <1>9 DEF IInv

\* A job that is not over works on its owner's connection.
LEMMA OwnPeer ==
    ASSUME IInv, NEW j \in DOMAIN jobs, jobs[j].pc # "done"
    PROVE  Peer(j) = jobs[j].owner /\ Peer(j) \in Clients /\ Peer(j) # Nobody
BY JobType, NobodyAssumption DEF IInv, DescriptorInv, Peer, Argument

LEMMA HandlerStep == ASSUME IInv, NEW j, Handler(j) PROVE IInv'
<1> USE DEF mainvars, clientvars, history, PCs
<1>1. TypeInv /\ answers \in [Clients -> Nat] /\ DOMAIN seen = Clients
  BY DEF IInv, TypeInv
<1>2. CASE Start(j)
  <2>1. /\ JobGoto(j, "queued", "read")
        /\ UNCHANGED <<client, connfd, main_pc, died, table, seen, answers>>
    BY <1>2 DEF Start
  <2>2. QED
    BY <1>1, <2>1, JobKeeps
<1>3. CASE Read(j)
  <2>1. j \in DOMAIN jobs /\ jobs[j].pc = "read"
    BY <1>3 DEF Read
  <2>2. Peer(j) = jobs[j].owner /\ jobs[j].owner \in Clients
    BY <2>1, OwnPeer
  <2>3. PICK k \in 1 .. Len(inbox[Peer(j)]) :
          LET chunk == SubSeq(inbox[Peer(j)], 1, k)
          IN /\ seen' = [seen EXCEPT ![Peer(j)] = Last(chunk)]
             /\ JobGoto(j, "read", IF EndsMessage(chunk) THEN "write" ELSE "read")
    BY <1>3 DEF Read
  <2> DEFINE chunk == SubSeq(inbox[Peer(j)], 1, k)
             to == IF EndsMessage(chunk) THEN "write" ELSE "read"
  <2>4. seen' = [seen EXCEPT ![jobs[j].owner] = Last(chunk)] /\ JobGoto(j, "read", to)
    BY <2>2, <2>3
  <2>5. to \in {"read", "write"} /\ (to = "write" => Last(chunk) = Newline)
    BY DEF EndsMessage
  <2>6. UNCHANGED <<client, connfd, main_pc, died, table, answers>>
    BY <1>3 DEF Read
  <2> HIDE DEF chunk, to
  <2>7. /\ DOMAIN seen' = Clients
        /\ \A c \in Clients \ {jobs[j].owner} : seen'[c] = seen[c]
        /\ seen'[jobs[j].owner] = Last(chunk)
    BY <1>1, <2>2, <2>4
  <2>8. to \in PCs /\ to # "done" /\ "read" \in PCs \ {"done"}
    BY <2>5
  <2>9. to \in {"write", "close", "done"} => seen'[jobs[j].owner] \in {Newline, "end"}
    BY <2>5, <2>7
  <2>10. answers' \in [Clients -> Nat] /\ \A c \in Clients : answers'[c] = answers[c]
    BY <1>1, <2>6
  <2> HIDE DEF PCs
  <2>11. QED
    BY <2>4, <2>6, <2>7, <2>8, <2>9, <2>10, JobKeeps
<1>4. CASE ReadEnd(j)
  <2>1. /\ JobGoto(j, "read", "write")
        /\ UNCHANGED <<client, connfd, main_pc, died, table, answers>>
    BY <1>4 DEF ReadEnd
  <2>2. Peer(j) = jobs[j].owner /\ jobs[j].owner \in Clients
    BY <2>1, OwnPeer DEF JobGoto
  <2>3. /\ DOMAIN seen' = Clients
        /\ \A c \in Clients \ {jobs[j].owner} : seen'[c] = seen[c]
        /\ seen'[jobs[j].owner] = "end"
    BY <1>1, <1>4, <2>2 DEF ReadEnd
  <2>4. QED
    BY <1>1, <2>1, <2>3, JobKeeps
<1>5. CASE ReadFails(j) \/ WriteDies(j)
  <2>1. UNCHANGED <<table, jobs, connfd, main_pc, seen, answers, client>>
    BY <1>5 DEF ReadFails, WriteDies
  <2>2. died' # "bad descriptor"
    <3>1. j \in DOMAIN jobs /\ jobs[j].pc \in {"read", "write"}
      BY <1>5 DEF ReadFails, WriteDies
    <3>2. Peer(j) # Nobody
      BY <3>1, OwnPeer
    <3>3. QED
      BY <1>5, <3>2 DEF ReadFails, WriteDies
  <2>3. QED
    BY <1>1, <2>1, <2>2, Aside DEF TypeInv, Accepted
<1>6. CASE Write(j)
  <2>1. /\ JobGoto(j, "write", "close")
        /\ UNCHANGED <<client, connfd, main_pc, died, table, seen>>
    BY <1>6 DEF Write
  <2>2. j \in DOMAIN jobs /\ jobs[j].pc = "write"
    BY <2>1 DEF JobGoto
  <2>3. Peer(j) = jobs[j].owner /\ jobs[j].owner \in Clients
    BY <2>2, OwnPeer
  <2>4. answers[jobs[j].owner] = 0
    <3>1. \A k \in DOMAIN jobs : jobs[k].owner = jobs[j].owner => k = j
      BY <2>2 DEF IInv, OwnerInv
    <3>2. QED
      BY <2>2, <2>3, <3>1 DEF IInv, AnswerInv
  <2>5. answers' \in [Clients -> Nat]
    BY <1>1, <1>6 DEF Write
  <2>6. \A c \in Clients : answers'[c] = answers[c] \/ (c = jobs[j].owner /\ answers'[c] = 1)
    BY <1>6, <2>3, <2>4 DEF Write
  <2>7. seen[jobs[j].owner] \in {Newline, "end"}
    BY <2>2 DEF IInv, AnswerInv
  <2>8. QED
    BY <1>1, <2>1, <2>5, <2>6, <2>7, JobKeeps
<1>7. CASE CloseFd(j)
  <2>1. /\ JobGoto(j, "close", "done")
        /\ UNCHANGED <<client, connfd, main_pc, died, seen, answers>>
        /\ table' = [table EXCEPT ![jobs[j].fd] = Nobody]
    BY <1>7 DEF CloseFd, Argument
  <2>2. seen[jobs[j].owner] \in {Newline, "end"}
    BY <2>1 DEF JobGoto, IInv, AnswerInv
  <2>3. QED
    BY <1>1, <2>1, <2>2, JobKeeps
<1>8. QED
  BY <1>2, <1>3, <1>4, <1>5, <1>6, <1>7 DEF Handler

LEMMA NextIInv == IInv /\ [Next]_vars => IInv'
<1>1. ASSUME IInv, UNCHANGED vars PROVE IInv'
  <2>1. UNCHANGED <<client, table, jobs, connfd, main_pc, seen, answers, died>>
    BY <1>1 DEF vars
  <2>2. QED
    BY <1>1, <2>1, Aside DEF IInv, TypeInv, DescriptorInv, Accepted
<1>2. QED
  BY <1>1, ClientStep, AcceptStep, MainStep, DispatchKeeps, HandlerStep
  DEF Next, Main, Stopped

-----------------------------------------------------------------------------
(* How many descriptors are open at once *)

Pooled == server = "pool" =>
    Cardinality(Queued) <= QueueSize /\ Cardinality(InPool) <= PoolSize

\* The sequential server is done with all connections but the one it waits for.
OneAtATime == server = "sequential" =>
    \A j \in DOMAIN jobs : jobs[j].pc # "done" =>
        main_pc = "wait" /\ j = Len(jobs) /\ jobs[j].pc # "queued"

CapacityInv ==
    /\ server \in Servers
    /\ Pooled
    /\ OneAtATime
    /\ server # "threaded" => \A j \in DOMAIN jobs : jobs[j].pc # "no thread"
    /\ main_pc = "wait" => server = "sequential"
    /\ died = "accept" => FreeFds = {} /\ main_pc = "accept"

LEMMA InitCapacity == Init => CapacityInv
<1> SUFFICES ASSUME Init PROVE CapacityInv
  OBVIOUS
<1>1. DOMAIN jobs = {}
  BY DEF Init
<1>2. Queued = {} /\ InPool = {}
  BY <1>1 DEF Queued, InPool
<1>3. Pooled
  BY <1>2, FS_EmptySet, PoolAssumption DEF Pooled
<1>4. QED
  BY <1>1, <1>3 DEF CapacityInv, OneAtATime, Init

LEMMA PoolFinite ==
    ASSUME TypeInv
    PROVE  /\ IsFiniteSet(Queued) /\ Cardinality(Queued) \in Nat
           /\ IsFiniteSet(InPool) /\ Cardinality(InPool) \in Nat
<1>1. DOMAIN jobs = 1 .. Len(jobs) /\ Len(jobs) \in Nat
  BY LenProperties DEF TypeInv
<1>2. IsFiniteSet(DOMAIN jobs)
  BY <1>1, FS_Interval
<1>3. Queued \in SUBSET DOMAIN jobs /\ InPool \in SUBSET DOMAIN jobs
  BY DEF Queued, InPool
<1>4. IsFiniteSet(Queued) /\ IsFiniteSet(InPool)
  BY <1>2, <1>3, FS_Subset
<1>5. QED
  BY <1>4, FS_CardinalityType

\* Facts of arithmetic, without the sets and sequences they are used for
LEMMA AtMost ==
    ASSUME NEW a \in Nat, NEW b \in Nat, NEW n \in Nat
    PROVE  (a <= b /\ b <= n => a <= n) /\ (a <= b + 1 /\ b < n => a <= n)
OBVIOUS

LEMMA SameLength == ASSUME NEW m \in Nat, NEW n \in Nat, 1 .. m = 1 .. n PROVE m = n
OBVIOUS

\* A larger set of either kind has no more than one job more.
LEMMA AtMostOneMore ==
    ASSUME NEW S, IsFiniteSet(S), NEW T, NEW x, T \subseteq S \cup {x}
    PROVE  Cardinality(T) <= Cardinality(S) + 1
<1> DEFINE U == S \cup {x}
<1>1. /\ IsFiniteSet(U) /\ Cardinality(S) \in Nat
      /\ Cardinality(U) = Cardinality(S) \/ Cardinality(U) = Cardinality(S) + 1
  BY FS_AddElement, FS_CardinalityType
<1>2. T \in SUBSET U
  OBVIOUS
<1> HIDE DEF U
<1>3. Cardinality(T) <= Cardinality(U) /\ IsFiniteSet(T)
  BY <1>1, <1>2, FS_Subset
<1>4. Cardinality(T) \in Nat
  BY <1>3, FS_CardinalityType
<1>5. QED
  BY <1>1, <1>3, <1>4

LEMMA JobCapacity ==
    ASSUME TypeInv, CapacityInv,
           NEW j, NEW from \in PCs \ {"done", "no thread"},
           NEW to \in PCs \ {"queued", "no thread"}, JobGoto(j, from, to),
           UNCHANGED <<server, main_pc, died>>,
           from = "queued" => Cardinality(InPool) < PoolSize
    PROVE  CapacityInv'
<1>1. /\ j \in DOMAIN jobs /\ jobs[j].pc = from
      /\ jobs' \in Seq(Jobs) /\ DOMAIN jobs' = DOMAIN jobs
      /\ \A k \in DOMAIN jobs : jobs'[k].pc = IF k = j THEN to ELSE jobs[k].pc
  BY JobStep
<1>2. Queued' \subseteq Queued
  BY <1>1 DEF Queued
<1>3. InPool' \subseteq InPool \cup {j} /\ (from # "queued" => InPool' \subseteq InPool)
  BY <1>1 DEF InPool, PCs
<1>4. Pooled'
  <2> SUFFICES ASSUME server = "pool"
               PROVE  Cardinality(Queued') <= QueueSize /\ Cardinality(InPool') <= PoolSize
    BY DEF Pooled
  <2>1. Cardinality(Queued) <= QueueSize /\ Cardinality(InPool) <= PoolSize
    BY DEF CapacityInv, Pooled
  <2>2. IsFiniteSet(Queued) /\ IsFiniteSet(InPool)
    BY PoolFinite
  <2>3. /\ Cardinality(Queued') <= Cardinality(Queued) /\ Cardinality(Queued') \in Nat
        /\ Cardinality(Queued) \in Nat
    BY <1>2, <2>2, FS_Subset, FS_CardinalityType
  <2> HIDE DEF Queued, InPool
  <2>4. Cardinality(Queued') <= QueueSize
    BY <2>1, <2>3, AtMost, PoolAssumption
  <2>5. IsFiniteSet(InPool \cup {j})
    BY <2>2, FS_AddElement
  <2>6. IsFiniteSet(InPool')
    BY <1>3, <2>5, FS_Subset
  <2>7. Cardinality(InPool) \in Nat /\ Cardinality(InPool') \in Nat
    BY <2>2, <2>6, FS_CardinalityType
  <2>8. CASE from = "queued"
    <3>1. Cardinality(InPool) < PoolSize
      BY <2>8
    <3>2. Cardinality(InPool') <= Cardinality(InPool) + 1
      BY <1>3, <2>2, AtMostOneMore
    <3>3. QED
      BY <2>4, <2>7, <3>1, <3>2, AtMost, PoolAssumption
  <2>9. CASE from # "queued"
    <3>1. Cardinality(InPool') <= Cardinality(InPool)
      BY <1>3, <2>2, <2>9, FS_Subset
    <3>2. QED
      BY <2>1, <2>4, <2>7, <3>1, AtMost, PoolAssumption
  <2>10. QED
    BY <2>8, <2>9
<1>5. Len(jobs') = Len(jobs)
  <2>1. jobs \in Seq(Jobs)
    BY DEF TypeInv
  <2>2. DOMAIN jobs = 1 .. Len(jobs) /\ DOMAIN jobs' = 1 .. Len(jobs')
        /\ Len(jobs) \in Nat /\ Len(jobs') \in Nat
    BY <1>1, <2>1, LenProperties
  <2>3. 1 .. Len(jobs') = 1 .. Len(jobs)
    BY <1>1, <2>2
  <2>4. QED
    BY <2>2, <2>3, SameLength
<1>6. OneAtATime'
  BY <1>1, <1>5 DEF CapacityInv, OneAtATime
<1>7. died' # "accept"
  BY DEF JobGoto, Running
<1>8. QED
  BY <1>1, <1>4, <1>6, <1>7 DEF CapacityInv

LEMMA DispatchCapacity == ASSUME IInv, CapacityInv, Dispatch PROVE CapacityInv'
<1> DEFINE new == Len(jobs) + 1
<1>1. /\ main_pc = "dispatch" /\ main_pc' \in {"accept", "wait"}
      /\ jobs' \in Seq(Jobs) /\ DOMAIN jobs' = DOMAIN jobs \cup {new}
      /\ new \notin DOMAIN jobs
      /\ \A k \in DOMAIN jobs : jobs'[k] = jobs[k]
      /\ jobs'[new].pc \in {"queued", "read", "no thread"}
  BY DispatchStep DEF IInv
<1>2. UNCHANGED <<server, died, table>> /\ died # "accept"
  BY DEF Dispatch, Running
<1>3. Len(jobs') = new
  <2>1. DOMAIN jobs' = 1 .. Len(jobs') /\ Len(jobs') \in Nat
    BY <1>1, LenProperties
  <2>2. DOMAIN jobs = 1 .. Len(jobs) /\ Len(jobs) \in Nat
    BY LenProperties DEF IInv, TypeInv
  <2>3. 1 .. Len(jobs') = 1 .. new
    BY <1>1, <2>1, <2>2, Successor
  <2>4. new \in Nat
    BY <2>2
  <2> HIDE DEF new
  <2>5. QED
    BY <2>1, <2>3, <2>4, SameLength
<1>4. CASE DispatchInline
  <2>1. server = "sequential" /\ main_pc' = "wait" /\ jobs' = Append(jobs, Job("read"))
    BY <1>4 DEF DispatchInline
  <2>2. jobs'[new].pc = "read"
    BY <2>1, AppendProperties DEF Job, IInv, TypeInv
  <2> HIDE DEF new
  <2>3. \A k \in DOMAIN jobs : jobs[k].pc = "done"
    BY <1>1, <2>1 DEF CapacityInv, OneAtATime
  <2>4. QED
    BY <1>1, <1>2, <1>3, <2>1, <2>2, <2>3 DEF CapacityInv, OneAtATime, Pooled
<1>5. CASE DispatchThread
  <2>1. server = "threaded" /\ main_pc' = "accept"
    BY <1>5 DEF DispatchThread
  <2>2. QED
    BY <1>1, <1>2, <2>1 DEF CapacityInv, OneAtATime, Pooled
<1>6. CASE DispatchQueue
  <2>1. /\ server = "pool" /\ main_pc' = "accept" /\ jobs' = Append(jobs, Job("queued"))
        /\ Cardinality(Queued) < QueueSize
    BY <1>6 DEF DispatchQueue, QueueRoom
  <2>2. jobs'[new].pc = "queued"
    BY <2>1, AppendProperties DEF Job, IInv, TypeInv
  <2> HIDE DEF new
  <2>3. Queued' \subseteq Queued \cup {new} /\ InPool' = InPool
    BY <1>1, <2>2 DEF Queued, InPool
  <2>4. IsFiniteSet(Queued) /\ Cardinality(Queued) \in Nat
    BY PoolFinite DEF IInv
  <2>5. IsFiniteSet(Queued')
    BY <2>3, <2>4, FS_AddElement, FS_Subset
  <2>6. Cardinality(Queued') \in Nat /\ Cardinality(Queued') <= Cardinality(Queued) + 1
    BY <2>3, <2>4, <2>5, FS_CardinalityType, AtMostOneMore
  <2>7. Pooled'
    <3>1. Cardinality(Queued') <= QueueSize
      BY <2>1, <2>4, <2>6, PoolAssumption
    <3>2. Cardinality(InPool') <= PoolSize
      BY <2>1, <2>3 DEF CapacityInv, Pooled
    <3>3. QED
      BY <3>1, <3>2 DEF Pooled
  <2>8. \A k \in DOMAIN jobs' : jobs'[k].pc # "no thread"
    BY <1>1, <2>1, <2>2 DEF CapacityInv
  <2>9. QED
    BY <1>2, <2>1, <2>7, <2>8 DEF CapacityInv, OneAtATime
<1>7. QED
  BY <1>4, <1>5, <1>6 DEF Dispatch

\* A step that leaves the jobs alone, and main where it is unless it runs: the
\* sequential server may return when the last job is over.
LEMMA MainCapacity ==
    ASSUME IInv, CapacityInv, Accept \/ AcceptAborted \/ AcceptFails \/ Return
    PROVE  CapacityInv'
<1>1. UNCHANGED <<jobs, server>>
  BY DEF Accept, AcceptAborted, AcceptFails, Return, mainvars
<1>2. Pooled'
  BY <1>1 DEF CapacityInv, Pooled, Queued, InPool
<1>3. OneAtATime'
  <2>1. CASE main_pc = "accept"
    <3>1. server = "sequential" => \A j \in DOMAIN jobs : jobs[j].pc = "done"
      BY <2>1 DEF CapacityInv, OneAtATime
    <3>2. QED
      BY <1>1, <3>1 DEF OneAtATime
  <2>2. CASE Return
    <3>1. Last(jobs).pc = "done"
      BY <2>2 DEF Return
    <3>2. jobs[Len(jobs)].pc = "done"
      BY <3>1 DEF Last
    <3>3. server = "sequential" => \A j \in DOMAIN jobs : jobs[j].pc = "done"
      BY <3>2 DEF CapacityInv, OneAtATime
    <3>4. QED
      BY <1>1, <3>3 DEF OneAtATime
  <2>3. QED
    BY <2>1, <2>2 DEF Accept, AcceptAborted, AcceptFails
<1>4. main_pc' # "wait" \/ main_pc' = main_pc
  BY DEF Accept, AcceptAborted, AcceptFails, Return, mainvars
<1>5. died' = "accept" => (FreeFds = {})' /\ main_pc' = "accept"
  BY DEF Accept, AcceptAborted, AcceptFails, Return, mainvars, Running, FreeFds
<1>6. QED
  BY <1>1, <1>2, <1>3, <1>4, <1>5 DEF CapacityInv

LEMMA CapacityAside ==
    ASSUME CapacityInv, UNCHANGED <<server, jobs, main_pc>>,
           died' # "accept" \/ UNCHANGED <<died, table>>
    PROVE  CapacityInv'
BY DEF CapacityInv, Pooled, OneAtATime, Queued, InPool, FreeFds

LEMMA HandlerCapacity == ASSUME IInv, CapacityInv, NEW j, Handler(j) PROVE CapacityInv'
<1> USE DEF mainvars, clientvars, history
<1>1. TypeInv
  BY DEF IInv
<1>2. CASE Start(j)
  BY <1>1, <1>2, JobCapacity DEF Start, PCs
<1>3. CASE Read(j)
  <2>1. PICK k \in 1 .. Len(inbox[Peer(j)]) :
           LET chunk == SubSeq(inbox[Peer(j)], 1, k)
           IN  JobGoto(j, "read", IF EndsMessage(chunk) THEN "write" ELSE "read")
    BY <1>3 DEF Read
  <2>2. PICK to \in {"read", "write"} : JobGoto(j, "read", to)
    BY <2>1
  <2>3. UNCHANGED <<server, main_pc, died>>
    BY <1>3 DEF Read
  <2>4. QED
    BY <1>1, <2>2, <2>3, JobCapacity DEF PCs
<1>4. CASE ReadEnd(j)
  BY <1>1, <1>4, JobCapacity DEF ReadEnd, PCs
<1>5. CASE ReadFails(j) \/ WriteDies(j)
  BY <1>5, CapacityAside DEF ReadFails, WriteDies
<1>6. CASE Write(j)
  BY <1>1, <1>6, JobCapacity DEF Write, PCs
<1>7. CASE CloseFd(j)
  BY <1>1, <1>7, JobCapacity DEF CloseFd, PCs
<1>8. QED
  BY <1>2, <1>3, <1>4, <1>5, <1>6, <1>7 DEF Handler

LEMMA NextCapacity == IInv /\ CapacityInv /\ [Next]_vars => CapacityInv'
<1> SUFFICES ASSUME IInv, CapacityInv, [Next]_vars PROVE CapacityInv'
  OBVIOUS
<1>1. CASE UNCHANGED vars
  BY <1>1, CapacityAside DEF vars
<1>2. CASE \E c \in Clients : Send(c) \/ Close(c) \/ Reset(c)
  BY <1>2, CapacityAside DEF Send, Close, Reset, mainvars
<1>3. QED
  BY <1>1, <1>2, MainCapacity, DispatchCapacity, HandlerCapacity DEF Next, Main, Stopped

\* The open descriptors that main does not hold: no more than the jobs that are
\* not over, since no two of these have the same.
JobFds == {f \in Fds : \E j \in DOMAIN jobs : Holds(jobs[j], f)}

LEMMA JobsHoldTheirOwn ==
    ASSUME IInv, NEW S, IsFiniteSet(S),
           \A j \in DOMAIN jobs : jobs[j].pc # "done" => j \in S
    PROVE  IsFiniteSet(JobFds) /\ Cardinality(JobFds) <= Cardinality(S)
<1> DEFINE holder == [f \in JobFds |-> CHOOSE j \in DOMAIN jobs : Holds(jobs[j], f)]
<1>1. \A f \in JobFds : holder[f] \in DOMAIN jobs /\ Holds(jobs[holder[f]], f)
  BY DEF JobFds
<1>2. holder \in [JobFds -> S]
  BY <1>1 DEF Holds
<1>3. \A f, g \in JobFds : holder[f] = holder[g] => f = g
  BY <1>1 DEF Holds
<1> HIDE DEF holder
<1>4. holder \in Injection(JobFds, S)
  BY <1>2, <1>3 DEF Injection, IsInjective
<1>5. QED
  BY <1>4, FS_Injection

LEMMA OpenFds ==
    ASSUME IInv, CapacityInv, server # "threaded"
    PROVE  /\ IsFiniteSet(Fds \ FreeFds)
           /\ Cardinality(Fds \ FreeFds) <= Enough
           /\ main_pc = "accept" => Cardinality(Fds \ FreeFds) < Enough
<1>1. Fds \ FreeFds \subseteq JobFds \cup {connfd}
  BY DEF FreeFds, JobFds, IInv, DescriptorInv
<1>2. main_pc # "dispatch" => Fds \ FreeFds \subseteq JobFds
  BY DEF FreeFds, JobFds, IInv, DescriptorInv
<1>3. server = "sequential" \/ server = "pool"
  BY ServersAssumption DEF CapacityInv
<1>4. CASE server = "sequential"
  <2>1. \A j \in DOMAIN jobs : jobs[j].pc # "done" => main_pc = "wait" /\ j = Len(jobs)
    BY <1>4 DEF CapacityInv, OneAtATime
  <2>2. JobFds \subseteq {jobs[Len(jobs)].fd} /\ (main_pc # "wait" => JobFds = {})
    BY <2>1 DEF JobFds, Holds
  <2>3. main_pc = "accept" => Fds \ FreeFds = {}
    BY <1>2, <2>2
  <2>4. \E x : Fds \ FreeFds \subseteq {x}
    BY <1>1, <1>2, <2>2
  <2>5. IsFiniteSet(Fds \ FreeFds) /\ Cardinality(Fds \ FreeFds) <= 1
    <3>1. PICK x : Fds \ FreeFds \in SUBSET {x}
      BY <2>4
    <3>2. IsFiniteSet({x}) /\ Cardinality({x}) = 1
      BY FS_Singleton
    <3>3. QED
      BY <3>1, <3>2, FS_Subset
  <2>6. QED
    BY <1>4, <2>3, <2>5, FS_EmptySet DEF Enough
<1>5. CASE server = "pool"
  <2>1. /\ IsFiniteSet(Queued) /\ Cardinality(Queued) \in Nat
        /\ IsFiniteSet(InPool) /\ Cardinality(InPool) \in Nat
    BY PoolFinite DEF IInv
  <2>2. Cardinality(Queued) <= QueueSize /\ Cardinality(InPool) <= PoolSize
    BY <1>5 DEF CapacityInv, Pooled
  <2>3. IsFiniteSet(Queued \cup InPool)
        /\ Cardinality(Queued \cup InPool) <= QueueSize + PoolSize
    <3>1. IsFiniteSet(Queued \cup InPool)
          /\ Cardinality(Queued \cup InPool) =
                Cardinality(Queued) + Cardinality(InPool) - Cardinality(Queued \cap InPool)
      BY <2>1, FS_Union
    <3>2. Queued \cap InPool \in SUBSET Queued
      OBVIOUS
    <3>3. IsFiniteSet(Queued \cap InPool)
      BY <2>1, <3>2, FS_Subset
    <3>4. Cardinality(Queued \cap InPool) \in Nat
      BY <3>3, FS_CardinalityType
    <3> HIDE DEF Queued, InPool
    <3>5. QED
      BY <2>1, <2>2, <3>1, <3>4, PoolAssumption
  <2>4. \A j \in DOMAIN jobs : jobs[j].pc # "done" => j \in Queued \cup InPool
    BY <1>5, JobType DEF Queued, InPool, PCs, CapacityInv, IInv
  <2>5. IsFiniteSet(JobFds) /\ Cardinality(JobFds) <= Cardinality(Queued \cup InPool)
    BY <2>3, <2>4, JobsHoldTheirOwn
  <2>6. Cardinality(JobFds) \in Nat /\ Cardinality(JobFds) <= QueueSize + PoolSize
    BY <2>3, <2>5, FS_CardinalityType, PoolAssumption
  <2>7. IsFiniteSet(Fds \ FreeFds)
    BY <1>1, <2>5, FS_AddElement, FS_Subset
  <2>8. Cardinality(Fds \ FreeFds) \in Nat
        /\ Cardinality(Fds \ FreeFds) <= Cardinality(JobFds) + 1
    BY <1>1, <2>5, <2>7, AtMostOneMore, FS_CardinalityType
  <2>9. main_pc = "accept" => Cardinality(Fds \ FreeFds) <= Cardinality(JobFds)
    BY <1>2, <2>5, FS_Subset
  <2>10. Enough = PoolSize + QueueSize + 1
    BY <1>5 DEF Enough
  <2>11. QED
    BY <2>6, <2>7, <2>8, <2>9, <2>10, PoolAssumption
<1>6. QED
  BY <1>3, <1>4, <1>5

-----------------------------------------------------------------------------
\* A job works on the connection it was created for until it closes it, and no
\* other job does, in each of the servers (threadedsvr.c:40-48,
\* threadpoolsvr.c:46-54, sequential.c:37-41).
THEOREM OwnsConnection == Spec => []OwnConnection
<1>1. IInv => OwnConnection
  <2> SUFFICES ASSUME IInv PROVE OwnConnection
    OBVIOUS
  <2>1. \A j \in DOMAIN jobs : Live(jobs[j]) => jobs[j].pc # "done"
    BY DEF Live
  <2>2. \A j \in DOMAIN jobs : Live(jobs[j]) => table[jobs[j].fd] = jobs[j].owner
    BY <2>1 DEF IInv, DescriptorInv
  <2>3. \A j, k \in DOMAIN jobs :
           Live(jobs[j]) /\ Live(jobs[k]) /\ jobs[j].fd = jobs[k].fd => j = k
    BY <2>2 DEF IInv, OwnerInv
  <2>4. QED
    BY <2>2, <2>3 DEF OwnConnection, Argument, IInv, DescriptorInv
<1>2. QED
  BY InitIInv, NextIInv, <1>1, PTL DEF Spec

\* Every open descriptor is held by a job that will close it, by main between
\* accept and dispatch, or by a thread that was never created.
THEOREM LeaksNoDescriptor == Spec => []NoDescriptorLeak
<1>1. IInv => NoDescriptorLeak
  <2> SUFFICES ASSUME IInv PROVE NoDescriptorLeak
    OBVIOUS
  <2> DEFINE owners == {j \in DOMAIN jobs : Live(jobs[j]) \/ jobs[j].pc = "no thread"}
             mains == IF main_pc = "dispatch" THEN {connfd} ELSE {}
  <2>1. \A j \in DOMAIN jobs :
           jobs[j].fd \in Fds /\ jobs[j].pc \in PCs /\ jobs[j].owner \in Clients
    BY JobType DEF IInv
  <2>2. owners = {j \in DOMAIN jobs : jobs[j].pc # "done"}
    BY <2>1 DEF Live, PCs
  <2> HIDE DEF owners
  <2>3. ASSUME NEW f \in Fds \ FreeFds PROVE f \in {jobs[j].fd : j \in owners} \cup mains
    BY <2>2 DEF FreeFds, IInv, DescriptorInv, Holds
  <2>4. ASSUME NEW j \in owners PROVE jobs[j].fd \in Fds \ FreeFds
    BY <2>1, <2>2, NobodyAssumption DEF FreeFds, IInv, DescriptorInv
  <2>5. mains \subseteq Fds \ FreeFds
    BY NobodyAssumption DEF FreeFds, IInv, OwnerInv
  <2>6. Fds \ FreeFds = {jobs[j].fd : j \in owners} \cup mains
    BY <2>3, <2>4, <2>5
  <2>7. QED
    BY <2>6 DEF NoDescriptorLeak, owners
<1>2. QED
  BY InitIInv, NextIInv, <1>1, PTL DEF Spec

\* A client gets one answer, after its message or the end of its stream
\* (sequential.c:44-73 and its copies).
THEOREM AnswersAfterMessage == Spec => []AnsweredAfterMessage
<1>1. IInv => AnsweredAfterMessage
  BY DEF IInv, AnswerInv, AnsweredAfterMessage
<1>2. QED
  BY InitIInv, NextIInv, <1>1, PTL DEF Spec

\* The sequential server has one descriptor open at most, and the pool server one
\* for each worker, each place in the queue and main, so that accept never finds
\* the table full if it has as many (threadpoolsvr.c:44-54, sequential.c:31-41):
\* whatever the sizes, and however the clients send, close, stall and reset.
THEOREM SuffersNoShortage == Spec => []NeverOutOfDescriptors
<1>1. IInv /\ CapacityInv => NeverOutOfDescriptors
  <2> SUFFICES ASSUME IInv, CapacityInv, server # "threaded"
               PROVE  /\ Cardinality(Fds \ FreeFds) <= Enough
                      /\ Cardinality(Fds) >= Enough => died # "accept"
    BY DEF NeverOutOfDescriptors
  <2>1. Cardinality(Fds \ FreeFds) <= Enough
    BY OpenFds
  <2>2. ASSUME died = "accept" PROVE ~(Cardinality(Fds) >= Enough)
    <3>1. Fds \ FreeFds = Fds /\ main_pc = "accept"
      BY <2>2 DEF CapacityInv
    <3>2. Cardinality(Fds) < Enough /\ IsFiniteSet(Fds)
      BY <3>1, OpenFds
    <3>3. Enough \in Nat /\ Cardinality(Fds) \in Nat
      BY <3>2, PoolAssumption, FS_CardinalityType DEF Enough
    <3>4. QED
      BY <3>2, <3>3
  <2>3. QED
    BY <2>1, <2>2
<1>2. QED
  BY InitIInv, NextIInv, InitCapacity, NextCapacity, <1>1, PTL DEF Spec
=============================================================================
