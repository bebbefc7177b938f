# TLA+ models of cpsc3020-f26

The repository holds the programs of an operating systems course: about 3800 lines of
C in small programs that each show one mechanism (threads, semaphores, condition
variables, sockets, pipes, processes, memory), one library (the shell parser of
`project1/parser`) and the interfaces and tests of two assignments whose
implementations are not in the repository (`project2`, `project3`).  This directory
models the programs in which the order of events, or the number of cases, is beyond
what a test reaches.

## Inventory

| component | state | operations | interaction | hard behaviour |
|---|---|---|---|---|
| `threads/sem.c` | circular array, `front`, `back`, two semaphores, mutex, flag `done` | produce, consume, shut down | 30 consumers, a producer and main share everything | interleaving; the unlocked flag at shutdown; tokens that stand for no message |
| `threads/spinlocks.c` | one bool | `test_and_set`, `lock`, `unlock` | any threads, no caller in the repository | load and store are two accesses |
| `threads/conditionex.c` | `workertask`, lock, condition variable | `produce_work`, `worker_func` | main hands names to a worker | lost and spurious wakeups, signal after unlock |
| `project1/parser` | token list, buffer, command, pipeline | `pipeline_parse`, `pipeline_free` | sequential; `tokenize` feeds `pipeline_parse`, which calls `redirect_set` | allocation failures on every path, ownership, array bounds, malformed input |
| `concurrentservers` | descriptors, argument blocks, queue | accept, dispatch, `handle_connection` | clients, main, and a thread per connection or a pool | descriptor reuse, stalled and reset clients, bounds of pool, queue and table |
| `project2` | a bounded queue and its threads (interface only) | create, submit, wait, shutdown | `threadpoolsvr.c` and `test.c` are its clients | completion seen through `wq_wait` |
| `project2/test.c` | a counter, arguments on the heap | submit, wait, judge | main and the queue's workers | the counter is read without the lock |
| `threads/pthreadex.c`, `pthreadex3.c` | a shared sum, or one per thread | add up, join | two threads | wrap at 2^64, lost additions |
| `threads/pthreadex2.c` | a number on the heap for each thread | create, cancel, join, free | main and three threads | a request to end that comes before, in or after the slow loop |
| `threads/barriers.c` | a barrier | wait | main and two workers | five rounds against loops without end |
| `threads/readwritelockex.c` | a counter, a reader-writer lock | read, write | five readers, one writer | a writer that never gets its turn |
| `ipc/sockets_intro`: TCP | the server's connection and backlog, each client's stream | greet, read a line, thank, close; write, read to the end | one server, any clients of three kinds | lines cut in pieces, clients that time out, resets |
| `ipc/sockets_intro`: UDP | last sender and count of the server | receive, answer; send, wait | two servers, clients of three kinds | loss, duplication, wrong length, wrong address family |
| `ipc/sockets_intro`: local sockets | the name in the file system, a server's backlog | unlink, bind, accept, greet; connect, write, read | two servers and two clients that look at no error | rival servers unlink each other's name |
| `ipc/sockets_intro/wrappers.c` | none | one function for each system call | any caller | what a result means: 0, -1, a short count |
| `ipc/named_pipe_*.c` | the FIFO and what is in it, stdio's buffer | open, write, close; open, read a line, print | one receiver, any senders | lines merged, lost or printed again |
| `processes`, `ipc/shmem.c` | the pipe, the mapped block, memory, what stdio holds back | fork, wait, exec, pipe, print | parent and child | output written twice, the end of a pipe, a fork or exec that fails |
| `ipc/shmem2.c`, `ipc/signals.c` | a segment; a handler | one copy; one signal | none | none |
| `memory`, `preliminaries`, `project3` | none to speak of | straight-line | none | none; the FAT16 reader is only a header |

What makes the modelled components correct:

- **sem.c**: no message is overwritten, lost, taken twice or taken from an empty slot;
  messages leave in order; no slot is lost; the process ends.
- **spinlocks.c**: mutual exclusion (it does not hold), and what is left of it when
  `test_and_set` is not interrupted.
- **conditionex.c**: an accepted name is printed once, in order and eventually; a name
  is turned away only while another one waits; no wakeup is lost.
- **parser**: it accepts exactly the well-formed lines, with the right result, stays in
  bounds, reports the first fault, and on every error path leaves nothing allocated.
- **tcpserver and its clients**: success means the whole answer, and a line heard up to a
  newline; only clients that leave early, a kill or its own failing calls can end the
  server; every client ends.
- **UDP servers and clients**: an answer is for the client's own datagram; whoever waits
  for ever has lost something or asked the wrong server.
- **thread examples**: no addition is lost, nobody is ahead at the barrier, every task has
  counted when `wq_wait` returns, only a cancelled thread leaks its number, and readers
  go on reading however often the writer comes.
- **wrappers**: they end the program when their call has failed and only then.
- **forking programs**: a line is written again only when it was printed before a fork and
  the output is a file; what a parent shows after its wait is its child's; both end.
- **named pipe**: plain texts are not printed twice, and one that has no rival is printed.
- **local sockets**: a greeted client was read by the server that greets it, and a server
  that meets nobody has a rival.
- **servers**: a job works on its own connection, descriptors do not leak, a client is
  answered once and after its message, bounded servers do not run out of descriptors,
  and who gets an answer although others stall.

## Modules

| module | models | status of its properties |
|---|---|---|
| `BoundedBuffer` | abstract: a bounded FIFO queue of numbered messages | refined by `SemBuffer` |
| `SemBuffer` | `threads/sem.c` | safety proved for all constants, liveness by TLC |
| `SemBufferProofs` | theorems about it | |
| `SpinLock`, `SpinLockProofs` | `threads/spinlocks.c` | safety proved, liveness by TLC, one finding |
| `Mailbox` | abstract: a one-place mailbox that turns names away when it is full | refined by `ConditionEx` |
| `ConditionEx`, `ConditionExProofs` | `threads/conditionex.c`, with and without `BUSY` | safety and the steps of the refinement proved, liveness by TLC |
| `GrowingArray` | `array_grow` | proved: the capacity it leaves is enough |
| `Ordered` | the elements at some positions of a sequence, in order: used by the references of the next two | |
| `ShellTokenizer` | `tokenize`, `tokenlist_*`, `buffer_addchar` | proved |
| `PipelineParser` | `pipeline_parse`, `command_*`, `pipeline_free`, the caller in `demo.c` | proved |
| `RedirectTarget` | `redirect_set`, `parse_port` | proved |
| `ShellParser`, `ShellParserProofs` | the three together, of which one is called, and theorems about them | |
| `ConcurrentServers`, `ConcurrentServersProofs` | the three servers of `concurrentservers` | safety proved, liveness by TLC |
| `StreamExchange`, `StreamExchangeProofs` | `tcpserver.c` with `tcpclient.c`, `tcpclientv2.c` and `tcpclient_ipv6.c` | safety proved, liveness by TLC |
| `DatagramExchange`, `DatagramExchangeProofs` | `udpserver.c`, `activityserver.c` with `udpclient.c`, `udpclientv2.c`, `udpclient_ipv6.c` | safety proved, liveness by TLC |
| `SharedSum` | `pthreadex.c`, `pthreadex3.c` | proved |
| `CancelledThread` | `pthreadex2.c` | TLC |
| `ReadersWriter` | `readwritelockex.c` | TLC |
| `BarrierRounds` | `barriers.c` | proved |
| `WorkQueueClient` | `project2/test.c` over the queue of `workqueue.h` | proved |
| `Wrappers` | `ipc/sockets_intro/wrappers.c` | proved |
| `ForkedProcesses` | `forktest.c`, `exec2.c`, `exec3.c`, `exec4.c`, `orphans.c`, `zombies.c`, `pipes.c`, `shmem.c` | safety proved, liveness by TLC |
| `NamedPipe` | `named_pipe_recver.c`, `named_pipe_sender.c` | proved |
| `LocalSockets` | `unix_domain_sockets.c` | proved |
| `SmallProgramsProofs` | theorems about seven of the nine small programs | |
| `MC*` | instances for TLC; `MCSmallPrograms` runs one of the nine programs from `SharedSum` to `LocalSockets` in each behaviour | |

The parser is three modules because the code is, and `ShellParser` joins them: in each
behaviour one of the three functions is called (`call`), and the others stay where they
start, so that one specification is checked and proved about.  What passes between the
functions is an assumption on one side and a result on the other.  `TokenListsAssumption`
says of the token lists of `pipeline_parse` what the theorem `TokensEndOnce` says of those
`tokenize` returns: END once, at the end, and a type of token at each place.  A word there
has a text of `Texts`, and `tokenize` never leaves a word without one.
`OutcomeAssumption` says that `redirect_set` gives each text an outcome; which one is
`RedirectTarget`'s affair.  `TargetsAssumption` says that its texts have the prefix at the
start only: it is one character of the model.

Each of the three has a reference, `MeetsReference`, that says what a whole input stands for
and does not run along it as the code does.  A token starts at an operator, or at a character
of a word that follows none, and its text is the characters that delimit no quote; a command
is a segment between pipes, and every fault a list can have is a set of places, of which
`pipeline_parse` reports the first; an endpoint is a text that can be written as prefix,
host, colon and port, with or without brackets, and a port is a text that can be read as
blanks, a plus or not, and digits.  That these readings are unique is part of what is shown.

### Correspondence with the code

Variables have the names of the code where it has one (`front`, `thebuf`, `busy`,
`connfd`, `quote_pos`); `pc` variables stand for places in a function; variables marked
"history" in their declaration are not in the program.  In the thread models every
access to shared memory and every blocking call is one step; accesses made inside a
critical section may share a step only where nothing outside the lock touches them.
`PROJECT.json` maps each definition to the lines it stands for.

- `SemBuffer`: the consumer is test, wait, check, lock, fetch, clear, unlock, free, post,
  as in lines 28 to 53; `done` is read with no lock in two different steps.  `main` joins
  the producer, posts one token for each consumer and joins the consumers.  Messages
  that are still in the array when the process ends stay there: `OneOwner` counts them,
  and no property says that all are consumed, because the program does not do that.
- `SpinLock`: `Load` and `Store` are the two halves of `test_and_set`, which is compiled
  without atomics.  The history variable `interrupted` becomes true when another
  thread touches the lock between them.  The file has no caller: `Call`, `Read`
  and `Write` are the use a lock is made for and are marked external.
- `ConditionEx`: `pthread_cond_wait` is release and wait in one step (`WorkerWait`), then
  a signal or a spurious wakeup, then `WorkerRelock`.  `MainSignal` after `MainUnlock`
  keeps the order of lines 62 and 64.
- `ShellTokenizer`: one action for each way a turn of the loops can go.  An allocation
  may fail whenever one is made.  In `AddToken` a failing copy leaves the token in the
  list, as line 77 does before line 80.  "invalid token" (line 165) can not happen,
  which `TokensRight` shows.  `Start` is the state at the call; the line is chosen by `Init`.
- `GrowingArray`: the loop that doubles a capacity is a recursive function; the
  multiplication is taken not to overflow.
- `PipelineParser`: error positions are indices of tokens; characters are the
  tokenizer's affair.  A text is one of four model values, one for each outcome of
  `redirect_set`.
- `RedirectTarget`: `strtol` skips blanks and takes a sign, and the model does too: a port
  like `" +8"` is accepted by the code.  `tcp:` counts as one character, and so does "blank".
- `ConcurrentServers`: `server`, which never changes, says which of the programs in
  `Servers` runs, that is how main hands a connection over.  All clients start in the
  backlog; one that connects later is one that main accepts later.  The descriptor
  table maps descriptors to connections, and accept gives the lowest free one; `jobs` are
  the argument blocks.  The bytes that matter are newlines and others, and `read` returns
  any nonempty prefix of what has arrived.  `err_n_die` and SIGPIPE set `died`, after
  which nothing moves.
- `StreamExchange`: `connect` returns as soon as the connection is in the backlog, before
  the server accepts it.  A line is three positions in `sendline`: what is `sent`, what has
  `arrived` at the server's kernel, by segments of any size (`Arrive`), and what the server
  has `heard`, by reads of any size.  Closing with received bytes unread resets the connection
  (`ServerClose`), and so do, after some time, bytes that arrive after the close
  (`ArriveLate`) and a write to a process that is gone (`PeerResets`).  So a line with a newline
  inside its name can end in two ways once the server took the first piece for all of it:
  the rest had arrived, and the client sees a reset, or it had not, and the client ends with
  success.  `write` of the server fails by SIGPIPE (`ServerBrokenPipe`).  A failed `accept`
  other than an abort (`ServerAcceptFails`) and a failed `fputs` (`ServerPrintFails`) end the
  server too, at any time, and a failed `fputs` ends a client (`PrintFails`), which counts as
  leaving early; `fault` remembers an end of the server that no connection caused.  The
  wrappers `tcpclientv2.c` calls end the client like the tests in `tcpclient.c` do; its
  receive timeout is `ReadTimeout`, possible whenever it would wait.  The server listens
  on an AF_INET socket, so `tcpclient_ipv6` is refused unless its address maps an IPv4 one;
  both happen.  A line is taken by one `write`, which fails with nothing sent or sends it
  all: it is shorter than a socket's buffer.
- `DatagramExchange`: the network is a bag.  `sendto` succeeds whether or not anybody
  listens; an IPv6 client reaches `udpserver` only with an address that maps an IPv4 one
  (`MappedClients`).  A client whose `sendto` or `recvfrom` fails ends (`ClientError`).
  A datagram of the wrong length is counted and not answered.
- `SharedSum`: `sum += i` is a read and a write, modulo 2^Width.  `shared` tells the two
  programs apart.
- `BarrierRounds`: the last arrival releases everybody that waits, and released threads
  run on their own.  Main's last round ends the process.
- `WorkQueueClient`: taking and finishing jobs, and blocking in `wq_submit` and `wq_wait`,
  are the promises of the queue, marked external.  main reads `counter` without the lock.

- `Wrappers`: a turn is a use, the call, the test.  `MayDo` is what the calls may do and
  return; the test of each wrapper is one line of `SocketFailed`, `InetFailed` or
  `UnixFailed`.  `Signed` and `Unsigned` are the conversions between `ssize_t` and `size_t`
  that the comparisons with `nbytes` make.
- `CancelledThread`: a request takes effect in `printf` or `sleep`, that is inside the slow
  loop.  main's return ends all threads.
- `ReadersWriter`: the lock with default attributes, which lets a reader in whenever no
  writer is inside.  The counter, which nobody but the writer changes, is left out.
- `ForkedProcesses`: `Code` gives each program's calls in order, as far as the two processes
  meet; a child's code is in the `child` field and begins after the fork.  `held` is what
  stdio has not written: nothing on a terminal, everything until the end or a flush if
  the output is a file; fork copies it and a successful exec drops it.  In `orphans.c` a failed fork goes on
  with the child's code, in `exec3.c` a failed exec with the parent's; both are in `Code`.
- `NamedPipe`: `fopen` of either side waits for the other, `fclose` writes what `fputs` has
  stored.  `taken` is stdio's buffer in the receiver, and a text is one of three kinds,
  by where `fgets` stops in it.
- `LocalSockets`: each call from `bind` on is a step, and one that fails changes nothing, since no result
  is looked at; a server without a client goes through all the rest of its calls.
  SIGPIPE ends who writes to a peer that is gone.

### Fault variants

Some definitions follow a variant of themselves that nothing uses: `TakeMutex` after
`TakeMutexWithoutWaiting`, `QueueRoom` after `QueueRoomUnlimited`.  Each variant is a bug
a programmer could have written at that place.  `PROJECT.json` lists, for each property
of each run, a variant under which TLC finds it violated: this keeps the properties from
being vacuous.

## Runs

| run | instance | shows |
|---|---|---|
| `SemBuffer` | 3 consumers, 2 slots, 4 messages | the invariants in every interleaving, refinement of `BoundedBuffer` with fairness, and the end of the process |
| `SpinLockSafe` | 3 threads, 2 rounds each | what holds until an interruption |
| `SpinLockAtomic` | 2 threads | **violated**: `MutualExclusion` (see Findings) |
| `ConditionEx` | 3 names, 7 calls, as built (no `BUSY`) | refinement of `Mailbox`, order of prints, wakeups |
| `ShellParser` | all lines of up to 5 characters over 7 kinds; all lists of up to 5 tokens and two of five commands; texts of up to 4 characters over 5 kinds, and 18 ports in 4 forms | tokens and pipelines agree with definitions on whole lines and token lists, bounds, memory, and which texts are endpoints |
| `ServersSafety` | each of the three servers, 3 clients, 3 descriptors, one worker, one place in the queue, 3 bytes; symmetric clients | ownership of descriptors, answers after messages, and that pool size + queue size + 1 descriptors suffice |
| `ServersServed` | the same with one byte (none for the threaded server), no symmetry | a closing client is answered whatever the others do (threads), or once they have closed (sequential, pool) |
| `StreamExchange` | a timed and an IPv6 client, which does what a plain one does once its address has led it to the server; lines with and without a newline inside the name | whole answers, what was heard, what ends the server, the end of every client |
| `DatagramExchange` | a client with a name and two with IPv6 addresses, one of which maps an IPv4 address as those of `udpclient` are; right and wrong lengths, up to 2 datagrams when one is duplicated | whose datagram is answered, who waits for ever |
| `SmallPrograms` | one of nine programs, see below | sums, barrier, tasks, a cancelled thread, readers, wrappers, forks, FIFO, local sockets |

`SmallPrograms` has 2 adders that count to BIG = 4 in 3 bits; 2 workers and 5 rounds at the
barrier; 4 tasks, 2 places and 3 workers; 3 threads of which one is cancelled, 2 turns each;
5 readers; sizes of 3 bits (`SSIZE_MAX` = 3); eight programs that fork, on a terminal and
into a file, at most 2 forks; 2 senders with texts of three kinds; 2 local servers and 2
clients, with a backlog of 0.

Why the bounds are enough.  In `SemBuffer` consumers outnumber the slots, the producer
goes round the array twice, and four messages let consumers overtake each other and
leave tokens behind at shutdown; the proofs lift all of it but liveness to any size.
The parsers' arrays start at a capacity of 4 and double: five characters or tokens make
each of them grow at least once after the first allocation (the array of commands does
in the two lists of five commands), and every pair of token kinds meets in five places.
In `ServersSafety` the third client finds the worker busy, the queue full and main
waiting, and descriptors are closed and used again in between.  Three bytes are a message,
a message cut in two, and a newline in the middle of a chunk.  In `StreamExchange` two
clients that reach the server are enough for one to time out while the other is served,
and a line of three characters has a newline that is not its last, with a piece behind it
that is in flight or has arrived when the server closes.  In `DatagramExchange`
a duplicate makes the server answer a client twice while others wait.  `SharedSum` wraps
at 8 (its total is 12), and the queue of `WorkQueueClient` is smaller than the number of
tasks, as in the code, so main blocks.  A `size_t` of three bits has sizes that are too
large, SIZE_MAX among them, and sizes that can be cut short.  Two forks let the second
child of `zombies.c` inherit what the first printed.  Two senders meet at one opening of
the FIFO, or one arrives between two openings.  With a backlog of 0 (the code has 1) the
second client of a server waits in the backlog, and one behind it would have to wait in
`connect`; a second server can overtake the first between any two of its calls.  Five
readers are those of the code.

Deadlock is checked in every run but `SmallPrograms`, whose programs really stop: they end,
and a receiver of a FIFO, or a local server whose name is gone, waits for ever with
nobody to wake it.  That those of them that should end do is said by `OnlyCancelledLeaks` and
`BothEnd`; the barrier and the work queue's test are checked in every state they reach.  A step that changes nothing stands for the end of a
program (`Exited`, `AllDone`, `Returned`, `Stopped`), so everybody waiting for
everybody would be reported.  The exceptions are the programs that end only by a bound:
`ConditionEx` stops once main has made `MaxCalls` calls, where the worker waits with
spurious wakeups, and the socket servers, which wait for ever for the next client: they
may stop only when all clients have ended (`AllServed`), or when nothing is under way
(`Quiet`).

### Fairness

- Weak fairness of each thread: the kernel runs whatever can run.  A mutex or semaphore
  that is taken again and again by others needs more in principle; in `SemBuffer` TLC
  finds none is needed, because the holders run out of messages.
- `ConditionEx` gives the worker strong fairness for taking the lock: main sleeps for a
  second after every third call and releases the lock in between.  Spurious wakeups and
  signals are not fair; the property would be empty if they were.
- `ConcurrentServers`: `Spec` assumes nothing of clients, they may stall for ever.  That
  an open client closes in the end is the premise `Patient` of `ServedInTurn`; no server
  enforces it (there are no timeouts), so it is an assumption of that property.
- `StreamExchange`, `DatagramExchange`: servers and clients that can run do, and what the
  network does not lose arrives (TCP sends again until it does or an end is gone).
  Interruptions, timeouts, failing calls, loss, duplication and resets are not fair.
- `SmallPrograms`: weak fairness of each thread of `CancelledThread` and `ReadersWriter` and of
  each process of `ForkedProcesses`, which the kernel's scheduling gives.  Signals
  (`Killed`) are not fair.  Nothing is promised to the writer: with weak fairness some
  reader may always be inside.  The other six programs have safety properties only.

## Proofs

TLAPS checks all of it; the constants are arbitrary, within the assumptions named in the
modules (`NumBuffers` at least 1, a finite set of consumers, null pointers and "no thread"
different from the values they are no member of).

- `SemBufferProofs`.  `IInv` joins type correctness with mutual exclusion (who holds the
  mutex is where its program counter says), token accounting (a full token is backed by a
  message or by main's shutdown posts, and the latter exist only once `done` is set), and
  the array: exactly the slots from `back` that hold messages not yet taken are full, with
  consecutive messages.  The invariants the runs check do not follow from each other and
  are not inductive: `NoEmptyTake` needs the tokens, the tokens need the mutex.  From
  `IInv` follow `NeverOverwrites`, `NeverTakesEmpty`, `ConsumesInOrder`,
  `EachMessageHasOneOwner`, and `ImplementsFIFO`: each step is a `Put`, a `Get` or invisible.
- `SpinLockProofs`.  The invariant says that, unless interrupted, a thread about to store
  has seen the lock as it is, and that the lock is taken exactly when it has an owner, of
  which there is one.  `Excludes` and `KeepsUpdates` follow.
- `ConditionExProofs`.  The invariant says who holds the lock, that a pending task is the
  last accepted, and that a sleeping worker with a pending task is owed a signal.  `Safe`,
  `LosesNoWakeup` and `ImplementsMailboxSafely` follow, for both builds and any list of names.
- `ConcurrentServersProofs`.  `OwnConnection` is not inductive: that two jobs never share a
  descriptor needs that an accepted client owns one job, or is the one main is about to
  dispatch (`OwnerInv`), and that the entry of the table under a job's descriptor is the job's
  owner until the job closes it (`DescriptorInv`).  `LeaksNoDescriptor` uses the
  converse, an entry for each open descriptor.  `AnswersAfterMessage` needs that who has answered is at
  its close, and had read to the end (`AnswerInv`).  All three servers, any sets.
- `StreamExchangeProofs`.  `TurnInv` says that a client is new, then in the backlog, then
  served, then closed, and that while it is in the server's hands only one that left can
  have ended; `ExchangeInv` says of a client that has not left which texts are sent, printed
  or under way at each place of the server, and that from the answer on the server has heard
  a newline (`HeardOut`).  A connection that was closed in order, and not by the end of the
  process, has both texts, and nothing that arrived on it is unread.  `WholeAnswers` and
  `ServesThePatient` follow.
- `DatagramExchangeProofs`.  Each datagram in the bag is a request or an answer earned by a
  datagram the server took, loss and duplication keep that, and so does the number the
  server is about to send.  `AnswersTheSender` follows.
- `SmallProgramsProofs`.  First, a step of `MCSmallPrograms` is a step of the program that runs and
  stutters in the others.  Barrier: for some k all parties have passed k + 1 rounds but
  those released and not yet back, who have passed k; when the last one
  arrives nobody is released.  Work queue: jobs leave in the order of their numbers, so that
  one is queued, run by one worker or finished, and the counter is the cardinality of
  the set of those that have counted; only the holder of the lock may have read it.
  Wrappers: the test is decided by what the call did, which is arithmetic in the two
  conversions.  `MeetsInRounds`, `TestPasses` and `WrappersSound` follow.
  Local sockets (`LocalInv`): where a server is says what it has (`PlaceOf`); a client is in
  the backlog of the server it connected to, or its peer, or was left out when that server
  ended (`LinkInv`, `ClientInv`); and a server whose name is gone has a rival (`NameInv`).
  None of them is inductive alone: who is greeted depends on who was accepted, and that on
  who could find the name.  `GreetsItsClient` follows.
  FIFO (`PipeInv`): as long as all texts are plain, a text in the FIFO or in stdio's buffer was
  not printed before, a sender about to close has its text in one of them, and one that runs
  alone meets a receiver that reads until the sender has ended (`TextOf`, `AloneInv`); that
  the receiver reads only where there is, or will be, something to read (`ReceiverInv`) is
  why no old line is printed.  `PlainTextsPrintOnce` follows.
  Forks (`ForkInv`): a process has made the assignments that come before its place in its
  code (`OwnInv`), and the lines it printed record it (`LineInv`); the shared block is the
  child's once the parent has waited (`ShareInv`).  A line is in the output or held by a
  process that runs (`KeptInv`), and twice only if it was held when a fork copied it
  (`CopyInv`), which needs that children hold nothing newer than the fork (`Fresh`,
  `NoneHeld`).  `PrintsWhatItHas` and `WritesWhatItPrints` follow, for any number of forks.
  Sums (`SumInv`): what a sum holds is what the threads that share it have added so far,
  modulo the width (`HoldsInv`), and a thread about to write has read the sum as it is,
  because it has the lock or the sum is its own (`LoopInv`).  That the printed number is the
  formula rests on facts about the fold by which main adds up the threads' sums, and about
  `%`.  `AddsUp` follows.
- `ShellParserProofs`.  An array has room because what `array_grow` leaves is enough, which
  is an induction on the distance that is left (`GrownEnough`).  `tokenize` (`TokInv`): a
  list has at most as many tokens as its capacity, and there is a buffer only inside a word,
  without which `TokenizerMemory` would not be inductive: a failure between words frees no
  buffer.  As long as nothing failed every word has its text and no token is END.  `pipeline_parse` (`PipeInv`): the index stops at END, a command with arguments has
  a capacity larger than their number, outside a command there is none in hand, and each
  kind of block is counted by its owners: the tokens, the command in hand, the pipeline.
  `pipeline_free` is a fold over the commands, and `PipelineFreed` says what it frees: the
  sums that the invariant speaks of.  `TokenizerStaysInBounds`, `TokenizerFreesOnce`,
  `TokensEndOnce`, `PipelineStaysInBounds` and `PipelineFreesOnce` follow, for every line, every
  token list that ends once, and every allocation that fails.
  Then the results.  `tokenize` (`RightInv`): at each character the tokens are those of the
  line that end before it (`TokensBefore`), the quote is the one the line is inside of there
  (`Inside`), and the buffer holds what the line has from the start of the word without its
  delimiters (`TextBetween`); a word is never empty of characters, so "invalid token"
  (line 165) is never reported.  `pipeline_parse` (`ParsedInv`): the finished commands are those
  of the segments before the index, the command in hand is what the part of its segment
  before the index stands for (`CommandIn`), and no fault is reported for an earlier token
  (`SoundBefore`), which makes the one that is reported the first.  Both rest on lemmas about
  elements in order (`InOrderMore`: an element with a larger index comes last).
  `redirect_set` takes one step, and all of the proof is about texts: `strchr` and `strrchr`
  find the first and the last place (`FirstIs`, `LastIs`), `strtol` reads a port exactly where
  the reference does and to the same number (`PortsAre`), the host of a text without brackets
  ends at its first colon and the one of a text with brackets at its first closing bracket
  (`PlainReads`, `BracketReads`), so that there is one way to cut a text at most; with two
  colons outside brackets the rest is no port (`NoColon`).  `TokenizesRight`, `ParsesRight` and
  `RedirectsRight` follow, for every line, token list and text.

Two things about induction.  The library's induction theorems take an operator as a
parameter, which no prover here can do.  Induction on natural numbers is proved instead,
as a statement about a set (`Induct`): if n were missing from a set that holds 0 and the
successor of each of its numbers, adding 1 would map what it has of 0 .. n into the same
without 0, against the pigeonhole theorem of `FiniteSetTheorems`.  With it, and with recursion
written as recursive functions and folds, statements about all capacities, all pipelines,
all lines, the value of all digits and all numbers of threads can be proved.  The references
of the parser are written without sorting operators, whose definitions are out of reach: the
n-th of some positions is the one with n - 1 of them before it (`Ordered`).

The proofs of servers, small programs and parser assume of their constants, each time by a
name that TLC evaluates on the instances: `ServersAssumption` and `PoolAssumption` (known servers, sizes that are natural
numbers), `BarrierAssumption`, `TasksAssumption`, `WidthAssumption` (finite sets, numbers that
are numbers), `LocalAssumption` (no client is called "nobody" or "garbage"), `SumAssumption`
(finitely many threads, a width of at least one), and those of `ShellParser` (lines
of the characters that exist, token lists that end once, an outcome for each text, targets
with the prefix at their start only, and something to call each function with).

The type invariants of `SemBuffer`, `SpinLock` and `ConditionEx`, and `NoEmptyTake` and `TakenIffOwned`,
are proved and no longer run.

Only model-checked, and why:

- everything under fairness (`Termination`, `EveryRoundEnds`, `ServedAlone`, `ServedInTurn`,
  `ServedInTheEnd`, `EndsUnlessLost`, `OnlyCancelledLeaks`, `ReadersReadOn`, `BothEnd`, the
  fairness of the two refinements), which is beyond TLAPS.

Every invariant that a run checks is proved.

The build of `conditionex.c` with `BUSY` is covered by the proofs only; its liveness is not checked.

## Findings

`threads/spinlocks.c:3` calls `test_and_set` atomic.  It is a load and a store of a plain
bool, and `SpinLockAtomic` shows two threads inside together after four steps.  (The file
is not in the Makefile's `BINS`; it illustrates the idea.)

Observations that contradict no document: `pipeline_parse` returns failure without
setting the error when it is given a null pointer; ports may have blanks and a plus sign
before the digits; the threaded server does not look at the result of `pthread_create`
and then leaks the connection; in all servers a client that resets its connection can end
the process; messages left in the array at the end of sem.c are not freed.  One client of
`tcpserver` that times out can end the service for all; a client cannot tell a server that
was killed after its greeting from one that has finished, and one whose name holds a
newline may end with success although the server heard only the part before it.
`udpclient_ipv6` waits for ever if the server is `udpserver`, unless its address maps an IPv4 one.  The UDP clients print a buffer that nothing terminates, and
both UDP servers write `recvline[recv_bytes]` before they test `recv_bytes < 0`.
A failed `Send` or `Write` of SIZE_MAX bytes passes for a success, because -1 converts to
that number.  `common.h` declares wrappers that no file defines.  A FIFO sender that runs before the
receiver's `mkfifo` leaves a regular file, which the receiver then prints for ever; one
that writes between two openings loses its text; and a sender of an empty text makes the
receiver print the last line again.  A second local server unlinks the name of the first,
which then waits for ever, or whose `bind` it makes fail.  When `fork` fails in
`orphans.c`, the parent runs the child's code; when `exec` fails in `exec3.c`, the child prints
its parent's "Child done" as well.

## Not modelled

- Failing `malloc`, `pthread_create` and `sem_init` in the thread programs (the code
  ignores them), except `pthread_create` in the threaded server.
- Weak memory: `done` and the spin lock are read and written in program order and
  become visible late only as a late step; all other shared data is under locks.
- Text: messages, formatting, `pipeline_print`, `printfileinfo`.
- `concurrentservers/wrappers.c` and `common.h` as such: the first is the same text as the
  copy in `ipc/sockets_intro`, which `Wrappers` models, and no server calls it.  Of
  `Listen` the environment variable LISTENQ is left out, it only replaces a number.
- Setting up sockets: errors of `socket`, `bind` and `listen` before a server's loop, except
  in `LocalSockets`, which has a `bind` that fails because the name exists and the calls that
  fail after it; `socket` and `unlink` do not fail there either.
- Failing output of the servers in `concurrentservers`: `fputs` there ends the process like a
  failed `read` does, which the model has.
- In `ForkedProcesses`, signals to the child (`Killed` is a signal to the parent).  In `NamedPipe`,
  a sender with the wrong number of arguments and one whose `fopen` fails: they end before
  they write, as one that is killed then does.
- A network that stays down until TCP gives up on a connection: an end of a stream fails in
  the models only by what the processes at its two ends do.
- `getaddrinfo_ex.c` only prints a list.
- `readwritelockex.c` with a lock that prefers writers: it has the default attributes.
- `shmem2.c` copies one text into a segment or prints it, in runs that nothing orders.
  `signals.c` stores through a null pointer under a handler that returns, so that the same
  store faults again and again and the loop is not reached.
- `file_descriptors.c`, `duplicating_fds.c`, `exec1.c`, `anatomy.c`, `hello.c`: one process
  each, that does its calls in order.
- `memory`: straight-line.  The loops of `brk_example.c` that print a number would go wrong only above
  10^19, where no address is.
- `preliminaries`: straight-line, or exercises in undefined behaviour.
- `project3`: a header with layouts on disk and a caller; `project2`'s queue: a header, of
  which the models assume what their clients rely on.

## Plan

Done, in this order: `SemBuffer` over `BoundedBuffer`, `SpinLock`, `ConditionEx` over
`Mailbox`, with their proofs; the three parser modules; `ConcurrentServers`; the socket
exchanges; the small programs; the proofs about servers, exchanges and small programs; the
proofs about the parser's bounds and memory; those about its results.  What could follow:

1. An abstract `WorkQueue` that `ConcurrentServers` and `WorkQueueClient` share, and that the
   pool's jobs take turns.
2. Liveness of `WorkQueueClient` and of the build of `conditionex.c` with `BUSY`.
3. One behaviour of the parser from line to pipeline, in place of the assumptions on one side
   and results on the other.
