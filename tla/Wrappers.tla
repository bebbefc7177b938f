------------------------------- MODULE Wrappers -------------------------------
(* wrappers.c of ipc/sockets_intro, of which concurrentservers has the same   *)
(* copy: each function makes one system call, tests its result, and ends the  *)
(* program when the test says that the call has failed.  What differs is the  *)
(* test, and what the call may return.                                        *)
EXTENDS Integers

CONSTANT SSIZE_MAX      \* 2^63 - 1 in the code

SIZE_MAX == 2 * SSIZE_MAX + 1
Sizes == 0 .. SIZE_MAX
Signed(n) == IF n > SSIZE_MAX THEN n - SIZE_MAX - 1 ELSE n
Unsigned(r) == IF r < 0 THEN r + SIZE_MAX + 1 ELSE r

VARIABLES
    wrapper,    \* the wrapper the program is in, the last one when in none
    nbytes,     \* the number of bytes it was given, 0 when it takes none
    did,        \* what its call did: "nothing", "aborted", "part" or "all"
    result,     \* and returned: a number, or an address (0 is NULL)
    place       \* "program", "call", "test" or "dead"

wrapperVars == <<wrapper, nbytes, did, result, place>>

-----------------------------------------------------------------------------
(* The test of each wrapper *)

Ordinary == {"Bind", "Connect", "Getpeername", "Getsockname", "Getsockopt",
             "Listen", "Recv", "Recvfrom", "Recvmsg", "Select", "Setsockopt",
             "Shutdown", "Sockatmark", "Socket", "Socketpair"}

SocketFailed ==
    \/ wrapper \in Ordinary /\ result < 0
    \/ wrapper \in {"Send", "Sendto", "Sendmsg"} /\ result # Signed(nbytes)

InetFailed ==
    \/ wrapper = "Inet_ntop" /\ result = 0
    \/ wrapper = "Inet_pton" /\ (result < 0 \/ result = 0)

Unix == {"Close", "Dup2", "Fcntl", "Gettimeofday", "Ioctl", "Fork", "Mmap",
         "Open", "Read"}

\* write returns a ssize_t, which is compared as a size_t with nbytes.
UnixFailedNoShortWrite ==
    \/ wrapper \in Unix \cup {"Write"} /\ result = -1
    \/ wrapper \in {"Mkstemp", "Pipe"} /\ result < 0
    \/ wrapper \in {"Calloc", "Malloc"} /\ result = 0
UnixFailed ==
    \/ wrapper \in Unix /\ result = -1
    \/ wrapper \in {"Mkstemp", "Pipe"} /\ result < 0
    \/ wrapper \in {"Calloc", "Malloc"} /\ result = 0
    \/ wrapper = "Write" /\ Unsigned(result) # nbytes

Failed == (wrapper = "Accept" /\ result < 0) \/ SocketFailed \/ InetFailed \/ UnixFailed

-----------------------------------------------------------------------------
(* What the calls may do *)

Deeds == {"nothing", "aborted", "part", "all"}
Sends == {"Send", "Sendto", "Sendmsg", "Write"}
Receives == {"Recv", "Recvfrom", "Recvmsg", "Read"}
Addresses == {"Inet_ntop", "Calloc", "Malloc"}
Names == Ordinary \cup Unix \cup Sends \cup Addresses
            \cup {"Accept", "Inet_pton", "Mkstemp", "Pipe"}

\* A transfer of more than SSIZE_MAX bytes is refused, others may be cut short;
\* a receive of 0 is the end of the stream, a select of 0 a timeout, a fork of 0
\* the child.  Inet_ntop is also "nothing" when it has no buffer to write to.
MayDo(w, n, d, r) ==
    \/ d = "nothing" /\ r = IF w \in Addresses THEN 0 ELSE -1
    \/ w = "Accept" /\ d = "aborted" /\ r = -1
    \/ w = "Inet_pton" /\ d = "nothing" /\ r = 0
    \/ w \in Addresses \cup {"Inet_pton"} /\ d = "all" /\ r = 1
    \/ /\ w \in Sends /\ r \in 0 .. n /\ n <= SSIZE_MAX 
       /\ d = IF r = n THEN "all" ELSE "part"
    \/ w \in Receives /\ r \in 0 .. n /\ n <= SSIZE_MAX /\ d = "all"
    \/ /\ w \notin Addresses \cup Sends \cup Receives \cup {"Inet_pton"}
       /\ d = "all" /\ r \in 0 .. 1

-----------------------------------------------------------------------------
Init ==
    /\ wrapper = "Socket" /\ nbytes = 0 /\ did = "all" /\ result = 0
    /\ place = "program"

Use(w) ==
    /\ place = "program"
    /\ wrapper' = w
    /\ nbytes' \in IF w \in Sends \cup Receives THEN Sizes ELSE {0}
    /\ place' = "call"
    /\ UNCHANGED <<did, result>>

SystemCall ==
    /\ place = "call"
    /\ \E d \in Deeds, r \in -1 .. SIZE_MAX :
          MayDo(wrapper, nbytes, d, r) /\ did' = d /\ result' = r
    /\ place' = "test"
    /\ UNCHANGED <<wrapper, nbytes>>

\* errno is EPROTO or ECONNABORTED.
Aborted == wrapper = "Accept" /\ did = "aborted"

Again ==
    /\ place = "test" /\ Failed /\ Aborted
    /\ place' = "call"
    /\ UNCHANGED <<wrapper, nbytes, did, result>>

Return ==
    /\ place = "test" /\ ~Failed
    /\ place' = "program"
    /\ UNCHANGED <<wrapper, nbytes, did, result>>

Die ==
    /\ place = "test" /\ Failed /\ ~Aborted
    /\ place' = "dead"
    /\ UNCHANGED <<wrapper, nbytes, did, result>>

Exited == place = "dead" /\ UNCHANGED wrapperVars

Next == (\E w \in Names : Use(w)) \/ SystemCall \/ Again \/ Return \/ Die \/ Exited

Spec == Init /\ [][Next]_wrapperVars

-----------------------------------------------------------------------------
(* A program that goes on has got all it asked for, and one that ends had a  *)
(* call that failed: not a timeout of select, the 0 of a child in fork, an    *)
(* aborted connection nor the end of a stream.  One size escapes: -1 equals  *)
(* SIZE_MAX, as signed numbers in Send (wrappers.c:119) and as unsigned ones  *)
(* in Write (wrappers.c:323), so that a failure to send that much is taken    *)
(* for a success.                                                             *)
DiesIffFailed ==
    /\ place = "program" => did = "all" \/ (wrapper \in Sends /\ nbytes = SIZE_MAX)
    /\ place = "dead" => did \in {"nothing", "part"}
=============================================================================
