--------------------------- MODULE StreamExchange ---------------------------
(* The TCP example of ipc/sockets_intro: tcpserver.c greets a client, reads  *)
(* its line, thanks it and closes, one client after the other; tcpclient.c,  *)
(* tcpclientv2.c (the wrappers, and a receive timeout of five seconds) and   *)
(* tcpclient_ipv6.c send one line and print what comes back until the end of *)
(* the stream.                                                               *)
(*                                                                           *)
(* The kernel's part: connections wait in the backlog in order; a line is in *)
(* flight until it arrives, in order and in pieces of any size, and what has *)
(* arrived is read in pieces of any size; closing a connection ends the      *)
(* stream unless received bytes are left unread, which resets it, as bytes   *)
(* that arrive after the close do, and data sent to a process that is gone.  *)
(* How long an answer is in flight makes no difference: until it is read it  *)
(* could as well be on its way.  Either end may be killed from outside, and  *)
(* the server's accept and the printing of either end may fail.              *)
EXTENDS Naturals, Sequences, SequencesExt

CONSTANTS
    PlainClients,   \* instances of tcpclient
    TimedClients,   \* instances of tcpclientv2
    IPv6Clients,    \* instances of tcpclient_ipv6
    NoClient,       \* connfd outside a turn of the server's loop
    Lines           \* the lines sent: sequences of "c" and "nl" that end in "nl"

Clients == PlainClients \cup TimedClients \cup IPv6Clients

ASSUME NoClientAssumption == NoClient \notin Clients
ASSUME LinesAssumption == Lines \subseteq Seq({"c", "nl"})

VARIABLES
    server,         \* where tcpserver is in its loop, or "dead"
    connfd,         \* the client it serves
    backlog,        \* connections not yet accepted
    client,         \* where each client is, "done" or "failed" in the end
    sendline,       \* what each client sends
    sent,           \* how much of its line each client has sent,
    arrived,        \* how much of it the server's kernel has received,
    heard,          \* and how much of it the server has read and printed
    toClient,       \* answers sent and not yet read
    fin,            \* clients whose connection the server has closed in order
    reset,          \* clients whose connection is torn down
    printed,        \* history: what each client has printed
    leavers,        \* history: clients that left before the end of the stream
    fault           \* history: what ended the server, if no connection did

serverVars == <<server, connfd, backlog>>
stream     == <<sent, arrived, heard>>
history    == <<leavers, fault>>
vars == <<serverVars, client, sendline, stream, toClient, fin, reset,
          printed, history>>

Ended == {"done", "failed"}

Init ==
    /\ server = "accept"
    /\ connfd = NoClient
    /\ backlog = <<>>
    /\ client = [c \in Clients |-> "connect"]
    /\ sendline \in [Clients -> Lines]
    /\ sent = [c \in Clients |-> 0]
    /\ arrived = [c \in Clients |-> 0]
    /\ heard = [c \in Clients |-> 0]
    /\ toClient = [c \in Clients |-> <<>>]
    /\ fin = {}
    /\ reset = {}
    /\ printed = [c \in Clients |-> <<>>]
    /\ leavers = {}
    /\ fault = "none"

-----------------------------------------------------------------------------
(* tcpserver.c *)

ServerAccept ==
    /\ server = "accept"
    /\ backlog # <<>>
    /\ connfd' = Head(backlog)
    /\ backlog' = Tail(backlog)
    /\ server' = "greet"
    /\ UNCHANGED <<client, sendline, stream, toClient, fin, reset, printed, history>>

\* ECONNABORTED: the client had gone before its turn, and the loop goes on.
ServerAcceptAborted ==
    /\ server = "accept"
    /\ backlog # <<>>
    /\ client[Head(backlog)] \in Ended
    /\ backlog' = Tail(backlog)
    /\ UNCHANGED <<server, connfd, client, sendline, stream, toClient, fin,
                   reset, printed, history>>

\* A write is taken by the kernel unless the connection is known to be reset.
ServerWrite(at, text, next) ==
    /\ server = at
    /\ connfd \notin reset
    /\ toClient' = [toClient EXCEPT ![connfd] = Append(@, text)]
    /\ server' = next
    /\ UNCHANGED <<connfd, backlog, client, sendline, stream, fin, reset,
                   printed, history>>

ServerGreet == ServerWrite("greet", "Hello", "read")

\* A piece that ends in a newline ends the message.
EndsMessageAnyPiece(c, n) == TRUE
EndsMessage(c, n) == sendline[c][n] = "nl"

ServerRead ==
    /\ server = "read"
    /\ \E n \in heard[connfd] + 1 .. arrived[connfd] :
          /\ heard' = [heard EXCEPT ![connfd] = n]
          /\ server' = IF EndsMessage(connfd, n) THEN "answer" ELSE "read"
    /\ UNCHANGED <<connfd, backlog, client, sendline, sent, arrived, toClient,
                   fin, reset, printed, history>>

\* The client is gone: read returns 0, which ends the loop like a newline does.
StreamEndedWhenEmpty(c) == heard[c] = arrived[c]
StreamEnded(c) == heard[c] = sent[c] /\ client[c] \in Ended

ServerReadEnd ==
    /\ server = "read"
    /\ StreamEnded(connfd)
    /\ server' = "answer"
    /\ UNCHANGED <<connfd, backlog, client, sendline, stream, toClient, fin,
                   reset, printed, history>>

ServerAnswer == ServerWrite("answer", "Thanks", "close")

\* close sends the end of the stream, or a reset if it drops received bytes.
Unread(c) == heard[c] < arrived[c]

ServerClose ==
    /\ server = "close"
    /\ IF Unread(connfd)
          THEN reset' = reset \cup {connfd} /\ UNCHANGED fin
          ELSE fin' = fin \cup {connfd} /\ UNCHANGED reset
    /\ connfd' = NoClient
    /\ server' = "accept"
    /\ UNCHANGED <<backlog, client, sendline, stream, toClient, printed, history>>

\* The process ends: the kernel drops the backlog and closes connfd, with a
\* reset if it is among the connections that have unread bytes.
Die(unread) ==
    /\ server' = "dead"
    /\ fin' = fin \cup (({connfd} \ {NoClient}) \ unread)
    /\ reset' = reset \cup ToSet(backlog) \cup unread
    /\ backlog' = <<>>
    /\ UNCHANGED <<connfd, client, sendline, sent, arrived, toClient, printed,
                   leavers>>

DieHere ==
    /\ Die({c \in {connfd} \ {NoClient} : Unread(c)})
    /\ UNCHANGED heard

\* read returns -1 ("read error").
ServerReadError ==
    /\ server = "read"
    /\ connfd \in reset
    /\ ~Unread(connfd)
    /\ DieHere
    /\ UNCHANGED fault

\* The thanks go to a connection that is reset: SIGPIPE, which nothing handles.
ServerBrokenPipe ==
    /\ server = "answer"
    /\ connfd \in reset
    /\ DieHere
    /\ UNCHANGED fault

\* accept fails otherwise than by an abort: no memory, say ("fatal error.").
ServerAcceptFails ==
    /\ server = "accept"
    /\ DieHere
    /\ fault' = "accept"

\* What was read cannot be printed ("fputs error").
ServerPrintFails ==
    /\ server = "read"
    /\ \E n \in heard[connfd] + 1 .. arrived[connfd] :
          /\ heard' = [heard EXCEPT ![connfd] = n]
          /\ Die({c \in {connfd} : n < arrived[c]})
    /\ fault' = "print"

ServerKilled ==
    /\ server # "dead"
    /\ DieHere
    /\ fault' = "killed"

-----------------------------------------------------------------------------
(* The clients *)

Goes(c, from, to) == client[c] = from /\ client' = [client EXCEPT ![c] = to]

\* connect succeeds as soon as the connection is in the backlog.
Connect(c) ==
    /\ server # "dead"
    /\ Goes(c, "connect", "write")
    /\ backlog' = Append(backlog, c)
    /\ UNCHANGED <<server, connfd, sendline, stream, toClient, fin, reset,
                   printed, history>>

\* "connect failed!": nobody listens.
ConnectRefused(c) ==
    /\ server = "dead"
    /\ Goes(c, "connect", "failed")
    /\ UNCHANGED <<serverVars, sendline, stream, toClient, fin, reset,
                   printed, history>>

\* tcpserver listens on an AF_INET socket: an address that maps an IPv4 one
\* leads to it, and at any other IPv6 address nobody ever listens.
ConnectIPv6(c) ==
    /\ Goes(c, "connect", "failed")
    /\ UNCHANGED <<serverVars, sendline, stream, toClient, fin, reset,
                   printed, history>>

\* Having sent its line a client waits for the answer.
AfterWriteLineDone == "done"
AfterWriteLine == "read"

WriteLine(c) ==
    /\ c \notin reset
    /\ Goes(c, "write", AfterWriteLine)
    /\ sent' = [sent EXCEPT ![c] = Len(sendline[c])]
    /\ UNCHANGED <<serverVars, sendline, arrived, heard, toClient, fin, reset,
                   printed, history>>

WriteError(c) ==
    /\ c \in reset
    /\ Goes(c, "write", "failed")
    /\ UNCHANGED <<serverVars, sendline, stream, toClient, fin, reset,
                   printed, history>>

ReadAnswer(c) ==
    /\ client[c] = "read"
    /\ toClient[c] # <<>>
    /\ printed' = [printed EXCEPT ![c] = Append(@, Head(toClient[c]))]
    /\ toClient' = [toClient EXCEPT ![c] = Tail(@)]
    /\ UNCHANGED <<serverVars, client, sendline, stream, fin, reset, history>>

ReadEnd(c) ==
    /\ toClient[c] = <<>>
    /\ c \in fin
    /\ Goes(c, "read", "done")
    /\ UNCHANGED <<serverVars, sendline, stream, toClient, fin, reset,
                   printed, history>>

\* A reset may overtake what was still to be read.
ReadError(c) ==
    /\ c \in reset
    /\ Goes(c, "read", "failed")
    /\ UNCHANGED <<serverVars, sendline, stream, toClient, fin, reset,
                   printed, history>>

Leave(c) ==
    /\ client' = [client EXCEPT ![c] = "failed"]
    /\ leavers' = leavers \cup {c}
    /\ UNCHANGED <<serverVars, sendline, stream, toClient, fin, reset,
                   printed, fault>>

\* "fputs error": the client has read what it cannot print.
PrintFails(c) ==
    /\ client[c] = "read"
    /\ toClient[c] # <<>>
    /\ toClient' = [toClient EXCEPT ![c] = Tail(@)]
    /\ client' = [client EXCEPT ![c] = "failed"]
    /\ leavers' = leavers \cup {c}
    /\ UNCHANGED <<serverVars, sendline, stream, fin, reset, printed, fault>>

\* Five seconds without a byte: read returns -1 and the wrapper ends the client.
ReadTimeout(c) ==
    /\ client[c] = "read"
    /\ toClient[c] = <<>>
    /\ c \notin fin \cup reset
    /\ Leave(c)

\* The user interrupts a client that is connected.
Interrupted(c) ==
    /\ client[c] \in {"write", "read"}
    /\ Leave(c)

-----------------------------------------------------------------------------
(* The network *)

\* The next segments of a line reach the server's kernel, in the backlog too.
Arrive(c) ==
    /\ c \notin fin \cup reset
    /\ \E n \in arrived[c] + 1 .. sent[c] : arrived' = [arrived EXCEPT ![c] = n]
    /\ UNCHANGED <<serverVars, client, sendline, sent, heard, toClient, fin,
                   reset, printed, history>>

\* They find the connection closed, which the server's kernel answers by a reset.
ArriveLate(c) ==
    /\ c \in fin \ reset
    /\ arrived[c] < sent[c]
    /\ reset' = reset \cup {c}
    /\ UNCHANGED <<serverVars, client, sendline, stream, toClient, fin,
                   printed, history>>

\* What the server sent to a client that is gone comes back as a reset.
PeerResets(c) ==
    /\ client[c] \in Ended
    /\ toClient[c] # <<>>
    /\ c \notin reset
    /\ reset' = reset \cup {c}
    /\ UNCHANGED <<serverVars, client, sendline, stream, toClient, fin,
                   printed, history>>

-----------------------------------------------------------------------------
ServerStep ==
    \/ ServerAccept \/ ServerAcceptAborted \/ ServerGreet \/ ServerRead
    \/ ServerReadEnd \/ ServerAnswer \/ ServerClose \/ ServerReadError
    \/ ServerBrokenPipe

ClientStep(c) ==
    \/ ConnectRefused(c) \/ WriteLine(c) \/ WriteError(c) \/ ReadAnswer(c)
    \/ ReadEnd(c) \/ ReadError(c)

ConnectStep ==
    \/ \E c \in Clients : Connect(c)
    \/ \E c \in IPv6Clients : ConnectIPv6(c)

\* What goes wrong at a client or on the way to it.
ClientFault(c) == Interrupted(c) \/ PrintFails(c) \/ PeerResets(c) \/ ArriveLate(c)

\* The programs can stop only when every client has, and the server waits.
AllServed == (\A c \in Clients : client[c] \in Ended) /\ UNCHANGED vars

Next ==
    \/ ServerStep
    \/ ServerAcceptFails \/ ServerPrintFails \/ ServerKilled
    \/ ConnectStep
    \/ \E c \in Clients : ClientStep(c) \/ Arrive(c) \/ ClientFault(c)
    \/ \E c \in TimedClients : ReadTimeout(c)
    \/ AllServed

\* Every process that can run does, and what is in flight arrives while both
\* ends are open; nothing has to fail and nobody has to be impatient.
Fairness ==
    /\ WF_vars(ServerStep)
    /\ WF_vars(ConnectStep)
    /\ \A c \in Clients : WF_vars(ClientStep(c)) /\ WF_vars(Arrive(c))

Spec == Init /\ [][Next]_vars /\ Fairness

-----------------------------------------------------------------------------
(* A client that ends successfully, unless the server ended while serving   *)
(* it, has printed the greeting and the thanks, and the server has heard its *)
(* line up to a newline, with all that had arrived when it closed: reading   *)
(* that stops too early, or a part of the line that was received and dropped *)
(* is not seen as success.  The line is whole unless its name holds a        *)
(* newline; then the rest may still be in flight (tcpserver.c:48-74,         *)
(* tcpclient.c:43-52).                                                       *)
AnswerComplete ==
    \A c \in Clients : client[c] = "done" /\ ~(server = "dead" /\ connfd = c) =>
        /\ printed[c] = <<"Hello", "Thanks">>
        /\ heard[c] > 0 /\ sendline[c][heard[c]] = "nl"
        /\ heard[c] = arrived[c]

(* Unless it is killed, or accept or its own printing fails, the server ends *)
(* only on the connection of a client that left before its answer was        *)
(* complete; clients that are slow, that only wait for others or that end    *)
(* well never stop the service for the rest (tcpserver.c:64, 73;             *)
(* tcpclientv2.c:29-32).                                                     *)
DiesOfLeaversOnly ==
    server = "dead" /\ fault = "none" => connfd \in leavers

(* Every client ends, with the whole answer unless it left, the server ended *)
(* or its IPv6 address led nowhere, or its line holds a newline before the   *)
(* last character, which may be taken for the end (tcpserver.c:58-62).       *)
ServedInTheEnd ==
    \A c \in Clients :
        <>(\/ client[c] = "done"
           \/ /\ client[c] = "failed"
              /\ \/ c \in leavers
                 \/ c \in IPv6Clients /\ sent[c] = 0
                 \/ server = "dead"
                 \/ \E i \in 1..Len(sendline[c]) - 1 : sendline[c][i] = "nl")
=============================================================================
