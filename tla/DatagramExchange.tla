-------------------------- MODULE DatagramExchange --------------------------
(* The UDP examples of ipc/sockets_intro.  udpserver.c numbers and answers    *)
(* every datagram; activityserver.c, on both address families, answers those *)
(* of 51 bytes.  udpclient.c, udpclientv2.c (which resolves a name) and      *)
(* udpclient_ipv6.c send one datagram each and wait, without a timeout, for  *)
(* one to come back.                                                         *)
(*                                                                           *)
(* The network loses, duplicates and reorders what it carries.               *)
EXTENDS Naturals, Sequences, Bags

CONSTANTS
    AddressClients, \* instances of udpclient
    NameClients,    \* instances of udpclientv2
    IPv6Clients,    \* instances of udpclient_ipv6
    MappedClients,  \* those of them whose address maps an IPv4 one
    NoClient,       \* from_address before the first datagram
    Lengths,        \* lengths of datagrams
    MaxCopies       \* bound: datagrams in the network when one is duplicated

Clients == AddressClients \cup NameClients \cup IPv6Clients

ASSUME MappedAssumption == MappedClients \subseteq IPv6Clients

ExpectedLength == 51

VARIABLES
    program,        \* which server runs
    server,         \* "receive", "reply", or "failed" when a call failed
    from_address,   \* sender of the last datagram received
    recv_count,
    client,         \* where each client is
    length,         \* length of what each client sends
    network,        \* bag of datagrams, to the server or to a client
    answer,         \* number in the answer a client has printed, 0 if none
    received,       \* history: the senders, in the order of recvfrom
    lost            \* history: clients one of whose datagrams or answers got lost

serverVars == <<program, server, from_address, recv_count, received>>
vars == <<serverVars, client, length, network, answer, lost>>

Request(c) == [kind |-> "request", peer |-> c]
Answer(c, n) == [kind |-> "answer", peer |-> c, number |-> n]

Requests == {d \in BagToSet(network) : d.kind = "request"}
Answers  == {d \in BagToSet(network) : d.kind = "answer"}

Init ==
    /\ program \in {"udpserver", "activityserver"}
    /\ server = "receive"
    /\ from_address = NoClient
    /\ recv_count = 0
    /\ client = [c \in Clients |-> "send"]
    /\ length \in [Clients -> Lengths]
    /\ network = EmptyBag
    /\ answer = [c \in Clients |-> 0]
    /\ received = <<>>
    /\ lost = {}

-----------------------------------------------------------------------------
(* The servers *)

\* udpserver binds an AF_INET socket, activityserver one for both families.
Reaches(c) == program = "activityserver" \/ c \notin IPv6Clients \ MappedClients

\* recvfrom: the sender's address and the count are overwritten every time.
Receive(d) ==
    /\ server = "receive"
    /\ network' = network (-) SetToBag({d})
    /\ from_address' = d.peer
    /\ recv_count' = recv_count + 1
    /\ received' = Append(received, d.peer)
    /\ UNCHANGED <<program, client, length, answer, lost>>

UdpReceive ==
    /\ program = "udpserver"
    /\ \E d \in Requests : Receive(d)
    /\ server' = "reply"

WrongLengthUnchecked(c) == FALSE
WrongLength(c) == length[c] # ExpectedLength

\* A datagram of another length is counted and not answered.
AfterWrongLengthStop == "stopped"
AfterWrongLength == "receive"

ActivityReceive ==
    /\ program = "activityserver"
    /\ \E d \in Requests :
          /\ Receive(d)
          /\ server' = IF WrongLength(d.peer) THEN AfterWrongLength ELSE "reply"

\* The thanks go to the address of the last datagram.
Reply(n) ==
    /\ server = "reply"
    /\ network' = network (+) SetToBag({Answer(from_address, n)})
    /\ server' = "receive"
    /\ UNCHANGED <<program, from_address, recv_count, received, client, length,
                   answer, lost>>

Number == recv_count

UdpReply == program = "udpserver" /\ Reply(Number)

\* activityserver puts no number in its answer.
ActivityReply == program = "activityserver" /\ Reply(0)

\* recvfrom or sendto fails: the server ends.
ServerError ==
    /\ server \in {"receive", "reply"}
    /\ server' = "failed"
    /\ UNCHANGED <<program, from_address, recv_count, received, client, length,
                   network, answer, lost>>

-----------------------------------------------------------------------------
(* The clients *)

Goes(c, from, to) == client[c] = from /\ client' = [client EXCEPT ![c] = to]

\* sendto succeeds whether or not anybody listens at the address.
Send(c) ==
    /\ Goes(c, "send", "receive")
    /\ network' = IF Reaches(c) THEN network (+) SetToBag({Request(c)})
                                ELSE network
    /\ UNCHANGED <<serverVars, length, answer, lost>>

\* getaddrinfo does not know the name of the server.
NameUnresolved ==
    /\ \E c \in NameClients : Goes(c, "send", "failed")
    /\ UNCHANGED <<serverVars, length, network, answer, lost>>

\* sendto or recvfrom fails ("sendto error", "receive error").
ClientError(c) ==
    /\ Goes(c, "send", "failed") \/ Goes(c, "receive", "failed")
    /\ UNCHANGED <<serverVars, length, network, answer, lost>>

\* The first datagram that arrives is taken for the answer.
ReceiveAnswer(c) ==
    /\ Goes(c, "receive", "done")
    /\ \E d \in Answers :
          /\ d.peer = c
          /\ answer' = [answer EXCEPT ![c] = d.number]
          /\ network' = network (-) SetToBag({d})
    /\ UNCHANGED <<serverVars, length, lost>>

-----------------------------------------------------------------------------
(* The network *)

Lose ==
    /\ \E d \in BagToSet(network) :
          /\ network' = network (-) SetToBag({d})
          /\ lost' = lost \cup {d.peer}
    /\ UNCHANGED <<serverVars, client, length, answer>>

Duplicate ==
    /\ BagCardinality(network) < MaxCopies
    /\ Len(received) < MaxCopies
    /\ \E d \in BagToSet(network) : network' = network (+) SetToBag({d})
    /\ UNCHANGED <<serverVars, client, length, answer, lost>>

-----------------------------------------------------------------------------
ServerStep == UdpReceive \/ ActivityReceive \/ UdpReply \/ ActivityReply
SendStep == \E c \in Clients : Send(c)

\* Nothing is under way: servers and clients may wait for ever.
Quiet ==
    /\ network = EmptyBag
    /\ server # "reply"
    /\ \A c \in Clients : client[c] # "send"
    /\ UNCHANGED vars

Next ==
    \/ ServerStep
    \/ ServerError
    \/ SendStep
    \/ NameUnresolved
    \/ \E c \in Clients : ReceiveAnswer(c) \/ ClientError(c)
    \/ Lose
    \/ Duplicate
    \/ Quiet

\* Programs that can run do, and what is not lost is delivered.
Fairness ==
    /\ WF_vars(ServerStep)
    /\ WF_vars(SendStep)
    /\ \A c \in Clients : WF_vars(ReceiveAnswer(c))

Spec == Init /\ [][Next]_vars /\ Fairness

-----------------------------------------------------------------------------
(* Every answer, printed or on its way, is to a datagram that the server has *)
(* taken from that client: a number of udpserver is that of one of the       *)
(* client's own datagrams, and activityserver answers none but those of the  *)
(* expected length.  Address and count are single variables that each        *)
(* datagram overwrites (udpserver.c:32-34, 45-49; activityserver.c:51-73).   *)
EarnedBy(c, n) ==
    IF program = "udpserver"
    THEN n \in DOMAIN received /\ received[n] = c
    ELSE length[c] = ExpectedLength /\ \E k \in DOMAIN received : received[k] = c

OwnAnswer ==
    /\ \A d \in Answers : EarnedBy(d.peer, d.number)
    /\ \A c \in Clients : client[c] = "done" => EarnedBy(c, answer[c])

(* A client does not wait for ever without a reason: it ends unless          *)
(* something of its own was lost, its length is the wrong one, its server is *)
(* not on its address family, or the server has ended.  Datagrams of other   *)
(* clients, whatever their length, are no reason (activityserver.c:59-63).   *)
ReasonToWait(c) ==
    \/ c \in lost
    \/ program = "activityserver" /\ length[c] # ExpectedLength
    \/ program = "udpserver" /\ c \in IPv6Clients \ MappedClients

EndsUnlessLost ==
    \A c \in Clients :
        <>(client[c] \in {"done", "failed"} \/ ReasonToWait(c) \/ server = "failed")
=============================================================================
