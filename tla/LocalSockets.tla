---------------------------- MODULE LocalSockets ----------------------------
(* ipc/sockets_intro/unix_domain_sockets.c: servers that each greet one       *)
(* client, and clients, that meet at the name SOCKET_PATH.  No call's result  *)
(* is looked at, so that each goes on with whatever socket it has.            *)
EXTENDS Sequences, Naturals

CONSTANTS
    LocalServers,
    LocalClients,
    Backlog,        \* the 1 of listen: one client more than that may wait
    Nobody

VARIABLES
    name,       \* the server whose socket SOCKET_PATH is, or Nobody
    server,     \* of each server: place, whether its bind succeeded, the clients
                \* waiting for accept, the client accepted, and what it printed
    client      \* of each client: place, server connected to, whether it has
                \* written, and what it read

localVars == <<name, server, client>>

Init ==
    /\ name = Nobody
    /\ server = [s \in LocalServers |-> [at |-> "unlink", bound |-> FALSE,
                    queue |-> <<>>, peer |-> Nobody, heard |-> Nobody]]
    /\ client = [c \in LocalClients |->
                    [at |-> "connect", link |-> Nobody,
                     said |-> FALSE, read |-> ""]]

ServerGoes(s, from, to) == server[s].at = from /\ server' = [server EXCEPT ![s] = to]
ClientGoes(c, from, to) == client[c].at = from /\ client' = [client EXCEPT ![c] = to]

-----------------------------------------------------------------------------
Listening(s) == server[s].bound /\ server[s].at \in {"accept", "read", "write", "close"}

\* Is the server's end of the connection of c there?
Linked(c) ==
    \E s \in LocalServers :
        \/ server[s].peer = c /\ server[s].at \in {"read", "write", "close"}
        \/ Listening(s) /\ \E k \in DOMAIN server[s].queue : server[s].queue[k] = c
Alive(c) == client[c].at \in {"connect", "write", "read"}

Unlink(s) ==
    /\ ServerGoes(s, "unlink", [server[s] EXCEPT !.at = "bind"])
    /\ name' = Nobody
    /\ UNCHANGED client

BindThenUnlink(s) ==
    /\ ServerGoes(s, "bind", [server[s] EXCEPT !.at = "listen", !.bound = (name = Nobody)])
    /\ name' = Nobody
    /\ UNCHANGED client
\* bind fails when the name exists, listen then fails too, and so does accept.
Bind(s) ==
    /\ ServerGoes(s, "bind", [server[s] EXCEPT !.at = "listen", !.bound = (name = Nobody)])
    /\ name' = IF name = Nobody THEN s ELSE name
    /\ UNCHANGED client

Listen(s) ==
    /\ ServerGoes(s, "listen", [server[s] EXCEPT !.at = "accept"])
    /\ UNCHANGED <<name, client>>

Accept(s) ==
    /\ LET q == server[s].queue IN
       /\ server[s].bound => q # <<>>
       /\ ServerGoes(s, "accept",
             IF q = <<>> THEN [server[s] EXCEPT !.at = "read"]
             ELSE [server[s] EXCEPT !.at = "read", !.peer = Head(q), !.queue = Tail(q)])
    /\ UNCHANGED <<name, client>>

\* Without a client, or when it left before it wrote, the buffer is printed as it is.
ServerRead(s) ==
    /\ LET p == server[s].peer IN
       /\ p # Nobody => client[p].said \/ ~Alive(p)
       /\ ServerGoes(s, "read", [server[s] EXCEPT !.at = "write",
             !.heard = IF p # Nobody /\ client[p].said THEN p ELSE "garbage"])
    /\ UNCHANGED <<name, client>>

\* SIGPIPE when the client is gone.
ServerWrite(s) ==
    /\ LET p == server[s].peer IN
       ServerGoes(s, "write", [server[s] EXCEPT
          !.at = IF p = Nobody \/ Alive(p) THEN "close" ELSE "dead"])
    /\ UNCHANGED <<name, client>>

ServerClose(s) ==
    /\ ServerGoes(s, "close", [server[s] EXCEPT !.at = "unlink again"])
    /\ UNCHANGED <<name, client>>

UnlinkAgain(s) ==
    /\ ServerGoes(s, "unlink again", [server[s] EXCEPT !.at = "done"])
    /\ name' = Nobody
    /\ UNCHANGED client

ServerStep(s) ==
    \/ Unlink(s) \/ Bind(s) \/ Listen(s) \/ Accept(s) \/ ServerRead(s)
    \/ ServerWrite(s) \/ ServerClose(s) \/ UnlinkAgain(s)

-----------------------------------------------------------------------------
\* connect waits while the backlog is full, and fails when nobody listens.
Connect(c) ==
    /\ IF name # Nobody /\ Listening(name)
       THEN /\ Len(server[name].queue) <= Backlog
            /\ server' = [server EXCEPT ![name].queue = Append(@, c)]
       ELSE UNCHANGED server
    /\ ClientGoes(c, "connect", [client[c] EXCEPT !.at = "write",
          !.link = IF name # Nobody /\ Listening(name) THEN name ELSE Nobody])
    /\ UNCHANGED name

\* SIGPIPE when the server has closed the connection; a socket without one
\* only fails.
ClientWrite(c) ==
    /\ ClientGoes(c, "write", [client[c] EXCEPT
          !.said = Linked(c),
          !.at = IF client[c].link = Nobody \/ Linked(c) THEN "read" ELSE "dead"])
    /\ UNCHANGED <<name, server>>

Greeted(c) ==
    \E s \in LocalServers :
        server[s].peer = c /\ server[s].at \in {"close", "unlink again", "done"}

\* read waits for the greeting or the end of the connection, and prints either.
ClientRead(c) ==
    /\ Greeted(c) \/ ~Linked(c)
    /\ ClientGoes(c, "read", [client[c] EXCEPT !.at = "done",
          !.read = IF Greeted(c) THEN "Hello from server!" ELSE ""])
    /\ UNCHANGED <<name, server>>

ClientStep(c) == Connect(c) \/ ClientWrite(c) \/ ClientRead(c)

-----------------------------------------------------------------------------
ServerKilled(s) ==
    /\ server[s].at \notin {"unlink", "done", "dead", "killed"}
    /\ server' = [server EXCEPT ![s].at = "killed"]
    /\ UNCHANGED <<name, client>>

ClientKilled(c) ==
    /\ Alive(c)
    /\ client' = [client EXCEPT ![c].at = "killed"]
    /\ UNCHANGED <<name, server>>

Next ==
    \/ \E s \in LocalServers : ServerStep(s) \/ ServerKilled(s)
    \/ \E c \in LocalClients : ClientStep(c) \/ ClientKilled(c)

Spec == Init /\ [][Next]_localVars

-----------------------------------------------------------------------------
Rival(s) == \E r \in LocalServers \ {s} : server[r].at # "unlink"
NoneKilled ==
    /\ \A s \in LocalServers : server[s].at # "killed"
    /\ \A c \in LocalClients : client[c].at # "killed"

(* Nobody looks at an error, and yet: a client that is greeted has been read *)
(* by that server; one that is not has met nobody, or a server that took     *)
(* another; a server with nobody to read, or that waits where no client can  *)
(* find it, has a rival that has unlinked or taken the name since            *)
(* (unix_domain_sockets.c:19-38, 53-58).                                      *)
GreetsWhomItReads ==
    /\ \A c \in LocalClients :
          /\ client[c].read # "" => server[client[c].link].heard = c
          /\ (NoneKilled /\ ~Alive(c) /\ client[c].read = "" /\ client[c].link # Nobody) =>
                server[client[c].link].heard \in LocalClients \ {c}
    /\ \A s \in LocalServers :
          /\ (NoneKilled /\ server[s].heard = "garbage") => Rival(s)
          /\ (server[s].at = "accept" /\ name # s) => Rival(s)
=============================================================================
