------------------------- MODULE StreamExchangeProofs -------------------------
(***************************************************************************)
(* What ends the TCP server and what its clients have printed, for any     *)
(* sets of clients and any lines.                                          *)
(***************************************************************************)
EXTENDS StreamExchange, SequenceTheorems, TLAPS

Serving == {"greet", "read", "answer", "close"}
ClientPlaces == {"connect", "write", "read", "done", "failed"}

Queued(c) == Contains(backlog, c)
Served(c) == server \in Serving /\ connfd = c

TypeInv ==
    /\ server \in Serving \cup {"accept", "dead"}
    /\ server \in Serving => connfd \in Clients
    /\ server = "accept" => connfd = NoClient
    /\ backlog \in Seq(Clients) /\ IsInjective(backlog)
    /\ client \in [Clients -> ClientPlaces]
    /\ DOMAIN toClient = Clients /\ DOMAIN printed = Clients
    /\ sendline \in [Clients -> Seq({"c", "nl"})]
    /\ sent \in [Clients -> Nat] /\ arrived \in [Clients -> Nat] /\ heard \in [Clients -> Nat]
    /\ \A c \in Clients : heard[c] <= arrived[c]
    /\ server = "dead" => backlog = <<>>

\* None, one or both of the texts have been sent to the client.
Got0(c) == printed[c] = <<>> /\ toClient[c] = <<>>
Got1(c) ==
    \/ printed[c] = <<>> /\ toClient[c] = <<"Hello">>
    \/ printed[c] = <<"Hello">> /\ toClient[c] = <<>>
Got2(c) ==
    \/ printed[c] = <<>> /\ toClient[c] = <<"Hello", "Thanks">>
    \/ printed[c] = <<"Hello">> /\ toClient[c] = <<"Thanks">>
    \/ printed[c] = <<"Hello", "Thanks">> /\ toClient[c] = <<>>

\* A client is new, then in the backlog, then served, then closed; while it is
\* in the server's hands only a client that left has ended or is reset.
TurnInv(c) ==
    /\ ~(Queued(c) /\ Served(c))
    /\ client[c] = "connect" =>
         ~Queued(c) /\ ~Served(c) /\ c \notin fin \cup reset \cup leavers
    /\ Queued(c) \/ Served(c) =>
         /\ c \notin fin
         /\ c \in reset \/ client[c] \in Ended => c \in leavers
    /\ c \in leavers => client[c] = "failed"
    /\ client[c] = "done" => c \in fin

\* The server has read to a newline of the client's line.
HeardOut(c) == heard[c] > 0 /\ sendline[c][heard[c]] = "nl"

\* How far the exchange with a client has come, if it stays to the end of it.
ExchangeInv(c) ==
    /\ client[c] = "connect" \/ Queued(c) => Got0(c)
    /\ Served(c) /\ c \notin leavers =>
         /\ server = "greet" => Got0(c)
         /\ server \in {"read", "answer"} => Got1(c)
         /\ server = "close" => Got2(c)
         /\ server \in {"answer", "close"} => HeardOut(c)
    /\ c \in fin /\ c \notin leavers /\ ~(server = "dead" /\ connfd = c) =>
         Got2(c) /\ HeardOut(c) /\ heard[c] = arrived[c]
    /\ client[c] = "done" => toClient[c] = <<>>

IInv ==
    /\ TypeInv /\ DiesOfLeaversOnly
    /\ \A c \in Clients : TurnInv(c) /\ ExchangeInv(c)

-----------------------------------------------------------------------------
(* The backlog as a set: what taking the first and adding a last does to it. *)

LEMMA Shift ==
    ASSUME NEW n \in Nat \ {0}
    PROVE  /\ 1 \in 1 .. n
           /\ \A k \in 1 .. n - 1 : k + 1 \in 1 .. n /\ k + 1 # 1
           /\ \A k \in 1 .. n : k # 1 => k - 1 \in 1 .. n - 1 /\ (k - 1) + 1 = k
           /\ \A k, l \in 1 .. n - 1 : k + 1 = l + 1 => k = l
OBVIOUS

LEMMA TakeFirst ==
    ASSUME NEW S, NEW q \in Seq(S), q # <<>>, IsInjective(q)
    PROVE  /\ Head(q) \in S /\ Contains(q, Head(q))
           /\ Tail(q) \in Seq(S) /\ IsInjective(Tail(q))
           /\ \A d : Contains(Tail(q), d) <=> Contains(q, d) /\ d # Head(q)
<1>1. Len(q) \in Nat \ {0} /\ DOMAIN q = 1 .. Len(q)
  BY LenProperties, EmptySeq
<1>2. /\ Head(q) \in S /\ Tail(q) \in Seq(S) /\ Len(Tail(q)) = Len(q) - 1
      /\ \A k \in 1 .. Len(q) - 1 : Tail(q)[k] = q[k + 1]
  BY HeadTailProperties
<1>3. DOMAIN Tail(q) = 1 .. Len(q) - 1
  BY <1>2, LenProperties
<1>4. Head(q) = q[1]
  OBVIOUS
<1>5. /\ 1 \in 1 .. Len(q)
      /\ \A k \in 1 .. Len(q) - 1 : k + 1 \in 1 .. Len(q) /\ k + 1 # 1
      /\ \A k \in 1 .. Len(q) : k # 1 => k - 1 \in 1 .. Len(q) - 1 /\ (k - 1) + 1 = k
      /\ \A k, l \in 1 .. Len(q) - 1 : k + 1 = l + 1 => k = l
  BY <1>1, Shift
<1>6. IsInjective(Tail(q))
  BY <1>1, <1>2, <1>3, <1>5 DEF IsInjective
<1>7. ASSUME NEW d PROVE Contains(Tail(q), d) <=> Contains(q, d) /\ d # Head(q)
  <2>1. Contains(Tail(q), d) => Contains(q, d) /\ d # q[1]
    BY <1>1, <1>2, <1>5 DEF IsInjective, Contains
  <2>2. ASSUME NEW k \in 1 .. Len(q), q[k] = d, d # q[1] PROVE Contains(Tail(q), d)
    <3>1. k # 1
      BY <2>2
    <3>2. k - 1 \in 1 .. Len(q) - 1 /\ (k - 1) + 1 = k
      BY <1>5, <3>1
    <3>3. Tail(q)[k - 1] = d
      BY <1>2, <2>2, <3>2
    <3>4. QED
      BY <1>2, <3>2, <3>3 DEF Contains
  <2>3. QED
    BY <1>4, <2>1, <2>2 DEF Contains
<1>8. QED
  BY <1>2, <1>4, <1>5, <1>6, <1>7 DEF Contains

LEMMA AddLast ==
    ASSUME NEW S, NEW q \in Seq(S), NEW c \in S, IsInjective(q), ~Contains(q, c)
    PROVE  /\ Append(q, c) \in Seq(S) /\ IsInjective(Append(q, c))
           /\ \A d : Contains(Append(q, c), d) <=> Contains(q, d) \/ d = c
<1>1. Len(q) \in Nat /\ DOMAIN q = 1 .. Len(q)
  BY LenProperties
<1>2. /\ Append(q, c) \in Seq(S) /\ Len(Append(q, c)) = Len(q) + 1
      /\ \A k \in 1 .. Len(q) : Append(q, c)[k] = q[k]
      /\ Append(q, c)[Len(q) + 1] = c
  BY AppendProperties
<1>3. DOMAIN Append(q, c) = 1 .. Len(q) + 1
  BY <1>2, LenProperties
<1>4. 1 .. Len(q) + 1 = 1 .. Len(q) \cup {Len(q) + 1}
  BY <1>1
<1>5. \A k \in 1 .. Len(q) : q[k] # c
  BY DEF Contains
<1>6. IsInjective(Append(q, c))
  BY <1>1, <1>2, <1>3, <1>4, <1>5 DEF IsInjective
<1>7. QED
  BY <1>2, <1>4, <1>6 DEF Contains

LEMMA InSet ==
    ASSUME NEW S, NEW q \in Seq(S)
    PROVE  \A d : d \in ToSet(q) <=> Contains(q, d)
BY LenProperties DEF ToSet, Contains

LEMMA NoneQueued == \A d : ~Contains(<<>>, d)
BY DEF Contains

LEMMA EmptyQueue == ASSUME NEW S PROVE <<>> \in Seq(S) /\ IsInjective(<<>>)
BY DEF IsInjective

LEMMA AppendText == ASSUME NEW a, NEW b PROVE Append(<<a>>, b) = <<a, b>>
<1> DEFINE s == Append(<<a>>, b)
           t == <<a, b>>
<1>1. <<a>> \in Seq({a, b}) /\ t \in Seq({a, b}) /\ Len(<<a>>) = 1 /\ Len(t) = 2
  OBVIOUS
<1>2. s \in Seq({a, b}) /\ Len(s) = 2 /\ s[1] = a /\ s[2] = b
  BY <1>1
<1>3. t[1] = a /\ t[2] = b
  OBVIOUS
<1>4. \A i \in 1 .. 2 : s[i] = t[i]
  <2> HIDE DEF s, t
  <2>1. 1 .. 2 = {1, 2}
    OBVIOUS
  <2>2. QED
    BY <1>2, <1>3, <2>1
<1>5. QED
  BY <1>1, <1>2, <1>4, SeqEqual

\* The two texts in their order.
LEMMA Texts ==
    /\ Append(<<>>, "Hello") = <<"Hello">>
    /\ Append(<<>>, "Thanks") = <<"Thanks">>
    /\ Append(<<"Hello">>, "Thanks") = <<"Hello", "Thanks">>
    /\ Head(<<"Hello">>) = "Hello" /\ Tail(<<"Hello">>) = <<>>
    /\ Head(<<"Thanks">>) = "Thanks" /\ Tail(<<"Thanks">>) = <<>>
    /\ Head(<<"Hello", "Thanks">>) = "Hello" /\ Tail(<<"Hello", "Thanks">>) = <<"Thanks">>
    /\ <<"Hello">> # <<>> /\ <<"Thanks">> # <<>> /\ <<"Hello", "Thanks">> # <<>>
BY AppendText

-----------------------------------------------------------------------------
LEMMA InitIInv == Init => IInv
<1> SUFFICES ASSUME Init PROVE IInv
  OBVIOUS
<1>1. TypeInv
  <2>1. sendline \in [Clients -> Seq({"c", "nl"})]
    BY LinesAssumption DEF Init
  <2>2. QED
    BY <2>1, EmptyQueue DEF Init, TypeInv, Serving, ClientPlaces
<1>2. ASSUME NEW c \in Clients PROVE TurnInv(c) /\ ExchangeInv(c)
  BY NoneQueued DEF Init, TurnInv, ExchangeInv, Queued, Served, Serving, Got0, Ended
<1>3. QED
  BY <1>1, <1>2 DEF Init, IInv, DiesOfLeaversOnly

-----------------------------------------------------------------------------
(* The server's steps *)

LEMMA AcceptStep == ASSUME IInv, ServerAccept PROVE IInv'
<1> USE DEF ServerAccept, stream, history
<1>1. /\ Head(backlog) \in Clients /\ Queued(Head(backlog))
      /\ backlog' \in Seq(Clients) /\ IsInjective(backlog')
      /\ \A d : Queued(d)' <=> Queued(d) /\ d # Head(backlog)
  BY TakeFirst DEF IInv, TypeInv, Queued
<1>2. TypeInv'
  BY <1>1 DEF IInv, TypeInv, Serving
<1>3. DiesOfLeaversOnly'
  BY DEF IInv, DiesOfLeaversOnly
<1>4. ASSUME NEW d \in Clients PROVE TurnInv(d)'
  BY <1>1 DEF IInv, TypeInv, TurnInv, Served, Serving
<1>5. ASSUME NEW d \in Clients PROVE ExchangeInv(d)'
  BY <1>1 DEF IInv, TypeInv, TurnInv, ExchangeInv, Served, Serving, Got0, Got1, Got2, HeardOut
<1>6. QED
  BY <1>2, <1>3, <1>4, <1>5 DEF IInv

LEMMA AcceptAbortedStep == ASSUME IInv, ServerAcceptAborted PROVE IInv'
<1> USE DEF ServerAcceptAborted, stream, history
<1>1. /\ Head(backlog) \in Clients /\ Queued(Head(backlog))
      /\ backlog' \in Seq(Clients) /\ IsInjective(backlog')
      /\ \A d : Queued(d)' <=> Queued(d) /\ d # Head(backlog)
  BY TakeFirst DEF IInv, TypeInv, Queued
<1>2. TypeInv'
  BY <1>1 DEF IInv, TypeInv, Serving
<1>3. DiesOfLeaversOnly'
  BY DEF IInv, DiesOfLeaversOnly
<1>4. ASSUME NEW d \in Clients PROVE TurnInv(d)'
  BY <1>1 DEF IInv, TypeInv, TurnInv, Served, Serving
<1>5. ASSUME NEW d \in Clients PROVE ExchangeInv(d)'
  BY <1>1 DEF IInv, TypeInv, TurnInv, ExchangeInv, Served, Serving, Got0, Got1, Got2, HeardOut
<1>6. QED
  BY <1>2, <1>3, <1>4, <1>5 DEF IInv

LEMMA GreetStep == ASSUME IInv, ServerGreet PROVE IInv'
<1> USE DEF ServerGreet, ServerWrite, stream, history, serverVars
<1>1. \A d : Queued(d)' <=> Queued(d)
  BY DEF Queued
<1>2. TypeInv'
  BY <1>1 DEF IInv, TypeInv, Serving, ClientPlaces, TurnInv, Served, Queued
<1>3. DiesOfLeaversOnly'
  BY DEF IInv, DiesOfLeaversOnly, TypeInv, TurnInv, Served, Serving
<1>4. ASSUME NEW d \in Clients PROVE TurnInv(d)'
  BY <1>1 DEF IInv, TypeInv, TurnInv, Served, Serving, Ended
<1>5. ASSUME NEW d \in Clients PROVE ExchangeInv(d)'
  <2>1. CASE d = connfd
    <3>1. /\ Served(d) /\ d \notin fin /\ ~Queued(d) /\ d \in DOMAIN toClient
          /\ client[d] \notin {"connect", "done"}
          /\ d \notin leavers => Got0(d)
      BY <2>1 DEF IInv, TypeInv, TurnInv, ExchangeInv, Served, Serving
    <3>2. toClient'[d] = Append(toClient[d], "Hello") /\ printed' = printed
      BY <2>1, <3>1
    <3>3. d \notin leavers => Got1(d)'
      BY <3>1, <3>2, Texts DEF Got0, Got1
    <3>4. QED
      BY <1>1, <3>1, <3>3 DEF ExchangeInv, Served, Serving
  <2>2. CASE d # connfd
    BY <1>1, <2>2 DEF IInv, TypeInv, ExchangeInv, Served, Serving, Got0, Got1, Got2, HeardOut
  <2>3. QED
    BY <2>1, <2>2
<1>6. QED
  BY <1>2, <1>3, <1>4, <1>5 DEF IInv

LEMMA ReadStep == ASSUME IInv, ServerRead PROVE IInv'
<1> USE DEF ServerRead, history
<1>1. PICK n \in heard[connfd] + 1 .. arrived[connfd] :
         /\ heard' = [heard EXCEPT ![connfd] = n]
         /\ server' = IF EndsMessage(connfd, n) THEN "answer" ELSE "read"
  OBVIOUS
<1>2. connfd \in Clients /\ heard[connfd] \in Nat /\ arrived[connfd] \in Nat
  BY DEF IInv, TypeInv, Serving
<1>3. n \in Nat /\ n > 0
  BY <1>2
<1>4. /\ server = "read" /\ server' \in {"read", "answer"}
      /\ server' = "answer" => HeardOut(connfd)'
      /\ \A d \in Clients : d # connfd => heard'[d] = heard[d]
      /\ heard' \in [Clients -> Nat] /\ heard'[connfd] <= arrived[connfd]
  BY <1>1, <1>2, <1>3 DEF EndsMessage, HeardOut, IInv, TypeInv
<1>5. \A d : Queued(d)' <=> Queued(d)
  BY DEF Queued
<1>6. TypeInv'
  BY <1>2, <1>4 DEF IInv, TypeInv, Serving
<1>7. DiesOfLeaversOnly'
  BY <1>4 DEF DiesOfLeaversOnly
<1>8. ASSUME NEW d \in Clients PROVE TurnInv(d)'
  BY <1>4, <1>5 DEF IInv, TurnInv, Served, Serving
<1>9. connfd \notin fin
  BY <1>2, <1>4 DEF IInv, TurnInv, Served, Serving
<1>10. ASSUME NEW d \in Clients PROVE ExchangeInv(d)'
  <2>1. CASE d = connfd
    BY <1>4, <1>5, <1>9, <2>1 DEF IInv, ExchangeInv, Served, Serving, Got0, Got1, Got2, HeardOut
  <2>2. CASE d # connfd
    BY <1>4, <1>5, <2>2 DEF IInv, ExchangeInv, Served, Serving, Got0, Got1, Got2, HeardOut
  <2>3. QED
    BY <2>1, <2>2
<1>11. QED
  BY <1>6, <1>7, <1>8, <1>10 DEF IInv

LEMMA ReadEndStep == ASSUME IInv, ServerReadEnd PROVE IInv'
<1> USE DEF ServerReadEnd, StreamEnded, stream, history, serverVars
<1>1. \A d : Queued(d)' <=> Queued(d)
  BY DEF Queued
<1>2. TypeInv'
  BY <1>1 DEF IInv, TypeInv, Serving, ClientPlaces, TurnInv, Served, Queued
<1>3. DiesOfLeaversOnly'
  BY DEF IInv, DiesOfLeaversOnly, TypeInv, TurnInv, Served, Serving
<1>4. ASSUME NEW d \in Clients PROVE TurnInv(d)'
  BY <1>1 DEF IInv, TypeInv, TurnInv, Served, Serving, Ended
<1>5. ASSUME NEW d \in Clients PROVE ExchangeInv(d)'
  BY <1>1 DEF IInv, TypeInv, TurnInv, ExchangeInv, Served, Serving, Ended, Got0, Got1, Got2, HeardOut
<1>6. QED
  BY <1>2, <1>3, <1>4, <1>5 DEF IInv

LEMMA AnswerStep == ASSUME IInv, ServerAnswer PROVE IInv'
<1> USE DEF ServerAnswer, ServerWrite, stream, history, serverVars
<1>1. \A d : Queued(d)' <=> Queued(d)
  BY DEF Queued
<1>2. TypeInv'
  BY <1>1 DEF IInv, TypeInv, Serving, ClientPlaces, TurnInv, Served, Queued
<1>3. DiesOfLeaversOnly'
  BY DEF IInv, DiesOfLeaversOnly, TypeInv, TurnInv, Served, Serving
<1>4. ASSUME NEW d \in Clients PROVE TurnInv(d)'
  BY <1>1 DEF IInv, TypeInv, TurnInv, Served, Serving, Ended
<1>5. ASSUME NEW d \in Clients PROVE ExchangeInv(d)'
  <2>1. CASE d = connfd
    <3>1. /\ Served(d) /\ d \notin fin /\ ~Queued(d) /\ d \in DOMAIN toClient
          /\ client[d] \notin {"connect", "done"}
          /\ d \notin leavers => Got1(d) /\ HeardOut(d)
      BY <2>1 DEF IInv, TypeInv, TurnInv, ExchangeInv, Served, Serving
    <3>2. toClient'[d] = Append(toClient[d], "Thanks") /\ printed' = printed
      BY <2>1, <3>1
    <3>3. ASSUME d \notin leavers PROVE Got2(d)' /\ HeardOut(d)'
      <4>1. CASE printed[d] = <<>> /\ toClient[d] = <<"Hello">>
        BY <3>1, <3>2, <3>3, <4>1, Texts DEF Got2, HeardOut
      <4>2. CASE printed[d] = <<"Hello">> /\ toClient[d] = <<>>
        BY <3>1, <3>2, <3>3, <4>2, Texts DEF Got2, HeardOut
      <4>3. QED
        BY <3>1, <3>3, <4>1, <4>2 DEF Got1
    <3>4. QED
      BY <1>1, <3>1, <3>3 DEF ExchangeInv, Served, Serving
  <2>2. CASE d # connfd
    BY <1>1, <2>2 DEF IInv, TypeInv, ExchangeInv, Served, Serving, Got0, Got1, Got2, HeardOut
  <2>3. QED
    BY <2>1, <2>2
<1>6. QED
  BY <1>2, <1>3, <1>4, <1>5 DEF IInv

LEMMA CloseStep == ASSUME IInv, ServerClose PROVE IInv'
<1> USE DEF ServerClose, Unread, stream, history, serverVars
<1>1. \A d : Queued(d)' <=> Queued(d)
  BY DEF Queued
<1>2. TypeInv'
  BY <1>1 DEF IInv, TypeInv, Serving, ClientPlaces, TurnInv, Served, Queued
<1>3. DiesOfLeaversOnly'
  BY DEF IInv, DiesOfLeaversOnly, TypeInv, TurnInv, Served, Serving
<1>4. ASSUME NEW d \in Clients PROVE TurnInv(d)'
  BY <1>1 DEF IInv, TypeInv, TurnInv, Served, Serving, Ended
<1>5. connfd \in fin' => connfd \in fin \/ heard[connfd] = arrived[connfd]
  BY DEF IInv, TypeInv, Serving
<1>6. ASSUME NEW d \in Clients PROVE ExchangeInv(d)'
  <2>1. CASE d = connfd
    <3>1. Served(d) /\ ~Queued(d) /\ d \notin fin /\ client[d] # "connect"
      BY <2>1 DEF IInv, TypeInv, TurnInv, Served, Serving
    <3>2. d \notin leavers => Got2(d) /\ HeardOut(d)
      BY <2>1, <3>1 DEF IInv, ExchangeInv, Served, Serving
    <3>3. client[d] = "done" => toClient[d] = <<>>
      BY DEF IInv, ExchangeInv
    <3>4. QED
      BY <1>1, <1>5, <2>1, <3>1, <3>2, <3>3
         DEF ExchangeInv, Served, Serving, Got2, HeardOut
  <2>2. CASE d # connfd
    BY <1>1, <2>2
       DEF IInv, TypeInv, ExchangeInv, Served, Serving, Got0, Got1, Got2, HeardOut
  <2>3. QED
    BY <2>1, <2>2
<1>7. QED
  BY <1>2, <1>3, <1>4, <1>6 DEF IInv

Cause == \/ fault' # "none"
         \/ server \in Serving /\ connfd \in leavers /\ fault' = fault

LEMMA DeathStep ==
    ASSUME IInv, server # "dead", NEW unread, unread \subseteq {connfd} \ {NoClient},
           Die(unread), Cause, heard' \in [Clients -> Nat],
           \A d \in Clients : heard'[d] <= arrived[d] /\ (d # connfd => heard'[d] = heard[d]),
           UNCHANGED <<sent, arrived>>
    PROVE  IInv'
<1>1. /\ \A d : ~Queued(d)'
      /\ \A d : d \in ToSet(backlog) <=> Queued(d)
      /\ \A d : ~Served(d)'
  BY NoneQueued, InSet DEF IInv, TypeInv, Queued, Served, Serving, Die
<1>2. TypeInv'
  BY EmptyQueue DEF IInv, TypeInv, Serving, Die
<1>3. DiesOfLeaversOnly'
  BY DEF IInv, DiesOfLeaversOnly, Die, Cause
<1>4. \A d \in Clients : d \in {connfd} \ {NoClient} => Served(d)
  BY DEF IInv, TypeInv, Served
<1>5. ASSUME NEW d \in Clients PROVE TurnInv(d)'
  BY <1>1, <1>4 DEF IInv, TurnInv, Die
<1>6. ASSUME NEW d \in Clients PROVE ExchangeInv(d)'
  <2>1. CASE d = connfd
    BY <1>1, <1>4, <2>1 DEF IInv, TypeInv, TurnInv, ExchangeInv, Served, Die, Got0, Got1, Got2
  <2>2. CASE d # connfd
    BY <1>1, <1>4, <2>2
       DEF IInv, TypeInv, TurnInv, ExchangeInv, Served, Die, Got0, Got1, Got2, HeardOut
  <2>3. QED
    BY <2>1, <2>2
<1>7. QED
  BY <1>2, <1>3, <1>5, <1>6 DEF IInv

LEMMA DeathHereStep ==
    ASSUME IInv, ServerReadError \/ ServerBrokenPipe \/ ServerAcceptFails \/ ServerKilled
    PROVE  IInv'
<1>1. server # "dead" /\ DieHere /\ Cause
  BY DEF IInv, TypeInv, TurnInv, Served, Serving, Cause, ServerReadError,
         ServerBrokenPipe, ServerAcceptFails, ServerKilled
<1>2. QED
  BY <1>1, DeathStep DEF DieHere, Die, IInv, TypeInv

LEMMA PrintFailsStep == ASSUME IInv, ServerPrintFails PROVE IInv'
<1>1. PICK n \in heard[connfd] + 1 .. arrived[connfd] :
         /\ heard' = [heard EXCEPT ![connfd] = n]
         /\ Die({c \in {connfd} : n < arrived[c]})
  BY DEF ServerPrintFails
<1>2. server # "dead" /\ Cause
  BY DEF ServerPrintFails, Cause
<1>3. connfd \in Clients /\ heard[connfd] \in Nat /\ arrived[connfd] \in Nat
  BY DEF ServerPrintFails, IInv, TypeInv, Serving
<1>4. n \in Nat /\ connfd # NoClient
  BY <1>3, NoClientAssumption
<1>5. /\ heard' \in [Clients -> Nat]
      /\ \A d \in Clients : heard'[d] <= arrived[d] /\ (d # connfd => heard'[d] = heard[d])
  BY <1>1, <1>3, <1>4 DEF IInv, TypeInv
<1>6. QED
  BY <1>1, <1>2, <1>4, <1>5, DeathStep DEF Die

-----------------------------------------------------------------------------
(* The steps of the clients *)

LEMMA ConnectStepInv == ASSUME NEW c \in Clients, IInv, Connect(c) PROVE IInv'
<1> USE DEF Connect, Goes, stream, history, serverVars
<1>1. /\ backlog' \in Seq(Clients) /\ IsInjective(backlog')
      /\ \A d : Queued(d)' <=> Queued(d) \/ d = c
  BY AddLast DEF IInv, TypeInv, TurnInv, Queued
<1>2. TypeInv'
  BY <1>1 DEF IInv, TypeInv, ClientPlaces
<1>3. DiesOfLeaversOnly'
  BY DEF IInv, DiesOfLeaversOnly
<1>4. ASSUME NEW d \in Clients PROVE TurnInv(d)'
  BY <1>1 DEF IInv, TypeInv, TurnInv, Served, Ended
<1>5. ASSUME NEW d \in Clients PROVE ExchangeInv(d)'
  BY <1>1 DEF IInv, TypeInv, TurnInv, ExchangeInv, Served, Got0, Got1, Got2, HeardOut
<1>6. QED
  BY <1>2, <1>3, <1>4, <1>5 DEF IInv

LEMMA RefusedStep == ASSUME NEW c \in Clients, IInv, ConnectRefused(c) PROVE IInv'
<1> USE DEF ConnectRefused, Goes, stream, history, serverVars
<1>1. \A d : Queued(d)' <=> Queued(d)
  BY DEF Queued
<1>2. TypeInv'
  BY DEF IInv, TypeInv, ClientPlaces
<1>3. DiesOfLeaversOnly'
  BY DEF IInv, DiesOfLeaversOnly
<1>4. ASSUME NEW d \in Clients PROVE TurnInv(d)'
  BY <1>1 DEF IInv, TypeInv, TurnInv, Served, Ended
<1>5. ASSUME NEW d \in Clients PROVE ExchangeInv(d)'
  BY <1>1 DEF IInv, TypeInv, TurnInv, ExchangeInv, Served, Got0, Got1, Got2, HeardOut
<1>6. QED
  BY <1>2, <1>3, <1>4, <1>5 DEF IInv

LEMMA IPv6Step == ASSUME NEW c \in Clients, IInv, ConnectIPv6(c) PROVE IInv'
<1> USE DEF ConnectIPv6, Goes, stream, history, serverVars
<1>1. \A d : Queued(d)' <=> Queued(d)
  BY DEF Queued
<1>2. TypeInv'
  BY DEF IInv, TypeInv, ClientPlaces
<1>3. DiesOfLeaversOnly'
  BY DEF IInv, DiesOfLeaversOnly
<1>4. ASSUME NEW d \in Clients PROVE TurnInv(d)'
  BY <1>1 DEF IInv, TypeInv, TurnInv, Served, Ended
<1>5. ASSUME NEW d \in Clients PROVE ExchangeInv(d)'
  BY <1>1 DEF IInv, TypeInv, TurnInv, ExchangeInv, Served, Got0, Got1, Got2, HeardOut
<1>6. QED
  BY <1>2, <1>3, <1>4, <1>5 DEF IInv

LEMMA WriteLineStep == ASSUME NEW c \in Clients, IInv, WriteLine(c) PROVE IInv'
<1> USE DEF WriteLine, AfterWriteLine, Goes, stream, history, serverVars
<1>1. \A d : Queued(d)' <=> Queued(d)
  BY DEF Queued
<1>2. TypeInv'
  <2>1. Len(sendline[c]) \in Nat
    BY LenProperties DEF IInv, TypeInv
  <2>2. QED
    BY <2>1 DEF IInv, TypeInv, ClientPlaces
<1>3. DiesOfLeaversOnly'
  BY DEF IInv, DiesOfLeaversOnly
<1>4. ASSUME NEW d \in Clients PROVE TurnInv(d)'
  BY <1>1 DEF IInv, TypeInv, TurnInv, Served, Ended
<1>5. ASSUME NEW d \in Clients PROVE ExchangeInv(d)'
  BY <1>1 DEF IInv, TypeInv, TurnInv, ExchangeInv, Served, Got0, Got1, Got2, HeardOut
<1>6. QED
  BY <1>2, <1>3, <1>4, <1>5 DEF IInv

LEMMA WriteErrorStep == ASSUME NEW c \in Clients, IInv, WriteError(c) PROVE IInv'
<1> USE DEF WriteError, Goes, stream, history, serverVars
<1>1. \A d : Queued(d)' <=> Queued(d)
  BY DEF Queued
<1>2. TypeInv'
  BY DEF IInv, TypeInv, ClientPlaces
<1>3. DiesOfLeaversOnly'
  BY DEF IInv, DiesOfLeaversOnly
<1>4. ASSUME NEW d \in Clients PROVE TurnInv(d)'
  BY <1>1 DEF IInv, TypeInv, TurnInv, Served, Ended
<1>5. ASSUME NEW d \in Clients PROVE ExchangeInv(d)'
  BY <1>1 DEF IInv, TypeInv, TurnInv, ExchangeInv, Served, Got0, Got1, Got2, HeardOut
<1>6. QED
  BY <1>2, <1>3, <1>4, <1>5 DEF IInv

LEMMA ReadAnswerStep == ASSUME NEW c \in Clients, IInv, ReadAnswer(c) PROVE IInv'
<1> USE DEF ReadAnswer, stream, history, serverVars
<1>1. \A d : Queued(d)' <=> Queued(d)
  BY DEF Queued
<1>2. TypeInv'
  BY DEF IInv, TypeInv, ClientPlaces
<1>3. DiesOfLeaversOnly'
  BY DEF IInv, DiesOfLeaversOnly
<1>4. ASSUME NEW d \in Clients PROVE TurnInv(d)'
  BY <1>1 DEF IInv, TypeInv, TurnInv, Served, Ended
<1>5. ASSUME NEW d \in Clients PROVE ExchangeInv(d)'
  <2>1. CASE d = c
    <3>1. /\ d \in DOMAIN toClient /\ d \in DOMAIN printed
          /\ toClient[d] # <<>> /\ client[d] = "read" /\ ~Got0(d)
      BY <2>1 DEF IInv, TypeInv, Got0
    <3>2. /\ toClient'[d] = Tail(toClient[d])
          /\ printed'[d] = Append(printed[d], Head(toClient[d]))
      BY <2>1, <3>1
    <3>3. Got1(d) => Got1(d)'
      BY <3>1, <3>2, Texts DEF Got1
    <3>4. Got2(d) => Got2(d)'
      <4>1. CASE printed[d] = <<>> /\ toClient[d] = <<"Hello", "Thanks">>
        BY <3>2, <4>1, Texts DEF Got2
      <4>2. CASE printed[d] = <<"Hello">> /\ toClient[d] = <<"Thanks">>
        BY <3>2, <4>2, Texts DEF Got2
      <4>3. QED
        BY <3>1, <4>1, <4>2 DEF Got2
    <3>5. QED
      BY <1>1, <3>1, <3>3, <3>4 DEF IInv, ExchangeInv, Served, HeardOut
  <2>2. CASE d # c
    BY <1>1, <2>2 DEF IInv, TypeInv, ExchangeInv, Served, Got0, Got1, Got2, HeardOut
  <2>3. QED
    BY <2>1, <2>2
<1>6. QED
  BY <1>2, <1>3, <1>4, <1>5 DEF IInv

LEMMA ReadEndOfStreamStep == ASSUME NEW c \in Clients, IInv, ReadEnd(c) PROVE IInv'
<1> USE DEF ReadEnd, Goes, stream, history, serverVars
<1>1. \A d : Queued(d)' <=> Queued(d)
  BY DEF Queued
<1>2. TypeInv'
  BY DEF IInv, TypeInv, ClientPlaces
<1>3. DiesOfLeaversOnly'
  BY DEF IInv, DiesOfLeaversOnly
<1>4. ASSUME NEW d \in Clients PROVE TurnInv(d)'
  BY <1>1 DEF IInv, TypeInv, TurnInv, Served, Ended
<1>5. ASSUME NEW d \in Clients PROVE ExchangeInv(d)'
  BY <1>1 DEF IInv, TypeInv, TurnInv, ExchangeInv, Served, Got0, Got1, Got2, HeardOut
<1>6. QED
  BY <1>2, <1>3, <1>4, <1>5 DEF IInv

LEMMA ReadErrorStep == ASSUME NEW c \in Clients, IInv, ReadError(c) PROVE IInv'
<1> USE DEF ReadError, Goes, stream, history, serverVars
<1>1. \A d : Queued(d)' <=> Queued(d)
  BY DEF Queued
<1>2. TypeInv'
  BY DEF IInv, TypeInv, ClientPlaces
<1>3. DiesOfLeaversOnly'
  BY DEF IInv, DiesOfLeaversOnly
<1>4. ASSUME NEW d \in Clients PROVE TurnInv(d)'
  BY <1>1 DEF IInv, TypeInv, TurnInv, Served, Ended
<1>5. ASSUME NEW d \in Clients PROVE ExchangeInv(d)'
  BY <1>1 DEF IInv, TypeInv, TurnInv, ExchangeInv, Served, Got0, Got1, Got2, HeardOut
<1>6. QED
  BY <1>2, <1>3, <1>4, <1>5 DEF IInv

LEMMA LeaveStep == ASSUME NEW c \in Clients, IInv, Leave(c), client[c] \in {"write", "read"} PROVE IInv'
<1> USE DEF Leave, stream, history, serverVars
<1>1. \A d : Queued(d)' <=> Queued(d)
  BY DEF Queued
<1>2. TypeInv'
  BY DEF IInv, TypeInv, ClientPlaces
<1>3. DiesOfLeaversOnly'
  BY DEF IInv, DiesOfLeaversOnly
<1>4. ASSUME NEW d \in Clients PROVE TurnInv(d)'
  BY <1>1 DEF IInv, TypeInv, TurnInv, Served, Ended
<1>5. ASSUME NEW d \in Clients PROVE ExchangeInv(d)'
  BY <1>1 DEF IInv, TypeInv, TurnInv, ExchangeInv, Served, Got0, Got1, Got2, HeardOut
<1>6. QED
  BY <1>2, <1>3, <1>4, <1>5 DEF IInv

LEMMA ClientPrintFailsStep == ASSUME NEW c \in Clients, IInv, PrintFails(c) PROVE IInv'
<1> USE DEF PrintFails, stream, history, serverVars
<1>1. \A d : Queued(d)' <=> Queued(d)
  BY DEF Queued
<1>2. TypeInv'
  BY DEF IInv, TypeInv, ClientPlaces
<1>3. DiesOfLeaversOnly'
  BY DEF IInv, DiesOfLeaversOnly
<1>4. ASSUME NEW d \in Clients PROVE TurnInv(d)'
  BY <1>1 DEF IInv, TypeInv, TurnInv, Served, Ended
<1>5. ASSUME NEW d \in Clients PROVE ExchangeInv(d)'
  BY <1>1 DEF IInv, TypeInv, TurnInv, ExchangeInv, Served, Got0, Got1, Got2, HeardOut
<1>6. QED
  BY <1>2, <1>3, <1>4, <1>5 DEF IInv

LEMMA ArriveStep == ASSUME NEW c \in Clients, IInv, Arrive(c) PROVE IInv'
<1> USE DEF Arrive, history, serverVars
<1>1. \A d : Queued(d)' <=> Queued(d)
  BY DEF Queued
<1>2. TypeInv'
  <2>1. arrived[c] \in Nat /\ sent[c] \in Nat
    BY DEF IInv, TypeInv
  <2>2. PICK n \in arrived[c] + 1 .. sent[c] : arrived' = [arrived EXCEPT ![c] = n]
    OBVIOUS
  <2>3. n \in Nat /\ arrived[c] <= n
    BY <2>1, <2>2
  <2>4. arrived' \in [Clients -> Nat]
    BY <2>2, <2>3 DEF IInv, TypeInv
  <2>5. \A d \in Clients : heard[d] <= arrived'[d]
    <3>1. \A d \in Clients : heard[d] \in Nat /\ arrived[d] \in Nat /\ heard[d] <= arrived[d]
      BY DEF IInv, TypeInv
    <3>2. \A d \in Clients : arrived'[d] = IF d = c THEN n ELSE arrived[d]
      BY <2>2 DEF IInv, TypeInv
    <3>3. QED
      BY <2>1, <2>3, <3>1, <3>2
  <2>6. QED
    BY <2>4, <2>5 DEF IInv, TypeInv
<1>3. DiesOfLeaversOnly'
  BY DEF IInv, DiesOfLeaversOnly
<1>4. ASSUME NEW d \in Clients PROVE TurnInv(d)'
  BY <1>1 DEF IInv, TypeInv, TurnInv, Served, Ended
<1>5. ASSUME NEW d \in Clients PROVE ExchangeInv(d)'
  BY <1>1 DEF IInv, TypeInv, TurnInv, ExchangeInv, Served, Got0, Got1, Got2, HeardOut
<1>6. QED
  BY <1>2, <1>3, <1>4, <1>5 DEF IInv

LEMMA ArriveLateStep == ASSUME NEW c \in Clients, IInv, ArriveLate(c) PROVE IInv'
<1> USE DEF ArriveLate, stream, history, serverVars
<1>1. \A d : Queued(d)' <=> Queued(d)
  BY DEF Queued
<1>2. TypeInv'
  BY DEF IInv, TypeInv, ClientPlaces
<1>3. DiesOfLeaversOnly'
  BY DEF IInv, DiesOfLeaversOnly
<1>4. ASSUME NEW d \in Clients PROVE TurnInv(d)'
  BY <1>1 DEF IInv, TypeInv, TurnInv, Served, Ended
<1>5. ASSUME NEW d \in Clients PROVE ExchangeInv(d)'
  BY <1>1 DEF IInv, TypeInv, TurnInv, ExchangeInv, Served, Got0, Got1, Got2, HeardOut
<1>6. QED
  BY <1>2, <1>3, <1>4, <1>5 DEF IInv

LEMMA PeerResetsStep == ASSUME NEW c \in Clients, IInv, PeerResets(c) PROVE IInv'
<1> USE DEF PeerResets, stream, history, serverVars
<1>1. \A d : Queued(d)' <=> Queued(d)
  BY DEF Queued
<1>2. TypeInv'
  BY DEF IInv, TypeInv, ClientPlaces
<1>3. DiesOfLeaversOnly'
  BY DEF IInv, DiesOfLeaversOnly
<1>4. ASSUME NEW d \in Clients PROVE TurnInv(d)'
  BY <1>1 DEF IInv, TypeInv, TurnInv, Served, Ended
<1>5. ASSUME NEW d \in Clients PROVE ExchangeInv(d)'
  BY <1>1 DEF IInv, TypeInv, TurnInv, ExchangeInv, Served, Got0, Got1, Got2, HeardOut
<1>6. QED
  BY <1>2, <1>3, <1>4, <1>5 DEF IInv

-----------------------------------------------------------------------------
LEMMA NextIInv == IInv /\ [Next]_vars => IInv'
<1> SUFFICES ASSUME IInv, [Next]_vars PROVE IInv'
  OBVIOUS
<1>1. CASE ServerStep
  BY <1>1, AcceptStep, AcceptAbortedStep, GreetStep, ReadStep, ReadEndStep,
     AnswerStep, CloseStep, DeathHereStep DEF ServerStep
<1>2. CASE ServerAcceptFails \/ ServerPrintFails \/ ServerKilled
  BY <1>2, DeathHereStep, PrintFailsStep
<1>3. CASE ConnectStep
  BY <1>3, ConnectStepInv, IPv6Step DEF ConnectStep, Clients
<1>4. CASE \E c \in Clients : ClientStep(c)
  BY <1>4, RefusedStep, WriteLineStep, WriteErrorStep, ReadAnswerStep,
     ReadEndOfStreamStep, ReadErrorStep DEF ClientStep
<1>5. CASE \E c \in Clients : ClientFault(c)
  BY <1>5, LeaveStep, ClientPrintFailsStep, PeerResetsStep, ArriveLateStep
     DEF ClientFault, Interrupted
<1>6. CASE \E c \in TimedClients : ReadTimeout(c)
  BY <1>6, LeaveStep DEF ReadTimeout, Clients
<1>7. CASE \E c \in Clients : Arrive(c)
  BY <1>7, ArriveStep
<1>8. CASE UNCHANGED vars
  <2>1. /\ UNCHANGED <<server, connfd, backlog, client, sendline, sent, arrived, heard>>
        /\ UNCHANGED <<toClient, fin, reset, printed, leavers, fault>>
    BY <1>8 DEF vars, serverVars, stream, history
  <2>2. TypeInv' /\ DiesOfLeaversOnly'
    BY <2>1 DEF IInv, TypeInv, DiesOfLeaversOnly
  <2>3. ASSUME NEW d \in Clients PROVE TurnInv(d)' /\ ExchangeInv(d)'
    BY <2>1 DEF IInv, TurnInv, ExchangeInv, Queued, Served, Got0, Got1, Got2, HeardOut
  <2>4. QED
    BY <2>2, <2>3 DEF IInv
<1>9. QED
  BY <1>1, <1>2, <1>3, <1>4, <1>5, <1>6, <1>7, <1>8 DEF Next, AllServed

LEMMA AnswersAreComplete == IInv => AnswerComplete
<1> SUFFICES ASSUME IInv, NEW c \in Clients, client[c] = "done",
                    ~(server = "dead" /\ connfd = c)
             PROVE  /\ printed[c] = <<"Hello", "Thanks">>
                    /\ HeardOut(c) /\ heard[c] = arrived[c]
  BY DEF AnswerComplete, HeardOut
<1>1. c \in fin /\ c \notin leavers
  BY DEF IInv, TurnInv
<1>2. Got2(c) /\ HeardOut(c) /\ heard[c] = arrived[c] /\ toClient[c] = <<>>
  BY <1>1 DEF IInv, ExchangeInv
<1>3. QED
  BY <1>2, Texts DEF Got2

(* A client that ends with success has its whole answer and was heard up to  *)
(* a newline of its line, and nothing of it that had arrived was dropped,    *)
(* however the line was cut on its way, and whoever else connects, times out *)
(* or is interrupted; unless the server ended while serving it               *)
(* (tcpserver.c:45-74, tcpclient.c:37-52).                                   *)
THEOREM WholeAnswers == Spec => []AnswerComplete
<1>1. Init => IInv
  BY InitIInv
<1>2. IInv /\ [Next]_vars => IInv'
  BY NextIInv
<1>3. IInv => AnswerComplete
  BY AnswersAreComplete
<1>4. QED
  BY <1>1, <1>2, <1>3, PTL DEF Spec

(* Unless it is killed, or accept or its own printing fails, only a client   *)
(* that leaves early ends the server, of any number of clients of the three  *)
(* kinds (tcpserver.c:64, 73).                                               *)
THEOREM ServesThePatient == Spec => []DiesOfLeaversOnly
<1>1. Init => IInv
  BY InitIInv
<1>2. IInv /\ [Next]_vars => IInv'
  BY NextIInv
<1>3. IInv => DiesOfLeaversOnly
  BY DEF IInv
<1>4. QED
  BY <1>1, <1>2, <1>3, PTL DEF Spec
=============================================================================
