------------------------ MODULE DatagramExchangeProofs ------------------------
(***************************************************************************)
(* For whom an answer of the UDP servers is, for any clients and lengths,  *)
(* whatever the network loses, duplicates and reorders.                    *)
(***************************************************************************)
EXTENDS DatagramExchange, SequenceTheorems, TLAPS

IsRequest(d) == \E c \in Clients : d = Request(c)
IsEarned(d) == \E c \in Clients, n \in Nat : d = Answer(c, n) /\ EarnedBy(c, n)

TypeInv ==
    /\ program \in {"udpserver", "activityserver"}
    /\ received \in Seq(Clients) /\ recv_count = Len(received)
    /\ DOMAIN client = Clients /\ DOMAIN answer = Clients

\* The number that the server is about to send.
AboutToSend == IF program = "udpserver" THEN recv_count ELSE 0

IInv ==
    /\ TypeInv
    /\ \A d \in BagToSet(network) : IsRequest(d) \/ IsEarned(d)
    /\ server = "reply" => from_address \in Clients /\ EarnedBy(from_address, AboutToSend)
    /\ \A c \in Clients : client[c] = "done" => EarnedBy(c, answer[c])

-----------------------------------------------------------------------------
(* Bags as sets, and the two kinds of datagrams *)

LEMMA BagAdd == ASSUME NEW B, NEW d
                PROVE  BagToSet(B (+) SetToBag({d})) = BagToSet(B) \cup {d}
BY DEF BagToSet, SetToBag, (+)

LEMMA BagRemove == ASSUME NEW B, NEW C PROVE BagToSet(B (-) C) \subseteq BagToSet(B)
BY DEF BagToSet, (-)

LEMMA BagEmpty == BagToSet(EmptyBag) = {}
BY DEF BagToSet, EmptyBag, SetToBag

LEMMA RequestFields == ASSUME NEW c PROVE Request(c).kind = "request" /\ Request(c).peer = c
BY DEF Request

LEMMA AnswerFields ==
    ASSUME NEW c, NEW n
    PROVE  /\ Answer(c, n).kind = "answer"
           /\ Answer(c, n).peer = c /\ Answer(c, n).number = n
BY DEF Answer

\* A datagram taken from the network was a request, or an answer that is earned.
LEMMA OfKind ==
    ASSUME IInv, NEW d \in BagToSet(network)
    PROVE  /\ d.kind = "request" => d.peer \in Clients
           /\ d.kind = "answer" => EarnedBy(d.peer, d.number)
<1>1. CASE IsRequest(d)
  BY <1>1, RequestFields DEF IsRequest
<1>2. CASE IsEarned(d)
  <2>1. PICK c \in Clients, n \in Nat : d = Answer(c, n) /\ EarnedBy(c, n)
    BY <1>2 DEF IsEarned
  <2>2. d.kind = "answer" /\ d.peer = c /\ d.number = n
    BY <2>1, AnswerFields
  <2>3. QED
    BY <2>1, <2>2
<1>3. QED
  BY <1>1, <1>2 DEF IInv

\* An answer that is earned stays so while nothing is received, and when more is.
LEMMA Earned ==
    ASSUME TypeInv, UNCHANGED <<program, length>>,
           \/ UNCHANGED received
           \/ \E p \in Clients : received' = Append(received, p)
    PROVE  \A c, n : EarnedBy(c, n) => EarnedBy(c, n)'
<1>1. DOMAIN received \subseteq DOMAIN received'
      /\ \A k \in DOMAIN received : received'[k] = received[k]
  <2>1. ASSUME NEW p \in Clients, received' = Append(received, p)
        PROVE  DOMAIN received \subseteq DOMAIN received'
               /\ \A k \in DOMAIN received : received'[k] = received[k]
    <3>1. received \in Seq(Clients)
      BY DEF TypeInv
    <3>2. /\ received' \in Seq(Clients) /\ Len(received') = Len(received) + 1
          /\ \A k \in 1 .. Len(received) : received'[k] = received[k]
      BY <2>1, <3>1, AppendProperties
    <3>3. /\ DOMAIN received = 1 .. Len(received) /\ Len(received) \in Nat
          /\ DOMAIN received' = 1 .. Len(received')
      BY <3>1, <3>2, LenProperties
    <3>4. QED
      BY <3>2, <3>3
  <2>2. QED
    BY <2>1
<1>2. QED
  BY <1>1 DEF EarnedBy

-----------------------------------------------------------------------------
LEMMA InitIInv == Init => IInv
<1> SUFFICES ASSUME Init PROVE IInv
  OBVIOUS
<1>1. received \in Seq(Clients) /\ recv_count = Len(received)
  BY EmptySeq DEF Init
<1>2. BagToSet(network) = {}
  BY BagEmpty DEF Init
<1>3. QED
  BY <1>1, <1>2 DEF Init, IInv, TypeInv

\* The address and the count are those of the datagram just received.
LEMMA ReceiveStep ==
    ASSUME IInv, NEW d \in Requests, Receive(d),
           \/ program = "udpserver"
           \/ server' # "reply"
           \/ length[d.peer] = ExpectedLength
    PROVE  IInv'
<1> USE DEF Receive
<1>1. d \in BagToSet(network) /\ d.peer \in Clients
  BY OfKind DEF Requests
<1>2. received \in Seq(Clients) /\ recv_count = Len(received)
  BY DEF IInv, TypeInv
<1>3. /\ received' \in Seq(Clients) /\ Len(received') = Len(received) + 1
      /\ received'[Len(received) + 1] = d.peer
  BY <1>1, <1>2, AppendProperties
<1>4. TypeInv'
  BY <1>2, <1>3 DEF IInv, TypeInv
<1>5. recv_count' \in DOMAIN received' /\ received'[recv_count'] = d.peer
  <2>1. DOMAIN received' = 1 .. Len(received') /\ Len(received) \in Nat
    BY <1>2, <1>3, LenProperties
  <2>2. QED
    BY <1>2, <1>3, <2>1
<1>6. \A c, n : EarnedBy(c, n) => EarnedBy(c, n)'
  BY <1>1, Earned DEF IInv
<1>7. ASSUME NEW e \in BagToSet(network') PROVE (IsRequest(e) \/ IsEarned(e))'
  <2>1. e \in BagToSet(network)
    BY <1>7, BagRemove
  <2>2. IsRequest(e) \/ IsEarned(e)
    BY <2>1 DEF IInv
  <2>3. QED
    BY <1>6, <2>2 DEF IsRequest, IsEarned
<1>8. server' = "reply" =>
        from_address' \in Clients /\ EarnedBy(from_address, AboutToSend)'
  <2> SUFFICES ASSUME server' = "reply" PROVE EarnedBy(from_address, AboutToSend)'
    BY <1>1
  <2>1. CASE program = "udpserver"
    BY <1>5, <2>1 DEF EarnedBy, AboutToSend
  <2>2. CASE program # "udpserver"
    BY <1>5, <2>2 DEF EarnedBy
  <2>3. QED
    BY <2>1, <2>2
<1>9. QED
  BY <1>4, <1>6, <1>7, <1>8 DEF IInv

LEMMA ReplyStep == ASSUME IInv, Reply(AboutToSend) PROVE IInv'
<1> USE DEF Reply
<1>1. from_address \in Clients /\ EarnedBy(from_address, AboutToSend)
  BY DEF IInv
<1>2. AboutToSend \in Nat
  BY LenProperties DEF AboutToSend, IInv, TypeInv
<1>3. \A c, n : EarnedBy(c, n) => EarnedBy(c, n)'
  BY DEF EarnedBy
<1>4. ASSUME NEW e \in BagToSet(network') PROVE (IsRequest(e) \/ IsEarned(e))'
  <2>1. e \in BagToSet(network) \cup {Answer(from_address, AboutToSend)}
    BY <1>4, BagAdd
  <2>2. IsRequest(e) \/ IsEarned(e)
    BY <1>1, <1>2, <2>1 DEF IInv, IsEarned
  <2>3. QED
    BY <1>3, <2>2 DEF IsRequest, IsEarned
<1>5. QED
  BY <1>3, <1>4 DEF IInv, TypeInv

\* The steps of the clients, the network and of a server that ends.
LEMMA OtherStep ==
    ASSUME IInv, server' = server \/ server' = "failed",
           UNCHANGED <<program, from_address, recv_count, received, length>>,
           DOMAIN client' = Clients /\ DOMAIN answer' = Clients,
           \A d \in BagToSet(network') : d \in BagToSet(network) \/ IsRequest(d),
           \A c \in Clients : client'[c] = "done" => EarnedBy(c, answer'[c])
    PROVE  IInv'
<1>1. \A c, n : EarnedBy(c, n) => EarnedBy(c, n)'
  BY DEF EarnedBy
<1>2. ASSUME NEW e \in BagToSet(network') PROVE (IsRequest(e) \/ IsEarned(e))'
  <2>1. IsRequest(e) \/ IsEarned(e)
    BY <1>2 DEF IInv
  <2>2. QED
    BY <1>1, <2>1 DEF IsRequest, IsEarned
<1>3. AboutToSend' = AboutToSend
  BY DEF AboutToSend
<1>4. QED
  BY <1>1, <1>2, <1>3 DEF IInv, TypeInv

LEMMA NextIInv == IInv /\ [Next]_vars => IInv'
<1> SUFFICES ASSUME IInv, [Next]_vars PROVE IInv'
  OBVIOUS
<1>1. CASE UdpReceive
  BY <1>1, ReceiveStep DEF UdpReceive
<1>2. CASE ActivityReceive
  <2>1. PICK d \in Requests :
          /\ Receive(d)
          /\ server' = IF WrongLength(d.peer) THEN AfterWrongLength ELSE "reply"
    BY <1>2 DEF ActivityReceive
  <2>2. server' # "reply" \/ length[d.peer] = ExpectedLength
    BY <2>1 DEF WrongLength, AfterWrongLength
  <2>3. QED
    BY <2>1, <2>2, ReceiveStep
<1>3. CASE UdpReply \/ ActivityReply
  <2>1. AboutToSend = IF program = "udpserver" THEN Number ELSE 0
    BY DEF AboutToSend, Number
  <2>2. Reply(AboutToSend)
    BY <1>3, <2>1 DEF UdpReply, ActivityReply
  <2>3. QED
    BY <2>2, ReplyStep
<1>4. CASE ServerError
  BY <1>4, OtherStep DEF ServerError, IInv, TypeInv
<1>5. ASSUME NEW c \in Clients, Send(c) PROVE IInv'
  <2>1. \A d \in BagToSet(network') : d \in BagToSet(network) \/ IsRequest(d)
    <3>1. \/ network' = network (+) SetToBag({Request(c)})
          \/ network' = network
      BY <1>5 DEF Send
    <3>2. BagToSet(network') \subseteq BagToSet(network) \cup {Request(c)}
      BY <3>1, BagAdd
    <3>3. QED
      BY <3>2 DEF IsRequest
  <2>2. client' = [client EXCEPT ![c] = "receive"] /\ UNCHANGED <<serverVars, length, answer>>
    BY <1>5 DEF Send, Goes
  <2>3. UNCHANGED <<server, program, from_address, recv_count, received, length, answer>>
    BY <2>2 DEF serverVars
  <2>4. DOMAIN client' = Clients /\ DOMAIN answer' = Clients
        /\ \A e \in Clients : client'[e] = "done" => EarnedBy(e, answer'[e])
    BY <2>2, <2>3 DEF IInv, TypeInv
  <2>5. QED
    BY <2>1, <2>3, <2>4, OtherStep
<1>6. CASE NameUnresolved
  <2>1. PICK c \in NameClients : client' = [client EXCEPT ![c] = "failed"]
    BY <1>6 DEF NameUnresolved, Goes
  <2>2. UNCHANGED <<server, program, from_address, recv_count, received, length,
                    answer, network>>
    BY <1>6 DEF NameUnresolved, serverVars
  <2>3. DOMAIN client' = Clients /\ DOMAIN answer' = Clients
        /\ \A e \in Clients : client'[e] = "done" => EarnedBy(e, answer'[e])
    BY <2>1, <2>2 DEF IInv, TypeInv
  <2>4. QED
    BY <2>2, <2>3, OtherStep
<1>7. ASSUME NEW c \in Clients, ReceiveAnswer(c) PROVE IInv'
  <2>1. PICK d \in Answers :
          /\ d.peer = c
          /\ answer' = [answer EXCEPT ![c] = d.number]
          /\ network' = network (-) SetToBag({d})
    BY <1>7 DEF ReceiveAnswer
  <2>2. EarnedBy(c, d.number)
    BY <2>1, OfKind DEF Answers
  <2>3. \A e \in BagToSet(network') : e \in BagToSet(network)
    BY <2>1, BagRemove
  <2>4. client' = [client EXCEPT ![c] = "done"]
        /\ UNCHANGED <<server, program, from_address, recv_count, received, length>>
    BY <1>7 DEF ReceiveAnswer, Goes, serverVars
  <2>5. DOMAIN client' = Clients /\ DOMAIN answer' = Clients
        /\ \A e \in Clients : client'[e] = "done" => EarnedBy(e, answer'[e])
    BY <2>1, <2>2, <2>4 DEF IInv, TypeInv
  <2>6. QED
    BY <2>3, <2>4, <2>5, OtherStep
<1>8. CASE Lose
  <2>1. \A e \in BagToSet(network') : e \in BagToSet(network)
    BY <1>8, BagRemove DEF Lose
  <2>2. UNCHANGED <<server, program, from_address, recv_count, received, length,
                    client, answer>>
    BY <1>8 DEF Lose, serverVars
  <2>3. QED
    BY <2>1, <2>2, OtherStep DEF IInv, TypeInv
<1>9. CASE Duplicate
  <2>1. \A e \in BagToSet(network') : e \in BagToSet(network)
    <3>1. PICK d \in BagToSet(network) : network' = network (+) SetToBag({d})
      BY <1>9 DEF Duplicate
    <3>2. BagToSet(network') = BagToSet(network) \cup {d}
      BY <3>1, BagAdd
    <3>3. QED
      BY <3>2
  <2>2. UNCHANGED <<server, program, from_address, recv_count, received, length,
                    client, answer>>
    BY <1>9 DEF Duplicate, serverVars
  <2>3. QED
    BY <2>1, <2>2, OtherStep DEF IInv, TypeInv
<1>10. CASE Quiet \/ UNCHANGED vars
  <2>1. UNCHANGED <<server, program, from_address, recv_count, received, length,
                    client, answer, network>>
    BY <1>10 DEF Quiet, vars, serverVars
  <2>2. QED
    BY <2>1, OtherStep DEF IInv, TypeInv
<1>11. ASSUME NEW c \in Clients, ClientError(c) PROVE IInv'
  <2>1. client' = [client EXCEPT ![c] = "failed"]
    BY <1>11 DEF ClientError, Goes
  <2>2. UNCHANGED <<server, program, from_address, recv_count, received, length,
                    answer, network>>
    BY <1>11 DEF ClientError, serverVars
  <2>3. DOMAIN client' = Clients /\ DOMAIN answer' = Clients
        /\ \A e \in Clients : client'[e] = "done" => EarnedBy(e, answer'[e])
    BY <2>1, <2>2 DEF IInv, TypeInv
  <2>4. QED
    BY <2>2, <2>3, OtherStep
<1>12. QED
  BY <1>1, <1>2, <1>3, <1>4, <1>5, <1>6, <1>7, <1>8, <1>9, <1>10, <1>11
  DEF Next, ServerStep, SendStep

(* However many clients there are and whatever the network does, an answer   *)
(* is for a datagram that the server has taken from the same client          *)
(* (udpserver.c:32-34, 45-49; activityserver.c:51-73).                       *)
THEOREM AnswersTheSender == Spec => []OwnAnswer
<1>1. Init => IInv
  BY InitIInv
<1>2. IInv /\ [Next]_vars => IInv'
  BY NextIInv
<1>3. IInv => OwnAnswer
  BY OfKind DEF IInv, OwnAnswer, Answers
<1>4. QED
  BY <1>1, <1>2, <1>3, PTL DEF Spec
=============================================================================
