--------------------------- MODULE BoundedBuffer ---------------------------
(***************************************************************************)
(* What a bounded buffer promises, with no word on how it is built: a      *)
(* single producer puts the messages 0, 1, 2, ... into a FIFO queue that   *)
(* never holds more than Capacity of them, and a get removes the oldest    *)
(* one.  SemBuffer (threads/sem.c) is shown to implement this module.      *)
(***************************************************************************)
EXTENDS Naturals, Sequences

CONSTANTS Capacity,     \* most messages in the queue
          NumMessages   \* messages the producer has to put

VARIABLES queue,      \* the messages put and not yet taken, oldest first
          put,        \* how many messages were put
          taken       \* the messages taken, in the order of the gets

vars == <<queue, put, taken>>

Init ==
    /\ queue = <<>>
    /\ put = 0
    /\ taken = <<>>

Put ==
    /\ put < NumMessages
    /\ Len(queue) < Capacity
    /\ queue' = Append(queue, put)
    /\ put' = put + 1
    /\ UNCHANGED taken

Get ==
    /\ queue # <<>>
    /\ queue' = Tail(queue)
    /\ taken' = Append(taken, Head(queue))
    /\ UNCHANGED put

Next == Put \/ Get

\* Put is fair: the consumers keep making room for as long as the producer
\* has messages left.  Get is not: consumers stop at shutdown and leave what
\* is then in the queue.
Spec == Init /\ [][Next]_vars /\ WF_vars(Put)

=============================================================================
