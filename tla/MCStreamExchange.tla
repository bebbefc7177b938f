--------------------------- MODULE MCStreamExchange ---------------------------
(* A timed client and an IPv6 one, which does what a plain one does once its *)
(* address has led it to the server, each with an ordinary line or with one  *)
(* that holds a newline inside the name.                                     *)
EXTENDS StreamExchange

MCLines == {<<"c", "nl">>, <<"nl", "c", "nl">>}
=============================================================================
