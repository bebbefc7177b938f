--------------------------- MODULE RedirectTarget ---------------------------
(***************************************************************************)
(* redirect_set() and parse_port() of project1/parser/parser.c: the target *)
(* of a redirection becomes a file or a TCP endpoint, or is refused.  A    *)
(* text is a sequence of the characters the code tells apart, where the    *)
(* prefix "tcp:" counts as one.  Allocation failures are PipelineParser's. *)
(*                                                                         *)
(* A definition preceded by a variant of itself: the variant is a fault    *)
(* that nothing uses, see README.md.                                       *)
(***************************************************************************)
EXTENDS Integers, Sequences, SequencesExt, FiniteSetsExt

CONSTANT Targets        \* the texts to try

Prefix == "tcp:"
Digit == [d \in {"0", "1", "3", "5", "6", "8", "9"} |->
            CASE d = "0" -> 0 [] d = "1" -> 1 [] d = "3" -> 3 [] d = "5" -> 5
              [] d = "6" -> 6 [] d = "8" -> 8 [] d = "9" -> 9]
Signs == {"+", "-"}
MaxPort == 65535
Chars == {"[", "]", ":", "blank", "x"} \cup Signs \cup DOMAIN Digit

VARIABLES target,       \* the text
          r,            \* *r, the redirection
          result        \* what the last call returned, with its error

vars == <<target, r, result>>

None == [type |-> "none"]
File(path) == [type |-> "file", path |-> path]
Tcp(host, port) == [type |-> "tcp", host |-> host, port |-> port]

Start == r = None /\ result = "not called"

Init == target \in Targets /\ Start

-----------------------------------------------------------------------------
(* The functions of the C library that the code calls *)

From(s, k) == SubSeq(s, k, Len(s))

\* strchr and strrchr: the first and the last index of c in s, 0 if there is none.
strchr(s, c) == SelectInSeq(s, LAMBDA x : x = c)
strrchr(s, c) == SelectLastInSeq(s, LAMBDA x : x = c)

Value(digits) == FoldLeft(LAMBDA n, d : 10 * n + Digit[d], 0, digits)

\* strtol(s, &end, 10) of a text too short to overflow: leading blanks, at most
\* one sign, digits, and what `end' points to.
strtol(s) ==
    LET first == SelectInSeq(Append(s, "NUL"), LAMBDA x : x # "blank")
        unsigned == IF first <= Len(s) /\ s[first] \in Signs THEN first + 1 ELSE first
        end == SelectInSubSeq(Append(s, "NUL"), unsigned, Len(s) + 1,
                              LAMBDA x : x \notin DOMAIN Digit)
        v == Value(SubSeq(s, unsigned, end - 1))
    IN [v |-> IF unsigned > first /\ s[first] = "-" THEN -v ELSE v,
        rest |-> IF end = unsigned THEN s ELSE From(s, end)]

-----------------------------------------------------------------------------
(* parser.c *)

\* Every text that strtol reads to its end and finds in range is a port.
parse_port_unchecked(s) == s # <<>> /\ strtol(s).v \in 1 .. MaxPort
parse_port(s) == s # <<>> /\ strtol(s).rest = <<>> /\ strtol(s).v \in 1 .. MaxPort

\* redirect_set of an endpoint whose host and port have been cut out.
SetEndpoint(host, port_text) ==
    /\ result' = CASE host = <<>> -> "missing TCP host"
                   [] host # <<>> /\ ~parse_port(port_text) -> "bad port"
                   [] OTHER -> "success"
    /\ r' = IF result' = "success" THEN Tcp(host, strtol(port_text).v) ELSE r

Refuse(why) == result' = why /\ UNCHANGED r

\* strncmp(target, "tcp:", 4) == 0
IsTcp(s) == s # <<>> /\ s[1] = Prefix

SetDuplicate ==
    /\ r # None
    /\ Refuse("duplicate redirection")
    /\ UNCHANGED target

SetFile ==
    /\ r = None
    /\ ~IsTcp(target)
    /\ r' = File(target)
    /\ result' = "success"
    /\ UNCHANGED target

SetTcp ==
    /\ r = None
    /\ IsTcp(target)
    /\ LET a == Tail(target)
           close == strchr(a, "]")
           colon == strrchr(a, ":")
       IN IF a # <<>> /\ a[1] = "["
          THEN IF close = 0 \/ close = Len(a) \/ a[close + 1] # ":"
               THEN Refuse("use tcp:[IPv6-address]:port")
               ELSE SetEndpoint(SubSeq(a, 2, close - 1), From(a, close + 2))
          ELSE IF colon = 0 \/ strchr(a, ":") # colon
               THEN Refuse("TCP endpoint must be tcp:host:port")
               ELSE SetEndpoint(SubSeq(a, 1, colon - 1), From(a, colon + 1))
    /\ UNCHANGED target

Next == SetDuplicate \/ SetFile \/ SetTcp

Spec == Init /\ [][Next]_vars

-----------------------------------------------------------------------------
(* What an endpoint is, said of whole texts *)

\* The ports s can be read as: behind blanks, and a plus or not, digits to the end,
\* with a value in range.
Ports(s) ==
    {Value(From(s, k)) :
       k \in {k \in 1 .. Len(s) :
                /\ \A j \in k .. Len(s) : s[j] \in DOMAIN Digit
                /\ \A j \in 1 .. k - 1 : s[j] = "blank" \/ (s[j] = "+" /\ j = k - 1)}}
      \cap 1 .. MaxPort

\* s is tcp:host:port, where the host has no colon unless it stands in brackets.
IsEndpoint(s, host, port) ==
    /\ host # <<>>
    /\ \/ /\ s = <<Prefix>> \o host \o <<":">> \o port
          /\ host[1] # "[" /\ ":" \notin ToSet(host)
       \/ /\ s = <<Prefix, "[">> \o host \o <<"]", ":">> \o port
          /\ "]" \notin ToSet(host)

\* The endpoints s can be read as: the port is what follows some colon.
Endpoints(s) ==
    LET hosts == {SubSeq(s, j, k) : j \in {2, 3}, k \in 2 .. Len(s)}
        texts == {From(s, k) : k \in 2 .. Len(s) + 1}
    IN UNION {{Tcp(x[1], v) : v \in Ports(x[2])} :
                x \in {x \in hosts \X texts : IsEndpoint(s, x[1], x[2])}}

-----------------------------------------------------------------------------
(* Properties *)

\* A target is a file unless it starts with tcp:, and then it is taken exactly
\* when it is a host and a port from 1 to 65535, which are what the redirection
\* gets: no text has two readings.
MeetsReference ==
    /\ r # None => IF IsTcp(target) THEN Endpoints(target) = {r} ELSE r = File(target)
    /\ result \notin {"not called", "success", "duplicate redirection"} =>
         IsTcp(target) /\ Endpoints(target) = {}

=============================================================================
