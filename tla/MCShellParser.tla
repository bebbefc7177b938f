---------------------------- MODULE MCShellParser ----------------------------
(* ShellParser for TLC: every line of up to MaxLine characters; every token     *)
(* list of up to MaxTokens tokens before END, with a word of each outcome, and  *)
(* lists of five commands, the number at which the array of commands grows;     *)
(* every endpoint-like text of up to MaxTarget characters after the prefix, the *)
(* ports around both ends of the range in each form of endpoint, and files.     *)
EXTENDS ShellParser

CONSTANTS MaxLine, MaxTokens, MaxTarget
CONSTANTS plain, endpoint, malformed, badport

UpTo(n, S) == UNION {[1 .. k -> S] : k \in 0 .. n}

MCLines == UpTo(MaxLine, {"blank", "single", "double", "|", "<", ">", "x"})

MCTexts == {plain, endpoint, malformed, badport}
MCOutcome == [x \in MCTexts |-> CASE x = plain -> "file" [] x = endpoint -> "tcp"
                                  [] x = malformed -> "not_an_endpoint"
                                  [] x = badport -> "bad_port"]

\* The text of a token that is not a word is never looked at.
Tk(ty) == [type |-> ty, text |-> plain]
Toks == {Tk(ty) : ty \in {"|", "<", ">"}} \cup {[type |-> "WORD", text |-> x] : x \in MCTexts}
FourPipes == <<Tk("WORD"), Tk("|"), Tk("WORD"), Tk("|"), Tk("WORD"), Tk("|"),
               Tk("WORD"), Tk("|"), Tk("WORD")>>
MCTokenLists ==
    {Append(l, Tk("END")) : l \in UpTo(MaxTokens, Toks)
                                    \cup {FourPipes, Append(FourPipes, Tk("|"))}}

Ports == {<<>>, <<"0">>, <<"1">>, <<"6", "5", "5", "3", "5">>,
          <<"6", "5", "5", "3", "6">>, <<"0", "0", "8">>, <<"+", "8">>, <<"-", "8">>,
          <<"blank", "blank", "8">>, <<"8", "blank">>, <<"8", "x">>, <<"+", "+", "8">>,
          <<"blank", "+", "8">>, <<"+", "blank", "8">>, <<"+">>, <<"blank">>,
          <<"-", "0">>, <<"9", "9", "9", "9", "9">>}
Shapes == {<<"x", ":">>, <<"[", "x", ":", ":", "]", ":">>, <<":">>, <<"[", "]", ":">>}
Short == UpTo(MaxTarget, {"[", "]", ":", "x", "8"})

MCTargets ==
    {<<"tcp:">> \o s : s \in Short \cup {h \o q : h \in Shapes, q \in Ports}}
      \cup Short
=============================================================================
