--------------------------- MODULE PipelineParser ---------------------------
(***************************************************************************)
(* pipeline_parse() of project1/parser/parser.c and the client of demo.c:  *)
(* a list of tokens, as ShellTokenizer leaves it, becomes a Pipeline, or   *)
(* an error and nothing.  One action per turn of its loops; any allocation *)
(* may fail.                                                               *)
(*                                                                         *)
(* The text of a word is one of Texts; what redirect_set makes of a text   *)
(* as a target is a parameter (RedirectTarget models it).  live counts     *)
(* malloc minus free for each kind of block.                               *)
(*                                                                         *)
(* A definition preceded by a variant of itself: the variant is a fault    *)
(* that nothing uses, see README.md.                                       *)
(***************************************************************************)
EXTENDS GrowingArray, Ordered, Sequences, SequencesExt, FiniteSetsExt

CONSTANTS TokenLists,   \* the token lists to parse
          Texts,        \* the texts of words
          Outcome       \* what redirect_set says of a target with this text

Accepted == {"file", "tcp"}
Refused == {"not_an_endpoint", "bad_port"}
Types == {"WORD", "|", "<", ">", "END"}

\* What tokenize returns: one END, at the end.
EndsOnce(l) ==
    l # <<>> /\ \A k \in 1 .. Len(l) : l[k].type = "END" <=> k = Len(l)

VARIABLES
    t,              \* the tokens
    i,              \* index of the next token, counted from 1 here
    c, acap,        \* the command in hand and the capacity of its argv
    p, pcap,        \* the commands of the pipeline and their capacity
    live,           \* blocks allocated and not freed
    error,          \* *e
    pc

vars == <<t, i, c, acap, p, pcap, live, error, pc>>

NoRedirect == [type |-> "none"]
NoCommand == [argv |-> <<>>, input |-> NoRedirect, output |-> NoRedirect]
NoError == [position |-> 0, message |-> "none"]

Start ==
    /\ i = 1
    /\ c = NoCommand /\ acap = 0
    /\ p = <<>> /\ pcap = 0
    /\ live = [tokens |-> 1, commands |-> 0, argvs |-> 0, args |-> 0, targets |-> 0]
    /\ error = NoError
    /\ pc = "tokenize"

Init == t \in TokenLists /\ Start

Type(k) == t[k].type

\* parseerror_set_error, and the way to the label `fail'.
Fail(position, message) ==
    /\ error' = [position |-> position, message |-> message]
    /\ pc' = "fail"

-----------------------------------------------------------------------------
(* The loops of pipeline_parse *)

\* tokenize succeeds, or (ShellTokenizer) fails and leaves an error.
Tokenize ==
    /\ pc = "tokenize"
    /\ \/ pc' = "command" /\ UNCHANGED error
       \/ \E message \in {"unterminated_quote", "out_of_memory"} : Fail(1, message)
    /\ UNCHANGED <<t, i, c, acap, p, pcap, live>>

BeginCommand ==
    /\ pc = "command" /\ Type(i) \in {"WORD", "<", ">"}
    /\ c' = NoCommand /\ acap' = 0
    /\ pc' = "tokens"
    /\ UNCHANGED <<t, i, p, pcap, live, error>>

NothingBeforePipe ==
    /\ pc = "command" /\ Type(i) = "|"
    /\ Fail(i, "expected_command_before_pipe")
    /\ UNCHANGED <<t, i, c, acap, p, pcap, live>>

\* command_add_arg asks for room for the copy and the NULL after it.
ArgvNeedWithoutNULL == Len(c.argv) + 1
ArgvNeed == Len(c.argv) + 2

AddArg ==
    /\ pc = "tokens" /\ Type(i) = "WORD"
    /\ LET cap == Grown(acap, ArgvNeed)
           argvs == IF acap = 0 THEN live.argvs + 1 ELSE live.argvs
       IN \/ /\ c' = [c EXCEPT !.argv = Append(@, t[i].text)]
             /\ acap' = cap
             /\ live' = [live EXCEPT !.argvs = argvs, !.args = @ + 1]
             /\ i' = i + 1
             /\ UNCHANGED <<error, pc>>
          \/ /\ cap > acap                      \* realloc fails
             /\ Fail(i, "out_of_memory")
             /\ UNCHANGED <<i, c, acap, live>>
          \/ /\ acap' = cap                     \* strdup fails
             /\ live' = [live EXCEPT !.argvs = argvs]
             /\ Fail(i, "out_of_memory")
             /\ UNCHANGED <<i, c>>
    /\ UNCHANGED <<t, p, pcap>>

NoTarget ==
    /\ pc = "tokens" /\ Type(i) \in {"<", ">"} /\ Type(i + 1) # "WORD"
    /\ i' = i + 1
    /\ Fail(i, "redirection_requires_a_target")
    /\ UNCHANGED <<t, c, acap, p, pcap, live>>

\* redirect_set: a second redirection of the same kind is refused first.
NeverDuplicate(r) == FALSE
Duplicate(r) == r.type # "none"

Redirection ==
    /\ pc = "tokens" /\ Type(i) \in {"<", ">"} /\ Type(i + 1) = "WORD"
    /\ LET side == IF Type(i) = "<" THEN "input" ELSE "output"
           text == t[i + 1].text
       IN \/ /\ ~Duplicate(c[side]) /\ Outcome[text] \in Accepted
             /\ c' = [c EXCEPT ![side] = [type |-> Outcome[text], target |-> text]]
             /\ live' = [live EXCEPT !.targets = @ + 1]
             /\ i' = i + 2
             /\ UNCHANGED <<error, pc>>
          \/ /\ i' = i + 1
             /\ \/ Duplicate(c[side]) /\ Fail(i + 1, "duplicate_redirection")
                \/ /\ ~Duplicate(c[side]) /\ Outcome[text] \in Refused
                   /\ Fail(i + 1, Outcome[text])
                \/ /\ ~Duplicate(c[side]) /\ Outcome[text] # "not_an_endpoint"
                   /\ Fail(i + 1, "out_of_memory")
             /\ UNCHANGED <<c, live>>
    /\ UNCHANGED <<t, acap, p, pcap>>

\* What command_add leaves of c, which it has copied to the pipeline.
CommandCleared == NoCommand

\* The command is complete: command_add, then the look beyond the pipe.
EndCommand ==
    /\ pc = "tokens" /\ Type(i) \in {"|", "END"}
    /\ LET cap == Grown(pcap, Len(p) + 1)
       IN \/ /\ c.argv = <<>>
             /\ Fail(i, "redirection_must_belong_to_a_command")
             /\ UNCHANGED <<i, c, acap, p, pcap, live>>
          \/ /\ c.argv # <<>> /\ cap > pcap
             /\ Fail(i, "out_of_memory")
             /\ UNCHANGED <<i, c, acap, p, pcap, live>>
          \/ /\ c.argv # <<>>
             /\ p' = Append(p, c) /\ pcap' = cap
             /\ c' = CommandCleared /\ acap' = 0
             /\ live' = [live EXCEPT !.commands = IF pcap = 0 THEN @ + 1 ELSE @]
             /\ IF Type(i) = "END"
                THEN pc' = "command" /\ UNCHANGED <<i, error>>
                ELSE /\ i' = i + 1
                     /\ IF Type(i + 1) = "END"
                        THEN Fail(i, "expected_command_after_pipe")
                        ELSE pc' = "command" /\ UNCHANGED error
    /\ UNCHANGED t

\* The end of the line: tokenlist_free.
Succeed ==
    /\ pc = "command" /\ Type(i) = "END"
    /\ live' = [live EXCEPT !.tokens = @ - 1]
    /\ pc' = "succeeded"
    /\ UNCHANGED <<t, i, c, acap, p, pcap, error>>

-----------------------------------------------------------------------------
(* Freeing *)

TargetsOf(cmd) == Cardinality({s \in {"input", "output"} : cmd[s].type # "none"})

\* The blocks that are left of l after command_free of a command whose argv has
\* capacity cap, and after pipeline_free of the commands ps.
AfterCommandFree(l, cmd, cap) ==
    [l EXCEPT !.args = @ - Len(cmd.argv),
              !.argvs = IF cap > 0 THEN @ - 1 ELSE @,
              !.targets = @ - TargetsOf(cmd)]

AfterShallowFree(l, ps, cap) ==
    [l EXCEPT !.commands = IF cap > 0 THEN @ - 1 ELSE @]
AfterPipelineFree(l, ps, cap) ==
    LET commands == FoldLeft(LAMBDA rest, cmd : AfterCommandFree(rest, cmd, 1), l, ps)
    IN [commands EXCEPT !.commands = IF cap > 0 THEN @ - 1 ELSE @]

\* command_free(&c) wherever c holds something, then the label `fail'.
FreeAll ==
    /\ pc = "fail"
    /\ LET tokens == [live EXCEPT !.tokens = @ - 1]
       IN live' = AfterPipelineFree(AfterCommandFree(tokens, c, acap), p, pcap)
    /\ c' = NoCommand /\ acap' = 0
    /\ p' = <<>> /\ pcap' = 0
    /\ pc' = "failed"
    /\ UNCHANGED <<t, i, error>>

\* The client has printed the pipeline and calls pipeline_free.
ClientFree ==
    /\ pc = "succeeded"
    /\ live' = AfterPipelineFree(live, p, pcap)
    /\ p' = <<>> /\ pcap' = 0
    /\ pc' = "released"
    /\ UNCHANGED <<t, i, c, acap, error>>

Returned == pc \in {"failed", "released"}

Next ==
    \/ Tokenize
    \/ BeginCommand \/ NothingBeforePipe \/ AddArg \/ NoTarget \/ Redirection
    \/ EndCommand \/ Succeed
    \/ FreeAll \/ ClientFree
    \/ Returned /\ UNCHANGED vars

Spec == Init /\ [][Next]_vars

-----------------------------------------------------------------------------
(* What pipelines are, said of whole token lists *)

OfType(l, ty) == {k \in 1 .. Len(l) : l[k].type = ty}
Ops(l) == OfType(l, "<") \cup OfType(l, ">")

\* The commands of l stand between pipes: each follows index 0 or a pipe, and is
\* the set of the indices up to the next pipe or the end.
Starts(l) == IF Len(l) = 1 THEN {} ELSE {0} \cup OfType(l, "|")
Segment(l, s) ==
    {k \in s + 1 .. Len(l) : \A j \in s + 1 .. k : l[j].type \notin {"|", "END"}}
Args(l, s) == {k \in Segment(l, s) : l[k].type = "WORD" /\ k - 1 \notin Ops(l)}

RedirectOf(l, s, op) ==
    LET ops == Segment(l, s) \cap OfType(l, op)
    IN IF ops = {} THEN NoRedirect
       ELSE LET text == l[Min(ops) + 1].text
            IN [type |-> Outcome[text], target |-> text]

CommandOf(l, s) ==
    [argv |-> InOrder([k \in Args(l, s) |-> l[k].text]),
     input |-> RedirectOf(l, s, "<"), output |-> RedirectOf(l, s, ">")]
PipelineOf(l) == InOrder([s \in Starts(l) |-> CommandOf(l, s)])

\* What can be wrong with l, each fault at the token where it is reported: pipes
\* with nothing before or behind them, redirections without a target, the ends of
\* commands that are redirections only, second redirections of a kind, and targets
\* that redirect_set refuses.
BadPipes(l) == {k \in OfType(l, "|") : k = 1 \/ k - 1 \in OfType(l, "|")}
LastPipes(l) == {k \in OfType(l, "|") : l[k + 1].type = "END"}
NoTargets(l) == {k \in Ops(l) : l[k + 1].type # "WORD"}
NoArgs(l) ==
    {k \in OfType(l, "|") \cup OfType(l, "END") :
       \E s \in Starts(l) : s + 1 .. k - 1 = Segment(l, s) /\ s + 1 < k /\ Args(l, s) = {}}
Seconds(l) ==
    {k \in 1 .. Len(l) :
       \E s \in Starts(l), op \in {"<", ">"} :
         LET ops == Segment(l, s) \cap OfType(l, op)
         IN k - 1 \in ops /\ k \in Segment(l, s) /\ \E j \in ops : j < k - 1}
RefusedFor(l, m) == {k \in OfType(l, "WORD") : k - 1 \in Ops(l) /\ Outcome[l[k].text] = m}

Faults(l) ==
    LET fault(K, m) == {[position |-> k, message |-> m] : k \in K}
    IN UNION {fault(BadPipes(l), "expected_command_before_pipe"),
              fault(LastPipes(l), "expected_command_after_pipe"),
              fault(NoTargets(l), "redirection_requires_a_target"),
              fault(NoArgs(l), "redirection_must_belong_to_a_command"),
              fault(Seconds(l), "duplicate_redirection"),
              UNION {fault(RefusedFor(l, m), m) : m \in Refused}}

\* Those at the first token that has one.
FirstFaults(l) == {f \in Faults(l) : \A g \in Faults(l) : f.position <= g.position}

-----------------------------------------------------------------------------
(* Properties *)

\* The parser never looks beyond the END token, and argv has always room for its
\* NULL.
InBounds ==
    /\ i <= Len(t)
    /\ c.argv # <<>> => Len(c.argv) < acap
    /\ Len(p) <= pcap

Total(numbers) == FoldLeft(+, 0, numbers)

\* Every block has one owner, the tokens, the command in hand or the pipeline, so
\* that whichever allocation fails nothing leaks and nothing is freed twice.
MemoryAccounted ==
    LET one(cap) == IF cap > 0 THEN 1 ELSE 0
    IN live = [tokens |-> IF pc \in {"succeeded", "failed", "released"} THEN 0 ELSE 1,
               commands |-> one(pcap),
               argvs |-> Len(p) + one(acap),
               args |-> Total([k \in DOMAIN p |-> Len(p[k].argv)]) + Len(c.argv),
               targets |-> Total([k \in DOMAIN p |-> TargetsOf(p[k])]) + TargetsOf(c)]

\* pipeline_parse succeeds exactly on the token lists with no fault, with the
\* commands they stand for; otherwise it reports the first fault, and leaves an
\* empty pipeline that owns nothing.
MeetsReference ==
    /\ pc = "succeeded" => Faults(t) = {} /\ p = PipelineOf(t) /\ error = NoError
    /\ pc = "failed" =>
         /\ p = <<>> /\ \A kind \in DOMAIN live : live[kind] = 0
         /\ \/ error \in FirstFaults(t)
            \/ error.message \in {"unterminated_quote", "out_of_memory"}

=============================================================================
