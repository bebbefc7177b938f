----------------------------- MODULE ShellParser -----------------------------
(***************************************************************************)
(* The shell parser of project1/parser/parser.c: tokenize, which turns a   *)
(* line into tokens, pipeline_parse, which turns tokens into a pipeline,   *)
(* and redirect_set, which it calls with the target of a redirection.      *)
(* Each is a module of its own; in a behaviour one of them is called, and  *)
(* the others stay where they start.  What one of them promises is what    *)
(* the next one assumes: tokenize that the tokens end once, and            *)
(* redirect_set an outcome for every text.                                 *)
(***************************************************************************)
EXTENDS Integers, Sequences, FiniteSets

CONSTANTS Lines,                        \* of tokenize
          TokenLists, Texts, Outcome,   \* of pipeline_parse
          Targets                       \* of redirect_set

VARIABLES line, i, start, tokens, tcap, b, bcap, quote, quote_pos, started, live,
          error, pc
VARIABLES t, next, c, acap, p, pcap, blocks, fault, place
VARIABLES target, r, result
VARIABLE call       \* the function that is called

Tok == INSTANCE ShellTokenizer
Pipe == INSTANCE PipelineParser
        WITH i <- next, live <- blocks, error <- fault, pc <- place
Redirect == INSTANCE RedirectTarget

\* There is something to call each function with.
ASSUME LinesAssumption == Lines # {} /\ Lines \subseteq Seq(Tok!Chars)

ASSUME TokenListsAssumption ==
    /\ TokenLists # {}
    /\ \A l \in TokenLists :
         l \in Seq([type : Pipe!Types, text : Texts]) /\ Pipe!EndsOnce(l)

ASSUME OutcomeAssumption == Outcome \in [Texts -> Pipe!Accepted \cup Pipe!Refused]

\* The prefix is a character at the start of a text only.
ASSUME TargetsAssumption ==
    /\ Targets # {} /\ Targets \subseteq Seq(Redirect!Chars \cup {Redirect!Prefix})
    /\ \A s \in Targets : \A k \in 2 .. Len(s) : s[k] \in Redirect!Chars

tokState == <<line, i, start, tokens, tcap, b, bcap, quote, quote_pos, started,
              live, error, pc>>
pipeState == <<t, next, c, acap, p, pcap, blocks, fault, place>>
redirectState == <<target, r, result>>
vars == <<call, tokState, pipeState, redirectState>>

Called(f) == call = f

AnyLine == CHOOSE l \in Lines : TRUE
AnyTokenList == CHOOSE l \in TokenLists : TRUE
AnyTarget == CHOOSE s \in Targets : TRUE

\* One start is enough for a function that is not called.
Init ==
    /\ call \in {"tokenize", "pipeline_parse", "redirect_set"}
    /\ line \in IF Called("tokenize") THEN Lines ELSE {AnyLine}
    /\ t \in IF Called("pipeline_parse") THEN TokenLists ELSE {AnyTokenList}
    /\ target \in IF Called("redirect_set") THEN Targets ELSE {AnyTarget}
    /\ Tok!Start /\ Pipe!Start /\ Redirect!Start

TokNext ==
    Called("tokenize") /\ Tok!Next /\ UNCHANGED <<call, pipeState, redirectState>>
PipeNext ==
    Called("pipeline_parse") /\ Pipe!Next /\ UNCHANGED <<call, tokState, redirectState>>
RedirectNext ==
    Called("redirect_set") /\ Redirect!Next /\ UNCHANGED <<call, tokState, pipeState>>

Next == TokNext \/ PipeNext \/ RedirectNext

Spec == Init /\ [][Next]_vars

-----------------------------------------------------------------------------
(* The properties of the three functions, stated in their modules: no access *)
(* is out of bounds (parser.c:65, 75, 217, 361); every block is freed once,  *)
(* whichever allocation fails (parser.c:170, 229); the result is the one a   *)
(* definition on whole inputs gives (parser.c:133, 242, 361).                *)
TokenizerInBounds == Tok!InBounds
TokenizerMemory == Tok!MemoryAccounted
TokensRight == Tok!MeetsReference
PipelineInBounds == Pipe!InBounds
PipelineMemory == Pipe!MemoryAccounted
PipelineRight == Pipe!MeetsReference
TargetRight == Redirect!MeetsReference
=============================================================================
