--------------------------- MODULE ShellTokenizer ---------------------------
(***************************************************************************)
(* tokenize() of project1/parser/parser.c with the array, buffer and token *)
(* list functions it calls, and the tokenlist_free its caller runs when it *)
(* fails: one action per turn of its loops.  A line is a sequence of       *)
(* characters of the few kinds the code tells apart, and s[k] is NUL at    *)
(* its end.  Any allocation may fail.                                      *)
(*                                                                         *)
(* live counts malloc minus free for each kind of block: t->v, the texts   *)
(* of the tokens, and the buffer b.v.  The error message is one of a few   *)
(* words.                                                                  *)
(*                                                                         *)
(* A definition preceded by a variant of itself: the variant is a fault    *)
(* that nothing uses, see README.md.                                       *)
(***************************************************************************)
EXTENDS GrowingArray, Ordered, Sequences, FiniteSetsExt

CONSTANT Lines      \* the lines to tokenize, sequences over Chars

Quotes == {"single", "double"}
Operators == {"|", "<", ">"}
Chars == Quotes \cup Operators \cup {"blank", "x"}

VARIABLES
    line,                   \* s
    i, start,               \* tokenize's indices, counted from 0
    tokens, tcap,           \* *t: its elements and its capacity
    b, bcap,                \* the word buffer and its capacity
    quote, quote_pos, started,
    live,                   \* blocks allocated and not freed
    error,                  \* *e
    pc

vars == <<line, i, start, tokens, tcap, b, bcap, quote, quote_pos, started, live,
          error, pc>>

NoError == [position |-> 0, message |-> "none"]
NoQuote == "none"
NoText == <<"none">>

Start ==
    /\ i = 0 /\ start = 0
    /\ tokens = <<>> /\ tcap = 0
    /\ b = <<>> /\ bcap = 0
    /\ quote = NoQuote /\ quote_pos = 0 /\ started = FALSE
    /\ live = [list |-> 0, texts |-> 0, buffer |-> 0]
    /\ error = NoError
    /\ pc = "token"

Init == line \in Lines /\ Start

\* s[k]
At(k) == IF k < Len(line) THEN line[k + 1] ELSE "NUL"

\* The live blocks once array_grow has taken an empty array to capacity cap.
AllocIfNew(l, kind, cap) == [l EXCEPT ![kind] = IF cap = 0 THEN @ + 1 ELSE @]

Token(type, text, pos) == [type |-> type, text |-> text, pos |-> pos]

\* The blocks that are live once b.v, NULL or not, was freed.
BufferLeaked == live
BufferFreed == [live EXCEPT !.buffer = IF bcap > 0 THEN @ - 1 ELSE @]

\* goto outofmemory, where the error gets the value of i.
OutOfMemory(at) ==
    /\ error' = [position |-> at, message |-> "out_of_memory"]
    /\ pc' = "failed"

\* tokenlist_addtoken, with l the blocks that are live around it.  It may fail to
\* grow the list, or, when the token is in the list already, to copy its text;
\* i' is the value of i after the call.
AddToken(l, type, text, pos, next) ==
    LET cap == Grown(tcap, Len(tokens) + 1)
        grown == AllocIfNew(l, "list", tcap)
    IN \/ /\ tokens' = Append(tokens, Token(type, text, pos))
          /\ tcap' = cap
          /\ live' = IF text = NoText THEN grown ELSE [grown EXCEPT !.texts = @ + 1]
          /\ pc' = next
          /\ UNCHANGED error
       \/ /\ cap > tcap
          /\ live' = l
          /\ OutOfMemory(i')
          /\ UNCHANGED <<tokens, tcap>>
       \/ /\ text # NoText
          /\ tokens' = Append(tokens, Token(type, NoText, pos))
          /\ tcap' = cap
          /\ live' = grown
          /\ OutOfMemory(i')

-----------------------------------------------------------------------------
(* Between tokens *)

SkipSpace ==
    /\ pc = "token" /\ At(i) = "blank"
    /\ i' = i + 1
    /\ UNCHANGED <<line, start, tokens, tcap, b, bcap, quote, quote_pos, started,
                   live, error, pc>>

OperatorToken ==
    /\ pc = "token" /\ At(i) \in Operators
    /\ i' = i + 1
    /\ start' = i
    /\ AddToken(live, At(i), NoText, i, "token")
    /\ UNCHANGED <<line, b, bcap, quote, quote_pos, started>>

BeginWord ==
    /\ pc = "token" /\ At(i) \notin Operators \cup {"blank", "NUL"}
    /\ start' = i
    /\ b' = <<>> /\ bcap' = 0
    /\ quote' = NoQuote /\ quote_pos' = 0 /\ started' = FALSE
    /\ pc' = "word"
    /\ UNCHANGED <<line, i, tokens, tcap, live, error>>

EndOfLine ==
    /\ pc = "token" /\ At(i) = "NUL"
    /\ i' = i
    /\ AddToken(live, "END", NoText, i, "succeeded")
    /\ UNCHANGED <<line, start, b, bcap, quote, quote_pos, started>>

-----------------------------------------------------------------------------
(* In a word *)

\* The word ends before this character.
SeparatesEvenQuoted(c) == c \in Operators \cup {"blank"}
Separates(c) == quote = NoQuote /\ c \in Operators \cup {"blank"}

InWord == pc = "word" /\ At(i) # "NUL" /\ ~Separates(At(i))

OpenQuote ==
    /\ InWord /\ quote = NoQuote /\ At(i) \in Quotes
    /\ quote' = At(i)
    /\ quote_pos' = i
    /\ i' = i + 1
    /\ started' = TRUE
    /\ UNCHANGED <<line, start, tokens, tcap, b, bcap, live, error, pc>>

CloseQuote ==
    /\ InWord /\ At(i) = quote
    /\ quote' = NoQuote
    /\ i' = i + 1
    /\ UNCHANGED <<line, start, tokens, tcap, b, bcap, quote_pos, started, live,
                   error, pc>>

\* buffer_addchar asks for room for the character and a NUL after it.
BufferNeedWithoutNUL == Len(b) + 1
BufferNeed == Len(b) + 2

\* When the buffer cannot grow it is freed.
AddChar ==
    /\ InWord /\ At(i) # quote /\ (quote = NoQuote => At(i) \notin Quotes)
    /\ started' = TRUE
    /\ LET cap == Grown(bcap, BufferNeed)
       IN \/ /\ b' = Append(b, At(i))
             /\ bcap' = cap
             /\ live' = AllocIfNew(live, "buffer", bcap)
             /\ i' = i + 1
             /\ UNCHANGED <<error, pc>>
          \/ /\ cap > bcap
             /\ live' = BufferFreed
             /\ b' = <<>> /\ bcap' = 0
             /\ i' = i
             /\ OutOfMemory(i')
    /\ UNCHANGED <<line, start, tokens, tcap, quote, quote_pos>>

\* The line ends inside a quote, or (never, by MeetsReference) the word has not started.
WordError == IF quote # NoQuote
             THEN [position |-> quote_pos, message |-> "unterminated_quote"]
             ELSE [position |-> start, message |-> "invalid_token"]

BadWord ==
    /\ pc = "word" /\ (At(i) = "NUL" \/ Separates(At(i)))
    /\ quote # NoQuote \/ ~started
    /\ error' = WordError
    /\ live' = BufferFreed
    /\ b' = <<>> /\ bcap' = 0
    /\ pc' = "failed"
    /\ UNCHANGED <<line, i, start, tokens, tcap, quote, quote_pos, started>>

\* The word becomes a token.  An empty one has no buffer: strdup("") makes one, or
\* fails.  The token gets a copy of the text; the buffer is freed on every path.
EndWord ==
    /\ pc = "word" /\ (At(i) = "NUL" \/ Separates(At(i)))
    /\ quote = NoQuote /\ started
    /\ i' = i
    /\ \/ AddToken(BufferFreed, "WORD", b, start, "token")
       \/ /\ bcap = 0
          /\ OutOfMemory(i')
          /\ UNCHANGED <<tokens, tcap, live>>
    /\ b' = <<>> /\ bcap' = 0
    /\ UNCHANGED <<line, start, quote, quote_pos, started>>

-----------------------------------------------------------------------------
(* tokenlist_free, which pipeline_parse calls when tokenize has failed *)

TextsOf(list) == Cardinality({k \in DOMAIN list : list[k].text # NoText})

FreeTokens ==
    /\ pc = "failed"
    /\ live' = [live EXCEPT !.texts = @ - TextsOf(tokens),
                            !.list = IF tcap > 0 THEN @ - 1 ELSE @]
    /\ tokens' = <<>> /\ tcap' = 0
    /\ pc' = "freed"
    /\ UNCHANGED <<line, i, start, b, bcap, quote, quote_pos, started, error>>

\* Back in pipeline_parse, which goes on with the tokens or returns an error.
Returned == pc \in {"succeeded", "freed"}

Next ==
    \/ SkipSpace \/ OperatorToken \/ BeginWord \/ EndOfLine
    \/ OpenQuote \/ CloseQuote \/ AddChar \/ BadWord \/ EndWord
    \/ FreeTokens
    \/ Returned /\ UNCHANGED vars

\* The call runs on until it returns.
Spec == Init /\ [][Next]_vars

-----------------------------------------------------------------------------
(* What the tokens of a line are, said of whole lines *)

\* QuoteAt(l)[k]: the quote that character k of l, counted from 0, stands in.
QuoteAt(l) ==
    LET q[k \in 0 .. Len(l)] ==
          IF k = 0 THEN NoQuote
          ELSE IF q[k - 1] = NoQuote
               THEN IF l[k] \in Quotes THEN l[k] ELSE NoQuote
               ELSE IF l[k] = q[k - 1] THEN NoQuote ELSE q[k - 1]
    IN q

\* The characters that belong to words, and those among them that delimit quotes.
WordChars(l) ==
    {k \in 0 .. Len(l) - 1 :
       QuoteAt(l)[k] # NoQuote \/ l[k + 1] \notin Operators \cup {"blank"}}
Delimiters(l) ==
    {k \in WordChars(l) : IF QuoteAt(l)[k] = NoQuote THEN l[k + 1] \in Quotes
                          ELSE l[k + 1] = QuoteAt(l)[k]}

\* The word that starts at k: the longest run of word characters, unquoted.
WordFrom(l, k) ==
    LET run == {j \in WordChars(l) : k <= j /\ k .. j \subseteq WordChars(l)}
    IN InOrder([j \in run \ Delimiters(l) |-> l[j + 1]])

\* A token starts at each operator that is not quoted and at each character of a
\* word that follows none.
TokenStarts(l) ==
    {k \in 0 .. Len(l) - 1 : IF k \in WordChars(l) THEN k - 1 \notin WordChars(l)
                             ELSE l[k + 1] \in Operators}
TokenFrom(l, k) == IF k \in WordChars(l) THEN Token("WORD", WordFrom(l, k), k)
                   ELSE Token(l[k + 1], NoText, k)
TokensOf(l) ==
    Append(InOrder([k \in TokenStarts(l) |-> TokenFrom(l, k)]), Token("END", NoText, Len(l)))

Unterminated(l) == QuoteAt(l)[Len(l)] # NoQuote
LastOpening(l) == Max({k \in Delimiters(l) : QuoteAt(l)[k] = NoQuote})

-----------------------------------------------------------------------------
(* Properties *)

\* No access is out of bounds: tokenize never reads beyond the NUL of the line,
\* nor writes a character, its NUL or a token beyond what it allocated.
InBounds ==
    /\ i <= Len(line)
    /\ Len(b) > 0 => Len(b) < bcap
    /\ Len(tokens) <= tcap

\* Whatever allocation fails, each block is freed once: what is live is what the
\* token list and the buffer hold, and nothing after a failure.
MemoryAccounted ==
    /\ live = [list |-> IF tcap > 0 THEN 1 ELSE 0,
               texts |-> TextsOf(tokens),
               buffer |-> IF bcap > 0 THEN 1 ELSE 0]
    /\ pc \in {"succeeded", "freed"} => live.buffer = 0
    /\ pc = "freed" => live.list = 0 /\ live.texts = 0

\* Success gives the tokens of the line, and only an unterminated quote or a lack
\* of memory makes the call fail, with an error that says which and where.
MeetsReference ==
    /\ pc = "succeeded" =>
         tokens = TokensOf(line) /\ ~Unterminated(line) /\ error = NoError
    /\ pc = "freed" =>
         \/ error.message = "out_of_memory"
         \/ /\ Unterminated(line)
            /\ error = [position |-> LastOpening(line),
                        message |-> "unterminated_quote"]

=============================================================================
