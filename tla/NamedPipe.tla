------------------------------ MODULE NamedPipe ------------------------------
(* ipc/named_pipe_recver.c prints one line for each time it opens FIFO_FILE;  *)
(* each run of ipc/named_pipe_sender.c writes its argument there.  A text is  *)
(* "plain", or "line": fgets stops in it, at a newline or at 79 characters,   *)
(* or "empty".  Plain texts together are shorter than readbuf.                *)
EXTENDS Sequences, Naturals, SequencesExt

CONSTANT Senders

VARIABLES
    text,       \* the argument of each sender
    kind,       \* what FIFO_FILE is: "none", "fifo" or a regular "file"
    content,    \* what has been written there and not read, by sender
    sender,     \* the place of each sender
    receiver,   \* the place of the receiver
    taken,      \* what stdio has read since fopen
    stale,      \* history: readbuf was printed although fgets read nothing
    got,        \* history: how often each text was printed
    interrupted \* history: a signal has ended some process

pipeVars == <<text, kind, content, sender, receiver, taken, stale, got, interrupted>>
history == <<text, stale, got, interrupted>>

Init ==
    /\ text \in [Senders -> {"plain", "line", "empty"}]
    /\ kind = "none" /\ content = <<>> /\ taken = <<>>
    /\ sender = [s \in Senders |-> "open"]
    /\ receiver = "mkfifo"
    /\ stale = FALSE /\ got = [s \in Senders |-> 0] /\ interrupted = FALSE

SenderGoes(s, from, to) == sender[s] = from /\ sender' = [sender EXCEPT ![s] = to]
ReceiverGoes(from, to) == receiver = from /\ receiver' = to

Reading == receiver \in {"fgets", "print"}
Writers == {s \in Senders : sender[s] \in {"write", "close"}}

\* A FIFO that nobody has open keeps nothing.
Kept(writers, reading) == IF kind = "file" \/ writers # {} \/ reading THEN content ELSE <<>>

-----------------------------------------------------------------------------
\* fopen for writing makes a file when there is none; on a FIFO it waits for a
\* receiver, and wakes one that waits for a sender.
SenderOpen(s) ==
    /\ SenderGoes(s, "open", "write")
    /\ kind' = IF kind = "none" THEN "file" ELSE kind
    /\ content' = IF kind = "fifo" THEN content ELSE <<>>
    /\ kind = "fifo" => receiver = "open" \/ Reading
    /\ receiver' = IF kind = "fifo" /\ receiver = "open" THEN "fgets" ELSE receiver
    /\ UNCHANGED <<taken, history>>

\* fclose writes what fputs has stored: SIGPIPE when no receiver has the FIFO open.
SenderWrite(s) ==
    /\ SenderGoes(s, "write",
          IF text[s] = "empty" \/ kind = "file" \/ Reading THEN "close" ELSE "dead")
    /\ content' = IF text[s] = "empty" \/ (kind = "fifo" /\ ~Reading) THEN content
                  ELSE IF kind = "fifo" THEN Append(content, s) ELSE <<s>>
    /\ UNCHANGED <<kind, receiver, taken, history>>

SenderClose(s) ==
    /\ SenderGoes(s, "close", "done")
    /\ content' = Kept(Writers \ {s}, Reading)
    /\ UNCHANGED <<kind, receiver, taken, history>>

SenderKilled(s) ==
    /\ sender[s] \in {"open", "write"}
    /\ SenderGoes(s, sender[s], "dead")
    /\ content' = Kept(Writers \ {s}, Reading)
    /\ interrupted' = TRUE
    /\ UNCHANGED <<text, kind, receiver, taken, stale, got>>

-----------------------------------------------------------------------------
MakeFifo ==
    /\ ReceiverGoes("mkfifo", "open")
    /\ kind' = IF kind = "none" THEN "fifo" ELSE kind
    /\ UNCHANGED <<content, sender, taken, history>>

ReceiverOpenNonblocking ==
    /\ ReceiverGoes("open", "fgets")
    /\ UNCHANGED <<kind, content, sender, taken, history>>
ReceiverOpen ==
    /\ kind = "file" \/ Writers # {}
    /\ ReceiverGoes("open", "fgets")
    /\ UNCHANGED <<kind, content, sender, taken, history>>

EndsLine(s) == text[s] = "line"
Complete == SelectInSeq(taken, EndsLine) > 0
Line == IF Complete THEN SubSeq(taken, 1, SelectInSeq(taken, EndsLine)) ELSE taken

\* stdio takes all there is, and fgets goes on for as long as its line is open.
Read ==
    /\ receiver = "fgets" /\ ~Complete
    /\ content # <<>> /\ (kind = "file" => taken = <<>>)
    /\ taken' = taken \o content
    /\ content' = IF kind = "file" THEN content ELSE <<>>
    /\ UNCHANGED <<kind, sender, receiver, history>>

EndOfFile ==
    IF kind = "file" THEN content # <<>> => taken # <<>> ELSE content = <<>> /\ Writers = {}

PrintLine ==
    /\ Complete \/ EndOfFile
    /\ ReceiverGoes("fgets", "print")
    /\ stale' = (stale \/ taken = <<>>)
    /\ got' = [s \in Senders |->
                 IF Contains(Line, s) /\ got[s] < 2 THEN got[s] + 1 ELSE got[s]]
    /\ UNCHANGED <<text, kind, content, sender, taken, interrupted>>

\* fclose drops what fgets has left of taken.
ReceiverClose ==
    /\ ReceiverGoes("print", "open")
    /\ taken' = <<>>
    /\ content' = Kept(Writers, FALSE)
    /\ UNCHANGED <<kind, sender, history>>

\* The only way to end it; it may be started again.
ReceiverKilled ==
    /\ ReceiverGoes(receiver, "mkfifo")
    /\ taken' = <<>>
    /\ content' = Kept(Writers, FALSE)
    /\ interrupted' = TRUE
    /\ UNCHANGED <<text, kind, sender, stale, got>>

Next ==
    \/ \E s \in Senders :
          SenderOpen(s) \/ SenderWrite(s) \/ SenderClose(s) \/ SenderKilled(s)
    \/ MakeFifo \/ ReceiverOpen \/ Read \/ PrintLine \/ ReceiverClose \/ ReceiverKilled

Spec == Init /\ [][Next]_pipeVars

-----------------------------------------------------------------------------
(* Over a FIFO and without signals plain texts are never printed twice, nor  *)
(* is a line printed that was not read; and the text of a sender that runs   *)
(* alone is printed once it has ended and the receiver waits again.  A sender *)
(* that arrives while the receiver prints may lose its text, one that runs   *)
(* before mkfifo makes a file that is printed for ever, and after an empty   *)
(* text, or one in which fgets stops before the sender closes, the old line  *)
(* is printed again (named_pipe_recver.c:23-30, named_pipe_sender.c:21-28).   *)
PlainTextsArriveOnce ==
    (kind = "fifo" /\ ~interrupted /\ \A s \in Senders : text[s] = "plain") =>
        /\ ~stale
        /\ \A s \in Senders :
              /\ got[s] <= 1
              /\ (/\ sender[s] \in {"done", "dead"} /\ receiver = "open"
                  /\ \A r \in Senders \ {s} : sender[r] = "open") => got[s] = 1
=============================================================================
