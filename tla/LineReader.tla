----------------------------- MODULE LineReader -----------------------------
(***************************************************************************)
(* readLine and the loops of srclog match, mine and enums around it        *)
(* (cmd/srclog/main.go).  Bytes arrive at their own pace in a pipe or a    *)
(* file; bufio's ReadSlice hands them out up to the next newline, or a     *)
(* whole buffer at a time when there is none in it, or what there is at    *)
(* the end of the input; readLine puts the pieces together and keeps at    *)
(* most MaxLine bytes of them.                                             *)
(***************************************************************************)
EXTENDS InputLine

CONSTANTS BufSize,    \* of the bufio.Reader, 64 KiB in the code
          MaxInput    \* bound on the bytes written

ASSUME ReaderAssumption == BufSize \in Nat \ {0} /\ MaxInput \in Nat

VARIABLES input,       \* the bytes written to the stream so far
          end,         \* "open", "eof", or "error" when reading broke off
          pos,         \* how many of them ReadSlice has handed out
          b,           \* the bytes readLine keeps of the line
          truncated,   \* it did not keep them all
          start,       \* history: pos when readLine was called
          command,     \* the command that reads
          out,         \* history: the lines it used, in order
          status       \* "reading", "done" or "failed"

readVars == <<input, end, pos, b, truncated, start, command, out, status>>

ReadInit ==
    /\ input = <<>> /\ end = "open"
    /\ pos = 0 /\ b = <<>> /\ truncated = FALSE /\ start = 0
    /\ command \in Command
    /\ out = <<>> /\ status = "reading"

Write(c) ==
    /\ end = "open" /\ Len(input) < MaxInput
    /\ input' = Append(input, c)
    /\ UNCHANGED <<end, pos, b, truncated, start, command, out, status>>

Close(how) ==
    /\ end = "open"
    /\ end' = how
    /\ UNCHANGED <<input, pos, b, truncated, start, command, out, status>>

-----------------------------------------------------------------------------
\* The buffered bytes up to n hold no newline.
NoNewline(n) == \A i \in pos+1..n : input[i] # LF

Full == Len(input) >= pos + BufSize /\ NoNewline(pos + BufSize)

\* What ReadSlice returned, with the reader now at n.
Chunk(n) == SubSeq(input, pos + 1, n)

Overflows(n) == Len(b) + (n - pos) > MaxLine

\* Defect: the chunk that overflows is kept whole.
ExtendedWhole(n) == IF Len(b) > MaxLine THEN b ELSE b \o Chunk(n)

Extended(n) ==
    b \o SubSeq(Chunk(n), 1, IF Overflows(n) THEN MaxLine - Len(b) ELSE n - pos)

\* What readLine returns when the reader is now at n.
LineAt(n) == TrimRight(Extended(n))
FlagAt(n) == truncated \/ Overflows(n)

\* Defect: a full buffer is taken for a line.
ContinueAsLine ==
    /\ status = "reading" /\ Full
    /\ out' = Use(out, command, LineAt(pos + BufSize), FlagAt(pos + BufSize))
    /\ pos' = pos + BufSize /\ start' = pos + BufSize
    /\ b' = <<>> /\ truncated' = FALSE
    /\ UNCHANGED <<input, end, command, status>>

\* ErrBufferFull: readLine goes round again.
Continue ==
    /\ status = "reading" /\ Full
    /\ pos' = pos + BufSize
    /\ b' = Extended(pos + BufSize)
    /\ truncated' = FlagAt(pos + BufSize)
    /\ UNCHANGED <<input, end, start, command, out, status>>

\* readLine returns, the command uses the line, and the next call begins.
Returns(n) ==
    /\ out' = Use(out, command, LineAt(n), FlagAt(n))
    /\ pos' = n /\ start' = n
    /\ b' = <<>> /\ truncated' = FALSE
    /\ UNCHANGED <<input, end, command>>

\* The bytes handed out next end at the newline n.
Delimits(n) ==
    /\ n \in pos+1..pos+BufSize /\ n <= Len(input)
    /\ input[n] = LF /\ NoNewline(n - 1)

\* Defect: a line waits until its buffer is full.
DelimitedInFull ==
    /\ status = "reading"
    /\ Len(input) >= pos + BufSize \/ end # "open"
    /\ \E n \in 1..Len(input) : Delimits(n) /\ Returns(n)
    /\ UNCHANGED status

Delimited ==
    /\ status = "reading"
    /\ \E n \in 1..Len(input) : Delimits(n) /\ Returns(n)
    /\ UNCHANGED status

\* Everything but the bytes up to n has been handed out; no more will come.
Drained(n) ==
    /\ end # "open"
    /\ n = Len(input) /\ n < pos + BufSize /\ NoNewline(n)

\* io.EOF comes with the last bytes; the loop ends after using them.
EndOfInput ==
    /\ status = "reading" /\ end = "eof"
    /\ Drained(Len(input)) /\ Returns(Len(input))
    /\ status' = "done"

\* Any other error ends the command without the line.
ReadFails ==
    /\ status = "reading" /\ end = "error"
    /\ Drained(Len(input))
    /\ status' = "failed"
    /\ UNCHANGED <<input, end, pos, b, truncated, start, command, out>>

\* So does an answer of match that cannot be written, and at the end the
\* artifact of the other two.
WriteFails ==
    /\ status = "reading"
    /\ \E n \in 0..Len(input) :
          /\ Delimits(n) \/ (end = "eof" /\ Drained(n))
          /\ IF command = "match" THEN Uses(command, LineAt(n), FlagAt(n)) ELSE Drained(n)
    /\ status' = "failed"
    /\ UNCHANGED <<input, end, pos, b, truncated, start, command, out>>

Step == Continue \/ Delimited \/ EndOfInput \/ ReadFails \/ WriteFails

ReadNext ==
    \/ \E c \in Byte : Write(c)
    \/ \E how \in {"eof", "error"} : Close(how)
    \/ Step

(***************************************************************************)
(* The command runs as long as it can: one goroutine, which only ever      *)
(* waits for input.  Nothing is assumed of whoever writes the log.         *)
(***************************************************************************)
ReadSpec == ReadInit /\ [][ReadNext]_readVars /\ WF_readVars(Step)
-----------------------------------------------------------------------------
(***************************************************************************)
(* Types; "one pathological line must not [...] balloon the run": readLine *)
(* never holds more than MaxLine bytes of a line.                          *)
(***************************************************************************)
ReadTypeOK ==
    /\ input \in Seq(Byte) /\ end \in {"open", "eof", "error"}
    /\ pos \in 0..Len(input) /\ start \in 0..pos
    /\ b \in Seq(Byte) /\ Len(b) <= MaxLine
    /\ truncated \in BOOLEAN
    /\ command \in Command
    /\ out \in Seq([line : Seq(Byte), explained : BOOLEAN])
    /\ status \in {"reading", "done", "failed"}

(***************************************************************************)
(* However the input is cut into buffers, the command handles its lines as *)
(* if each came in one piece: none is split, joined to the next, repeated  *)
(* or skipped; an overlong one costs its own tail and nothing else; and a  *)
(* command that ends well has handled everything.                          *)
(***************************************************************************)
Feed == INSTANCE LineFeed WITH taken <- start

ImplementsFeed == Feed!Spec

(***************************************************************************)
(* A line that has arrived is handled without waiting for the next one, so *)
(* a live stream is answered as it is written, and the command ends when   *)
(* the input does; unless it fails.                                        *)
(***************************************************************************)
EveryLineHandled ==
    /\ \A n \in 1..MaxInput :
          (n <= Len(input) /\ input[n] = LF) ~> (start >= n \/ status = "failed")
    /\ end # "open" ~> status # "reading"
=============================================================================
