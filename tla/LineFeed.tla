------------------------------ MODULE LineFeed ------------------------------
(***************************************************************************)
(* What the streaming commands promise of their input: its lines are       *)
(* handled one at a time, in order, each exactly once and as soon as it is *)
(* complete, whatever pieces it arrives in; of a long line the first       *)
(* MaxLine bytes are seen and it is flagged.  There is no buffer here and  *)
(* a line is handled in one step.  LineReader implements it.               *)
(***************************************************************************)
EXTENDS InputLine

VARIABLES input,     \* the bytes written to the stream so far
          end,       \* "open", "eof", or "error" when reading broke off
          taken,     \* how many of them belong to lines already handled
          command,   \* the command that reads
          out,       \* what it has used, in order
          status     \* "reading", "done" or "failed"

vars == <<input, end, taken, command, out, status>>

Init ==
    /\ input = <<>> /\ end = "open"
    /\ taken = 0
    /\ command \in Command
    /\ out = <<>> /\ status = "reading"

(***************************************************************************)
(* The bytes m+1..n of the input, its newline included, as one line.  The  *)
(* newline counts: a line of exactly MaxLine bytes is flagged for it.      *)
(***************************************************************************)
Bytes(m, n) == SubSeq(input, m + 1, n)

Kept(m, n) == SubSeq(Bytes(m, n), 1, IF n - m > MaxLine THEN MaxLine ELSE n - m)

Handle(n) ==
    out' = Use(out, command, TrimRight(Kept(taken, n)), n - taken > MaxLine)

\* There is no newline between m and n.
Unbroken(m, n) == \A i \in m+1..n : input[i] # LF

Write(c) ==
    /\ end = "open"
    /\ input' = Append(input, c)
    /\ UNCHANGED <<end, taken, command, out, status>>

Close(how) ==
    /\ end = "open"
    /\ end' = how
    /\ UNCHANGED <<input, taken, command, out, status>>

\* The next line is complete.
Line ==
    /\ status = "reading"
    /\ \E n \in taken+1..Len(input) :
          /\ input[n] = LF /\ Unbroken(taken, n - 1)
          /\ Handle(n)
          /\ taken' = n
    /\ UNCHANGED <<input, end, command, status>>

\* What is left at the end is a line too.
Finish ==
    /\ status = "reading" /\ end = "eof"
    /\ Unbroken(taken, Len(input))
    /\ Handle(Len(input))
    /\ taken' = Len(input)
    /\ status' = "done"
    /\ UNCHANGED <<input, end, command>>

\* Reading or writing failed; nothing is taken from the unfinished line.
Fail ==
    /\ status = "reading"
    /\ status' = "failed"
    /\ UNCHANGED <<input, end, taken, command, out>>

Next ==
    \/ \E c \in Byte : Write(c)
    \/ \E how \in {"eof", "error"} : Close(how)
    \/ Line \/ Finish \/ Fail

Spec == Init /\ [][Next]_vars
=============================================================================
