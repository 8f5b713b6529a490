----------------------------- MODULE InputLine -----------------------------
(***************************************************************************)
(* What srclog match, mine and enums do with one line of their input       *)
(* (cmd/srclog/main.go), once readLine has returned it.  The lines the     *)
(* templates explain are a set, Known; how they do is MatchScan's matter.  *)
(***************************************************************************)
EXTENDS Integers, Sequences, SequencesExt

CONSTANTS Byte,     \* the bytes of a log stream
          CR, LF,   \* carriage return and newline among them
          Known,    \* the lines Resolve (or a dictionary) explains
          MaxLine       \* maxLineBytes, 1 MiB in the code

ASSUME InputAssumption == /\ CR \in Byte /\ LF \in Byte /\ CR # LF
                          /\ Known \subseteq Seq(Byte)
                          /\ MaxLine \in Nat

Command == {"match", "mine", "enums"}

\* strings.TrimRight(s, "\r\n")
TrimRight(s) ==
    SubSeq(s, 1, Max({0} \cup {i \in DOMAIN s : s[i] \notin {CR, LF}}))

\* A truncated line is never matched: a template could take its prefix.
Explained(line, truncated) == ~truncated /\ line \in Known

(***************************************************************************)
(* Empty lines are for nobody.  srclog match answers every other line,     *)
(* enums observes the explained ones, and mine feeds the miner those that  *)
(* are neither explained nor truncated.                                    *)
(***************************************************************************)
Uses(command, line, truncated) ==
    /\ line # <<>>
    /\ \/ command = "match"
       \/ command = "enums" /\ Explained(line, truncated)
       \/ command = "mine" /\ ~truncated /\ ~Explained(line, truncated)

Result(line, truncated) ==
    [line |-> line, explained |-> Explained(line, truncated)]

\* What the command has used so far, with one more line.
Use(out, command, line, truncated) ==
    IF Uses(command, line, truncated)
    THEN Append(out, Result(line, truncated))
    ELSE out
=============================================================================
