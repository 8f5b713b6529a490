----------------------------- MODULE Templates -----------------------------
(***************************************************************************)
(* Log templates and what they match (template.go, match.go, extract.go).  *)
(*                                                                         *)
(* A text is a sequence of characters in which the three bytes "<*>" are   *)
(* one symbol, Placeholder: no code under src/ looks inside it.  A line is *)
(* a text too, and a template's text is one: read as a line, its           *)
(* placeholders are symbols that only a placeholder can take.  Newlines    *)
(* are left out: every line has been cut at one by readLine.               *)
(***************************************************************************)
EXTENDS Integers, Sequences, FiniteSets, SequencesExt

CONSTANTS Char,         \* the characters literal text is made of
          AlNum,        \* the letters and digits among them
          Blank,        \* white space
          Placeholder   \* the marker of a variable part, "<*>"

ASSUME CharAssumption == /\ AlNum \subseteq Char
                         /\ Blank \in Char \ AlNum
                         /\ Placeholder \notin Char

Text == Seq(Char \cup {Placeholder})

HasPlaceholder(text) == Placeholder \in ToSet(text)

(***************************************************************************)
(* A text with fewer than two letters or digits says nothing: its pattern  *)
(* would match nearly every line.                                          *)
(***************************************************************************)
MinAlNum == 2

IsZeroLiteral(text) ==
    Cardinality({i \in DOMAIN text : text[i] \in AlNum}) < MinAlNum

LiteralLen(text) == Cardinality({i \in DOMAIN text : text[i] # Placeholder})

(***************************************************************************)
(* Does the pattern of a template match a whole line?  regexFor quotes the *)
(* literals, puts "(.*?)" for every placeholder and anchors both ends.  A  *)
(* match is an alignment: at[k] is how much of the line the first k        *)
(* symbols of the template take.  A literal takes exactly itself, a        *)
(* placeholder any stretch, the empty one included.  Without placeholders  *)
(* this is equality, which is how the exact map decides.                   *)
(***************************************************************************)
IsAlignment(at, text, s) ==
    /\ at[0] = 0 /\ at[Len(text)] = Len(s)
    /\ \A k, m \in 0..Len(text) : k <= m => at[k] <= at[m]
    /\ \A k \in 1..Len(text) :
          text[k] # Placeholder => /\ at[k] = at[k-1] + 1
                                   /\ s[at[k]] = text[k]

Matches(text, s) ==
    \E at \in [0..Len(text) -> 0..Len(s)] : IsAlignment(at, text, s)

(***************************************************************************)
(* The reference notion of one template subsuming another, by which the    *)
(* promotion gate's test is judged (Gate): the pattern of text matches the *)
(* other with every placeholder of it taken by one of its own.             *)
(***************************************************************************)
Covers(text, other) == Matches(text, other)

(***************************************************************************)
(* strings.Fields(s)[0], or the empty sequence when s is blank.            *)
(***************************************************************************)
FirstField(s) ==
    LET from == SelectInSeq(s, LAMBDA c : c # Blank)
        stop == SelectInSubSeq(s, from, Len(s), LAMBDA c : c = Blank)
    IN  IF from = 0 THEN <<>>
        ELSE SubSeq(s, from, IF stop = 0 THEN Len(s) ELSE stop - 1)

\* Defect: a first word with a placeholder in it is an index key too.
FirstWord(text) == FirstField(text)

(***************************************************************************)
(* The literal word a template starts with, or the empty sequence when it  *)
(* has none: the key under which the matcher indexes it.                   *)
(***************************************************************************)
FirstLiteralToken(text) ==
    IF HasPlaceholder(FirstField(text)) THEN <<>> ELSE FirstField(text)
=============================================================================
