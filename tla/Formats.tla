------------------------------ MODULE Formats ------------------------------
(***************************************************************************)
(* Format strings: what the scanners make of them (template.go, rust.go),  *)
(* and what the run time of the scanned program makes of them.  A text is  *)
(* a sequence of characters; "[n]", an argument index, is one character,   *)
(* and so is Placeholder.  The operators for the run time are models of    *)
(* Go's fmt and Rust's format_args, for formats their compilers and vet    *)
(* accept; values are what the verbs print, in turn.                       *)
(***************************************************************************)
EXTENDS Templates

CONSTANTS Letter,   \* letters
          Digit,    \* digits
          Index     \* an argument index, "[n]"

ASSUME FormatAssumption ==
    /\ AlNum = Letter \cup Digit /\ Letter \cap Digit = {}
    /\ {"%", "*", ".", ":", "{", "}", "#", "+", "-", "'", Index} \subseteq Char \ AlNum
    /\ "0" \notin Letter /\ "%" \notin {Blank, Index}

(***************************************************************************)
(* Matches, of Templates, read off the two texts symbol by symbol: how     *)
(* much of the line the first i symbols of the template may take.          *)
(***************************************************************************)
Takes(text, line) ==
    LET after[i \in 0..Len(text)] ==
            LET before == after[i-1] IN
            IF i = 0 THEN {0}
            ELSE IF text[i] = Placeholder
            THEN {n \in 0..Len(line) : \E m \in before : m <= n}
            ELSE {n \in 1..Len(line) : n - 1 \in before /\ line[n] = text[i]}
    IN  Len(line) \in after[Len(text)]

ASSUME TakesMatches ==
    \A text, line \in BoundedSeq({Placeholder, Blank, Index}, 3) :
        Takes(text, line) <=> Matches(text, line)

(***************************************************************************)
(* Reading a text from position i on, where what starts at k ends at       *)
(* ends[k]: the positions something starts at, that after the end of the   *)
(* text included.                                                          *)
(***************************************************************************)
Stops(ends, i) ==
    LET from[k \in 1..(Len(ends) + 1)] ==
            {k} \cup (IF k = Len(ends) + 1 THEN {} ELSE from[ends[k] + 1])
    IN  from[i]

\* The text made of the pieces that stand for what starts at each position.
Rewritten(pieces, ends) ==
    LET stops == Stops(ends, 1)
    IN  FlattenSeq([i \in DOMAIN pieces |-> IF i \in stops THEN pieces[i] ELSE <<>>])

Or(position, default) == IF position = 0 THEN default ELSE position

\* The value for the verb at i, one of verbs, when they take values in turn.
InTurn(values, verbs, i) ==
    values[(Cardinality({j \in verbs : j < i}) % Len(values)) + 1]

-----------------------------------------------------------------------------
Flag == {"#", "+", "-", "0", "'", Blank}

All(s, from, to, set) == \A k \in from..to : s[k] \in set

\* "*" or digits or nothing
IsSize(s, from, to) == (from = to /\ s[from] = "*") \/ All(s, from, to, Digit)

(***************************************************************************)
(* What verbRe takes between "%" and the verb's letter: flags, an index, a *)
(* width and a precision, each of them optional.                           *)
(***************************************************************************)
IsSpec(s) ==
    \E f \in 0..Len(s) : \E x \in {f, f + 1} : \E w \in x..Len(s) :
        /\ All(s, 1, f, Flag)
        /\ x = f \/ s[x] = Index
        /\ IsSize(s, x + 1, w)
        /\ w = Len(s) \/ (s[w+1] = "." /\ IsSize(s, w + 2, Len(s)))

(***************************************************************************)
(* The verb that starts at position i of a format: its last position, or 0 *)
(* when there is none.                                                     *)
(***************************************************************************)
VerbEnd(s, i) ==
    LET end == SelectInSubSeq(s, i + 1, Len(s), LAMBDA c : c \in Letter \cup {"%"})
    IN  IF s[i] = "%" /\ end # 0 /\ IsSpec(SubSeq(s, i + 1, end - 1)) THEN end ELSE 0

\* normalizeFormat
Normalized(s) ==
    Rewritten([i \in DOMAIN s |-> IF VerbEnd(s, i) = 0 THEN <<s[i]>>
                                  ELSE IF VerbEnd(s, i) = i + 1 /\ s[i+1] = "%" THEN <<"%">>
                                  ELSE <<Placeholder>>],
              [i \in DOMAIN s |-> Or(VerbEnd(s, i), i)])

(***************************************************************************)
(* fmt.Sprintf reads flags, sizes and indices in the order of verbRe, and  *)
(* takes an index before each size and the verb.                           *)
(***************************************************************************)
SpecChar == Flag \cup Digit \cup {"*", ".", Index}

Verb(s, i) ==
    IF s[i] # "%" THEN i
    ELSE Or(SelectInSubSeq(s, i + 1, Len(s), LAMBDA c : c \notin SpecChar), i)

Sprintf(s, values) ==
    LET ends == [i \in DOMAIN s |-> Verb(s, i)]
        operand(i) == s[i] = "%" /\ s[Verb(s, i)] # "%"
        verbs == {i \in Stops(ends, 1) \cap DOMAIN s : operand(i)}
    IN  Rewritten([i \in DOMAIN s |-> IF operand(i) THEN InTurn(values, verbs, i)
                                      ELSE <<s[i]>>], ends)

-----------------------------------------------------------------------------
(***************************************************************************)
(* Rust: "{{" and "}}" are set aside, leftmost first, then "{...}" becomes *)
(* a placeholder, then the two come back as braces.  A format that holds   *)
(* one of the two stand-ins itself gets a brace for it.                    *)
(***************************************************************************)
StandIn == {"NUL", "SOH"}

IsPair(s, i, c) == i < Len(s) /\ s[i] = c /\ s[i+1] = c

PairsReplaced(s, c, by) ==
    Rewritten([i \in DOMAIN s |-> IF IsPair(s, i, c) THEN <<by>> ELSE <<s[i]>>],
              [i \in DOMAIN s |-> IF IsPair(s, i, c) THEN i + 1 ELSE i])

\* The end of the spec that starts at i, or 0.
SpecEnd(s, i) ==
    LET brace == SelectInSubSeq(s, i + 1, Len(s), LAMBDA c : c \in {"{", "}"})
    IN  IF s[i] = "{" /\ brace # 0 /\ s[brace] = "}" THEN brace ELSE 0

SpecsReplaced(s) ==
    Rewritten([i \in DOMAIN s |-> IF SpecEnd(s, i) = 0 THEN <<s[i]>> ELSE <<Placeholder>>],
              [i \in DOMAIN s |-> Or(SpecEnd(s, i), i)])

\* normalizeRustFormat
NormalizedRust(s) ==
    LET aside == PairsReplaced(PairsReplaced(s, "{", "NUL"), "}", "SOH")
    IN  ReplaceAll(ReplaceAll(SpecsReplaced(aside), "NUL", "{"), "SOH", "}")

\* format_args: left to right, a brace doubled or the spec it opens.
FormatArgs(s, values) ==
    LET doubled(i) == IsPair(s, i, "{") \/ IsPair(s, i, "}")
        operand(i) == s[i] = "{" /\ ~doubled(i)
        close(i) == SelectInSubSeq(s, i + 1, Len(s), LAMBDA c : c = "}")
        ends == [i \in DOMAIN s |-> IF doubled(i) THEN i + 1
                                    ELSE IF operand(i) THEN Or(close(i), i) ELSE i]
        specs == {i \in Stops(ends, 1) \cap DOMAIN s : operand(i)}
    IN  Rewritten([i \in DOMAIN s |-> IF operand(i) THEN InTurn(values, specs, i)
                                      ELSE <<s[i]>>], ends)
=============================================================================
