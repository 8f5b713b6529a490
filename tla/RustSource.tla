----------------------------- MODULE RustSource -----------------------------
(***************************************************************************)
(* A Rust file as scan reads it (rust.go): comments and strings are masked *)
(* by jumping from one to the end of it, macros are looked for in what is  *)
(* left, and the message of each in the original.  A source is a sequence  *)
(* of characters in which "info!(", an opening of a logging macro, and     *)
(* "Level::WARN" are one character each.                                   *)
(***************************************************************************)
EXTENDS Formats

CONSTANTS MacroLevel,   \* openings -> level, "" for event!(
          ArgLevel      \* "Level::X" -> level

Quote == "\""
Newline == "\n"
White == {Blank, Newline, "\t", "\r"}
WordChar == AlNum \cup {"_"}
Delimiter == {Quote, Newline, "/", "*", "\\", "#", "'"}

ASSUME RustAssumption ==
    /\ "r" \in AlNum
    /\ Delimiter \cap WordChar = {}
    /\ DOMAIN MacroLevel \cap (WordChar \cup Delimiter) = {}

Starts(s, text, i) ==
    i + Len(text) - 1 <= Len(s) /\ SubSeq(s, i, i + Len(text) - 1) = text

\* The first position from i on where the text is, or 0.
Find(s, text, i) ==
    LET found == {j \in i..Len(s) : Starts(s, text, j)}
    IN  IF found = {} THEN 0 ELSE Min(found)

\* quotedString: the closing quotes from j on, past escapes, and where the
\* string ends, with the source if need be.
Quotes(s, j) ==
    LET stops == Stops([k \in DOMAIN s |-> IF s[k] = "\\" /\ k < Len(s) THEN k + 1 ELSE k], j)
    IN  {k \in stops \cap DOMAIN s : s[k] = Quote}

QuoteEnd(s, j) == IF Quotes(s, j) = {} THEN Len(s) ELSE Min(Quotes(s, j))

\* rawString: how many hashes follow an r, and the last position, or 0.
Hashes(s, i) == Or(SelectInSubSeq(s, i + 1, Len(s), LAMBDA c : c # "#"), i + 1) - i - 1

RawEnd(s, i) ==
    LET n == Hashes(s, i)
        end == Find(s, <<Quote>> \o [h \in 1..n |-> "#"], i + n + 2)
    IN  IF s[i] = "r" /\ Starts(s, <<Quote>>, i + n + 1) /\ end # 0 THEN end + n ELSE 0

\* Defect: the end of a block comment is looked for from its star on.
BlockEndEarly(s, i) == Or(Find(s, <<"*","/">>, i + 1), Len(s) - 1) + 1

BlockEnd(s, i) == Or(Find(s, <<"*","/">>, i + 2), Len(s) - 1) + 1

LineEnd(s, i) == Or(Find(s, <<Newline>>, i), Len(s) + 1) - 1

(***************************************************************************)
(* Where what starts at i ends: a comment, a string, or the character.     *)
(***************************************************************************)
TokenEnd(s, i) ==
    IF Starts(s, <<"/","/">>, i) THEN LineEnd(s, i)
    ELSE IF Starts(s, <<"/","*">>, i) THEN BlockEnd(s, i)
    ELSE IF s[i] = Quote THEN QuoteEnd(s, i + 1)
    ELSE Or(RawEnd(s, i), i)

\* blankRust: the positions that are not blanked.
Visible(s) ==
    {i \in Stops([k \in DOMAIN s |-> TokenEnd(s, k)], 1) \cap DOMAIN s : TokenEnd(s, i) = i}

(***************************************************************************)
(* rustMacroRe: a macro whose name is not the end of a longer word.  The   *)
(* character before it belongs to the match, and so to no other.           *)
(***************************************************************************)
Sites(s) ==
    LET visible == Visible(s)
        site[i \in DOMAIN s] ==
            /\ i \in visible /\ s[i] \in DOMAIN MacroLevel
            /\ i - 1 \in visible => s[i-1] \notin WordChar /\ ~site[i-1]
    IN  {i \in DOMAIN s : site[i]}

\* scanRust: event!(Level::WARN, ...) names its level.
SiteLevel(s, i) ==
    LET arg == SelectInSubSeq(s, i + 1, Len(s), LAMBDA c : c \notin White)
    IN  IF MacroLevel[s[i]] # "" THEN MacroLevel[s[i]]
        ELSE IF arg # 0 /\ s[arg] \in DOMAIN ArgLevel THEN ArgLevel[s[arg]]
        ELSE "unknown"

\* quotedString: what a backslash makes of the character after it.
EscapeOf(c) ==
    CASE c = "n" -> Newline
      [] c = "t" -> "\t"
      [] c = "r" -> "\r"
      [] c = "0" -> "NUL"
      [] OTHER   -> c

Unescaped(s) ==
    LET escape(i) == s[i] = "\\" /\ i < Len(s)
    IN  Rewritten([i \in DOMAIN s |-> IF escape(i) THEN <<EscapeOf(s[i+1])>> ELSE <<s[i]>>],
                  [i \in DOMAIN s |-> IF escape(i) THEN i + 1 ELSE i])

\* The content of the literal at i.
Literal(s, i) ==
    IF s[i] = Quote
    THEN Unescaped(SubSeq(s, i + 1, IF Quotes(s, i + 1) = {} THEN Len(s)
                                    ELSE QuoteEnd(s, i + 1) - 1))
    ELSE LET n == Hashes(s, i) IN SubSeq(s, i + n + 2, RawEnd(s, i) - n - 1)

\* The last position of the char literal at i, or i, for a lifetime.
CharEnd(s, i) ==
    LET near == IF Starts(s, <<"\\">>, i + 1) THEN {i + 3}
                ELSE IF Starts(s, <<"\\">>, i + 2) THEN {i + 1} ELSE (i+1)..(i+3)
        ends == {j \in near : Starts(s, <<"'">>, j)}
    IN  IF ends = {} THEN i ELSE Min(ends)

Opening == {"(", "[", "{"} \cup DOMAIN MacroLevel
Closing == {")", "]", "}"}

(***************************************************************************)
(* firstMessageLiteral: the position of the first literal after the macro  *)
(* at site, outside of brackets, that is not the value of a named          *)
(* argument, or 0 when the macro is closed before one.                     *)
(***************************************************************************)
MessageAt(s, site) ==
    LET comment(i) == Starts(s, <<"/","/">>, i) \/ Starts(s, <<"/","*">>, i)
        string(i) == s[i] = Quote \/ RawEnd(s, i) # 0
        stops == {i \in DOMAIN s \cap
                        Stops([k \in DOMAIN s |-> IF s[k] = "'" THEN CharEnd(s, k)
                                                  ELSE TokenEnd(s, k)], site + 1) : ~comment(i)}
        before(i, set) == {j \in stops : j < i /\ s[j] \in set}
        depth(i) == Cardinality(before(i, Opening)) - Cardinality(before(i, Closing))
        last(i) == Max({site} \cup before(i, Char \ White))
        named(i) == last(i) # site /\ s[last(i)] \in {":", "="}
        ends == {i \in stops : depth(i) = 0 /\ (s[i] = ")" \/ (string(i) /\ ~named(i)))}
    IN  IF ends = {} THEN 0 ELSE IF s[Min(ends)] = ")" THEN 0 ELSE Min(ends)

\* scanRust: the template of a site, or <<>> when it is dynamic.
RustTemplate(s, site) ==
    LET at == MessageAt(s, site)
        text == NormalizedRust(Literal(s, at))
    IN  IF at = 0 THEN <<>> ELSE IF IsZeroLiteral(text) THEN <<>> ELSE <<text>>

-----------------------------------------------------------------------------
(***************************************************************************)
(* How Rust's lexer reads the source, one character after the other: what  *)
(* it is inside of, with the hashes that open a raw string (n) and those   *)
(* that may be closing it (k).  Block comments do not nest here, and a     *)
(* source with char literals or lifetimes is left alone.                   *)
(***************************************************************************)
Mode(name, n, k) == [in |-> name, n |-> n, k |-> k]
Plain(name) == Mode(name, 0, 0)

InString(c) ==
    IF c = "\\" THEN Plain("escape") ELSE IF c = Quote THEN Plain("code") ELSE Plain("string")

InBlock(c, star) ==
    IF c = "*" THEN Plain("star") ELSE IF c = "/" /\ star THEN Plain("code") ELSE Plain("block")

InRaw(m, c) ==
    LET k == IF c = Quote THEN 0 ELSE m.k + 1
    IN  IF c = Quote \/ (c = "#" /\ m.in = "close")
        THEN IF k = m.n THEN Plain("code") ELSE Mode("close", m.n, k)
        ELSE Mode("raw", m.n, 0)

\* A word right before a quote or a hash is not Rust, the r of a raw string
\* or of a raw identifier excepted; b and c before a quote are left aside.
InCode(m, c) ==
    IF c = "'" \/ (c \in {Quote, "#"} /\ m.in = "word") THEN Plain("invalid")
    ELSE IF c = Quote THEN IF m.in = "r" THEN Mode("raw", m.n, 0) ELSE Plain("string")
    ELSE IF m.in = "slash" /\ c = "/" THEN Plain("line")
    ELSE IF m.in = "slash" /\ c = "*" THEN Plain("block")
    ELSE IF m.in = "r" /\ c = "#" THEN Mode("r", m.n + 1, 0)
    ELSE IF c = "/" THEN Plain("slash")
    ELSE IF c = "r" /\ m.in \notin {"word", "r"} THEN Plain("r")
    ELSE IF c \in WordChar THEN Plain("word") ELSE Plain("code")

After(m, c) ==
    CASE m.in = "invalid" -> m
      [] m.in = "escape"  -> Plain("string")
      [] m.in = "string"  -> InString(c)
      [] m.in = "line"    -> IF c = Newline THEN Plain("code") ELSE m
      [] m.in \in {"block", "star"} -> InBlock(c, m.in = "star")
      [] m.in \in {"raw", "close"}  -> InRaw(m, c)
      [] m.in \in {"code", "slash", "r", "word"} -> InCode(m, c)

Modes(s) ==
    LET m[i \in 1..(Len(s) + 1)] == IF i = 1 THEN Plain("code") ELSE After(m[i-1], s[i-1])
    IN  m

\* Does the source end outside of strings and block comments?
Lexes(s) == Modes(s)[Len(s) + 1].in \in {"code", "slash", "r", "word", "line"}

\* The macros a compiler sees: in code, with a name of their own.
Macros(s) ==
    {i \in DOMAIN s : /\ s[i] \in DOMAIN MacroLevel
                      /\ \/ Modes(s)[i].in \in {"code", "slash"}
                         \/ Modes(s)[i].in = "r" /\ Modes(s)[i].n > 0}

\* Is there a character before each macro for its match to take?
Apart(s) == \A i \in 2..Len(s) : ~{s[i-1], s[i]} \subseteq DOMAIN MacroLevel
=============================================================================
