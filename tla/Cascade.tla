------------------------------ MODULE Cascade ------------------------------
(***************************************************************************)
(* Resolve and node (cascade.go) with the matching they rest on: a line is *)
(* matched against the line templates, and its params, or the whole line   *)
(* when none matches, against a dictionary of suffix-anchored templates.   *)
(* The answer is a tree of nodes.                                          *)
(*                                                                         *)
(* Lines are over Char alone: a line that spells "<*>" has the three       *)
(* characters, never the symbol Placeholder.  An absent dictionary, and    *)
(* one that is not suffix-anchored, is the empty one.                      *)
(***************************************************************************)
EXTENDS Templates

CONSTANTS Colon,            \* with a Blank, the error-wrapping boundary ": "
          Primary,          \* the live templates of the line matcher
          Dict,             \* the templates of the suffix matcher
          MaxCascadeDepth   \* maxCascadeDepth, 4 in the code

ASSUME CascadeAssumption ==
    /\ Colon \in Char \ {Blank}
    /\ MaxCascadeDepth \in Nat
    /\ Primary \in Seq(ToSet(Primary)) /\ Dict \in Seq(ToSet(Dict))
    /\ \A t \in ToSet(Primary) \cup ToSet(Dict) :
          t.text \in Text /\ ~IsZeroLiteral(t.text)

\* templateID hashes level and text.
TemplateID(t) == <<t.level, t.text>>

Least(S) == {k \in S : \A m \in S : k <= m}

From(s, k) == SubSeq(s, k + 1, Len(s))

(***************************************************************************)
(* What the groups of a template's pattern capture of a text, as the set   *)
(* of the one sequence of captures, empty when the pattern does not match. *)
(* Groups are lazy: the first takes as little as lets the rest match, then *)
(* the second, and so on.  rest[i][j] is for the template after its first  *)
(* i symbols and the text after its first j.                               *)
(***************************************************************************)
Captures(text, s) ==
    LET rest[i \in 0..Len(text)] ==
          [j \in 0..Len(s) |->
             IF i = Len(text)
             THEN {c \in {<<>>} : j = Len(s)}
             ELSE IF text[i+1] = Placeholder
             THEN UNION {{<<SubSeq(s, j + 1, k)>> \o c : c \in rest[i+1][k]} :
                         k \in Least({m \in j..Len(s) : rest[i+1][m] # {}})}
             ELSE UNION {rest[i+1][k] : k \in {m \in {j + 1} : /\ m <= Len(s)
                                                               /\ s[m] = text[i+1]}}]
    IN  rest[0][0]

(***************************************************************************)
(* Where a dictionary template may take over: at the start or after ": ",  *)
(* the earliest that works (group 1 of regexForSuffix is lazy).            *)
(***************************************************************************)
Boundaries(s) == {0} \cup {k \in 2..Len(s) : s[k-1] = Colon /\ s[k] = Blank}

Cut(text, s) == Least({k \in Boundaries(s) : Captures(text, From(s, k)) # {}})

(***************************************************************************)
(* The order in which a matcher tries its fuzzy templates: most literal    *)
(* text first; on a tie those indexed by their first word, then manifest   *)
(* order.  A suffix matcher has no index.                                  *)
(***************************************************************************)
Sooner(templates, i, j, indexed) ==
    LET lit(k) == LiteralLen(templates[k].text)
    IN  \/ lit(i) > lit(j)
        \/ /\ lit(i) = lit(j)
           /\ \/ i \in indexed /\ j \notin indexed
              \/ (i \in indexed <=> j \in indexed) /\ i < j

First(templates, hits, indexed) ==
    {i \in hits : \A j \in hits \ {i} : Sooner(templates, i, j, indexed)}

Match(t, prefix, suffix, params) ==
    [template |-> t, prefix |-> prefix, suffix |-> suffix, params |-> params]

\* Match of the line matcher: the exact map, then the first pattern that matches.
LineMatch(line) ==
    LET fuzzy(i) == HasPlaceholder(Primary[i].text)
        exact    == {i \in DOMAIN Primary : ~fuzzy(i) /\ Primary[i].text = line}
        hits     == {i \in DOMAIN Primary :
                        fuzzy(i) /\ Captures(Primary[i].text, line) # {}}
        last     == {i \in exact : \A j \in exact : j <= i}
        best     == IF exact # {} THEN last
                    ELSE First(Primary, hits,
                               {i \in hits : FirstLiteralToken(Primary[i].text) # <<>>})
    IN  UNION {{Match(Primary[i], <<>>, FALSE, c) : c \in Captures(Primary[i].text, line)} :
               i \in best}

\* Match of the suffix matcher: the prefix is what stands before the boundary.
DictMatch(s) ==
    LET hits == {i \in DOMAIN Dict : Cut(Dict[i].text, s) # {}}
        best == First(Dict, hits, {})
        at(i, k) == {Match(Dict[i], SubSeq(s, 1, k), TRUE, c) :
                     c \in Captures(Dict[i].text, From(s, k))}
    IN  UNION {UNION {at(i, k) : k \in Cut(Dict[i].text, s)} : i \in best}

-----------------------------------------------------------------------------
Leaf(s) == [kind |-> "leaf", value |-> s]

\* Defect: the blanks TrimLeft cut are forgotten.
NodeTrimmed(m, blanks, params) ==
    [kind   |-> "node",
     id     |-> TemplateID(m.template),
     text   |-> m.template.text,
     prefix |-> m.prefix,
     suffix |-> m.suffix,
     params |-> params]

Node(m, blanks, params) ==
    [kind   |-> "node",
     id     |-> TemplateID(m.template),
     text   |-> m.template.text,
     prefix |-> blanks \o m.prefix,
     suffix |-> m.suffix,
     params |-> params]

IsNode(p) == p.kind = "node"

\* strings.TrimLeft cuts these.
Indent(s) ==
    LET i == SelectInSeq(s, LAMBDA c : c # Blank)
    IN  SubSeq(s, 1, IF i = 0 THEN Len(s) ELSE i - 1)

\* Defect: the depth is handed on as it came.
SameDepth(depth) == depth

Below(depth) == depth - 1

(***************************************************************************)
(* One param of node: with depth left, a dictionary match of the text      *)
(* without its leading blanks makes it a node, which keeps the blanks in   *)
(* its prefix; otherwise it stays a string.                                *)
(***************************************************************************)
Param[depth \in 0..MaxCascadeDepth] ==
    [s \in Seq(Char) |->
        LET blanks == Indent(s)
            found  == IF depth = 0 THEN {} ELSE DictMatch(From(s, Len(blanks)))
        IN  IF found = {} THEN Leaf(s)
            ELSE LET m == CHOOSE x \in found : TRUE
                 IN  Node(m, blanks, [i \in DOMAIN m.params |-> Param[Below(depth)][m.params[i]]])]

\* Resolve, as the set of the one root, empty when nothing matches.
Resolve(line) ==
    LET found == IF LineMatch(line) # {} THEN LineMatch(line) ELSE DictMatch(line)
    IN  {Node(m, <<>>, [i \in DOMAIN m.params |-> Param[MaxCascadeDepth][m.params[i]]]) :
         m \in found}

\* The nodes of a tree, level by level.
NodesIn(root) ==
    LET level[d \in 0..MaxCascadeDepth] ==
          IF d = 0 THEN {root}
          ELSE {p \in UNION {ToSet(n.params) : n \in level[d-1]} : IsNode(p)}
    IN  UNION {level[d] : d \in 0..MaxCascadeDepth}
=============================================================================
