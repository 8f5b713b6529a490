------------------------------ MODULE Matcher ------------------------------
(***************************************************************************)
(* The matcher of match.go as operators: what NewMatcher keeps of a        *)
(* manifest, and which template Match answers with.  MatchScan runs the    *)
(* same lookup step by step; Gate builds the promotion gate on it.         *)
(*                                                                         *)
(* A manifest is a sequence of templates and a function, aliases, from     *)
(* superseded IDs to canonical ones.  Templates are pointers that no code  *)
(* writes through, so a matcher is known by the positions it was built     *)
(* from: the live ones.                                                    *)
(***************************************************************************)
EXTENDS Templates

CONSTANTS Texts,      \* the template texts in play
          Lines,      \* the lines in play, the gate's probes among them
          Level,      \* log levels, the empty one of a mined entry included
          Lib,        \* where a template came from: a logging library, or
          Mined,      \* the miner,
          Oversized   \* texts whose program regexp.Compile refuses

ASSUME MatcherAssumption == /\ Texts \subseteq Text
                            /\ Lines \subseteq Text
                            /\ Mined \in Lib
                            /\ Oversized \subseteq Texts

Template == [level : Level, text : Texts, lib : Lib]

\* templateID hashes level and text, nothing else: neither lib nor call site.
TemplateID(t) == <<t.level, t.text>>

IDs == Level \X Texts

(***************************************************************************)
(* What a compiled template carries: the lines its pattern accepts (kept   *)
(* as a relation, which TLC computes once), its specificity, and its index *)
(* key.                                                                    *)
(***************************************************************************)
Accepts  == UNION {{<<x, l>> : l \in {k \in Lines : Matches(x, k)}} : x \in Texts}
Lit      == [x \in Texts |-> LiteralLen(x)]
IndexKey == [x \in Texts |-> FirstLiteralToken(x)]
LineKey  == [l \in Lines |-> FirstField(l)]

(***************************************************************************)
(* NewMatcher leaves superseded entries out, and refuses a manifest with a *)
(* live template that says nothing or whose pattern does not compile.  A   *)
(* template without placeholders is never compiled.                        *)
(***************************************************************************)
Live(templates, aliases) ==
    {i \in DOMAIN templates : TemplateID(templates[i]) \notin DOMAIN aliases}

Compiles(text) == HasPlaceholder(text) => text \notin Oversized

Accepted(templates, aliases) ==
    \A i \in Live(templates, aliases) :
        ~IsZeroLiteral(templates[i].text) /\ Compiles(templates[i].text)

(***************************************************************************)
(* The exact map keeps, of several live templates without placeholders     *)
(* that have one text, the last it was given.                              *)
(***************************************************************************)
Exact(templates, live, line) ==
    {i \in live : ~HasPlaceholder(templates[i].text) /\ templates[i].text = line}

(***************************************************************************)
(* The fuzzy templates Match tries on a line: those indexed under the      *)
(* line's first word (byTok) and those without an index key (rest).        *)
(***************************************************************************)
ByTok(templates, live, token) ==
    {i \in live : /\ HasPlaceholder(templates[i].text)
                  /\ IndexKey[templates[i].text] # <<>>
                  /\ IndexKey[templates[i].text] = token}

\* Defect: superseded entries still compete.
RestOfManifest(templates, live) ==
    {i \in DOMAIN templates : /\ HasPlaceholder(templates[i].text)
                              /\ IndexKey[templates[i].text] = <<>>}

Rest(templates, live) ==
    {i \in live : /\ HasPlaceholder(templates[i].text)
                  /\ IndexKey[templates[i].text] = <<>>}

Hits(templates, live, line) ==
    {i \in ByTok(templates, live, LineKey[line]) \cup Rest(templates, live) :
        <<templates[i].text, line>> \in Accepts}

(***************************************************************************)
(* The order in which Match tries them: most literal text first; on a tie  *)
(* the indexed list before the rest, and within a list manifest order,     *)
(* which the stable sort keeps.                                            *)
(***************************************************************************)
Heavier(templates, i, j) == Lit[templates[i].text] > Lit[templates[j].text]

Before(templates, i, j) ==
    LET Indexed(k) == IndexKey[templates[k].text] # <<>>
    IN  \/ Heavier(templates, i, j)
        \/ /\ ~Heavier(templates, j, i)
           /\ \/ Indexed(i) /\ ~Indexed(j)
              \/ (Indexed(i) <=> Indexed(j)) /\ i < j

(***************************************************************************)
(* Match, as the set of the one position it answers with, or the empty set *)
(* when no template matches.                                               *)
(***************************************************************************)
Best(templates, live, line) ==
    LET exact == Exact(templates, live, line)
        hits  == Hits(templates, live, line)
    IN  IF exact # {}
        THEN {i \in exact : \A j \in exact : j <= i}
        ELSE {i \in hits : \A j \in hits \ {i} : Before(templates, i, j)}
=============================================================================
