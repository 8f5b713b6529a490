----------------------------- MODULE MatchScan -----------------------------
(***************************************************************************)
(* Matcher.Match (match.go) step by step: the exact map, then the merge of *)
(* two specificity-ordered lists, the templates indexed under the line's   *)
(* first word and the unindexed rest, until a pattern matches.  One        *)
(* behaviour is one call on one line against one matcher.                  *)
(***************************************************************************)
EXTENDS Matcher

CONSTANTS Manifests   \* the template sequences a matcher is built from

ASSUME ManifestsAssumption == Manifests \subseteq Seq(Template)

VARIABLES templates,  \* the manifest
          live,       \* the positions that were not superseded
          line,       \* the argument of Match
          cand, rest, \* m.byTok[first field] and m.rest, in NewMatcher's order
          i, j,       \* how many of each have been tried
          result,     \* the position answered, 0 while there is none
          pc          \* "exact", "merge" or "done"

vars == <<templates, live, line, cand, rest, i, j, result, pc>>

\* Defect: the sort is left out.
SortedByPosition(S) == SetToSortSeq(S, LAMBDA a, b : a < b)

(***************************************************************************)
(* NewMatcher: the stable sort by descending literal length, applied to    *)
(* the live fuzzy templates of one list: what was earlier in the manifest  *)
(* stays earlier among templates of one length.                            *)
(***************************************************************************)
Sooner(a, b) ==
    \/ Heavier(templates, a, b)
    \/ ~Heavier(templates, b, a) /\ a < b

Sorted(S) ==
    CHOOSE s \in SetToSeqs(S) :
        \A a, b \in DOMAIN s : a < b => Sooner(s[a], s[b])

Init ==
    /\ templates \in Manifests
    /\ live \in SUBSET DOMAIN templates
    /\ \A k \in live : ~IsZeroLiteral(templates[k].text)
    /\ line \in Lines
    /\ cand = Sorted(ByTok(templates, live, LineKey[line]))
    /\ rest = Sorted(Rest(templates, live))
    /\ i = 0 /\ j = 0
    /\ result = 0
    /\ pc = "exact"

\* The map holds the last template NewMatcher stored under the text.
ExactHit ==
    /\ pc = "exact"
    /\ \E k \in Exact(templates, live, line) :
          /\ \A m \in Exact(templates, live, line) : m <= k
          /\ result' = k
    /\ pc' = "done"
    /\ UNCHANGED <<templates, live, line, cand, rest, i, j>>

ExactMiss ==
    /\ pc = "exact"
    /\ Exact(templates, live, line) = {}
    /\ pc' = "merge"
    /\ UNCHANGED <<templates, live, line, cand, rest, i, j, result>>

\* Defect: a tie goes to the rest.
TakesCandIfHeavier ==
    /\ i < Len(cand)
    /\ j < Len(rest) =>
          Lit[templates[cand[i+1]].text] > Lit[templates[rest[j+1]].text]

\* The indexed list goes first unless the rest's next has more literal text.
TakesCand ==
    /\ i < Len(cand)
    /\ j < Len(rest) =>
          Lit[templates[cand[i+1]].text] >= Lit[templates[rest[j+1]].text]

\* One turn of the loop: try a pattern, answer if it matches.
Try(k) ==
    IF <<templates[k].text, line>> \in Accepts
    THEN result' = k /\ pc' = "done"
    ELSE UNCHANGED <<result, pc>>

TryCand ==
    /\ pc = "merge"
    /\ TakesCand
    /\ Try(cand[i+1])
    /\ i' = i + 1
    /\ UNCHANGED <<templates, live, line, cand, rest, j>>

TryRest ==
    /\ pc = "merge"
    /\ ~TakesCand /\ j < Len(rest)
    /\ Try(rest[j+1])
    /\ j' = j + 1
    /\ UNCHANGED <<templates, live, line, cand, rest, i>>

NoMatch ==
    /\ pc = "merge"
    /\ i = Len(cand) /\ j = Len(rest)
    /\ pc' = "done"
    /\ UNCHANGED <<templates, live, line, cand, rest, i, j, result>>

Next == ExactHit \/ ExactMiss \/ TryCand \/ TryRest \/ NoMatch

Spec == Init /\ [][Next]_vars
-----------------------------------------------------------------------------
TypeOK ==
    /\ templates \in Seq(Template) /\ live \subseteq DOMAIN templates
    /\ line \in Lines
    /\ cand \in Seq(live) /\ rest \in Seq(live)
    /\ i \in 0..Len(cand) /\ j \in 0..Len(rest)
    /\ result \in live \cup {0}
    /\ pc \in {"exact", "merge", "done"}

(***************************************************************************)
(* The scan stops at the first pattern that matches, and that is the       *)
(* template the declarative Best names: Gate may use Best for Match.       *)
(***************************************************************************)
ScanFindsBest ==
    pc = "done" => ({result} \ {0}) = Best(templates, live, line)

(***************************************************************************)
(* The first-word index loses nothing (decisions.md 42): Match comes back  *)
(* empty-handed only when no live template, indexed under whatever word,   *)
(* matches the line.                                                       *)
(***************************************************************************)
IndexLosesNothing ==
    (pc = "done" /\ result = 0) =>
        \A k \in live : <<templates[k].text, line>> \notin Accepts

(***************************************************************************)
(* "dial <*>: timeout" beats "dial <*>: <*>" (match.go:92): when a         *)
(* template is answered, no live template that matches the line has more   *)
(* literal text, in whichever of the three structures it is kept.          *)
(***************************************************************************)
MostSpecificWins ==
    result # 0 =>
        \A k \in live : <<templates[k].text, line>> \in Accepts =>
            ~Heavier(templates, k, result)
=============================================================================
