-------------------------------- MODULE Gate --------------------------------
(***************************************************************************)
(* The decisions of the promotion gate (catalog.go) as operators on a      *)
(* catalog: its templates, oldest first, and its alias table.  Catalog     *)
(* runs them one candidate at a time; CatalogFile runs them inside         *)
(* processes that load and save the catalog.                               *)
(***************************************************************************)
EXTENDS Matcher

CONSTANT Sentinel   \* what stands for a placeholder, NUL srclog NUL

(***************************************************************************)
(* The candidate's text with the sentinel for every placeholder.           *)
(***************************************************************************)
Probe(text) ==
    FlattenSeq([i \in DOMAIN text |-> IF text[i] = Placeholder THEN Sentinel ELSE <<text[i]>>])

\* The gate probes with template texts; as lines these are what it is judged by.
ASSUME GateAssumption ==
    /\ Sentinel \in Seq(Char) \ {<<>>}
    /\ Texts \subseteq Lines
    /\ {Probe(t) : t \in Texts} \subseteq Lines

ProbeOf == [t \in Texts |-> Probe(t)]

(***************************************************************************)
(* The sentinel is a string like any other, so literal text of an entry    *)
(* may match inside it.  That cannot happen to an opaque text: none of its *)
(* literals is the sentinel's first or last character, and none of the     *)
(* stretches between two of its placeholders occurs in the sentinel.       *)
(***************************************************************************)
Gap(text, a, b) ==
    /\ a < b - 1
    /\ text[a] = Placeholder /\ text[b] = Placeholder
    /\ \A i \in a+1..b-1 : text[i] # Placeholder

Inside(text, a, b) ==
    \E k \in 0..Len(Sentinel) : \A i \in a+1..b-1 :
        k + i - a <= Len(Sentinel) /\ Sentinel[k + i - a] = text[i]

Opaque(text) ==
    /\ \A i \in DOMAIN text : text[i] \notin {Sentinel[1], Sentinel[Len(Sentinel)]}
    /\ \A a, b \in DOMAIN text : Gap(text, a, b) => ~Inside(text, a, b)

EntryIDs(templates) == {TemplateID(templates[i]) : i \in DOMAIN templates}

\* What a consumer reads for an ID: the alias table is followed once.
Resolve(aliases, id) == IF id \in DOMAIN aliases THEN aliases[id] ELSE id

(***************************************************************************)
(* The entry the gate takes to cover the candidate, at most one: the one   *)
(* that the candidate's probe, matched as a line, is answered with.        *)
(***************************************************************************)
Subsuming(templates, matcher, c) == Best(templates, matcher, ProbeOf[c.text])

\* Defect: any scanned candidate retires the entry that covers it.
ScanSupersedes(c, existing) == c.lib # Mined

(***************************************************************************)
(* A scanned template retires the mined entry that covers it; in every     *)
(* other case the entry that covers a candidate keeps its place.           *)
(***************************************************************************)
Supersedes(c, existing) == existing.lib = Mined /\ c.lib # Mined

AliasTo(aliases, id, canonical) ==
    [k \in DOMAIN aliases \cup {id} |-> IF k = id THEN canonical ELSE aliases[k]]

\* Defect: aliases that led to id are left behind.
AliasOnly(aliases, id, canonical) == AliasTo(aliases, id, canonical)

\* Defect: every alias is re-pointed.
RepointAll(aliases, id, canonical) ==
    [k \in DOMAIN aliases \cup {id} |-> canonical]

\* Alias id, and re-point every alias that resolved to it.
Repoint(aliases, id, canonical) ==
    [k \in DOMAIN aliases \cup {id} |->
        IF k = id \/ aliases[k] = id THEN canonical ELSE aliases[k]]
=============================================================================
