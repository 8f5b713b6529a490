------------------------------ MODULE Catalog ------------------------------
(***************************************************************************)
(* Promote (catalog.go): candidates, mined from residual lines or scanned  *)
(* from source, are gated one after the other into an append-only catalog. *)
(* A behaviour is a history of Promote calls on one catalog in memory, on  *)
(* batches of any content and length; the catalog is lost with the process *)
(* when a call fails.                                                      *)
(*                                                                         *)
(* A nil candidate is skipped exactly like one without literal text.       *)
(***************************************************************************)
EXTENDS Gate

CONSTANTS Seeds,        \* catalogs to begin with: empty or a scan's manifest
          Candidates,   \* what a batch may hold
          MaxOffered    \* bound on the candidates of a history

ASSUME CatalogAssumption ==
    /\ Candidates \subseteq Template
    /\ Seeds \subseteq Seq(Template)
    /\ \A s \in Seeds : \A i, j \in DOMAIN s :
          TemplateID(s[i]) = TemplateID(s[j]) => i = j
    /\ MaxOffered \in Nat

VARIABLES templates,  \* catalog.Templates
          aliases,    \* catalog.Aliases: superseded or covered ID -> canonical ID
          byID,       \* the IDs of the catalog's entries, kept by hand
          matcher,    \* the positions the subsumption matcher was built from
          dirty,      \* an entry was admitted since
          pc,         \* "idle", "gating" or "failed"
          offered,    \* history: usable candidates the gate has decided
          count       \* candidates taken, for the bound

vars == <<templates, aliases, byID, matcher, dirty, pc, offered, count>>

NoAliases == [id \in {} |-> id]

Init ==
    /\ templates \in Seeds
    /\ aliases = NoAliases
    /\ byID = {} /\ matcher = {} /\ dirty = FALSE
    /\ pc = "idle"
    /\ offered = {} /\ count = 0

\* Promote indexes the catalog and compiles its live entries.
Begin ==
    /\ pc = "idle"
    /\ Accepted(templates, aliases)
    /\ byID' = EntryIDs(templates)
    /\ matcher' = Live(templates, aliases)
    /\ dirty' = FALSE
    /\ pc' = "gating"
    /\ UNCHANGED <<templates, aliases, offered, count>>

\* The first NewMatcher refuses the catalog.
Refuse ==
    /\ pc = "idle"
    /\ ~Accepted(templates, aliases)
    /\ pc' = "failed"
    /\ UNCHANGED <<templates, aliases, byID, matcher, dirty, offered, count>>

Return ==
    /\ pc = "gating"
    /\ pc' = "idle"
    /\ UNCHANGED <<templates, aliases, byID, matcher, dirty, offered, count>>

Take(c) == pc = "gating" /\ count < MaxOffered /\ count' = count + 1

\* Defect: the alias table is not consulted.
KnownEntry(c) == TemplateID(c) \in byID

Known(c) == TemplateID(c) \in byID \cup DOMAIN aliases

SkipUnusable(c) ==
    /\ Take(c)
    /\ IsZeroLiteral(c.text)
    /\ UNCHANGED <<templates, aliases, byID, matcher, dirty, pc, offered>>

SkipKnown(c) ==
    /\ Take(c)
    /\ ~IsZeroLiteral(c.text) /\ Known(c)
    /\ offered' = offered \cup {TemplateID(c)}
    /\ UNCHANGED <<templates, aliases, byID, matcher, dirty, pc>>

\* A candidate the gate has not seen; the matcher is rebuilt for it if an
\* entry was admitted since, and the batch fails when that cannot be done.
New(c) == Take(c) /\ ~IsZeroLiteral(c.text) /\ ~Known(c)

RebuildFails(c) ==
    /\ New(c)
    /\ dirty /\ ~Accepted(templates, aliases)
    /\ pc' = "failed"
    /\ UNCHANGED <<templates, aliases, byID, matcher, dirty, offered>>

\* Defect: the matcher of the start of the batch is kept.
StaleMatcher == matcher

Current == IF dirty THEN Live(templates, aliases) ELSE matcher

Decide(c) ==
    /\ New(c)
    /\ dirty => Accepted(templates, aliases)
    /\ matcher' = Current
    /\ offered' = offered \cup {TemplateID(c)}
    /\ pc' = pc

\* Defect: admitting does not mark the matcher stale.
AddEntryOnly(c) ==
    /\ templates' = Append(templates, c)
    /\ byID' = byID \cup {TemplateID(c)}
    /\ dirty' = FALSE

AddEntry(c) ==
    /\ templates' = Append(templates, c)
    /\ byID' = byID \cup {TemplateID(c)}
    /\ dirty' = TRUE

\* Genuinely novel: no live entry covers the candidate.
Admit(c) ==
    /\ Decide(c)
    /\ Subsuming(templates, Current, c) = {}
    /\ AddEntry(c)
    /\ UNCHANGED aliases

\* A scanned template takes over from the mined entry that covers it.
Supersede(c) ==
    /\ Decide(c)
    /\ \E i \in Subsuming(templates, Current, c) :
          /\ Supersedes(c, templates[i])
          /\ aliases' = Repoint(aliases, TemplateID(templates[i]), TemplateID(c))
    /\ AddEntry(c)

\* Defect: the alias names the covering text, not its ID.
AliasByText(c) ==
    /\ Decide(c)
    /\ \E i \in Subsuming(templates, Current, c) :
          /\ ~Supersedes(c, templates[i])
          /\ aliases' = AliasTo(aliases, TemplateID(c), templates[i].text)
    /\ dirty' = FALSE
    /\ UNCHANGED <<templates, byID>>

\* Defect: the covered candidate is counted and forgotten.
AliasUnrecorded(c) ==
    /\ Decide(c)
    /\ \E i \in Subsuming(templates, Current, c) : ~Supersedes(c, templates[i])
    /\ dirty' = FALSE
    /\ UNCHANGED <<templates, byID, aliases>>

\* Defect: the covering entry is aliased to the candidate.
AliasSwapped(c) ==
    /\ Decide(c)
    /\ \E i \in Subsuming(templates, Current, c) :
          /\ ~Supersedes(c, templates[i])
          /\ aliases' = AliasTo(aliases, TemplateID(templates[i]), TemplateID(c))
    /\ dirty' = FALSE
    /\ UNCHANGED <<templates, byID>>

\* Covered by an entry that stays: aliased, not admitted.
Alias(c) ==
    /\ Decide(c)
    /\ \E i \in Subsuming(templates, Current, c) :
          /\ ~Supersedes(c, templates[i])
          /\ aliases' = AliasTo(aliases, TemplateID(c), TemplateID(templates[i]))
    /\ dirty' = FALSE
    /\ UNCHANGED <<templates, byID>>

Next ==
    \/ Begin \/ Refuse \/ Return
    \/ \E c \in Candidates :
          \/ SkipUnusable(c) \/ SkipKnown(c) \/ RebuildFails(c)
          \/ Admit(c) \/ Supersede(c) \/ Alias(c)

Spec == Init /\ [][Next]_vars
-----------------------------------------------------------------------------
TypeOK ==
    /\ templates \in Seq(Template)
    /\ DOMAIN aliases \subseteq IDs
    /\ aliases \in [DOMAIN aliases -> IDs]
    /\ byID \subseteq IDs
    /\ matcher \subseteq DOMAIN templates
    /\ dirty \in BOOLEAN
    /\ pc \in {"idle", "gating", "failed"}
    /\ offered \subseteq IDs
    /\ count \in 0..MaxOffered

Entry(id) == {i \in DOMAIN templates : TemplateID(templates[i]) = id}

(***************************************************************************)
(* "Old references keep resolving" (template.go): an alias leads in one    *)
(* hop to an entry that is in the catalog and itself live, so a consumer   *)
(* that looks an ID up once never lands on a retired or missing template.  *)
(***************************************************************************)
AliasesResolve ==
    \A id \in DOMAIN aliases :
        /\ aliases[id] \in EntryIDs(templates)
        /\ aliases[id] \notin DOMAIN aliases

(***************************************************************************)
(* The gate decides on the catalog as it stands: a matcher that is not     *)
(* marked stale holds exactly the live entries, those admitted or retired  *)
(* earlier in the same batch included, and byID holds every entry.         *)
(***************************************************************************)
GateSeesCatalog ==
    pc = "gating" => /\ ~dirty => matcher = Live(templates, aliases)
                     /\ byID = EntryIDs(templates)

(***************************************************************************)
(* Only mined entries are ever retired, and only in favour of a scanned    *)
(* one: a template read from source never loses its own ID.                *)
(***************************************************************************)
OnlyMinedRetired ==
    \A i \in DOMAIN templates :
        TemplateID(templates[i]) \in DOMAIN aliases =>
            /\ templates[i].lib = Mined
            /\ \A j \in Entry(aliases[TemplateID(templates[i])]) :
                   templates[j].lib # Mined

(***************************************************************************)
(* An alias never joins shapes the gate has not seen together: some entry  *)
(* of the catalog takes the probes of both the aliased text and the        *)
(* canonical one, and unless its literals occur in the sentinel it covers  *)
(* both.                                                                   *)
(***************************************************************************)
AliasKeepsShape ==
    \A id \in DOMAIN aliases :
        \E i \in DOMAIN templates :
            \A text \in {id[2], aliases[id][2]} :
                /\ <<templates[i].text, ProbeOf[text]>> \in Accepts
                /\ Opaque(templates[i].text) => <<templates[i].text, text>> \in Accepts

(***************************************************************************)
(* "Re-promotion is idempotent": whatever the gate has decided on is an    *)
(* entry or an alias, so offering it again is a skip.                      *)
(***************************************************************************)
DecisionsRemembered == offered \subseteq EntryIDs(templates) \cup DOMAIN aliases

(***************************************************************************)
(* "Candidates that duplicate or are subsumed by existing entries don't    *)
(* get in": when an entry is admitted although live entries take its probe *)
(* (those that cover it do, and others may), it is a scanned one and one   *)
(* of them, a mined one, retires in the same step.  A variant mining       *)
(* learned again is never admitted, and entries admitted earlier in the    *)
(* same batch count.                                                       *)
(***************************************************************************)
NothingCoveredGetsIn ==
    [][\A n \in DOMAIN templates' \ DOMAIN templates :
          LET taking == {i \in Live(templates, aliases) :
                            <<templates[i].text, ProbeOf[templates'[n].text]>> \in Accepts}
          IN  taking # {} =>
                 /\ templates'[n].lib # Mined
                 /\ \E i \in taking : /\ templates[i].lib = Mined
                                      /\ i \notin Live(templates', aliases')]_vars

(***************************************************************************)
(* The catalog is a table of references (module References): append-only,  *)
(* every ID it ever accepted resolves in one hop to a live entry, and what *)
(* an ID resolves to changes at most once, from a mined entry to a scanned *)
(* one, for all the IDs that resolved there together.                      *)
(***************************************************************************)
TableEntry(t) == [id |-> TemplateID(t), final |-> t.lib # Mined]

TableEntries == [i \in DOMAIN templates |-> TableEntry(templates[i])]

Resolution == [id \in EntryIDs(templates) \cup DOMAIN aliases |-> Resolve(aliases, id)]

Table == INSTANCE References WITH
            Ref <- IDs, entries <- TableEntries, resolves <- Resolution

ImplementsReferences == Table!Spec

(***************************************************************************)
(* What catalog.go:85 takes for granted when it retires a mined entry: the *)
(* scanned template is the exact template the mined one approximated, so   *)
(* the canonical template still says everything the aliased one did.  By   *)
(* the gate's own test it does not.                                        *)
(***************************************************************************)
CanonicalCoversAlias ==
    \A id \in DOMAIN aliases : <<aliases[id][2], ProbeOf[id[2]]>> \in Accepts

(***************************************************************************)
(* What catalog.go:109 says of subsuming: it returns an entry that already *)
(* covers the candidate, so an aliased template is covered by some entry.  *)
(* The sentinel makes it fail for entries that are not opaque.             *)
(***************************************************************************)
AliasedIsCovered ==
    \A id \in DOMAIN aliases :
        \E i \in DOMAIN templates : <<templates[i].text, id[2]>> \in Accepts
=============================================================================
