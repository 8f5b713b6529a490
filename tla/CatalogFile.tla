---------------------------- MODULE CatalogFile ----------------------------
(***************************************************************************)
(* srclog promote (runPromote and writeJSON, cmd/srclog/main.go): processes *)
(* that load the catalog file, gate candidates into it in memory, and save *)
(* it by writing a temporary file and renaming it over the catalog.        *)
(*                                                                         *)
(* Files are inodes: os.WriteFile opens and truncates whatever inode the   *)
(* temporary name has, and keeps writing to it when another process has    *)
(* renamed it meanwhile.  A process may be killed at any step.  The        *)
(* machine itself does not go down: what was written stays written.        *)
(*                                                                         *)
(* Gating is Catalog's, one candidate at a time, with the matcher built    *)
(* from the live entries each time: CatalogProofs shows (GateNeverStale)   *)
(* that this is what Promote's cached matcher amounts to.                  *)
(***************************************************************************)
EXTENDS Gate

CONSTANTS Promoter,    \* processes
          Inode,       \* enough of them: one a name, one a process
          None,        \* no inode
          Truncated,   \* content of a file just truncated
          Torn,        \* content of a file partly written or overwritten
          Candidates   \* what the candidates files may hold

\* What a catalog is, in memory or in a file.
CatalogValues ==
    [templates : Seq(Template), aliases : UNION {[D -> IDs] : D \in SUBSET IDs}]

\* A file that was cut short or overwritten in part does not parse.
ASSUME CatalogFileAssumption ==
    /\ Candidates \subseteq Template
    /\ None \notin Inode
    /\ Cardinality(Inode) >= Cardinality(Promoter) + 2
    /\ Truncated \notin CatalogValues /\ Torn \notin CatalogValues

VARIABLES file,      \* inode -> content
          name,      \* "catalog", "tmp" -> inode
          fd,        \* process -> the inode it has open for writing
          mem,       \* process -> the catalog it holds
          decided,   \* history: process -> the usable IDs this run has gated
          pc         \* process -> "start", "gating", "saving", "opened",
                     \*            "written", "done" or "failed"

vars == <<file, name, fd, mem, decided, pc>>

EmptyCatalog == [templates |-> <<>>, aliases |-> [id \in {} |-> id]]

IsCatalog(content) == content \notin {Truncated, Torn}

\* What a process that opens the catalog path reads.
OnDisk == IF name["catalog"] = None THEN EmptyCatalog ELSE file[name["catalog"]]

Goto(p, label) == pc' = [pc EXCEPT ![p] = label]

Init ==
    /\ file = [n \in Inode |-> Truncated]
    /\ name = [f \in {"catalog", "tmp"} |-> None]
    /\ fd = [p \in Promoter |-> None]
    /\ mem = [p \in Promoter |-> EmptyCatalog]
    /\ decided = [p \in Promoter |-> {}]
    /\ pc = [p \in Promoter |-> "start"]

\* Defect: a catalog that cannot be used is taken for a missing one.
LoadOrBegin(p) ==
    /\ pc[p] = "start"
    /\ Goto(p, "gating")
    /\ mem' = [mem EXCEPT ![p] =
                 IF IsCatalog(OnDisk) /\ Accepted(OnDisk.templates, OnDisk.aliases)
                 THEN OnDisk ELSE EmptyCatalog]
    /\ decided' = [decided EXCEPT ![p] = {}]
    /\ UNCHANGED <<file, name, fd>>

\* A missing catalog is an empty one; one that does not parse or that
\* NewMatcher refuses ends the run.
Load(p) ==
    /\ pc[p] = "start"
    /\ IF IsCatalog(OnDisk) /\ Accepted(OnDisk.templates, OnDisk.aliases)
       THEN Goto(p, "gating") /\ mem' = [mem EXCEPT ![p] = OnDisk]
       ELSE Goto(p, "failed") /\ UNCHANGED mem
    /\ decided' = [decided EXCEPT ![p] = {}]
    /\ UNCHANGED <<file, name, fd>>

(***************************************************************************)
(* The catalogs Promote may make of one candidate.                         *)
(***************************************************************************)
Gated(cat, c) ==
    LET existing == Subsuming(cat.templates, Live(cat.templates, cat.aliases), c)
        id       == TemplateID(c)
        entered  == Append(cat.templates, c)
    IN  IF IsZeroLiteral(c.text) \/ id \in EntryIDs(cat.templates) \cup DOMAIN cat.aliases
        THEN {cat}
        ELSE IF existing = {}
        THEN {[templates |-> entered, aliases |-> cat.aliases]}
        ELSE {LET e == TemplateID(cat.templates[i]) IN
              IF Supersedes(c, cat.templates[i])
              THEN [templates |-> entered, aliases |-> Repoint(cat.aliases, e, id)]
              ELSE [templates |-> cat.templates, aliases |-> AliasTo(cat.aliases, id, e)] :
              i \in existing}

GateCandidate(p) ==
    /\ pc[p] = "gating"
    /\ Accepted(mem[p].templates, mem[p].aliases)
    /\ \E c \in Candidates :
          /\ \E cat \in Gated(mem[p], c) : mem' = [mem EXCEPT ![p] = cat]
          /\ decided' = [decided EXCEPT ![p] =
                           @ \cup (IF IsZeroLiteral(c.text) THEN {} ELSE {TemplateID(c)})]
    /\ UNCHANGED <<file, name, fd, pc>>

\* A candidates file cannot be read, or Promote fails: nothing is saved.
Fail(p) ==
    /\ pc[p] = "gating"
    /\ Goto(p, "failed")
    /\ UNCHANGED <<file, name, fd, mem, decided>>

BatchDone(p) ==
    /\ pc[p] = "gating"
    /\ Goto(p, "saving")
    /\ UNCHANGED <<file, name, fd, mem, decided>>

InUse(n) == n \in {name[f] : f \in DOMAIN name} \cup {fd[q] : q \in Promoter}

\* Defect: the catalog itself is opened, not a file next to it.
OpenInPlace(p) ==
    /\ pc[p] = "saving"
    /\ \E n \in Inode :
          /\ IF name["catalog"] = None THEN ~InUse(n) ELSE n = name["catalog"]
          /\ file' = [file EXCEPT ![n] = Truncated]
          /\ name' = [name EXCEPT !["catalog"] = n]
          /\ fd' = [fd EXCEPT ![p] = n]
    /\ Goto(p, "opened")
    /\ UNCHANGED <<mem, decided>>

\* os.WriteFile: open path.tmp, creating or truncating it.
OpenTmp(p) ==
    /\ pc[p] = "saving"
    /\ \E n \in Inode :
          /\ IF name["tmp"] = None THEN ~InUse(n) ELSE n = name["tmp"]
          /\ file' = [file EXCEPT ![n] = Truncated]
          /\ name' = [name EXCEPT !["tmp"] = n]
          /\ fd' = [fd EXCEPT ![p] = n]
    /\ Goto(p, "opened")
    /\ UNCHANGED <<mem, decided>>

\* Defect: the file is left open.
WriteTmpOnly(p) ==
    /\ pc[p] = "opened"
    /\ file' = [file EXCEPT ![fd[p]] = mem[p]]
    /\ Goto(p, "written")
    /\ UNCHANGED <<name, fd, mem, decided>>

\* Write from the start of the file and close it.  The tail of something
\* longer that another process wrote there stays.
WriteTmp(p) ==
    /\ pc[p] = "opened"
    /\ \E content \in {mem[p]} \cup (IF file[fd[p]] = Truncated THEN {} ELSE {Torn}) :
          file' = [file EXCEPT ![fd[p]] = content]
    /\ fd' = [fd EXCEPT ![p] = None]
    /\ Goto(p, "written")
    /\ UNCHANGED <<name, mem, decided>>

\* Defect: the result is reported before it is in place.
RenameLater(p) ==
    /\ pc[p] = "written"
    /\ Goto(p, "done")
    /\ UNCHANGED <<file, name, fd, mem, decided>>

\* os.Rename fails when the temporary file is gone.
Rename(p) ==
    /\ pc[p] = "written"
    /\ IF name["tmp"] = None
       THEN Goto(p, "failed") /\ UNCHANGED name
       ELSE Goto(p, "done") /\ name' = [name EXCEPT !["catalog"] = name["tmp"], !["tmp"] = None]
    /\ UNCHANGED <<file, fd, mem, decided>>

\* The process is killed; a file it was writing may be left half written.
Kill(p) ==
    /\ pc[p] \in {"gating", "saving", "opened", "written"}
    /\ IF pc[p] = "opened"
       THEN \E content \in {file[fd[p]], Torn} : file' = [file EXCEPT ![fd[p]] = content]
       ELSE UNCHANGED file
    /\ fd' = [fd EXCEPT ![p] = None]
    /\ Goto(p, "failed")
    /\ UNCHANGED <<name, mem, decided>>

\* The command is run again.
Rerun(p) ==
    /\ pc[p] \in {"done", "failed"}
    /\ Goto(p, "start")
    /\ mem' = [mem EXCEPT ![p] = EmptyCatalog]
    /\ decided' = [decided EXCEPT ![p] = {}]
    /\ UNCHANGED <<file, name, fd>>

Next == \E p \in Promoter :
    \/ Load(p) \/ GateCandidate(p) \/ Fail(p) \/ BatchDone(p)
    \/ OpenTmp(p) \/ WriteTmp(p) \/ Rename(p) \/ Kill(p) \/ Rerun(p)

Spec == Init /\ [][Next]_vars
-----------------------------------------------------------------------------
TypeOK ==
    /\ \A n \in Inode : IsCatalog(file[n]) => file[n].templates \in Seq(Template)
    /\ name \in [{"catalog", "tmp"} -> Inode \cup {None}]
    /\ fd \in [Promoter -> Inode \cup {None}]
    /\ \A p \in Promoter : /\ mem[p].templates \in Seq(Template)
                           /\ pc[p] = "opened" <=> fd[p] # None
    /\ decided \in [Promoter -> SUBSET IDs]

(***************************************************************************)
(* Whenever a run is killed, the catalog path holds a whole catalog or     *)
(* nothing: a torn write only ever reaches the temporary file.             *)
(***************************************************************************)
DiskWhole == IsCatalog(OnDisk)

(***************************************************************************)
(* A run that reports what it admitted has it in the catalog file: all it  *)
(* decided is an entry or an alias there.                                  *)
(***************************************************************************)
ReportedIsSaved ==
    \A p \in Promoter : pc[p] = "done" =>
        /\ IsCatalog(OnDisk)
        /\ \A id \in decided[p] :
              id \in EntryIDs(OnDisk.templates) \cup DOMAIN OnDisk.aliases

(***************************************************************************)
(* "Catalog versions only add entries" (the catalog design document): the  *)
(* file on disk never loses a template or an alias, over runs that fail    *)
(* or are killed and are run again, whatever they left behind.             *)
(***************************************************************************)
DiskOnlyGrows ==
    [][IsCatalog(OnDisk) =>
          /\ IsCatalog(OnDisk')
          /\ IsPrefix(OnDisk.templates, OnDisk'.templates)
          /\ DOMAIN OnDisk.aliases \subseteq DOMAIN OnDisk'.aliases]_vars
=============================================================================
