------------------------- MODULE CatalogFileProofs -------------------------
(***************************************************************************)
(* srclog promote on one catalog file: what a run may leave on disk, for   *)
(* any candidates and any number of runs, each killed wherever it may be.  *)
(*                                                                         *)
(* Typing holds whatever processes do.  The rest is proved, and true, only *)
(* of behaviours in which no two runs overlap (OneAtATime): nothing in the *)
(* code keeps two of them apart, and two lose each other's entries.        *)
(*                                                                         *)
(* The inductive invariant says where the catalog is at every step of a    *)
(* save: what the process holds extends what is on disk, the file it has   *)
(* open is the temporary one, empty and not the catalog's, and once it is  *)
(* closed it holds all of the catalog.                                     *)
(***************************************************************************)
EXTENDS CatalogFile, TemplateTheorems

-----------------------------------------------------------------------------
(* Catalogs, and what the gate makes of one.                               *)

\* cat has everything old had, entries where they were.
Extends(cat, old) ==
    /\ \A i \in DOMAIN old.templates :
          i \in DOMAIN cat.templates /\ cat.templates[i] = old.templates[i]
    /\ DOMAIN old.aliases \subseteq DOMAIN cat.aliases

Recorded(cat) == EntryIDs(cat.templates) \cup DOMAIN cat.aliases

LEMMA CatalogFacts ==
  ASSUME NEW cat \in CatalogValues
  PROVE  /\ cat.templates \in Seq(Template)
         /\ DOMAIN cat.aliases \subseteq IDs
         /\ cat.aliases \in [DOMAIN cat.aliases -> IDs]
         /\ cat = [templates |-> cat.templates, aliases |-> cat.aliases]
BY DEF CatalogValues

LEMMA MakeCatalog ==
  ASSUME NEW ts \in Seq(Template), NEW D \in SUBSET IDs, NEW as \in [D -> IDs]
  PROVE  [templates |-> ts, aliases |-> as] \in CatalogValues
BY DEF CatalogValues

LEMMA EmptyIsCatalog == EmptyCatalog \in CatalogValues
<1>1. [id \in {} |-> id] \in [{} -> IDs] /\ {} \in SUBSET IDs
  OBVIOUS
<1>2. <<>> \in Seq(Template)
  OBVIOUS
<1> QED
  BY <1>1, <1>2, MakeCatalog DEF EmptyCatalog

LEMMA ExtendsPreorder ==
  /\ \A cat : Extends(cat, cat)
  /\ \A a, b, c : Extends(a, b) /\ Extends(b, c) => Extends(a, c)
  /\ \A a, b : Extends(a, b) => Recorded(b) \subseteq Recorded(a)
BY DEF Extends, Recorded, EntryIDs

\* What extends a catalog has its templates as a prefix.
LEMMA ExtendsPrefix ==
  ASSUME NEW cat \in CatalogValues, NEW old \in CatalogValues, Extends(cat, old)
  PROVE  IsPrefix(old.templates, cat.templates)
<1> DEFINE s == old.templates
           t == cat.templates
<1>1. s \in Seq(Template) /\ t \in Seq(Template)
  BY CatalogFacts
<1>2. \A i \in DOMAIN s : i \in DOMAIN t /\ t[i] = s[i]
  BY DEF Extends
<1> HIDE DEF s, t
<1>3. Len(s) \in Nat /\ Len(t) \in Nat /\ DOMAIN s = 1..Len(s) /\ DOMAIN t = 1..Len(t)
  BY <1>1
<1>4. Len(s) <= Len(t)
  <2>1. CASE Len(s) = 0
    BY <1>3, <2>1
  <2>2. CASE Len(s) # 0
    <3>1. Len(s) \in DOMAIN s
      BY <1>3, <2>2
    <3> QED
      BY <1>2, <1>3, <3>1
  <2> QED
    BY <2>1, <2>2
<1>5. SubSeq(s, 1, Len(s)) = SubSeq(t, 1, Len(s))
  BY <1>1, <1>2, <1>3, <1>4
<1> QED
  BY <1>4, <1>5 DEF IsPrefix, s, t

LEMMA FoundFacts ==
  ASSUME NEW ts \in Seq(Template), NEW as, NEW c \in Template,
         NEW i \in Subsuming(ts, Live(ts, as), c)
  PROVE  i \in DOMAIN ts /\ TemplateID(ts[i]) \in IDs
<1>1. Live(ts, as) \in SUBSET DOMAIN ts /\ ProbeOf[c.text] \in Lines
  BY GateAssumption DEF Live, Template, ProbeOf
<1>2. i \in DOMAIN ts
  BY <1>1, BestMatches DEF Subsuming
<1>3. ts[i] \in Template
  BY <1>2
<1> QED
  BY <1>2, <1>3 DEF Template, TemplateID, IDs

\* Whatever the gate decides, nothing is lost and the candidate is recorded.
LEMMA GatedFacts ==
  ASSUME NEW cat \in CatalogValues, NEW c \in Template, NEW new \in Gated(cat, c)
  PROVE  /\ new \in CatalogValues
         /\ Extends(new, cat)
         /\ ~IsZeroLiteral(c.text) => TemplateID(c) \in Recorded(new)
<1> DEFINE ts == cat.templates
           as == cat.aliases
           id == TemplateID(c)
           existing == Subsuming(ts, Live(ts, as), c)
           entered == Append(ts, c)
<1>1. /\ ts \in Seq(Template) /\ DOMAIN as \subseteq IDs /\ as \in [DOMAIN as -> IDs]
      /\ cat = [templates |-> ts, aliases |-> as]
  BY CatalogFacts
<1>2. id \in IDs
  BY DEF Template, TemplateID, IDs
<1>3. /\ entered \in Seq(Template)
      /\ \A i \in DOMAIN ts : i \in DOMAIN entered /\ entered[i] = ts[i]
      /\ id \in EntryIDs(entered)
  <2>1. /\ entered \in Seq(Template)
        /\ \A i \in DOMAIN ts : i \in DOMAIN entered /\ entered[i] = ts[i]
        /\ Len(ts) + 1 \in DOMAIN entered /\ entered[Len(ts) + 1] = c
    BY <1>1
  <2> QED
    BY <2>1 DEF EntryIDs
<1>4. CASE new = cat /\ (IsZeroLiteral(c.text) \/ id \in EntryIDs(ts) \cup DOMAIN as)
  BY <1>4, ExtendsPreorder DEF Recorded
<1>5. CASE new = [templates |-> entered, aliases |-> as]
  BY <1>1, <1>3, <1>5, MakeCatalog DEF Extends, Recorded
<1>6. ASSUME NEW i \in existing,
             new = [templates |-> entered, aliases |-> Repoint(as, TemplateID(ts[i]), id)]
      PROVE  /\ new \in CatalogValues /\ Extends(new, cat) /\ id \in Recorded(new)
  <2>2. TemplateID(ts[i]) \in IDs
    BY <1>1, FoundFacts
  <2>3. /\ DOMAIN as \cup {TemplateID(ts[i])} \in SUBSET IDs
        /\ Repoint(as, TemplateID(ts[i]), id) \in [DOMAIN as \cup {TemplateID(ts[i])} -> IDs]
    BY <1>1, <1>2, <2>2 DEF Repoint
  <2> QED
    BY <1>3, <1>6, <2>3, MakeCatalog DEF Extends, Recorded
<1>7. ASSUME NEW i \in existing,
             new = [templates |-> ts, aliases |-> AliasTo(as, id, TemplateID(ts[i]))]
      PROVE  /\ new \in CatalogValues /\ Extends(new, cat) /\ id \in Recorded(new)
  <2>2. TemplateID(ts[i]) \in IDs
    BY <1>1, FoundFacts
  <2>3. /\ DOMAIN as \cup {id} \in SUBSET IDs
        /\ AliasTo(as, id, TemplateID(ts[i])) \in [DOMAIN as \cup {id} -> IDs]
    BY <1>1, <1>2, <2>2 DEF AliasTo
  <2> QED
    BY <1>1, <1>7, <2>3, MakeCatalog DEF Extends, Recorded
<1>8. \/ new = cat /\ (IsZeroLiteral(c.text) \/ id \in EntryIDs(ts) \cup DOMAIN as)
      \/ new = [templates |-> entered, aliases |-> as]
      \/ \E i \in existing :
            new = [templates |-> entered, aliases |-> Repoint(as, TemplateID(ts[i]), id)]
      \/ \E i \in existing :
            new = [templates |-> ts, aliases |-> AliasTo(as, id, TemplateID(ts[i]))]
  <2>1. CASE IsZeroLiteral(c.text) \/ id \in EntryIDs(ts) \cup DOMAIN as
    BY <2>1 DEF Gated
  <2>2. CASE ~(IsZeroLiteral(c.text) \/ id \in EntryIDs(ts) \cup DOMAIN as) /\ existing = {}
    BY <1>1, <2>2 DEF Gated
  <2>3. CASE ~(IsZeroLiteral(c.text) \/ id \in EntryIDs(ts) \cup DOMAIN as) /\ existing # {}
    <3>1. PICK i \in existing :
             new = IF Supersedes(c, ts[i])
                   THEN [templates |-> entered, aliases |-> Repoint(as, TemplateID(ts[i]), id)]
                   ELSE [templates |-> ts, aliases |-> AliasTo(as, id, TemplateID(ts[i]))]
      BY <2>3 DEF Gated
    <3> QED
      BY <3>1
  <2> QED
    BY <2>1, <2>2, <2>3
<1> QED
  BY <1>4, <1>5, <1>6, <1>7, <1>8 DEF Recorded

-----------------------------------------------------------------------------
(* Typing, for any number of processes.                                    *)

Labels == {"start", "gating", "saving", "opened", "written", "done", "failed"}

TypeInv ==
    /\ file \in [Inode -> CatalogValues \cup {Truncated, Torn}]
    /\ name \in [{"catalog", "tmp"} -> Inode \cup {None}]
    /\ fd \in [Promoter -> Inode \cup {None}]
    /\ mem \in [Promoter -> CatalogValues]
    /\ decided \in [Promoter -> SUBSET IDs]
    /\ pc \in [Promoter -> Labels]
    /\ \A p \in Promoter : pc[p] = "opened" <=> fd[p] # None

LEMMA InitTypeInv == Init => TypeInv
<1> SUFFICES ASSUME Init PROVE TypeInv
  OBVIOUS
<1>1. mem \in [Promoter -> CatalogValues]
  BY EmptyIsCatalog DEF Init
<1>2. decided \in [Promoter -> SUBSET IDs] /\ pc \in [Promoter -> Labels]
  BY DEF Init, Labels
<1>3. \A p \in Promoter : pc[p] = "opened" <=> fd[p] # None
  BY DEF Init
<1>4. /\ file \in [Inode -> CatalogValues \cup {Truncated, Torn}]
      /\ name \in [{"catalog", "tmp"} -> Inode \cup {None}]
      /\ fd \in [Promoter -> Inode \cup {None}]
  BY DEF Init
<1> QED
  BY <1>1, <1>2, <1>3, <1>4 DEF TypeInv

\* A file that parses holds a catalog.
LEMMA OnDiskFacts ==
  ASSUME TypeInv
  PROVE  /\ OnDisk \in CatalogValues \cup {Truncated, Torn}
         /\ IsCatalog(OnDisk) <=> OnDisk \in CatalogValues
<1>1. OnDisk \in CatalogValues \cup {Truncated, Torn}
  BY EmptyIsCatalog DEF TypeInv, OnDisk
<1> QED
  BY <1>1, CatalogFileAssumption DEF IsCatalog

\* What gating a candidate does to what the process holds.
LEMMA GateCandidateFacts ==
  ASSUME TypeInv, NEW p \in Promoter, GateCandidate(p)
  PROVE  /\ UNCHANGED <<file, name, fd, pc>> /\ pc[p] = "gating"
         /\ \E cat \in CatalogValues, ids \in SUBSET IDs :
               /\ mem' = [mem EXCEPT ![p] = cat]
               /\ decided' = [decided EXCEPT ![p] = @ \cup ids]
               /\ Extends(cat, mem[p])
               /\ ids \subseteq Recorded(cat)
<1>1. PICK c \in Candidates :
         /\ \E cat \in Gated(mem[p], c) : mem' = [mem EXCEPT ![p] = cat]
         /\ decided' = [decided EXCEPT ![p] =
                          @ \cup (IF IsZeroLiteral(c.text) THEN {} ELSE {TemplateID(c)})]
  BY DEF GateCandidate
<1>2. PICK cat \in Gated(mem[p], c) : mem' = [mem EXCEPT ![p] = cat]
  BY <1>1
<1> DEFINE ids == IF IsZeroLiteral(c.text) THEN {} ELSE {TemplateID(c)}
<1>3. c \in Template /\ mem[p] \in CatalogValues
  BY CatalogFileAssumption DEF TypeInv
<1>4. ids \in SUBSET IDs
  BY <1>3 DEF Template, TemplateID, IDs
<1>5. cat \in CatalogValues /\ Extends(cat, mem[p]) /\ ids \subseteq Recorded(cat)
  BY <1>2, <1>3, GatedFacts
<1>6. UNCHANGED <<file, name, fd, pc>> /\ pc[p] = "gating"
  BY DEF GateCandidate
<1> HIDE DEF ids
<1>7. decided' = [decided EXCEPT ![p] = @ \cup ids]
  BY <1>1 DEF ids
<1> QED
  BY <1>2, <1>4, <1>5, <1>6, <1>7

LEMMA NextTypeInv == TypeInv /\ [Next]_vars => TypeInv'
<1> SUFFICES ASSUME TypeInv, [Next]_vars PROVE TypeInv'
  OBVIOUS
<1> USE DEF Goto, Labels
<1>1. ASSUME NEW p \in Promoter, Load(p) PROVE TypeInv'
  <2>1. mem' \in [Promoter -> CatalogValues]
    BY <1>1, OnDiskFacts DEF Load, TypeInv
  <2> QED
    BY <1>1, <2>1 DEF Load, TypeInv
<1>2. ASSUME NEW p \in Promoter, GateCandidate(p) PROVE TypeInv'
  BY <1>2, GateCandidateFacts DEF TypeInv
<1>3. ASSUME NEW p \in Promoter, Fail(p) \/ BatchDone(p) PROVE TypeInv'
  BY <1>3 DEF Fail, BatchDone, TypeInv
<1>4. ASSUME NEW p \in Promoter, OpenTmp(p) PROVE TypeInv'
  BY <1>4, CatalogFileAssumption DEF OpenTmp, TypeInv
<1>5. ASSUME NEW p \in Promoter, WriteTmp(p) PROVE TypeInv'
  BY <1>5 DEF WriteTmp, TypeInv
<1>6. ASSUME NEW p \in Promoter, Rename(p) PROVE TypeInv'
  BY <1>6 DEF Rename, TypeInv
<1>7. ASSUME NEW p \in Promoter, Kill(p) PROVE TypeInv'
  BY <1>7 DEF Kill, TypeInv
<1>8. ASSUME NEW p \in Promoter, Rerun(p) PROVE TypeInv'
  BY <1>8, EmptyIsCatalog DEF Rerun, TypeInv
<1>9. CASE UNCHANGED vars
  BY <1>9 DEF vars, TypeInv
<1> QED
  BY <1>1, <1>2, <1>3, <1>4, <1>5, <1>6, <1>7, <1>8, <1>9 DEF Next

LEMMA TypeInvHolds == Spec => []TypeInv
  BY InitTypeInv, NextTypeInv, PTL DEF Spec

\* Files that parse hold catalogs, a process has a file open only while it
\* writes it, whoever else is writing.
THEOREM CatalogFileTyped == Spec => []TypeOK
<1>1. TypeInv => TypeOK
  <2> SUFFICES ASSUME TypeInv PROVE TypeOK
    OBVIOUS
  <2>1. \A n \in Inode : IsCatalog(file[n]) => file[n].templates \in Seq(Template)
    BY CatalogFacts DEF TypeInv, IsCatalog
  <2>2. \A p \in Promoter : mem[p].templates \in Seq(Template)
    BY CatalogFacts DEF TypeInv
  <2> QED
    BY <2>1, <2>2 DEF TypeInv, TypeOK
<1> QED
  BY <1>1, TypeInvHolds, PTL

-----------------------------------------------------------------------------
(* Runs that do not overlap, of any number of processes.                   *)

Running(p) == pc[p] \in {"gating", "saving", "opened", "written"}

OneAtATime == \A p, q \in Promoter : Running(p) /\ Running(q) => p = q

\* Where the catalog is while p saves it.
SavingFacts(p) ==
    /\ pc[p] = "opened" => fd[p] = name["tmp"] /\ file[fd[p]] = Truncated
    /\ pc[p] = "written" => name["tmp"] # None /\ file[name["tmp"]] = mem[p]
    /\ Running(p) => Extends(mem[p], OnDisk) /\ decided[p] \subseteq Recorded(mem[p])
    /\ pc[p] = "done" => decided[p] \subseteq Recorded(OnDisk)

SaveInv ==
    /\ name["catalog"] # None => name["catalog"] # name["tmp"]
    /\ OnDisk \in CatalogValues
    /\ \A p \in Promoter : SavingFacts(p)

IInv == TypeInv /\ SaveInv

LEMMA InitSaveInv == Init => SaveInv
  BY EmptyIsCatalog DEF Init, SaveInv, SavingFacts, OnDisk, Running

\* A step that neither renames nor writes to the catalog's inode leaves the
\* catalog file alone.
LEMMA DiskKept ==
  ASSUME name'["catalog"] = name["catalog"],
         name["catalog"] # None => file'[name["catalog"]] = file[name["catalog"]]
  PROVE  OnDisk' = OnDisk
BY DEF OnDisk

\* What the steps do to the catalog file: only a rename changes it, to a
\* catalog that extends it.
LEMMA OnlyRenameMovesDisk ==
  ASSUME IInv, OneAtATime, [Next]_vars
  PROVE  \/ OnDisk' = OnDisk
         \/ \E p \in Promoter : /\ Rename(p) /\ name["tmp"] # None
                                /\ OnDisk' = mem[p] /\ Extends(mem[p], OnDisk)
<1> USE DEF IInv
<1>1. ASSUME NEW p \in Promoter,
             \/ Load(p) \/ GateCandidate(p) \/ Fail(p) \/ BatchDone(p) \/ Rerun(p)
      PROVE  OnDisk' = OnDisk
  BY <1>1, DiskKept DEF Load, GateCandidate, Fail, BatchDone, Rerun
<1>2. ASSUME NEW p \in Promoter, OpenTmp(p) PROVE OnDisk' = OnDisk
  <2>1. PICK n \in Inode :
           /\ IF name["tmp"] = None THEN ~InUse(n) ELSE n = name["tmp"]
           /\ file' = [file EXCEPT ![n] = Truncated]
           /\ name' = [name EXCEPT !["tmp"] = n]
    BY <1>2 DEF OpenTmp
  <2>2. name["catalog"] # None => n # name["catalog"]
    BY <2>1 DEF InUse, TypeInv, SaveInv
  <2> QED
    BY <2>1, <2>2, DiskKept DEF TypeInv
<1>3. ASSUME NEW p \in Promoter, WriteTmp(p) \/ Kill(p) PROVE OnDisk' = OnDisk
  <2>1. name' = name
    BY <1>3 DEF WriteTmp, Kill
  <2>2. pc[p] = "opened" => fd[p] = name["tmp"]
    BY DEF SaveInv, SavingFacts
  <2>3. name["catalog"] # None => file'[name["catalog"]] = file[name["catalog"]]
    BY <1>3, <2>2 DEF WriteTmp, Kill, SaveInv, TypeInv
  <2> QED
    BY <2>1, <2>3, DiskKept
<1>4. ASSUME NEW p \in Promoter, Rename(p), name["tmp"] = None PROVE OnDisk' = OnDisk
  BY <1>4, DiskKept DEF Rename
<1>5. ASSUME NEW p \in Promoter, Rename(p), name["tmp"] # None
      PROVE  OnDisk' = mem[p] /\ Extends(mem[p], OnDisk)
  <2>1. pc[p] = "written" /\ file' = file /\ name'["catalog"] = name["tmp"]
    BY <1>5 DEF Rename, TypeInv
  <2>2. file[name["tmp"]] = mem[p] /\ Extends(mem[p], OnDisk)
    BY <2>1 DEF SaveInv, SavingFacts, Running
  <2> QED
    BY <1>5, <2>1, <2>2 DEF OnDisk
<1>6. CASE UNCHANGED vars
  BY <1>6, DiskKept DEF vars
<1> QED
  BY <1>1, <1>2, <1>3, <1>4, <1>5, <1>6 DEF Next

\* A process that stands still keeps its facts while no run of its own is on,
\* or while the files do not change.
LEMMA OthersKeep ==
  ASSUME NEW q \in Promoter, SavingFacts(q),
         pc'[q] = pc[q], fd'[q] = fd[q], mem'[q] = mem[q], decided'[q] = decided[q],
         \/ ~Running(q) /\ (OnDisk' = OnDisk \/ Extends(OnDisk', OnDisk))
         \/ file' = file /\ name' = name
  PROVE  SavingFacts(q)'
<1>1. CASE file' = file /\ name' = name
  BY <1>1 DEF SavingFacts, Running, OnDisk
<1>2. CASE ~Running(q) /\ (OnDisk' = OnDisk \/ Extends(OnDisk', OnDisk))
  <2>1. Recorded(OnDisk) \subseteq Recorded(OnDisk')
    BY <1>2, ExtendsPreorder
  <2> QED
    BY <1>2, <2>1 DEF SavingFacts, Running
<1> QED
  BY <1>1, <1>2

LEMMA NextSaveInv ==
  ASSUME IInv, OneAtATime, [Next]_vars
  PROVE  SaveInv'
<1> USE DEF IInv
<1>1. /\ OnDisk' = OnDisk \/ Extends(OnDisk', OnDisk)
      /\ OnDisk' \in CatalogValues
  BY OnlyRenameMovesDisk DEF SaveInv, TypeInv
\* Everyone but p, when p is running and moves.
<1>2. ASSUME NEW p \in Promoter, Running(p), NEW q \in Promoter, q # p,
             pc'[q] = pc[q], fd'[q] = fd[q], mem'[q] = mem[q], decided'[q] = decided[q]
      PROVE  SavingFacts(q)'
  BY <1>1, <1>2, OthersKeep DEF OneAtATime, SaveInv
<1>3. ASSUME NEW p \in Promoter, Load(p) PROVE SaveInv'
  <2>1. file' = file /\ name' = name /\ OnDisk' = OnDisk
    BY <1>3 DEF Load, OnDisk
  <2>2. SavingFacts(p)'
    <3>1. /\ pc'[p] \in {"gating", "failed"} /\ decided'[p] = {}
          /\ pc'[p] = "gating" => mem'[p] = OnDisk
      BY <1>3 DEF Load, Goto, TypeInv
    <3> QED
      BY <2>1, <3>1, ExtendsPreorder DEF SavingFacts, Running
  <2>3. ASSUME NEW q \in Promoter, q # p PROVE SavingFacts(q)'
    <3>1. pc'[q] = pc[q] /\ fd'[q] = fd[q] /\ mem'[q] = mem[q] /\ decided'[q] = decided[q]
      BY <1>3, <2>3 DEF Load, Goto, TypeInv
    <3> QED
      BY <2>1, <3>1, OthersKeep DEF SaveInv
  <2> QED
    BY <1>1, <2>1, <2>2, <2>3 DEF SaveInv
<1>4. ASSUME NEW p \in Promoter, GateCandidate(p) PROVE SaveInv'
  <2>1. /\ UNCHANGED <<file, name, fd, pc>> /\ pc[p] = "gating" /\ OnDisk' = OnDisk
        /\ \E cat \in CatalogValues, ids \in SUBSET IDs :
              /\ mem' = [mem EXCEPT ![p] = cat]
              /\ decided' = [decided EXCEPT ![p] = @ \cup ids]
              /\ Extends(cat, mem[p])
              /\ ids \subseteq Recorded(cat)
    BY <1>4, GateCandidateFacts DEF OnDisk
  <2>2. SavingFacts(p)'
    <3>1. Extends(mem[p], OnDisk) /\ decided[p] \subseteq Recorded(mem[p])
      BY <2>1 DEF SaveInv, SavingFacts, Running
    <3>2. Extends(mem'[p], OnDisk) /\ decided'[p] \subseteq Recorded(mem'[p])
      BY <2>1, <3>1, ExtendsPreorder DEF TypeInv
    <3> QED
      BY <2>1, <3>2 DEF SavingFacts, Running
  <2>3. ASSUME NEW q \in Promoter, q # p PROVE SavingFacts(q)'
    BY <1>2, <2>1, <2>3 DEF TypeInv, Running
  <2> QED
    BY <1>1, <2>1, <2>2, <2>3 DEF SaveInv
<1>5. ASSUME NEW p \in Promoter, Fail(p) \/ BatchDone(p) PROVE SaveInv'
  <2>1. UNCHANGED <<file, name, fd, mem, decided>> /\ OnDisk' = OnDisk /\ Running(p)
    BY <1>5 DEF Fail, BatchDone, OnDisk, Running
  <2>2. SavingFacts(p)'
    BY <1>5, <2>1 DEF Fail, BatchDone, Goto, TypeInv, SaveInv, SavingFacts, Running
  <2>3. ASSUME NEW q \in Promoter, q # p PROVE SavingFacts(q)'
    BY <1>2, <1>5, <2>1, <2>3 DEF Fail, BatchDone, Goto, TypeInv
  <2> QED
    BY <1>1, <2>1, <2>2, <2>3 DEF SaveInv
<1>6. ASSUME NEW p \in Promoter, OpenTmp(p) PROVE SaveInv'
  <2>1. PICK n \in Inode :
           /\ IF name["tmp"] = None THEN ~InUse(n) ELSE n = name["tmp"]
           /\ file' = [file EXCEPT ![n] = Truncated]
           /\ name' = [name EXCEPT !["tmp"] = n]
           /\ fd' = [fd EXCEPT ![p] = n]
    BY <1>6 DEF OpenTmp
  <2>2. name["catalog"] # None => n # name["catalog"]
    BY <2>1 DEF InUse, TypeInv, SaveInv
  <2>3. name'["catalog"] = name["catalog"] /\ name'["tmp"] = n
    BY <2>1 DEF TypeInv
  <2>4. OnDisk' = OnDisk
    BY <2>1, <2>2, <2>3, DiskKept DEF TypeInv
  <2>5. UNCHANGED <<mem, decided>> /\ pc[p] = "saving" /\ pc' = [pc EXCEPT ![p] = "opened"]
    BY <1>6 DEF OpenTmp, Goto
  <2>6. SavingFacts(p)'
    BY <2>1, <2>3, <2>4, <2>5 DEF TypeInv, SaveInv, SavingFacts, Running
  <2>7. ASSUME NEW q \in Promoter, q # p PROVE SavingFacts(q)'
    BY <1>2, <2>1, <2>5, <2>7 DEF TypeInv, Running
  <2> QED
    BY <1>1, <2>2, <2>3, <2>6, <2>7 DEF SaveInv
<1>7. ASSUME NEW p \in Promoter, WriteTmp(p) PROVE SaveInv'
  <2>1. /\ UNCHANGED <<name, mem, decided>> /\ pc[p] = "opened"
        /\ pc' = [pc EXCEPT ![p] = "written"]
        /\ fd' = [fd EXCEPT ![p] = None]
    BY <1>7 DEF WriteTmp, Goto
  <2>2. /\ fd[p] = name["tmp"] /\ file[fd[p]] = Truncated /\ fd[p] \in Inode
        /\ Extends(mem[p], OnDisk) /\ decided[p] \subseteq Recorded(mem[p])
    BY <2>1 DEF SaveInv, SavingFacts, Running, TypeInv
  <2>3. file' = [file EXCEPT ![fd[p]] = mem[p]]
    BY <1>7, <2>2 DEF WriteTmp
  <2>4. OnDisk' = OnDisk
    BY <2>1, <2>2, <2>3, DiskKept DEF TypeInv, SaveInv
  <2>5. SavingFacts(p)'
    BY <2>1, <2>2, <2>3, <2>4, CatalogFileAssumption DEF TypeInv, SavingFacts, Running
  <2>6. ASSUME NEW q \in Promoter, q # p PROVE SavingFacts(q)'
    BY <1>2, <2>1, <2>6 DEF TypeInv, Running
  <2> QED
    BY <1>1, <2>1, <2>5, <2>6 DEF SaveInv
<1>8. ASSUME NEW p \in Promoter, Rename(p) PROVE SaveInv'
  <2>1. UNCHANGED <<file, fd, mem, decided>> /\ pc[p] = "written" /\ Running(p)
    BY <1>8 DEF Rename, Running
  <2>2. name["tmp"] # None /\ file[name["tmp"]] = mem[p] /\ decided[p] \subseteq Recorded(mem[p])
    BY <2>1 DEF SaveInv, SavingFacts
  <2>3. /\ pc' = [pc EXCEPT ![p] = "done"]
        /\ name' = [name EXCEPT !["catalog"] = name["tmp"], !["tmp"] = None]
    BY <1>8, <2>2 DEF Rename, Goto
  <2>4. name'["tmp"] = None /\ name'["catalog"] = name["tmp"] /\ OnDisk' = mem[p]
    BY <2>1, <2>2, <2>3 DEF TypeInv, OnDisk
  <2>5. SavingFacts(p)'
    BY <2>1, <2>2, <2>3, <2>4 DEF TypeInv, SavingFacts, Running
  <2>6. ASSUME NEW q \in Promoter, q # p PROVE SavingFacts(q)'
    BY <1>2, <2>1, <2>3, <2>6 DEF TypeInv
  <2> QED
    BY <1>1, <2>2, <2>4, <2>5, <2>6 DEF SaveInv
<1>9. ASSUME NEW p \in Promoter, Kill(p) PROVE SaveInv'
  <2>1. /\ UNCHANGED <<name, mem, decided>> /\ Running(p)
        /\ pc' = [pc EXCEPT ![p] = "failed"]
        /\ fd' = [fd EXCEPT ![p] = None]
    BY <1>9 DEF Kill, Goto, Running
  <2>2. SavingFacts(p)'
    BY <2>1 DEF TypeInv, SavingFacts, Running
  <2>3. ASSUME NEW q \in Promoter, q # p PROVE SavingFacts(q)'
    BY <1>2, <2>1, <2>3 DEF TypeInv
  <2> QED
    BY <1>1, <2>1, <2>2, <2>3 DEF SaveInv
<1>10. ASSUME NEW p \in Promoter, Rerun(p) PROVE SaveInv'
  <2>1. UNCHANGED <<file, name, fd>> /\ OnDisk' = OnDisk
    BY <1>10 DEF Rerun, OnDisk
  <2>2. SavingFacts(p)'
    BY <1>10 DEF Rerun, Goto, TypeInv, SavingFacts, Running
  <2>3. ASSUME NEW q \in Promoter, q # p PROVE SavingFacts(q)'
    <3>1. pc'[q] = pc[q] /\ fd'[q] = fd[q] /\ mem'[q] = mem[q] /\ decided'[q] = decided[q]
      BY <1>10, <2>3 DEF Rerun, Goto, TypeInv
    <3> QED
      BY <2>1, <3>1, OthersKeep DEF SaveInv
  <2> QED
    BY <1>1, <2>1, <2>2, <2>3 DEF SaveInv
<1>11. CASE UNCHANGED vars
  <2>1. UNCHANGED <<file, name, fd, mem, decided, pc>>
    BY <1>11 DEF vars
  <2>2. ASSUME NEW q \in Promoter PROVE SavingFacts(q)'
    BY <2>1, OthersKeep DEF SaveInv
  <2> QED
    BY <1>1, <2>1, <2>2 DEF SaveInv
<1> QED
  BY <1>3, <1>4, <1>5, <1>6, <1>7, <1>8, <1>9, <1>10, <1>11 DEF Next

LEMMA IInvHolds == Spec /\ []OneAtATime => []IInv
<1>1. Init => IInv
  BY InitTypeInv, InitSaveInv DEF IInv
<1>2. IInv /\ OneAtATime /\ [Next]_vars => IInv'
  BY NextTypeInv, NextSaveInv DEF IInv
<1> QED
  BY <1>1, <1>2, PTL DEF Spec

\* However a run ends, and whatever the runs before it left behind, the
\* catalog path never holds part of a catalog.
THEOREM CatalogNeverTorn == Spec /\ []OneAtATime => []DiskWhole
<1>1. IInv => DiskWhole
  BY OnDiskFacts DEF IInv, SaveInv, DiskWhole
<1> QED
  BY <1>1, IInvHolds, PTL

\* A run that reports its result has saved it, and later runs keep it.
THEOREM ReportsAreSaved == Spec /\ []OneAtATime => []ReportedIsSaved
<1>1. IInv => ReportedIsSaved
  <2> SUFFICES ASSUME IInv, NEW p \in Promoter, pc[p] = "done"
               PROVE  /\ IsCatalog(OnDisk)
                      /\ decided[p] \subseteq Recorded(OnDisk)
    BY DEF ReportedIsSaved, Recorded
  <2> QED
    BY OnDiskFacts DEF IInv, SaveInv, SavingFacts
<1> QED
  BY <1>1, IInvHolds, PTL

\* The file on disk keeps every entry where it was and every alias, over any
\* number of runs that succeed, fail or are killed.
THEOREM CatalogOnlyGrows == Spec /\ []OneAtATime => DiskOnlyGrows
<1>1. IInv /\ OneAtATime /\ [Next]_vars =>
        [IsCatalog(OnDisk) =>
           /\ IsCatalog(OnDisk')
           /\ IsPrefix(OnDisk.templates, OnDisk'.templates)
           /\ DOMAIN OnDisk.aliases \subseteq DOMAIN OnDisk'.aliases]_vars
  <2> SUFFICES ASSUME IInv, OneAtATime, [Next]_vars
               PROVE  /\ IsCatalog(OnDisk')
                      /\ IsPrefix(OnDisk.templates, OnDisk'.templates)
                      /\ DOMAIN OnDisk.aliases \subseteq DOMAIN OnDisk'.aliases
    OBVIOUS
  <2>1. OnDisk \in CatalogValues
    BY DEF IInv, SaveInv
  <2>2. OnDisk' \in CatalogValues /\ Extends(OnDisk', OnDisk)
    BY <2>1, OnlyRenameMovesDisk, ExtendsPreorder DEF IInv, TypeInv
  <2>3. IsCatalog(OnDisk')
    BY <2>2, CatalogFileAssumption DEF IsCatalog
  <2>4. IsPrefix(OnDisk.templates, OnDisk'.templates)
    BY <2>1, <2>2, ExtendsPrefix
  <2>5. DOMAIN OnDisk.aliases \subseteq DOMAIN OnDisk'.aliases
    BY <2>2 DEF Extends
  <2> QED
    BY <2>3, <2>4, <2>5
<1> QED
  BY <1>1, IInvHolds, PTL DEF Spec, DiskOnlyGrows
=============================================================================
