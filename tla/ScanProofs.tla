----------------------------- MODULE ScanProofs -----------------------------
(***************************************************************************)
(* Proofs about Scan.  The statistics: IInv says that the calls passed are *)
(* those counted (Counted), and that each of them is dynamic or filed once *)
(* under its own key (Filed, Complete, Summed).  The Rust macros: where    *)
(* blankRust's jumps stop, the lexer is reading code (Agreed), and what    *)
(* they jump over it reads as comments and strings (Hidden).  Go lines:    *)
(* verbRe and fmt stop at the same places of a format (SameStops), an      *)
(* expression is folded as it is evaluated (FoldedMatches), and what is    *)
(* appended stands for the operands, piece by piece.                       *)
(***************************************************************************)
EXTENDS Scan, TemplateTheorems

\* The calls the walk has gone past, by location.
Passed ==
    UNION {{f} \X {p \in Places(tree[f]) : /\ IsCall(tree[f], p)
                                           /\ f < file \/ (f = file /\ p < site)} :
           f \in {g \in DOMAIN tree : Scanned(tree[g])}}

Key(l) == <<CallLevel(tree[l[1]], l[2]), CallTemplate(tree[l[1]], l[2])[1]>>

Recordable(l) == CallTemplate(tree[l[1]], l[2]) # <<>>

Stats == [files : Nat, parseErrors : Nat, calls : Nat, dynamic : Nat]

TypeOK ==
    /\ tree \in Trees /\ errors \in BOOLEAN
    /\ file \in Nat \ {0} /\ site \in Nat
    /\ site > 0 => file \in DOMAIN tree /\ Scanned(tree[file])
    /\ byKey \in [DOMAIN byKey -> Seq(Nat \X Nat)]
    /\ stats \in Stats

\* Every call passed was counted.
Counted ==
    /\ IsFiniteSet(Passed)
    /\ stats.calls = Cardinality(Passed)

\* What is in the table is there once, under its own key, ...
Filed ==
    \A k \in DOMAIN byKey :
        /\ ~IsZeroLiteral(k[2])
        /\ \A i \in DOMAIN byKey[k] :
              /\ byKey[k][i] \in Passed /\ Recordable(byKey[k][i])
              /\ k = Key(byKey[k][i])
              /\ \A j \in DOMAIN byKey[k] : byKey[k][i] = byKey[k][j] => i = j

\* ... and every call passed that has a template is.
Complete ==
    \A l \in Passed : Recordable(l) =>
        Key(l) \in DOMAIN byKey /\ l \in ToSet(byKey[Key(l)])

Slots == UNION {{k} \X DOMAIN byKey[k] : k \in DOMAIN byKey}

Summed ==
    /\ IsFiniteSet(Slots)
    /\ stats.calls = stats.dynamic + Cardinality(Slots)

IInv == TypeOK /\ Counted /\ Filed /\ Complete /\ Summed

-----------------------------------------------------------------------------
LEMMA TemplateFacts ==
  ASSUME NEW f, NEW p, CallTemplate(f, p) # <<>>
  PROVE  ~IsZeroLiteral(CallTemplate(f, p)[1])
<1>1. CASE f.kind = "rust"
  BY <1>1 DEF CallTemplate, RustTemplate
<1>2. CASE f.kind # "rust" /\ errors
  BY <1>2 DEF CallTemplate, ErrTemplate
<1>3. CASE f.kind # "rust" /\ ~errors
  BY <1>3 DEF CallTemplate, LogTemplate
<1> QED
  BY <1>1, <1>2, <1>3

LEMMA FlattenType ==
  ASSUME NEW A, NEW s \in Seq(Seq(A))
  PROVE  FlattenSeq(s) \in Seq(A)
<1>1. CASE s = <<>>
  BY <1>1 DEF FlattenSeq
<1>2. CASE s # <<>>
  <2>1. PICK f \in [1..Len(s) -> Seq(A)] : FlattenSeq(s) = f[Len(s)]
    BY <1>2, FlattenFacts
  <2>2. Len(s) \in 1..Len(s)
    BY <1>2, EmptySeq
  <2> QED
    BY <2>1, <2>2
<1> QED
  BY <1>1, <1>2

LEMMA SrcType ==
  ASSUME NEW f \in File, f.kind = "rust"
  PROVE  Src(f) \in Seq(Char)
<1>1. f.items \in Seq(Item)
  BY DEF File
<1>2. \A i \in 1..Len(f.items) : f.items[i].src \in Seq(Char)
  <2>1. \A i \in 1..Len(f.items) : f.items[i] \in Item
    BY <1>1
  <2>2. \A x \in Item : x.src \in Seq(Char)
    BY DEF Item
  <2> QED
    BY <2>1, <2>2
<1> DEFINE srcs == [i \in DOMAIN f.items |-> f.items[i].src]
<1>3. srcs \in Seq(Seq(Char))
  <2>1. DOMAIN f.items = 1..Len(f.items) /\ Len(f.items) \in Nat
    BY <1>1
  <2> QED
    BY <1>2, <2>1
<1> HIDE DEF srcs
<1>4. FlattenSeq(srcs) \in Seq(Char)
  BY <1>3, FlattenType
<1> QED
  BY <1>4 DEF Src, srcs

LEMMA PlacesType ==
  ASSUME NEW f \in File, Scanned(f)
  PROVE  Places(f) \subseteq Nat \ {0}
<1>1. CASE f.kind = "go"
  <2>1. f.calls \in Seq(Call)
    BY <1>1 DEF File
  <2> QED
    BY <1>1, <2>1 DEF Places
<1>2. CASE f.kind = "rust"
  <2>1. Src(f) \in Seq(Char)
    BY <1>2, SrcType
  <2>2. DOMAIN Src(f) \subseteq Nat \ {0}
    BY <2>1
  <2> QED
    BY <1>2, <2>2 DEF Places, Sites
<1> QED
  BY <1>1, <1>2 DEF Scanned

LEMMA TreeFacts ==
  ASSUME TypeOK
  PROVE  /\ tree \in Seq(File)
         /\ DOMAIN tree = 1..Len(tree) /\ Len(tree) \in Nat
         /\ \A f \in DOMAIN tree : tree[f] \in File
         /\ \A f \in DOMAIN tree : Scanned(tree[f]) => Places(tree[f]) \subseteq Nat \ {0}
<1>1. tree \in Seq(File)
  BY TreesAssumption DEF TypeOK
<1>2. \A f \in DOMAIN tree : tree[f] \in File
  BY <1>1
<1> QED
  BY <1>1, <1>2, PlacesType

LEMMA PassedIs ==
  ASSUME NEW f, NEW p
  PROVE  <<f, p>> \in Passed <=> /\ f \in DOMAIN tree /\ Scanned(tree[f])
                                 /\ p \in Places(tree[f]) /\ IsCall(tree[f], p)
                                 /\ f < file \/ (f = file /\ p < site)
BY DEF Passed

LEMMA PassedPairs ==
  ASSUME NEW l \in Passed
  PROVE  l = <<l[1], l[2]>>
BY DEF Passed

-----------------------------------------------------------------------------
(* The steps. *)

\* No step changes what the calls of the tree are.
LEMMA SameCalls ==
  ASSUME UNCHANGED <<tree, errors>>
  PROVE  /\ \A l : Key(l)' = Key(l) /\ Recordable(l)' = Recordable(l)
         /\ \A f : Scanned(f)' = Scanned(f)
         /\ \A f, p : IsCall(f, p)' = IsCall(f, p)
BY DEF Key, Recordable, CallLevel, CallTemplate, Scanned, IsCall

LEMMA PassedIsNext ==
  ASSUME UNCHANGED <<tree, errors>>, NEW f, NEW p
  PROVE  <<f, p>> \in Passed' <=> /\ f \in DOMAIN tree /\ Scanned(tree[f])
                                  /\ p \in Places(tree[f]) /\ IsCall(tree[f], p)
                                  /\ f < file' \/ (f = file' /\ p < site')
BY DEF Passed, Places, Scanned, IsCall

LEMMA PassedPairsNext == \A l \in Passed' : l = <<l[1], l[2]>>
BY DEF Passed

\* A step that goes past no call leaves the rest as it is.
LEMMA StillKeeps ==
  ASSUME IInv, TypeOK', UNCHANGED <<tree, errors, byKey, stats.calls, stats.dynamic>>,
         \A f \in DOMAIN tree : Scanned(tree[f]) =>
            \A p \in Places(tree[f]) : IsCall(tree[f], p) =>
               ((f < file' \/ (f = file' /\ p < site'))
                <=> (f < file \/ (f = file /\ p < site)))
  PROVE  IInv'
<1>1. Passed' = Passed
  <2>1. \A f, p : <<f, p>> \in Passed' <=> <<f, p>> \in Passed
    BY PassedIs, PassedIsNext
  <2> QED
    BY <2>1, PassedPairs, PassedPairsNext
<1>2. Counted'
  BY <1>1 DEF IInv, Counted
<1>3. Filed'
  BY <1>1, SameCalls DEF IInv, Filed
<1>4. Complete'
  BY <1>1, SameCalls DEF IInv, Complete
<1>5. Summed'
  BY DEF IInv, Summed, Slots
<1> QED
  BY <1>2, <1>3, <1>4, <1>5 DEF IInv

LEMMA VisitFacts ==
  ASSUME TypeOK, Visit
  PROVE  /\ file \in DOMAIN tree /\ Scanned(Current) /\ site \in Nat
         /\ Here \in Places(Current) /\ Here \in Nat \ {0} /\ Here >= site
         /\ site' = Here + 1 /\ file' = file /\ UNCHANGED <<tree, errors>>
         /\ \A p \in Places(Current) : p < site' <=> p < site \/ p = Here
<1>1. file \in DOMAIN tree /\ Scanned(Current) /\ site \in Nat
  BY DEF Visit, TypeOK, Current
<1>2. Places(Current) \subseteq Nat \ {0}
  BY <1>1, TreeFacts DEF Current
<1>3. Ahead \subseteq Nat /\ Ahead # {}
  BY <1>2 DEF Ahead, Visit
<1>4. Here \in Ahead /\ \A p \in Ahead : Here <= p
  BY <1>3, MinFacts DEF Here
<1>5. site' = Here + 1 /\ file' = file /\ UNCHANGED <<tree, errors>>
  BY DEF Visit, Walking
<1>6. Here \in Places(Current) /\ Here >= site /\ Here \in Nat \ {0}
  BY <1>2, <1>4 DEF Ahead
<1>7. ASSUME NEW p \in Places(Current) PROVE p < site' <=> p < site \/ p = Here
  <2>1. p \in Nat
    BY <1>2
  <2>2. p >= site => Here <= p
    BY <1>4 DEF Ahead
  <2> QED
    BY <1>1, <1>5, <1>6, <2>1, <2>2
<1> QED
  BY <1>1, <1>5, <1>6, <1>7

\* A call visited is one more call passed.
LEMMA VisitPasses ==
  ASSUME TypeOK, Visit, IsCall(Current, Here)
  PROVE  Passed' = Passed \cup {<<file, Here>>} /\ <<file, Here>> \notin Passed
<1>1. <<file, Here>> \notin Passed
  BY VisitFacts, PassedIs DEF TypeOK
<1>2. \A f, p : <<f, p>> \in Passed' <=> <<f, p>> \in Passed \/ (f = file /\ p = Here)
  <2> SUFFICES ASSUME NEW f, NEW p
               PROVE  <<f, p>> \in Passed' <=> <<f, p>> \in Passed \/ (f = file /\ p = Here)
    OBVIOUS
  <2>1. CASE f = file
    <3>1. ~(f < file) /\ ~(f < file') /\ f = file'
      BY <2>1, VisitFacts DEF TypeOK
    <3> QED
      BY <2>1, <3>1, VisitFacts, PassedIs, PassedIsNext DEF Current
  <2>2. CASE f # file
    BY <2>2, VisitFacts, PassedIs, PassedIsNext
  <2> QED
    BY <2>1, <2>2
<1> QED
  BY <1>1, <1>2, PassedPairs, PassedPairsNext

LEMMA CountsType ==
  ASSUME NEW st \in Stats
  PROVE  [st EXCEPT !.calls = @ + 1, !.dynamic = @ + 1] \in Stats
<1>1. ASSUME NEW c \in Nat, NEW d \in Nat
      PROVE  [st EXCEPT !.calls = c, !.dynamic = d] \in Stats
  BY DEF Stats
<1>2. st.calls + 1 \in Nat /\ st.dynamic + 1 \in Nat
  BY DEF Stats
<1> QED
  BY <1>1, <1>2

LEMMA NextType == ASSUME TypeOK, Next PROVE TypeOK'
<1> USE DEF TypeOK, Stats
<1>1. CASE SkipFile
  BY <1>1 DEF SkipFile, Walking
<1>2. CASE Unreadable
  BY <1>2 DEF Unreadable, Walking
<1>3. CASE Open
  <2>1. file \in DOMAIN tree
    BY <1>3, TreeFacts DEF Open, Walking
  <2>2. Scanned(tree[file])'
    BY <1>3, SameCalls DEF Open, Walking, Current, Scanned
  <2> QED
    BY <1>3, <2>1, <2>2 DEF Open, Walking
<1>4. ASSUME Visit PROVE /\ tree' = tree /\ errors' = errors /\ file' = file /\ site' \in Nat
                         /\ file \in DOMAIN tree /\ Scanned(tree[file])'
  <2> HIDE DEF TypeOK
  <2> QED
    BY <1>4, VisitFacts DEF Current, Scanned
<1>5. CASE PassBy
  BY <1>4, <1>5 DEF PassBy
<1>6. CASE CountDynamic
  <2>1. stats' \in Stats
    BY <1>6, CountsType DEF CountDynamic
  <2> QED
    BY <1>4, <1>6, <2>1 DEF CountDynamic
<1>7. CASE RecordCall
  <2>1. <<file, Here>> \in Nat \X Nat
    <3> HIDE DEF TypeOK
    <3>1. file \in Nat
      BY DEF TypeOK
    <3> QED
      BY <1>7, <3>1, VisitFacts DEF RecordCall
  <2> DEFINE l == <<file, Here>>
             key == <<CallLevel(Current, Here), CallTemplate(Current, Here)[1]>>
  <2>2. Record(key, l)
    BY <1>7 DEF RecordCall
  <2> HIDE DEF l, key
  <2>3. l \in Nat \X Nat
    BY <2>1 DEF l
  <2>4. byKey' \in [DOMAIN byKey' -> Seq(Nat \X Nat)]
    <3>1. <<l>> \in Seq(Nat \X Nat)
      BY <2>3
    <3>2. \A k \in DOMAIN byKey : byKey[k] \in Seq(Nat \X Nat) /\ Append(byKey[k], l) \in Seq(Nat \X Nat)
      BY <2>3
    <3> QED
      BY <2>2, <3>1, <3>2 DEF Record
  <2>5. stats' \in Stats
    BY <1>7 DEF RecordCall
  <2>6. Visit
    BY <1>7 DEF RecordCall
  <2> QED
    BY <1>4, <2>4, <2>5, <2>6
<1>8. CASE Close
  BY <1>8 DEF Close, Walking
<1> QED
  BY <1>1, <1>2, <1>3, <1>5, <1>6, <1>7, <1>8 DEF Next

LEMMA CountDynamicIInv == ASSUME IInv, CountDynamic PROVE IInv'
<1>0. TypeOK /\ TypeOK' /\ Visit
  BY NextType DEF IInv, Next, CountDynamic
<1>1. Passed' = Passed \cup {<<file, Here>>} /\ <<file, Here>> \notin Passed
  BY <1>0, VisitPasses DEF CountDynamic
<1>2. /\ UNCHANGED <<tree, errors, byKey>>
      /\ stats.calls \in Nat /\ stats'.calls = stats.calls + 1
      /\ stats.dynamic \in Nat /\ stats'.dynamic = stats.dynamic + 1
  BY <1>0, VisitFacts DEF CountDynamic, TypeOK, Stats
<1>3. Counted'
  <2>1. /\ IsFiniteSet(Passed') /\ Cardinality(Passed) \in Nat
        /\ Cardinality(Passed') = Cardinality(Passed) + 1
    BY <1>1, FS_AddElement, FS_CardinalityType DEF IInv, Counted
  <2> QED
    BY <1>2, <2>1 DEF IInv, Counted
<1>4. Filed'
  BY <1>1, <1>2, SameCalls DEF IInv, Filed
<1>5. Complete'
  <2>1. ~Recordable(<<file, Here>>)
    BY DEF CountDynamic, Recordable, Current
  <2> QED
    BY <1>1, <1>2, <2>1, SameCalls DEF IInv, Complete
<1>6. Summed'
  <2>1. Cardinality(Slots) \in Nat
    BY FS_CardinalityType DEF IInv, Summed
  <2> QED
    BY <1>2, <2>1 DEF IInv, Summed, Slots
<1> QED
  BY <1>0, <1>3, <1>4, <1>5, <1>6 DEF IInv

\* recordAt puts the location last in the key's list, and nothing else.
LEMMA RecordFacts ==
  ASSUME TypeOK, NEW key, NEW l \in Nat \X Nat, Record(key, l)
  PROVE  LET old == IF key \in DOMAIN byKey THEN byKey[key] ELSE <<>>
             n   == Len(old)
         IN  /\ n \in Nat
             /\ DOMAIN byKey' = DOMAIN byKey \cup {key}
             /\ \A k \in DOMAIN byKey : k # key => byKey'[k] = byKey[k]
             /\ DOMAIN old = 1..n
             /\ key \notin DOMAIN byKey => n = 0
             /\ key \in DOMAIN byKey => old = byKey[key]
             /\ byKey'[key] \in Seq(Nat \X Nat)
             /\ DOMAIN byKey'[key] = 1..(n + 1)
             /\ \A i \in 1..n : byKey'[key][i] = old[i]
             /\ byKey'[key][n+1] = l
<1> DEFINE old == IF key \in DOMAIN byKey THEN byKey[key] ELSE <<>>
           n   == Len(old)
<1>1. old \in Seq(Nat \X Nat)
  BY DEF TypeOK
<1>2. /\ DOMAIN byKey' = DOMAIN byKey \cup {key}
      /\ \A k \in DOMAIN byKey : k # key => byKey'[k] = byKey[k]
      /\ byKey'[key] = IF key \in DOMAIN byKey THEN Append(byKey[key], l) ELSE <<l>>
  BY DEF Record
<1>3. byKey'[key] = Append(old, l)
  <2>1. <<l>> = Append(<<>>, l)
    OBVIOUS
  <2> QED
    BY <1>2, <2>1
<1>4. /\ key \notin DOMAIN byKey => n = 0
      /\ key \in DOMAIN byKey => old = byKey[key]
  OBVIOUS
<1> HIDE DEF old
<1>5. /\ n \in Nat /\ DOMAIN old = 1..n
      /\ Append(old, l) \in Seq(Nat \X Nat)
      /\ DOMAIN Append(old, l) = 1..(n + 1)
      /\ \A i \in 1..n : Append(old, l)[i] = old[i]
      /\ Append(old, l)[n+1] = l
  BY <1>1
<1> QED
  BY <1>2, <1>3, <1>4, <1>5 DEF old

LEMMA RecordSlots ==
  ASSUME TypeOK, NEW key, NEW l \in Nat \X Nat, Record(key, l)
  PROVE  \E slot : slot \notin Slots /\ Slots' = Slots \cup {slot}
<1> DEFINE old == IF key \in DOMAIN byKey THEN byKey[key] ELSE <<>>
           n   == Len(old)
<1>1. /\ n \in Nat
      /\ DOMAIN byKey' = DOMAIN byKey \cup {key}
      /\ \A k \in DOMAIN byKey : k # key => byKey'[k] = byKey[k]
      /\ DOMAIN old = 1..n
      /\ key \notin DOMAIN byKey => n = 0
      /\ key \in DOMAIN byKey => old = byKey[key]
      /\ DOMAIN byKey'[key] = 1..(n + 1)
  BY RecordFacts
<1> HIDE DEF old
<1>2. \A k, i : <<k, i>> \in Slots <=> k \in DOMAIN byKey /\ i \in DOMAIN byKey[k]
  BY DEF Slots
<1>3. \A k, i : <<k, i>> \in Slots' <=> k \in DOMAIN byKey' /\ i \in DOMAIN byKey'[k]
  BY DEF Slots
<1>4. \A t \in Slots : t = <<t[1], t[2]>>
  BY DEF Slots
<1>5. \A t \in Slots' : t = <<t[1], t[2]>>
  BY DEF Slots
<1>6. <<key, n + 1>> \notin Slots
  BY <1>1, <1>2
<1>7. \A k, i : <<k, i>> \in Slots' <=> <<k, i>> \in Slots \/ (k = key /\ i = n + 1)
  <2> SUFFICES ASSUME NEW k, NEW i
               PROVE  <<k, i>> \in Slots' <=> <<k, i>> \in Slots \/ (k = key /\ i = n + 1)
    OBVIOUS
  <2>1. CASE k # key
    BY <1>1, <1>2, <1>3, <2>1
  <2>2. CASE k = key
    <3>1. <<k, i>> \in Slots' <=> i \in 1..(n + 1)
      BY <1>1, <1>3, <2>2
    <3>2. <<k, i>> \in Slots <=> i \in 1..n
      <4>1. CASE key \in DOMAIN byKey
        BY <1>1, <1>2, <2>2, <4>1
      <4>2. CASE key \notin DOMAIN byKey
        <5>1. 1..n = {}
          BY <1>1, <4>2
        <5> QED
          BY <1>2, <2>2, <4>2, <5>1
      <4> QED
        BY <4>1, <4>2
    <3>3. i \in 1..(n + 1) <=> i \in 1..n \/ i = n + 1
      BY <1>1
    <3> QED
      BY <2>2, <3>1, <3>2, <3>3
  <2> QED
    BY <2>1, <2>2
<1>8. Slots' = Slots \cup {<<key, n + 1>>}
  BY <1>4, <1>5, <1>7
<1> QED
  BY <1>6, <1>8

LEMMA RecordCallIInv == ASSUME IInv, RecordCall PROVE IInv'
<1>0. TypeOK /\ TypeOK' /\ Visit
  BY NextType DEF IInv, Next, RecordCall
<1> DEFINE l   == <<file, Here>>
           key == Key(l)
<1>1. Passed' = Passed \cup {l} /\ l \notin Passed
  BY <1>0, VisitPasses DEF RecordCall
<1>2. /\ UNCHANGED <<tree, errors>>
      /\ stats.calls \in Nat /\ stats'.calls = stats.calls + 1
      /\ stats.dynamic \in Nat /\ stats'.dynamic = stats.dynamic
  BY <1>0, VisitFacts DEF RecordCall, TypeOK, Stats
<1>3. l \in Nat \X Nat
  BY <1>0, VisitFacts DEF TypeOK
<1>4. Recordable(l) /\ Record(key, l)
  BY DEF RecordCall, Recordable, Key, Current
<1>5. ~IsZeroLiteral(key[2])
  BY <1>4, TemplateFacts DEF Recordable, Key
<1>6. \A m : Key(m)' = Key(m) /\ Recordable(m)' = Recordable(m)
  BY <1>2, SameCalls
<1>7. key = Key(l)
  OBVIOUS
<1> HIDE DEF key, l
<1>8. Counted'
  <2>1. /\ IsFiniteSet(Passed') /\ Cardinality(Passed) \in Nat
        /\ Cardinality(Passed') = Cardinality(Passed) + 1
    BY <1>1, FS_AddElement, FS_CardinalityType DEF IInv, Counted
  <2> QED
    BY <1>2, <2>1 DEF IInv, Counted
<1>9. Summed'
  <2>1. PICK slot : slot \notin Slots /\ Slots' = Slots \cup {slot}
    BY <1>0, <1>3, <1>4, RecordSlots
  <2>2. /\ IsFiniteSet(Slots') /\ Cardinality(Slots) \in Nat
        /\ Cardinality(Slots') = Cardinality(Slots) + 1
    BY <2>1, FS_AddElement, FS_CardinalityType DEF IInv, Summed
  <2> QED
    BY <1>2, <2>2 DEF IInv, Summed
<1> DEFINE old == IF key \in DOMAIN byKey THEN byKey[key] ELSE <<>>
           n   == Len(old)
<1>10. /\ n \in Nat
       /\ DOMAIN byKey' = DOMAIN byKey \cup {key}
       /\ \A k \in DOMAIN byKey : k # key => byKey'[k] = byKey[k]
       /\ DOMAIN old = 1..n
       /\ key \notin DOMAIN byKey => n = 0
       /\ key \in DOMAIN byKey => old = byKey[key]
       /\ DOMAIN byKey'[key] = 1..(n + 1)
       /\ \A i \in 1..n : byKey'[key][i] = old[i]
       /\ byKey'[key][n+1] = l
  BY <1>0, <1>3, <1>4, RecordFacts
<1> HIDE DEF old
<1>11. Filed'
  <2>1. \A i \in 1..n : /\ key \in DOMAIN byKey /\ i \in DOMAIN byKey[key]
                         /\ byKey'[key][i] = byKey[key][i]
    BY <1>10
  <2>2. \A i \in 1..n : byKey'[key][i] # l
    BY <1>1, <2>1 DEF IInv, Filed
  <2> SUFFICES ASSUME NEW k \in DOMAIN byKey'
               PROVE  /\ ~IsZeroLiteral(k[2])
                      /\ \A i \in DOMAIN byKey'[k] :
                            /\ byKey'[k][i] \in Passed' /\ Recordable(byKey'[k][i])
                            /\ k = Key(byKey'[k][i])
                            /\ \A j \in DOMAIN byKey'[k] :
                                  byKey'[k][i] = byKey'[k][j] => i = j
    BY <1>6 DEF Filed
  <2>3. CASE k # key
    BY <1>1, <1>10, <2>3 DEF IInv, Filed
  <2>4. CASE k = key
    <3>1. \A i \in 1..n : /\ byKey'[key][i] \in Passed'
                           /\ Recordable(byKey'[key][i]) /\ key = Key(byKey'[key][i])
      BY <1>1, <2>1 DEF IInv, Filed
    <3>2. \A i, j \in 1..n : byKey'[key][i] = byKey'[key][j] => i = j
      BY <2>1 DEF IInv, Filed
    <3>3. \A i \in DOMAIN byKey'[key] : i \in 1..n \/ i = n + 1
      BY <1>10
    <3>4. ASSUME NEW i \in DOMAIN byKey'[key]
          PROVE  /\ byKey'[key][i] \in Passed' /\ Recordable(byKey'[key][i])
                 /\ key = Key(byKey'[key][i])
      BY <1>1, <1>4, <1>7, <1>10, <3>1, <3>3
    <3>5. ASSUME NEW i \in DOMAIN byKey'[key], NEW j \in DOMAIN byKey'[key],
                 byKey'[key][i] = byKey'[key][j]
          PROVE  i = j
      BY <1>10, <2>2, <3>2, <3>3, <3>5
    <3> QED
      BY <1>5, <2>4, <3>4, <3>5
  <2> QED
    BY <2>3, <2>4
<1>12. Complete'
  <2> SUFFICES ASSUME NEW m \in Passed', Recordable(m)
               PROVE  /\ Key(m) \in DOMAIN byKey'
                      /\ \E i \in DOMAIN byKey'[Key(m)] : byKey'[Key(m)][i] = m
    BY <1>6 DEF Complete, ToSet
  <2>1. CASE m = l
    <3>1. n + 1 \in 1..(n + 1)
      BY <1>10
    <3> QED
      BY <1>7, <1>10, <2>1, <3>1
  <2>2. CASE m # l
    <3>1. PICK i \in DOMAIN byKey[Key(m)] : byKey[Key(m)][i] = m
      BY <1>1, <2>2 DEF IInv, Complete, ToSet
    <3>2. Key(m) \in DOMAIN byKey
      BY <1>1, <2>2 DEF IInv, Complete
    <3>3. CASE Key(m) # key
      BY <1>10, <3>1, <3>2, <3>3
    <3>4. CASE Key(m) = key
      <4>1. i \in 1..n /\ i \in 1..(n + 1) /\ old[i] = m
        BY <1>10, <3>1, <3>2, <3>4
      <4> QED
        BY <1>10, <3>4, <4>1
    <3> QED
      BY <3>3, <3>4
  <2> QED
    BY <2>1, <2>2
<1> QED
  BY <1>0, <1>8, <1>9, <1>11, <1>12 DEF IInv

LEMMA InitIInv == Init => IInv
<1> SUFFICES ASSUME Init PROVE IInv
  OBVIOUS
<1>1. TypeOK
  BY DEF Init, TypeOK, Stats
<1>2. Passed = {}
  <2>1. \A f, p : <<f, p>> \notin Passed
    <3> SUFFICES ASSUME NEW f, NEW p, <<f, p>> \in Passed PROVE FALSE
      OBVIOUS
    <3>1. f \in Nat \ {0} /\ p \in Nat \ {0} /\ (f < 1 \/ p < 0)
      BY <1>1, PassedIs, TreeFacts DEF Init
    <3> QED
      BY <3>1
  <2> QED
    BY <2>1, PassedPairs
<1>3. Slots = {}
  BY DEF Init, Slots
<1>4. Filed
  BY DEF Filed, Init
<1> QED
  BY <1>1, <1>2, <1>3, <1>4, FS_EmptySet DEF IInv, Counted, Summed, Complete, Init

LEMMA NextIInv == IInv /\ [Next]_vars => IInv'
<1> SUFFICES ASSUME IInv, [Next]_vars PROVE IInv'
  OBVIOUS
<1>0. TypeOK
  BY DEF IInv
<1>1. TypeOK'
  <2>1. CASE Next
    BY <1>0, <2>1, NextType
  <2>2. CASE UNCHANGED vars
    BY <1>0, <2>2 DEF vars, TypeOK, Scanned
  <2> QED
    BY <2>1, <2>2
<1>2. ASSUME ~Scanned(Current), site = 0, site' = 0, file' = file + 1,
             UNCHANGED <<tree, errors, byKey, stats.calls, stats.dynamic>>
      PROVE  IInv'
  <2> SUFFICES ASSUME NEW f \in DOMAIN tree, Scanned(tree[f]), NEW p \in Places(tree[f])
               PROVE  (f < file' \/ (f = file' /\ p < site'))
                      <=> (f < file \/ (f = file /\ p < site))
    BY <1>1, <1>2, StillKeeps
  <2>1. f # file /\ f \in Nat /\ p \in Nat \ {0} /\ file \in Nat
    BY <1>0, <1>2, TreeFacts DEF Current, TypeOK
  <2> QED
    BY <1>2, <2>1
<1>3. CASE SkipFile
  BY <1>2, <1>3 DEF SkipFile, Walking
<1>4. CASE Unreadable
  <2>1. ~Scanned(Current)
    BY <1>4 DEF Unreadable, Scanned
  <2>2. stats'.calls = stats.calls /\ stats'.dynamic = stats.dynamic
    BY <1>0, <1>4 DEF Unreadable, TypeOK, Stats
  <2> QED
    BY <1>2, <1>4, <2>1, <2>2 DEF Unreadable, Walking
<1>5. CASE Open
  <2>1. stats'.calls = stats.calls /\ stats'.dynamic = stats.dynamic
    BY <1>0, <1>5 DEF Open, TypeOK, Stats
  <2>2. UNCHANGED <<tree, errors, byKey>> /\ file' = file /\ site = 0 /\ site' = 1
    BY <1>5 DEF Open, Walking
  <2> SUFFICES ASSUME NEW f \in DOMAIN tree, Scanned(tree[f]), NEW p \in Places(tree[f])
               PROVE  (f < file' \/ (f = file' /\ p < site'))
                      <=> (f < file \/ (f = file /\ p < site))
    BY <1>1, <2>1, <2>2, StillKeeps
  <2>3. p \in Nat \ {0}
    BY <1>0, TreeFacts
  <2> QED
    BY <2>2, <2>3
<1>6. CASE PassBy
  <2>1. UNCHANGED <<tree, errors, byKey, stats.calls, stats.dynamic>> /\ file' = file
    BY <1>0, <1>6, VisitFacts DEF PassBy
  <2> SUFFICES ASSUME NEW f \in DOMAIN tree, Scanned(tree[f]),
                      NEW p \in Places(tree[f]), IsCall(tree[f], p)
               PROVE  (f < file' \/ (f = file' /\ p < site'))
                      <=> (f < file \/ (f = file /\ p < site))
    BY <1>1, <2>1, StillKeeps
  <2>2. CASE f = file
    <3>1. p # Here
      BY <1>6, <2>2 DEF PassBy, Current
    <3> QED
      BY <1>0, <1>6, <2>1, <2>2, <3>1, VisitFacts DEF PassBy, Current
  <2>3. CASE f # file
    BY <2>1, <2>3
  <2> QED
    BY <2>2, <2>3
<1>7. CASE CountDynamic
  BY <1>7, CountDynamicIInv
<1>8. CASE RecordCall
  BY <1>8, RecordCallIInv
<1>9. CASE Close
  <2>1. UNCHANGED <<tree, errors, byKey, stats>> /\ file' = file + 1 /\ site' = 0
    BY <1>9 DEF Close, Walking
  <2> SUFFICES ASSUME NEW f \in DOMAIN tree, Scanned(tree[f]), NEW p \in Places(tree[f])
               PROVE  (f < file' \/ (f = file' /\ p < site'))
                      <=> (f < file \/ (f = file /\ p < site))
    BY <1>1, <2>1, StillKeeps
  <2>2. f \in Nat /\ p \in Nat \ {0} /\ file \in Nat /\ site \in Nat
    BY <1>0, TreeFacts DEF TypeOK
  <2>3. f = file => p < site
    BY <1>9, <2>2 DEF Close, Ahead, Current
  <2> QED
    BY <2>1, <2>2, <2>3
<1>10. CASE UNCHANGED vars
  BY <1>1, <1>10, StillKeeps DEF vars
<1> QED
  BY <1>3, <1>4, <1>5, <1>6, <1>7, <1>8, <1>9, <1>10 DEF Next

LEMMA IInvHolds == Spec => []IInv
BY InitIInv, NextIInv, PTL DEF Spec

(***************************************************************************)
(* The statistics of scan and scan-errors add up, whatever the tree:       *)
(* recordAt files every call once, under one key, and a template that says *)
(* nothing never gets to it.                                               *)
(***************************************************************************)
THEOREM CallsAccounted == Spec => []EveryCallAccounted
<1>1. IInv => EveryCallAccounted
  BY DEF IInv, Summed, Slots, Filed, EveryCallAccounted
<1> QED
  BY <1>1, IInvHolds, PTL


\* What holds at the top and, above i, at i holds from 1 on.
LEMMA Downwards ==
  ASSUME NEW N \in Nat, NEW P, \A i \in 1..N : (\A j \in (i+1)..N : j \in P) => i \in P
  PROVE  1..N \subseteq P
<1> DEFINE Odd == {N - i : i \in (1..N) \ P}
<1> SUFFICES ASSUME NEW i0 \in 1..N, i0 \notin P PROVE FALSE
  OBVIOUS
<1>1. Odd \subseteq Nat /\ N - i0 \in Odd
  OBVIOUS
<1>2. PICK d \in Odd : \A e \in Odd : d <= e
  <2> HIDE DEF Odd
  <2> QED
    BY <1>1, LeastNat
<1>3. PICK i \in (1..N) \ P : d = N - i
  BY <1>2
<1>4. \A j \in (i+1)..N : j \in P
  <2> SUFFICES ASSUME NEW j \in (i+1)..N, j \notin P PROVE FALSE
    OBVIOUS
  <2>1. N - j \in Odd /\ j \in Int /\ i \in Int
    OBVIOUS
  <2>2. N - i <= N - j
    BY <1>2, <1>3, <2>1
  <2> QED
    BY <2>2
<1> QED
  BY <1>3, <1>4

\* ends as Stops expects it: no jump goes back, or beyond the end.
Jumps(ends) ==
    /\ ends \in Seq(Nat)
    /\ \A k \in 1..Len(ends) : ends[k] \in k..Len(ends)

StopsUp(f, ends) ==
    f = [k \in 1..(Len(ends) + 1) |->
            {k} \cup (IF k = Len(ends) + 1 THEN {} ELSE f[ends[k] + 1])]

LEMMA StopsExist ==
  ASSUME NEW ends, Jumps(ends)
  PROVE  \E f : StopsUp(f, ends)
<1> DEFINE N == Len(ends) + 1
           Row(f, k) == {k} \cup (IF k = N THEN {} ELSE f[ends[k] + 1])
           Solves(f, i) == DOMAIN f = 1..N /\ \A k \in i..N : f[k] = Row(f, k)
           P == {i \in 1..N : \E f : f = [k \in 1..N |-> f[k]] /\ Solves(f, i)}
<1>1. /\ N \in Nat \ {0} /\ N - 1 = Len(ends)
      /\ \A k \in 1..(N-1) : ends[k] + 1 \in (k+1)..N
  BY DEF Jumps
<1> HIDE DEF N
<1>2. ASSUME NEW i \in 1..N, \A j \in (i+1)..N : j \in P
      PROVE  i \in P
  <2>1. PICK g : g = [k \in 1..N |-> g[k]] /\ \A k \in (i+1)..N : g[k] = Row(g, k)
    <3>1. CASE i = N
      <4> DEFINE g == [k \in 1..N |-> {}]
      <4>1. g = [k \in 1..N |-> g[k]] /\ (i+1)..N = {}
        BY <1>1, <3>1
      <4> QED
        BY <4>1
    <3>2. CASE i # N
      <4>1. i + 1 \in (i+1)..N
        BY <1>1, <3>2
      <4> QED
        BY <1>2, <4>1
    <3> QED
      BY <3>1, <3>2
  <2> DEFINE f == [k \in 1..N |-> IF k = i THEN Row(g, i) ELSE g[k]]
  <2>2. \A k \in (i+1)..N : f[k] = g[k]
    OBVIOUS
  <2>3. \A k \in i..N : k # N => ends[k] + 1 \in (i+1)..N
    BY <1>1
  <2>4. \A k \in i..N : Row(f, k) = Row(g, k)
    BY <2>2, <2>3
  <2>5. \A k \in i..N : f[k] = Row(f, k)
    <3> SUFFICES ASSUME NEW k \in i..N PROVE f[k] = Row(f, k)
      OBVIOUS
    <3>1. CASE k = i
      BY <2>4, <3>1
    <3>2. CASE k # i
      <4>1. k \in (i+1)..N
        BY <3>2
      <4> QED
        BY <2>1, <2>2, <2>4, <4>1
    <3> QED
      BY <3>1, <3>2
  <2>6. f = [k \in 1..N |-> f[k]] /\ DOMAIN f = 1..N
    OBVIOUS
  <2> HIDE DEF f
  <2> QED
    BY <2>5, <2>6
<1>3. 1 \in P
  <2>1. 1..N \subseteq P
    <3> HIDE DEF P
    <3> QED
      BY <1>1, <1>2, Downwards
  <2> HIDE DEF P
  <2> QED
    BY <1>1, <2>1
<1>4. PICK f : f = [k \in 1..N |-> f[k]] /\ \A k \in 1..N : f[k] = Row(f, k)
  BY <1>3
<1>5. f = [k \in 1..N |-> Row(f, k)]
  BY <1>4
<1> QED
  BY <1>5 DEF StopsUp, N

LEMMA StopsUnfold ==
  ASSUME NEW ends, Jumps(ends), NEW i \in 1..(Len(ends) + 1)
  PROVE  /\ i = Len(ends) + 1 => Stops(ends, i) = {i}
         /\ i # Len(ends) + 1 => /\ ends[i] + 1 \in (i+1)..(Len(ends) + 1)
                                 /\ Stops(ends, i) = {i} \cup Stops(ends, ends[i] + 1)
<1> DEFINE from == CHOOSE f : StopsUp(f, ends)
<1>1. StopsUp(from, ends)
  BY StopsExist
<1>2. \A k : Stops(ends, k) = from[k]
  BY DEF Stops, StopsUp
<1> HIDE DEF from
<1>3. from[i] = {i} \cup (IF i = Len(ends) + 1 THEN {} ELSE from[ends[i] + 1])
  BY <1>1 DEF StopsUp
<1>4. i # Len(ends) + 1 => ends[i] + 1 \in (i+1)..(Len(ends) + 1)
  BY DEF Jumps
<1> QED
  BY <1>2, <1>3, <1>4

LEMMA StopsFacts ==
  ASSUME NEW ends, Jumps(ends), NEW i \in 1..(Len(ends) + 1)
  PROVE  LET N == Len(ends)
             stops == Stops(ends, i)
         IN  /\ stops \subseteq i..(N + 1)
             /\ i \in stops /\ N + 1 \in stops
             /\ \A k \in stops : k # N + 1 =>
                   ends[k] + 1 \in stops /\ \A j \in (k+1)..ends[k] : j \notin stops
             /\ \A j \in (i..(N + 1)) \ stops :
                   \E k \in stops : k # N + 1 /\ j \in (k+1)..ends[k]
<1> DEFINE N == Len(ends)
           Good(h) ==
             LET stops == Stops(ends, h)
             IN  /\ stops \subseteq h..(N + 1)
                 /\ h \in stops /\ N + 1 \in stops
                 /\ \A k \in stops : k # N + 1 =>
                       ends[k] + 1 \in stops /\ \A j \in (k+1)..ends[k] : j \notin stops
                 /\ \A j \in (h..(N + 1)) \ stops :
                       \E k \in stops : k # N + 1 /\ j \in (k+1)..ends[k]
           P == {h \in 1..(N + 1) : Good(h)}
<1>1. N \in Nat /\ \A k \in 1..N : ends[k] \in k..N
  BY DEF Jumps
<1>2. ASSUME NEW h \in 1..(N + 1), \A j \in (h+1)..(N+1) : j \in P
      PROVE  h \in P
  <2>1. CASE h = N + 1
    <3>1. Stops(ends, h) = {h} /\ h..(N + 1) = {h}
      BY <1>1, <2>1, StopsUnfold
    <3> QED
      BY <2>1, <3>1
  <2>2. CASE h # N + 1
    <3> DEFINE m == ends[h] + 1
               A == Stops(ends, h)
               B == Stops(ends, m)
    <3>1. m \in (h+1)..(N+1) /\ A = {h} \cup B
      BY <2>2, StopsUnfold
    <3>2. Good(m)
      BY <1>2, <3>1
    <3>3. ends[h] = m - 1 /\ h \in 1..N /\ m \in Int
      BY <1>1, <2>2, <3>1
    <3> HIDE DEF m, A, B, N
    <3>4. /\ B \subseteq m..(N + 1) /\ m \in B /\ N + 1 \in B
          /\ \A k \in B : k # N + 1 =>
                ends[k] + 1 \in B /\ \A j \in (k+1)..ends[k] : j \notin B
          /\ \A j \in (m..(N + 1)) \ B : \E k \in B : k # N + 1 /\ j \in (k+1)..ends[k]
      BY <3>2 DEF B
    <3>5. A \subseteq h..(N + 1) /\ h \in A /\ N + 1 \in A
      BY <1>1, <3>1, <3>3, <3>4
    <3>6. ASSUME NEW k \in A, k # N + 1
          PROVE  ends[k] + 1 \in A /\ \A j \in (k+1)..ends[k] : j \notin A
      <4>1. CASE k = h
        <5>1. ends[k] + 1 = m
          BY <3>3, <4>1
        <5>2. \A j \in (k+1)..ends[k] : j # h /\ j \notin m..(N + 1)
          BY <1>1, <3>3, <4>1
        <5> QED
          BY <3>1, <3>4, <5>1, <5>2
      <4>2. CASE k \in B
        <5>1. k >= m /\ k \in Int /\ m \in Int /\ h < m /\ h \in Int
          BY <1>1, <3>1, <3>3, <3>4, <4>2
        <5>2. \A j \in (k+1)..ends[k] : j # h
          BY <5>1
        <5> QED
          BY <3>1, <3>4, <3>6, <4>2, <5>2
      <4> QED
        BY <3>1, <4>1, <4>2
    <3>7. ASSUME NEW j \in (h..(N + 1)) \ A
          PROVE  \E k \in A : k # N + 1 /\ j \in (k+1)..ends[k]
      <4>1. CASE j < m
        <5>1. j \in (h+1)..ends[h]
          BY <1>1, <3>1, <3>3, <4>1
        <5> QED
          BY <2>2, <3>1, <5>1
      <4>2. CASE j >= m
        <5>1. j \in (m..(N + 1)) \ B
          BY <1>1, <3>1, <4>2
        <5> QED
          BY <3>1, <3>4, <5>1
      <4> QED
        BY <1>1, <3>3, <4>1, <4>2
    <3> QED
      BY <3>5, <3>6, <3>7 DEF A, N
  <2> QED
    BY <2>1, <2>2
<1>3. 1..(N + 1) \subseteq P
  <2>1. N + 1 \in Nat
    BY <1>1
  <2> HIDE DEF P, N
  <2> QED
    BY <1>2, <2>1, Downwards
<1>4. Good(i)
  BY <1>3
<1> QED
  BY <1>4

LEMMA StopBefore ==
  ASSUME NEW ends, Jumps(ends), NEW i \in 1..(Len(ends) + 1),
         NEW j \in Stops(ends, i), j # i
  PROVE  \E k \in Stops(ends, i) : k < j /\ k # Len(ends) + 1 /\ ends[k] + 1 = j
<1> DEFINE N == Len(ends)
           stops == Stops(ends, i)
<1>1. /\ N \in Nat /\ \A k \in 1..N : ends[k] \in k..N
      /\ stops \subseteq i..(N + 1) /\ i \in stops
      /\ \A k \in stops : k # N + 1 => \A h \in (k+1)..ends[k] : h \notin stops
      /\ \A h \in (i..(N + 1)) \ stops : \E k \in stops : k # N + 1 /\ h \in (k+1)..ends[k]
  BY StopsFacts DEF Jumps
<1> HIDE DEF stops, N
<1>2. j \in (i+1)..(N+1) /\ j - 1 \in i..N /\ j \in stops /\ i \in Nat /\ j \in Nat
  BY <1>1 DEF stops, N
<1>3. CASE j - 1 \in stops
  <2>1. ends[j-1] \in (j-1)..N /\ \A h \in j..ends[j-1] : h \notin stops
    BY <1>1, <1>2, <1>3
  <2>2. ends[j-1] = j - 1
    <3> SUFFICES ASSUME ends[j-1] # j - 1 PROVE j \in j..ends[j-1]
      BY <1>2, <2>1
    <3> QED
      BY <1>1, <1>2, <2>1
  <2> QED
    BY <1>1, <1>2, <1>3, <2>2 DEF stops, N
<1>4. CASE j - 1 \notin stops
  <2>1. PICK k \in stops : k # N + 1 /\ j - 1 \in (k+1)..ends[k]
    BY <1>1, <1>2, <1>4
  <2>2. k \in 1..N /\ ends[k] \in k..N /\ j \notin (k+1)..ends[k]
    BY <1>1, <1>2, <2>1
  <2>3. ends[k] + 1 = j /\ k < j
    BY <1>1, <1>2, <2>1, <2>2
  <2> QED
    BY <2>1, <2>3 DEF stops, N
<1> QED
  BY <1>3, <1>4

LEMMA StopsInduction ==
  ASSUME NEW ends, Jumps(ends), NEW i \in 1..(Len(ends) + 1),
         NEW P, i \in P,
         \A k \in P \cap Stops(ends, i) : k # Len(ends) + 1 => ends[k] + 1 \in P
  PROVE  Stops(ends, i) \subseteq P
<1> DEFINE Odd == Stops(ends, i) \ P
<1> SUFFICES ASSUME Odd # {} PROVE FALSE
  OBVIOUS
<1>1. Odd \subseteq Nat
  BY StopsFacts
<1>2. PICK j \in Odd : \A k \in Odd : j <= k
  <2> HIDE DEF Odd
  <2> QED
    BY <1>1, LeastNat
<1>3. PICK k \in Stops(ends, i) : k < j /\ k # Len(ends) + 1 /\ ends[k] + 1 = j
  BY <1>2, StopBefore
<1>4. k \in P
  <2>1. k \in Nat /\ j \in Nat
    BY <1>1, StopsFacts
  <2> QED
    BY <1>2, <1>3, <2>1
<1> QED
  BY <1>2, <1>3, <1>4


-----------------------------------------------------------------------------
(* Looking for a character or a text. *)

Least(n, T) == n \in T /\ \A m \in T : n <= m

LEMMA StartsOne ==
  ASSUME NEW A, NEW s \in Seq(A), NEW c, NEW i \in Nat \ {0}
  PROVE  Starts(s, <<c>>, i) <=> i <= Len(s) /\ s[i] = c
<1>1. Len(<<c>>) = 1 /\ <<c>>[1] = c
  OBVIOUS
<1>2. CASE i <= Len(s)
  <2>1. SubSeq(s, i, i) = <<s[i]>>
    <3> DEFINE x == SubSeq(s, i, i)
               y == <<s[i]>>
    <3>1. x \in Seq(A) /\ Len(x) = 1 /\ x[1] = s[i]
      BY <1>2
    <3>2. y \in Seq(A) /\ Len(y) = 1 /\ y[1] = s[i]
      BY <1>2
    <3> HIDE DEF x, y
    <3>3. \A k \in 1..Len(x) : x[k] = y[k]
      BY <3>1, <3>2
    <3>4. x = y
      BY <3>1, <3>2, <3>3, SeqEqual
    <3> QED
      BY <3>4 DEF x, y
  <2> QED
    BY <1>1, <1>2, <2>1 DEF Starts
<1> QED
  BY <1>1, <1>2 DEF Starts

LEMMA StartsTwo ==
  ASSUME NEW A, NEW s \in Seq(A), NEW c, NEW d, NEW i \in Nat \ {0}
  PROVE  Starts(s, <<c, d>>, i) <=> i < Len(s) /\ s[i] = c /\ s[i+1] = d
<1>1. Len(<<c, d>>) = 2 /\ <<c, d>>[1] = c /\ <<c, d>>[2] = d
  OBVIOUS
<1>2. CASE i < Len(s)
  <2>1. SubSeq(s, i, i + 1) = <<s[i], s[i+1]>>
    <3> DEFINE x == SubSeq(s, i, i + 1)
               y == <<s[i], s[i+1]>>
    <3>1. i \in 1..Len(s) /\ i + 1 \in 1..Len(s)
      BY <1>2
    <3>2. x \in Seq(A) /\ Len(x) = 2 /\ x[1] = s[i] /\ x[2] = s[i+1]
      BY <3>1
    <3>3. y \in Seq(A) /\ Len(y) = 2 /\ y[1] = s[i] /\ y[2] = s[i+1]
      BY <3>1
    <3> HIDE DEF x, y
    <3>4. \A k \in 1..Len(x) : x[k] = y[k]
      BY <3>2, <3>3
    <3>5. x = y
      BY <3>2, <3>3, <3>4, SeqEqual
    <3> QED
      BY <3>5 DEF x, y
  <2> QED
    BY <1>1, <1>2, <2>1 DEF Starts
<1> QED
  BY <1>1, <1>2 DEF Starts

LEMMA FindFacts ==
  ASSUME NEW s, Len(s) \in Nat, NEW text, NEW i \in Nat \ {0}
  PROVE  LET f == Find(s, text, i)
         IN  /\ f = 0 \/ f \in i..Len(s)
             /\ f # 0 => Starts(s, text, f)
             /\ \A j \in i..Len(s) : Starts(s, text, j) => f # 0 /\ f <= j
<1> DEFINE found == {j \in i..Len(s) : Starts(s, text, j)}
<1>1. CASE found = {}
  BY <1>1 DEF Find
<1>2. CASE found # {}
  <2>1. found \subseteq Nat
    OBVIOUS
  <2>2. Min(found) \in found /\ \A j \in found : Min(found) <= j
    <3> HIDE DEF found
    <3> QED
      BY <1>2, <2>1, MinFacts
  <2>3. Find(s, text, i) = Min(found)
    BY <1>2 DEF Find
  <2>4. Find(s, text, i) \in found /\ \A j \in found : Find(s, text, i) <= j
    <3> HIDE DEF found
    <3> QED
      BY <2>2, <2>3
  <2>5. Find(s, text, i) # 0
    BY <2>4
  <2> QED
    BY <2>4, <2>5
<1> QED
  BY <1>1, <1>2

\* The closing of a raw string with n hashes.
Closes(s, n, j) == /\ j + n <= Len(s) /\ s[j] = Quote
                   /\ \A h \in 1..n : s[j+h] = "#"

LEMMA StartsClosing ==
  ASSUME NEW s \in Seq(Char), NEW n \in Nat, NEW j \in Nat \ {0}
  PROVE  Starts(s, <<Quote>> \o [h \in 1..n |-> "#"], j) <=> Closes(s, n, j)
<1> DEFINE t == <<Quote>> \o [h \in 1..n |-> "#"]
<1>1. Len(t) = n + 1 /\ DOMAIN t = 1..(n+1) /\ t[1] = Quote /\ \A h \in 1..n : t[h+1] = "#"
  OBVIOUS
<1> HIDE DEF t
<1>2. CASE j + n <= Len(s)
  <2>1. /\ DOMAIN SubSeq(s, j, j + n) = 1..(n+1)
        /\ \A h \in 1..(n+1) : SubSeq(s, j, j + n)[h] = s[j+h-1]
    BY <1>2
  <2>2. SubSeq(s, j, j + n) = t <=> s[j] = Quote /\ \A h \in 1..n : s[j+h] = "#"
    <3>1. ASSUME SubSeq(s, j, j + n) = t
          PROVE  s[j] = Quote /\ \A h \in 1..n : s[j+h] = "#"
      <4>1. \A h \in 1..(n+1) : t[h] = s[j+h-1]
        BY <2>1, <3>1
      <4>2. s[j] = Quote
        <5>1. 1 \in 1..(n+1) /\ j + 1 - 1 = j
          OBVIOUS
        <5> QED
          BY <1>1, <4>1, <5>1
      <4>3. ASSUME NEW h \in 1..n PROVE s[j+h] = "#"
        <5>1. h + 1 \in 1..(n+1) /\ j + (h + 1) - 1 = j + h
          OBVIOUS
        <5> QED
          BY <1>1, <4>1, <5>1
      <4> QED
        BY <4>2, <4>3
    <3>2. ASSUME s[j] = Quote, \A h \in 1..n : s[j+h] = "#"
          PROVE  SubSeq(s, j, j + n) = t
      <4>1. ASSUME NEW h \in 1..(n+1) PROVE t[h] = SubSeq(s, j, j + n)[h]
        <5>1. CASE h = 1
          BY <1>1, <2>1, <3>2, <5>1
        <5>2. CASE h # 1
          <6>1. h - 1 \in 1..n /\ (h - 1) + 1 = h /\ j + (h - 1) = j + h - 1
            BY <5>2
          <6>2. t[h] = "#" /\ s[j + (h - 1)] = "#"
            BY <1>1, <3>2, <6>1
          <6> QED
            BY <2>1, <6>1, <6>2
        <5> QED
          BY <5>1, <5>2
      <4>2. t \in Seq({Quote, "#"}) /\ SubSeq(s, j, j + n) \in Seq(Char)
        <5>1. <<Quote>> \in Seq({Quote, "#"}) /\ [h \in 1..n |-> "#"] \in Seq({Quote, "#"})
          OBVIOUS
        <5>2. SubSeq(s, j, j + n) \in Seq(Char)
          BY <1>2
        <5> QED
          BY <5>1, <5>2 DEF t
      <4> QED
        BY <1>1, <2>1, <4>1, <4>2
    <3> QED
      BY <3>1, <3>2
  <2>3. j + Len(t) - 1 = j + n
    BY <1>1
  <2> QED
    BY <1>2, <2>2, <2>3 DEF Starts, Closes, t
<1>3. CASE ~(j + n <= Len(s))
  <2>1. j + Len(t) - 1 = j + n
    BY <1>1
  <2> QED
    BY <1>3, <2>1 DEF Starts, Closes, t
<1> QED
  BY <1>2, <1>3

LEMMA HashesFacts ==
  ASSUME NEW s \in Seq(Char), NEW i \in 1..Len(s)
  PROVE  LET n == Hashes(s, i)
         IN  /\ n \in Nat /\ \A h \in 1..n : s[i+h] = "#"
             /\ \/ i + n < Len(s) /\ s[i+n+1] # "#"
                \/ n = 0 /\ \A j \in (i+1)..Len(s) : s[j] = "#"
<1> DEFINE others == {j \in (i+1)..Len(s) : s[j] # "#"}
           f == SelectInSubSeq(s, i + 1, Len(s), LAMBDA c : c # "#")
<1>1. CASE others = {}
  <2>1. f = 0
    BY <1>1 DEF SelectInSubSeq
  <2>2. Hashes(s, i) = 0
    BY <2>1 DEF Hashes, Or
  <2> QED
    BY <1>1, <2>2
<1>2. CASE others # {}
  <2>1. others \subseteq Nat
    OBVIOUS
  <2>2. Min(others) \in others /\ \A j \in others : Min(others) <= j
    <3> HIDE DEF others
    <3> QED
      BY <1>2, <2>1, MinFacts
  <2>3. f = Min(others)
    BY <1>2 DEF SelectInSubSeq
  <2> HIDE DEF f
  <2>4. f \in (i+1)..Len(s) /\ s[f] # "#" /\ \A j \in (i+1)..Len(s) : s[j] # "#" => f <= j
    BY <2>2, <2>3
  <2>5. Hashes(s, i) = f - i - 1
    BY <2>4 DEF Hashes, Or, f
  <2>6. ASSUME NEW h \in 1..(f - i - 1) PROVE s[i+h] = "#"
    BY <2>4
  <2>7. f - i - 1 \in Nat /\ i + (f - i - 1) + 1 = f /\ i + (f - i - 1) < Len(s)
    BY <2>4
  <2> QED
    BY <2>4, <2>5, <2>6, <2>7
<1> QED
  BY <1>1, <1>2

\* A raw string from i to e, opened with n hashes.
RawAt(s, i, n, f) ==
    /\ s[i] = "r" /\ i + n + 1 <= Len(s)
    /\ \A h \in 1..n : s[i+h] = "#"
    /\ s[i+n+1] = Quote
    /\ f \in (i+n+2)..Len(s) /\ Closes(s, n, f)
    /\ \A j \in (i+n+2)..(f-1) : ~Closes(s, n, j)

LEMMA RawEndFacts ==
  ASSUME NEW s \in Seq(Char), NEW i \in 1..Len(s)
  PROVE  /\ RawEnd(s, i) = 0 \/ \E n \in Nat, f \in Nat : RawAt(s, i, n, f) /\ RawEnd(s, i) = f + n
         /\ \A n \in Nat :
              (/\ RawEnd(s, i) = 0 /\ s[i] = "r" /\ i + n + 1 <= Len(s)
               /\ \A h \in 1..n : s[i+h] = "#"
               /\ s[i+n+1] = Quote)
              => \A j \in (i+n+2)..Len(s) : ~Closes(s, n, j)
<1> DEFINE n == Hashes(s, i)
           closing == <<Quote>> \o [h \in 1..n |-> "#"]
           f == Find(s, closing, i + n + 2)
<1>1. /\ n \in Nat /\ \A h \in 1..n : s[i+h] = "#"
      /\ \/ i + n < Len(s) /\ s[i+n+1] # "#"
         \/ n = 0 /\ \A j \in (i+1)..Len(s) : s[j] = "#"
  BY HashesFacts
<1>2. RawEnd(s, i) = IF s[i] = "r" /\ Starts(s, <<Quote>>, i + n + 1) /\ f # 0 THEN f + n ELSE 0
  BY DEF RawEnd
<1>3. /\ f = 0 \/ f \in (i+n+2)..Len(s)
      /\ f # 0 => Starts(s, closing, f)
      /\ \A j \in (i+n+2)..Len(s) : Starts(s, closing, j) => f # 0 /\ f <= j
  <2>1. Len(s) \in Nat /\ i + n + 2 \in Nat \ {0}
    BY <1>1
  <2> HIDE DEF n, closing
  <2> QED
    BY <2>1, FindFacts
<1>4. \A j \in Nat \ {0} : Starts(s, closing, j) <=> Closes(s, n, j)
  BY <1>1, StartsClosing
<1>5. Starts(s, <<Quote>>, i + n + 1) <=> i + n + 1 <= Len(s) /\ s[i+n+1] = Quote
  BY <1>1, StartsOne
<1> HIDE DEF n, closing, f
<1>6. ASSUME RawEnd(s, i) # 0 PROVE RawAt(s, i, n, f) /\ RawEnd(s, i) = f + n /\ f \in Nat
  <2>1. s[i] = "r" /\ i + n + 1 <= Len(s) /\ s[i+n+1] = Quote /\ f # 0 /\ RawEnd(s, i) = f + n
    BY <1>2, <1>5, <1>6
  <2>2. f \in (i+n+2)..Len(s) /\ f \in Nat \ {0}
    BY <1>1, <1>3, <2>1
  <2>3. Closes(s, n, f)
    BY <1>3, <1>4, <2>1, <2>2
  <2>4. ASSUME NEW j \in (i+n+2)..(f-1) PROVE ~Closes(s, n, j)
    <3>1. j \in (i+n+2)..Len(s) /\ j \in Nat \ {0} /\ ~(f <= j)
      BY <1>1, <2>2
    <3> QED
      BY <1>3, <1>4, <3>1
  <2> QED
    BY <1>1, <2>1, <2>2, <2>3, <2>4 DEF RawAt
<1>7. ASSUME RawEnd(s, i) = 0, NEW m \in Nat, s[i] = "r", i + m + 1 <= Len(s),
             \A h \in 1..m : s[i+h] = "#", s[i+m+1] = Quote
      PROVE  \A j \in (i+m+2)..Len(s) : ~Closes(s, m, j)
  <2>1. m = n
    <3>1. CASE n = 0 /\ \A j \in (i+1)..Len(s) : s[j] = "#"
      <4>1. i + m + 1 \in (i+1)..Len(s)
        BY <1>7
      <4> QED
        BY <1>7, <3>1, <4>1 DEF Quote
    <3>2. CASE i + n < Len(s) /\ s[i+n+1] # "#"
      <4>1. ~(n < m)
        <5> SUFFICES ASSUME n < m PROVE n + 1 \in 1..m /\ i + (n + 1) = i + n + 1
          BY <1>7, <3>2
        <5> QED
          BY <1>1
      <4>2. ~(m < n)
        <5> SUFFICES ASSUME m < n PROVE m + 1 \in 1..n /\ i + (m + 1) = i + m + 1
          BY <1>1, <1>7 DEF Quote
        <5> QED
          BY <1>1
      <4> QED
        BY <1>1, <4>1, <4>2
    <3> QED
      BY <1>1, <3>1, <3>2
  <2>2. f = 0
    <3>1. f # 0 => f + n # 0
      BY <1>1, <1>3
    <3> QED
      BY <1>2, <1>5, <1>7, <2>1, <3>1
  <2>3. \A j \in (i+n+2)..Len(s) : j \in Nat \ {0}
    BY <1>1
  <2> QED
    BY <1>3, <1>4, <2>1, <2>2, <2>3
<1> QED
  BY <1>1, <1>6, <1>7


\* A function on 0..N is known by its first value and a step.
IsStep(G, N, D) == G \in [(1..N) \X D -> D]

Climbs(f, G, N, D, b) ==
    f \in [0..N -> D] /\ f[0] = b /\ \A i \in 1..N : f[i] = G[<<i, f[i-1]>>]

LEMMA Climb ==
  ASSUME NEW N \in Nat, NEW D, NEW b \in D, NEW G, IsStep(G, N, D)
  PROVE  \E f : Climbs(f, G, N, D, b)
<1> USE DEF IsStep, Climbs
<1> DEFINE Good(f, n) == /\ f \in [0..N -> D] /\ f[0] = b
                         /\ \A i \in 1..n : f[i] = G[<<i, f[i-1]>>]
           Odd == {n \in 0..N : ~ \E f : Good(f, n)}
<1>1. SUFFICES ASSUME Odd # {} PROVE FALSE
  <2>1. N \in 0..N
    OBVIOUS
  <2> QED
    BY <2>1
<1>2. PICK n \in Odd : \A m \in Odd : n <= m
  <2>1. Odd \subseteq Nat
    OBVIOUS
  <2> HIDE DEF Odd
  <2> QED
    BY <1>1, <2>1, LeastNat
<1>3. n # 0
  <2>1. Good([i \in 0..N |-> b], 0)
    OBVIOUS
  <2> HIDE DEF Good
  <2> QED
    BY <1>2, <2>1
<1>4. n \in 1..N /\ n - 1 \in 0..N /\ n - 1 \notin Odd
  <2>1. n \in 1..N /\ n - 1 \in 0..N /\ ~(n <= n - 1)
    BY <1>2, <1>3
  <2> HIDE DEF Odd
  <2> QED
    BY <1>2, <2>1
<1>5. PICK f : Good(f, n - 1)
  BY <1>4
<1>6. f[n-1] \in D /\ G[<<n, f[n-1]>>] \in D
  BY <1>4, <1>5
<1> DEFINE g == [f EXCEPT ![n] = G[<<n, f[n-1]>>]]
<1>7. g \in [0..N -> D] /\ g[n] = G[<<n, f[n-1]>>] /\ \A i \in 0..N : i # n => g[i] = f[i]
  BY <1>4, <1>5, <1>6
<1> HIDE DEF g
<1>8. ASSUME NEW i \in 1..n PROVE g[i] = G[<<i, g[i-1]>>]
  <2>1. CASE i = n
    BY <1>4, <1>7, <2>1
  <2>2. CASE i # n
    <3>1. i \in 1..(n-1) /\ i - 1 \in 0..N /\ i \in 0..N /\ i - 1 # n
      BY <1>4, <2>2
    <3>2. g[i] = f[i] /\ g[i-1] = f[i-1]
      BY <1>7, <2>2, <3>1
    <3> QED
      BY <1>5, <3>1, <3>2
  <2> QED
    BY <2>1, <2>2
<1>9. g[0] = b
  BY <1>4, <1>5, <1>7
<1> QED
  BY <1>2, <1>7, <1>8, <1>9

-----------------------------------------------------------------------------
(* The lexer. *)

ModeNames == {"invalid", "escape", "string", "line", "block", "star", "raw", "close",
              "code", "slash", "r", "word"}

ModeSet == [in : ModeNames, n : Nat, k : Nat]

LEMMA PlainType ==
  /\ \A name \in ModeNames : \A n, k \in Nat : Mode(name, n, k) \in ModeSet
  /\ \A name \in ModeNames : Plain(name) \in ModeSet
  /\ \A name, n, k : Mode(name, n, k).in = name /\ Mode(name, n, k).n = n /\ Mode(name, n, k).k = k
  /\ \A name : Plain(name).in = name /\ Plain(name).n = 0 /\ Plain(name).k = 0
BY DEF Mode, Plain, ModeSet

LEMMA AfterType ==
  ASSUME NEW m \in ModeSet, NEW c
  PROVE  After(m, c) \in ModeSet
<1>1. m.in \in ModeNames /\ m.n \in Nat /\ m.k \in Nat
  BY DEF ModeSet
<1>2. /\ InString(c) \in ModeSet
      /\ \A b \in BOOLEAN : InBlock(c, b) \in ModeSet
  BY PlainType DEF InString, InBlock, ModeNames
<1>3. InRaw(m, c) \in ModeSet
  BY <1>1, PlainType DEF InRaw, ModeNames
<1>4. InCode(m, c) \in ModeSet
  BY <1>1, PlainType DEF InCode, ModeNames
<1>5. Plain("string") \in ModeSet /\ Plain("code") \in ModeSet
  BY PlainType DEF ModeNames
<1> QED
  BY <1>1, <1>2, <1>3, <1>4, <1>5 DEF After, ModeNames

LEMMA ModesFacts ==
  ASSUME NEW s \in Seq(Char)
  PROVE  /\ Modes(s)[1] = Plain("code")
         /\ \A i \in 1..(Len(s) + 1) : Modes(s)[i] \in ModeSet
         /\ \A i \in 1..Len(s) : Modes(s)[i+1] = After(Modes(s)[i], s[i])
<1> DEFINE N == Len(s)
           G == [x \in (1..N) \X ModeSet |-> After(x[2], s[x[1]])]
           Up(m) == m = [i \in 1..(N + 1) |->
                           IF i = 1 THEN Plain("code") ELSE After(m[i-1], s[i-1])]
           it == CHOOSE m : Up(m)
<1>1. N \in Nat /\ Plain("code") \in ModeSet
  BY PlainType DEF ModeNames
<1>2. G \in [(1..N) \X ModeSet -> ModeSet]
  BY AfterType
<1>3. PICK f \in [0..N -> ModeSet] : /\ f[0] = Plain("code")
                                     /\ \A i \in 1..N : f[i] = G[<<i, f[i-1]>>]
  <2> DEFINE b == Plain("code")
  <2> HIDE DEF N, G, b
  <2>1. b \in ModeSet
    BY <1>1 DEF b
  <2>2. IsStep(G, N, ModeSet)
    BY <1>2 DEF IsStep
  <2>3. \E f : Climbs(f, G, N, ModeSet, b)
    BY <1>1, <2>1, <2>2, Climb
  <2> QED
    BY <2>3 DEF b, Climbs
<1>4. \A i \in 1..N : f[i] = After(f[i-1], s[i])
  <2> SUFFICES ASSUME NEW i \in 1..N PROVE f[i] = After(f[i-1], s[i])
    OBVIOUS
  <2>1. i - 1 \in 0..N
    BY <1>1
  <2>2. f[i-1] \in ModeSet
    BY <1>3, <2>1
  <2>3. G[<<i, f[i-1]>>] = After(f[i-1], s[i])
    BY <2>2
  <2> HIDE DEF G
  <2> QED
    BY <1>3, <2>3
<1> HIDE DEF G
<1> DEFINE m == [i \in 1..(N + 1) |-> f[i-1]]
<1>5. m = [i \in 1..(N + 1) |-> IF i = 1 THEN Plain("code") ELSE After(m[i-1], s[i-1])]
  <2>1. ASSUME NEW i \in 1..(N + 1)
        PROVE  f[i-1] = IF i = 1 THEN Plain("code") ELSE After(m[i-1], s[i-1])
    <3>1. CASE i = 1
      BY <1>3, <3>1
    <3>2. CASE i # 1
      <4>1. i - 1 \in 1..N /\ i - 1 \in 1..(N + 1)
        BY <1>1, <3>2
      <4>2. m[i-1] = f[(i-1)-1]
        BY <4>1
      <4>3. f[i-1] = After(f[(i-1)-1], s[i-1])
        BY <1>4, <4>1
      <4> QED
        BY <3>2, <4>2, <4>3
    <3> QED
      BY <3>1, <3>2
  <2> QED
    BY <2>1
<1>6. Up(m)
  BY <1>5
<1> HIDE DEF m
<1>7. Up(it)
  <2> HIDE DEF Up
  <2> QED
    BY <1>6
<1>8. Modes(s) = it
  BY DEF Modes
<1> HIDE DEF it
<1>9. /\ it[1] = Plain("code")
      /\ \A i \in 1..N : it[i+1] = After(it[i], s[i])
  <2>1. 1 \in 1..(N + 1) /\ \A i \in 1..N : i + 1 \in 1..(N+1) /\ i + 1 # 1 /\ (i + 1) - 1 = i
    BY <1>1
  <2>2. it[1] = Plain("code")
    BY <1>7, <2>1
  <2>3. ASSUME NEW i \in 1..N PROVE it[i+1] = After(it[i], s[i])
    <3>1. it[i+1] = IF i + 1 = 1 THEN Plain("code") ELSE After(it[(i+1)-1], s[(i+1)-1])
      BY <1>7, <2>1
    <3> QED
      BY <2>1, <3>1
  <2> QED
    BY <2>2, <2>3
<1>10. \A i \in 1..(N + 1) : it[i] \in ModeSet
  <2> DEFINE Odd == {i \in 1..(N + 1) : it[i] \notin ModeSet}
  <2> SUFFICES ASSUME Odd # {} PROVE FALSE
    OBVIOUS
  <2>1. PICK i \in Odd : \A j \in Odd : i <= j
    <3>1. Odd \subseteq Nat
      OBVIOUS
    <3> HIDE DEF Odd
    <3> QED
      BY <3>1, LeastNat
  <2>2. i # 1
    BY <1>1, <1>9, <2>1
  <2>3. i - 1 \in 1..N /\ (i - 1) + 1 = i /\ i - 1 \in 1..(N + 1) /\ ~(i <= i - 1)
    BY <1>1, <2>1, <2>2
  <2>4. it[i-1] \in ModeSet
    BY <2>1, <2>3
  <2>5. it[(i-1)+1] = After(it[i-1], s[i-1])
    BY <1>9, <2>3
  <2> QED
    BY <2>1, <2>3, <2>4, <2>5, AfterType
<1> QED
  BY <1>8, <1>9, <1>10


-----------------------------------------------------------------------------
(* The scanner's tokens. *)

EscapeEnds(s) == [k \in DOMAIN s |-> IF s[k] = "\\" /\ k < Len(s) THEN k + 1 ELSE k]

LEMMA QuoteEndFacts ==
  ASSUME NEW s \in Seq(Char), NEW j \in 1..(Len(s) + 1)
  PROVE  LET stops == Stops(EscapeEnds(s), j)
             q == QuoteEnd(s, j)
         IN  /\ Jumps(EscapeEnds(s)) /\ Len(EscapeEnds(s)) = Len(s)
             /\ \/ q = Len(s) /\ \A k \in stops : k # Len(s) + 1 => s[k] # Quote
                \/ /\ q \in stops /\ q # Len(s) + 1 /\ s[q] = Quote
                   /\ \A k \in stops : k # Len(s) + 1 /\ s[k] = Quote => q <= k
<1> DEFINE ends == EscapeEnds(s)
           stops == Stops(ends, j)
           quotes == {k \in stops \cap DOMAIN s : s[k] = Quote}
<1>1. Len(s) \in Nat /\ DOMAIN s = 1..Len(s)
  OBVIOUS
<1>2. Jumps(ends) /\ Len(ends) = Len(s)
  <2>1. \A k \in 1..Len(s) : ends[k] \in k..Len(s)
    BY <1>1 DEF EscapeEnds
  <2>2. ends \in Seq(Nat) /\ Len(ends) = Len(s)
    BY <1>1 DEF EscapeEnds
  <2> QED
    BY <2>1, <2>2 DEF Jumps
<1>3. stops \subseteq j..(Len(s) + 1)
  <2> HIDE DEF ends
  <2> QED
    BY <1>2, StopsFacts
<1>4. QuoteEnd(s, j) = IF quotes = {} THEN Len(s) ELSE Min(quotes)
  BY DEF QuoteEnd, Quotes, EscapeEnds
<1> HIDE DEF stops, ends
<1>5. \A k \in stops : k # Len(s) + 1 => k \in DOMAIN s
  BY <1>1, <1>3
<1>6. quotes # {} => Min(quotes) \in quotes /\ \A k \in quotes : Min(quotes) <= k
  <2>1. quotes \subseteq Nat
    BY <1>1
  <2> HIDE DEF quotes
  <2> QED
    BY <2>1, MinFacts
<1>7. ASSUME quotes = {} PROVE QuoteEnd(s, j) = Len(s) /\ \A k \in stops : k # Len(s) + 1 => s[k] # Quote
  BY <1>4, <1>5, <1>7
<1>8. ASSUME quotes # {}
      PROVE  LET q == QuoteEnd(s, j)
             IN  /\ q \in stops /\ q # Len(s) + 1 /\ s[q] = Quote
                 /\ \A k \in stops : k # Len(s) + 1 /\ s[k] = Quote => q <= k
  <2>1. QuoteEnd(s, j) \in quotes /\ \A k \in quotes : QuoteEnd(s, j) <= k
    BY <1>4, <1>6, <1>8
  <2> HIDE DEF quotes
  <2>2. \A k : k \in quotes <=> k \in stops /\ k \in DOMAIN s /\ s[k] = Quote
    BY DEF quotes
  <2> QED
    BY <1>1, <1>5, <2>1, <2>2
<1> QED
  BY <1>2, <1>7, <1>8 DEF stops, ends

LEMMA LineEndFacts ==
  ASSUME NEW s \in Seq(Char), NEW i \in 1..Len(s), Starts(s, <<"/", "/">>, i)
  PROVE  LET e == LineEnd(s, i)
         IN  /\ e \in (i+1)..Len(s)
             /\ \A j \in i..e : s[j] # Newline
             /\ e < Len(s) => s[e+1] = Newline
<1>1. Len(s) \in Nat /\ i \in Nat \ {0}
  OBVIOUS
<1>2. i < Len(s) /\ s[i] = "/" /\ s[i+1] = "/"
  BY <1>1, StartsTwo
<1> DEFINE f == Find(s, <<Newline>>, i)
<1>3. /\ f = 0 \/ f \in i..Len(s)
      /\ f # 0 => Starts(s, <<Newline>>, f)
      /\ \A j \in i..Len(s) : Starts(s, <<Newline>>, j) => f # 0 /\ f <= j
  BY <1>1, FindFacts
<1>4. \A j \in i..Len(s) : Starts(s, <<Newline>>, j) <=> s[j] = Newline
  BY <1>1, StartsOne
<1>5. LineEnd(s, i) = (IF f = 0 THEN Len(s) + 1 ELSE f) - 1
  BY DEF LineEnd, Or
<1> HIDE DEF f
<1>6. f # i /\ f # i + 1
  BY <1>1, <1>2, <1>3, <1>4 DEF Newline
<1> QED
  BY <1>1, <1>2, <1>3, <1>4, <1>5, <1>6

LEMMA BlockEndFacts ==
  ASSUME NEW s \in Seq(Char), NEW i \in 1..Len(s), Starts(s, <<"/", "*">>, i)
  PROVE  LET e == BlockEnd(s, i)
             Ends(j) == j < Len(s) /\ s[j] = "*" /\ s[j+1] = "/"
         IN  /\ e \in (i+1)..Len(s)
             /\ \/ e = Len(s) /\ \A j \in (i+2)..Len(s) : ~Ends(j)
                \/ e - 1 \in (i+2)..Len(s) /\ Ends(e - 1) /\ \A j \in (i+2)..(e-2) : ~Ends(j)
<1> DEFINE Ends(j) == j < Len(s) /\ s[j] = "*" /\ s[j+1] = "/"
           f == Find(s, <<"*", "/">>, i + 2)
<1>1. Len(s) \in Nat /\ i \in Nat \ {0} /\ i + 2 \in Nat \ {0}
  OBVIOUS
<1>2. i < Len(s)
  BY <1>1, StartsTwo
<1>3. /\ f = 0 \/ f \in (i+2)..Len(s)
      /\ f # 0 => Starts(s, <<"*", "/">>, f)
      /\ \A j \in (i+2)..Len(s) : Starts(s, <<"*", "/">>, j) => f # 0 /\ f <= j
  BY <1>1, FindFacts
<1>4. \A j \in (i+2)..Len(s) : Starts(s, <<"*", "/">>, j) <=> Ends(j)
  BY <1>1, StartsTwo
<1>5. BlockEnd(s, i) = (IF f = 0 THEN Len(s) - 1 ELSE f) + 1
  BY DEF BlockEnd, Or
<1> HIDE DEF f
<1>6. CASE f = 0
  <2>1. BlockEnd(s, i) = Len(s)
    BY <1>1, <1>5, <1>6
  <2>2. \A j \in (i+2)..Len(s) : ~Ends(j)
    BY <1>3, <1>4, <1>6
  <2> QED
    BY <1>1, <1>2, <2>1, <2>2
<1>7. CASE f # 0
  <2>1. f \in (i+2)..Len(s) /\ Ends(f) /\ BlockEnd(s, i) = f + 1
    BY <1>3, <1>4, <1>5, <1>7
  <2>2. ASSUME NEW j \in (i+2)..(f-1) PROVE ~Ends(j)
    <3>1. j \in (i+2)..Len(s) /\ ~(f <= j)
      BY <2>1
    <3> QED
      BY <1>3, <1>4, <3>1
  <2>3. (f + 1) - 1 = f /\ (f + 1) - 2 = f - 1 /\ f + 1 \in (i+1)..Len(s)
    BY <1>1, <2>1
  <2> HIDE DEF Ends
  <2>4. BlockEnd(s, i) - 1 = f /\ BlockEnd(s, i) - 2 = f - 1
    BY <2>1, <2>3
  <2>5. BlockEnd(s, i) \in (i+1)..Len(s)
    BY <2>1, <2>3
  <2>6. BlockEnd(s, i) - 1 \in (i+2)..Len(s) /\ Ends(BlockEnd(s, i) - 1)
    BY <2>1, <2>4
  <2>7. \A j \in (i+2)..(BlockEnd(s, i) - 2) : ~Ends(j)
    BY <2>2, <2>4
  <2> QED
    BY <2>5, <2>6, <2>7 DEF Ends
<1> QED
  BY <1>6, <1>7

TokenEnds(s) == [k \in DOMAIN s |-> TokenEnd(s, k)]

LEMMA TokenEndFacts ==
  ASSUME NEW s \in Seq(Char)
  PROVE  /\ \A i \in 1..Len(s) : TokenEnd(s, i) \in i..Len(s)
         /\ Jumps(TokenEnds(s)) /\ Len(TokenEnds(s)) = Len(s)
         /\ \A i \in 1..Len(s) : TokenEnds(s)[i] = TokenEnd(s, i)
<1>1. ASSUME NEW i \in 1..Len(s) PROVE TokenEnd(s, i) \in i..Len(s)
  <2>1. CASE Starts(s, <<"/", "/">>, i)
    BY <2>1, LineEndFacts DEF TokenEnd
  <2>2. CASE ~Starts(s, <<"/", "/">>, i) /\ Starts(s, <<"/", "*">>, i)
    BY <2>2, BlockEndFacts DEF TokenEnd
  <2>3. CASE /\ ~Starts(s, <<"/", "/">>, i) /\ ~Starts(s, <<"/", "*">>, i)
             /\ s[i] = Quote
    <3>1. i + 1 \in 1..(Len(s) + 1) /\ Len(s) \in Nat
      OBVIOUS
    <3>2. Stops(EscapeEnds(s), i + 1) \subseteq (i+1)..(Len(s) + 1)
      BY <3>1, QuoteEndFacts, StopsFacts
    <3>3. QuoteEnd(s, i + 1) \in i..Len(s)
      BY <3>1, <3>2, QuoteEndFacts
    <3> QED
      BY <2>3, <3>3 DEF TokenEnd
  <2>4. CASE /\ ~Starts(s, <<"/", "/">>, i) /\ ~Starts(s, <<"/", "*">>, i)
             /\ s[i] # Quote
    <3>1. TokenEnd(s, i) = IF RawEnd(s, i) = 0 THEN i ELSE RawEnd(s, i)
      BY <2>4 DEF TokenEnd, Or
    <3>2. CASE RawEnd(s, i) = 0
      BY <3>1, <3>2
    <3>3. CASE RawEnd(s, i) # 0
      <4>1. PICK n \in Nat, f \in Nat : RawAt(s, i, n, f) /\ RawEnd(s, i) = f + n
        BY <3>3, RawEndFacts
      <4>2. f + n \in i..Len(s)
        BY <4>1 DEF RawAt, Closes
      <4> QED
        BY <3>1, <3>3, <4>1, <4>2
    <3> QED
      BY <3>2, <3>3
  <2> QED
    BY <2>1, <2>2, <2>3, <2>4
<1>2. DOMAIN s = 1..Len(s) /\ Len(s) \in Nat
  OBVIOUS
<1>3. /\ TokenEnds(s) \in Seq(Nat) /\ Len(TokenEnds(s)) = Len(s)
      /\ \A i \in 1..Len(s) : TokenEnds(s)[i] = TokenEnd(s, i)
  <2>1. \A i \in 1..Len(s) : TokenEnd(s, i) \in Nat
    BY <1>1
  <2> QED
    BY <1>2, <2>1 DEF TokenEnds
<1> QED
  BY <1>1, <1>3 DEF Jumps


-----------------------------------------------------------------------------
(* What the lexer does over one token. *)

CodeLike == {"code", "slash", "r", "word"}

LEMMA AfterIs ==
  ASSUME NEW m, NEW c
  PROVE  /\ m.in = "invalid" => After(m, c) = m
         /\ m.in = "escape" => After(m, c) = Plain("string")
         /\ m.in = "string" => After(m, c) = InString(c)
         /\ m.in = "line" => After(m, c) = IF c = Newline THEN Plain("code") ELSE m
         /\ m.in \in {"block", "star"} => After(m, c) = InBlock(c, m.in = "star")
         /\ m.in \in {"raw", "close"} => After(m, c) = InRaw(m, c)
         /\ m.in \in CodeLike => After(m, c) = InCode(m, c)
BY DEF After, CodeLike

LEMMA NeverInvalid ==
  ASSUME NEW s \in Seq(Char), Lexes(s)
  PROVE  \A i \in 1..(Len(s) + 1) : Modes(s)[i].in # "invalid"
<1> DEFINE M == Modes(s)
           N == Len(s) + 1
           P == {i \in 1..N : M[i].in # "invalid"}
<1>1. \A i \in 1..Len(s) : M[i+1] = After(M[i], s[i])
  BY ModesFacts
<1>2. M[N].in # "invalid"
  BY DEF Lexes
<1>3. Len(s) \in Nat /\ N \in Nat
  OBVIOUS
<1> HIDE DEF M
<1>4. ASSUME NEW i \in 1..N, \A j \in (i+1)..N : j \in P
      PROVE  i \in P
  <2>1. CASE i = N
    BY <1>2, <2>1
  <2>2. CASE i # N
    <3>1. i \in 1..Len(s) /\ i + 1 \in (i+1)..N
      BY <1>3, <2>2
    <3>2. M[i+1].in # "invalid" /\ M[i+1] = After(M[i], s[i])
      BY <1>1, <1>4, <3>1
    <3>3. M[i].in # "invalid"
      BY <3>2, AfterIs
    <3> QED
      BY <3>3
  <2> QED
    BY <2>1, <2>2
<1>5. 1..N \subseteq P
  <2> HIDE DEF P, N
  <2> QED
    BY <1>3, <1>4, Downwards
<1> QED
  BY <1>5 DEF M

LEMMA StringToken ==
  ASSUME NEW s \in Seq(Char), Lexes(s), NEW i \in 1..Len(s), Modes(s)[i+1] = Plain("string")
  PROVE  LET e == QuoteEnd(s, i + 1)
         IN  /\ e \in (i+1)..Len(s)
             /\ Modes(s)[e+1] = Plain("code")
             /\ \A j \in (i+1)..e : Modes(s)[j].in \in {"string", "escape"}
<1> DEFINE M == Modes(s)
           N == Len(s)
           ends == EscapeEnds(s)
           stops == Stops(ends, i + 1)
           q == QuoteEnd(s, i + 1)
           Past(j) == \E k \in stops : k < j /\ k # N + 1 /\ s[k] = Quote
           P == {j \in Nat : M[j].in = "string" \/ (j = N + 1 /\ M[j].in = "escape") \/ Past(j)}
<1>1. N \in Nat /\ i + 1 \in 1..(N + 1) /\ i \in Nat
  OBVIOUS
<1>2. /\ Jumps(ends) /\ Len(ends) = N
      /\ \/ q = N /\ \A k \in stops : k # N + 1 => s[k] # Quote
         \/ /\ q \in stops /\ q # N + 1 /\ s[q] = Quote
            /\ \A k \in stops : k # N + 1 /\ s[k] = Quote => q <= k
  BY <1>1, QuoteEndFacts
<1>3. /\ stops \subseteq (i+1)..(N + 1) /\ N + 1 \in stops
      /\ \A j \in ((i+1)..(N + 1)) \ stops : \E k \in stops : k # N + 1 /\ j \in (k+1)..ends[k]
  <2> HIDE DEF ends
  <2> QED
    BY <1>1, <1>2, StopsFacts
<1>4. \A k \in 1..N : M[k+1] = After(M[k], s[k])
  BY ModesFacts
<1>5. M[N+1].in \notin {"string", "escape"} /\ M[i+1].in = "string"
  BY PlainType DEF Lexes
<1>6. \A k \in 1..N : ends[k] = IF s[k] = "\\" /\ k < N THEN k + 1 ELSE k
  BY <1>1 DEF EscapeEnds
<1>7. stops \subseteq P
  <2>1. i + 1 \in P
    BY <1>1, <1>5
  <2> HIDE DEF M
  <2>2. ASSUME NEW k \in P \cap stops, k # N + 1 PROVE ends[k] + 1 \in P
    <3>1. k \in 1..N /\ ends[k] \in k..N
      BY <1>1, <1>2, <1>3, <2>2 DEF Jumps
    <3>2. CASE Past(k)
      <4>1. ends[k] + 1 \in Nat /\ Past(ends[k] + 1)
        BY <1>3, <3>1, <3>2
      <4> QED
        BY <4>1
    <3>3. CASE s[k] = Quote
      <4>1. ends[k] + 1 \in Nat /\ Past(ends[k] + 1)
        BY <2>2, <3>1, <3>3
      <4> QED
        BY <4>1
    <3>4. CASE ~Past(k) /\ s[k] # Quote
      <4>1. M[k].in = "string"
        BY <2>2, <3>4
      <4>2. M[k+1] = InString(s[k])
        BY <1>4, <3>1, <4>1, AfterIs
      <4>3. CASE s[k] # "\\"
        <5>1. ends[k] = k /\ M[k+1].in = "string" /\ k + 1 \in Nat
          BY <1>6, <3>1, <3>4, <4>2, <4>3, PlainType DEF InString
        <5> QED
          BY <5>1
      <4>4. CASE s[k] = "\\"
        <5>1. M[k+1].in = "escape"
          BY <4>2, <4>4, PlainType DEF InString
        <5>2. CASE k = N
          <6>1. ends[k] + 1 = N + 1 /\ N + 1 \in Nat
            BY <1>1, <1>6, <3>1, <5>2
          <6> QED
            BY <5>1, <5>2, <6>1
        <5>3. CASE k # N
          <6>1. ends[k] = k + 1 /\ k + 1 \in 1..N /\ k + 2 \in Nat /\ (k + 1) + 1 = k + 2
            BY <1>6, <3>1, <4>4, <5>3
          <6>2. M[k+2].in = "string"
            BY <1>4, <5>1, <6>1, AfterIs, PlainType
          <6> QED
            BY <6>1, <6>2
        <5> QED
          BY <5>2, <5>3
      <4> QED
        BY <4>3, <4>4
    <3> QED
      BY <3>2, <3>3, <3>4
  <2> HIDE DEF P, ends, N
  <2> QED
    BY <1>1, <1>2, <2>1, <2>2, StopsInduction
<1>8. Past(N + 1)
  BY <1>3, <1>5, <1>7
<1>9. /\ q \in stops /\ q # N + 1 /\ s[q] = Quote
      /\ \A k \in stops : k # N + 1 /\ s[k] = Quote => q <= k
  BY <1>2, <1>8
<1>10. q \in (i+1)..N
  BY <1>1, <1>3, <1>9
<1>11. ASSUME NEW j \in stops, j <= q PROVE M[j].in = "string"
  <2>1. j \in P /\ j \in (i+1)..N
    BY <1>1, <1>3, <1>7, <1>10, <1>11
  <2>2. ~Past(j)
    <3> SUFFICES ASSUME NEW k \in stops, k < j, k # N + 1, s[k] = Quote PROVE FALSE
      OBVIOUS
    <3>1. q <= k /\ k \in Int /\ j \in Int /\ q \in Int
      BY <1>3, <1>9, <1>10, <2>1
    <3> QED
      BY <1>11, <3>1
  <2> QED
    BY <1>1, <2>1, <2>2
<1>12. M[q+1] = Plain("code")
  <2>1. M[q].in = "string" /\ q \in 1..N
    BY <1>1, <1>9, <1>10, <1>11
  <2>2. M[q+1] = InString(s[q])
    BY <1>4, <2>1, AfterIs
  <2> QED
    BY <1>9, <2>2 DEF InString, Quote
<1>13. ASSUME NEW j \in (i+1)..q PROVE M[j].in \in {"string", "escape"}
  <2>1. CASE j \in stops
    BY <1>10, <1>11, <1>13, <2>1
  <2>2. CASE j \notin stops
    <3>1. j \in ((i+1)..(N + 1)) \ stops
      BY <1>1, <1>10, <2>2
    <3>2. PICK k \in stops : k # N + 1 /\ j \in (k+1)..ends[k]
      BY <1>3, <3>1
    <3>3. k \in 1..N
      BY <1>1, <1>3, <3>2
    <3>4. s[k] = "\\" /\ j = k + 1 /\ k <= q
      BY <1>6, <1>10, <3>2, <3>3
    <3>5. M[k].in = "string"
      BY <1>11, <3>4
    <3>6. M[k+1] = InString(s[k])
      BY <1>4, <3>3, <3>5, AfterIs
    <3> HIDE DEF M
    <3> QED
      BY <3>4, <3>6, PlainType DEF InString
  <2> QED
    BY <2>1, <2>2
<1> QED
  BY <1>10, <1>12, <1>13


\* What holds at a and goes from each position before b to the next holds up to b.
LEMMA Upto ==
  ASSUME NEW a \in Nat, NEW b \in Nat, NEW P, a <= b => a \in P,
         \A j \in a..(b-1) : j \in P => j + 1 \in P
  PROVE  a..b \subseteq P
<1> DEFINE Odd == (a..b) \ P
<1> SUFFICES ASSUME Odd # {} PROVE FALSE
  OBVIOUS
<1>1. PICK j \in Odd : \A k \in Odd : j <= k
  <2>1. Odd \subseteq Nat
    OBVIOUS
  <2> HIDE DEF Odd
  <2> QED
    BY <2>1, LeastNat
<1>2. j \in a..b /\ j \notin P /\ j # a
  BY <1>1
<1>3. j - 1 \in a..(b-1) /\ j - 1 \in a..b /\ (j - 1) + 1 = j /\ ~(j <= j - 1)
  BY <1>2
<1>4. j - 1 \in P
  BY <1>1, <1>3
<1> QED
  BY <1>2, <1>3, <1>4

LEMMA LineToken ==
  ASSUME NEW s \in Seq(Char), NEW i \in 1..Len(s), Starts(s, <<"/", "/">>, i),
         Modes(s)[i+2] = Plain("line")
  PROVE  LET e == LineEnd(s, i)
         IN  /\ e \in (i+1)..Len(s)
             /\ e < Len(s) => s[e+1] = Newline
             /\ \A j \in (i+2)..(e+1) : Modes(s)[j] = Plain("line")
<1> DEFINE M == Modes(s)
           e == LineEnd(s, i)
           P == {j \in Nat : M[j] = Plain("line")}
<1>1. /\ e \in (i+1)..Len(s)
      /\ \A j \in i..e : s[j] # Newline
      /\ e < Len(s) => s[e+1] = Newline
  BY LineEndFacts
<1>2. \A j \in 1..Len(s) : M[j+1] = After(M[j], s[j])
  BY ModesFacts
<1> HIDE DEF M, e
<1>3. i + 2 \in P /\ i + 2 \in Nat /\ e + 1 \in Nat
  BY <1>1 DEF M
<1>4. ASSUME NEW j \in (i+2)..((e+1)-1), j \in P PROVE j + 1 \in P
  <2>1. j \in 1..Len(s) /\ j \in i..e /\ j + 1 \in Nat
    BY <1>1
  <2>2. M[j+1] = M[j]
    BY <1>1, <1>2, <1>4, <2>1, AfterIs, PlainType
  <2> QED
    BY <1>4, <2>1, <2>2
<1>5. (i+2)..(e+1) \subseteq P
  <2> HIDE DEF P
  <2> QED
    BY <1>3, <1>4, Upto
<1> QED
  BY <1>1, <1>5 DEF M, e

LEMMA BlockToken ==
  ASSUME NEW s \in Seq(Char), Lexes(s), NEW i \in 1..Len(s), Starts(s, <<"/", "*">>, i),
         Modes(s)[i+2] = Plain("block")
  PROVE  LET e == BlockEnd(s, i)
         IN  /\ e \in (i+1)..Len(s)
             /\ Modes(s)[e+1] = Plain("code")
             /\ \A j \in (i+2)..e : Modes(s)[j].in \in {"block", "star"}
<1> DEFINE M == Modes(s)
           e == BlockEnd(s, i)
           Ends(j) == j < Len(s) /\ s[j] = "*" /\ s[j+1] = "/"
           P == {j \in Nat : \/ M[j].in = "block"
                             \/ M[j].in = "star" /\ j > i + 2 /\ s[j-1] = "*"}
<1>1. /\ e \in (i+1)..Len(s)
      /\ \/ e = Len(s) /\ \A j \in (i+2)..Len(s) : ~Ends(j)
         \/ e - 1 \in (i+2)..Len(s) /\ Ends(e - 1) /\ \A j \in (i+2)..(e-2) : ~Ends(j)
  BY BlockEndFacts
<1>2. \A j \in 1..Len(s) : M[j+1] = After(M[j], s[j])
  BY ModesFacts
<1>3. M[Len(s)+1].in \notin {"block", "star"} /\ M[i+2].in = "block" /\ Len(s) \in Nat
  BY PlainType DEF Lexes
<1> HIDE DEF M, e
<1>4. i + 2 \in P /\ i + 2 \in Nat /\ e \in Nat
  BY <1>1, <1>3
\* From one position to the next, unless the comment ends there.
<1>5. ASSUME NEW j \in (i+2)..Len(s), j \in P, j > i + 2 => ~Ends(j - 1)
      PROVE  j + 1 \in P
  <2>1. j \in 1..Len(s) /\ j + 1 \in Nat /\ j + 1 > i + 2 /\ (j + 1) - 1 = j
    OBVIOUS
  <2>2. M[j+1] = InBlock(s[j], M[j].in = "star")
    BY <1>2, <1>5, <2>1, AfterIs
  <2>3. CASE s[j] = "*"
    <3>1. M[j+1].in = "star"
      BY <2>2, <2>3, PlainType DEF InBlock
    <3> QED
      BY <2>1, <2>3, <3>1
  <2>4. CASE s[j] # "*"
    <3>1. ~(s[j] = "/" /\ M[j].in = "star")
      <4> SUFFICES ASSUME s[j] = "/", M[j].in = "star" PROVE FALSE
        OBVIOUS
      <4>1. j > i + 2 /\ s[j-1] = "*"
        BY <1>5
      <4>2. Ends(j - 1)
        BY <2>1, <4>1
      <4> QED
        BY <1>5, <4>1, <4>2
    <3>2. M[j+1].in = "block"
      BY <2>2, <2>4, <3>1, PlainType DEF InBlock
    <3> QED
      BY <2>1, <3>2
  <2> QED
    BY <2>3, <2>4
<1>6. CASE e = Len(s) /\ \A j \in (i+2)..Len(s) : ~Ends(j)
  <2>0. CASE i + 2 <= Len(s) + 1
    <3>1. ASSUME NEW j \in (i+2)..((Len(s)+1)-1), j \in P PROVE j + 1 \in P
      <4>1. j \in (i+2)..Len(s)
        BY <1>3
      <4>2. j > i + 2 => j - 1 \in (i+2)..Len(s)
        BY <1>3, <4>1
      <4> QED
        BY <1>5, <1>6, <3>1, <4>1, <4>2
    <3> DEFINE N == Len(s) + 1
    <3>2. (i+2)..N \subseteq P
      <4>1. N \in Nat /\ \A j \in (i+2)..(N-1) : j \in P => j + 1 \in P
        BY <1>3, <3>1
      <4>2. i + 2 <= N => i + 2 \in P
        BY <1>4
      <4> HIDE DEF P, N
      <4> QED
        BY <1>4, <4>1, <4>2, Upto
    <3>3. Len(s) + 1 \in P
      BY <1>3, <2>0, <3>2
    <3> QED
      BY <1>3, <3>3
  <2> QED
    BY <1>1, <1>3, <2>0
<1>7. CASE e - 1 \in (i+2)..Len(s) /\ Ends(e - 1) /\ \A j \in (i+2)..(e-2) : ~Ends(j)
  <2>1. ASSUME NEW j \in (i+2)..(e-1), j \in P PROVE j + 1 \in P
    <3>1. j \in (i+2)..Len(s)
      BY <1>1
    <3>2. j > i + 2 => j - 1 \in (i+2)..(e-2)
      BY <1>1, <3>1
    <3> QED
      BY <1>5, <1>7, <2>1, <3>1, <3>2
  <2>2. (i+2)..e \subseteq P
    <3> HIDE DEF P
    <3> QED
      BY <1>4, <2>1, Upto
  <2>3. e - 1 \in 1..Len(s) /\ e - 1 \in (i+2)..e /\ e \in 1..Len(s)
    BY <1>1, <1>7
  <2>4. M[e-1].in \in {"block", "star"}
    BY <2>2, <2>3
  <2>5. s[e-1] = "*" /\ s[e] = "/" /\ (e - 1) + 1 = e
    BY <1>7, <2>3
  <2>6. M[e].in = "star"
    <3>1. M[(e-1)+1] = InBlock(s[e-1], M[e-1].in = "star")
      BY <1>2, <2>3, <2>4, AfterIs
    <3> QED
      BY <2>5, <3>1, PlainType DEF InBlock
  <2>7. M[e+1] = Plain("code")
    <3>1. M[e+1] = InBlock(s[e], TRUE)
      BY <1>2, <2>3, <2>6, AfterIs
    <3> QED
      BY <2>5, <3>1 DEF InBlock
  <2> QED
    BY <1>1, <2>2, <2>7 DEF M, e
<1> QED
  BY <1>1, <1>6, <1>7

\* Inside of a raw string, with k hashes read of those that may close it.
InRawAt(s, b, n, j) ==
    LET m == Modes(s)[j]
    IN  /\ m.n = n
        /\ \/ m.in = "raw"
           \/ /\ m.in = "close" /\ m.k \in Nat /\ m.k < n
              /\ j - 1 - m.k >= b /\ s[j-1-m.k] = Quote
              /\ \A h \in 1..m.k : s[j-1-m.k+h] = "#"

LEMMA RawStep ==
  ASSUME NEW s \in Seq(Char), NEW n \in Nat, NEW b \in Nat \ {0}, NEW j \in b..Len(s),
         InRawAt(s, b, n, j),
         \A f \in b..j : ~(Closes(s, n, f) /\ f + n <= j)
  PROVE  InRawAt(s, b, n, j + 1)
<1> DEFINE m == Modes(s)[j]
           c == s[j]
<1>1. j \in 1..Len(s) /\ Modes(s)[j+1] = After(m, c)
  BY ModesFacts
<1>2. Modes(s)[j+1] = InRaw(m, c) /\ m.n = n
  BY <1>1, AfterIs DEF InRawAt
<1>3. "#" # Quote
  BY DEF Quote
<1>4. CASE c = Quote
  <2>1. n # 0
    <3> SUFFICES ASSUME n = 0 PROVE FALSE
      OBVIOUS
    <3>1. j \in b..j /\ j + n <= j
      BY <1>1
    <3>2. Closes(s, n, j)
      BY <1>1, <1>4 DEF Closes
    <3> QED
      BY <3>1, <3>2
  <2>2. Modes(s)[j+1] = Mode("close", n, 0)
    BY <1>2, <1>4, <2>1 DEF InRaw
  <2>3. Modes(s)[j+1].in = "close" /\ Modes(s)[j+1].n = n /\ Modes(s)[j+1].k = 0
    BY <2>2, PlainType
  <2>4. j + 1 - 1 - 0 = j /\ 1..0 = {}
    BY <1>1
  <2> QED
    BY <1>4, <2>1, <2>3, <2>4 DEF InRawAt
<1>5. CASE c = "#" /\ m.in = "close"
  <2> DEFINE k == m.k
             f == j - 1 - k
  <2>1. k \in Nat /\ k < n /\ f >= b /\ s[f] = Quote /\ \A h \in 1..k : s[f+h] = "#"
    BY <1>5 DEF InRawAt
  <2> HIDE DEF k
  <2>2. f + (k + 1) = j /\ f \in b..j /\ f \in Nat \ {0}
    BY <1>1, <2>1
  <2>3. \A h \in 1..(k+1) : s[f+h] = "#"
    <3> SUFFICES ASSUME NEW h \in 1..(k+1) PROVE s[f+h] = "#"
      OBVIOUS
    <3>1. CASE h = k + 1
      BY <1>5, <2>2, <3>1
    <3>2. CASE h # k + 1
      <4>1. h \in 1..k
        BY <2>1, <3>2
      <4> QED
        BY <2>1, <4>1
    <3> QED
      BY <3>1, <3>2
  <2>4. k + 1 # n
    <3> SUFFICES ASSUME k + 1 = n PROVE FALSE
      OBVIOUS
    <3>1. f + n = j /\ f + n <= j /\ f + n <= Len(s)
      BY <1>1, <2>2
    <3>2. Closes(s, n, f)
      BY <2>1, <2>3, <3>1 DEF Closes
    <3> QED
      BY <2>2, <3>1, <3>2
  <2>5. Modes(s)[j+1] = Mode("close", n, k + 1)
    BY <1>2, <1>3, <1>5, <2>4 DEF InRaw, k
  <2>6. Modes(s)[j+1].in = "close" /\ Modes(s)[j+1].n = n /\ Modes(s)[j+1].k = k + 1
    BY <2>5, PlainType
  <2>7. j + 1 - 1 - (k + 1) = f /\ k + 1 \in Nat /\ k + 1 < n
    BY <1>1, <2>1, <2>4
  <2> DEFINE m1 == Modes(s)[j+1]
  <2> HIDE DEF f, m1
  <2>8. m1.in = "close" /\ m1.n = n /\ m1.k = k + 1
    BY <2>6 DEF m1
  <2>9. (j + 1) - 1 - m1.k = f /\ m1.k \in Nat /\ m1.k < n
    BY <2>7, <2>8
  <2>10. f >= b /\ s[f] = Quote /\ \A h \in 1..m1.k : s[f+h] = "#"
    BY <2>1, <2>3, <2>8
  <2>11. /\ (j + 1) - 1 - m1.k >= b /\ s[(j + 1) - 1 - m1.k] = Quote
         /\ \A h \in 1..m1.k : s[(j + 1) - 1 - m1.k + h] = "#"
    BY <2>9, <2>10
  <2> QED
    BY <2>8, <2>9, <2>11 DEF InRawAt, m1
<1>6. CASE c # Quote /\ ~(c = "#" /\ m.in = "close")
  <2>1. Modes(s)[j+1] = Mode("raw", n, 0)
    BY <1>2, <1>6 DEF InRaw
  <2> QED
    BY <2>1, PlainType DEF InRawAt
<1> QED
  BY <1>4, <1>5, <1>6

LEMMA RawStays ==
  ASSUME NEW s \in Seq(Char), NEW n \in Nat, NEW b \in Nat \ {0}, NEW t \in b..(Len(s) + 1),
         Modes(s)[b] = Mode("raw", n, 0),
         \A f \in b..(t-1) : ~(Closes(s, n, f) /\ f + n < t)
  PROVE  \A j \in b..t : InRawAt(s, b, n, j)
<1> DEFINE P == {j \in Nat : InRawAt(s, b, n, j)}
<1>1. b \in P /\ b \in Nat /\ t \in Nat
  BY PlainType DEF InRawAt
<1>2. ASSUME NEW j \in b..(t-1), j \in P PROVE j + 1 \in P
  <2>1. j \in b..Len(s) /\ j + 1 \in Nat /\ InRawAt(s, b, n, j)
    BY <1>2
  <2>2. \A f \in b..j : f \in b..(t-1) /\ (f + n <= j => f + n < t)
    BY <2>1
  <2>3. \A f \in b..j : ~(Closes(s, n, f) /\ f + n <= j)
    <3> HIDE DEF P
    <3> QED
      BY <2>2
  <2>4. InRawAt(s, b, n, j + 1)
    <3> HIDE DEF P
    <3> QED
      BY <2>1, <2>3, RawStep
  <2> QED
    BY <2>1, <2>4
<1>3. b..t \subseteq P
  <2> HIDE DEF P
  <2> QED
    BY <1>1, <1>2, Upto
<1> QED
  BY <1>3


LEMMA HashRun ==
  ASSUME NEW s \in Seq(Char), NEW i \in 1..Len(s), NEW n \in Nat, i + n <= Len(s),
         Modes(s)[i+1] = Plain("r"), \A h \in 1..n : s[i+h] = "#"
  PROVE  \A h \in 0..n : Modes(s)[i+1+h] = Mode("r", h, 0)
<1> DEFINE P == {h \in Nat : Modes(s)[i+1+h] = Mode("r", h, 0)}
<1>1. 0 \in P /\ 0 \in Nat
  BY DEF Plain
<1>2. ASSUME NEW h \in 0..(n-1), h \in P PROVE h + 1 \in P
  <2>1. i + 1 + h \in 1..Len(s) /\ h + 1 \in 1..n /\ i + 1 + h = i + (h + 1) /\ h \in Nat
    OBVIOUS
  <2> DEFINE m == Modes(s)[i+1+h]
  <2>2. m = Mode("r", h, 0)
    BY <1>2
  <2>3. m.in = "r" /\ m.n = h
    BY <2>2, PlainType
  <2>4. s[i+1+h] = "#"
    BY <2>1
  <2>5. Modes(s)[(i+1+h)+1] = After(m, s[i+1+h])
    BY <2>1, ModesFacts
  <2> HIDE DEF m
  <2>6. Modes(s)[(i+1+h)+1] = InCode(m, "#")
    BY <2>3, <2>4, <2>5, AfterIs DEF CodeLike
  <2>7. InCode(m, "#") = Mode("r", h + 1, 0)
    BY <2>3 DEF InCode, Quote
  <2>8. (i+1+h)+1 = i+1+(h+1)
    OBVIOUS
  <2> QED
    BY <2>1, <2>6, <2>7, <2>8
<1>3. 0..n \subseteq P
  <2> HIDE DEF P
  <2> QED
    BY <1>1, <1>2, Upto
<1> QED
  BY <1>3

LEMMA RawUnclosed ==
  ASSUME NEW s \in Seq(Char), NEW n \in Nat, NEW b \in 1..(Len(s) + 1),
         Modes(s)[b] = Mode("raw", n, 0),
         \A f \in b..Len(s) : ~Closes(s, n, f)
  PROVE  ~Lexes(s)
<1> DEFINE t == Len(s) + 1
<1>1. t \in b..(Len(s) + 1) /\ b \in Nat \ {0} /\ t - 1 = Len(s)
  OBVIOUS
<1>2. \A f \in b..(t-1) : ~(Closes(s, n, f) /\ f + n < t)
  BY <1>1
<1> HIDE DEF t
<1>3. InRawAt(s, b, n, t)
  BY <1>1, <1>2, RawStays
<1> QED
  BY <1>3 DEF Lexes, InRawAt, t

LEMMA RawToken ==
  ASSUME NEW s \in Seq(Char), NEW i \in 1..Len(s), NEW n \in Nat, NEW f \in Nat,
         RawAt(s, i, n, f), Modes(s)[i+1] = Plain("r")
  PROVE  /\ Modes(s)[f+n+1] = Plain("code")
         /\ \A j \in (i+1)..(f+n) : \/ s[j] \in {"#", Quote}
                                    \/ Modes(s)[j].in \in {"raw", "close"}
<1> DEFINE b == i + n + 2
<1>1. /\ b \in 1..(Len(s) + 1) /\ b \in Nat \ {0} /\ b - 1 = i + n + 1 /\ i + n + 1 \in 1..Len(s)
      /\ s[i+n+1] = Quote /\ \A h \in 1..n : s[i+h] = "#"
      /\ f \in b..Len(s) /\ f + n <= Len(s) /\ s[f] = Quote /\ \A h \in 1..n : s[f+h] = "#"
      /\ \A j \in b..(f-1) : ~Closes(s, n, j)
  BY DEF RawAt, Closes
<1>2. Modes(s)[i+n+1] = Mode("r", n, 0)
  <2>1. i + n <= Len(s) /\ n \in 0..n /\ i + 1 + n = i + n + 1
    BY <1>1
  <2>2. \A h \in 0..n : Modes(s)[i+1+h] = Mode("r", h, 0)
    BY <1>1, <2>1, HashRun
  <2> QED
    BY <2>1, <2>2
<1>3. Modes(s)[b] = Mode("raw", n, 0)
  <2> DEFINE m == Modes(s)[i+n+1]
  <2>1. m.in = "r" /\ m.n = n
    BY <1>2, PlainType
  <2>2. Modes(s)[(i+n+1)+1] = After(m, s[i+n+1])
    BY <1>1, ModesFacts
  <2> HIDE DEF m
  <2>3. Modes(s)[(i+n+1)+1] = InCode(m, Quote)
    BY <1>1, <2>1, <2>2, AfterIs DEF CodeLike
  <2>4. InCode(m, Quote) = Mode("raw", n, 0)
    BY <2>1 DEF InCode, Quote
  <2>5. (i+n+1)+1 = b
    OBVIOUS
  <2> QED
    BY <2>3, <2>4, <2>5
<1> HIDE DEF b
<1>4. \A j \in b..f : InRawAt(s, b, n, j)
  <2>1. f \in b..(Len(s) + 1) /\ \A g \in b..(f-1) : ~(Closes(s, n, g) /\ g + n < f)
    BY <1>1
  <2> QED
    BY <1>1, <1>3, <2>1, RawStays
<1>5. /\ n = 0 => Modes(s)[f+1] = Plain("code")
      /\ n > 0 => Modes(s)[f+1] = Mode("close", n, 0)
  <2> DEFINE m == Modes(s)[f]
  <2>1. m.in \in {"raw", "close"} /\ m.n = n
    <3>1. f \in b..f
      BY <1>1
    <3>2. InRawAt(s, b, n, f)
      BY <1>4, <3>1
    <3> QED
      BY <3>2 DEF InRawAt
  <2>2. Modes(s)[f+1] = After(m, s[f])
    <3>1. f \in 1..Len(s)
      BY <1>1
    <3> QED
      BY <3>1, ModesFacts
  <2> HIDE DEF m
  <2>3. Modes(s)[f+1] = InRaw(m, Quote)
    BY <1>1, <2>1, <2>2, AfterIs
  <2> QED
    BY <2>1, <2>3 DEF InRaw
<1>6. n > 0 => \A h \in 0..(n-1) : Modes(s)[f+1+h] = Mode("close", n, h)
  <2> SUFFICES ASSUME n > 0 PROVE \A h \in 0..(n-1) : Modes(s)[f+1+h] = Mode("close", n, h)
    OBVIOUS
  <2> DEFINE P == {h \in Nat : Modes(s)[f+1+h] = Mode("close", n, h)}
             N == n - 1
  <2>1. 0 \in P /\ 0 \in Nat /\ N \in Nat
    <3>1. f + 1 + 0 = f + 1
      OBVIOUS
    <3> QED
      BY <1>5, <3>1
  <2>2. ASSUME NEW h \in 0..(N-1), h \in P PROVE h + 1 \in P
    <3>1. f + 1 + h \in 1..Len(s) /\ h + 1 \in 1..n /\ f + 1 + h = f + (h + 1) /\ h + 1 \in Nat
          /\ h + 1 # n
      BY <1>1
    <3> DEFINE m == Modes(s)[f+1+h]
    <3>2. m = Mode("close", n, h)
      BY <2>2
    <3>3. m.in = "close" /\ m.n = n /\ m.k = h
      BY <3>2, PlainType
    <3>4. s[f+1+h] = "#" /\ "#" # Quote
      BY <1>1, <3>1 DEF Quote
    <3>5. Modes(s)[(f+1+h)+1] = After(m, s[f+1+h])
      BY <3>1, ModesFacts
    <3> HIDE DEF m
    <3>6. Modes(s)[(f+1+h)+1] = InRaw(m, "#")
      BY <3>3, <3>4, <3>5, AfterIs
    <3>7. InRaw(m, "#") = Mode("close", n, h + 1)
      BY <3>1, <3>3, <3>4 DEF InRaw
    <3>8. (f+1+h)+1 = f+1+(h+1)
      OBVIOUS
    <3> QED
      BY <3>1, <3>6, <3>7, <3>8
  <2>3. 0..N \subseteq P
    <3> HIDE DEF P, N
    <3> QED
      BY <2>1, <2>2, Upto
  <2> QED
    BY <2>3
<1>7. Modes(s)[f+n+1] = Plain("code")
  <2>1. CASE n = 0
    <3>1. f + n + 1 = f + 1
      BY <2>1
    <3> QED
      BY <1>5, <2>1, <3>1
  <2>2. CASE n > 0
    <3>1. n - 1 \in 0..(n-1) /\ f + 1 + (n - 1) = f + n /\ f + n \in 1..Len(s) /\ n \in 1..n
      BY <1>1, <2>2
    <3> DEFINE m == Modes(s)[f+n]
    <3>2. m = Mode("close", n, n - 1)
      BY <1>6, <2>2, <3>1
    <3>3. m.in = "close" /\ m.n = n /\ m.k + 1 = n
      <4>1. m.in = "close" /\ m.n = n /\ m.k = n - 1
        BY <3>2, PlainType
      <4> QED
        BY <4>1
    <3>4. s[f+n] = "#" /\ "#" # Quote
      BY <1>1, <3>1 DEF Quote
    <3>5. Modes(s)[f+n+1] = After(m, s[f+n])
      BY <3>1, ModesFacts
    <3> HIDE DEF m
    <3>6. Modes(s)[f+n+1] = InRaw(m, "#")
      BY <3>3, <3>4, <3>5, AfterIs
    <3> QED
      BY <3>3, <3>4, <3>6 DEF InRaw
  <2> QED
    BY <2>1, <2>2
<1>8. ASSUME NEW j \in (i+1)..(f+n)
      PROVE  s[j] \in {"#", Quote} \/ Modes(s)[j].in \in {"raw", "close"}
  <2>1. CASE j <= i + n
    <3>1. j - i \in 1..n /\ i + (j - i) = j
      BY <2>1
    <3> QED
      BY <1>1, <3>1
  <2>2. CASE j = i + n + 1
    BY <1>1, <2>2
  <2>3. CASE j \in b..f
    BY <1>4, <2>3 DEF InRawAt
  <2>4. CASE j > f
    <3>1. j - f \in 1..n /\ f + (j - f) = j
      BY <1>1, <2>4
    <3> QED
      BY <1>1, <3>1
  <2> QED
    BY <1>1, <2>1, <2>2, <2>3, <2>4 DEF b
<1> QED
  BY <1>7, <1>8


-----------------------------------------------------------------------------
(* The lexer at the positions the scanner stops at. *)

\* What mode the lexer may be in where the scanner stops, and why.
Agreed(s, i) ==
    LET m == Modes(s)[i]
    IN  \/ m = Plain("code")
        \/ m.in = "line" /\ (i = Len(s) + 1 \/ s[i] = Newline)
        \/ m = Plain("slash") /\ i - 1 \in Visible(s) /\ s[i-1] = "/"
        \/ m = Plain("word") /\ i - 1 \in Visible(s) /\ s[i-1] \in WordChar
        \/ /\ m.in = "r" /\ m.n \in Nat /\ m.k = 0
           /\ i - 1 - m.n \in Visible(s) /\ s[i-1-m.n] = "r"
           /\ \A h \in 1..m.n : s[i-1-m.n+h] = "#"

\* No macro of the lexer's starts inside of what starts at i.
Hidden(s, i) == \A j \in (i+1)..TokenEnd(s, i) : j \notin Macros(s)

LEMMA VisibleFacts ==
  ASSUME NEW s \in Seq(Char)
  PROVE  /\ Visible(s) \subseteq 1..Len(s)
         /\ \A i : i \in Visible(s) <=> /\ i \in Stops(TokenEnds(s), 1) /\ i \in 1..Len(s)
                                        /\ TokenEnd(s, i) = i
<1>1. DOMAIN s = 1..Len(s)
  OBVIOUS
<1> QED
  BY <1>1 DEF Visible, TokenEnds

LEMMA VisibleAlone ==
  ASSUME NEW s \in Seq(Char), NEW i \in Visible(s)
  PROVE  /\ i \in 1..Len(s)
         /\ s[i] = "/" => ~(i < Len(s) /\ s[i+1] \in {"/", "*"})
         /\ RawEnd(s, i) # 0 => s[i] # "r"
<1>1. i \in 1..Len(s) /\ TokenEnd(s, i) = i /\ i \in Nat \ {0}
  BY VisibleFacts
<1>2. ASSUME s[i] = "/", i < Len(s), s[i+1] = "/" PROVE FALSE
  <2>1. Starts(s, <<"/", "/">>, i)
    BY <1>1, <1>2, StartsTwo
  <2>2. TokenEnd(s, i) \in (i+1)..Len(s)
    BY <1>1, <2>1, LineEndFacts DEF TokenEnd
  <2> QED
    BY <1>1, <2>2
<1>3. ASSUME s[i] = "/", i < Len(s), s[i+1] = "*" PROVE FALSE
  <2>1. Starts(s, <<"/", "*">>, i) /\ ~Starts(s, <<"/", "/">>, i)
    BY <1>1, <1>3, StartsTwo
  <2>2. TokenEnd(s, i) \in (i+1)..Len(s)
    BY <1>1, <2>1, BlockEndFacts DEF TokenEnd
  <2> QED
    BY <1>1, <2>2
<1>4. ASSUME RawEnd(s, i) # 0, s[i] = "r" PROVE FALSE
  <2>1. ~Starts(s, <<"/", "/">>, i) /\ ~Starts(s, <<"/", "*">>, i) /\ s[i] # Quote
    BY <1>1, <1>4, StartsTwo DEF Quote
  <2>2. TokenEnd(s, i) = RawEnd(s, i)
    BY <1>4, <2>1 DEF TokenEnd, Or
  <2>3. PICK n \in Nat, f \in Nat : RawAt(s, i, n, f) /\ RawEnd(s, i) = f + n
    BY <1>1, <1>4, RawEndFacts
  <2>4. f + n > i
    BY <1>1, <2>3 DEF RawAt
  <2> QED
    BY <1>1, <2>2, <2>3, <2>4
<1> QED
  BY <1>1, <1>2, <1>3, <1>4

\* A macro is none of the characters the lexer cares about.
LEMMA MacroChars ==
  ASSUME NEW c \in DOMAIN MacroLevel
  PROVE  c \notin WordChar /\ c \notin Delimiter
BY RustAssumption

LEMMA NotMacro ==
  ASSUME NEW s \in Seq(Char), NEW j,
         \/ s[j] \in WordChar \cup Delimiter
         \/ Modes(s)[j].in \notin {"code", "slash", "r"}
  PROVE  j \notin Macros(s)
BY MacroChars DEF Macros

LEMMA AgreedLine ==
  ASSUME NEW s \in Seq(Char), NEW i \in 1..Len(s), Modes(s)[i].in = "line", s[i] = Newline
  PROVE  Agreed(s, TokenEnd(s, i) + 1) /\ Hidden(s, i)
<1>1. ~Starts(s, <<"/", "/">>, i) /\ ~Starts(s, <<"/", "*">>, i) /\ s[i] # Quote /\ s[i] # "r"
  <2>1. i \in Nat \ {0} /\ Newline # "/" /\ Newline # Quote /\ Newline # "r"
    BY DEF Newline, Quote
  <2> QED
    BY <2>1, StartsTwo
<1>2. RawEnd(s, i) = 0
  BY <1>1 DEF RawEnd
<1>3. TokenEnd(s, i) = i
  BY <1>1, <1>2 DEF TokenEnd, Or
<1>4. Modes(s)[i+1] = Plain("code")
  BY AfterIs, ModesFacts
<1> QED
  BY <1>3, <1>4 DEF Agreed, Hidden

\* The modes in which characters are read as code, where the scanner stops.
LEMMA AgreedCode ==
  ASSUME NEW s \in Seq(Char), Lexes(s), NEW i \in 1..Len(s), Agreed(s, i),
         ~(Modes(s)[i].in = "line" /\ s[i] = Newline)
  PROVE  LET m == Modes(s)[i]
         IN  /\ m.in \in CodeLike
             /\ Modes(s)[i+1] = InCode(m, s[i])
             /\ s[i] # "'" /\ (s[i] \in {Quote, "#"} => m.in # "word")
             /\ s[i] \in {"/", "*"} => m.in # "slash"
<1> DEFINE m == Modes(s)[i]
<1>1. m.in \in CodeLike
  BY PlainType DEF Agreed, CodeLike
<1>2. Modes(s)[i+1] = InCode(m, s[i])
  BY <1>1, AfterIs, ModesFacts
<1>3. Modes(s)[i+1].in # "invalid"
  BY NeverInvalid
<1>4. s[i] # "'" /\ (s[i] \in {Quote, "#"} => m.in # "word")
  BY <1>2, <1>3, PlainType DEF InCode
<1>5. ASSUME m.in = "slash" PROVE s[i] \notin {"/", "*"}
  <2>1. i - 1 \in Visible(s) /\ s[i-1] = "/"
    BY <1>5, PlainType DEF Agreed
  <2>2. i - 1 < Len(s) /\ (i - 1) + 1 = i
    OBVIOUS
  <2> QED
    BY <2>1, <2>2, VisibleAlone
<1> QED
  BY <1>1, <1>2, <1>4, <1>5

LEMMA AgreedComment ==
  ASSUME NEW s \in Seq(Char), Lexes(s), NEW i \in 1..Len(s), Agreed(s, i),
         Starts(s, <<"/", "/">>, i) \/ Starts(s, <<"/", "*">>, i)
  PROVE  Agreed(s, TokenEnd(s, i) + 1) /\ Hidden(s, i)
<1> DEFINE e == TokenEnd(s, i)
<1>1. i < Len(s) /\ i + 1 \in 1..Len(s) /\ s[i] = "/" /\ s[i+1] \in {"/", "*"}
      /\ (Starts(s, <<"/", "/">>, i) <=> s[i+1] = "/")
  <2>1. i \in Nat \ {0}
    OBVIOUS
  <2> QED
    BY <2>1, StartsTwo
<1>2. /\ Modes(s)[i].in # "slash" /\ Modes(s)[i].in \in CodeLike
      /\ Modes(s)[i+1] = InCode(Modes(s)[i], "/")
  <2>1. s[i] # Newline
    BY <1>1 DEF Newline
  <2> QED
    BY <1>1, <2>1, AgreedCode
<1>3. Modes(s)[i+1] = Plain("slash")
  BY <1>2 DEF InCode, Quote
<1>4. Modes(s)[(i+1)+1] = InCode(Plain("slash"), s[i+1])
  <2>1. Modes(s)[(i+1)+1] = After(Modes(s)[i+1], s[i+1])
    BY <1>1, ModesFacts
  <2> QED
    BY <1>3, <2>1, AfterIs, PlainType DEF CodeLike
<1>5. (i+1)+1 = i + 2
  OBVIOUS
<1>6. i + 1 \notin Macros(s)
  BY <1>1, NotMacro DEF Delimiter
<1>7. CASE Starts(s, <<"/", "/">>, i)
  <2>1. Modes(s)[i+2] = Plain("line")
    BY <1>1, <1>4, <1>5, <1>7, PlainType DEF InCode, Quote
  <2>2. e = LineEnd(s, i)
    BY <1>7 DEF TokenEnd
  <2> HIDE DEF e
  <2>3. /\ e \in (i+1)..Len(s)
        /\ e < Len(s) => s[e+1] = Newline
        /\ \A j \in (i+2)..(e+1) : Modes(s)[j] = Plain("line")
    BY <1>7, <2>1, <2>2, LineToken
  <2>4. Agreed(s, e + 1)
    <3>1. Modes(s)[e+1].in = "line" /\ (e + 1 = Len(s) + 1 \/ s[e+1] = Newline)
      BY <2>3, PlainType
    <3> QED
      BY <3>1 DEF Agreed
  <2>5. ASSUME NEW j \in (i+1)..e PROVE j \notin Macros(s)
    <3>1. CASE j = i + 1
      BY <1>6, <3>1
    <3>2. CASE j # i + 1
      <4>1. j \in (i+2)..(e+1)
        BY <2>3, <3>2
      <4>2. Modes(s)[j].in = "line"
        BY <2>3, <4>1, PlainType
      <4> QED
        BY <4>2, NotMacro
    <3> QED
      BY <3>1, <3>2
  <2> QED
    BY <2>4, <2>5 DEF Hidden, e
<1>8. CASE ~Starts(s, <<"/", "/">>, i)
  <2>1. s[i+1] = "*" /\ Starts(s, <<"/", "*">>, i)
    BY <1>1, <1>8
  <2>2. Modes(s)[i+2] = Plain("block")
    BY <1>4, <1>5, <2>1, PlainType DEF InCode, Quote
  <2>3. e = BlockEnd(s, i)
    BY <1>8, <2>1 DEF TokenEnd
  <2> HIDE DEF e
  <2>4. /\ e \in (i+1)..Len(s)
        /\ Modes(s)[e+1] = Plain("code")
        /\ \A j \in (i+2)..e : Modes(s)[j].in \in {"block", "star"}
    BY <2>1, <2>2, <2>3, BlockToken
  <2>5. ASSUME NEW j \in (i+1)..e PROVE j \notin Macros(s)
    <3>1. CASE j = i + 1
      BY <1>6, <3>1
    <3>2. CASE j # i + 1
      <4>1. j \in (i+2)..e
        BY <2>4, <3>2
      <4> QED
        BY <2>4, <4>1, NotMacro
    <3> QED
      BY <3>1, <3>2
  <2> QED
    BY <2>4, <2>5 DEF Agreed, Hidden, e
<1> QED
  BY <1>7, <1>8

LEMMA AgreedQuote ==
  ASSUME NEW s \in Seq(Char), Lexes(s), NEW i \in 1..Len(s), Agreed(s, i), s[i] = Quote
  PROVE  Agreed(s, TokenEnd(s, i) + 1) /\ Hidden(s, i)
<1> DEFINE m == Modes(s)[i]
           e == TokenEnd(s, i)
<1>1. /\ m.in \in CodeLike /\ m.in # "word"
      /\ Modes(s)[i+1] = InCode(m, Quote)
  <2>1. s[i] # Newline
    BY DEF Newline, Quote
  <2> QED
    BY <2>1, AgreedCode
<1>2. m.in # "r"
  <2> SUFFICES ASSUME m.in = "r" PROVE FALSE
    OBVIOUS
  <2> DEFINE n == m.n
             p == i - 1 - n
  <2>1. n \in Nat /\ p \in Visible(s) /\ s[p] = "r" /\ \A h \in 1..n : s[p+h] = "#"
    BY PlainType DEF Agreed
  <2>2. Modes(s)[i+1] = Mode("raw", n, 0)
    BY <1>1 DEF InCode, Quote
  <2> HIDE DEF n
  <2>3. p \in 1..Len(s) /\ p + n + 1 = i /\ p + n + 2 = i + 1 /\ p + n + 1 <= Len(s)
    BY <2>1, VisibleAlone
  <2> HIDE DEF p
  <2>4. RawEnd(s, p) = 0
    BY <2>1, VisibleAlone
  <2>5. \A j \in (p+n+2)..Len(s) : ~Closes(s, n, j)
    <3>1. s[p+n+1] = Quote
      BY <2>3
    <3> QED
      BY <2>1, <2>3, <2>4, <3>1, RawEndFacts
  <2>6. i + 1 \in 1..(Len(s) + 1) /\ \A j \in (i+1)..Len(s) : ~Closes(s, n, j)
    BY <2>3, <2>5
  <2> QED
    BY <2>1, <2>2, <2>6, RawUnclosed
<1>3. Modes(s)[i+1] = Plain("string")
  BY <1>1, <1>2 DEF InCode, Quote
<1>4. e = QuoteEnd(s, i + 1)
  <2>1. ~Starts(s, <<"/", "/">>, i) /\ ~Starts(s, <<"/", "*">>, i)
    <3>1. i \in Nat \ {0}
      OBVIOUS
    <3>2. Quote # "/"
      BY DEF Quote
    <3> QED
      BY <3>1, <3>2, StartsTwo
  <2> QED
    BY <2>1 DEF TokenEnd
<1> HIDE DEF m, e
<1>5. /\ e \in (i+1)..Len(s)
      /\ Modes(s)[e+1] = Plain("code")
      /\ \A j \in (i+1)..e : Modes(s)[j].in \in {"string", "escape"}
  BY <1>3, <1>4, StringToken
<1>6. \A j \in (i+1)..e : j \notin Macros(s)
  BY <1>5, NotMacro
<1> QED
  BY <1>5, <1>6 DEF Agreed, Hidden, e

LEMMA AgreedRaw ==
  ASSUME NEW s \in Seq(Char), Lexes(s), NEW i \in 1..Len(s), Agreed(s, i), RawEnd(s, i) # 0
  PROVE  Agreed(s, TokenEnd(s, i) + 1) /\ Hidden(s, i)
<1> DEFINE m == Modes(s)[i]
           e == TokenEnd(s, i)
<1>1. PICK n \in Nat, f \in Nat : RawAt(s, i, n, f) /\ RawEnd(s, i) = f + n
  BY RawEndFacts
<1>2. s[i] = "r" /\ i + 1 \in 1..Len(s) /\ s[i+1] \in {"#", Quote} /\ f + n \in Nat
  <2>1. s[i] = "r" /\ i + n + 1 <= Len(s) /\ s[i+n+1] = Quote /\ \A h \in 1..n : s[i+h] = "#"
    BY <1>1 DEF RawAt
  <2>2. n = 0 => i + n + 1 = i + 1
    OBVIOUS
  <2>3. n # 0 => 1 \in 1..n
    OBVIOUS
  <2> QED
    BY <2>1, <2>2, <2>3
<1>3. e = f + n
  <2>1. ~Starts(s, <<"/", "/">>, i) /\ ~Starts(s, <<"/", "*">>, i) /\ s[i] # Quote
    <3>1. i \in Nat \ {0} /\ "r" # Quote
      BY DEF Quote
    <3> QED
      BY <1>2, <3>1, StartsTwo
  <2> QED
    BY <1>1, <2>1 DEF TokenEnd, Or
<1>4. m.in \in CodeLike /\ Modes(s)[i+1] = InCode(m, "r")
  <2>1. s[i] # Newline
    BY <1>2 DEF Newline
  <2> QED
    BY <1>2, <2>1, AgreedCode
<1> HIDE DEF m, e
<1>5. m.in \notin {"word", "r"}
  <2> SUFFICES ASSUME m.in \in {"word", "r"} PROVE FALSE
    OBVIOUS
  <2>1. "r" \in WordChar /\ "r" # Quote /\ "r" # "'" /\ "r" # "#" /\ "r" # "/" /\ "r" # "*"
    BY RustAssumption DEF WordChar, Quote
  <2>2. Modes(s)[i+1] = Plain("word")
    BY <1>4, <2>1 DEF InCode
  <2>3. Modes(s)[(i+1)+1] = After(Modes(s)[i+1], s[i+1])
    BY <1>2, ModesFacts
  <2>4. Modes(s)[(i+1)+1] = InCode(Plain("word"), s[i+1])
    BY <2>2, <2>3, AfterIs, PlainType DEF CodeLike
  <2>5. Modes(s)[(i+1)+1] = Plain("invalid")
    BY <1>2, <2>4, PlainType DEF InCode
  <2>6. (i+1)+1 \in 1..(Len(s) + 1)
    BY <1>2
  <2> QED
    BY <2>5, <2>6, NeverInvalid, PlainType
<1>6. Modes(s)[i+1] = Plain("r")
  <2>1. "r" # Quote /\ "r" # "'" /\ "r" # "#" /\ "r" # "/" /\ "r" # "*"
    BY DEF Quote
  <2> QED
    BY <1>4, <1>5, <2>1 DEF InCode
<1>7. /\ Modes(s)[f+n+1] = Plain("code")
      /\ \A j \in (i+1)..(f+n) : \/ s[j] \in {"#", Quote}
                                 \/ Modes(s)[j].in \in {"raw", "close"}
  BY <1>1, <1>6, RawToken
<1>8. Modes(s)[e+1] = Plain("code") /\ \A j \in (i+1)..e : j \notin Macros(s)
  <2>1. \A j \in (i+1)..e : \/ s[j] \in {"#", Quote}
                            \/ Modes(s)[j].in \in {"raw", "close"}
    BY <1>3, <1>7
  <2>2. "#" \in Delimiter /\ Quote \in Delimiter
    BY DEF Delimiter
  <2> QED
    BY <1>3, <1>7, <2>1, <2>2, NotMacro
<1> QED
  BY <1>8 DEF Agreed, Hidden, e

LEMMA AgreedAlone ==
  ASSUME NEW s \in Seq(Char), Lexes(s), NEW i \in Visible(s), Agreed(s, i),
         ~(Modes(s)[i].in = "line" /\ s[i] = Newline), s[i] # Quote
  PROVE  Agreed(s, i + 1) /\ Hidden(s, i)
<1> DEFINE m == Modes(s)[i]
           c == s[i]
<1>1. i \in 1..Len(s) /\ TokenEnd(s, i) = i /\ (i + 1) - 1 = i /\ (i + 1) - 1 - 0 = i
  BY VisibleFacts
<1>2. /\ m.in \in CodeLike
      /\ Modes(s)[i+1] = InCode(m, c)
      /\ c # "'" /\ (c = "#" => m.in # "word")
      /\ c \in {"/", "*"} => m.in # "slash"
  BY <1>1, AgreedCode
<1>3. Hidden(s, i)
  BY <1>1 DEF Hidden
<1>4. m.in = "r" => /\ m.n \in Nat
                    /\ i - 1 - m.n \in Visible(s) /\ s[i-1-m.n] = "r"
                    /\ \A h \in 1..m.n : s[i-1-m.n+h] = "#"
  BY PlainType DEF Agreed
<1> HIDE DEF m, c
<1>5. CASE m.in = "r" /\ c = "#"
  <2> DEFINE n == m.n
             p == i - 1 - n
             m1 == Modes(s)[i+1]
  <2>1. m1 = Mode("r", n + 1, 0)
    BY <1>2, <1>5 DEF InCode, Quote
  <2>2. m1.in = "r" /\ m1.n = n + 1 /\ m1.k = 0
    BY <2>1, PlainType
  <2>3. n \in Nat /\ p \in Visible(s) /\ s[p] = "r" /\ \A h \in 1..n : s[p+h] = "#"
    BY <1>4, <1>5
  <2> HIDE DEF n, m1
  <2>4. p + (n + 1) = i /\ (i + 1) - 1 - (n + 1) = p
    BY <1>1, <2>3
  <2> HIDE DEF p
  <2>5. \A h \in 1..(n+1) : s[p+h] = "#"
    <3> SUFFICES ASSUME NEW h \in 1..(n+1) PROVE s[p+h] = "#"
      OBVIOUS
    <3>1. CASE h = n + 1
      BY <1>5, <2>4, <3>1 DEF c
    <3>2. CASE h # n + 1
      <4>1. h \in 1..n
        BY <2>3, <3>2
      <4> QED
        BY <2>3, <4>1
    <3> QED
      BY <3>1, <3>2
  <2>6. /\ (i + 1) - 1 - m1.n \in Visible(s) /\ s[(i+1)-1-m1.n] = "r"
        /\ \A h \in 1..m1.n : s[(i+1)-1-m1.n+h] = "#" /\ m1.n \in Nat
    <3>1. (i + 1) - 1 - m1.n = p
      BY <2>2, <2>4
    <3> QED
      BY <2>2, <2>3, <2>5, <3>1
  <2>7. m1.n \in Nat
    BY <2>2, <2>3
  <2> QED
    BY <1>3, <2>2, <2>6, <2>7 DEF Agreed, m1
<1>6. CASE ~(m.in = "r" /\ c = "#") /\ c = "/"
  <2>1. Modes(s)[i+1] = Plain("slash")
    BY <1>2, <1>6 DEF InCode, Quote
  <2> QED
    BY <1>1, <1>3, <1>6, <2>1 DEF Agreed, c
<1>7. CASE ~(m.in = "r" /\ c = "#") /\ c = "r" /\ m.in \notin {"word", "r"}
  <2>1. Modes(s)[i+1] = Plain("r")
    BY <1>2, <1>7 DEF InCode, Quote
  <2> DEFINE m1 == Modes(s)[i+1]
  <2>2. m1.in = "r" /\ m1.n = 0 /\ m1.k = 0 /\ 0 \in Nat
    BY <2>1, PlainType
  <2> HIDE DEF m1
  <2>3. (i + 1) - 1 - m1.n = i /\ 1..m1.n = {} /\ s[i] = "r"
    BY <1>1, <1>7, <2>2 DEF c
  <2>4. /\ (i + 1) - 1 - m1.n \in Visible(s) /\ s[(i+1)-1-m1.n] = "r"
        /\ \A h \in 1..m1.n : s[(i+1)-1-m1.n+h] = "#"
    BY <2>3
  <2> QED
    BY <1>3, <2>2, <2>4 DEF Agreed, m1
<1>8. CASE ~(m.in = "r" /\ c = "#") /\ c # "/" /\ ~(c = "r" /\ m.in \notin {"word", "r"})
           /\ c \in WordChar
  <2>1. c # Quote /\ c # "*"
    BY <1>8, RustAssumption DEF Delimiter
  <2>2. Modes(s)[i+1] = Plain("word")
    BY <1>2, <1>8, <2>1 DEF InCode
  <2> QED
    BY <1>1, <1>3, <1>8, <2>2 DEF Agreed, c
<1>9. CASE ~(m.in = "r" /\ c = "#") /\ c # "/" /\ ~(c = "r" /\ m.in \notin {"word", "r"})
           /\ c \notin WordChar
  <2>1. Modes(s)[i+1] = Plain("code")
    BY <1>2, <1>9 DEF InCode, c
  <2> QED
    BY <1>3, <2>1 DEF Agreed
<1> QED
  BY <1>5, <1>6, <1>7, <1>8, <1>9


LEMMA AgreedNext ==
  ASSUME NEW s \in Seq(Char), Lexes(s), NEW i \in Stops(TokenEnds(s), 1), i # Len(s) + 1,
         Agreed(s, i)
  PROVE  Agreed(s, TokenEnd(s, i) + 1) /\ Hidden(s, i)
<1>1. i \in 1..Len(s)
  <2>1. Jumps(TokenEnds(s)) /\ Len(TokenEnds(s)) = Len(s) /\ 1 \in 1..(Len(s) + 1)
    BY TokenEndFacts
  <2>2. Stops(TokenEnds(s), 1) \subseteq 1..(Len(s) + 1)
    BY <2>1, StopsFacts
  <2> QED
    BY <2>2
<1>2. CASE Modes(s)[i].in = "line" /\ s[i] = Newline
  BY <1>1, <1>2, AgreedLine
<1>3. CASE Starts(s, <<"/", "/">>, i) \/ Starts(s, <<"/", "*">>, i)
  BY <1>1, <1>3, AgreedComment
<1>4. CASE s[i] = Quote
  BY <1>1, <1>4, AgreedQuote
<1>5. CASE RawEnd(s, i) # 0
  BY <1>1, <1>5, AgreedRaw
<1>6. CASE /\ ~(Modes(s)[i].in = "line" /\ s[i] = Newline)
           /\ ~(Starts(s, <<"/", "/">>, i) \/ Starts(s, <<"/", "*">>, i))
           /\ s[i] # Quote /\ RawEnd(s, i) = 0
  <2>1. TokenEnd(s, i) = i
    BY <1>6 DEF TokenEnd, Or
  <2>2. i \in Visible(s)
    BY <1>1, <2>1, VisibleFacts
  <2> QED
    BY <1>6, <2>1, <2>2, AgreedAlone
<1> QED
  BY <1>2, <1>3, <1>4, <1>5, <1>6

LEMMA StopsAgree ==
  ASSUME NEW s \in Seq(Char), Lexes(s)
  PROVE  /\ \A i \in Stops(TokenEnds(s), 1) : Agreed(s, i) /\ (i # Len(s) + 1 => Hidden(s, i))
         /\ \A i \in Visible(s) : Agreed(s, i)
         /\ Macros(s) \subseteq Stops(TokenEnds(s), 1)
<1> DEFINE ends == TokenEnds(s)
           stops == Stops(ends, 1)
           P == {i \in stops : Agreed(s, i)}
<1>1. /\ Jumps(ends) /\ Len(ends) = Len(s) /\ Len(s) \in Nat /\ 1 \in 1..(Len(s) + 1)
      /\ \A i \in 1..Len(s) : ends[i] = TokenEnd(s, i)
  BY TokenEndFacts
<1>2. /\ stops \subseteq 1..(Len(s) + 1) /\ 1 \in stops
      /\ \A k \in stops : k # Len(s) + 1 => ends[k] + 1 \in stops
      /\ \A j \in (1..(Len(s) + 1)) \ stops : \E k \in stops : k # Len(s) + 1 /\ j \in (k+1)..ends[k]
  <2> HIDE DEF ends
  <2> QED
    BY <1>1, StopsFacts
<1>3. 1 \in P
  BY <1>2, ModesFacts DEF Agreed
<1>4. ASSUME NEW k \in P \cap stops, k # Len(s) + 1 PROVE ends[k] + 1 \in P
  <2>1. k \in 1..Len(s)
    BY <1>1, <1>2, <1>4
  <2>2. Agreed(s, TokenEnd(s, k) + 1)
    BY <1>4, AgreedNext
  <2> QED
    BY <1>1, <1>2, <1>4, <2>1, <2>2
<1>5. stops \subseteq P
  <2> HIDE DEF P, ends
  <2>1. \A k \in P \cap Stops(ends, 1) : k # Len(ends) + 1 => ends[k] + 1 \in P
    BY <1>1, <1>4
  <2>2. 1 \in 1..(Len(ends) + 1)
    BY <1>1
  <2> QED
    BY <1>1, <1>3, <2>1, <2>2, StopsInduction
<1>6. ASSUME NEW i \in stops, i # Len(s) + 1 PROVE Hidden(s, i)
  BY <1>5, <1>6, AgreedNext
<1>7. \A i \in Visible(s) : i \in stops
  BY VisibleFacts
<1>8. ASSUME NEW j \in Macros(s), j \notin stops PROVE FALSE
  <2>1. j \in 1..Len(s)
    BY DEF Macros
  <2>2. PICK k \in stops : k # Len(s) + 1 /\ j \in (k+1)..ends[k]
    BY <1>1, <1>2, <1>8, <2>1
  <2>3. k \in 1..Len(s) /\ j \in (k+1)..TokenEnd(s, k)
    BY <1>1, <1>2, <2>2
  <2>4. Hidden(s, k)
    BY <1>6, <2>2
  <2> QED
    BY <1>8, <2>3, <2>4 DEF Hidden
<1> QED
  BY <1>5, <1>6, <1>7, <1>8

\* The recursion of Sites goes from left to right.
LEMMA SitesFacts ==
  ASSUME NEW s \in Seq(Char)
  PROVE  /\ Sites(s) \subseteq 1..Len(s)
         /\ \A i \in 1..Len(s) :
               i \in Sites(s) <=> /\ i \in Visible(s) /\ s[i] \in DOMAIN MacroLevel
                                  /\ i - 1 \in Visible(s) =>
                                        s[i-1] \notin WordChar /\ i - 1 \notin Sites(s)
<1> DEFINE N == Len(s)
           V == Visible(s)
           Row(f, i) == /\ i \in V /\ s[i] \in DOMAIN MacroLevel
                        /\ i - 1 \in V => s[i-1] \notin WordChar /\ ~f[i-1]
           Is(f) == f = [i \in DOMAIN s |-> Row(f, i)]
           G == [x \in (1..N) \X BOOLEAN |->
                   /\ x[1] \in V /\ s[x[1]] \in DOMAIN MacroLevel
                   /\ x[1] - 1 \in V => s[x[1]-1] \notin WordChar /\ ~x[2]]
           it == CHOOSE f : Is(f)
<1>1. N \in Nat /\ DOMAIN s = 1..N /\ V \subseteq 1..N
  BY VisibleFacts
<1>2. PICK f \in [0..N -> BOOLEAN] : \A i \in 1..N : f[i] = G[<<i, f[i-1]>>]
  <2>1. IsStep(G, N, BOOLEAN)
    BY DEF IsStep
  <2> HIDE DEF G, N
  <2>2. \E f : Climbs(f, G, N, BOOLEAN, FALSE)
    BY <1>1, <2>1, Climb
  <2> QED
    BY <2>2 DEF Climbs
<1> HIDE DEF V, N
<1>3. \A i \in 1..N : f[i] = Row(f, i)
  <2> SUFFICES ASSUME NEW i \in 1..N PROVE f[i] = Row(f, i)
    OBVIOUS
  <2>1. i - 1 \in 0..N
    BY <1>1
  <2>2. f[i-1] \in BOOLEAN
    BY <2>1
  <2>3. G[<<i, f[i-1]>>] = Row(f, i)
    BY <2>2
  <2> HIDE DEF G, Row
  <2> QED
    BY <1>2, <2>3
<1> HIDE DEF G
<1> DEFINE g == [i \in DOMAIN s |-> f[i]]
<1>4. Is(g)
  <2>1. ASSUME NEW i \in DOMAIN s PROVE f[i] = Row(g, i)
    <3>1. i \in 1..N
      BY <1>1
    <3>2. i - 1 \in V => g[i-1] = f[i-1]
      BY <1>1
    <3>3. f[i] = Row(f, i)
      BY <1>3, <3>1
    <3> HIDE DEF g
    <3> QED
      BY <3>2, <3>3
  <2>2. [i \in DOMAIN s |-> f[i]] = [i \in DOMAIN s |-> Row(g, i)]
    <3> HIDE DEF Row
    <3> QED
      BY <2>1
  <2> QED
    BY <2>2
<1>5. Is(it)
  <2> HIDE DEF Is, g
  <2> QED
    BY <1>4
<1>6. Sites(s) = {i \in DOMAIN s : it[i]}
  BY DEF Sites, V
<1> HIDE DEF it, g
<1>7. ASSUME NEW i \in 1..N PROVE it[i] = Row(it, i)
  <2>1. it = [j \in DOMAIN s |-> Row(it, j)] /\ i \in DOMAIN s
    BY <1>1, <1>5
  <2> HIDE DEF Row
  <2> QED
    BY <2>1
<1>8. ASSUME NEW i \in 1..N
      PROVE  i \in Sites(s) <=> /\ i \in V /\ s[i] \in DOMAIN MacroLevel
                                /\ i - 1 \in V => s[i-1] \notin WordChar /\ i - 1 \notin Sites(s)
  <2>1. i \in Sites(s) <=> it[i]
    BY <1>1, <1>6
  <2>2. i - 1 \in V => (i - 1 \in Sites(s) <=> it[i-1])
    BY <1>1, <1>6
  <2>3. it[i] <=> Row(it, i)
    BY <1>7
  <2> QED
    BY <2>1, <2>2, <2>3
<1> QED
  BY <1>1, <1>6, <1>8 DEF N, V

(***************************************************************************)
(* blankRust and rustMacroRe know no lexer, only how to jump over a        *)
(* comment or a string; of a source that lexes, in which no two macros     *)
(* touch, they find the macros a lexer sees, and no other.                 *)
(***************************************************************************)
THEOREM SitesAreMacros ==
  ASSUME NEW s \in Seq(Char), Lexes(s), Apart(s)
  PROVE  Sites(s) = Macros(s)
<1> DEFINE Named(i) == \/ Modes(s)[i].in \in {"code", "slash"}
                       \/ Modes(s)[i].in = "r" /\ Modes(s)[i].n > 0
<1>1. Sites(s) \subseteq 1..Len(s) /\ Macros(s) \subseteq 1..Len(s)
  BY SitesFacts DEF Macros
<1>2. ASSUME NEW i \in 1..Len(s)
      PROVE  i \in Macros(s) <=> s[i] \in DOMAIN MacroLevel /\ Named(i)
  BY DEF Macros
<1>3. ASSUME NEW i \in 1..Len(s), s[i] \in DOMAIN MacroLevel
      PROVE  /\ s[i] \notin WordChar \cup Delimiter
             /\ i - 1 \in Visible(s) => s[i-1] \notin DOMAIN MacroLevel
  <2>1. i - 1 \in Visible(s) => i \in 2..Len(s)
    BY VisibleFacts
  <2>2. {s[i-1], s[i]} \subseteq DOMAIN MacroLevel <=> s[i-1] \in DOMAIN MacroLevel
    BY <1>3
  <2> QED
    BY <1>3, <2>1, <2>2, MacroChars DEF Apart
\* A visible macro follows no letter where the lexer reads a name of its own.
<1>4. ASSUME NEW i \in Visible(s), s[i] \in DOMAIN MacroLevel,
             i - 1 \in Visible(s) => s[i-1] \notin WordChar
      PROVE  Named(i)
  <2>1. Agreed(s, i) /\ i \in 1..Len(s)
    BY StopsAgree, VisibleFacts
  <2>2. s[i] # Newline /\ i # Len(s) + 1
    BY <1>3, <1>4, <2>1 DEF Delimiter
  <2>3. Modes(s)[i].in # "line"
    BY <2>1, <2>2, PlainType DEF Agreed
  <2>4. Modes(s)[i].in # "word"
    BY <1>4, <2>1, <2>2, PlainType DEF Agreed
  <2>5. ASSUME Modes(s)[i].in = "r" PROVE Modes(s)[i].n > 0
    <3> DEFINE n == Modes(s)[i].n
    <3>1. n \in Nat /\ i - 1 - n \in Visible(s) /\ s[i-1-n] = "r"
      BY <2>1, <2>5, PlainType DEF Agreed
    <3>2. "r" \in WordChar
      BY RustAssumption DEF WordChar
    <3> HIDE DEF n
    <3>3. n # 0
      <4> SUFFICES ASSUME n = 0 PROVE FALSE
        OBVIOUS
      <4>1. i - 1 - n = i - 1
        BY <2>1
      <4> QED
        BY <1>4, <3>1, <3>2, <4>1
    <3> QED
      BY <3>1, <3>3 DEF n
  <2> QED
    BY <2>1, <2>3, <2>4, <2>5, PlainType DEF Agreed
\* A macro is visible, and what is visible before it is no letter.
<1>5. ASSUME NEW i \in Macros(s) PROVE i \in Visible(s)
  <2>1. i \in 1..Len(s) /\ s[i] \in DOMAIN MacroLevel /\ i \in Stops(TokenEnds(s), 1)
    BY StopsAgree DEF Macros
  <2>2. s[i] # "/" /\ s[i] # Quote /\ s[i] # "r"
    BY <1>3, <2>1, RustAssumption DEF Delimiter, WordChar
  <2>3. ~Starts(s, <<"/", "/">>, i) /\ ~Starts(s, <<"/", "*">>, i)
    <3>1. i \in Nat \ {0}
      BY <2>1
    <3> QED
      BY <2>2, <3>1, StartsTwo
  <2>4. TokenEnd(s, i) = i
    BY <2>2, <2>3 DEF TokenEnd, RawEnd, Or
  <2> QED
    BY <2>1, <2>4, VisibleFacts
<1>6. ASSUME NEW i \in Macros(s), i - 1 \in Visible(s) PROVE s[i-1] \notin WordChar
  <2> SUFFICES ASSUME s[i-1] \in WordChar PROVE FALSE
    OBVIOUS
  <2> DEFINE j == i - 1
             m == Modes(s)[j]
             c == s[j]
  <2>1. j \in 1..Len(s) /\ j + 1 = i /\ Agreed(s, j) /\ i \in 1..Len(s)
    BY <1>1, <1>6, StopsAgree, VisibleFacts
  <2>2. c \in WordChar /\ c \notin Delimiter
    BY RustAssumption
  <2>3. c # Quote /\ c # Newline /\ c # "/" /\ c # "*" /\ c # "#" /\ c # "'"
    BY <2>2 DEF Delimiter
  <2> HIDE DEF j
  <2>4. Modes(s)[j+1] = InCode(m, c)
    BY <2>1, <2>3, AgreedCode
  <2> HIDE DEF m, c
  <2>5. InCode(m, c) \in {Plain("r"), Plain("word")}
    BY <2>2, <2>3 DEF InCode
  <2>6. Modes(s)[i] \in {Plain("r"), Plain("word")}
    BY <2>1, <2>4, <2>5
  <2>7. ~Named(i)
    BY <2>6, PlainType
  <2> QED
    BY <1>2, <2>1, <2>7
<1>7. ASSUME NEW i \in Sites(s) PROVE i \in Macros(s)
  <2>1. i \in 1..Len(s)
    BY <1>1
  <2>2. /\ i \in Visible(s) /\ s[i] \in DOMAIN MacroLevel
        /\ i - 1 \in Visible(s) => s[i-1] \notin WordChar
    BY <2>1, SitesFacts
  <2> QED
    BY <1>2, <1>4, <2>1, <2>2
<1>8. ASSUME NEW i \in Macros(s) PROVE i \in Sites(s)
  <2>1. i \in 1..Len(s) /\ s[i] \in DOMAIN MacroLevel
    BY DEF Macros
  <2>2. ASSUME i - 1 \in Visible(s) PROVE i - 1 \notin Sites(s)
    <3>1. i - 1 \in 1..Len(s) /\ s[i-1] \notin DOMAIN MacroLevel
      BY <1>3, <2>1, <2>2, VisibleFacts
    <3> QED
      BY <3>1, SitesFacts
  <2> QED
    BY <1>5, <1>6, <2>1, <2>2, SitesFacts
<1> QED
  BY <1>7, <1>8

LEMMA AllPassed ==
  ASSUME IInv, Done, ~errors, RustFiles = DOMAIN tree,
         \A f \in DOMAIN tree : Lexes(Src(tree[f])) /\ Apart(Src(tree[f]))
  PROVE  Passed = UNION {{f} \X Macros(Src(tree[f])) : f \in DOMAIN tree}
<1> DEFINE M(f) == {f} \X Macros(Src(tree[f]))
<1>1. TypeOK
  BY DEF IInv
<1>2. ASSUME NEW f \in DOMAIN tree
      PROVE  /\ Scanned(tree[f]) /\ f < file
             /\ \A p : IsCall(tree[f], p)
             /\ Places(tree[f]) = Macros(Src(tree[f]))
  <2>1. tree[f].kind = "rust"
    BY DEF RustFiles
  <2>2. tree[f] \in File /\ f \in 1..Len(tree) /\ Len(tree) \in Nat
    BY <1>1, TreeFacts
  <2>3. Src(tree[f]) \in Seq(Char)
    BY <2>1, <2>2, SrcType
  <2>4. Sites(Src(tree[f])) = Macros(Src(tree[f]))
    BY <2>3, SitesAreMacros
  <2>5. f < file
    BY <1>1, <2>2 DEF Done, TypeOK
  <2> QED
    BY <2>1, <2>4, <2>5 DEF Scanned, IsCall, Places
<1>3. ASSUME NEW l \in Passed PROVE l \in UNION {M(f) : f \in DOMAIN tree}
  <2>1. l = <<l[1], l[2]>>
    BY PassedPairs
  <2>2. l[1] \in DOMAIN tree /\ l[2] \in Places(tree[l[1]])
    BY <2>1, PassedIs
  <2>3. l \in M(l[1])
    BY <1>2, <2>1, <2>2
  <2> QED
    BY <2>2, <2>3
<1>4. ASSUME NEW f \in DOMAIN tree, NEW l \in M(f) PROVE l \in Passed
  <2>1. l = <<f, l[2]>> /\ l[2] \in Macros(Src(tree[f]))
    OBVIOUS
  <2>2. <<f, l[2]>> \in Passed
    BY <1>2, <2>1, PassedIs
  <2> QED
    BY <2>1, <2>2
<1> QED
  BY <1>3, <1>4

(***************************************************************************)
(* Where every file is a Rust file that lexes, scan counts as many calls   *)
(* as a lexer sees macros, whatever the files hold.                        *)
(***************************************************************************)
THEOREM MacrosAreFound == Spec => []MacrosFound
<1>1. IInv => MacrosFound
  <2> SUFFICES ASSUME IInv, Done, ~errors, RustFiles = DOMAIN tree,
                      \A f \in DOMAIN tree : Lexes(Src(tree[f])) /\ Apart(Src(tree[f]))
               PROVE  stats.calls = Cardinality(UNION {{f} \X Macros(Src(tree[f])) : f \in DOMAIN tree})
    BY DEF MacrosFound
  <2>1. stats.calls = Cardinality(Passed)
    BY DEF IInv, Counted
  <2> QED
    BY <2>1, AllPassed
<1> QED
  BY <1>1, IInvHolds, PTL

-----------------------------------------------------------------------------
(* Texts, and recursion along an expression. *)

\* Takes decides what Matches states.
LEMMA MatchesTakes ==
  ASSUME NEW text \in Text, NEW line \in Text, Matches(text, line)
  PROVE  Takes(text, line)
<1> DEFINE N == Len(text)
           L == Len(line)
           Ends == SUBSET (0..L)
           Row(i, before) ==
             IF text[i] = Placeholder THEN {n \in 0..L : \E m \in before : m <= n}
             ELSE {n \in 1..L : n - 1 \in before /\ line[n] = text[i]}
           G == [x \in (1..N) \X Ends |-> Row(x[1], x[2])]
           Up(g) == g = [i \in 0..N |-> IF i = 0 THEN {0} ELSE Row(i, g[i-1])]
           it == CHOOSE g : Up(g)
<1>1. N \in Nat /\ L \in Nat
  BY LenNat
<1>2. {0} \in Ends /\ IsStep(G, N, Ends)
  <2>1. {0} \in Ends
    BY <1>1
  <2>2. \A i, before : Row(i, before) \in Ends
    BY <1>1
  <2> HIDE DEF Row, Ends
  <2> QED
    BY <2>1, <2>2 DEF IsStep
<1>3. PICK f : Climbs(f, G, N, Ends, {0})
  <2> HIDE DEF G, Ends, N
  <2> QED
    BY <1>1, <1>2, Climb
<1>4. \A i \in 1..N : f[i] = Row(i, f[i-1])
  <2> SUFFICES ASSUME NEW i \in 1..N PROVE f[i] = Row(i, f[i-1])
    OBVIOUS
  <2>1. i - 1 \in 0..N
    BY <1>1
  <2>2. f[i-1] \in Ends /\ f[i] = G[<<i, f[i-1]>>]
    BY <1>3, <2>1 DEF Climbs
  <2> HIDE DEF Row, Ends
  <2>3. G[<<i, f[i-1]>>] = Row(i, f[i-1])
    BY <2>2
  <2> QED
    BY <2>2, <2>3
<1>5. f = [i \in 0..N |-> f[i]] /\ f[0] = {0}
  BY <1>3 DEF Climbs
<1>6. Up(f)
  <2> HIDE DEF Row
  <2> QED
    BY <1>1, <1>4, <1>5
<1>7. Up(it)
  <2> HIDE DEF Up
  <2> QED
    BY <1>6
<1>8. it[0] = {0} /\ \A i \in 1..N : it[i] = Row(i, it[i-1])
  <2> DEFINE new == [i \in 0..N |-> IF i = 0 THEN {0} ELSE Row(i, it[i-1])]
  <2> HIDE DEF Row, it
  <2>1. \A i \in 0..N : new[i] = IF i = 0 THEN {0} ELSE Row(i, it[i-1])
    OBVIOUS
  <2>2. it = new
    BY <1>7
  <2> HIDE DEF new
  <2> QED
    BY <1>1, <2>1, <2>2
<1>9. PICK at \in [0..N -> 0..L] : IsAlignment(at, text, line)
  BY DEF Matches
<1> HIDE DEF it
<1> DEFINE P == {i \in 0..N : at[i] \in it[i]}
<1>10. 0 \in P
  BY <1>1, <1>8, <1>9 DEF IsAlignment
<1>11. ASSUME NEW i \in 0..(N-1), i \in P PROVE i + 1 \in P
  <2>1. /\ i + 1 \in 1..N /\ i \in 0..N /\ i + 1 \in 0..N /\ (i + 1) - 1 = i
        /\ at[i] \in it[i] /\ at[i] \in 0..L /\ at[i+1] \in 0..L /\ at[i] <= at[i+1]
    BY <1>1, <1>9, <1>11 DEF IsAlignment
  <2>2. it[i+1] = Row(i + 1, it[i])
    BY <1>8, <2>1
  <2>3. CASE text[i+1] = Placeholder
    BY <2>1, <2>2, <2>3
  <2>4. CASE text[i+1] # Placeholder
    <3>1. at[i+1] = at[i] + 1 /\ line[at[i+1]] = text[i+1]
      BY <1>9, <2>1, <2>4 DEF IsAlignment
    <3>2. at[i+1] \in 1..L /\ at[i+1] - 1 = at[i]
      BY <2>1, <3>1
    <3>3. at[i+1] \in Row(i + 1, it[i])
      BY <2>1, <2>4, <3>1, <3>2
    <3> QED
      BY <2>1, <2>2, <3>3
  <2> QED
    BY <2>3, <2>4
<1>12. N \in P
  <2>1. 0..N \subseteq P
    <3> HIDE DEF P
    <3> QED
      BY <1>1, <1>10, <1>11, Upto
  <2> QED
    BY <1>1, <2>1
<1>13. L \in it[N]
  BY <1>9, <1>12 DEF IsAlignment
<1> QED
  BY <1>13 DEF Takes, it

-----------------------------------------------------------------------------
(* Expressions: a recursion along them has a value. *)

Unfolded(f, e, leaf, comb) == IF e[1] = "plus" THEN comb[<<f[e[2]], f[e[3]]>>] ELSE leaf[e]

Solution(f, C, leaf, comb) ==
    /\ C \subseteq Expr
    /\ \A e \in C : /\ e[1] = "plus" => e[2] \in C /\ e[3] \in C
                    /\ f[e] = Unfolded(f, e, leaf, comb)

LEMMA OneSolution ==
  ASSUME NEW leaf, NEW comb, NEW f, NEW C, NEW g, NEW D,
         Solution(f, C, leaf, comb), Solution(g, D, leaf, comb)
  PROVE  \A e \in C \cap D : f[e] = g[e]
<1> DEFINE Odd == {e \in C \cap D : f[e] # g[e]}
<1> SUFFICES ASSUME Odd # {} PROVE FALSE
  OBVIOUS
<1>1. PICK e \in Odd : e[1] = "plus" => {e[2], e[3]} \cap Odd = {}
  <2>1. Odd \in SUBSET Expr
    BY DEF Solution
  <2> HIDE DEF Odd
  <2> QED
    BY <2>1, ExprAssumption
<1>2. f[e] = Unfolded(f, e, leaf, comb) /\ g[e] = Unfolded(g, e, leaf, comb) /\ f[e] # g[e]
  BY DEF Solution
<1>3. CASE e[1] = "plus"
  <2>1. e[2] \in C \cap D /\ e[3] \in C \cap D
    BY <1>3 DEF Solution
  <2>2. f[e[2]] = g[e[2]] /\ f[e[3]] = g[e[3]]
    BY <1>1, <1>3, <2>1
  <2> QED
    BY <1>2, <1>3, <2>2 DEF Unfolded
<1>4. CASE e[1] # "plus"
  BY <1>2, <1>4 DEF Unfolded
<1> QED
  BY <1>3, <1>4

LEMMA SolutionAround ==
  ASSUME NEW leaf, NEW comb, NEW e \in Expr
  PROVE  \E f, C : Solution(f, C, leaf, comb) /\ e \in C
<1> DEFINE Odd == {x \in Expr : ~ \E f, C : Solution(f, C, leaf, comb) /\ x \in C}
<1> SUFFICES ASSUME Odd # {} PROVE FALSE
  OBVIOUS
<1>1. PICK x \in Odd : x[1] = "plus" => {x[2], x[3]} \cap Odd = {}
  <2>1. Odd \in SUBSET Expr
    OBVIOUS
  <2> HIDE DEF Odd
  <2> QED
    BY <2>1, ExprAssumption
<1>2. CASE x[1] = "plus"
  <2>1. {x[2], x[3]} \subseteq Expr
    BY <1>2, ExprAssumption
  <2>2. x[2] \in Expr /\ x[3] \in Expr /\ x[2] \notin Odd /\ x[3] \notin Odd
    BY <1>1, <1>2, <2>1
  <2>3. PICK f, C : Solution(f, C, leaf, comb) /\ x[2] \in C
    BY <2>2
  <2>4. PICK g, D : Solution(g, D, leaf, comb) /\ x[3] \in D
    BY <2>2
  <2>5. x \notin C /\ x \notin D
    BY <2>3, <2>4
  <2> DEFINE B == C \cup D \cup {x}
             h == [y \in B |-> IF y \in C THEN f[y] ELSE IF y \in D THEN g[y]
                               ELSE comb[<<f[x[2]], g[x[3]]>>]]
  <2>6. /\ \A y \in C : h[y] = f[y]
        /\ \A y \in D : h[y] = g[y]
        /\ h[x] = comb[<<f[x[2]], g[x[3]]>>]
    BY <2>3, <2>4, <2>5, OneSolution
  <2> HIDE DEF h
  <2>7. ASSUME NEW y \in B
        PROVE  /\ y[1] = "plus" => y[2] \in B /\ y[3] \in B
               /\ h[y] = Unfolded(h, y, leaf, comb)
    <3>1. CASE y \in C
      BY <2>3, <2>6, <3>1 DEF Solution, Unfolded
    <3>2. CASE y \in D
      BY <2>4, <2>6, <3>2 DEF Solution, Unfolded
    <3>3. CASE y = x
      BY <1>2, <2>3, <2>4, <2>6, <3>3 DEF Unfolded
    <3> QED
      BY <3>1, <3>2, <3>3
  <2>8. B \subseteq Expr
    BY <2>3, <2>4 DEF Solution
  <2>9. Solution(h, B, leaf, comb)
    <3> HIDE DEF B
    <3> QED
      BY <2>7, <2>8 DEF Solution
  <2> QED
    BY <2>9
<1>3. CASE x[1] # "plus"
  <2> DEFINE h == [y \in {x} |-> leaf[x]]
  <2>1. Solution(h, {x}, leaf, comb)
    BY <1>3 DEF Solution, Unfolded
  <2> QED
    BY <2>1
<1> QED
  BY <1>2, <1>3

LEMMA ExprRecursion ==
  ASSUME NEW leaf, NEW comb
  PROVE  \E f : f = [e \in Expr |-> Unfolded(f, e, leaf, comb)]
<1> DEFINE Says(e, v) == \E f, C : Solution(f, C, leaf, comb) /\ e \in C /\ v = f[e]
           F == [e \in Expr |-> CHOOSE v : Says(e, v)]
<1>1. ASSUME NEW f, NEW C, Solution(f, C, leaf, comb), NEW e \in C
      PROVE  F[e] = f[e]
  <2>1. e \in Expr /\ Says(e, f[e])
    BY <1>1 DEF Solution
  <2>2. \A v : Says(e, v) => v = f[e]
    BY <1>1, OneSolution
  <2> HIDE DEF Says
  <2> QED
    BY <2>1, <2>2
<1> HIDE DEF F
<1>2. ASSUME NEW e \in Expr PROVE F[e] = Unfolded(F, e, leaf, comb)
  <2>1. PICK f, C : Solution(f, C, leaf, comb) /\ e \in C
    BY SolutionAround
  <2>2. /\ e[1] = "plus" => e[2] \in C /\ e[3] \in C
        /\ f[e] = Unfolded(f, e, leaf, comb)
    BY <2>1 DEF Solution
  <2> QED
    BY <1>1, <2>1, <2>2 DEF Unfolded
<1>3. F = [e \in Expr |-> F[e]]
  BY DEF F
<1>4. F = [e \in Expr |-> Unfolded(F, e, leaf, comb)]
  BY <1>2, <1>3
<1> QED
  BY <1>4

LEMMA FoldedIs ==
  ASSUME NEW e \in Expr
  PROVE  Folded[e] = CASE e[1] = "lit"  -> <<e[2]>>
                       [] e[1] = "plus" -> Joined(Folded[e[2]], Folded[e[3]])
                       [] OTHER         -> <<>>
<1> DEFINE Body(f, x) == CASE x[1] = "lit"  -> <<x[2]>>
                           [] x[1] = "plus" -> Joined(f[x[2]], f[x[3]])
                           [] OTHER         -> <<>>
           Up(f) == f = [x \in Expr |-> Body(f, x)]
           leaf == [x \in Expr |-> IF x[1] = "lit" THEN <<x[2]>> ELSE <<>>]
           Fold == {<<>>} \cup {<<t>> : t \in Text}
           comb == [p \in Fold \X Fold |-> Joined(p[1], p[2])]
<1>1. PICK f : f = [x \in Expr |-> Unfolded(f, x, leaf, comb)]
  <2> HIDE DEF leaf, comb
  <2> QED
    BY ExprRecursion
<1>2. \A x \in Expr : f[x] = Unfolded(f, x, leaf, comb)
  <2> DEFINE g == [x \in Expr |-> Unfolded(f, x, leaf, comb)]
  <2>1. \A x \in Expr : g[x] = Unfolded(f, x, leaf, comb)
    OBVIOUS
  <2>2. f = g
    BY <1>1
  <2> HIDE DEF g
  <2> QED
    BY <2>1, <2>2
<1>3. \A x \in Expr : f[x] \in Fold
  <2> DEFINE Odd == {x \in Expr : f[x] \notin Fold}
  <2> SUFFICES ASSUME Odd # {} PROVE FALSE
    OBVIOUS
  <2>1. PICK x \in Odd : x[1] = "plus" => {x[2], x[3]} \cap Odd = {}
    <3>1. Odd \in SUBSET Expr
      OBVIOUS
    <3> HIDE DEF Odd
    <3> QED
      BY <3>1, ExprAssumption
  <2>2. x \in Expr /\ f[x] = Unfolded(f, x, leaf, comb) /\ f[x] \notin Fold
    BY <1>2
  <2>3. CASE x[1] = "plus"
    <3>1. f[x[2]] \in Fold /\ f[x[3]] \in Fold
      BY <2>1, <2>2, <2>3, ExprAssumption
    <3>2. f[x] = Joined(f[x[2]], f[x[3]])
      <4> HIDE DEF Fold
      <4> QED
        BY <2>2, <2>3, <3>1 DEF Unfolded
    <3> HIDE DEF Fold
    <3>3. ASSUME NEW l \in Fold, NEW r \in Fold PROVE Joined(l, r) \in Fold
      <4>1. <<Placeholder>> \in Text
        BY DEF Text
      <4>2. ASSUME NEW y \in Fold, y # <<>> PROVE y[1] \in Text
        BY <4>2 DEF Fold
      <4>3. \A y, z \in Text : y \o z \in Text
        BY DEF Text
      <4>4. CASE l = <<>> /\ r = <<>>
        BY <4>4 DEF Joined, Fold
      <4>5. CASE ~(l = <<>> /\ r = <<>>)
        <5> DEFINE part(y) == IF y = <<>> THEN <<Placeholder>> ELSE y[1]
        <5>1. part(l) \in Text /\ part(r) \in Text
          BY <4>1, <4>2
        <5>2. Joined(l, r) = <<part(l) \o part(r)>>
          BY <4>5 DEF Joined
        <5> HIDE DEF part
        <5> QED
          BY <4>3, <5>1, <5>2 DEF Fold
      <4> QED
        BY <4>4, <4>5
    <3> QED
      BY <2>2, <3>1, <3>2, <3>3
  <2>4. CASE x[1] # "plus"
    <3>1. f[x] = IF x[1] = "lit" THEN <<x[2]>> ELSE <<>>
      BY <2>2, <2>4 DEF Unfolded
    <3>2. x[1] = "lit" => x[2] \in Text
      BY <2>2, ExprAssumption
    <3> QED
      BY <2>2, <3>1, <3>2
  <2> QED
    BY <2>3, <2>4
<1>4. ASSUME NEW x \in Expr PROVE f[x] = Body(f, x)
  <2>1. f[x] = Unfolded(f, x, leaf, comb)
    BY <1>2
  <2>2. CASE x[1] = "plus"
    <3>1. f[x[2]] \in Fold /\ f[x[3]] \in Fold
      BY <1>3, <2>2, ExprAssumption
    <3>2. f[x] = Joined(f[x[2]], f[x[3]])
      <4> HIDE DEF Fold
      <4> QED
        BY <2>1, <2>2, <3>1 DEF Unfolded
    <3> QED
      BY <2>2, <3>2
  <2>3. CASE x[1] # "plus"
    BY <2>1, <2>3 DEF Unfolded
  <2> QED
    BY <2>2, <2>3
<1>5. Up(f)
  <2>1. f = [x \in Expr |-> f[x]]
    BY <1>1
  <2> HIDE DEF Body
  <2> QED
    BY <1>4, <2>1
<1>7. Folded = [x \in Expr |-> Body(Folded, x)]
  BY <1>5 DEF Folded
<1>8. Folded[e] = Body(Folded, e)
  <2> DEFINE g == [x \in Expr |-> Body(Folded, x)]
  <2> HIDE DEF Body
  <2>1. \A x \in Expr : g[x] = Body(Folded, x)
    OBVIOUS
  <2>2. Folded = g
    BY <1>7
  <2> HIDE DEF g
  <2> QED
    BY <2>1, <2>2
<1> QED
  BY <1>8

LEMMA EvaluatedIs ==
  ASSUME NEW e \in Expr, NEW v \in Value
  PROVE  Evaluated(e, v) = CASE e[1] = "lit"  -> e[2]
                             [] e[1] = "plus" -> Evaluated(e[2], v) \o Evaluated(e[3], v)
                             [] OTHER         -> v.text
<1> DEFINE Body(f, x) == CASE x[1] = "lit"  -> x[2]
                           [] x[1] = "plus" -> f[x[2]] \o f[x[3]]
                           [] OTHER         -> v.text
           Up(f) == f = [x \in Expr |-> Body(f, x)]
           leaf == [x \in Expr |-> IF x[1] = "lit" THEN x[2] ELSE v.text]
           comb == [p \in Text \X Text |-> p[1] \o p[2]]
<1>1. PICK f : f = [x \in Expr |-> Unfolded(f, x, leaf, comb)]
  <2> HIDE DEF leaf, comb
  <2> QED
    BY ExprRecursion
<1>2. \A x \in Expr : f[x] = Unfolded(f, x, leaf, comb)
  <2> DEFINE g == [x \in Expr |-> Unfolded(f, x, leaf, comb)]
  <2>1. \A x \in Expr : g[x] = Unfolded(f, x, leaf, comb)
    OBVIOUS
  <2>2. f = g
    BY <1>1
  <2> HIDE DEF g
  <2> QED
    BY <2>1, <2>2
<1>0. v.text \in Text
  BY ValueAssumption DEF Text
<1>c. \A y, z \in Text : y \o z \in Text
  BY DEF Text
<1>3. \A x \in Expr : f[x] \in Text
  <2> DEFINE Odd == {x \in Expr : f[x] \notin Text}
  <2> SUFFICES ASSUME Odd # {} PROVE FALSE
    OBVIOUS
  <2>1. PICK x \in Odd : x[1] = "plus" => {x[2], x[3]} \cap Odd = {}
    <3>1. Odd \in SUBSET Expr
      OBVIOUS
    <3> HIDE DEF Odd
    <3> QED
      BY <3>1, ExprAssumption
  <2>2. x \in Expr /\ f[x] = Unfolded(f, x, leaf, comb) /\ f[x] \notin Text
    BY <1>2
  <2>3. CASE x[1] = "plus"
    <3>1. f[x[2]] \in Text /\ f[x[3]] \in Text
      BY <2>1, <2>2, <2>3, ExprAssumption
    <3>2. f[x] = f[x[2]] \o f[x[3]]
      BY <2>2, <2>3, <3>1 DEF Unfolded
    <3> QED
      BY <1>c, <2>2, <3>1, <3>2
  <2>4. CASE x[1] # "plus"
    <3>1. f[x] = IF x[1] = "lit" THEN x[2] ELSE v.text
      BY <2>2, <2>4 DEF Unfolded
    <3>2. x[1] = "lit" => x[2] \in Text
      BY <2>2, ExprAssumption
    <3> QED
      BY <1>0, <2>2, <3>1, <3>2
  <2> QED
    BY <2>3, <2>4
<1>4. ASSUME NEW x \in Expr PROVE f[x] = Body(f, x)
  <2>1. f[x] = Unfolded(f, x, leaf, comb)
    BY <1>2
  <2>2. CASE x[1] = "plus"
    <3>1. f[x[2]] \in Text /\ f[x[3]] \in Text
      BY <1>3, <2>2, ExprAssumption
    <3>2. f[x] = f[x[2]] \o f[x[3]]
      BY <2>1, <2>2, <3>1 DEF Unfolded
    <3> QED
      BY <2>2, <3>2
  <2>3. CASE x[1] # "plus"
    BY <2>1, <2>3 DEF Unfolded
  <2> QED
    BY <2>2, <2>3
<1>5. Up(f)
  <2>1. f = [x \in Expr |-> f[x]]
    BY <1>1
  <2> HIDE DEF Body
  <2> QED
    BY <1>4, <2>1
<1>6. ASSUME NEW g, Up(g) PROVE g = f
  <2>1. \A x \in Expr : g[x] = Body(g, x)
    <3> DEFINE new == [x \in Expr |-> Body(g, x)]
    <3> HIDE DEF Body
    <3>1. \A x \in Expr : new[x] = Body(g, x)
      OBVIOUS
    <3>2. g = new
      BY <1>6
    <3> HIDE DEF new
    <3> QED
      BY <3>1, <3>2
  <2>2. g = [x \in Expr |-> g[x]] /\ f = [x \in Expr |-> f[x]]
    BY <1>1, <1>6
  <2> DEFINE Odd == {x \in Expr : g[x] # f[x]}
  <2>3. SUFFICES ASSUME Odd # {} PROVE FALSE
    <3>1. \A x \in Expr : g[x] = f[x]
      BY <2>3
    <3> QED
      BY <2>2, <3>1
  <2>4. PICK x \in Odd : x[1] = "plus" => {x[2], x[3]} \cap Odd = {}
    <3>1. Odd \in SUBSET Expr
      OBVIOUS
    <3> HIDE DEF Odd
    <3> QED
      BY <2>3, <3>1, ExprAssumption
  <2>5. g[x] = Body(g, x) /\ f[x] = Body(f, x) /\ g[x] # f[x]
    BY <1>4, <2>1, <2>4
  <2>6. x[1] = "plus" => g[x[2]] = f[x[2]] /\ g[x[3]] = f[x[3]]
    BY <2>4, ExprAssumption
  <2> QED
    BY <2>5, <2>6
<1>7. \A x : Evaluated(x, v) = f[x]
  <2> SUFFICES ASSUME NEW x PROVE Evaluated(x, v) = f[x]
    OBVIOUS
  <2> QED
    BY <1>5, <1>6 DEF Evaluated
<1> QED
  BY <1>4, <1>7

(***************************************************************************)
(* What stringTemplate makes of an expression matches what the expression  *)
(* evaluates to.                                                           *)
(***************************************************************************)
LEMMA FoldedMatches ==
  ASSUME NEW v \in Value, NEW e \in Expr
  PROVE  /\ Evaluated(e, v) \in Text
         /\ Folded[e] = <<>> \/ \E t \in Text : Folded[e] = <<t>> /\ Matches(t, Evaluated(e, v))
<1> DEFINE Good(x) ==
             /\ Evaluated(x, v) \in Text
             /\ Folded[x] = <<>> \/ \E t \in Text : Folded[x] = <<t>> /\ Matches(t, Evaluated(x, v))
           Odd == {x \in Expr : ~Good(x)}
<1> SUFFICES ASSUME Odd # {} PROVE FALSE
  OBVIOUS
<1>1. PICK x \in Odd : x[1] = "plus" => {x[2], x[3]} \cap Odd = {}
  <2>1. Odd \in SUBSET Expr
    OBVIOUS
  <2> HIDE DEF Odd
  <2> QED
    BY <2>1, ExprAssumption
<1>2. x \in Expr /\ ~Good(x)
  BY <1>1
<1>3. CASE x[1] = "lit"
  <2>1. x[2] \in Text /\ Folded[x] = <<x[2]>> /\ Evaluated(x, v) = x[2]
    BY <1>2, <1>3, FoldedIs, EvaluatedIs, ExprAssumption
  <2> QED
    BY <1>2, <2>1, CoversReflexive DEF Covers
<1>4. CASE x[1] = "plus"
  <2> DEFINE l == x[2]
             r == x[3]
             part(p) == IF p = <<>> THEN <<Placeholder>> ELSE p[1]
  <2>1. l \in Expr /\ r \in Expr /\ Good(l) /\ Good(r)
    BY <1>1, <1>4, ExprAssumption
  <2>2. /\ Folded[x] = Joined(Folded[l], Folded[r])
        /\ Evaluated(x, v) = Evaluated(l, v) \o Evaluated(r, v)
    BY <1>2, <1>4, FoldedIs, EvaluatedIs
  <2>3. ASSUME NEW y, Good(y)
        PROVE  part(Folded[y]) \in Text /\ Matches(part(Folded[y]), Evaluated(y, v))
    <3>1. CASE Folded[y] = <<>>
      <4>1. <<Placeholder>> \in Text
        BY DEF Text
      <4> QED
        BY <2>3, <3>1, <4>1, PlaceholderMatches
    <3>2. CASE Folded[y] # <<>>
      BY <2>3, <3>2
    <3> QED
      BY <3>1, <3>2
  <2>4. /\ part(Folded[l]) \in Text /\ part(Folded[r]) \in Text
        /\ Matches(part(Folded[l]), Evaluated(l, v)) /\ Matches(part(Folded[r]), Evaluated(r, v))
        /\ Evaluated(l, v) \in Text /\ Evaluated(r, v) \in Text
    <3> HIDE DEF part
    <3> QED
      BY <2>1, <2>3
  <2>5. Folded[x] = <<>> \/ Folded[x] = <<part(Folded[l]) \o part(Folded[r])>>
    BY <2>2 DEF Joined
  <2>6. /\ part(Folded[l]) \o part(Folded[r]) \in Text
        /\ Evaluated(x, v) \in Text
        /\ Matches(part(Folded[l]) \o part(Folded[r]), Evaluated(x, v))
    <3> HIDE DEF part
    <3> QED
      BY <2>2, <2>4, MatchesConcat
  <2> HIDE DEF part
  <2> QED
    BY <1>2, <2>5, <2>6
<1>5. CASE x[1] \notin {"lit", "plus"}
  <2>1. Folded[x] = <<>> /\ Evaluated(x, v) = v.text
    BY <1>2, <1>5, FoldedIs, EvaluatedIs
  <2>2. v.text \in Text
    BY ValueAssumption DEF Text
  <2> QED
    BY <1>2, <2>1, <2>2
<1> QED
  BY <1>3, <1>4, <1>5

-----------------------------------------------------------------------------
(* Formats. *)

VerbEnds(s) == [i \in DOMAIN s |-> Or(VerbEnd(s, i), i)]

FmtEnds(s) == [i \in DOMAIN s |-> Verb(s, i)]

\* Every verb that fmt reads in the format is one that verbRe takes.
Recognised(s) ==
    \A i \in Stops(FmtEnds(s), 1) \cap DOMAIN s : s[i] = "%" => VerbEnd(s, i) # 0

LEMMA SpecCharsOnly ==
  ASSUME NEW u \in Text, IsSpec(u), NEW k \in 1..Len(u)
  PROVE  u[k] \in SpecChar
<1>1. Len(u) \in Nat
  BY LenNat
<1>2. ASSUME NEW from \in Nat, NEW to \in Nat, IsSize(u, from, to), k \in from..to
      PROVE  u[k] \in SpecChar
  BY <1>2 DEF IsSize, All, SpecChar
<1>3. PICK f \in 0..Len(u), x \in Nat, w \in Nat :
        /\ x \in {f, f + 1} /\ w \in x..Len(u)
        /\ All(u, 1, f, Flag)
        /\ x = f \/ u[x] = Index
        /\ IsSize(u, x + 1, w)
        /\ w = Len(u) \/ (u[w+1] = "." /\ IsSize(u, w + 2, Len(u)))
  <2>1. PICK f \in 0..Len(u) : \E x \in {f, f + 1} : \E w \in x..Len(u) :
          /\ All(u, 1, f, Flag)
          /\ x = f \/ u[x] = Index
          /\ IsSize(u, x + 1, w)
          /\ w = Len(u) \/ (u[w+1] = "." /\ IsSize(u, w + 2, Len(u)))
    BY DEF IsSpec
  <2>2. f \in Nat /\ {f, f + 1} \subseteq Nat
    BY <1>1
  <2> QED
    BY <1>1, <2>1, <2>2
<1>4. f \in Nat /\ x \in Nat /\ w \in Nat /\ x <= w /\ w <= Len(u)
  BY <1>1, <1>3
<1>5. CASE k <= f
  BY <1>3, <1>4, <1>5 DEF All, SpecChar
<1>6. CASE k = x /\ x # f
  BY <1>3, <1>6 DEF SpecChar
<1>7. CASE k > x /\ k <= w
  BY <1>2, <1>3, <1>4, <1>7
<1>8. CASE k = w + 1
  BY <1>1, <1>3, <1>4, <1>8 DEF SpecChar
<1>9. CASE k >= w + 2
  BY <1>1, <1>2, <1>3, <1>4, <1>9
<1> QED
  BY <1>1, <1>3, <1>4, <1>5, <1>6, <1>7, <1>8, <1>9

\* Where verbRe takes a verb, fmt reads the same one.
LEMMA VerbAgrees ==
  ASSUME NEW s \in Text, NEW i \in 1..Len(s), VerbEnd(s, i) # 0
  PROVE  /\ s[i] = "%" /\ VerbEnd(s, i) \in (i+1)..Len(s)
         /\ Verb(s, i) = VerbEnd(s, i)
<1> DEFINE I == {j \in (i+1)..Len(s) : s[j] \in Letter \cup {"%"}}
           J == {j \in (i+1)..Len(s) : s[j] \notin SpecChar}
           end == IF I # {} THEN Min(I) ELSE 0
<1>1. Len(s) \in Nat
  BY LenNat
<1>2. end = SelectInSubSeq(s, i + 1, Len(s), LAMBDA c : c \in Letter \cup {"%"})
  BY DEF SelectInSubSeq
<1>3. /\ VerbEnd(s, i) = end /\ s[i] = "%" /\ end # 0
      /\ IsSpec(SubSeq(s, i + 1, end - 1))
  <2> HIDE DEF end
  <2> QED
    BY <1>2 DEF VerbEnd
<1>4. I # {} /\ I \subseteq Nat /\ end = Min(I)
  BY <1>1, <1>3
<1>5. end \in I /\ \A j \in I : end <= j
  BY <1>4, MinFacts
<1>6. end \in (i+1)..Len(s) /\ s[end] \in Letter \cup {"%"}
  BY <1>5
<1>7. s[end] \notin SpecChar
  BY <1>6, FormatAssumption, CharAssumption DEF SpecChar, Flag
<1> HIDE DEF I, end
<1>8. ASSUME NEW j \in (i+1)..(end-1) PROVE s[j] \in SpecChar
  <2> DEFINE u == SubSeq(s, i + 1, end - 1)
             k == j - i
  <2>1. \A l \in (i+1)..(end-1) : s[l] \in Char \cup {Placeholder}
    BY <1>1, <1>6 DEF Text
  <2>2. u \in Text /\ Len(u) = end - 1 - i /\ k \in 1..Len(u) /\ u[k] = s[j]
    <3> DEFINE first == i + 1
               last == end - 1
    <3>1. first \in Int /\ last \in Int /\ first <= last /\ i \in Int /\ end \in Int /\ j \in Int
      BY <1>1, <1>6
    <3> HIDE DEF first, last
    <3>2. \A l \in first..last : s[l] \in Char \cup {Placeholder}
      BY <2>1 DEF first, last
    <3>3. /\ SubSeq(s, first, last) \in Seq(Char \cup {Placeholder})
          /\ Len(SubSeq(s, first, last)) = last - first + 1
          /\ \A l \in 1..(last-first+1) : SubSeq(s, first, last)[l] = s[first+l-1]
      BY <3>1, <3>2, SubSeqProperties
    <3>4. k \in 1..(last-first+1) /\ first + k - 1 = j /\ last - first + 1 = end - 1 - i
      BY <3>1 DEF first, last
    <3> QED
      BY <3>3, <3>4 DEF Text, first, last
  <2>3. u[k] \in SpecChar
    <3> HIDE DEF u, k
    <3> QED
      BY <1>3, <2>2, SpecCharsOnly DEF u
  <2> QED
    BY <2>2, <2>3
<1>9. end \in J /\ \A j \in J : end <= j
  BY <1>1, <1>6, <1>7, <1>8
<1>10. J # {} /\ J \subseteq Nat /\ Min(J) = end
  <2>1. J # {} /\ J \subseteq Nat
    BY <1>1, <1>9
  <2>2. Min(J) \in J /\ \A j \in J : Min(J) <= j
    <3> HIDE DEF J
    <3> QED
      BY <2>1, MinFacts
  <2>3. Min(J) \in Nat /\ end \in Nat
    BY <1>6, <2>1, <2>2
  <2> QED
    BY <1>9, <2>1, <2>2, <2>3
<1>11. SelectInSubSeq(s, i + 1, Len(s), LAMBDA c : c \notin SpecChar) = end
  BY <1>10 DEF SelectInSubSeq
<1>12. Verb(s, i) = end
  BY <1>3, <1>11 DEF Verb, Or
<1> QED
  BY <1>3, <1>6, <1>12

LEMMA VerbType ==
  ASSUME NEW s \in Text, NEW i \in 1..Len(s)
  PROVE  Verb(s, i) \in i..Len(s) /\ (s[i] # "%" => Verb(s, i) = i)
<1> DEFINE J == {j \in (i+1)..Len(s) : s[j] \notin SpecChar}
           end == IF J # {} THEN Min(J) ELSE 0
<1>1. Len(s) \in Nat /\ J \subseteq Nat
  BY LenNat
<1>2. end = SelectInSubSeq(s, i + 1, Len(s), LAMBDA c : c \notin SpecChar)
  BY DEF SelectInSubSeq
<1>3. end = 0 \/ end \in (i+1)..Len(s)
  <2>1. J # {} => Min(J) \in J
    <3> HIDE DEF J
    <3> QED
      BY <1>1, MinFacts
  <2> QED
    BY <2>1
<1> HIDE DEF end
<1> QED
  BY <1>1, <1>2, <1>3 DEF Verb, Or

\* The two stop at the same places.
LEMMA SameStops ==
  ASSUME NEW s \in Text, Recognised(s)
  PROVE  /\ Jumps(FmtEnds(s)) /\ Jumps(VerbEnds(s))
         /\ Len(FmtEnds(s)) = Len(s) /\ Len(VerbEnds(s)) = Len(s)
         /\ Stops(VerbEnds(s), 1) = Stops(FmtEnds(s), 1)
<1> DEFINE N == Len(s)
           fmt == FmtEnds(s)
           re == VerbEnds(s)
<1>1. N \in Nat /\ DOMAIN s = 1..N /\ 1 \in 1..(N + 1)
  BY LenNat DEF Text
<1>2. \A i \in 1..N : fmt[i] = Verb(s, i) /\ re[i] = IF VerbEnd(s, i) = 0 THEN i ELSE VerbEnd(s, i)
  BY <1>1 DEF FmtEnds, VerbEnds, Or
<1>3. /\ \A i \in 1..N : fmt[i] \in i..N /\ re[i] \in i..N
      /\ fmt \in Seq(Nat) /\ re \in Seq(Nat) /\ Len(fmt) = N /\ Len(re) = N
  <2>1. \A i \in 1..N : fmt[i] \in i..N /\ re[i] \in i..N
    BY <1>1, <1>2, VerbAgrees, VerbType
  <2>2. fmt = [i \in 1..N |-> fmt[i]] /\ re = [i \in 1..N |-> re[i]]
    BY <1>1 DEF FmtEnds, VerbEnds
  <2>3. \A i \in 1..N : fmt[i] \in Nat /\ re[i] \in Nat
    BY <2>1
  <2> HIDE DEF fmt, re
  <2> QED
    BY <1>1, <2>1, <2>2, <2>3
<1>4. Jumps(fmt) /\ Jumps(re)
  <2> HIDE DEF fmt, re
  <2> QED
    BY <1>3 DEF Jumps
<1>5. \A k \in Stops(fmt, 1) : k # N + 1 => k \in 1..N /\ fmt[k] = re[k]
  <2> SUFFICES ASSUME NEW k \in Stops(fmt, 1), k # N + 1
               PROVE  k \in 1..N /\ fmt[k] = re[k]
    OBVIOUS
  <2>1. k \in 1..N
    <3> HIDE DEF fmt
    <3> QED
      BY <1>1, <1>3, <1>4, StopsFacts
  <2>2. CASE s[k] = "%"
    <3>1. VerbEnd(s, k) # 0
      BY <1>1, <2>1, <2>2 DEF Recognised
    <3> QED
      BY <1>2, <2>1, <3>1, VerbAgrees
  <2>3. CASE s[k] # "%"
    <3>1. VerbEnd(s, k) = 0
      BY <2>3 DEF VerbEnd
    <3> QED
      BY <1>2, <2>1, <2>3, <3>1, VerbType
  <2> QED
    BY <2>1, <2>2, <2>3
<1> HIDE DEF fmt, re
<1>6. Stops(re, 1) \subseteq Stops(fmt, 1)
  <2> DEFINE P == Stops(fmt, 1)
  <2>1. /\ 1 \in P
        /\ \A k \in P : k # N + 1 => fmt[k] + 1 \in P
    BY <1>1, <1>3, <1>4, StopsFacts
  <2>2. \A k \in P \cap Stops(re, 1) : k # Len(re) + 1 => re[k] + 1 \in P
    BY <1>3, <1>5, <2>1
  <2> HIDE DEF P
  <2>3. 1 \in 1..(Len(re) + 1)
    BY <1>1, <1>3
  <2>4. Stops(re, 1) \subseteq P
    BY <1>4, <2>1, <2>2, <2>3, StopsInduction
  <2> QED
    BY <2>4 DEF P
<1>7. Stops(fmt, 1) \subseteq Stops(re, 1)
  <2> DEFINE P == Stops(re, 1)
  <2>1. /\ 1 \in P
        /\ \A k \in P : k # N + 1 => re[k] + 1 \in P
    BY <1>1, <1>3, <1>4, StopsFacts
  <2>2. \A k \in P \cap Stops(fmt, 1) : k # Len(fmt) + 1 => fmt[k] + 1 \in P
    BY <1>3, <1>5, <2>1
  <2> HIDE DEF P
  <2>3. 1 \in 1..(Len(fmt) + 1)
    BY <1>1, <1>3
  <2>4. Stops(fmt, 1) \subseteq P
    BY <1>4, <2>1, <2>2, <2>3, StopsInduction
  <2> QED
    BY <2>4 DEF P
<1> QED
  BY <1>3, <1>4, <1>6, <1>7 DEF fmt, re

\* The value for a verb is one of the values.
LEMMA InTurnType ==
  ASSUME NEW values \in Seq(Text), values # <<>>, NEW n \in Nat, NEW verbs \in SUBSET (1..n),
         NEW i
  PROVE  InTurn(values, verbs, i) \in Text
<1> DEFINE before == {j \in verbs : j < i}
           k == Cardinality(before)
<1>1. k \in Nat
  <2>1. IsFiniteSet(1..n)
    BY FS_Interval
  <2>2. before \subseteq 1..n
    OBVIOUS
  <2> HIDE DEF before
  <2> QED
    BY <2>1, <2>2, FS_Subset, FS_CardinalityType
<1> HIDE DEF k
<1>2. Len(values) \in Nat \ {0} /\ DOMAIN values = 1..Len(values)
  BY EmptySeq
<1>3. \A m \in Nat \ {0} : (k % m) + 1 \in 1..m
  BY <1>1
<1>4. (k % Len(values)) + 1 \in 1..Len(values)
  BY <1>2, <1>3
<1>5. values[(k % Len(values)) + 1] \in Text
  BY <1>2, <1>4
<1> QED
  BY <1>5 DEF InTurn, k

(***************************************************************************)
(* normalizeFormat: the template of a format matches whatever fmt prints   *)
(* for it, if verbRe takes every verb that fmt reads in it.                *)
(***************************************************************************)
THEOREM FormatExplained ==
  ASSUME NEW s \in Text, NEW values \in Seq(Text), values # <<>>, Recognised(s)
  PROVE  /\ Normalized(s) \in Text /\ Sprintf(s, values) \in Text
         /\ Matches(Normalized(s), Sprintf(s, values))
<1> DEFINE N == Len(s)
           S == Stops(FmtEnds(s), 1)
           operand(i) == s[i] = "%" /\ s[Verb(s, i)] # "%"
           verbs == {i \in S \cap DOMAIN s : operand(i)}
           plain(i) == IF VerbEnd(s, i) = 0 THEN <<s[i]>>
                       ELSE IF VerbEnd(s, i) = i + 1 /\ s[i+1] = "%" THEN <<"%">>
                       ELSE <<Placeholder>>
           printed(i) == IF operand(i) THEN InTurn(values, verbs, i) ELSE <<s[i]>>
           x == [i \in 1..N |-> IF i \in S THEN plain(i) ELSE <<>>]
           y == [i \in 1..N |-> IF i \in S THEN printed(i) ELSE <<>>]
<1>1. N \in Nat /\ DOMAIN s = 1..N
  BY LenNat DEF Text
<1>2. Normalized(s) = FlattenSeq(x)
  <2>1. Normalized(s) = Rewritten([i \in DOMAIN s |-> plain(i)], VerbEnds(s))
    BY DEF Normalized, VerbEnds
  <2>2. Rewritten([i \in DOMAIN s |-> plain(i)], VerbEnds(s))
        = FlattenSeq([i \in 1..N |-> IF i \in Stops(VerbEnds(s), 1) THEN plain(i) ELSE <<>>])
    <3> HIDE DEF plain
    <3> QED
      BY <1>1 DEF Rewritten
  <2>3. Stops(VerbEnds(s), 1) = S
    BY SameStops
  <2> QED
    BY <2>1, <2>2, <2>3
<1>3. Sprintf(s, values) = FlattenSeq(y)
  <2>1. Sprintf(s, values) = Rewritten([i \in DOMAIN s |-> printed(i)], FmtEnds(s))
    BY DEF Sprintf, FmtEnds
  <2>2. Rewritten([i \in DOMAIN s |-> printed(i)], FmtEnds(s))
        = FlattenSeq([i \in 1..N |-> IF i \in S THEN printed(i) ELSE <<>>])
    <3> HIDE DEF printed
    <3> QED
      BY <1>1 DEF Rewritten
  <2> QED
    BY <2>1, <2>2
<1>4. <<>> \in Text /\ Matches(<<>>, <<>>)
  <2>1. <<>> \in Text
    BY DEF Text
  <2> QED
    BY <2>1, CoversReflexive DEF Covers
<1>5. ASSUME NEW i \in 1..N, i \in S
      PROVE  plain(i) \in Text /\ printed(i) \in Text /\ Matches(plain(i), printed(i))
  <2>1. <<Placeholder>> \in Text /\ <<"%">> \in Text /\ <<s[i]>> \in Text
    <3>1. s[i] \in Char \cup {Placeholder}
      BY <1>1 DEF Text
    <3>2. "%" \in Char
      BY FormatAssumption
    <3> QED
      BY <3>1, <3>2 DEF Text
  <2>2. InTurn(values, verbs, i) \in Text
    <3>1. verbs \in SUBSET (1..N)
      BY <1>1
    <3> HIDE DEF verbs, N
    <3> QED
      BY <1>1, <3>1, InTurnType
  <2>3. printed(i) \in Text
    <3> HIDE DEF verbs
    <3> QED
      BY <2>1, <2>2
  <2> HIDE DEF verbs
  <2>4. CASE VerbEnd(s, i) = 0
    <3>1. s[i] # "%"
      BY <1>1, <1>5, <2>4 DEF Recognised
    <3>2. plain(i) = <<s[i]>> /\ printed(i) = <<s[i]>>
      BY <2>4, <3>1
    <3> QED
      BY <2>1, <3>2, CoversReflexive DEF Covers
  <2>5. CASE VerbEnd(s, i) # 0 /\ VerbEnd(s, i) = i + 1 /\ s[i+1] = "%"
    <3>1. s[i] = "%" /\ Verb(s, i) = i + 1
      BY <2>5, VerbAgrees
    <3>2. plain(i) = <<"%">> /\ printed(i) = <<"%">>
      BY <2>5, <3>1
    <3> QED
      BY <2>1, <3>2, CoversReflexive DEF Covers
  <2>6. CASE VerbEnd(s, i) # 0 /\ ~(VerbEnd(s, i) = i + 1 /\ s[i+1] = "%")
    <3>1. plain(i) = <<Placeholder>>
      BY <2>6
    <3> HIDE DEF plain, printed
    <3> QED
      BY <2>1, <2>3, <3>1, PlaceholderMatches
  <2> QED
    BY <2>4, <2>5, <2>6
<1>6. /\ x \in Seq(Text) /\ y \in Seq(Text) /\ Len(x) = Len(y) /\ DOMAIN x = 1..N
      /\ \A i \in 1..N : Matches(x[i], y[i])
  <2> HIDE DEF plain, printed, S
  <2>1. \A i \in 1..N : x[i] \in Text /\ y[i] \in Text /\ Matches(x[i], y[i])
    BY <1>4, <1>5
  <2>2. Len(x) = N /\ Len(y) = N
    BY <1>1
  <2> QED
    BY <1>1, <2>1, <2>2
<1> HIDE DEF x, y
<1> QED
  BY <1>2, <1>3, <1>6, MatchesPiecewise

-----------------------------------------------------------------------------
(* What calls print. *)

\* An operand's text is a text, and matches a placeholder.
LEMMA ValueText ==
  ASSUME NEW v \in Value
  PROVE  v.text \in Text /\ Matches(<<Placeholder>>, v.text)
<1>1. v.text \in Text
  BY ValueAssumption DEF Text
<1> QED
  BY <1>1, PlaceholderMatches

LEMMA OperandsMatch ==
  ASSUME NEW text \in Text, NEW message \in Text, Matches(text, message),
         NEW n \in Nat, NEW piece \in Text, NEW y \in Seq(Text), Len(y) = n,
         \A i \in 1..n : Matches(piece, y[i])
  PROVE  /\ text \o Repeat(piece, n) \in Text /\ message \o FlattenSeq(y) \in Text
         /\ Matches(text \o Repeat(piece, n), message \o FlattenSeq(y))
<1> DEFINE x == [i \in 1..n |-> piece]
<1>1. x \in Seq(Text) /\ Len(x) = n /\ DOMAIN x = 1..n
  OBVIOUS
<1>2. \A i \in DOMAIN x : Matches(x[i], y[i])
  OBVIOUS
<1>3. Repeat(piece, n) = FlattenSeq(x)
  BY DEF Repeat
<1> HIDE DEF x
<1>4. FlattenSeq(x) \in Text /\ FlattenSeq(y) \in Text /\ Matches(FlattenSeq(x), FlattenSeq(y))
  BY <1>1, <1>2, MatchesPiecewise
<1> QED
  BY <1>3, <1>4, MatchesConcat

\* n times nothing is nothing.
LEMMA FlattenNothing ==
  ASSUME NEW n \in Nat
  PROVE  FlattenSeq([i \in 1..n |-> <<>>]) = <<>>
<1> DEFINE s == [i \in 1..n |-> <<>>]
<1>1. s \in Seq(Seq({})) /\ Len(s) = n
  OBVIOUS
<1>2. FlattenSeq(s) \in Seq({})
  <2> HIDE DEF s
  <2> QED
    BY <1>1, FlattenType
<1>3. \A t \in Seq({}) : t = <<>>
  OBVIOUS
<1> HIDE DEF s
<1> QED
  BY <1>2, <1>3 DEF s

LEMMA SprintMatches ==
  ASSUME NEW text \in Text, NEW message \in Text, Matches(text, message),
         NEW n \in Nat, NEW o \in Operands(n)
  PROVE  LET template == text \o Repeat(<<Placeholder>>, n)
         IN  /\ template \in Text
             /\ Sprint(message, o) \in Text /\ Matches(template, Sprint(message, o))
             /\ Matches(template, message)
<1> DEFINE y == [i \in DOMAIN o |-> IF i > 1 /\ ~o[i].str /\ ~o[i-1].str
                                    THEN <<Blank>> \o o[i].text ELSE o[i].text]
           z == [i \in 1..n |-> <<>>]
<1>1. DOMAIN o = 1..n /\ \A i \in 1..n : o[i] \in Value
  BY DEF Operands
<1>2. <<Placeholder>> \in Text /\ <<Blank>> \in Text /\ <<>> \in Text
  BY CharAssumption DEF Text
<1>3. \A i \in 1..n : y[i] \in Text
  <2>1. \A l, r \in Text : l \o r \in Text
    BY DEF Text
  <2> QED
    BY <1>1, <1>2, <2>1, ValueText
<1>4. y \in Seq(Text) /\ Len(y) = n /\ \A i \in 1..n : Matches(<<Placeholder>>, y[i])
  <2>1. y = [i \in 1..n |-> y[i]]
    BY <1>1
  <2> HIDE DEF y
  <2>2. y \in Seq(Text) /\ Len(y) = n
    BY <1>3, <2>1
  <2> QED
    BY <1>3, <2>2, PlaceholderMatches
<1>5. Sprint(message, o) = message \o FlattenSeq(y)
  BY DEF Sprint
<1>6. z \in Seq(Text) /\ Len(z) = n /\ \A i \in 1..n : Matches(<<Placeholder>>, z[i])
  BY <1>2, PlaceholderMatches
<1>7. message \o FlattenSeq(z) = message
  BY FlattenNothing, ConcatEmptySeq DEF Text
<1> HIDE DEF y, z
<1> DEFINE piece == <<Placeholder>>
<1> HIDE DEF piece
<1>8. piece \in Text /\ \A i \in 1..n : Matches(piece, y[i]) /\ Matches(piece, z[i])
  BY <1>2, <1>4, <1>6 DEF piece
<1>9. /\ text \o Repeat(piece, n) \in Text /\ message \o FlattenSeq(y) \in Text
      /\ Matches(text \o Repeat(piece, n), message \o FlattenSeq(y))
  BY <1>4, <1>8, OperandsMatch
<1>10. Matches(text \o Repeat(piece, n), message \o FlattenSeq(z))
  BY <1>6, <1>8, OperandsMatch
<1> QED
  BY <1>5, <1>7, <1>9, <1>10 DEF piece

LEMMA TwoSymbols == ASSUME NEW a, NEW c PROVE <<a>> \o <<c>> = <<a, c>>
<1> DEFINE A == {a, c}
           pair == <<a>> \o <<c>>
<1>1. <<a>> \in Seq(A) /\ <<c>> \in Seq(A) /\ <<a, c>> \in Seq(A)
  OBVIOUS
<1>2. Len(<<a>>) = 1 /\ Len(<<c>>) = 1 /\ Len(<<a, c>>) = 2
  OBVIOUS
<1>3. pair \in Seq(A) /\ Len(pair) = 2 /\ pair[1] = a /\ pair[2] = c
  BY <1>1, <1>2, ConcatProperties
<1> HIDE DEF A, pair
<1>4. \A i \in 1..2 : pair[i] = <<a, c>>[i]
  BY <1>3
<1>5. pair = <<a, c>>
  BY <1>1, <1>2, <1>3, <1>4, SeqEqual
<1> QED
  BY <1>5 DEF pair

LEMMA SprintlnMatches ==
  ASSUME NEW text \in Text, NEW message \in Text, Matches(text, message),
         NEW n \in Nat, NEW o \in Operands(n)
  PROVE  /\ text \o Repeat(<<Blank, Placeholder>>, n) \in Text
         /\ Sprintln(message, o) \in Text
         /\ Matches(text \o Repeat(<<Blank, Placeholder>>, n), Sprintln(message, o))
<1> DEFINE y == [i \in DOMAIN o |-> <<Blank>> \o o[i].text]
<1>1. DOMAIN o = 1..n /\ \A i \in 1..n : o[i] \in Value
  BY DEF Operands
<1>2. <<Placeholder>> \in Text /\ <<Blank>> \in Text /\ <<Blank, Placeholder>> \in Text
  BY CharAssumption DEF Text
<1>3. <<Blank>> \o <<Placeholder>> = <<Blank, Placeholder>>
  BY TwoSymbols
<1>4. ASSUME NEW i \in 1..n PROVE y[i] \in Text /\ Matches(<<Blank, Placeholder>>, y[i])
  <2>1. o[i].text \in Text /\ Matches(<<Placeholder>>, o[i].text)
    BY <1>1, ValueText
  <2>2. Matches(<<Blank>>, <<Blank>>)
    BY <1>2, CoversReflexive DEF Covers
  <2>3. y[i] = <<Blank>> \o o[i].text
    BY <1>1
  <2>4. /\ <<Blank>> \o o[i].text \in Text
        /\ Matches(<<Blank>> \o <<Placeholder>>, <<Blank>> \o o[i].text)
    BY <1>2, <2>1, <2>2, MatchesConcat
  <2> HIDE DEF y
  <2> QED
    BY <1>3, <2>3, <2>4
<1>5. y \in Seq(Text) /\ Len(y) = n
  <2>1. y = [i \in 1..n |-> y[i]]
    BY <1>1
  <2> HIDE DEF y
  <2> QED
    BY <1>4, <2>1
<1>6. Sprintln(message, o) = message \o FlattenSeq(y)
  BY DEF Sprintln
<1> DEFINE piece == <<Blank, Placeholder>>
<1> HIDE DEF y, piece
<1>7. piece \in Text /\ \A i \in 1..n : Matches(piece, y[i])
  BY <1>2, <1>4 DEF piece
<1>8. /\ text \o Repeat(piece, n) \in Text /\ message \o FlattenSeq(y) \in Text
      /\ Matches(text \o Repeat(piece, n), message \o FlattenSeq(y))
  BY <1>5, <1>7, OperandsMatch
<1> QED
  BY <1>6, <1>8 DEF piece

\* The format is one constant, or several joined, and fmt's verbs are verbRe's.
Vetted(format) ==
    Folded[format] # <<>> =>
        ~HasPlaceholder(Folded[format][1]) /\ Recognised(Folded[format][1])

LEMMA VettedExplained ==
  ASSUME NEW e \in Expr, Vetted(e), Folded[e] # <<>>, NEW u \in Value, NEW v \in Value, NEW w \in Value
  PROVE  LET line == Sprintf(Evaluated(e, u), <<v.text, w.text>>)
         IN  Normalized(Folded[e][1]) \in Text /\ line \in Text /\ Matches(Normalized(Folded[e][1]), line)
<1>1. PICK t \in Text : Folded[e] = <<t>> /\ Matches(t, Evaluated(e, u))
  BY FoldedMatches
<1>2. Evaluated(e, u) \in Text
  BY FoldedMatches
<1>3. ~HasPlaceholder(t) /\ Recognised(t)
  BY <1>1 DEF Vetted
<1>4. Evaluated(e, u) = t
  BY <1>1, <1>2, <1>3, ExactIsEquality
<1>5. <<v.text, w.text>> \in Seq(Text) /\ <<v.text, w.text>> # <<>>
  BY ValueText
<1> DEFINE values == <<v.text, w.text>>
<1> HIDE DEF values
<1>6. values \in Seq(Text) /\ values # <<>>
  BY <1>5 DEF values
<1>7. /\ Normalized(t) \in Text /\ Sprintf(t, values) \in Text
      /\ Matches(Normalized(t), Sprintf(t, values))
  BY <1>3, <1>6, FormatExplained
<1>8. Folded[e][1] = t
  BY <1>1
<1> QED
  BY <1>4, <1>7, <1>8 DEF values

\* A Matches fact, in the terms of the run.
LEMMA Explained ==
  ASSUME NEW text \in Text, NEW line, line \in Text /\ Matches(text, line)
  PROVE  Takes(text, line)
BY MatchesTakes

\* The operands of a call are expressions.
LEMMA CallArgs ==
  ASSUME NEW call \in Call, IsLogCall(call)
  PROVE  Message(call) \in Expr /\ Len(Extra(call)) \in Nat
<1>1. call.args \in Seq(Expr) /\ At(call) \in {1, 2} /\ Len(call.args) >= At(call)
  BY DEF Call, IsLogCall, At
<1>2. At(call) \in 1..Len(call.args) /\ At(call) + 1 \in Int /\ Len(call.args) \in Int
  BY <1>1, LenNat
<1>3. Extra(call) \in Seq(Expr)
  <2>1. \A i \in (At(call) + 1)..Len(call.args) : call.args[i] \in Expr
    BY <1>1, <1>2
  <2> QED
    BY <1>2, <2>1, SubSeqProperties DEF Extra
<1> QED
  BY <1>1, <1>2, <1>3, LenNat DEF Message

\* A log call's template explains what a logger prints of it.
LEMMA CallExplained ==
  ASSUME NEW call \in Call, IsLogCall(call), LogTemplate(call) # <<>>,
         Kind(call) = "printf" => Vetted(Message(call)), NEW line \in LogLines(call)
  PROVE  Takes(LogTemplate(call)[1], line)
<1> DEFINE e == Message(call)
           n == Len(Extra(call))
<1>1. e \in Expr /\ n \in Nat
  BY CallArgs
<1>2. PICK u \in Value : line \in LinesOf(call, Evaluated(e, u))
  BY DEF LogLines
<1> DEFINE message == Evaluated(e, u)
<1>3. message \in Text
  BY <1>1, FoldedMatches
<1>4. Folded[e] # <<>>
  BY DEF LogTemplate
<1>5. PICK t \in Text : Folded[e] = <<t>> /\ Matches(t, message)
  BY <1>1, <1>4, FoldedMatches
<1>6. Folded[e][1] = t
  BY <1>5
<1> HIDE DEF e, n
<1>7. LogTemplate(call)[1] = IF Kind(call) = "printf" THEN Normalized(t) ELSE Appended(Kind(call), t, n)
  BY <1>6 DEF LogTemplate, e, n
<1>8. CASE call.suffix = "f"
  <2>1. Kind(call) = "printf"
    BY <1>8 DEF Kind
  <2>2. PICK v \in Value, w \in Value : line = Sprintf(message, <<v.text, w.text>>)
    BY <1>2, <1>8 DEF LinesOf
  <2>3. Normalized(t) \in Text /\ line \in Text /\ Matches(Normalized(t), line)
    BY <1>1, <1>4, <1>6, <2>1, <2>2, VettedExplained DEF e
  <2> QED
    BY <1>7, <2>1, <2>3, Explained
<1>9. CASE call.suffix = "ln"
  <2>1. Kind(call) = "println"
    BY <1>9 DEF Kind
  <2>2. PICK o \in Operands(n) : line = Sprintln(message, o)
    BY <1>2, <1>9 DEF LinesOf, n
  <2>3. LogTemplate(call)[1] = t \o Repeat(<<Blank, Placeholder>>, n)
    BY <1>7, <2>1 DEF Appended
  <2>4. LogTemplate(call)[1] \in Text /\ line \in Text /\ Matches(LogTemplate(call)[1], line)
    BY <1>1, <1>3, <1>5, <2>2, <2>3, SprintlnMatches
  <2> QED
    BY <2>4, Explained
<1>10. CASE call.suffix \notin {"f", "ln"} /\ KeepsFields(call)
  <2>1. Kind(call) = "msg"
    BY <1>10 DEF Kind, KeepsFields
  <2>2. line = message
    BY <1>2, <1>10 DEF LinesOf
  <2>3. LogTemplate(call)[1] = t
    BY <1>7, <2>1 DEF Appended
  <2> QED
    BY <1>3, <1>5, <2>2, <2>3, Explained
<1>11. CASE call.suffix \notin {"f", "ln"} /\ ~KeepsFields(call)
  <2>1. Kind(call) = "print"
    BY <1>11 DEF Kind, KeepsFields
  <2>2. line = message \/ \E o \in Operands(n) : line = Sprint(message, o)
    BY <1>2, <1>11 DEF LinesOf, n
  <2>3. LogTemplate(call)[1] = t \o Repeat(<<Placeholder>>, n)
    BY <1>7, <2>1 DEF Appended
  <2>7. \E o : o \in Operands(n)
    <3>1. [i \in 1..n |-> u] \in Operands(n)
      BY DEF Operands
    <3> QED
      BY <3>1
  <2>4. LogTemplate(call)[1] \in Text
    <3>1. PICK o : o \in Operands(n)
      BY <2>7
    <3> QED
      BY <1>1, <1>3, <1>5, <2>3, <3>1, SprintMatches
  <2>5. CASE line = message
    <3>1. PICK o : o \in Operands(n)
      BY <2>7
    <3>2. Matches(LogTemplate(call)[1], line)
      BY <1>1, <1>3, <1>5, <2>3, <2>5, <3>1, SprintMatches
    <3> QED
      BY <1>3, <2>4, <2>5, <3>2, Explained
  <2>6. ASSUME NEW o \in Operands(n), line = Sprint(message, o)
        PROVE  Takes(LogTemplate(call)[1], line)
    <3>1. line \in Text /\ Matches(LogTemplate(call)[1], line)
      BY <1>1, <1>3, <1>5, <2>3, <2>6, SprintMatches
    <3> QED
      BY <2>4, <3>1, Explained
  <2> QED
    BY <2>2, <2>5, <2>6
<1> QED
  BY <1>8, <1>9, <1>10, <1>11

LEMMA ErrFuncType ==
  ASSUME NEW call, IsErrCall(call)
  PROVE  ErrFunc(call).at \in {1, 2} /\ ErrFunc(call).printf \in BOOLEAN /\ ErrFunc(call).wraps \in BOOLEAN
<1> DEFINE r == call.recv
           m == Method(call)
<1>1. r \in DOMAIN errFuncs /\ m \in DOMAIN errFuncs[r]
  BY DEF IsErrCall
<1> HIDE DEF m, r
<1>2. ErrFunc(call) = errFuncs[r][m]
  BY DEF ErrFunc, m, r
<1> DEFINE Typed(ef) == ef.at \in {1, 2} /\ ef.printf \in BOOLEAN /\ ef.wraps \in BOOLEAN
<1>6. DOMAIN errFuncs = {"fmt", "errors", "status"}
  BY DEF errFuncs
<1>3. CASE r = "fmt"
  <2>1. DOMAIN errFuncs.fmt = {"Errorf"}
    BY DEF errFuncs
  <2>2. Typed(errFuncs.fmt.Errorf)
    BY DEF errFuncs
  <2> HIDE DEF Typed
  <2>9. Typed(errFuncs[r][m])
    BY <1>1, <1>3, <2>1, <2>2
  <2> QED
    BY <1>2, <2>9 DEF Typed
<1>4. CASE r = "errors"
  <2>1. DOMAIN errFuncs.errors = {"New", "Errorf", "Wrap", "Wrapf"}
    BY DEF errFuncs
  <2>2. Typed(errFuncs.errors.New)
    BY DEF errFuncs
  <2>3. Typed(errFuncs.errors.Errorf)
    BY DEF errFuncs
  <2>4. Typed(errFuncs.errors.Wrap)
    BY DEF errFuncs
  <2>5. Typed(errFuncs.errors.Wrapf)
    BY DEF errFuncs
  <2> HIDE DEF Typed
  <2>9. Typed(errFuncs[r][m])
    BY <1>1, <1>4, <2>1, <2>2, <2>3, <2>4, <2>5
  <2> QED
    BY <1>2, <2>9 DEF Typed
<1>5. CASE r = "status"
  <2>1. DOMAIN errFuncs.status = {"Error", "Errorf"}
    BY DEF errFuncs
  <2>2. Typed(errFuncs.status.Error)
    BY DEF errFuncs
  <2>3. Typed(errFuncs.status.Errorf)
    BY DEF errFuncs
  <2> HIDE DEF Typed
  <2>9. Typed(errFuncs[r][m])
    BY <1>1, <1>5, <2>1, <2>2, <2>3
  <2> QED
    BY <1>2, <2>9 DEF Typed
<1> QED
  BY <1>1, <1>3, <1>4, <1>5, <1>6

\* A cause is explained by what is appended for it.
LEMMA CauseExplained ==
  ASSUME NEW text \in Text, NEW line \in Text, Matches(text, line), NEW w \in Value
  PROVE  /\ text \o <<":", Blank, Placeholder>> \in Text
         /\ line \o (<<":", Blank>> \o w.text) \in Text
         /\ Matches(text \o <<":", Blank, Placeholder>>, line \o (<<":", Blank>> \o w.text))
<1> DEFINE sep == <<":", Blank>>
           whole == <<":", Blank, Placeholder>>
<1>1. sep \in Text /\ whole \in Text /\ <<Placeholder>> \in Text
  <2>1. ":" \in Char
    BY FormatAssumption
  <2>2. Blank \in Char
    BY CharAssumption
  <2> QED
    BY <2>1, <2>2 DEF Text
<1>2. whole = sep \o <<Placeholder>>
  <2>1. Len(sep) = 2 /\ sep[1] = ":" /\ sep[2] = Blank
    OBVIOUS
  <2>2. Len(whole) = 3 /\ whole[1] = ":" /\ whole[2] = Blank /\ whole[3] = Placeholder
    OBVIOUS
  <2> DEFINE joined == sep \o <<Placeholder>>
             last == <<Placeholder>>
  <2>3. last \in Text /\ Len(last) = 1 /\ last[1] = Placeholder
    BY <1>1
  <2> HIDE DEF sep, whole, last
  <2>4. /\ sep \o last \in Text /\ Len(sep \o last) = 3
        /\ (sep \o last)[1] = ":" /\ (sep \o last)[2] = Blank /\ (sep \o last)[3] = Placeholder
    <3>1. sep \in Seq(Char \cup {Placeholder}) /\ last \in Seq(Char \cup {Placeholder})
      BY <1>1, <2>3 DEF Text
    <3>2. /\ sep \o last \in Seq(Char \cup {Placeholder})
          /\ Len(sep \o last) = Len(sep) + Len(last)
          /\ \A i \in 1..(Len(sep) + Len(last)) :
                (sep \o last)[i] = IF i <= Len(sep) THEN sep[i] ELSE last[i - Len(sep)]
      BY <3>1, ConcatProperties
    <3>3. /\ Len(sep) + Len(last) = 3 /\ 1 \in 1..3 /\ 2 \in 1..3 /\ 3 \in 1..3
          /\ 1 <= Len(sep) /\ 2 <= Len(sep) /\ ~(3 <= Len(sep)) /\ 3 - Len(sep) = 1
      BY <2>1, <2>3
    <3> QED
      BY <2>1, <2>3, <3>2, <3>3 DEF Text
  <2>5. \A i \in 1..3 : whole[i] = (sep \o last)[i]
    BY <2>2, <2>4
  <2>6. whole = sep \o last
    BY <1>1, <2>2, <2>4, <2>5, SeqEqual DEF Text
  <2> QED
    BY <2>6 DEF last
<1> HIDE DEF sep, whole
<1>3. Matches(sep, sep)
  BY <1>1, CoversReflexive DEF Covers
<1>4. w.text \in Text /\ Matches(<<Placeholder>>, w.text)
  BY ValueText
<1>5. sep \o w.text \in Text /\ Matches(sep \o <<Placeholder>>, sep \o w.text)
  BY <1>1, <1>3, <1>4, MatchesConcat
<1>6. /\ text \o whole \in Text /\ line \o (sep \o w.text) \in Text
      /\ Matches(text \o whole, line \o (sep \o w.text))
  BY <1>1, <1>2, <1>5, MatchesConcat
<1> QED
  BY <1>6 DEF sep, whole

\* An error's template explains its text.
LEMMA ErrExplained ==
  ASSUME NEW call \in Call, IsErrCall(call), ErrTemplate(call) # <<>>,
         ErrFunc(call).printf => Vetted(call.args[ErrFunc(call).at]), NEW line \in ErrTexts(call)
  PROVE  Takes(ErrTemplate(call)[1], line)
<1> DEFINE ef == ErrFunc(call)
           e == call.args[ef.at]
<1>1. ef.at \in {1, 2} /\ ef.printf \in BOOLEAN /\ ef.wraps \in BOOLEAN
  BY ErrFuncType
<1>2. e \in Expr
  <2>1. call.args \in Seq(Expr) /\ Len(call.args) >= ef.at
    BY DEF Call, IsErrCall
  <2> QED
    BY <1>1, <2>1, LenNat
<1> DEFINE Printed(v, w) ==
             (IF ef.printf THEN Sprintf(Evaluated(e, v), <<v.text, w.text>>) ELSE Evaluated(e, v))
             \o (IF ef.wraps THEN <<":", Blank>> \o w.text ELSE <<>>)
<1>3. PICK u \in Value, w \in Value : line = Printed(u, w)
  <2>1. PICK u \in Value, w \in Value : line = ErrText(call, u, w)
    BY DEF ErrTexts
  <2>2. ErrText(call, u, w) = Printed(u, w)
    BY DEF ErrText
  <2> QED
    BY <2>1, <2>2
<1>4. Folded[e] # <<>>
  BY DEF ErrTemplate
<1>5. PICK t \in Text : Folded[e] = <<t>> /\ Matches(t, Evaluated(e, u))
  BY <1>2, <1>4, FoldedMatches
<1>6. Folded[e][1] = t
  BY <1>5
<1> DEFINE text == IF ef.printf THEN Normalized(t) ELSE t
           start == IF ef.printf THEN Sprintf(Evaluated(e, u), <<u.text, w.text>>) ELSE Evaluated(e, u)
<1>7. ErrTemplate(call)[1] = IF ef.wraps THEN text \o <<":", Blank, Placeholder>> ELSE text
  BY <1>6 DEF ErrTemplate
<1>8. ef.printf => Vetted(e)
  OBVIOUS
<1> HIDE DEF e, ef
<1>9. text \in Text /\ start \in Text /\ Matches(text, start)
  <2>1. CASE ef.printf
    BY <1>2, <1>4, <1>6, <1>8, <2>1, VettedExplained
  <2>2. CASE ~ef.printf
    BY <1>2, <1>5, <2>2, FoldedMatches
  <2> QED
    BY <2>1, <2>2
<1> HIDE DEF text, start
<1>10. CASE ef.wraps
  <2>1. line = start \o (<<":", Blank>> \o w.text)
    BY <1>3, <1>10 DEF start
  <2> QED
    BY <1>7, <1>9, <1>10, <2>1, CauseExplained, Explained
<1>11. CASE ~ef.wraps
  <2>1. line = start
    BY <1>3, <1>9, <1>11, ConcatEmptySeq DEF start, Text
  <2> QED
    BY <1>7, <1>9, <1>11, <2>1, Explained
<1> QED
  BY <1>1, <1>10, <1>11

-----------------------------------------------------------------------------
\* What vet and the compiler see to: of a call with a format, the format.
CallVetted(call) ==
    IF errors THEN ErrFunc(call).printf => Vetted(call.args[ErrFunc(call).at])
    ELSE Kind(call) = "printf" => Vetted(Message(call))

GoCallsOf(f) == {at \in DOMAIN tree[f].calls : IsCall(tree[f], at)}

Vets(f) == \A at \in GoCallsOf(f) : CallVetted(tree[f].calls[at])

LEMMA GoCallExplained ==
  ASSUME IInv, NEW f \in DOMAIN tree, tree[f].kind = "go",
         NEW at \in GoCallsOf(f), CallVetted(tree[f].calls[at])
  PROVE  Explains(<<f, at>>, CallLevel(tree[f], at),
                  IF errors THEN ErrTexts(tree[f].calls[at]) ELSE LogLines(tree[f].calls[at]))
<1> DEFINE call == tree[f].calls[at]
<1> SUFFICES ASSUME NEW k \in DOMAIN byKey, <<f, at>> \in ToSet(byKey[k])
             PROVE  /\ k[1] = CallLevel(tree[f], at)
                    /\ \A line \in (IF errors THEN ErrTexts(call) ELSE LogLines(call)) :
                          Takes(k[2], line)
  BY DEF Explains
<1>1. call \in Call
  <2>1. tree \in Seq(File)
    BY TreesAssumption DEF IInv, TypeOK
  <2>2. tree[f] \in File
    BY <2>1
  <2>3. tree[f].calls \in Seq(Call) /\ at \in DOMAIN tree[f].calls
    BY <2>2 DEF File, GoCallsOf
  <2> QED
    BY <2>3
<1>2. PICK i \in DOMAIN byKey[k] : byKey[k][i] = <<f, at>>
  BY DEF ToSet
<1>3. Recordable(<<f, at>>) /\ k = Key(<<f, at>>)
  BY <1>2 DEF IInv, Filed
<1>4. /\ CallTemplate(tree[f], at) # <<>>
      /\ k = <<CallLevel(tree[f], at), CallTemplate(tree[f], at)[1]>>
  BY <1>3 DEF Recordable, Key
<1>5. CASE errors
  <2>1. CallTemplate(tree[f], at) = ErrTemplate(call) /\ IsErrCall(call)
    BY <1>5 DEF CallTemplate, IsCall, GoCallsOf
  <2>2. ErrFunc(call).printf => Vetted(call.args[ErrFunc(call).at])
    BY <1>5 DEF CallVetted
  <2> HIDE DEF call
  <2>3. \A line \in ErrTexts(call) : Takes(ErrTemplate(call)[1], line)
    BY <1>1, <1>4, <2>1, <2>2, ErrExplained
  <2> QED
    BY <1>4, <1>5, <2>1, <2>3
<1>6. CASE ~errors
  <2>1. CallTemplate(tree[f], at) = LogTemplate(call) /\ IsLogCall(call)
    BY <1>6 DEF CallTemplate, IsCall, GoCallsOf
  <2>2. Kind(call) = "printf" => Vetted(Message(call))
    BY <1>6 DEF CallVetted
  <2> HIDE DEF call
  <2>3. \A line \in LogLines(call) : Takes(LogTemplate(call)[1], line)
    BY <1>1, <1>4, <2>1, <2>2, CallExplained
  <2> QED
    BY <1>4, <1>6, <2>1, <2>3
<1> QED
  BY <1>5, <1>6

(***************************************************************************)
(* visitCall and visitErrCall, for every tree and every value: what is in  *)
(* the table for a Go file's calls explains what they print, when the      *)
(* formats among them are vetted; so LinesExplained holds of a tree        *)
(* without Rust files, and of every tree scan-errors reads, which skips    *)
(* them.                                                                   *)
(***************************************************************************)
THEOREM GoLinesExplained ==
    Spec => [](/\ \A f \in DOMAIN tree : tree[f].kind = "go" /\ Vets(f) => GoExplained(f)
               /\ (/\ \A f \in DOMAIN tree : tree[f].kind = "go" => Vets(f)
                   /\ errors \/ RustFiles = {}) => LinesExplained)
<1> DEFINE Claim == \A f \in DOMAIN tree : tree[f].kind = "go" /\ Vets(f) => GoExplained(f)
           Others == (/\ \A f \in DOMAIN tree : tree[f].kind = "go" => Vets(f)
                      /\ errors \/ RustFiles = {}) => LinesExplained
<1>1. IInv => Claim
  <2> SUFFICES ASSUME IInv, NEW f \in DOMAIN tree, tree[f].kind = "go", Vets(f)
               PROVE  GoExplained(f)
    OBVIOUS
  <2> SUFFICES ASSUME NEW at \in DOMAIN tree[f].calls, IsCall(tree[f], at)
               PROVE  Explains(<<f, at>>, CallLevel(tree[f], at),
                               IF errors THEN ErrTexts(tree[f].calls[at])
                                         ELSE LogLines(tree[f].calls[at]))
    BY DEF GoExplained
  <2>1. at \in GoCallsOf(f)
    BY DEF GoCallsOf
  <2>2. CallVetted(tree[f].calls[at])
    BY <2>1 DEF Vets
  <2> QED
    BY <2>1, <2>2, GoCallExplained
<1>2. Claim => Others
  <2>1. \A f \in DOMAIN tree : Scanned(tree[f]) /\ (errors \/ RustFiles = {}) => tree[f].kind = "go"
    BY DEF Scanned, RustFiles
  <2> QED
    BY <2>1 DEF LinesExplained
<1>3. IInv => /\ \A f \in DOMAIN tree : tree[f].kind = "go" /\ Vets(f) => GoExplained(f)
              /\ (/\ \A f \in DOMAIN tree : tree[f].kind = "go" => Vets(f)
                  /\ errors \/ RustFiles = {}) => LinesExplained
  BY <1>1, <1>2
<1> QED
  BY <1>3, IInvHolds, PTL
=============================================================================
