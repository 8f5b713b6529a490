---------------------------- MODULE MatchProofs ----------------------------
(***************************************************************************)
(* Matcher.Match, for any manifest, any superseded entries and any line:   *)
(* the merge of the two sorted lists answers exactly what the declarative  *)
(* Best of module Matcher names, the most specific live template that      *)
(* matches, and answers nothing only when none does.                       *)
(*                                                                         *)
(* The inductive invariant is what the two cursors stand for: the lists    *)
(* hold the hits the index allows, in order, and nothing before a cursor   *)
(* matched.                                                                *)
(***************************************************************************)
EXTENDS MatchScan, TemplateTheorems

-----------------------------------------------------------------------------
(* The sorted lists.                                                       *)

\* Sooner is a strict total order on the positions of a manifest.
LEMMA SoonerOrders ==
  ASSUME templates \in Seq(Template)
  PROVE  /\ \A a \in DOMAIN templates : a \in Nat /\ Lit[templates[a].text] \in Nat
         /\ \A a, b \in DOMAIN templates :
               /\ ~(Sooner(a, b) /\ Sooner(b, a))
               /\ a # b => Sooner(a, b) \/ Sooner(b, a)
         /\ \A a, b, c \in DOMAIN templates :
               Sooner(a, b) /\ Sooner(b, c) => Sooner(a, c)
<1>1. \A a \in DOMAIN templates : a \in Nat /\ Lit[templates[a].text] \in Nat
  <2> TAKE a \in DOMAIN templates
  <2>1. a \in Nat /\ templates[a].text \in Texts
    BY PositionFacts
  <2> QED
    BY <2>1, CoversReflexive, LiteralsKept, MatcherAssumption DEF Covers, Lit
<1> QED
  BY <1>1 DEF Sooner, Heavier

(***************************************************************************)
(* A list enumerates its set, each position once, sooner ones first.       *)
(***************************************************************************)
SortedList(s, S) ==
    /\ s \in Seq(S)
    /\ \A k \in S : \E a \in DOMAIN s : s[a] = k
    /\ \A a, b \in DOMAIN s : a < b => Sooner(s[a], s[b])

\* Every set of positions can be sorted: put each where its rank says.
LEMMA SortedIsSorted ==
  ASSUME templates \in Seq(Template), NEW S \in SUBSET DOMAIN templates
  PROVE  SortedList(Sorted(S), S)
<1> DEFINE n == Cardinality(S)
           Sooners(x) == {y \in S : Sooner(y, x)}
           rank == [x \in S |-> Cardinality(Sooners(x)) + 1]
<1>1. IsFiniteSet(S) /\ n \in Nat
  <2>1. Len(templates) \in Nat /\ DOMAIN templates = 1..Len(templates)
    OBVIOUS
  <2>2. IsFiniteSet(1..Len(templates))
    BY <2>1, FS_Interval
  <2> QED
    BY <2>1, <2>2, FS_Subset, FS_CardinalityType
<1>2. \A x \in S : IsFiniteSet(Sooners(x)) /\ Cardinality(Sooners(x)) \in Nat
  <2> TAKE x \in S
  <2>1. Sooners(x) \in SUBSET S
    OBVIOUS
  <2> QED
    BY <1>1, <2>1, FS_Subset, FS_CardinalityType
<1>3. ASSUME NEW x \in S, NEW y \in S, Sooner(x, y)
      PROVE  Cardinality(Sooners(x)) < Cardinality(Sooners(y))
  <2>1. Sooners(x) \subseteq Sooners(y) /\ x \in Sooners(y) /\ x \notin Sooners(x)
    BY <1>3, SoonerOrders
  <2> QED
    BY <1>2, <2>1, FS_Subset
<1>4. \A x \in S : Cardinality(Sooners(x)) < n
  <2> TAKE x \in S
  <2>1. Sooners(x) \in SUBSET S /\ x \notin Sooners(x)
    BY SoonerOrders
  <2> QED
    BY <1>1, <1>2, <2>1, FS_Subset
<1> HIDE DEF Sooners
<1>5. \A x \in S : rank[x] \in 1..n
  BY <1>1, <1>2, <1>4
<1>6. \A x, y \in S : Sooner(x, y) => rank[x] < rank[y]
  BY <1>2, <1>3
<1>7. rank \in [S -> 1..n]
  BY <1>5
<1> HIDE DEF rank
<1>8. rank \in Injection(S, 1..n)
  <2>1. \A x, y \in S : rank[x] = rank[y] => x = y
    BY <1>1, <1>5, <1>6, SoonerOrders
  <2> QED
    BY <1>7, <2>1 DEF Injection, IsInjective
<1>9. rank \in Surjection(S, 1..n)
  <2>1. IsFiniteSet(1..n) /\ Cardinality(1..n) = n
    BY <1>1, FS_Interval
  <2> QED
    BY <1>8, <2>1, FS_Injection
<1> DEFINE f == [k \in 1..n |-> CHOOSE x \in S : rank[x] = k]
<1>10. \A k \in 1..n : f[k] \in S /\ rank[f[k]] = k
  BY <1>9 DEF Surjection
<1>11. f \in [1..n -> S]
  BY <1>10
<1> HIDE DEF f
<1>12. f \in SetToSeqs(S)
  <2>1. \A a, b \in 1..n : a # b => f[a] # f[b]
    BY <1>10
  <2> QED
    BY <1>11, <2>1 DEF SetToSeqs
<1>13. \A a, b \in DOMAIN f : a < b => Sooner(f[a], f[b])
  <2> SUFFICES ASSUME NEW a \in 1..n, NEW b \in 1..n, a < b PROVE Sooner(f[a], f[b])
    BY <1>11
  <2>1. ~(rank[f[b]] < rank[f[a]]) /\ f[a] # f[b]
    BY <1>1, <1>10
  <2> QED
    BY <1>6, <1>10, <2>1, SoonerOrders
<1> DEFINE s == Sorted(S)
<1>14. s \in SetToSeqs(S) /\ \A a, b \in DOMAIN s : a < b => Sooner(s[a], s[b])
  BY <1>12, <1>13 DEF Sorted
<1> HIDE DEF s
<1>15. s \in [1..n -> S] /\ \A a, b \in 1..n : a # b => s[a] # s[b]
  BY <1>14 DEF SetToSeqs
<1>16. s \in Injection(1..n, S)
  BY <1>15 DEF Injection, IsInjective
<1>17. s \in Surjection(1..n, S)
  <2>1. IsFiniteSet(1..n) /\ Cardinality(1..n) = n
    BY <1>1, FS_Interval
  <2> QED
    BY <1>1, <1>16, <2>1, FS_Injection
<1>18. s \in Seq(S) /\ DOMAIN s = 1..n
  BY <1>1, <1>15
<1>19. \A k \in S : \E a \in DOMAIN s : s[a] = k
  BY <1>17, <1>18 DEF Surjection
<1> QED
  BY <1>14, <1>18, <1>19 DEF SortedList, s

-----------------------------------------------------------------------------
(* The inductive invariant.                                                *)

\* The two lists hold what the index allows for the line, in order.
Lists ==
    /\ SortedList(cand, ByTok(templates, live, LineKey[line]))
    /\ SortedList(rest, Rest(templates, live))

\* Nothing before a cursor matched, and nothing is answered before the end.
Tried ==
    /\ pc = "exact" => i = 0 /\ j = 0
    /\ pc # "done" => result = 0
    /\ pc = "merge" =>
          /\ Exact(templates, live, line) = {}
          /\ \A n \in 1..i : <<templates[cand[n]].text, line>> \notin Accepts
          /\ \A n \in 1..j : <<templates[rest[n]].text, line>> \notin Accepts

IInv == TypeOK /\ Lists /\ Tried /\ ScanFindsBest

LEMMA InitIInv == Init => IInv
<1> SUFFICES ASSUME Init PROVE IInv
  OBVIOUS
<1>1. /\ templates \in Seq(Template) /\ live \in SUBSET DOMAIN templates /\ line \in Lines
      /\ i = 0 /\ j = 0 /\ result = 0 /\ pc = "exact"
  BY ManifestsAssumption DEF Init
<1> DEFINE B == ByTok(templates, live, LineKey[line])
           R == Rest(templates, live)
<1>2. B \subseteq live /\ R \subseteq live
  BY DEF ByTok, Rest
<1>3. cand = Sorted(B) /\ rest = Sorted(R)
  BY DEF Init
<1> HIDE DEF B, R
<1>4. SortedList(cand, B) /\ SortedList(rest, R)
  BY <1>1, <1>2, <1>3, SortedIsSorted
<1>5. cand \in Seq(live) /\ rest \in Seq(live)
  BY <1>2, <1>4 DEF SortedList
<1>6. TypeOK
  BY <1>1, <1>5 DEF TypeOK
<1> QED
  BY <1>1, <1>4, <1>6 DEF IInv, Lists, Tried, ScanFindsBest, B, R

\* The hits are what the two lists hold and the line accepts.
LEMMA HitsListed ==
  ASSUME IInv
  PROVE  /\ \A n \in 1..Len(cand) : /\ cand[n] \in ByTok(templates, live, LineKey[line])
                                    /\ cand[n] \in live
         /\ \A n \in 1..Len(rest) : rest[n] \in Rest(templates, live) /\ rest[n] \in live
         /\ \A k \in Hits(templates, live, line) :
               \/ \E n \in 1..Len(cand) : k = cand[n]
               \/ \E n \in 1..Len(rest) : k = rest[n]
         /\ Len(cand) \in Nat /\ Len(rest) \in Nat
         /\ live \subseteq DOMAIN templates /\ templates \in Seq(Template)
<1>1. /\ cand \in Seq(live) /\ rest \in Seq(live)
      /\ live \subseteq DOMAIN templates /\ templates \in Seq(Template)
  BY DEF IInv, TypeOK
<1>2. /\ cand \in Seq(ByTok(templates, live, LineKey[line]))
      /\ \A k \in ByTok(templates, live, LineKey[line]) : \E a \in DOMAIN cand : cand[a] = k
      /\ rest \in Seq(Rest(templates, live))
      /\ \A k \in Rest(templates, live) : \E a \in DOMAIN rest : rest[a] = k
  BY DEF IInv, Lists, SortedList
<1>3. DOMAIN cand = 1..Len(cand) /\ DOMAIN rest = 1..Len(rest)
  BY <1>1
<1>4. Len(cand) \in Nat /\ Len(rest) \in Nat
  BY <1>1
<1>5. \A n \in 1..Len(cand) : cand[n] \in ByTok(templates, live, LineKey[line]) /\ cand[n] \in live
  BY <1>1, <1>2, <1>3
<1>6. \A n \in 1..Len(rest) : rest[n] \in Rest(templates, live) /\ rest[n] \in live
  BY <1>1, <1>2, <1>3
<1>7. \A k \in Hits(templates, live, line) :
         \/ \E n \in 1..Len(cand) : k = cand[n]
         \/ \E n \in 1..Len(rest) : k = rest[n]
  BY <1>2, <1>3 DEF Hits
<1> QED
  BY <1>1, <1>4, <1>5, <1>6, <1>7

\* Sooner templates within a list are before the others for Best as well.
LEMMA ListOrder ==
  ASSUME IInv
  PROVE  /\ \A a, b \in 1..Len(cand) : a < b =>
               /\ Before(templates, cand[a], cand[b])
               /\ Lit[templates[cand[a]].text] >= Lit[templates[cand[b]].text]
         /\ \A a, b \in 1..Len(rest) : a < b =>
               /\ Before(templates, rest[a], rest[b])
               /\ Lit[templates[rest[a]].text] >= Lit[templates[rest[b]].text]
         /\ \A a \in 1..Len(cand), b \in 1..Len(rest) :
               /\ IndexKey[templates[cand[a]].text] # <<>>
               /\ IndexKey[templates[rest[b]].text] = <<>>
               /\ Lit[templates[cand[a]].text] \in Nat
               /\ Lit[templates[rest[b]].text] \in Nat
<1>1. DOMAIN cand = 1..Len(cand) /\ DOMAIN rest = 1..Len(rest)
  BY DEF IInv, TypeOK
<1>2. /\ \A a, b \in 1..Len(cand) : a < b => Sooner(cand[a], cand[b])
      /\ \A a, b \in 1..Len(rest) : a < b => Sooner(rest[a], rest[b])
  BY <1>1 DEF IInv, Lists, SortedList
<1>3. /\ \A a \in 1..Len(cand) : /\ IndexKey[templates[cand[a]].text] # <<>>
                                 /\ cand[a] \in DOMAIN templates
      /\ \A b \in 1..Len(rest) : /\ IndexKey[templates[rest[b]].text] = <<>>
                                 /\ rest[b] \in DOMAIN templates
  BY HitsListed DEF ByTok, Rest
<1>4. /\ \A a \in 1..Len(cand) : Lit[templates[cand[a]].text] \in Nat
      /\ \A b \in 1..Len(rest) : Lit[templates[rest[b]].text] \in Nat
  BY <1>3, HitsListed, SoonerOrders
<1>5. ASSUME NEW a \in 1..Len(cand), NEW b \in 1..Len(cand), a < b
      PROVE  /\ Before(templates, cand[a], cand[b])
             /\ Lit[templates[cand[a]].text] >= Lit[templates[cand[b]].text]
  BY <1>2, <1>3, <1>4, <1>5 DEF Sooner, Before, Heavier
<1>6. ASSUME NEW a \in 1..Len(rest), NEW b \in 1..Len(rest), a < b
      PROVE  /\ Before(templates, rest[a], rest[b])
             /\ Lit[templates[rest[a]].text] >= Lit[templates[rest[b]].text]
  BY <1>2, <1>3, <1>4, <1>6 DEF Sooner, Before, Heavier
<1> QED
  BY <1>3, <1>4, <1>5, <1>6

\* What Best names is one live position.
LEMMA BestIs ==
  ASSUME IInv, NEW k \in Best(templates, live, line)
  PROVE  ({k} \ {0}) = Best(templates, live, line) /\ k \in live /\ k # 0
<1>1. templates \in Seq(Template) /\ live \in SUBSET DOMAIN templates /\ line \in Lines
  BY DEF IInv, TypeOK
<1>2. k \in live /\ \A m \in Best(templates, live, line) : k = m
  BY <1>1, BestMatches
<1>3. k # 0
  BY <1>1, <1>2, PositionFacts
<1> QED
  BY <1>2, <1>3

\* A hit that is before all others is the answer.
LEMMA FirstHitIsBest ==
  ASSUME IInv, pc = "merge", NEW k \in Hits(templates, live, line),
         \A m \in Hits(templates, live, line) \ {k} : Before(templates, k, m)
  PROVE  ({k} \ {0}) = Best(templates, live, line) /\ k \in live /\ k # 0
<1>1. k \in Best(templates, live, line)
  BY DEF Best, IInv, Tried
<1> QED
  BY <1>1, BestIs

LEMMA ListsKept == ASSUME IInv, UNCHANGED <<templates, live, line, cand, rest>> PROVE Lists'
BY DEF IInv, Lists, SortedList, ByTok, Rest, Sooner, Heavier

-----------------------------------------------------------------------------
(* One step of the call.                                                   *)

LEMMA ExactHitIInv == IInv /\ ExactHit => IInv'
<1> SUFFICES ASSUME IInv, ExactHit PROVE IInv'
  OBVIOUS
<1>1. PICK k \in Exact(templates, live, line) :
         (\A m \in Exact(templates, live, line) : m <= k) /\ result' = k
  BY DEF ExactHit
<1>2. UNCHANGED <<templates, live, line, cand, rest, i, j>> /\ pc' = "done"
  BY DEF ExactHit
<1>3. k \in Best(templates, live, line)
  BY <1>1 DEF Best
<1>4. TypeOK'
  BY <1>1, <1>2, <1>3, BestIs DEF IInv, TypeOK
<1>5. Lists'
  BY <1>2, ListsKept
<1>6. Tried' /\ ScanFindsBest'
  BY <1>1, <1>2, <1>3, BestIs DEF Tried, ScanFindsBest
<1> QED
  BY <1>4, <1>5, <1>6 DEF IInv

LEMMA ExactMissIInv == IInv /\ ExactMiss => IInv'
<1> SUFFICES ASSUME IInv, ExactMiss PROVE IInv'
  OBVIOUS
<1>1. /\ UNCHANGED <<templates, live, line, cand, rest, i, j, result>>
      /\ pc = "exact" /\ pc' = "merge"
      /\ Exact(templates, live, line) = {}
  BY DEF ExactMiss
<1>2. TypeOK'
  BY <1>1 DEF IInv, TypeOK
<1>3. Lists'
  BY <1>1, ListsKept
<1>4. i = 0 /\ j = 0 /\ result = 0
  BY <1>1 DEF IInv, Tried
<1>5. 1..0 = {}
  OBVIOUS
<1>6. Tried' /\ ScanFindsBest'
  BY <1>1, <1>4, <1>5 DEF Tried, ScanFindsBest
<1> QED
  BY <1>2, <1>3, <1>6 DEF IInv

(***************************************************************************)
(* The indexed template tried next is before every hit that is left: those *)
(* after it in its own list, and those of the rest, whose next has no more *)
(* literal text.                                                           *)
(***************************************************************************)
LEMMA TryCandIInv == IInv /\ TryCand => IInv'
<1> SUFFICES ASSUME IInv, TryCand PROVE IInv'
  OBVIOUS
<1> DEFINE k == cand[i+1]
<1>1. /\ UNCHANGED <<templates, live, line, cand, rest, j>> /\ i' = i + 1
      /\ pc = "merge" /\ i < Len(cand)
      /\ j < Len(rest) =>
            Lit[templates[cand[i+1]].text] >= Lit[templates[rest[j+1]].text]
  BY DEF TryCand, TakesCand
<1>2. /\ i \in 0..Len(cand) /\ j \in 0..Len(rest)
      /\ Len(cand) \in Nat /\ Len(rest) \in Nat
      /\ i + 1 \in 1..Len(cand)
  BY <1>1, HitsListed DEF IInv, TypeOK
<1>3. /\ Exact(templates, live, line) = {} /\ result = 0
      /\ \A n \in 1..i : <<templates[cand[n]].text, line>> \notin Accepts
      /\ \A n \in 1..j : <<templates[rest[n]].text, line>> \notin Accepts
  BY <1>1 DEF IInv, Tried
<1>4. Lists'
  BY <1>1, ListsKept
<1>5. CASE <<templates[k].text, line>> \in Accepts
  <2>1. result' = k /\ pc' = "done"
    BY <1>5 DEF TryCand, Try
  <2>2. k \in Hits(templates, live, line)
    BY <1>2, <1>5, HitsListed DEF Hits
  <2>3. ASSUME NEW m \in Hits(templates, live, line) \ {k} PROVE Before(templates, k, m)
    <3>1. <<templates[m].text, line>> \in Accepts
      BY DEF Hits
    <3>2. CASE \E n \in 1..Len(cand) : m = cand[n]
      <4>1. PICK n \in 1..Len(cand) : m = cand[n]
        BY <3>2
      <4>2. n \notin 1..i /\ n # i + 1
        BY <1>3, <2>3, <3>1, <4>1
      <4>3. i + 1 < n
        BY <1>2, <4>2
      <4> QED
        BY <1>2, <4>1, <4>3, ListOrder
    <3>3. CASE \E n \in 1..Len(rest) : m = rest[n]
      <4>1. PICK n \in 1..Len(rest) : m = rest[n]
        BY <3>3
      <4>2. n \notin 1..j
        BY <1>3, <3>1, <4>1
      <4>3. j < Len(rest) /\ j + 1 \in 1..Len(rest) /\ (j + 1 = n \/ j + 1 < n)
        BY <1>2, <4>2
      <4>4. /\ Lit[templates[rest[j+1]].text] >= Lit[templates[rest[n]].text]
            /\ Lit[templates[k].text] \in Nat
            /\ Lit[templates[rest[j+1]].text] \in Nat
            /\ Lit[templates[rest[n]].text] \in Nat
        BY <1>2, <4>3, ListOrder
      <4>5. Lit[templates[k].text] >= Lit[templates[m].text]
        BY <1>1, <4>1, <4>3, <4>4
      <4>6. IndexKey[templates[k].text] # <<>> /\ IndexKey[templates[m].text] = <<>>
        BY <1>2, <4>1, ListOrder
      <4> QED
        BY <4>1, <4>4, <4>5, <4>6 DEF Before, Heavier
    <3> QED
      BY <3>2, <3>3, HitsListed
  <2>4. ({k} \ {0}) = Best(templates, live, line) /\ k \in live /\ k # 0
    BY <1>1, <2>2, <2>3, FirstHitIsBest
  <2>5. TypeOK'
    BY <1>1, <1>2, <2>1, <2>4 DEF IInv, TypeOK
  <2>6. Tried' /\ ScanFindsBest'
    BY <1>1, <2>1, <2>4 DEF Tried, ScanFindsBest
  <2> QED
    BY <1>4, <2>5, <2>6 DEF IInv
<1>6. CASE <<templates[k].text, line>> \notin Accepts
  <2>1. result' = result /\ pc' = pc
    BY <1>6 DEF TryCand, Try
  <2>2. TypeOK'
    BY <1>1, <1>2, <2>1 DEF IInv, TypeOK
  <2>3. \A n \in 1..(i + 1) : <<templates[cand[n]].text, line>> \notin Accepts
    BY <1>2, <1>3, <1>6
  <2>4. Tried' /\ ScanFindsBest'
    BY <1>1, <1>3, <2>1, <2>3 DEF Tried, ScanFindsBest
  <2> QED
    BY <1>4, <2>2, <2>4 DEF IInv
<1> QED
  BY <1>5, <1>6

\* The other way round: the rest goes first only when it has more literal text.
LEMMA TryRestIInv == IInv /\ TryRest => IInv'
<1> SUFFICES ASSUME IInv, TryRest PROVE IInv'
  OBVIOUS
<1> DEFINE k == rest[j+1]
<1>1. /\ UNCHANGED <<templates, live, line, cand, rest, i>> /\ j' = j + 1
      /\ pc = "merge" /\ j < Len(rest)
      /\ \/ ~(i < Len(cand))
         \/ ~(Lit[templates[cand[i+1]].text] >= Lit[templates[rest[j+1]].text])
  BY DEF TryRest, TakesCand
<1>2. /\ i \in 0..Len(cand) /\ j \in 0..Len(rest)
      /\ Len(cand) \in Nat /\ Len(rest) \in Nat
      /\ j + 1 \in 1..Len(rest)
  BY <1>1, HitsListed DEF IInv, TypeOK
<1>3. /\ Exact(templates, live, line) = {} /\ result = 0
      /\ \A n \in 1..i : <<templates[cand[n]].text, line>> \notin Accepts
      /\ \A n \in 1..j : <<templates[rest[n]].text, line>> \notin Accepts
  BY <1>1 DEF IInv, Tried
<1>4. Lists'
  BY <1>1, ListsKept
<1>5. CASE <<templates[k].text, line>> \in Accepts
  <2>1. result' = k /\ pc' = "done"
    BY <1>5 DEF TryRest, Try
  <2>2. k \in Hits(templates, live, line)
    BY <1>2, <1>5, HitsListed DEF Hits
  <2>3. ASSUME NEW m \in Hits(templates, live, line) \ {k} PROVE Before(templates, k, m)
    <3>1. <<templates[m].text, line>> \in Accepts
      BY DEF Hits
    <3>2. CASE \E n \in 1..Len(rest) : m = rest[n]
      <4>1. PICK n \in 1..Len(rest) : m = rest[n]
        BY <3>2
      <4>2. n \notin 1..j /\ n # j + 1
        BY <1>3, <2>3, <3>1, <4>1
      <4>3. j + 1 < n
        BY <1>2, <4>2
      <4> QED
        BY <1>2, <4>1, <4>3, ListOrder
    <3>3. CASE \E n \in 1..Len(cand) : m = cand[n]
      <4>1. PICK n \in 1..Len(cand) : m = cand[n]
        BY <3>3
      <4>2. n \notin 1..i
        BY <1>3, <3>1, <4>1
      <4>3. i < Len(cand) /\ i + 1 \in 1..Len(cand) /\ (i + 1 = n \/ i + 1 < n)
        BY <1>2, <4>2
      <4>4. /\ Lit[templates[cand[i+1]].text] >= Lit[templates[cand[n]].text]
            /\ Lit[templates[k].text] \in Nat
            /\ Lit[templates[cand[i+1]].text] \in Nat
            /\ Lit[templates[cand[n]].text] \in Nat
        BY <1>2, <4>3, ListOrder
      <4>5. Lit[templates[k].text] > Lit[templates[m].text]
        BY <1>1, <4>1, <4>3, <4>4
      <4> QED
        BY <4>5 DEF Before, Heavier
    <3> QED
      BY <3>2, <3>3, HitsListed
  <2>4. ({k} \ {0}) = Best(templates, live, line) /\ k \in live /\ k # 0
    BY <1>1, <2>2, <2>3, FirstHitIsBest
  <2>5. TypeOK'
    BY <1>1, <1>2, <2>1, <2>4 DEF IInv, TypeOK
  <2>6. Tried' /\ ScanFindsBest'
    BY <1>1, <2>1, <2>4 DEF Tried, ScanFindsBest
  <2> QED
    BY <1>4, <2>5, <2>6 DEF IInv
<1>6. CASE <<templates[k].text, line>> \notin Accepts
  <2>1. result' = result /\ pc' = pc
    BY <1>6 DEF TryRest, Try
  <2>2. TypeOK'
    BY <1>1, <1>2, <2>1 DEF IInv, TypeOK
  <2>3. \A n \in 1..(j + 1) : <<templates[rest[n]].text, line>> \notin Accepts
    BY <1>2, <1>3, <1>6
  <2>4. Tried' /\ ScanFindsBest'
    BY <1>1, <1>3, <2>1, <2>3 DEF Tried, ScanFindsBest
  <2> QED
    BY <1>4, <2>2, <2>4 DEF IInv
<1> QED
  BY <1>5, <1>6

\* Both lists are exhausted: there is no hit.
LEMMA NoMatchIInv == IInv /\ NoMatch => IInv'
<1> SUFFICES ASSUME IInv, NoMatch PROVE IInv'
  OBVIOUS
<1>1. /\ UNCHANGED <<templates, live, line, cand, rest, i, j, result>>
      /\ pc = "merge" /\ pc' = "done" /\ i = Len(cand) /\ j = Len(rest)
  BY DEF NoMatch
<1>2. TypeOK'
  BY <1>1 DEF IInv, TypeOK
<1>3. Lists'
  BY <1>1, ListsKept
<1>4. Exact(templates, live, line) = {} /\ result = 0
  BY <1>1 DEF IInv, Tried
<1>5. Hits(templates, live, line) = {}
  <2> SUFFICES ASSUME NEW m \in Hits(templates, live, line) PROVE FALSE
    OBVIOUS
  <2>1. <<templates[m].text, line>> \in Accepts
    BY DEF Hits
  <2> QED
    BY <1>1, <2>1, HitsListed DEF IInv, Tried
<1>6. Best(templates, live, line) = {}
  BY <1>4, <1>5 DEF Best
<1>7. Tried' /\ ScanFindsBest'
  BY <1>1, <1>4, <1>6 DEF Tried, ScanFindsBest
<1> QED
  BY <1>2, <1>3, <1>7 DEF IInv

LEMMA NextIInv == IInv /\ [Next]_vars => IInv'
<1> SUFFICES ASSUME IInv, [Next]_vars PROVE IInv'
  OBVIOUS
<1>1. CASE UNCHANGED vars
  <2>1. Lists'
    BY <1>1, ListsKept DEF vars
  <2> QED
    BY <1>1, <2>1 DEF vars, IInv, TypeOK, Tried, ScanFindsBest
<1> QED
  BY <1>1, ExactHitIInv, ExactMissIInv, TryCandIInv, TryRestIInv, NoMatchIInv DEF Next

LEMMA IInvHolds == Spec => []IInv
  BY InitIInv, NextIInv, PTL DEF Spec

-----------------------------------------------------------------------------
(* The theorems.                                                           *)

\* Cursors stay within their lists and the answer is a live position.
THEOREM MatchTyped == Spec => []TypeOK
<1>1. IInv => TypeOK
  BY DEF IInv
<1> QED
  BY <1>1, IInvHolds, PTL

(***************************************************************************)
(* The merge answers what Best names, so the gate and the pipeline may use *)
(* Best where the code calls Match.                                        *)
(***************************************************************************)
THEOREM MergeFindsBest == Spec => []ScanFindsBest
<1>1. IInv => ScanFindsBest
  BY DEF IInv
<1> QED
  BY <1>1, IInvHolds, PTL

(***************************************************************************)
(* Match comes back empty-handed only when no live template matches the    *)
(* line: by IndexSound none hides under another first word.                *)
(***************************************************************************)
THEOREM NothingLostByIndex == Spec => []IndexLosesNothing
<1>1. IInv => IndexLosesNothing
  <2> SUFFICES ASSUME IInv, pc = "done", result = 0,
                      NEW k \in live, <<templates[k].text, line>> \in Accepts
               PROVE  FALSE
    BY DEF IndexLosesNothing
  <2>1. Best(templates, live, line) = {}
    BY DEF IInv, ScanFindsBest
  <2>2. templates \in Seq(Template) /\ live \in SUBSET DOMAIN templates /\ line \in Lines
    BY DEF IInv, TypeOK
  <2> QED
    BY <2>1, <2>2, MatchComplete
<1> QED
  BY <1>1, IInvHolds, PTL

(***************************************************************************)
(* No live template that matches the line has more literal text than the   *)
(* one answered, whichever of the three structures holds them.             *)
(***************************************************************************)
THEOREM AnswerMostSpecific == Spec => []MostSpecificWins
<1>1. IInv => MostSpecificWins
  <2> SUFFICES ASSUME IInv, result # 0,
                      NEW k \in live, <<templates[k].text, line>> \in Accepts
               PROVE  ~Heavier(templates, k, result)
    BY DEF MostSpecificWins
  <2>1. result \in Best(templates, live, line)
    BY DEF IInv, Tried, ScanFindsBest
  <2>2. templates \in Seq(Template) /\ live \in SUBSET DOMAIN templates /\ line \in Lines
    BY DEF IInv, TypeOK
  <2>3. PICK m \in Best(templates, live, line) : ~Heavier(templates, k, m)
    BY <2>2, MatchComplete
  <2>4. m = result
    BY <2>1, <2>2, <2>3, BestMatches
  <2> QED
    BY <2>3, <2>4
<1> QED
  BY <1>1, IInvHolds, PTL
=============================================================================
