-------------------------- MODULE TemplateTheorems --------------------------
(***************************************************************************)
(* Covering, for texts of any length over any alphabet, is a preorder: a   *)
(* template that covers another matches every line the other matches.      *)
(* What the matcher's exact map, its order and its first-word index rest   *)
(* on, so that Best (module Matcher) answers whenever something matches.   *)
(* And that texts which match piece by piece match as a whole.             *)
(***************************************************************************)
EXTENDS Matcher, FiniteSetTheorems, SequenceTheorems, WellFoundedInduction, TLAPS

LEMMA LenNat == ASSUME NEW x \in Text PROVE Len(x) \in Nat
  BY DEF Text

\* An entry covers a candidate with its own text (catalog.go: a duplicate).
THEOREM CoversReflexive == ASSUME NEW x \in Text PROVE Covers(x, x)
<1> DEFINE at == [i \in 0..Len(x) |-> i]
<1>1. Len(x) \in Nat
  BY LenNat
<1>2. at \in [0..Len(x) -> 0..Len(x)]
  OBVIOUS
<1>3. at[0] = 0 /\ at[Len(x)] = Len(x)
  BY <1>1
<1>4. \A i, j \in 0..Len(x) : i <= j => at[i] <= at[j]
  OBVIOUS
<1>5. \A i \in 1..Len(x) : at[i] = at[i-1] + 1 /\ x[at[i]] = x[i]
  BY <1>1
<1>6. IsAlignment(at, x, x)
  BY <1>3, <1>4, <1>5 DEF IsAlignment
<1> QED
  BY <1>2, <1>6 DEF Covers, Matches

\* Alignments compose: subsume then match is match.  A literal of x is a
\* literal of y where it lands, so it lands on itself in z.
THEOREM MatchesTransitive ==
  ASSUME NEW x \in Text, NEW y \in Text, NEW z \in Text,
         Matches(x, y), Matches(y, z)
  PROVE  Matches(x, z)
<1>1. PICK e \in [0..Len(x) -> 0..Len(y)] : IsAlignment(e, x, y)
  BY DEF Matches
<1>2. PICK f \in [0..Len(y) -> 0..Len(z)] : IsAlignment(f, y, z)
  BY DEF Matches
<1> DEFINE at == [i \in 0..Len(x) |-> f[e[i]]]
<1>3. Len(x) \in Nat /\ Len(y) \in Nat /\ Len(z) \in Nat
  BY LenNat
<1>4. at \in [0..Len(x) -> 0..Len(z)]
  BY <1>1, <1>2
<1>5. at[0] = 0 /\ at[Len(x)] = Len(z)
  BY <1>1, <1>2, <1>3 DEF IsAlignment
<1>6. \A i, j \in 0..Len(x) : i <= j => at[i] <= at[j]
  <2> SUFFICES ASSUME NEW i \in 0..Len(x), NEW j \in 0..Len(x), i <= j
               PROVE  f[e[i]] <= f[e[j]]
    OBVIOUS
  <2>1. e[i] \in 0..Len(y) /\ e[j] \in 0..Len(y) /\ e[i] <= e[j]
    BY <1>1 DEF IsAlignment
  <2> QED
    BY <2>1, <1>2 DEF IsAlignment
<1>7. ASSUME NEW i \in 1..Len(x), x[i] # Placeholder
      PROVE  at[i] = at[i-1] + 1 /\ z[at[i]] = x[i]
  <2>1. i \in 0..Len(x) /\ i-1 \in 0..Len(x)
    BY <1>3
  <2>2. e[i] = e[i-1] + 1 /\ y[e[i]] = x[i]
    BY <1>1, <1>7 DEF IsAlignment
  <2>3. e[i] \in 0..Len(y) /\ e[i-1] \in 0..Len(y)
    BY <1>1, <2>1
  <2>4. e[i] \in 1..Len(y)
    BY <2>2, <2>3, <1>3
  <2>5. f[e[i]] = f[e[i]-1] + 1 /\ z[f[e[i]]] = y[e[i]]
    BY <1>2, <1>7, <2>2, <2>4 DEF IsAlignment
  <2>6. e[i] - 1 = e[i-1]
    BY <2>2, <2>3
  <2> QED
    BY <2>1, <2>2, <2>5, <2>6
<1>8. IsAlignment(at, x, z)
  BY <1>5, <1>6, <1>7 DEF IsAlignment
<1> QED
  BY <1>4, <1>8 DEF Matches

-----------------------------------------------------------------------------
(* A non-empty set of naturals has a least element.                        *)
LEMMA LeastNat ==
  ASSUME NEW T, T \subseteq Nat, T # {}
  PROVE  \E x \in T : \A y \in T : x <= y
<1> DEFINE R == {ss \in Nat \X Nat : ss[1] < ss[2]}
<1>1. IsWellFoundedOn(R, Nat)
  BY NatLessThanWellFounded DEF OpToRel
<1>2. \A x, y \in Nat : y < x => <<y, x>> \in R
  OBVIOUS
<1> HIDE DEF R
<1>3. PICK x \in T : \A y \in T : ~(<<y, x>> \in R)
  BY <1>1, WFMin
<1>4. \A y \in T : ~(y < x) /\ x \in Nat /\ y \in Nat
  BY <1>2, <1>3
<1> QED
  BY <1>4

LEMMA MinFacts ==
  ASSUME NEW T, T \subseteq Nat, T # {}
  PROVE  Min(T) \in T /\ \A y \in T : Min(T) <= y
BY LeastNat DEF Min

\* A bounded set of naturals has a greatest element.
LEMMA GreatestNat ==
  ASSUME NEW n \in Nat, NEW T, T \subseteq 0..n, T # {}
  PROVE  \E t \in T : \A u \in T : u <= t
<1> DEFINE R == {n - t : t \in T}
<1>1. R \subseteq Nat /\ R # {}
  <2>1. \A t \in T : n - t \in Nat
    OBVIOUS
  <2> QED
    BY <2>1
<1>2. PICK r \in R : \A q \in R : r <= q
  <2> HIDE DEF R
  <2> QED
    BY <1>1, LeastNat
<1>3. PICK t \in T : r = n - t
  OBVIOUS
<1>4. \A u \in T : n - t <= n - u /\ u \in Nat /\ t \in Nat
  BY <1>2, <1>3
<1> QED
  BY <1>4

(***************************************************************************)
(* The first field of s, as strings.Fields cuts it: blanks, then from..to. *)
(***************************************************************************)
FieldAt(s, from, to) ==
    /\ from \in 1..Len(s) /\ to \in from..Len(s)
    /\ \A k \in 1..from-1 : s[k] = Blank
    /\ \A k \in from..to : s[k] # Blank
    /\ to < Len(s) => s[to+1] = Blank

LEMMA FirstFieldFacts ==
  ASSUME NEW s \in Text
  PROVE  \/ FirstField(s) = <<>> /\ \A k \in 1..Len(s) : s[k] = Blank
         \/ \E from, to \in Nat : FieldAt(s, from, to) /\ FirstField(s) = SubSeq(s, from, to)
<1> DEFINE I    == {k \in 1..Len(s) : s[k] # Blank}
           from == IF I # {} THEN Min(I) ELSE 0
           J    == {k \in from..Len(s) : s[k] = Blank}
           stop == IF J # {} THEN Min(J) ELSE 0
<1>1. Len(s) \in Nat
  BY LenNat
<1>2. FirstField(s) = IF from = 0 THEN <<>>
                      ELSE SubSeq(s, from, IF stop = 0 THEN Len(s) ELSE stop - 1)
  BY DEF FirstField, SelectInSeq, SelectInSubSeq
<1>3. CASE I = {}
  BY <1>2, <1>3
<1>4. CASE I # {}
  <2>1. /\ from \in 1..Len(s) /\ from \in Nat
        /\ s[from] # Blank /\ \A k \in 1..from-1 : s[k] = Blank
    <3>1. I \subseteq Nat
      BY <1>1
    <3>2. Min(I) \in I /\ \A k \in I : Min(I) <= k
      BY <1>4, <3>1, MinFacts
    <3>3. from = Min(I)
      BY <1>4
    <3>4. from \in I /\ \A k \in I : from <= k
      BY <3>2, <3>3
    <3> HIDE DEF from
    <3> QED
      BY <1>1, <3>4
  <2> HIDE DEF I, from
  <2>2. CASE J = {}
    <3>1. \A k \in from..Len(s) : s[k] # Blank
      BY <2>2
    <3>2. FieldAt(s, from, Len(s))
      BY <1>1, <2>1, <3>1 DEF FieldAt
    <3>3. FirstField(s) = SubSeq(s, from, Len(s)) /\ from \in Nat
      BY <1>1, <1>2, <2>1, <2>2
    <3> QED
      BY <1>1, <3>2, <3>3
  <2>3. CASE J # {}
    <3>1. J \subseteq Nat
      BY <1>1, <2>1
    <3>2. Min(J) \in J /\ \A k \in J : Min(J) <= k
      BY <2>3, <3>1, MinFacts
    <3>3. stop = Min(J)
      BY <2>3
    <3>4. stop \in J /\ \A k \in J : stop <= k
      BY <3>2, <3>3
    <3> HIDE DEF stop
    <3>5. /\ stop \in from..Len(s) /\ s[stop] = Blank
          /\ \A k \in from..stop-1 : s[k] # Blank
      BY <1>1, <2>1, <3>4
    <3> HIDE DEF J
    <3>6. stop # from
      BY <2>1, <3>5
    <3>7. /\ stop - 1 \in from..Len(s) /\ stop - 1 \in Nat /\ from \in Nat
          /\ stop - 1 < Len(s) /\ (stop - 1) + 1 = stop /\ stop # 0
      BY <1>1, <2>1, <3>5, <3>6
    <3>8. FieldAt(s, from, stop - 1)
      BY <2>1, <3>5, <3>7 DEF FieldAt
    <3>9. FirstField(s) = SubSeq(s, from, stop - 1)
      BY <1>2, <2>1, <3>7
    <3> QED
      BY <3>7, <3>8, <3>9
  <2> QED
    BY <2>2, <2>3
<1> QED
  BY <1>3, <1>4

\* There is at most one first field.
LEMMA FirstFieldIs ==
  ASSUME NEW s \in Text, NEW from \in Nat, NEW to \in Nat, FieldAt(s, from, to)
  PROVE  FirstField(s) = SubSeq(s, from, to)
<1>1. Len(s) \in Nat
  BY LenNat
<1>2. ~ \A k \in 1..Len(s) : s[k] = Blank
  BY <1>1 DEF FieldAt
<1>3. PICK f \in Nat, t \in Nat : FieldAt(s, f, t) /\ FirstField(s) = SubSeq(s, f, t)
  BY <1>2, FirstFieldFacts
<1>4. f = from
  <2>1. ~(f < from) /\ ~(from < f)
    BY <1>1, <1>3 DEF FieldAt
  <2> QED
    BY <2>1
<1>5. t = to
  <2>1. ~(t < to) /\ ~(to < t)
    BY <1>1, <1>3, <1>4 DEF FieldAt
  <2> QED
    BY <2>1
<1> QED
  BY <1>3, <1>4, <1>5

(***************************************************************************)
(* Up to its first placeholder a template is a prefix of what it matches:  *)
(* an alignment moves in step with it.                                     *)
(***************************************************************************)
LEMMA LiteralPrefix ==
  ASSUME NEW text \in Text, NEW line \in Text,
         NEW at \in [0..Len(text) -> 0..Len(line)], IsAlignment(at, text, line),
         NEW n \in 0..Len(text), \A k \in 1..n : text[k] # Placeholder
  PROVE  \A k \in 0..n : at[k] = k /\ (k # 0 => line[k] = text[k])
<1>1. Len(text) \in Nat /\ Len(line) \in Nat
  BY LenNat
<1>2. \A k \in 0..n : at[k] = k
  <2> DEFINE T == {k \in 0..n : at[k] # k}
  <2>1. SUFFICES ASSUME T # {} PROVE FALSE
    OBVIOUS
  <2>2. T \subseteq Nat
    BY <1>1
  <2>3. PICK k \in T : \A m \in T : k <= m
    BY <2>1, <2>2, LeastNat
  <2>4. k \in 0..n /\ at[k] # k
    BY <2>3
  <2>5. k # 0
    BY <2>4 DEF IsAlignment
  <2>6. k \in 1..n /\ k - 1 \in 0..n /\ ~(k <= k - 1)
    BY <1>1, <2>4, <2>5
  <2>7. at[k-1] = k - 1
    BY <2>3, <2>6
  <2>8. at[k] = at[k-1] + 1
    BY <1>1, <2>6 DEF IsAlignment
  <2> QED
    BY <1>1, <2>4, <2>6, <2>7, <2>8
<1>3. \A k \in 1..n : line[at[k]] = text[k]
  BY <1>1 DEF IsAlignment
<1> QED
  BY <1>1, <1>2, <1>3

(***************************************************************************)
(* The first-word index loses nothing (decisions.md 42): a template that   *)
(* is kept under a literal first word matches only lines whose first word  *)
(* is that word, so looking under the line's first word finds it.          *)
(***************************************************************************)
THEOREM IndexSound ==
  ASSUME NEW text \in Text, NEW line \in Text,
         Matches(text, line), FirstLiteralToken(text) # <<>>
  PROVE  FirstField(line) = FirstLiteralToken(text)
<1>1. Len(text) \in Nat /\ Len(line) \in Nat
  BY LenNat
<1>2. PICK at \in [0..Len(text) -> 0..Len(line)] : IsAlignment(at, text, line)
  BY DEF Matches
<1>3. /\ FirstLiteralToken(text) = FirstField(text)
      /\ FirstField(text) # <<>> /\ ~HasPlaceholder(FirstField(text))
  BY DEF FirstLiteralToken
<1>4. PICK from \in Nat, to \in Nat :
         FieldAt(text, from, to) /\ FirstField(text) = SubSeq(text, from, to)
  BY <1>3, FirstFieldFacts
<1>5. from \in 1..Len(text) /\ to \in from..Len(text)
  BY <1>4 DEF FieldAt
<1>6. \A k \in from..to : text[k] # Placeholder
  <2> SUFFICES ASSUME NEW k \in from..to, text[k] = Placeholder PROVE FALSE
    OBVIOUS
  <2>1. /\ Len(SubSeq(text, from, to)) = to - from + 1
        /\ k - from + 1 \in 1..Len(SubSeq(text, from, to))
        /\ SubSeq(text, from, to)[k - from + 1] = text[k]
    BY <1>1, <1>5 DEF Text
  <2>2. SubSeq(text, from, to) \in Seq(Char \cup {Placeholder})
    BY <1>1, <1>5 DEF Text
  <2>3. Placeholder \in ToSet(SubSeq(text, from, to))
    BY <2>1, <2>2 DEF ToSet
  <2> QED
    BY <1>3, <1>4, <2>3 DEF HasPlaceholder
<1>7. \A k \in 1..to : text[k] # Placeholder
  <2>1. Blank # Placeholder
    BY CharAssumption
  <2>2. \A k \in 1..from-1 : text[k] = Blank
    BY <1>4 DEF FieldAt
  <2> QED
    BY <1>1, <1>5, <1>6, <2>1, <2>2
<1>8. \A k \in 0..to : at[k] = k /\ (k # 0 => line[k] = text[k])
  BY <1>1, <1>2, <1>5, <1>7, LiteralPrefix
<1>9. at[to] = to /\ to \in 1..Len(line)
  BY <1>1, <1>2, <1>5, <1>8
<1>10. to < Len(line) => line[to+1] = Blank
  <2>1. CASE to = Len(text)
    BY <1>1, <1>2, <1>9, <2>1 DEF IsAlignment
  <2>2. CASE to < Len(text)
    <3>1. text[to+1] = Blank /\ to+1 \in 1..Len(text)
      BY <1>1, <1>4, <1>5, <2>2 DEF FieldAt
    <3>2. text[to+1] # Placeholder
      BY <3>1, CharAssumption
    <3>3. at[to+1] = at[to] + 1 /\ line[at[to+1]] = Blank
      <4>1. (to + 1) - 1 = to
        BY <1>1, <1>5
      <4> QED
        BY <1>2, <3>1, <3>2, <4>1 DEF IsAlignment
    <3> QED
      BY <1>9, <3>3
  <2> QED
    BY <1>1, <1>5, <2>1, <2>2
<1>11. FieldAt(line, from, to)
  <2>1. from \in 1..Len(line) /\ to \in from..Len(line)
    BY <1>1, <1>5, <1>9
  <2>2. \A k \in 1..to : line[k] = text[k]
    BY <1>1, <1>5, <1>8
  <2>3. \A k \in 1..from-1 : line[k] = Blank
    BY <1>1, <1>4, <1>5, <2>2 DEF FieldAt
  <2>4. \A k \in from..to : line[k] # Blank
    <3> TAKE k \in from..to
    <3>1. text[k] # Blank
      BY <1>4 DEF FieldAt
    <3>2. k \in 1..to
      BY <1>5
    <3> QED
      BY <2>2, <3>1, <3>2
  <2> QED
    BY <2>1, <2>3, <2>4, <1>10 DEF FieldAt
<1>12. FirstField(line) = SubSeq(line, from, to)
  BY <1>11, <1>5, <1>4, FirstFieldIs
<1>13. SubSeq(line, from, to) = SubSeq(text, from, to)
  <2>1. \A k \in from..to : line[k] = text[k]
    BY <1>1, <1>5, <1>8
  <2>2. SubSeq(line, from, to) = [k \in 1..(to - from + 1) |-> line[from + k - 1]]
    BY <1>1, <1>5, <1>9 DEF Text
  <2>3. SubSeq(text, from, to) = [k \in 1..(to - from + 1) |-> text[from + k - 1]]
    BY <1>1, <1>5 DEF Text
  <2>4. \A k \in 1..(to - from + 1) : from + k - 1 \in from..to
    BY <1>1, <1>5
  <2> QED
    BY <2>1, <2>2, <2>3, <2>4
<1> QED
  BY <1>3, <1>4, <1>12, <1>13

\* A template without placeholders matches itself and nothing else, which is
\* why the exact map may decide for it.
THEOREM ExactIsEquality ==
  ASSUME NEW text \in Text, NEW line \in Text, ~HasPlaceholder(text)
  PROVE  Matches(text, line) <=> text = line
<1>1. Len(text) \in Nat /\ Len(line) \in Nat
  BY LenNat
<1>2. ASSUME Matches(text, line) PROVE text = line
  <2>1. PICK at \in [0..Len(text) -> 0..Len(line)] : IsAlignment(at, text, line)
    BY <1>2 DEF Matches
  <2>2. \A k \in 1..Len(text) : text[k] # Placeholder
    <3> SUFFICES ASSUME NEW k \in 1..Len(text), text[k] = Placeholder PROVE FALSE
      OBVIOUS
    <3> QED
      BY <1>1 DEF HasPlaceholder, ToSet, Text
  <2>3. \A k \in 0..Len(text) : at[k] = k /\ (k # 0 => line[k] = text[k])
    BY <1>1, <2>1, <2>2, LiteralPrefix
  <2>4. Len(line) = Len(text)
    BY <1>1, <2>1, <2>3 DEF IsAlignment
  <2>5. \A k \in 1..Len(text) : line[k] = text[k]
    BY <1>1, <2>3
  <2> QED
    BY <1>1, <2>4, <2>5 DEF Text
<1>3. ASSUME text = line PROVE Matches(text, line)
  BY <1>3, CoversReflexive DEF Covers
<1> QED
  BY <1>2, <1>3

(***************************************************************************)
(* What a template matches has at least its literal text: an alignment     *)
(* takes each literal to a place of its own.  An entry that covers another *)
(* is never the more specific one.                                         *)
(***************************************************************************)
THEOREM LiteralsKept ==
  ASSUME NEW text \in Text, NEW line \in Text, Matches(text, line)
  PROVE  /\ LiteralLen(text) \in Nat /\ LiteralLen(line) \in Nat
         /\ LiteralLen(text) <= LiteralLen(line)
<1> DEFINE S == {i \in DOMAIN text : text[i] # Placeholder}
           T == {i \in DOMAIN line : line[i] # Placeholder}
<1>1. Len(text) \in Nat /\ Len(line) \in Nat
  BY LenNat
<1>2. DOMAIN text = 1..Len(text) /\ DOMAIN line = 1..Len(line)
  BY DEF Text
<1>3. IsFiniteSet(S) /\ IsFiniteSet(T)
  <2>1. IsFiniteSet(1..Len(text)) /\ IsFiniteSet(1..Len(line))
    BY <1>1, FS_Interval
  <2> QED
    BY <1>2, <2>1, FS_Subset
<1>4. PICK at \in [0..Len(text) -> 0..Len(line)] : IsAlignment(at, text, line)
  BY DEF Matches
<1> DEFINE f == [i \in S |-> at[i]]
<1>5. \A i \in S : /\ i \in 1..Len(text) /\ i - 1 \in 0..Len(text)
                  /\ at[i] = at[i-1] + 1 /\ line[at[i]] = text[i]
                  /\ at[i] \in 1..Len(line) /\ at[i-1] \in Int
  BY <1>1, <1>2, <1>4 DEF IsAlignment
<1>6. \A i \in S : f[i] \in T
  BY <1>2, <1>5
<1>7. \A i, j \in S : i < j => f[i] < f[j]
  <2> SUFFICES ASSUME NEW i \in S, NEW j \in S, i < j PROVE at[i] < at[j]
    OBVIOUS
  <2>1. i \in 0..Len(text) /\ j - 1 \in 0..Len(text) /\ i <= j - 1
    BY <1>1, <1>5
  <2>2. at[i] <= at[j-1]
    BY <1>4, <2>1 DEF IsAlignment
  <2> QED
    BY <1>5, <2>2
<1>8. f \in Injection(S, T)
  <2>1. f \in [S -> T]
    BY <1>6
  <2>2. \A i, j \in S : f[i] = f[j] => i = j
    <3> SUFFICES ASSUME NEW i \in S, NEW j \in S, i < j \/ j < i PROVE f[i] # f[j]
      BY <1>5
    <3> QED
      BY <1>5, <1>7
  <2> QED
    BY <2>1, <2>2 DEF Injection, IsInjective
<1>9. Cardinality(S) <= Cardinality(T) /\ Cardinality(S) \in Nat /\ Cardinality(T) \in Nat
  BY <1>3, <1>8, FS_Injection, FS_CardinalityType
<1> QED
  BY <1>9 DEF LiteralLen

-----------------------------------------------------------------------------
(***************************************************************************)
(* Templates that are put together match what the lines they match are put *)
(* together to.                                                            *)
(***************************************************************************)
THEOREM MatchesConcat ==
  ASSUME NEW x \in Text, NEW u \in Text, NEW y \in Text, NEW v \in Text,
         Matches(x, y), Matches(u, v)
  PROVE  x \o u \in Text /\ y \o v \in Text /\ Matches(x \o u, y \o v)
<1> DEFINE xu == x \o u
           yv == y \o v
           m  == Len(x)
           n  == Len(y)
<1>1. /\ m \in Nat /\ n \in Nat /\ Len(u) \in Nat /\ Len(v) \in Nat
  BY LenNat
<1>2. /\ xu \in Text /\ Len(xu) = m + Len(u)
      /\ \A i \in 1..m+Len(u) : xu[i] = IF i <= m THEN x[i] ELSE u[i-m]
  BY DEF Text
<1>3. /\ yv \in Text /\ Len(yv) = n + Len(v)
      /\ \A i \in 1..n+Len(v) : yv[i] = IF i <= n THEN y[i] ELSE v[i-n]
  BY DEF Text
<1>4. PICK e \in [0..Len(x) -> 0..Len(y)] : IsAlignment(e, x, y)
  BY DEF Matches
<1>5. PICK f \in [0..Len(u) -> 0..Len(v)] : IsAlignment(f, u, v)
  BY DEF Matches
<1> DEFINE at == [i \in 0..Len(xu) |-> IF i <= m THEN e[i] ELSE n + f[i-m]]
<1> HIDE DEF xu, yv, m, n
<1>6. at \in [0..Len(xu) -> 0..Len(yv)]
  BY <1>1, <1>2, <1>3, <1>4, <1>5 DEF m, n
<1>7. \A i \in 0..Len(u) : at[m+i] = n + f[i]
  BY <1>1, <1>2, <1>4, <1>5 DEF IsAlignment, m, n
<1>8. at[0] = 0 /\ at[Len(xu)] = Len(yv)
  <2>1. at[0] = e[0]
    <3>1. 0 \in 0..Len(xu) /\ 0 <= m
      BY <1>1, <1>2
    <3> QED
      BY <3>1
  <2>2. at[m + Len(u)] = n + f[Len(u)]
    <3> HIDE DEF at
    <3> QED
      BY <1>1, <1>7
  <2> HIDE DEF at
  <2> QED
    BY <1>2, <1>3, <1>4, <1>5, <2>1, <2>2 DEF IsAlignment
<1>9. ASSUME NEW i \in 0..Len(xu), NEW j \in 0..Len(xu), i <= j PROVE at[i] <= at[j]
  <2>1. CASE j <= m
    <3>1. i \in 0..Len(x) /\ j \in 0..Len(x) /\ at[i] = e[i] /\ at[j] = e[j]
      BY <1>1, <1>2, <1>9, <2>1 DEF m
    <3> QED
      BY <1>4, <1>9, <3>1 DEF IsAlignment
  <2>2. CASE i <= m /\ j > m
    <3>1. e[i] \in 0..n /\ f[j-m] \in Nat
      <4>1. i \in 0..Len(x) /\ j-m \in 0..Len(u)
        BY <1>1, <1>2, <2>2 DEF m
      <4> QED
        BY <1>1, <1>4, <1>5, <4>1 DEF n
    <3> QED
      BY <1>1, <2>2, <3>1
  <2>3. CASE i > m
    <3>1. i-m \in 0..Len(u) /\ j-m \in 0..Len(u) /\ i-m <= j-m
      BY <1>1, <1>2, <1>9, <2>3
    <3>2. f[i-m] <= f[j-m] /\ f[i-m] \in Nat /\ f[j-m] \in Nat
      BY <1>5, <3>1 DEF IsAlignment
    <3> QED
      BY <1>1, <1>9, <2>3, <3>2
  <2> QED
    BY <1>1, <2>1, <2>2, <2>3
<1>10. ASSUME NEW i \in 1..Len(xu), xu[i] # Placeholder
       PROVE  at[i] = at[i-1] + 1 /\ yv[at[i]] = xu[i]
  <2>1. CASE i <= m
    <3>1. i \in 1..Len(x) /\ xu[i] = x[i] /\ i \in 0..Len(x) /\ i-1 \in 0..Len(x)
      BY <1>1, <1>2, <2>1 DEF m
    <3>2. e[i] = e[i-1] + 1 /\ y[e[i]] = x[i]
      BY <1>4, <1>10, <3>1 DEF IsAlignment
    <3>3. e[i] \in 1..n /\ e[i-1] \in Nat
      BY <1>1, <1>4, <3>1, <3>2 DEF n
    <3>4. yv[e[i]] = y[e[i]]
      BY <1>1, <1>3, <3>3
    <3> QED
      BY <1>1, <2>1, <3>1, <3>2, <3>4
  <2>2. CASE i > m
    <3> DEFINE k == i - m
    <3>1. k \in 1..Len(u) /\ k \in 0..Len(u) /\ k-1 \in 0..Len(u) /\ xu[i] = u[k]
      BY <1>1, <1>2, <2>2
    <3>2. f[k] = f[k-1] + 1 /\ v[f[k]] = u[k]
      BY <1>5, <1>10, <3>1 DEF IsAlignment
    <3>3. f[k] \in 1..Len(v) /\ f[k-1] \in Nat
      BY <1>1, <1>5, <3>1, <3>2
    <3>4. yv[n + f[k]] = v[f[k]]
      BY <1>1, <1>3, <3>3
    <3>5. at[i] = n + f[k] /\ at[i-1] = n + f[k-1]
      <4>1. m + k = i /\ m + (k-1) = i-1
        BY <1>1, <2>2
      <4> HIDE DEF at
      <4> QED
        BY <1>7, <3>1, <4>1
    <3> HIDE DEF at
    <3> QED
      BY <1>1, <3>1, <3>2, <3>3, <3>4, <3>5
  <2> QED
    BY <1>1, <2>1, <2>2
<1> HIDE DEF at
<1>11. IsAlignment(at, xu, yv)
  BY <1>8, <1>9, <1>10 DEF IsAlignment
<1>12. Matches(xu, yv)
  BY <1>6, <1>11 DEF Matches
<1> QED
  BY <1>2, <1>3, <1>12 DEF xu, yv

\* A placeholder takes anything.
LEMMA PlaceholderMatches == ASSUME NEW y \in Text PROVE Matches(<<Placeholder>>, y)
<1> DEFINE x  == <<Placeholder>>
           at == [i \in 0..Len(x) |-> IF i = 0 THEN 0 ELSE Len(y)]
<1>1. Len(x) = 1 /\ x[1] = Placeholder /\ Len(y) \in Nat
  BY LenNat
<1>2. at \in [0..Len(x) -> 0..Len(y)] /\ IsAlignment(at, x, y)
  BY <1>1 DEF IsAlignment
<1> QED
  BY <1>2 DEF Matches

(***************************************************************************)
(* FlattenSeq, one sequence at a time.                                     *)
(***************************************************************************)
LEMMA FlattenFacts ==
  ASSUME NEW A, NEW s \in Seq(Seq(A)), s # <<>>
  PROVE  \E f \in [1..Len(s) -> Seq(A)] :
            /\ f[1] = s[1]
            /\ \A i \in 2..Len(s) : f[i] = f[i-1] \o s[i]
            /\ FlattenSeq(s) = f[Len(s)]
<1> DEFINE n == Len(s)
           Flattens(g, k) == /\ g \in [1..k -> Seq(A)]
                             /\ g[1] = s[1]
                             /\ \A i \in 2..k : g[i] = g[i-1] \o s[i]
           Fails == {k \in 1..n : ~ \E g : Flattens(g, k)}
<1>1. n \in Nat \ {0} /\ \A i \in 1..n : s[i] \in Seq(A)
  BY EmptySeq
<1> HIDE DEF n
<1>2. Flattens([i \in 1..1 |-> s[1]], 1)
  BY <1>1
<1>3. ASSUME NEW k \in 2..n, NEW g, Flattens(g, k-1) PROVE \E h : Flattens(h, k)
  <2> DEFINE h == [i \in 1..k |-> IF i < k THEN g[i] ELSE g[k-1] \o s[k]]
  <2>1. k-1 \in 1..k-1 /\ k \in 1..n /\ 1 < k
    BY <1>1
  <2>2. g[k-1] \in Seq(A) /\ s[k] \in Seq(A)
    BY <1>1, <1>3, <2>1
  <2>3. g[k-1] \o s[k] \in Seq(A)
    BY <2>2
  <2>4. h \in [1..k -> Seq(A)]
    BY <1>3, <2>1, <2>3
  <2>5. h[1] = s[1]
    BY <1>3, <2>1
  <2>6. ASSUME NEW i \in 2..k PROVE h[i] = h[i-1] \o s[i]
    <3>1. i \in 1..k /\ i-1 \in 1..k /\ i-1 < k
      BY <2>1
    <3>2. h[i-1] = g[i-1]
      BY <3>1
    <3>3. CASE i = k
      <4>1. k \in 1..k /\ ~(k < k)
        BY <2>1
      <4>2. h[k] = g[k-1] \o s[k]
        BY <4>1
      <4> QED
        BY <3>2, <3>3, <4>2
    <3>4. CASE i # k
      <4>1. i \in 2..k-1 /\ i < k
        BY <3>4
      <4>2. g[i] = g[i-1] \o s[i]
        BY <1>3, <4>1
      <4> QED
        BY <3>1, <3>2, <4>1, <4>2
    <3> QED
      BY <3>3, <3>4
  <2> QED
    BY <2>4, <2>5, <2>6
<1>4. Fails = {}
  <2> SUFFICES ASSUME Fails # {} PROVE FALSE
    OBVIOUS
  <2> HIDE DEF Flattens
  <2>1. Fails \subseteq Nat
    BY <1>1
  <2>2. PICK k \in Fails : \A j \in Fails : k <= j
    <3> HIDE DEF Fails
    <3> QED
      BY <2>1, LeastNat
  <2>3. k \in 1..n /\ (~ \E g : Flattens(g, k)) /\ k \in Nat
    BY <2>1, <2>2
  <2>4. k # 1
    BY <1>2, <2>3
  <2>5. k \in 2..n /\ k-1 \in 1..n
    BY <1>1, <2>3, <2>4
  <2>6. k-1 \notin Fails
    <3> HIDE DEF Fails
    <3> QED
      BY <2>2, <2>3
  <2>7. PICK g : Flattens(g, k-1)
    BY <2>5, <2>6
  <2> HIDE DEF Flattens, Fails
  <2> QED
    BY <1>3, <2>3, <2>5, <2>7
<1>5. PICK g : Flattens(g, n)
  <2>1. n \in 1..n
    BY <1>1
  <2> HIDE DEF Flattens
  <2> QED
    BY <1>4, <2>1
<1> DEFINE E(f) == [i \in 1..n |-> IF i = 1 THEN s[i] ELSE f[i-1] \o s[i]]
           flat == CHOOSE f : f = E(f)
<1>6. g = E(g)
  <2>1. g \in [1..n -> Seq(A)]
    BY <1>5
  <2>2. \A i \in 1..n : g[i] = IF i = 1 THEN s[i] ELSE g[i-1] \o s[i]
    <3> TAKE i \in 1..n
    <3>1. i = 1 \/ i \in 2..n
      BY <1>1
    <3> QED
      BY <1>5, <3>1
  <2> QED
    BY <2>1, <2>2
<1>7. flat = E(flat)
  <2> HIDE DEF E
  <2> QED
    BY <1>6
<1>8. FlattenSeq(s) = flat[n]
  BY <1>1 DEF FlattenSeq, n
<1>9. DOMAIN flat = 1..n /\ \A i \in 1..n : flat[i] = IF i = 1 THEN s[i] ELSE flat[i-1] \o s[i]
  <2>1. /\ DOMAIN E(flat) = 1..n
        /\ \A i \in 1..n : E(flat)[i] = IF i = 1 THEN s[i] ELSE flat[i-1] \o s[i]
    BY Zenon
  <2> HIDE DEF E, flat
  <2> QED
    BY <1>7, <2>1
<1> HIDE DEF flat
<1>10. flat[1] = s[1] /\ \A i \in 2..n : flat[i] = flat[i-1] \o s[i]
  <2>1. 1 \in 1..n /\ \A i \in 2..n : i # 1 /\ i \in 1..n
    BY <1>1
  <2>2. flat[1] = s[1]
    BY <1>9, <2>1
  <2>3. ASSUME NEW i \in 2..n PROVE flat[i] = flat[i-1] \o s[i]
    BY <1>9, <2>1, Zenon
  <2> QED
    BY <2>2, <2>3
<1>11. \A i \in 1..n : flat[i] \in Seq(A)
  <2> DEFINE Odd == {i \in 1..n : flat[i] \notin Seq(A)}
  <2> SUFFICES ASSUME Odd # {} PROVE FALSE
    OBVIOUS
  <2>1. Odd \subseteq Nat
    OBVIOUS
  <2>2. PICK k \in Odd : \A j \in Odd : k <= j
    <3> HIDE DEF Odd
    <3> QED
      BY <2>1, LeastNat
  <2>3. k \in 1..n /\ flat[k] \notin Seq(A)
    BY <2>2
  <2>4. k \in 2..n
    BY <1>1, <1>10, <2>3
  <2>5. k-1 \in 1..n /\ ~(k <= k-1)
    BY <1>1, <2>4
  <2>6. flat[k-1] \in Seq(A)
    BY <2>2, <2>5
  <2>7. flat[k-1] \o s[k] \in Seq(A)
    BY <1>1, <2>3, <2>6
  <2> QED
    BY <1>10, <2>3, <2>4, <2>7
<1>12. flat \in [1..n -> Seq(A)]
  <2>1. flat = [i \in 1..n |-> IF i = 1 THEN s[i] ELSE flat[i-1] \o s[i]]
    BY <1>7
  <2>2. \A i \in 1..n : (IF i = 1 THEN s[i] ELSE flat[i-1] \o s[i]) \in Seq(A)
    BY <1>9, <1>11
  <2> DEFINE F == [i \in 1..n |-> IF i = 1 THEN s[i] ELSE flat[i-1] \o s[i]]
  <2>3. F \in [1..n -> Seq(A)]
    BY <2>2
  <2> HIDE DEF F
  <2>4. flat = F
    BY <2>1 DEF F
  <2> QED
    BY <2>3, <2>4
<1> QED
  BY <1>8, <1>10, <1>12 DEF n

LEMMA ConcatFacts ==
  ASSUME NEW A, NEW p \in Seq(A), NEW q \in Seq(A)
  PROVE  /\ Len(p \o q) = Len(p) + Len(q)
         /\ \A i \in 1..Len(p) : (p \o q)[i] = p[i]
         /\ \A i \in 1..Len(q) : (p \o q)[Len(p) + i] = q[i]
  OBVIOUS

(***************************************************************************)
(* Where the pieces of a flattened sequence end.                           *)
(***************************************************************************)
FlattenEnds(at, s) ==
    /\ at \in [0..Len(s) -> Nat]
    /\ at[0] = 0 /\ at[Len(s)] = Len(FlattenSeq(s))
    /\ \A j \in 1..Len(s) :
          /\ at[j] = at[j-1] + Len(s[j])
          /\ \A k \in 1..Len(s[j]) : FlattenSeq(s)[at[j-1] + k] = s[j][k]

LEMMA FlattenEndsFacts ==
  ASSUME NEW A, NEW s \in Seq(Seq(A))
  PROVE  FlattenSeq(s) \in Seq(A) /\ \E at : FlattenEnds(at, s)
<1> DEFINE n == Len(s)
<1>1. n \in Nat /\ \A i \in 1..n : s[i] \in Seq(A)
  OBVIOUS
<1>2. CASE s = <<>>
  <2>1. n = 0 /\ FlattenSeq(s) = s
    BY <1>2, EmptySeq DEF FlattenSeq
  <2>2. FlattenEnds([j \in 0..0 |-> 0], s)
    BY <1>2, <2>1 DEF FlattenEnds
  <2> QED
    BY <1>2, <2>1, <2>2
<1>3. CASE s # <<>>
  <2>1. n \in 1..n
    BY <1>1, <1>3, EmptySeq
  <2>2. PICK f \in [1..n -> Seq(A)] :
          /\ f[1] = s[1]
          /\ \A i \in 2..n : f[i] = f[i-1] \o s[i]
          /\ FlattenSeq(s) = f[n]
    BY <1>3, FlattenFacts
  <2> HIDE DEF n
  <2> DEFINE at == [j \in 0..n |-> IF j = 0 THEN 0 ELSE Len(f[j])]
  <2>3. \A j \in 1..n : f[j] \in Seq(A) /\ Len(f[j]) \in Nat /\ Len(s[j]) \in Nat
    BY <1>1, <2>2
  <2>4. at[0] = 0 /\ \A j \in 1..n : at[j] = Len(f[j])
    BY <1>1
  <2>5. at \in [0..n -> Nat]
    BY <2>3
  <2> HIDE DEF at
  \* Each piece stands where the pieces before it end.
  <2>6. ASSUME NEW j \in 2..n
        PROVE  /\ Len(f[j]) = Len(f[j-1]) + Len(s[j])
               /\ \A q \in 1..Len(f[j-1]) : f[j][q] = f[j-1][q]
               /\ \A k \in 1..Len(s[j]) : f[j][Len(f[j-1]) + k] = s[j][k]
    <3>1. j-1 \in 1..n /\ j \in 1..n
      BY <1>1
    <3>2. f[j-1] \in Seq(A) /\ s[j] \in Seq(A) /\ f[j] = f[j-1] \o s[j]
      BY <1>1, <2>2, <2>3, <3>1
    <3> DEFINE p == f[j-1]
               q == s[j]
    <3>3. p \in Seq(A) /\ q \in Seq(A) /\ f[j] = p \o q
      BY <3>2
    <3> HIDE DEF p, q
    <3>4. /\ Len(p \o q) = Len(p) + Len(q)
          /\ \A i \in 1..Len(p) : (p \o q)[i] = p[i]
          /\ \A i \in 1..Len(q) : (p \o q)[Len(p) + i] = q[i]
      BY <3>3, ConcatFacts
    <3> QED
      BY <3>3, <3>4, Zenon DEF p, q
  <2>7. ASSUME NEW j \in 1..n
        PROVE  /\ at[j] = at[j-1] + Len(s[j])
               /\ \A k \in 1..Len(s[j]) : f[j][at[j-1] + k] = s[j][k]
    <3>1. CASE j = 1
      BY <2>2, <2>3, <2>4, <3>1
    <3>2. CASE j # 1
      <4>1. j \in 2..n /\ j-1 \in 1..n
        BY <1>1, <3>2
      <4> QED
        BY <2>4, <2>6, <4>1
    <3> QED
      BY <3>1, <3>2
  \* And stays there.
  <2>8. ASSUME NEW j \in 1..n, NEW m \in j..n
        PROVE  Len(f[j]) <= Len(f[m]) /\ \A q \in 1..Len(f[j]) : f[m][q] = f[j][q]
    <3> DEFINE Same(h) == Len(f[j]) <= Len(f[h]) /\ \A q \in 1..Len(f[j]) : f[h][q] = f[j][q]
               Odd == {h \in j..n : ~Same(h)}
    <3>1. SUFFICES ASSUME Odd # {} PROVE FALSE
      OBVIOUS
    <3>2. PICK h \in Odd : \A g \in Odd : h <= g
      <4>1. Odd \subseteq Nat
        BY <1>1
      <4> HIDE DEF Odd
      <4> QED
        BY <3>1, <4>1, LeastNat
    <3>3. h \in j..n /\ h # j /\ ~Same(h)
      <4>1. Same(j)
        BY <2>3
      <4> QED
        BY <3>2, <4>1
    <3>4. h \in 2..n /\ h-1 \in j..n /\ {h-1, h} \subseteq 1..n /\ ~(h <= h-1)
      BY <1>1, <3>3
    <3>5. Same(h-1)
      BY <3>2, <3>4
    <3>6. /\ Len(f[h]) = Len(f[h-1]) + Len(s[h])
          /\ \A q \in 1..Len(f[h-1]) : f[h][q] = f[h-1][q]
      BY <2>6, <3>4
    <3>7. Len(f[j]) \in Nat /\ Len(f[h-1]) \in Nat /\ Len(s[h]) \in Nat
      BY <1>1, <2>3, <3>4
    <3>8. Len(f[j]) <= Len(f[h])
      <4>1. Len(f[j]) <= Len(f[h-1])
        BY <3>5
      <4>2. \A a, b, c, d \in Nat : a <= b /\ d = b + c => a <= d
        OBVIOUS
      <4>3. Len(f[h]) \in Nat
        BY <2>3, <3>4
      <4> HIDE DEF Same, Odd
      <4> QED
        BY <3>6, <3>7, <4>1, <4>2, <4>3, Zenon
    <3>9. ASSUME NEW q \in 1..Len(f[j]) PROVE f[h][q] = f[j][q]
      <4>1. q \in 1..Len(f[h-1])
        BY <3>5, <3>7
      <4> QED
        BY <3>5, <3>6, <4>1
    <3> QED
      BY <3>3, <3>8, <3>9
  <2>9. ASSUME NEW j \in 1..n, NEW k \in 1..Len(s[j])
        PROVE  f[n][at[j-1] + k] = s[j][k]
    <3>1. n \in j..n /\ j-1 \in 0..n /\ at[j-1] \in Nat /\ Len(s[j]) \in Nat
      BY <1>1, <2>3, <2>5
    <3>2. Len(f[j]) = at[j-1] + Len(s[j])
      BY <2>4, <2>7
    <3>3. at[j-1] + k \in 1..Len(f[j])
      BY <3>1, <3>2
    <3> QED
      BY <2>7, <2>8, <3>1, <3>3
  <2>10. at[n] = Len(f[n]) /\ f[n] \in Seq(A)
    BY <2>1, <2>3, <2>4
  <2>11. FlattenEnds(at, s)
    BY <2>2, <2>4, <2>5, <2>7, <2>9, <2>10 DEF FlattenEnds, n
  <2> QED
    BY <2>2, <2>10, <2>11
<1> QED
  BY <1>2, <1>3

\* Matching piece by piece is matching.
THEOREM MatchesPiecewise ==
  ASSUME NEW s \in Seq(Text), NEW t \in Seq(Text), Len(s) = Len(t),
         \A i \in DOMAIN s : Matches(s[i], t[i])
  PROVE  /\ FlattenSeq(s) \in Text /\ FlattenSeq(t) \in Text
         /\ Matches(FlattenSeq(s), FlattenSeq(t))
<1>1. CASE s = <<>>
  <2>1. t = <<>> /\ Len(s) = 0 /\ Len(t) = 0
    BY <1>1, EmptySeq
  <2>2. FlattenSeq(s) = <<>> /\ FlattenSeq(t) = <<>>
    BY <1>1, <2>1 DEF FlattenSeq
  <2>3. <<>> \in Text
    BY DEF Text
  <2> QED
    BY <2>2, <2>3, CoversReflexive DEF Covers
<1>2. CASE s # <<>>
  <2> DEFINE n == Len(s)
  <2>1. t # <<>> /\ n \in Nat \ {0}
    BY <1>2, EmptySeq
  <2>2. PICK f \in [1..n -> Text] :
          /\ f[1] = s[1]
          /\ \A i \in 2..n : f[i] = f[i-1] \o s[i]
          /\ FlattenSeq(s) = f[n]
    BY <1>2, FlattenFacts DEF Text
  <2>3. PICK g \in [1..Len(t) -> Text] :
          /\ g[1] = t[1]
          /\ \A i \in 2..Len(t) : g[i] = g[i-1] \o t[i]
          /\ FlattenSeq(t) = g[Len(t)]
    BY <2>1, FlattenFacts DEF Text
  <2>4. n = Len(t) /\ \A i \in 1..n : s[i] \in Text /\ t[i] \in Text /\ Matches(s[i], t[i])
    OBVIOUS
  <2> HIDE DEF n
  <2> DEFINE Odd == {i \in 1..n : ~Matches(f[i], g[i])}
  <2>5. Odd = {}
    <3> SUFFICES ASSUME Odd # {} PROVE FALSE
      OBVIOUS
    <3>1. Odd \subseteq Nat
      OBVIOUS
    <3>2. PICK k \in Odd : \A j \in Odd : k <= j
      <4> HIDE DEF Odd
      <4> QED
        BY <3>1, LeastNat
    <3>3. k \in 1..n /\ ~Matches(f[k], g[k])
      BY <3>2
    <3>4. k \in 2..n
      <4>1. k # 1
        BY <2>1, <2>2, <2>3, <2>4, <3>3
      <4> QED
        BY <2>1, <3>3, <4>1
    <3>5. k-1 \in 1..n /\ ~(k <= k-1)
      BY <2>1, <3>4
    <3>6. Matches(f[k-1], g[k-1])
      BY <3>2, <3>5
    <3>7. f[k] = f[k-1] \o s[k] /\ g[k] = g[k-1] \o t[k]
      BY <2>2, <2>3, <2>4, <3>4
    <3>8. f[k-1] \in Text /\ g[k-1] \in Text
      BY <2>4, <3>5
    <3> QED
      BY <2>4, <3>3, <3>6, <3>7, <3>8, MatchesConcat
  <2>6. n \in 1..n /\ n \notin Odd
    BY <2>1, <2>5
  <2>7. f[n] \in Text /\ g[n] \in Text /\ Matches(f[n], g[n])
    BY <2>4, <2>6
  <2> QED
    BY <2>2, <2>3, <2>4, <2>7
<1> QED
  BY <1>1, <1>2

-----------------------------------------------------------------------------
(* The matcher: what Match answers on a line, given a manifest ts and the  *)
(* positions live that were not superseded.                                *)

LEMMA AcceptsFacts ==
  ASSUME NEW x \in Texts, NEW l \in Lines
  PROVE  /\ x \in Text /\ l \in Text
         /\ <<x, l>> \in Accepts <=> Matches(x, l)
         /\ Lit[x] = LiteralLen(x) /\ Lit[x] \in Nat
         /\ IndexKey[x] = FirstLiteralToken(x)
         /\ LineKey[l] = FirstField(l)
<1>1. x \in Text /\ l \in Text
  BY MatcherAssumption
<1>2. LiteralLen(x) \in Nat
  BY <1>1, CoversReflexive, LiteralsKept DEF Covers
<1> QED
  BY <1>1, <1>2 DEF Accepts, Lit, IndexKey, LineKey

LEMMA PositionFacts ==
  ASSUME NEW ts \in Seq(Template), NEW k \in DOMAIN ts
  PROVE  k \in 1..Len(ts) /\ Len(ts) \in Nat /\ ts[k] \in Template /\ ts[k].text \in Texts
<1>1. k \in 1..Len(ts) /\ Len(ts) \in Nat /\ ts[k] \in Template
  OBVIOUS
<1> QED
  BY <1>1 DEF Template

\* Before is a strict total order on the positions of a manifest.
LEMMA BeforeOrders ==
  ASSUME NEW ts \in Seq(Template), NEW i \in DOMAIN ts, NEW j \in DOMAIN ts
  PROVE  /\ ~(Before(ts, i, j) /\ Before(ts, j, i))
         /\ i # j => Before(ts, i, j) \/ Before(ts, j, i)
<1>1. i \in Nat /\ j \in Nat /\ Lit[ts[i].text] \in Nat /\ Lit[ts[j].text] \in Nat
  <2>1. ts[i].text \in Texts /\ ts[j].text \in Texts /\ i \in Nat /\ j \in Nat
    BY PositionFacts
  <2> QED
    BY <2>1, CoversReflexive, LiteralsKept, MatcherAssumption DEF Covers, Lit
<1> QED
  BY <1>1 DEF Before, Heavier

\* Match answers with at most one template, a live one that matches the line.
LEMMA BestMatches ==
  ASSUME NEW ts \in Seq(Template), NEW live \in SUBSET DOMAIN ts, NEW line \in Lines,
         NEW i \in Best(ts, live, line)
  PROVE  /\ i \in live
         /\ <<ts[i].text, line>> \in Accepts
         /\ \A j \in Best(ts, live, line) : i = j
<1>1. CASE Exact(ts, live, line) # {}
  <2>1. \A j \in Best(ts, live, line) :
           /\ j \in Exact(ts, live, line) /\ j \in Nat
           /\ \A k \in Exact(ts, live, line) : k <= j
    BY <1>1, PositionFacts DEF Best, Exact
  <2>2. i \in live /\ ts[i].text = line
    BY <2>1 DEF Exact
  <2>3. ts[i].text \in Texts /\ line \in Text
    BY <2>2, PositionFacts, MatcherAssumption
  <2>4. <<ts[i].text, line>> \in Accepts
    BY <2>2, <2>3, CoversReflexive, AcceptsFacts DEF Covers
  <2>5. \A j \in Best(ts, live, line) : i <= j /\ j <= i /\ i \in Nat /\ j \in Nat
    BY <2>1
  <2> QED
    BY <2>2, <2>4, <2>5
<1>2. CASE Exact(ts, live, line) = {}
  <2>1. \A j \in Best(ts, live, line) :
           /\ j \in Hits(ts, live, line)
           /\ \A k \in Hits(ts, live, line) \ {j} : Before(ts, j, k)
    BY <1>2 DEF Best
  <2>2. \A j \in Hits(ts, live, line) : j \in live /\ <<ts[j].text, line>> \in Accepts
    BY DEF Hits, ByTok, Rest
  <2>3. \A j \in Best(ts, live, line) : i = j
    BY <2>1, <2>2, BeforeOrders
  <2> QED
    BY <2>1, <2>2, <2>3
<1> QED
  BY <1>1, <1>2

(***************************************************************************)
(* Match looks in three places only; a live template that matches the line *)
(* is in one of them.                                                      *)
(***************************************************************************)
LEMMA MatchersAreHits ==
  ASSUME NEW ts \in Seq(Template), NEW live \in SUBSET DOMAIN ts, NEW line \in Lines,
         NEW k \in live, <<ts[k].text, line>> \in Accepts
  PROVE  k \in Exact(ts, live, line) \/ k \in Hits(ts, live, line)
<1>1. /\ ts[k].text \in Texts /\ ts[k].text \in Text /\ line \in Text
      /\ Matches(ts[k].text, line)
  BY PositionFacts, AcceptsFacts
<1>2. CASE ~HasPlaceholder(ts[k].text)
  BY <1>1, <1>2, ExactIsEquality DEF Exact
<1>3. CASE HasPlaceholder(ts[k].text) /\ IndexKey[ts[k].text] = <<>>
  BY <1>3 DEF Hits, Rest
<1>4. CASE HasPlaceholder(ts[k].text) /\ IndexKey[ts[k].text] # <<>>
  <2>1. IndexKey[ts[k].text] = LineKey[line]
    BY <1>1, <1>4, IndexSound, AcceptsFacts
  <2> QED
    BY <1>4, <2>1 DEF Hits, ByTok
<1> QED
  BY <1>2, <1>3, <1>4

\* A set of positions has a last one.
LEMMA LastPosition ==
  ASSUME NEW n \in Nat, NEW S, S \subseteq 1..n, S # {}
  PROVE  \E i \in S : \A j \in S : j <= i
<1> DEFINE T == {k \in 0..n : n - k \in S}
<1>1. T \subseteq Nat
  OBVIOUS
<1>2. PICK e \in S : TRUE
  OBVIOUS
<1>3. n - e \in T
  <2>1. e \in 1..n
    OBVIOUS
  <2>2. n - e \in 0..n /\ n - (n - e) = e
    BY <2>1
  <2> QED
    BY <2>2
<1>4. PICK x \in T : \A y \in T : x <= y
  <2> HIDE DEF T
  <2> QED
    BY <1>1, <1>3, LeastNat
<1>5. n - x \in S /\ x \in 0..n
  BY <1>4
<1>6. \A j \in S : j <= n - x
  <2> TAKE j \in S
  <2>1. j \in 1..n
    OBVIOUS
  <2>2. n - j \in 0..n /\ n - (n - j) = j
    BY <2>1
  <2>3. x <= n - j
    BY <1>4, <2>2
  <2> QED
    BY <1>5, <2>1, <2>3
<1> QED
  BY <1>5, <1>6

\* Among finitely many there is one that Match tries first.
LEMMA FirstTried ==
  ASSUME NEW ts \in Seq(Template), NEW line \in Lines, NEW S \in SUBSET DOMAIN ts, S # {},
         \A k \in S : <<ts[k].text, line>> \in Accepts
  PROVE  \E i \in S : \A j \in S \ {i} : Before(ts, i, j)
<1> DEFINE L(k) == Lit[ts[k].text]
           Indexed(k) == IndexKey[ts[k].text] # <<>>
<1>1. /\ LiteralLen(line) \in Nat
      /\ \A k \in S : k \in Nat /\ L(k) \in 0..LiteralLen(line)
  <2> SUFFICES ASSUME NEW k \in S
               PROVE  LiteralLen(line) \in Nat /\ k \in Nat /\ L(k) \in 0..LiteralLen(line)
    BY CoversReflexive, LiteralsKept, MatcherAssumption DEF Covers
  <2>1. ts[k].text \in Texts /\ k \in Nat
    BY PositionFacts
  <2>2. L(k) = LiteralLen(ts[k].text) /\ ts[k].text \in Text /\ line \in Text
        /\ Matches(ts[k].text, line)
    BY <2>1, AcceptsFacts
  <2> QED
    BY <2>1, <2>2, LiteralsKept
<1> HIDE DEF L
<1>2. PICK m \in S : \A k \in S : L(k) <= L(m)
  <2> DEFINE T == {LiteralLen(line) - L(k) : k \in S}
  <2>1. T \subseteq Nat /\ T # {}
    BY <1>1
  <2>2. PICK x \in T : \A y \in T : x <= y
    <3> HIDE DEF T
    <3> QED
      BY <2>1, LeastNat
  <2>3. PICK m \in S : x = LiteralLen(line) - L(m)
    BY <2>2
  <2>4. \A k \in S : LiteralLen(line) - L(m) <= LiteralLen(line) - L(k)
    BY <2>2, <2>3
  <2> QED
    BY <2>4, <1>1
<1> DEFINE Top  == {k \in S : L(k) = L(m)}
           Keys == {k \in Top : Indexed(k)}
           Tie  == IF Keys # {} THEN Keys ELSE Top
<1>3. Tie \subseteq Nat /\ Tie # {}
  BY <1>1
<1>4. PICK i \in Tie : \A j \in Tie : i <= j
  <2> HIDE DEF Tie
  <2> QED
    BY <1>3, LeastNat
<1>5. i \in S /\ L(i) = L(m)
  BY <1>4
<1>6. ASSUME NEW j \in S \ {i} PROVE Before(ts, i, j)
  <2>1. CASE L(j) # L(m)
    <3>1. L(i) > L(j)
      BY <1>1, <1>2, <1>5, <2>1
    <3> QED
      BY <3>1 DEF Before, Heavier, L
  <2>2. CASE L(j) = L(m) /\ j \in Tie
    <3>1. i < j /\ ~(L(j) > L(i)) /\ (Indexed(i) <=> Indexed(j))
      BY <1>1, <1>4, <1>5, <2>2
    <3> QED
      BY <3>1 DEF Before, Heavier, L
  <2>3. CASE L(j) = L(m) /\ j \notin Tie
    <3>1. Indexed(i) /\ ~Indexed(j) /\ ~(L(j) > L(i))
      BY <1>1, <1>4, <1>5, <2>3
    <3> QED
      BY <3>1 DEF Before, Heavier, L
  <2> QED
    BY <2>1, <2>2, <2>3
<1> QED
  BY <1>5, <1>6

(***************************************************************************)
(* Match answers whenever a live template matches the line, wherever it is *)
(* kept, and no live template that matches has more literal text than the  *)
(* one it answers with.                                                    *)
(***************************************************************************)
THEOREM MatchComplete ==
  ASSUME NEW ts \in Seq(Template), NEW live \in SUBSET DOMAIN ts, NEW line \in Lines,
         NEW k \in live, <<ts[k].text, line>> \in Accepts
  PROVE  \E i \in Best(ts, live, line) : ~Heavier(ts, k, i)
<1>1. CASE Exact(ts, live, line) # {}
  <2>1. Exact(ts, live, line) \subseteq 1..Len(ts) /\ Len(ts) \in Nat
    BY PositionFacts DEF Exact
  <2>2. PICK i \in Exact(ts, live, line) : \A j \in Exact(ts, live, line) : j <= i
    BY <1>1, <2>1, LastPosition
  <2>3. i \in Best(ts, live, line) /\ i \in live /\ ts[i].text = line
    BY <1>1, <2>2 DEF Best, Exact
  <2>4. /\ Lit[ts[k].text] = LiteralLen(ts[k].text) /\ Lit[line] = LiteralLen(line)
        /\ LiteralLen(ts[k].text) \in Nat /\ LiteralLen(line) \in Nat
        /\ LiteralLen(ts[k].text) <= LiteralLen(line)
    <3>1. ts[k].text \in Texts /\ line \in Texts
      BY <2>3, PositionFacts
    <3> QED
      BY <3>1, AcceptsFacts, LiteralsKept
  <2> QED
    BY <2>3, <2>4 DEF Heavier
<1>2. CASE Exact(ts, live, line) = {}
  <2> DEFINE S == Hits(ts, live, line)
  <2>1. k \in S
    BY <1>2, MatchersAreHits
  <2>2. S \in SUBSET DOMAIN ts /\ \A j \in S : <<ts[j].text, line>> \in Accepts
    BY DEF Hits, ByTok, Rest
  <2>3. PICK i \in S : \A j \in S \ {i} : Before(ts, i, j)
    <3> HIDE DEF S
    <3> QED
      BY <2>1, <2>2, FirstTried
  <2>4. i \in Best(ts, live, line)
    BY <1>2, <2>3 DEF Best
  <2>5. ~Heavier(ts, k, i)
    <3>1. i \in DOMAIN ts /\ ts[i].text \in Texts /\ ts[k].text \in Texts
      BY <2>2, PositionFacts
    <3>2. Lit[ts[i].text] \in Nat /\ Lit[ts[k].text] \in Nat
      BY <3>1, AcceptsFacts
    <3>3. CASE k = i
      BY <3>2, <3>3 DEF Heavier
    <3>4. CASE k # i
      <4>1. Before(ts, i, k)
        BY <2>1, <2>3, <3>4
      <4> QED
        BY <3>2, <4>1 DEF Before, Heavier
    <3> QED
      BY <3>3, <3>4
  <2> QED
    BY <2>4, <2>5
<1> QED
  BY <1>1, <1>2
=============================================================================
