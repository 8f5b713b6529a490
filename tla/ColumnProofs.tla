---------------------------- MODULE ColumnProofs ----------------------------
(***************************************************************************)
(* Proofs about Column, for any templates, lines and caps.                 *)
(*                                                                         *)
(* Types: the encoder writes only what the decoder can take (TypeInv).     *)
(*                                                                         *)
(* Counts: an entry of the block table counts the uses of its code, and no *)
(* code is outside the table.                                              *)
(*                                                                         *)
(* The round trip.  Every node of the block stands somewhere in its line   *)
(* (Stands, Placed), so what is left of a line is known wherever encodeNode*)
(* is in it.  The streams are charted by the points the encoder passed:    *)
(* from each, what it wrote next leads to the next one (Charted).  The     *)
(* decoder is always at one of these points, with the same stack of calls  *)
(* and the line so far rendered (Aligned); Way says both, and is           *)
(* inductive.  It needs template text that reads back as it was written,   *)
(* and one Suffix flag per ID: what the two counterexamples of the model   *)
(* checker lack.                                                           *)
(*                                                                         *)
(* Folding.  Every leaf pass one saw is written in pass two: a node is     *)
(* done when its params are settled, folded or in their bucket, and the    *)
(* nodes behind the encoder are done (Progress, FoldInv).  So a stream of  *)
(* one value that no sub-template shares would have been folded.           *)
(***************************************************************************)
EXTENDS Column, FiniteSetTheorems, SequenceTheorems, WellFoundedInduction, TLAPS

\* A non-empty set of naturals has a least element.
LEMMA LeastNat ==
  ASSUME NEW T, T \subseteq Nat, T # {}
  PROVE  \E x \in T : \A y \in T : x <= y
<1> DEFINE R == {ss \in Nat \X Nat : ss[1] < ss[2]}
<1>1. IsWellFoundedOn(R, Nat)
  BY NatLessThanWellFounded DEF OpToRel
<1>2. \A x, y \in Nat : y < x => <<y, x>> \in R
  OBVIOUS
<1> HIDE DEF R
<1>3. PICK x \in T : \A y \in T : ~(<<y, x>> \in R)
  BY <1>1, WFMin
<1>4. \A y \in T : ~(y < x) /\ x \in Nat /\ y \in Nat
  BY <1>2, <1>3
<1> QED BY <1>4

\* Induction on a set instead of a predicate, upwards and downwards.
LEMMA Upwards ==
  ASSUME NEW N \in Nat, NEW S, 0 \in S, \A n \in 0..(N-1) : n \in S => n + 1 \in S
  PROVE  0..N \subseteq S
<1> DEFINE T == {n \in 0..N : n \notin S}
<1> SUFFICES ASSUME T # {} PROVE FALSE
  OBVIOUS
<1>1. PICK n \in T : \A m \in T : n <= m
  <2>1. T \subseteq Nat
    OBVIOUS
  <2> HIDE DEF T
  <2> QED BY <2>1, LeastNat
<1>2. n \in 1..N /\ n - 1 \in S
  BY <1>1
<1>3. n - 1 \in 0..(N-1) /\ (n - 1) + 1 = n
  BY <1>2
<1> QED BY <1>1, <1>2, <1>3

LEMMA Downwards ==
  ASSUME NEW N \in Nat, NEW S, N \in S, \A n \in 0..(N-1) : n + 1 \in S => n \in S
  PROVE  0..N \subseteq S
<1> DEFINE U == {n \in 0..N : N - n \in S}
<1>1. 0 \in U
  OBVIOUS
<1>2. ASSUME NEW n \in 0..(N-1), n \in U PROVE n + 1 \in U
  <2>1. N - n \in S /\ N - (n + 1) \in 0..(N-1) /\ (N - (n + 1)) + 1 = N - n
    BY <1>2
  <2>2. N - (n + 1) \in S
    BY <2>1
  <2> QED BY <2>2
<1>3. 0..N \subseteq U
  <2> HIDE DEF U
  <2> QED BY <1>1, <1>2, Upwards
<1>4. ASSUME NEW n \in 0..N PROVE n \in S
  <2>1. N - n \in 0..N /\ N - (N - n) = n
    OBVIOUS
  <2> QED BY <1>3, <2>1
<1> QED BY <1>4

-----------------------------------------------------------------------------
(* Placeholders counted. *)

LEMMA SlotsFacts ==
  ASSUME NEW S, NEW text \in Seq(S)
  PROVE  /\ Slots(text, 0) = 0
         /\ \A i \in 0..Len(text) : Slots(text, i) \in Nat
         /\ \A i \in 1..Len(text) :
               Slots(text, i) = Slots(text, i-1) + IF text[i] = Placeholder THEN 1 ELSE 0
<1> DEFINE H(i) == {j \in 1..i : text[j] = Placeholder}
<1>1. \A i \in 0..Len(text) : IsFiniteSet(H(i)) /\ Cardinality(H(i)) \in Nat
  <2> SUFFICES ASSUME NEW i \in 0..Len(text)
               PROVE  IsFiniteSet(H(i)) /\ Cardinality(H(i)) \in Nat
    OBVIOUS
  <2>1. IsFiniteSet(1..i) /\ H(i) \subseteq 1..i
    BY FS_Interval
  <2> QED BY <2>1, FS_Subset, FS_CardinalityType
<1>2. H(0) = {}
  OBVIOUS
<1>3. ASSUME NEW i \in 1..Len(text)
      PROVE  Cardinality(H(i)) = Cardinality(H(i-1)) + IF text[i] = Placeholder THEN 1 ELSE 0
  <2>1. i - 1 \in 0..Len(text)
    OBVIOUS
  <2>2. CASE text[i] = Placeholder
    <3>1. H(i) = H(i-1) \cup {i} /\ i \notin H(i-1)
      BY <2>2
    <3>2. Cardinality(H(i-1) \cup {i}) = Cardinality(H(i-1)) + 1
      BY <1>1, <2>1, <3>1, FS_AddElement
    <3> QED BY <2>2, <3>1, <3>2
  <2>3. CASE text[i] # Placeholder
    <3>1. H(i) = H(i-1)
      BY <2>3
    <3>2. Cardinality(H(i-1)) \in Nat
      BY <1>1, <2>1
    <3> HIDE DEF H
    <3> QED BY <2>3, <3>1, <3>2
  <2> QED BY <2>2, <2>3
<1>4. \A i : Slots(text, i) = Cardinality(H(i))
  BY DEF Slots
<1> HIDE DEF H
<1> QED BY <1>1, <1>2, <1>3, <1>4, FS_EmptySet

LEMMA SlotsMonotone ==
  ASSUME NEW S, NEW text \in Seq(S), NEW i \in 0..Len(text), NEW j \in i..Len(text)
  PROVE  Slots(text, i) <= Slots(text, j)
<1> DEFINE U == {m \in 0..(Len(text) - i) : Slots(text, i) <= Slots(text, i + m)}
<1>1. 0 \in U
  BY SlotsFacts
<1>2. ASSUME NEW m \in 0..(Len(text) - i - 1), m \in U PROVE m + 1 \in U
  <2>1. i + m + 1 \in 1..Len(text) /\ i + m \in 0..Len(text) /\ (i + m + 1) - 1 = i + m
    BY <1>2
  <2>2. Slots(text, i + m + 1) = Slots(text, i + m) + IF text[i + m + 1] = Placeholder THEN 1 ELSE 0
    BY <2>1, SlotsFacts
  <2>3. Slots(text, i + m) \in Nat /\ Slots(text, i) \in Nat /\ Slots(text, i) <= Slots(text, i + m)
    BY <1>2, <2>1, SlotsFacts
  <2>4. Slots(text, i) <= Slots(text, i + (m + 1))
    <3>1. i + (m + 1) = i + m + 1
      BY <2>1
    <3> QED BY <2>2, <2>3, <3>1
  <2> QED BY <2>4
<1>3. 0..(Len(text) - i) \subseteq U
  <2>1. Len(text) - i \in Nat
    OBVIOUS
  <2> HIDE DEF U
  <2> QED BY <1>1, <1>2, <2>1, Upwards
<1>4. j - i \in 0..(Len(text) - i) /\ i + (j - i) = j
  OBVIOUS
<1> QED BY <1>3, <1>4

\* Recursive functions on an interval: there is one, and only one.
IsStep(G, I, D) == G \in [I \X D -> D]

ClimbsBy(G, f, N, D, b) ==
    f \in [0..N -> D] /\ f[0] = b /\ \A i \in 1..N : f[i] = G[<<i, f[i-1]>>]

FallsBy(G, f, N, D, b) ==
    f \in [0..N -> D] /\ f[N] = b /\ \A i \in 0..(N-1) : f[i] = G[<<i, f[i+1]>>]

LEMMA RecursionUp ==
  ASSUME NEW N \in Nat, NEW D, NEW b \in D, NEW G, IsStep(G, 1..N, D)
  PROVE  \E f : ClimbsBy(G, f, N, D, b)
<1> USE DEF IsStep, ClimbsBy
<1> DEFINE Good(f, n) == /\ f \in [0..n -> D] /\ f[0] = b
                         /\ \A i \in 1..n : f[i] = G[<<i, f[i-1]>>]
           S == {n \in 0..N : \E f : Good(f, n)}
<1>1. 0 \in S
  <2>1. Good([i \in 0..0 |-> b], 0)
    OBVIOUS
  <2> HIDE DEF Good
  <2> QED BY <2>1
<1>2. ASSUME NEW n \in 0..(N-1), n \in S PROVE n + 1 \in S
  <2>1. PICK f : Good(f, n)
    BY <1>2
  <2>2. f[n] \in D /\ n + 1 \in 1..N /\ n \in Nat
    BY <2>1
  <2> DEFINE y == G[<<n+1, f[n]>>]
             g == [i \in 0..(n+1) |-> IF i = n + 1 THEN y ELSE f[i]]
  <2>3. y \in D
    BY <2>2
  <2>4. \A i \in 0..n : g[i] = f[i]
    BY <2>2
  <2>5. g[n+1] = y
    BY <2>2
  <2>6. g \in [0..(n+1) -> D]
    BY <2>1, <2>2, <2>3
  <2>7. \A i \in 1..(n+1) : g[i] = G[<<i, g[i-1]>>]
    <3> SUFFICES ASSUME NEW i \in 1..(n+1) PROVE g[i] = G[<<i, g[i-1]>>]
      OBVIOUS
    <3>1. CASE i = n + 1
      <4>1. g[i-1] = f[n]
        BY <3>1, <2>2, <2>4
      <4> QED BY <3>1, <4>1, <2>5
    <3>2. CASE i \in 1..n
      <4>1. i \in 0..n /\ i - 1 \in 0..n
        BY <3>2
      <4>2. g[i] = f[i] /\ g[i-1] = f[i-1]
        BY <4>1, <2>4
      <4>3. f[i] = G[<<i, f[i-1]>>]
        BY <3>2, <2>1
      <4> HIDE DEF g
      <4> QED BY <4>2, <4>3
    <3> QED BY <3>1, <3>2
  <2>8. g[0] = b
    BY <2>1, <2>4
  <2>9. Good(g, n+1)
    <3> HIDE DEF g
    <3> QED BY <2>6, <2>7, <2>8
  <2> HIDE DEF Good
  <2> QED BY <2>9, <2>2
<1>3. N \in S
  <2> HIDE DEF S
  <2> QED BY <1>1, <1>2, Upwards
<1> QED BY <1>3

LEMMA RecursionDown ==
  ASSUME NEW N \in Nat, NEW D, NEW b \in D, NEW G, IsStep(G, 0..(N-1), D)
  PROVE  \E f : FallsBy(G, f, N, D, b)
<1> USE DEF IsStep, FallsBy
<1> DEFINE H == [x \in (1..N) \X D |-> G[<<N - x[1], x[2]>>]]
<1>1. H \in [(1..N) \X D -> D]
  <2> SUFFICES ASSUME NEW x \in (1..N) \X D PROVE G[<<N - x[1], x[2]>>] \in D
    OBVIOUS
  <2>1. N - x[1] \in 0..(N-1) /\ x[2] \in D
    OBVIOUS
  <2> QED BY <2>1
<1>a. PICK h : ClimbsBy(H, h, N, D, b)
  <2>1. IsStep(H, 1..N, D)
    BY <1>1
  <2> HIDE DEF H, IsStep
  <2> QED BY <2>1, RecursionUp
<1>2. h \in [0..N -> D] /\ h[0] = b /\ \A i \in 1..N : h[i] = H[<<i, h[i-1]>>]
  BY <1>a DEF ClimbsBy
<1> DEFINE f == [i \in 0..N |-> h[N - i]]
<1>3. f \in [0..N -> D] /\ f[N] = b
  BY <1>2
<1>4. ASSUME NEW i \in 0..(N-1) PROVE f[i] = G[<<i, f[i+1]>>]
  <2>1. N - i \in 1..N /\ i + 1 \in 0..N /\ N - (i + 1) = (N - i) - 1 /\ i \in 0..N
    OBVIOUS
  <2>2. f[i] = h[N-i] /\ f[i+1] = h[(N-i)-1] /\ h[(N-i)-1] \in D
    BY <2>1, <1>2
  <2>3. h[N-i] = H[<<N-i, h[(N-i)-1]>>]
    BY <2>1, <1>2
  <2>4. H[<<N-i, h[(N-i)-1]>>] = G[<<N-(N-i), h[(N-i)-1]>>]
    BY <2>1, <2>2
  <2>5. N - (N-i) = i
    OBVIOUS
  <2> HIDE DEF f, H
  <2> QED BY <2>2, <2>3, <2>4, <2>5
<1> HIDE DEF f
<1> QED BY <1>3, <1>4

CaptureRow(text, s, i, x) ==
    [j \in 0..Len(s) |->
       IF text[i+1] = Placeholder
       THEN UNION {{<<SubSeq(s, j + 1, k)>> \o c : c \in x[k]} :
                   k \in Least({m \in j..Len(s) : x[m] # {}})}
       ELSE UNION {x[k] : k \in {m \in {j + 1} : m <= Len(s) /\ s[m] = text[i+1]}}]

LEMMA CapturesRest ==
  ASSUME NEW text \in Text, NEW s \in Seq(Char)
  PROVE  \E R : /\ Captures(text, s) = R[0][0]
                /\ \A j \in 0..Len(s) : R[Len(text)][j] = {c \in {<<>>} : j = Len(s)}
                /\ \A i \in 0..(Len(text) - 1) : R[i] = CaptureRow(text, s, i, R[i+1])
<1> DEFINE L == Len(text)
           N == Len(s)
           D == [0..N -> SUBSET Seq(Seq(Char))]
           last == [j \in 0..N |-> {c \in {<<>>} : j = N}]
           G == [p \in (0..(L-1)) \X D |-> CaptureRow(text, s, p[1], p[2])]
<1>1. L \in Nat /\ N \in Nat
  BY DEF Text
<1>2. last \in D
  <2>1. \A j \in 0..N : {c \in {<<>>} : j = N} \in SUBSET Seq(Seq(Char))
    <3>1. <<>> \in Seq(Seq(Char))
      OBVIOUS
    <3> QED BY <3>1
  <2> QED BY <2>1
<1>3. ASSUME NEW i \in 0..(L-1), NEW x \in D PROVE CaptureRow(text, s, i, x) \in D
  <2> DEFINE row(j) == IF text[i+1] = Placeholder
       THEN UNION {{<<SubSeq(s, j + 1, k)>> \o c : c \in x[k]} :
                   k \in Least({m \in j..N : x[m] # {}})}
       ELSE UNION {x[k] : k \in {m \in {j + 1} : m <= N /\ s[m] = text[i+1]}}
  <2>1. ASSUME NEW j \in 0..N PROVE row(j) \subseteq Seq(Seq(Char))
    <3>1. CASE text[i+1] = Placeholder
      <4>1. ASSUME NEW k \in Least({m \in j..N : x[m] # {}}), NEW c \in x[k]
            PROVE  <<SubSeq(s, j + 1, k)>> \o c \in Seq(Seq(Char))
        <5>1. k \in j..N /\ k \in 0..N
          BY <4>1, <1>1 DEF Least
        <5>2. SubSeq(s, j + 1, k) \in Seq(Char)
          BY <5>1, <1>1
        <5>3. c \in Seq(Seq(Char))
          BY <5>1
        <5> QED BY <5>2, <5>3
      <4>2. row(j) = UNION {{<<SubSeq(s, j + 1, k)>> \o c : c \in x[k]} :
                             k \in Least({m \in j..N : x[m] # {}})}
        BY <3>1
      <4>3. \A e \in row(j) : \E k \in Least({m \in j..N : x[m] # {}}) : \E c \in x[k] :
                e = <<SubSeq(s, j + 1, k)>> \o c
        BY <4>2, Zenon
      <4>4. ASSUME NEW e \in row(j) PROVE e \in Seq(Seq(Char))
        <5>0. PICK k \in Least({m \in j..N : x[m] # {}}) : \E c \in x[k] :
                  e = <<SubSeq(s, j + 1, k)>> \o c
          BY <4>3
        <5>1. PICK c \in x[k] : e = <<SubSeq(s, j + 1, k)>> \o c
          BY <5>0
        <5>2. <<SubSeq(s, j + 1, k)>> \o c \in Seq(Seq(Char))
          BY <4>1
        <5> HIDE DEF row
        <5> QED BY <5>1, <5>2
      <4> HIDE DEF row
      <4> QED BY <4>4
    <3>2. CASE text[i+1] # Placeholder
      <4>1. \A k \in {m \in {j + 1} : m <= N /\ s[m] = text[i+1]} : k \in 0..N
        BY <1>1
      <4> QED BY <3>2, <4>1
    <3> QED BY <3>1, <3>2
  <2>2. CaptureRow(text, s, i, x) = [j \in 0..N |-> row(j)]
    BY DEF CaptureRow
  <2> HIDE DEF row
  <2> QED BY <2>1, <2>2
<1>4. IsStep(G, 0..(L-1), D)
  <2> HIDE DEF D
  <2> QED BY <1>3 DEF IsStep
<1>5. PICK f : FallsBy(G, f, L, D, last)
  <2> HIDE DEF D, G, last, L
  <2> QED BY <1>1, <1>2, <1>4, RecursionDown
<1>6. /\ f \in [0..L -> D] /\ f[L] = last
      /\ \A i \in 0..(L-1) : f[i] = CaptureRow(text, s, i, f[i+1])
  <2>1. f \in [0..L -> D] /\ f[L] = last /\ \A i \in 0..(L-1) : f[i] = G[<<i, f[i+1]>>]
    BY <1>5 DEF FallsBy
  <2>2. ASSUME NEW i \in 0..(L-1) PROVE G[<<i, f[i+1]>>] = CaptureRow(text, s, i, f[i+1])
    <3>1. i + 1 \in 0..L
      BY <1>1
    <3>2. f[i+1] \in D
      BY <2>1, <3>1
    <3> HIDE DEF D
    <3> QED BY <3>2
  <2> HIDE DEF G, D, L
  <2> QED BY <2>1, <2>2
<1> DEFINE E(r) == [i \in 0..L |-> [j \in 0..N |->
             IF i = L
             THEN {c \in {<<>>} : j = N}
             ELSE IF text[i+1] = Placeholder
             THEN UNION {{<<SubSeq(s, j + 1, k)>> \o c : c \in r[i+1][k]} :
                         k \in Least({m \in j..N : r[i+1][m] # {}})}
             ELSE UNION {r[i+1][k] : k \in {m \in {j + 1} : /\ m <= N
                                                            /\ s[m] = text[i+1]}}]]
           rest == CHOOSE r : r = E(r)
<1>7. ASSUME NEW r PROVE \A i \in 0..L : E(r)[i] = IF i = L THEN last
                                                    ELSE CaptureRow(text, s, i, r[i+1])
  BY DEF CaptureRow
<1>8. f = E(f)
  <2>1. \A i \in 0..L : f[i] = E(f)[i]
    <3> TAKE i \in 0..L
    <3>1. i = L \/ i \in 0..(L-1)
      BY <1>1
    <3>2. E(f)[i] = IF i = L THEN last ELSE CaptureRow(text, s, i, f[i+1])
      BY <1>7
    <3> HIDE DEF E, last, L, D
    <3> QED BY <1>6, <3>1, <3>2
  <2>2. f = [i \in 0..L |-> f[i]]
    BY <1>6
  <2>3. E(f) = [i \in 0..L |-> E(f)[i]]
    OBVIOUS
  <2> HIDE DEF E
  <2> QED BY <2>1, <2>2, <2>3
<1>9. rest = E(rest)
  <2> HIDE DEF E
  <2> QED BY <1>8
<1>10. Captures(text, s) = rest[0][0]
  BY DEF Captures
<1>11. \A i \in 0..L : rest[i] = IF i = L THEN last ELSE CaptureRow(text, s, i, rest[i+1])
  <2> HIDE DEF E, rest
  <2> SUFFICES ASSUME NEW i \in 0..L PROVE rest[i] = IF i = L THEN last ELSE CaptureRow(text, s, i, rest[i+1])
    OBVIOUS
  <2>1. rest[i] = E(rest)[i]
    BY <1>9
  <2>2. E(rest)[i] = IF i = L THEN last ELSE CaptureRow(text, s, i, rest[i+1])
    BY <1>7
  <2> QED BY <2>1, <2>2
<1>12. \A j \in 0..N : rest[L][j] = {c \in {<<>>} : j = N}
  <2>1. L \in 0..L
    BY <1>1
  <2>2. rest[L] = last
    BY <1>11, <2>1
  <2> HIDE DEF rest
  <2> QED BY <2>2
<1>13. \A i \in 0..(L-1) : rest[i] = CaptureRow(text, s, i, rest[i+1])
  <2>1. \A i \in 0..(L-1) : i \in 0..L /\ i # L
    BY <1>1
  <2> HIDE DEF rest, L, last
  <2> QED BY <1>11, <2>1
<1> HIDE DEF rest
<1> QED BY <1>10, <1>12, <1>13

\* Each symbol after the first i takes its stretch of l, a literal just itself.
Spans(at, text, l, i) ==
    \A m \in (i+1)..Len(text) :
        /\ at[m-1] <= at[m]
        /\ text[m] # Placeholder => at[m] = at[m-1] + 1 /\ l[at[m]] = text[m]

\* The captures c of the text after its first i symbols.
Taken(c, at, text, l, i) ==
    /\ c \in Seq(Seq(Char))
    /\ Len(c) = Slots(text, Len(text)) - Slots(text, i)
    /\ \A m \in (i+1)..Len(text) : text[m] = Placeholder =>
          c[Slots(text, m) - Slots(text, i)] = SubSeq(l, at[m-1] + 1, at[m])

TailAligned(c, text, s, i, j) ==
    \E at \in [i..Len(text) -> 0..Len(s)] :
        /\ at[i] = j /\ at[Len(text)] = Len(s)
        /\ Spans(at, text, s, i) /\ Taken(c, at, text, s, i)

\* One symbol more in front.
LEMMA TailGrows ==
  ASSUME NEW text \in Text, NEW s \in Seq(Char), NEW i \in 0..(Len(text) - 1),
         NEW j \in 0..Len(s), NEW k \in j..Len(s), NEW d, TailAligned(d, text, s, i + 1, k),
         NEW c,
         \/ text[i+1] = Placeholder /\ c = <<SubSeq(s, j + 1, k)>> \o d
         \/ text[i+1] # Placeholder /\ c = d /\ k = j + 1 /\ s[k] = text[i+1]
  PROVE  TailAligned(c, text, s, i, j)
<1> DEFINE L == Len(text)
           N == Len(s)
<1>1. L \in Nat /\ N \in Nat /\ text \in Seq(Char \cup {Placeholder})
  BY DEF Text
<1>2. PICK bt \in [(i+1)..L -> 0..N] :
          /\ bt[i+1] = k /\ bt[L] = N
          /\ Spans(bt, text, s, i + 1) /\ Taken(d, bt, text, s, i + 1)
  BY DEF TailAligned
<1> DEFINE at == [m \in i..L |-> IF m = i THEN j ELSE bt[m]]
<1>3. /\ at \in [i..L -> 0..N] /\ at[i] = j /\ at[L] = N
      /\ \A m \in (i+1)..L : at[m] = bt[m]
  BY <1>1, <1>2
<1> HIDE DEF at
<1>4. ASSUME NEW m \in (i+1)..L
      PROVE  /\ at[m-1] <= at[m]
             /\ text[m] # Placeholder => at[m] = at[m-1] + 1 /\ s[at[m]] = text[m]
  <2>1. CASE m = i + 1
    <3>1. m - 1 = i /\ at[m] = k /\ at[m-1] = j
      BY <2>1, <1>2, <1>3
    <3> QED BY <2>1, <3>1
  <2>2. CASE m # i + 1
    <3>1. m \in ((i+1)+1)..L /\ m - 1 \in (i+1)..L
      BY <2>2, <1>1
    <3>2. at[m] = bt[m] /\ at[m-1] = bt[m-1]
      BY <3>1, <1>3
    <3> QED BY <3>1, <3>2, <1>2 DEF Spans
  <2> QED BY <2>1, <2>2
<1>5. Spans(at, text, s, i)
  BY <1>4 DEF Spans
<1> DEFINE S(m) == Slots(text, m)
<1>6. \A m \in 0..L : S(m) \in Nat
  BY <1>1, SlotsFacts
<1>7. i + 1 \in 1..L /\ i \in 0..L /\ i + 1 \in 0..L /\ L \in 0..L
  BY <1>1
<1>8. S(i+1) = S(i) + IF text[i+1] = Placeholder THEN 1 ELSE 0
  <2>1. (i + 1) - 1 = i
    OBVIOUS
  <2> QED BY <1>1, <1>7, <2>1, SlotsFacts
<1>9. \A m \in (i+1)..L : S(i+1) <= S(m)
  BY <1>1, <1>7, SlotsMonotone
<1>10. /\ d \in Seq(Seq(Char)) /\ Len(d) = S(L) - S(i+1)
       /\ \A m \in ((i+1)+1)..L : text[m] = Placeholder =>
             d[S(m) - S(i+1)] = SubSeq(s, bt[m-1] + 1, bt[m])
  BY <1>2 DEF Taken
<1>10a. \A m \in ((i+1)+1)..L : text[m] = Placeholder =>
             S(m) - S(i+1) \in 1..Len(d)
  <2> SUFFICES ASSUME NEW m \in ((i+1)+1)..L, text[m] = Placeholder
               PROVE  S(m) - S(i+1) \in 1..Len(d)
    OBVIOUS
  <2>1. m \in 1..L /\ m - 1 \in (i+1)..L /\ m \in 0..L /\ m - 1 \in 0..L
    BY <1>1
  <2>2. S(m) = S(m-1) + 1
    BY <1>1, <2>1, SlotsFacts
  <2>3. S(i+1) <= S(m-1) /\ S(m) <= S(L)
    BY <1>1, <1>7, <1>9, <2>1, SlotsMonotone
  <2>4. S(i+1) \in Nat /\ S(m-1) \in Nat /\ S(m) \in Nat /\ S(L) \in Nat
    BY <1>6, <1>7, <2>1
  <2>5. Len(d) = S(L) - S(i+1)
    BY <1>10
  <2> HIDE DEF S
  <2> QED BY <2>2, <2>3, <2>4, <2>5
<1> HIDE DEF S
<1>11. Taken(c, at, text, s, i)
  <2>1. CASE text[i+1] = Placeholder
    <3>1. c = <<SubSeq(s, j + 1, k)>> \o d /\ S(i+1) = S(i) + 1
      BY <2>1, <1>8
    <3>2. SubSeq(s, j + 1, k) \in Seq(Char)
      BY <1>1
    <3> DEFINE first == SubSeq(s, j + 1, k)
    <3> HIDE DEF first
    <3>3. /\ c \in Seq(Seq(Char)) /\ Len(c) = 1 + Len(d) /\ c[1] = first
          /\ \A q \in 1..Len(d) : c[q+1] = d[q]
      <4>1. <<first>> \in Seq(Seq(Char)) /\ Len(<<first>>) = 1 /\ <<first>>[1] = first
        BY <3>2 DEF first
      <4>2. Len(d) \in Nat
        BY <1>10
      <4>3. c = <<first>> \o d
        BY <3>1 DEF first
      <4>4. /\ c \in Seq(Seq(Char)) /\ Len(c) = 1 + Len(d)
            /\ \A q \in 1..(1 + Len(d)) : c[q] = IF q <= 1 THEN <<first>>[q] ELSE d[q - 1]
        BY <4>1, <4>3, <1>10, ConcatProperties
      <4>5. \A q \in 1..Len(d) : q + 1 \in 1..(1 + Len(d)) /\ ~(q + 1 <= 1) /\ (q + 1) - 1 = q
        BY <4>2
      <4>6. 1 \in 1..(1 + Len(d))
        BY <4>2
      <4> QED BY <4>1, <4>4, <4>5, <4>6
    <3>4. S(i) \in Nat /\ S(i+1) \in Nat /\ S(L) \in Nat
      BY <1>6, <1>7
    <3>5. Len(c) = S(L) - S(i)
      BY <3>1, <3>3, <3>4, <1>10
    <3>6. ASSUME NEW m \in (i+1)..L, text[m] = Placeholder
          PROVE  c[S(m) - S(i)] = SubSeq(s, at[m-1] + 1, at[m])
      <4>1. CASE m = i + 1
        <5>1. m - 1 = i /\ at[m] = k /\ at[m-1] = j /\ S(m) - S(i) = 1
          BY <4>1, <1>2, <1>3, <3>1, <3>4
        <5> QED BY <5>1, <3>3 DEF first
      <4>2. CASE m # i + 1
        <5>1. m \in ((i+1)+1)..L /\ m - 1 \in (i+1)..L /\ m \in 0..L
          BY <4>2, <1>1
        <5>2. at[m] = bt[m] /\ at[m-1] = bt[m-1]
          BY <5>1, <1>3
        <5>3. d[S(m) - S(i+1)] = SubSeq(s, bt[m-1] + 1, bt[m]) /\ S(m) - S(i+1) \in 1..Len(d)
          BY <1>10, <1>10a, <3>6, <5>1
        <5>4. c[(S(m) - S(i+1)) + 1] = d[S(m) - S(i+1)]
          BY <3>3, <5>3
        <5>5. (S(m) - S(i+1)) + 1 = S(m) - S(i)
          <6>1. S(m) \in Nat
            BY <5>1, <1>6
          <6> QED BY <6>1, <3>1, <3>4
        <5> QED BY <5>2, <5>3, <5>4, <5>5
      <4> QED BY <4>1, <4>2
    <3> QED BY <3>3, <3>5, <3>6 DEF Taken, S
  <2>2. CASE text[i+1] # Placeholder
    <3>1. c = d /\ S(i+1) = S(i)
      <4>1. S(i) \in Nat
        BY <1>6, <1>7
      <4> QED BY <2>2, <1>8, <4>1
    <3>2. ASSUME NEW m \in (i+1)..L, text[m] = Placeholder
          PROVE  c[S(m) - S(i)] = SubSeq(s, at[m-1] + 1, at[m])
      <4>1. m # i + 1
        BY <2>2, <3>2
      <4>2. m \in ((i+1)+1)..L /\ m - 1 \in (i+1)..L
        BY <4>1, <1>1
      <4>3. at[m] = bt[m] /\ at[m-1] = bt[m-1]
        BY <4>2, <1>3
      <4> QED BY <1>10, <3>1, <3>2, <4>2, <4>3
    <3> QED BY <1>10, <3>1, <3>2 DEF Taken, S
  <2> QED BY <2>1, <2>2
<1> QED BY <1>3, <1>5, <1>11 DEF TailAligned

LEMMA CapturesAlign ==
  ASSUME NEW text \in Text, NEW s \in Seq(Char), NEW c \in Captures(text, s)
  PROVE  TailAligned(c, text, s, 0, 0)
<1> DEFINE L == Len(text)
           N == Len(s)
<1>1. L \in Nat /\ N \in Nat
  BY DEF Text
<1>2. PICK R : /\ Captures(text, s) = R[0][0]
               /\ \A j \in 0..N : R[L][j] = {d \in {<<>>} : j = N}
               /\ \A i \in 0..(L-1) : R[i] = CaptureRow(text, s, i, R[i+1])
  BY CapturesRest
<1> DEFINE U == {i \in 0..L : \A j \in 0..N : \A d \in R[i][j] : TailAligned(d, text, s, i, j)}
<1>3. L \in U
  <2> SUFFICES ASSUME NEW j \in 0..N, NEW d \in R[L][j] PROVE TailAligned(d, text, s, L, j)
    BY <1>1
  <2>1. j = N /\ d = <<>>
    BY <1>2
  <2> DEFINE at == [m \in L..L |-> N]
  <2>2. at \in [L..L -> 0..N] /\ at[L] = j
    BY <1>1, <2>1
  <2>3. Spans(at, text, s, L)
    BY <1>1 DEF Spans
  <2>4. Taken(d, at, text, s, L)
    <3>1. Slots(text, L) - Slots(text, L) = 0
      BY <1>1, SlotsFacts DEF Text
    <3>2. \A m \in (L+1)..L : FALSE
      BY <1>1
    <3> QED BY <2>1, <3>1, <3>2 DEF Taken
  <2> QED BY <2>1, <2>2, <2>3, <2>4 DEF TailAligned
<1>4. ASSUME NEW i \in 0..(L-1), i + 1 \in U PROVE i \in U
  <2> SUFFICES ASSUME NEW j \in 0..N, NEW d \in R[i][j] PROVE TailAligned(d, text, s, i, j)
    BY <1>1
  <2>1. \A k \in 0..N : \A e \in R[i+1][k] : TailAligned(e, text, s, i+1, k)
    BY <1>4
  <2>2. d \in CaptureRow(text, s, i, R[i+1])[j]
    BY <1>2
  <2>3. CASE text[i+1] = Placeholder
    <3>1. d \in UNION {{<<SubSeq(s, j + 1, k)>> \o e : e \in R[i+1][k]} :
                   k \in Least({m \in j..Len(s) : R[i+1][m] # {}})}
      BY <2>2, <2>3 DEF CaptureRow
    <3>2. PICK k \in Least({m \in j..Len(s) : R[i+1][m] # {}}) : \E e \in R[i+1][k] :
              d = <<SubSeq(s, j + 1, k)>> \o e
      BY <3>1, Zenon
    <3>3. PICK e \in R[i+1][k] : d = <<SubSeq(s, j + 1, k)>> \o e
      BY <3>2
    <3>4. k \in j..N
      BY <3>2 DEF Least
    <3>5. TailAligned(e, text, s, i+1, k)
      BY <2>1, <3>3, <3>4, <1>1
    <3> QED BY <2>3, <3>3, <3>4, <3>5, TailGrows
  <2>4. CASE text[i+1] # Placeholder
    <3>1. d \in UNION {R[i+1][k] : k \in {m \in {j + 1} : m <= N /\ s[m] = text[i+1]}}
      BY <2>2, <2>4 DEF CaptureRow
    <3>2. d \in R[i+1][j+1] /\ j + 1 <= N /\ s[j+1] = text[i+1]
      BY <3>1
    <3>3. j + 1 \in j..N /\ j + 1 \in 0..N
      BY <3>2, <1>1
    <3>4. TailAligned(d, text, s, i+1, j+1)
      BY <2>1, <3>2, <3>3
    <3> QED BY <2>4, <3>2, <3>3, <3>4, TailGrows
  <2> QED BY <2>3, <2>4
<1>5. 0 \in U
  <2> HIDE DEF U
  <2>1. 0..L \subseteq U
    BY <1>1, <1>3, <1>4, Downwards
  <2> QED BY <2>1, <1>1
<1>6. 0 \in 0..N
  BY <1>1
<1> QED BY <1>2, <1>5, <1>6

LEMMA Window ==
  ASSUME NEW S, NEW l \in Seq(S), NEW a \in 0..Len(l), NEW b \in a..Len(l)
  PROVE  /\ SubSeq(l, a + 1, b) \in Seq(S)
         /\ Len(SubSeq(l, a + 1, b)) = b - a
         /\ \A x \in 1..(b - a) : SubSeq(l, a + 1, b)[x] = l[a + x]
         /\ \A x \in 0..(b - a) : \A y \in x..(b - a) :
               SubSeq(SubSeq(l, a + 1, b), x + 1, y) = SubSeq(l, (a + x) + 1, a + y)
<1> DEFINE w == SubSeq(l, a + 1, b)
<1>1. /\ w \in Seq(S) /\ Len(w) = b - a
      /\ \A x \in 1..(b - a) : w[x] = l[a + x]
  <2>1. \A i \in (a+1)..b : l[i] \in S
    OBVIOUS
  <2>2. /\ w \in Seq(S) /\ Len(w) = (IF a + 1 <= b THEN b - (a + 1) + 1 ELSE 0)
        /\ \A i \in 1..(b - (a + 1) + 1) : w[i] = l[(a + 1) + i - 1]
    BY <2>1, SubSeqProperties
  <2>3. b - (a + 1) + 1 = b - a /\ \A x \in 1..(b - a) : (a + 1) + x - 1 = a + x
    OBVIOUS
  <2> QED BY <2>2, <2>3
<1>2. ASSUME NEW x \in 0..(b - a), NEW y \in x..(b - a)
      PROVE  SubSeq(w, x + 1, y) = SubSeq(l, (a + x) + 1, a + y)
  <2> DEFINE u == SubSeq(w, x + 1, y)
             v == SubSeq(l, (a + x) + 1, a + y)
  <2>1. \A i \in (x+1)..y : w[i] \in S
    BY <1>1
  <2>2. \A i \in ((a+x)+1)..(a+y) : l[i] \in S
    OBVIOUS
  <2> HIDE DEF w
  <2>3. /\ u \in Seq(S) /\ Len(u) = (IF x + 1 <= y THEN y - (x + 1) + 1 ELSE 0)
        /\ \A i \in 1..(y - (x + 1) + 1) : u[i] = w[(x + 1) + i - 1]
    BY <2>1, SubSeqProperties
  <2>4. /\ v \in Seq(S)
        /\ Len(v) = (IF (a+x) + 1 <= a+y THEN (a+y) - ((a+x) + 1) + 1 ELSE 0)
        /\ \A i \in 1..((a+y) - ((a+x) + 1) + 1) : v[i] = l[((a+x) + 1) + i - 1]
    BY <2>2, SubSeqProperties
  <2> HIDE DEF u, v
  <2>5. Len(u) = y - x /\ Len(v) = y - x
    BY <2>3, <2>4
  <2>6. ASSUME NEW i \in 1..(y - x) PROVE u[i] = v[i]
    <3>1. u[i] = w[x + i] /\ v[i] = l[a + x + i]
      <4>1. /\ i \in 1..(y - (x + 1) + 1) /\ (x + 1) + i - 1 = x + i
            /\ i \in 1..((a+y) - ((a+x) + 1) + 1) /\ ((a+x) + 1) + i - 1 = a + x + i
        OBVIOUS
      <4>2. u[i] = w[(x + 1) + i - 1]
        BY <2>3, <4>1
      <4>3. v[i] = l[((a+x) + 1) + i - 1]
        BY <2>4, <4>1
      <4> QED BY <4>1, <4>2, <4>3
    <3>2. x + i \in 1..(b - a) /\ a + (x + i) = a + x + i
      OBVIOUS
    <3>3. w[x + i] = l[a + (x + i)]
      BY <1>1, <3>2
    <3> QED BY <3>1, <3>2, <3>3
  <2>7. u = v
    <3>1. \A i \in 1..Len(u) : u[i] = v[i]
      BY <2>5, <2>6
    <3> QED BY <2>3, <2>4, <2>5, <3>1, SeqEqual
  <2> QED BY <2>7 DEF u, v
<1> QED BY <1>1, <1>2

LEMMA Glue ==
  ASSUME NEW S, NEW l \in Seq(S), NEW a \in 0..Len(l), NEW b \in a..Len(l), NEW c \in b..Len(l)
  PROVE  SubSeq(l, a + 1, b) \o SubSeq(l, b + 1, c) = SubSeq(l, a + 1, c)
<1>1. a + 1 \in 1..Len(l) + 1 /\ b \in (a + 1) - 1..Len(l)
  OBVIOUS
<1> QED BY <1>1, ConcatAdjacentSubSeq

-----------------------------------------------------------------------------
\* The IDs of the templates a plain node, or a dictionary node, can have.
IDsOf(suffix) == {TemplateID(t) : t \in ToSet(IF suffix THEN Dict ELSE Primary)}

\* A node, and where it stands in a line: from lo to hi, with its prefix
\* first, at[i] being where symbol i of its template ends.  Its params are
\* what the cascade makes, at depth d, of the stretches its placeholders
\* take.
Stands(n, l, lo, hi, at, d) ==
    /\ n = [kind |-> "node", id |-> n.id, text |-> n.text, prefix |-> n.prefix,
            suffix |-> n.suffix, params |-> n.params]
    /\ n.text \in Text /\ n.id[2] = n.text
    /\ at \in [0..Len(n.text) -> lo..hi] /\ at[Len(n.text)] = hi
    /\ Spans(at, n.text, l, 0)
    /\ n.prefix = SubSeq(l, lo + 1, at[0])
    /\ n.suffix \in BOOLEAN /\ (~n.suffix => at[0] = lo) /\ n.id \in IDsOf(n.suffix)
    /\ DOMAIN n.params = 1..Slots(n.text, Len(n.text))
    /\ \A m \in 1..Len(n.text) : n.text[m] = Placeholder =>
          n.params[Slots(n.text, m)] = Param[d][SubSeq(l, at[m-1] + 1, at[m])]

LEMMA MatchStands ==
  ASSUME NEW l \in Seq(Char), NEW lo \in 0..Len(l), NEW hi \in lo..Len(l), NEW a \in lo..hi,
         NEW t, t.text \in Text, NEW pre, NEW suf \in BOOLEAN, TemplateID(t) \in IDsOf(suf),
         NEW blanks, NEW d,
         NEW c \in Captures(t.text, SubSeq(l, a + 1, hi)),
         blanks \o pre = SubSeq(l, lo + 1, a), suf \/ a = lo,
         NEW m, m = Match(t, pre, suf, c)
  PROVE  \E at : Stands(Node(m, blanks, [i \in DOMAIN m.params |-> Param[d][m.params[i]]]),
                        l, lo, hi, at, d)
<1> DEFINE w == SubSeq(l, a + 1, hi)
           L == Len(t.text)
           n == Node(m, blanks, [i \in DOMAIN m.params |-> Param[d][m.params[i]]])
<1>1. /\ w \in Seq(Char) /\ Len(w) = hi - a
      /\ \A x \in 1..(hi - a) : w[x] = l[a + x]
      /\ \A x \in 0..(hi - a) : \A y \in x..(hi - a) :
            SubSeq(w, x + 1, y) = SubSeq(l, (a + x) + 1, a + y)
  <2>1. a \in 0..Len(l) /\ hi \in a..Len(l)
    OBVIOUS
  <2> QED BY <2>1, Window
<1> HIDE DEF w
<1>2. L \in Nat /\ t.text \in Seq(Char \cup {Placeholder})
  BY DEF Text
<1>3. PICK bt \in [0..L -> 0..Len(w)] :
          /\ bt[0] = 0 /\ bt[L] = Len(w)
          /\ Spans(bt, t.text, w, 0) /\ Taken(c, bt, t.text, w, 0)
  <2>1. TailAligned(c, t.text, w, 0, 0)
    BY <1>1, CapturesAlign DEF w
  <2> QED BY <2>1 DEF TailAligned
<1> DEFINE at == [x \in 0..L |-> a + bt[x]]
<1>4. at \in [0..L -> lo..hi] /\ at[0] = a /\ at[L] = hi
  <2>1. \A x \in 0..L : bt[x] \in 0..(hi - a)
    BY <1>1, <1>3
  <2>2. 0 \in 0..L /\ L \in 0..L
    BY <1>2
  <2>3. a + 0 = a /\ a + (hi - a) = hi
    OBVIOUS
  <2>4. \A x \in 0..L : a + bt[x] \in lo..hi
    BY <2>1
  <2>5. at[0] = a + bt[0] /\ at[L] = a + bt[L]
    BY <2>2
  <2>6. at \in [0..L -> lo..hi]
    BY <2>4
  <2> HIDE DEF at
  <2> QED BY <1>1, <1>3, <2>3, <2>5, <2>6
<1>5. \A x \in 0..L : at[x] = a + bt[x] /\ bt[x] \in 0..(hi - a)
  BY <1>1, <1>3
<1> HIDE DEF at
<1>6. Spans(at, t.text, l, 0)
  <2> SUFFICES ASSUME NEW x \in (0+1)..L
               PROVE  /\ at[x-1] <= at[x]
                      /\ t.text[x] # Placeholder => at[x] = at[x-1] + 1 /\ l[at[x]] = t.text[x]
    BY DEF Spans
  <2>1. x \in 0..L /\ x - 1 \in 0..L
    BY <1>2
  <2>2. bt[x-1] <= bt[x] /\ (t.text[x] # Placeholder => bt[x] = bt[x-1] + 1 /\ w[bt[x]] = t.text[x])
    BY <1>3 DEF Spans
  <2>3. /\ at[x] = a + bt[x] /\ bt[x] \in 0..(hi - a)
        /\ at[x-1] = a + bt[x-1] /\ bt[x-1] \in 0..(hi - a)
    BY <2>1, <1>5
  <2>4. CASE t.text[x] # Placeholder
    <3>1. bt[x] \in 1..(hi - a)
      BY <2>2, <2>3, <2>4
    <3>2. w[bt[x]] = l[a + bt[x]]
      BY <3>1, <1>1
    <3> QED BY <2>2, <2>3, <2>4, <3>2
  <2>5. CASE t.text[x] = Placeholder
    BY <2>2, <2>3, <2>5
  <2> QED BY <2>4, <2>5
<1>7. /\ c \in Seq(Seq(Char)) /\ DOMAIN c = 1..Slots(t.text, L)
      /\ \A x \in 1..L : t.text[x] = Placeholder =>
            c[Slots(t.text, x)] = SubSeq(l, at[x-1] + 1, at[x])
  <2>1. Slots(t.text, 0) = 0 /\ Slots(t.text, L) \in Nat
    BY <1>2, SlotsFacts
  <2>2. c \in Seq(Seq(Char)) /\ Len(c) = Slots(t.text, L)
    BY <1>3, <2>1 DEF Taken
  <2>3. ASSUME NEW x \in 1..L, t.text[x] = Placeholder
        PROVE  c[Slots(t.text, x)] = SubSeq(l, at[x-1] + 1, at[x])
    <3>1. x \in 0..L /\ x - 1 \in 0..L /\ x \in (0+1)..L
      BY <1>2
    <3>2. Slots(t.text, x) \in Nat
      BY <1>2, <3>1, SlotsFacts
    <3>3. c[Slots(t.text, x)] = SubSeq(w, bt[x-1] + 1, bt[x])
      <4>1. Slots(t.text, x) - Slots(t.text, 0) = Slots(t.text, x)
        BY <2>1, <3>2
      <4>2. c[Slots(t.text, x) - Slots(t.text, 0)] = SubSeq(w, bt[x-1] + 1, bt[x])
        BY <1>3, <2>3, <3>1 DEF Taken
      <4> QED BY <4>1, <4>2, Zenon
    <3>4. bt[x-1] \in 0..(hi - a) /\ bt[x] \in bt[x-1]..(hi - a)
      <4>1. bt[x-1] <= bt[x]
        BY <1>3, <3>1 DEF Spans
      <4>2. bt[x-1] \in 0..(hi - a) /\ bt[x] \in 0..(hi - a)
        BY <1>5, <3>1
      <4> QED BY <4>1, <4>2
    <3>5. SubSeq(w, bt[x-1] + 1, bt[x]) = SubSeq(l, (a + bt[x-1]) + 1, a + bt[x])
      BY <1>1, <3>4
    <3>6. at[x] = a + bt[x] /\ at[x-1] = a + bt[x-1]
      BY <1>5, <3>1
    <3>7. SubSeq(w, bt[x-1] + 1, bt[x]) = SubSeq(l, at[x-1] + 1, at[x])
      BY <3>5, <3>6, Zenon
    <3> QED BY <3>3, <3>7, Zenon
  <2> QED BY <2>2, <2>3
<1>8. m.template = t /\ m.prefix = pre /\ m.suffix = suf /\ m.params = c
  BY DEF Match
<1>9. /\ n.text = t.text /\ n.prefix = blanks \o pre /\ n.suffix = suf
      /\ n.params = [i \in DOMAIN c |-> Param[d][c[i]]]
      /\ n.id = TemplateID(t)
      /\ n = [kind |-> "node", id |-> n.id, text |-> n.text, prefix |-> n.prefix,
            suffix |-> n.suffix, params |-> n.params]
  BY <1>8 DEF Node
<1> HIDE DEF n
<1>10. n.id[2] = n.text
  BY <1>9 DEF TemplateID
<1>11. \A x \in 1..L : t.text[x] = Placeholder =>
          n.params[Slots(t.text, x)] = Param[d][SubSeq(l, at[x-1] + 1, at[x])]
  <2> SUFFICES ASSUME NEW x \in 1..L, t.text[x] = Placeholder
               PROVE  n.params[Slots(t.text, x)] = Param[d][SubSeq(l, at[x-1] + 1, at[x])]
    OBVIOUS
  <2>0. t.text[x] = Placeholder
    OBVIOUS
  <2>1. Slots(t.text, x) \in 1..Slots(t.text, L)
    <3>1. x \in 0..L /\ x - 1 \in 0..L /\ L \in x..L
      BY <1>2
    <3>2. Slots(t.text, x) = Slots(t.text, x-1) + 1 /\ Slots(t.text, x-1) \in Nat
          /\ Slots(t.text, L) \in Nat
      <4>1. /\ \A i \in 0..Len(t.text) : Slots(t.text, i) \in Nat
            /\ \A i \in 1..Len(t.text) : Slots(t.text, i) =
                  Slots(t.text, i-1) + IF t.text[i] = Placeholder THEN 1 ELSE 0
        BY <1>2, SlotsFacts
      <4>2. L \in 0..L
        BY <1>2
      <4> QED BY <2>0, <3>1, <4>1, <4>2
    <3>3. Slots(t.text, x) <= Slots(t.text, L)
      BY <1>2, <3>1, SlotsMonotone
    <3> QED BY <3>2, <3>3
  <2> QED BY <2>1, <1>7, <1>9
<1>12. Stands(n, l, lo, hi, at, d)
  BY <1>4, <1>6, <1>7, <1>9, <1>10, <1>11 DEF Stands
<1> QED BY <1>12 DEF n

ParamRow(d, x) ==
    [s \in Seq(Char) |->
        LET blanks == Indent(s)
            found  == IF d = 0 THEN {} ELSE DictMatch(From(s, Len(blanks)))
        IN  IF found = {} THEN Leaf(s)
            ELSE LET m == CHOOSE y \in found : TRUE
                 IN  Node(m, blanks, [i \in DOMAIN m.params |-> x[Below(d)][m.params[i]]])]

LEMMA ParamRows == \A d \in 0..MaxCascadeDepth : Param[d] = ParamRow(d, Param)
<1> DEFINE N == MaxCascadeDepth
           Good(g, n) == g = [d \in 0..n |-> ParamRow(d, g)]
           S == {n \in 0..N : \E g : Good(g, n)}
<1>1. N \in Nat
  BY CascadeAssumption
<1>0. ASSUME NEW f, NEW g, NEW d \in Nat, d = 0 \/ f[d-1] = g[d-1]
      PROVE  ParamRow(d, f) = ParamRow(d, g)
  <2>1. CASE d = 0
    BY <2>1 DEF ParamRow
  <2>2. CASE d # 0
    <3>1. f[Below(d)] = g[Below(d)]
      BY <1>0, <2>2 DEF Below
    <3> QED BY <3>1 DEF ParamRow
  <2> QED BY <2>1, <2>2
<1>2. 0 \in S
  <2> DEFINE g == [i \in 0..0 |-> ParamRow(0, <<>>)]
  <2>1. DOMAIN g = 0..0 /\ g[0] = ParamRow(0, <<>>)
    OBVIOUS
  <2>2. ParamRow(0, <<>>) = ParamRow(0, g)
    <3> HIDE DEF g
    <3> QED BY <1>0
  <2>3. Good(g, 0)
    <3>1. [d \in 0..0 |-> ParamRow(d, g)] = [d \in 0..0 |-> ParamRow(0, <<>>)]
      <4>1. \A d \in 0..0 : ParamRow(d, g) = ParamRow(0, <<>>)
        <5> HIDE DEF g
        <5> QED BY <2>2
      <4> HIDE DEF g
      <4> QED BY <4>1
    <3> QED BY <3>1
  <2> HIDE DEF Good, g
  <2> QED BY <2>3, <1>1
<1>3. ASSUME NEW n \in 0..(N-1), n \in S PROVE n + 1 \in S
  <2>1. PICK f : Good(f, n)
    BY <1>3
  <2>a. \A d \in 0..n : f[d] = ParamRow(d, f)
    BY <2>1
  <2> DEFINE g == [i \in 0..(n+1) |-> IF i = n + 1 THEN ParamRow(n+1, f) ELSE f[i]]
  <2>2. n + 1 \in 0..(n+1) /\ n + 1 \in 0..N /\ n \in Nat /\ (n + 1) - 1 = n
    BY <1>1
  <2>3. g = [i \in 0..(n+1) |-> g[i]] /\ g[n+1] = ParamRow(n+1, f)
    BY <2>2
  <2>4. \A d \in 0..n : g[d] = f[d]
    BY <2>2
  <2> HIDE DEF g
  <2>5. ASSUME NEW d \in 0..(n+1) PROVE g[d] = ParamRow(d, g)
    <3>1. CASE d = n + 1
      <4>1. f[n] = g[n]
        BY <2>2, <2>4
      <4>2. ParamRow(n+1, f) = ParamRow(n+1, g)
        BY <1>0, <4>1, <2>2
      <4> QED BY <3>1, <4>2, <2>3
    <3>2. CASE d \in 0..n
      <4>1. g[d] = f[d] /\ f[d] = ParamRow(d, f)
        BY <3>2, <2>a, <2>4
      <4>2. d = 0 \/ (d - 1 \in 0..n)
        BY <3>2
      <4>3. d = 0 \/ f[d-1] = g[d-1]
        BY <4>2, <2>4
      <4>4. ParamRow(d, f) = ParamRow(d, g)
        BY <1>0, <4>3
      <4> QED BY <4>1, <4>4
    <3> QED BY <3>1, <3>2, <2>2
  <2>6. Good(g, n+1)
    <3>1. [i \in 0..(n+1) |-> g[i]] = [i \in 0..(n+1) |-> ParamRow(i, g)]
      BY <2>5
    <3> QED BY <2>3, <3>1
  <2> HIDE DEF Good
  <2> QED BY <2>6, <2>2
<1>4. PICK g : Good(g, N)
  <2>1. 0..N \subseteq S
    <3> HIDE DEF S
    <3> QED BY <1>1, <1>2, <1>3, Upwards
  <2>2. N \in S
    BY <2>1, <1>1
  <2> HIDE DEF Good
  <2> QED BY <2>2
<1> DEFINE E(x) == [depth \in 0..MaxCascadeDepth |-> ParamRow(depth, x)]
<1>5. g = E(g)
  BY <1>4
<1> DEFINE P == CHOOSE x : x = E(x)
<1>6. P = E(P)
  <2> HIDE DEF E
  <2> QED BY <1>5
<1>7. Param = P
  BY DEF Param, ParamRow
<1> HIDE DEF P
<1>8. Param = E(Param)
  BY <1>6, <1>7
<1> QED BY <1>8

LEMMA IndentFacts ==
  ASSUME NEW s \in Seq(Char)
  PROVE  \E b \in 0..Len(s) : Indent(s) = SubSeq(s, 1, b) /\ Len(Indent(s)) = b
<1> DEFINE I == {i \in 1..Len(s) : s[i] # Blank}
           i == SelectInSeq(s, LAMBDA c : c # Blank)
           b == IF i = 0 THEN Len(s) ELSE i - 1
<1>1. Len(s) \in Nat
  OBVIOUS
<1>2. i = IF I # {} THEN Min(I) ELSE 0
  BY DEF SelectInSeq
<1>3. i \in 0..Len(s)
  <2>1. CASE I = {}
    BY <1>1, <1>2, <2>1
  <2>2. CASE I # {}
    <3>1. I \subseteq Nat /\ I \subseteq 1..Len(s)
      BY <1>1
    <3>2. \E x \in I : \A y \in I : x <= y
      <4> HIDE DEF I
      <4> QED BY <2>2, <3>1, LeastNat
    <3>3. Min(I) \in I
      <4> HIDE DEF I
      <4> QED BY <3>2 DEF Min
    <3> HIDE DEF I, i
    <3>4. i \in 1..Len(s)
      BY <1>2, <2>2, <3>1, <3>3
    <3> QED BY <3>4
  <2> QED BY <2>1, <2>2
<1>4. Indent(s) = SubSeq(s, 1, b)
  BY DEF Indent
<1> HIDE DEF i
<1>5. b \in 0..Len(s)
  BY <1>1, <1>3
<1> HIDE DEF b
<1>6. Len(SubSeq(s, 1, b)) = b
  <2>1. 0 \in 0..Len(s) /\ b \in 0..Len(s) /\ 0 + 1 = 1 /\ b - 0 = b
    BY <1>1, <1>5
  <2> QED BY <2>1, Window
<1> QED BY <1>4, <1>5, <1>6

LEMMA DictMatchFacts ==
  ASSUME NEW s \in Seq(Char), NEW x \in DictMatch(s)
  PROVE  \E i \in DOMAIN Dict, k \in 0..Len(s) :
            \E c \in Captures(Dict[i].text, From(s, k)) :
                x = Match(Dict[i], SubSeq(s, 1, k), TRUE, c)
<1> DEFINE hits == {i \in DOMAIN Dict : Cut(Dict[i].text, s) # {}}
           best == First(Dict, hits, {})
           at(i, k) == {Match(Dict[i], SubSeq(s, 1, k), TRUE, c) :
                        c \in Captures(Dict[i].text, From(s, k))}
<1>1. x \in UNION {UNION {at(i, k) : k \in Cut(Dict[i].text, s)} : i \in best}
  BY DEF DictMatch
<1>2. best \subseteq DOMAIN Dict
  BY DEF First
<1> HIDE DEF best
<1>3. PICK i \in best : x \in UNION {at(i, k) : k \in Cut(Dict[i].text, s)}
  BY <1>1, Zenon
<1>4. PICK k \in Cut(Dict[i].text, s) : x \in at(i, k)
  BY <1>3, Zenon
<1>5. PICK c \in Captures(Dict[i].text, From(s, k)) : x = Match(Dict[i], SubSeq(s, 1, k), TRUE, c)
  BY <1>4
<1>6. k \in 0..Len(s)
  <2>1. k \in Boundaries(s)
    BY DEF Cut, Least
  <2> QED BY <2>1 DEF Boundaries
<1> QED BY <1>2, <1>5, <1>6

LEMMA LineMatchFacts ==
  ASSUME NEW s, NEW x \in LineMatch(s)
  PROVE  \E i \in DOMAIN Primary : \E c \in Captures(Primary[i].text, s) :
             x = Match(Primary[i], <<>>, FALSE, c)
<1> DEFINE fuzzy(i) == HasPlaceholder(Primary[i].text)
           exact    == {i \in DOMAIN Primary : ~fuzzy(i) /\ Primary[i].text = s}
           hits     == {i \in DOMAIN Primary :
                        fuzzy(i) /\ Captures(Primary[i].text, s) # {}}
           last     == {i \in exact : \A j \in exact : j <= i}
           best     == IF exact # {} THEN last
                       ELSE First(Primary, hits,
                               {i \in hits : FirstLiteralToken(Primary[i].text) # <<>>})
<1>1. x \in UNION {{Match(Primary[i], <<>>, FALSE, c) : c \in Captures(Primary[i].text, s)} :
                   i \in best}
  BY DEF LineMatch
<1>2. best \subseteq DOMAIN Primary
  BY DEF First
<1> HIDE DEF best
<1>3. PICK i \in best :
          x \in {Match(Primary[i], <<>>, FALSE, c) : c \in Captures(Primary[i].text, s)}
  BY <1>1, Zenon
<1> QED BY <1>2, <1>3

LEMMA TextsAreText ==
    /\ \A i \in DOMAIN Primary : Primary[i].text \in Text
    /\ \A i \in DOMAIN Dict : Dict[i].text \in Text
BY CascadeAssumption DEF ToSet

LEMMA TextsHaveIDs ==
    /\ \A i \in DOMAIN Primary : TemplateID(Primary[i]) \in IDsOf(FALSE)
    /\ \A i \in DOMAIN Dict : TemplateID(Dict[i]) \in IDsOf(TRUE)
BY DEF IDsOf, ToSet

LEMMA ParamStands ==
  ASSUME NEW l \in Seq(Char), NEW lo \in 0..Len(l), NEW hi \in lo..Len(l),
         NEW d \in 0..MaxCascadeDepth, NEW p, p = Param[d][SubSeq(l, lo + 1, hi)]
  PROVE  \/ p = Leaf(SubSeq(l, lo + 1, hi))
         \/ d > 0 /\ \E at : Stands(p, l, lo, hi, at, d - 1)
<1> DEFINE s == SubSeq(l, lo + 1, hi)
           blanks == Indent(s)
           found == IF d = 0 THEN {} ELSE DictMatch(From(s, Len(blanks)))
           m == CHOOSE y \in found : TRUE
<1>0. lo \in 0..Len(l) /\ hi \in lo..Len(l) /\ Len(l) \in Nat
  OBVIOUS
<1>1. /\ s \in Seq(Char) /\ Len(s) = hi - lo
      /\ \A x \in 0..(hi - lo) : \A y \in x..(hi - lo) :
            SubSeq(s, x + 1, y) = SubSeq(l, (lo + x) + 1, lo + y)
  BY <1>0, Window
<1>2. PICK b \in 0..Len(s) : blanks = SubSeq(s, 1, b) /\ Len(blanks) = b
  BY <1>1, IndentFacts
<1>3. p = IF found = {} THEN Leaf(s)
          ELSE Node(m, blanks, [i \in DOMAIN m.params |-> Param[d-1][m.params[i]]])
  <2>1. Param[d] = ParamRow(d, Param)
    BY ParamRows
  <2> HIDE DEF s
  <2> QED BY <1>1, <2>1 DEF ParamRow, Below, s
<1>4. CASE found # {}
  <2>1. d \in 1..MaxCascadeDepth
    BY <1>4, CascadeAssumption
  <2>2. m \in DictMatch(From(s, b))
    BY <1>2, <1>4
  <2>3. b \in 0..(hi - lo)
    BY <1>1, <1>2
  <2> DEFINE s2 == From(s, b)
  <2>4. s2 = SubSeq(l, (lo + b) + 1, hi) /\ lo + b \in 0..Len(l) /\ hi \in (lo + b)..Len(l)
    <3>1. hi - lo \in b..(hi - lo) /\ lo + (hi - lo) = hi
      BY <2>3, <1>0
    <3>2. lo + b \in 0..Len(l) /\ hi \in (lo + b)..Len(l)
      BY <2>3, <1>0
    <3>3. SubSeq(s, b + 1, hi - lo) = SubSeq(l, (lo + b) + 1, lo + (hi - lo))
      BY <1>1, <2>3, <3>1
    <3> QED BY <1>1, <3>1, <3>2, <3>3 DEF From
  <2> HIDE DEF s2, s
  <2>5. /\ s2 \in Seq(Char) /\ Len(s2) = hi - (lo + b)
        /\ \A x \in 0..(hi - (lo + b)) : \A y \in x..(hi - (lo + b)) :
              SubSeq(s2, x + 1, y) = SubSeq(l, ((lo + b) + x) + 1, (lo + b) + y)
    BY <2>4, Window
  <2> HIDE DEF m
  <2>6. PICK i \in DOMAIN Dict, k \in 0..Len(s2) :
            \E c \in Captures(Dict[i].text, From(s2, k)) :
                m = Match(Dict[i], SubSeq(s2, 1, k), TRUE, c)
    BY <2>2, <2>5, DictMatchFacts DEF s2
  <2>7. PICK c \in Captures(Dict[i].text, From(s2, k)) : m = Match(Dict[i], SubSeq(s2, 1, k), TRUE, c)
    BY <2>6
  <2> DEFINE a == lo + b + k
  <2>8. a \in lo..hi /\ k \in 0..(hi - (lo + b)) /\ b \in Nat /\ lo \in Nat /\ hi \in Nat /\ k \in Nat
    BY <2>3, <2>5, <1>0
  <2>9. From(s2, k) = SubSeq(l, a + 1, hi)
    <3>1. /\ hi - (lo + b) \in k..(hi - (lo + b)) /\ (lo + b) + (hi - (lo + b)) = hi
          /\ (lo + b) + k = a
      BY <2>8
    <3>2. SubSeq(s2, k + 1, hi - (lo + b)) = SubSeq(l, ((lo + b) + k) + 1, (lo + b) + (hi - (lo + b)))
      BY <2>5, <2>8, <3>1
    <3> HIDE DEF a
    <3> QED BY <2>5, <3>1, <3>2 DEF From
  <2>10. blanks \o SubSeq(s2, 1, k) = SubSeq(l, lo + 1, a)
    <3>1. blanks = SubSeq(l, lo + 1, lo + b)
      <4>1. 0 \in 0..(hi - lo) /\ b \in 0..(hi - lo) /\ 0 + 1 = 1 /\ (lo + 0) + 1 = lo + 1
        BY <2>3, <2>8, <1>0
      <4>2. SubSeq(s, 0 + 1, b) = SubSeq(l, (lo + 0) + 1, lo + b)
        BY <1>1, <4>1
      <4> QED BY <1>2, <4>1, <4>2
    <3>2. SubSeq(s2, 1, k) = SubSeq(l, (lo + b) + 1, a)
      <4>1. 0 \in 0..(hi - (lo + b)) /\ k \in 0..(hi - (lo + b)) /\ 0 + 1 = 1
            /\ ((lo + b) + 0) + 1 = (lo + b) + 1 /\ (lo + b) + k = a
        BY <2>8
      <4>2. SubSeq(s2, 0 + 1, k) = SubSeq(l, ((lo + b) + 0) + 1, (lo + b) + k)
        BY <2>5, <4>1
      <4> HIDE DEF a
      <4> QED BY <4>1, <4>2
    <3>3. lo + b \in lo..Len(l) /\ a \in (lo + b)..Len(l)
      BY <2>8, <2>4
    <3> HIDE DEF a, blanks
    <3> QED BY <1>0, <3>1, <3>2, <3>3, Glue
  <2>11. Dict[i].text \in Text /\ TemplateID(Dict[i]) \in IDsOf(TRUE)
    BY TextsAreText, TextsHaveIDs
  <2> HIDE DEF a, blanks
  <2>12. \E at : Stands(Node(m, blanks, [j \in DOMAIN m.params |-> Param[d-1][m.params[j]]]),
                        l, lo, hi, at, d - 1)
    BY <2>7, <2>8, <2>9, <2>10, <2>11, MatchStands
  <2>13. p = Node(m, blanks, [j \in DOMAIN m.params |-> Param[d-1][m.params[j]]])
    <3> HIDE DEF found
    <3> QED BY <1>3, <1>4, Zenon
  <2>14. d > 0
    BY <2>1
  <2> HIDE DEF found
  <2> QED BY <2>12, <2>13, <2>14
<1>5. CASE found = {}
  BY <1>3, <1>5
<1> QED BY <1>4, <1>5

LEMMA RootStands ==
  ASSUME NEW l \in Seq(Char), NEW n \in Resolve(l)
  PROVE  \E at : Stands(n, l, 0, Len(l), at, MaxCascadeDepth)
<1> DEFINE found == IF LineMatch(l) # {} THEN LineMatch(l) ELSE DictMatch(l)
           M == MaxCascadeDepth
<1>0. Len(l) \in Nat /\ 0 \in 0..Len(l) /\ Len(l) \in 0..Len(l) /\ SubSeq(l, 0 + 1, Len(l)) = l
  <2>1. 0 + 1 = 1 /\ SubSeq(l, 1, Len(l)) = l
    BY SubSeqFull
  <2> QED BY <2>1
<1>1. PICK m \in found : n = Node(m, <<>>, [i \in DOMAIN m.params |-> Param[M][m.params[i]]])
  BY DEF Resolve
<1> HIDE DEF M
<1>2. CASE m \in LineMatch(l)
  <2>1. PICK i \in DOMAIN Primary : \E c \in Captures(Primary[i].text, l) :
             m = Match(Primary[i], <<>>, FALSE, c)
    BY <1>2, LineMatchFacts
  <2>2. PICK c \in Captures(Primary[i].text, l) : m = Match(Primary[i], <<>>, FALSE, c)
    BY <2>1
  <2>3. <<>> \o <<>> = SubSeq(l, 0 + 1, 0)
    <3>1. SubSeq(l, 0 + 1, 0) = <<>>
      BY SubSeqEmpty
    <3> QED BY <3>1
  <2>4. Primary[i].text \in Text /\ TemplateID(Primary[i]) \in IDsOf(FALSE)
    BY TextsAreText, TextsHaveIDs
  <2>5. c \in Captures(Primary[i].text, SubSeq(l, 0 + 1, Len(l)))
    BY <1>0, <2>2
  <2>6. \E at : Stands(Node(m, <<>>, [j \in DOMAIN m.params |-> Param[M][m.params[j]]]),
                        l, 0, Len(l), at, M)
    BY <1>0, <2>2, <2>3, <2>4, <2>5, MatchStands
  <2> QED BY <1>1, <2>6 DEF M
<1>3. CASE m \in DictMatch(l)
  <2>1. PICK i \in DOMAIN Dict, k \in 0..Len(l) :
            \E c \in Captures(Dict[i].text, From(l, k)) :
                m = Match(Dict[i], SubSeq(l, 1, k), TRUE, c)
    BY <1>3, DictMatchFacts
  <2>2. PICK c \in Captures(Dict[i].text, From(l, k)) : m = Match(Dict[i], SubSeq(l, 1, k), TRUE, c)
    BY <2>1
  <2>3. <<>> \o SubSeq(l, 1, k) = SubSeq(l, 0 + 1, k)
    <3>1. 0 + 1 = 1 /\ SubSeq(l, 0 + 1, k) \in Seq(Char)
      BY <1>0, Window
    <3> QED BY <3>1, ConcatEmptySeq
  <2>4. Dict[i].text \in Text /\ TemplateID(Dict[i]) \in IDsOf(TRUE)
    BY TextsAreText, TextsHaveIDs
  <2>5. c \in Captures(Dict[i].text, SubSeq(l, k + 1, Len(l)))
    BY <2>2 DEF From
  <2>6. \E at : Stands(Node(m, <<>>, [j \in DOMAIN m.params |-> Param[M][m.params[j]]]),
                        l, 0, Len(l), at, M)
    BY <1>0, <2>2, <2>3, <2>4, <2>5, MatchStands
  <2> QED BY <1>1, <2>6 DEF M
<1> QED BY <1>1, <1>2, <1>3

LEMMA HoleUnique ==
  ASSUME NEW S, NEW text \in Seq(S), NEW i \in 1..Len(text), NEW j \in 1..Len(text),
         text[i] = Placeholder, text[j] = Placeholder, Slots(text, i) <= Slots(text, j)
  PROVE  i <= j
<1> SUFFICES ASSUME j < i PROVE FALSE
  OBVIOUS
<1>1. j \in 0..Len(text) /\ i - 1 \in j..Len(text) /\ i - 1 \in 0..Len(text) /\ i \in 0..Len(text)
  OBVIOUS
<1>2. Slots(text, j) <= Slots(text, i - 1)
  BY <1>1, SlotsMonotone
<1>3. Slots(text, i) = Slots(text, i - 1) + 1
  BY SlotsFacts
<1>4. Slots(text, j) \in Nat /\ Slots(text, i-1) \in Nat /\ Slots(text, i) \in Nat
  BY <1>1, SlotsFacts
<1> QED BY <1>2, <1>3, <1>4

LEMMA HoleAt ==
  ASSUME NEW S, NEW text \in Seq(S), NEW k \in 1..Slots(text, Len(text))
  PROVE  \E m \in 1..Len(text) : text[m] = Placeholder /\ Slots(text, m) = k
<1> DEFINE T == {m \in 0..Len(text) : k <= Slots(text, m)}
<1>1. /\ Slots(text, 0) = 0 /\ \A i \in 0..Len(text) : Slots(text, i) \in Nat
      /\ \A i \in 1..Len(text) :
            Slots(text, i) = Slots(text, i-1) + IF text[i] = Placeholder THEN 1 ELSE 0
  BY SlotsFacts
<1>2. Len(text) \in T /\ T \subseteq Nat
  BY <1>1
<1>3. PICK m \in T : \A y \in T : m <= y
  <2> HIDE DEF T
  <2> QED BY <1>2, LeastNat
<1>4. m \in 1..Len(text) /\ m - 1 \in 0..Len(text) /\ k <= Slots(text, m)
  BY <1>1, <1>3
<1>5. ~(k <= Slots(text, m - 1))
  <2>1. ~(m <= m - 1)
    BY <1>4
  <2> QED BY <1>3, <1>4, <2>1
<1>6. Slots(text, m - 1) \in Nat /\ Slots(text, m) \in Nat
  BY <1>1, <1>4
<1>7. Slots(text, m) = Slots(text, m-1) + IF text[m] = Placeholder THEN 1 ELSE 0
  BY <1>1, <1>4
<1> QED BY <1>4, <1>5, <1>6, <1>7

LEMMA HolesFacts ==
  ASSUME NEW S, NEW text \in Seq(S)
  PROVE  /\ Slots(text, Len(text)) \in Nat
         /\ Holes(text) \in Seq(1..Len(text))
         /\ Len(Holes(text)) = Slots(text, Len(text))
         /\ \A k \in 1..Len(Holes(text)) :
               LET m == Holes(text)[k] IN
               m \in 1..Len(text) /\ text[m] = Placeholder /\ Slots(text, m) = k
         /\ \A m \in 1..Len(text) : text[m] = Placeholder =>
               Slots(text, m) \in 1..Len(Holes(text)) /\ Holes(text)[Slots(text, m)] = m
<1> DEFINE K == Slots(text, Len(text))
           hole(k) == CHOOSE i \in DOMAIN text : text[i] = Placeholder /\ Slots(text, i) = k
<1>1. K \in Nat /\ DOMAIN text = 1..Len(text) /\ Len(text) \in Nat
  BY SlotsFacts
<1>2. \A k \in 1..K : /\ hole(k) \in 1..Len(text) /\ text[hole(k)] = Placeholder
                      /\ Slots(text, hole(k)) = k
  <2> TAKE k \in 1..K
  <2>1. \E m \in 1..Len(text) : text[m] = Placeholder /\ Slots(text, m) = k
    BY HoleAt
  <2> QED BY <2>1, <1>1
<1>3. Holes(text) = [k \in 1..K |-> hole(k)]
  BY DEF Holes
<1> HIDE DEF hole, K
<1>4. Holes(text) \in Seq(1..Len(text)) /\ Len(Holes(text)) = K
  BY <1>1, <1>2, <1>3
<1>5. \A k \in 1..K : Holes(text)[k] = hole(k)
  BY <1>3
<1>6. ASSUME NEW m \in 1..Len(text), text[m] = Placeholder
      PROVE  Slots(text, m) \in 1..K /\ Holes(text)[Slots(text, m)] = m
  <2>1. Slots(text, m) \in 1..K
    <3>1. m \in 0..Len(text) /\ m - 1 \in 0..Len(text) /\ Len(text) \in m..Len(text)
      BY <1>1
    <3>2. Slots(text, m) = Slots(text, m-1) + 1 /\ Slots(text, m-1) \in Nat
      BY <1>6, <3>1, SlotsFacts
    <3>3. Slots(text, m) <= K
      BY <3>1, SlotsMonotone DEF K
    <3> QED BY <3>2, <3>3, <1>1
  <2> DEFINE i == Holes(text)[Slots(text, m)]
  <2>2. i \in 1..Len(text) /\ text[i] = Placeholder /\ Slots(text, i) = Slots(text, m)
    BY <2>1, <1>2, <1>5
  <2>3. Slots(text, m) \in Nat
    BY <2>1, <1>1
  <2> HIDE DEF i
  <2>4. i <= m /\ m <= i
    BY <2>2, <2>3, <1>6, HoleUnique
  <2>5. i = m
    BY <2>2, <2>4
  <2> QED BY <2>1, <2>5 DEF i
<1> QED BY <1>1, <1>2, <1>4, <1>5, <1>6 DEF K

\* Where the i-th literal part begins and ends.
Opens(text, i) == IF i = 0 THEN 0 ELSE Holes(text)[i]
Shuts(text, i) == IF i = Len(Holes(text)) THEN Len(text) + 1 ELSE Holes(text)[i+1]

LEMMA PartFacts ==
  ASSUME NEW S, NEW text \in Seq(S), NEW i \in 0..Len(Holes(text))
  PROVE  /\ Part(text, i) = SubSeq(text, Opens(text, i) + 1, Shuts(text, i) - 1)
         /\ Opens(text, i) \in 0..Len(text)
         /\ Shuts(text, i) \in (Opens(text, i) + 1)..(Len(text) + 1)
         /\ \A m \in (Opens(text, i) + 1)..(Shuts(text, i) - 1) : text[m] # Placeholder
<1> DEFINE H == Holes(text)
           K == Len(H)
           L == Len(text)
           a == Opens(text, i)
           b == Shuts(text, i)
           cuts == <<0>> \o H \o <<L + 1>>
<1>1. /\ K \in Nat /\ L \in Nat /\ H \in Seq(1..L) /\ K = Slots(text, L)
      /\ \A k \in 1..K : H[k] \in 1..L /\ text[H[k]] = Placeholder /\ Slots(text, H[k]) = k
      /\ \A m \in 1..L : text[m] = Placeholder => Slots(text, m) \in 1..K /\ H[Slots(text, m)] = m
  BY HolesFacts
<1>2. cuts[i+1] = a /\ cuts[i+2] = b
  <2>1. H \in Seq(Int) /\ <<0>> \in Seq(Int) /\ <<L + 1>> \in Seq(Int)
        /\ Len(<<0>>) = 1 /\ Len(<<L + 1>>) = 1 /\ <<0>>[1] = 0 /\ <<L+1>>[1] = L + 1
    <3>1. \A k \in 1..K : H[k] \in Int
      BY <1>1
    <3>2. H \in Seq(Int)
      <4>1. 1..L \subseteq Int
        OBVIOUS
      <4> HIDE DEF H
      <4> QED BY <1>1, <4>1, SeqMonotonic
    <3> QED BY <1>1, <3>2
  <2> DEFINE h0 == <<0>> \o H
  <2> HIDE DEF H
  <2>2. /\ h0 \in Seq(Int) /\ Len(h0) = 1 + K
        /\ \A q \in 1..(1 + K) : h0[q] = IF q <= 1 THEN <<0>>[q] ELSE H[q - 1]
    BY <2>1, ConcatProperties
  <2> HIDE DEF h0
  <2>3. \A q \in 1..((1 + K) + 1) : cuts[q] = IF q <= 1 + K THEN h0[q] ELSE <<L+1>>[q - (1 + K)]
    <3>1. cuts = h0 \o <<L + 1>>
      BY DEF h0
    <3> QED BY <2>1, <2>2, <3>1, ConcatProperties
  <2> HIDE DEF cuts
  <2>4. i \in 0..K
    BY DEF H
  <2>5. cuts[i+1] = h0[i+1]
    <3>1. i + 1 \in 1..((1 + K) + 1) /\ i + 1 <= 1 + K
      BY <1>1, <2>4
    <3> QED BY <2>3, <3>1
  <2>6. h0[i+1] = IF i = 0 THEN 0 ELSE H[i]
    <3>1. i + 1 \in 1..(1 + K) /\ (i + 1) - 1 = i /\ (i + 1 <= 1 <=> i = 0)
      BY <1>1, <2>4
    <3>2. h0[i+1] = IF i + 1 <= 1 THEN <<0>>[i+1] ELSE H[(i+1) - 1]
      BY <2>2, <3>1
    <3>3. i = 0 => <<0>>[i+1] = 0
      OBVIOUS
    <3> QED BY <3>1, <3>2, <3>3
  <2>7. cuts[i+2] = IF i = K THEN L + 1 ELSE H[i+1]
    <3>1. CASE i = K
      <4>1. i + 2 \in 1..((1 + K) + 1) /\ ~(i + 2 <= 1 + K) /\ (i + 2) - (1 + K) = 1
        BY <1>1, <3>1
      <4>2. cuts[i+2] = <<L+1>>[(i + 2) - (1 + K)]
        BY <2>3, <4>1
      <4> QED BY <2>1, <3>1, <4>1, <4>2
    <3>2. CASE i # K
      <4>1. i + 2 \in 1..((1 + K) + 1) /\ i + 2 <= 1 + K /\ i + 2 \in 1..(1 + K)
            /\ ~(i + 2 <= 1) /\ (i + 2) - 1 = i + 1
        BY <1>1, <2>4, <3>2
      <4>2. cuts[i+2] = h0[i+2] /\ h0[i+2] = H[(i + 2) - 1]
        BY <2>2, <2>3, <4>1
      <4> QED BY <3>2, <4>1, <4>2
    <3> QED BY <3>1, <3>2
  <2> QED BY <2>5, <2>6, <2>7 DEF H, Opens, Shuts
<1>3. Part(text, i) = SubSeq(text, cuts[i+1] + 1, cuts[i+2] - 1)
  BY DEF Part
<1>4. a \in 0..L
  BY <1>1 DEF Opens
<1>5. ASSUME NEW k \in 1..K, k > i PROVE H[k] > a
  <2>1. CASE i = 0
    BY <2>1, <1>1 DEF Opens
  <2>2. CASE i # 0
    <3>1. i \in 1..K /\ a = H[i]
      BY <2>2 DEF Opens
    <3>2. H[i] <= H[k]
      <4>1. /\ H[i] \in 1..Len(text) /\ H[k] \in 1..Len(text)
            /\ text[H[i]] = Placeholder /\ text[H[k]] = Placeholder
            /\ Slots(text, H[i]) <= Slots(text, H[k])
        BY <3>1, <1>1, <1>5
      <4> HIDE DEF H
      <4> QED BY <4>1, HoleUnique
    <3>3. H[i] # H[k]
      BY <3>1, <1>1, <1>5
    <3> QED BY <3>1, <3>2, <3>3, <1>1
  <2> QED BY <2>1, <2>2
<1>6. b \in (a + 1)..(L + 1)
  <2>1. CASE i = K
    BY <2>1, <1>1, <1>4 DEF Shuts
  <2>2. CASE i # K
    <3>1. i + 1 \in 1..K /\ i + 1 > i /\ b = H[i+1]
      BY <2>2, <1>1 DEF Shuts
    <3>2. H[i+1] > a /\ H[i+1] \in 1..L
      BY <3>1, <1>1, <1>5
    <3> QED BY <3>1, <3>2, <1>4
  <2> QED BY <2>1, <2>2
<1>7. ASSUME NEW m \in (a+1)..(b-1), text[m] = Placeholder PROVE FALSE
  <2>1. m \in 1..L
    BY <1>4, <1>6
  <2> DEFINE k == Slots(text, m)
  <2>2. k \in 1..K /\ H[k] = m
    BY <1>1, <1>7, <2>1
  <2>3. CASE k <= i
    <3>1. i \in 1..K /\ i # 0 /\ a = H[i]
      BY <2>2, <2>3, <1>1 DEF Opens
    <3>2. m <= H[i]
      <4>1. /\ H[i] \in 1..Len(text) /\ text[H[i]] = Placeholder /\ Slots(text, m) <= Slots(text, H[i])
        BY <3>1, <2>3, <1>1
      <4> HIDE DEF H
      <4> QED BY <4>1, <2>1, <1>7, HoleUnique
    <3> QED BY <3>1, <3>2, <2>1, <1>4, <1>7
  <2>4. CASE k > i
    <3>1. i # K /\ i + 1 \in 1..K /\ b = H[i+1]
      BY <2>2, <2>4, <1>1 DEF Shuts
    <3>2. H[i+1] <= m
      <4>1. /\ H[i+1] \in 1..Len(text) /\ text[H[i+1]] = Placeholder
            /\ Slots(text, H[i+1]) <= Slots(text, m)
        BY <3>1, <2>2, <2>4, <1>1
      <4> HIDE DEF H
      <4> QED BY <4>1, <2>1, <1>7, HoleUnique
    <3> QED BY <3>1, <3>2, <2>1, <1>4, <1>6, <1>7
  <2> QED BY <2>2, <2>3, <2>4, <1>1
<1> QED BY <1>2, <1>3, <1>4, <1>6, <1>7

LEMMA PartAligned ==
  ASSUME NEW text \in Text, NEW l \in Seq(Char), NEW at \in [0..Len(text) -> 0..Len(l)],
         Spans(at, text, l, 0), NEW i \in 0..Len(Holes(text))
  PROVE  /\ Part(text, i) = SubSeq(l, at[Opens(text, i)] + 1, at[Shuts(text, i) - 1])
         /\ at[Opens(text, i)] <= at[Shuts(text, i) - 1]
<1> DEFINE L == Len(text)
           a == Opens(text, i)
           b == Shuts(text, i) - 1
<1>1. L \in Nat /\ text \in Seq(Char \cup {Placeholder}) /\ Len(l) \in Nat
  BY DEF Text
<1>2. /\ Part(text, i) = SubSeq(text, a + 1, b)
      /\ a \in 0..L /\ b \in a..L
      /\ \A m \in (a+1)..b : text[m] # Placeholder
  <2>1. /\ Part(text, i) = SubSeq(text, Opens(text, i) + 1, Shuts(text, i) - 1)
        /\ Opens(text, i) \in 0..Len(text)
        /\ Shuts(text, i) \in (Opens(text, i) + 1)..(Len(text) + 1)
        /\ \A m \in (Opens(text, i) + 1)..(Shuts(text, i) - 1) : text[m] # Placeholder
    BY <1>1, PartFacts
  <2>2. Shuts(text, i) - 1 \in Opens(text, i)..Len(text)
    BY <1>1, <2>1
  <2> QED BY <2>1, <2>2
<1> HIDE DEF a, b
<1>3. \A m \in (a+1)..b : /\ at[m] = at[m-1] + 1 /\ l[at[m]] = text[m]
  <2> TAKE m \in (a+1)..b
  <2>1. m \in (0+1)..L
    BY <1>1, <1>2
  <2> QED BY <1>2, <2>1 DEF Spans
<1> DEFINE U == {x \in 0..(b - a) : at[a + x] = at[a] + x}
<1>4. 0..(b - a) \subseteq U
  <2>1. 0 \in U
    <3>1. 0 \in 0..(b - a) /\ a + 0 = a /\ at[a] \in Nat
      BY <1>1, <1>2
    <3> QED BY <3>1
  <2>2. ASSUME NEW x \in 0..((b - a) - 1), x \in U PROVE x + 1 \in U
    <3>1. /\ a + (x + 1) \in (a+1)..b /\ (a + (x + 1)) - 1 = a + x /\ x + 1 \in 0..(b - a)
          /\ a \in 0..L
      BY <1>1, <1>2
    <3>2. at[a + (x + 1)] = at[a + x] + 1
      BY <1>3, <3>1
    <3>3. at[a + x] = at[a] + x /\ at[a] \in Nat
      BY <2>2, <3>1
    <3> QED BY <3>1, <3>2, <3>3
  <2>3. b - a \in Nat
    BY <1>1, <1>2
  <2> HIDE DEF U
  <2> QED BY <2>1, <2>2, <2>3, Upwards
<1>5. \A x \in 0..(b - a) : at[a + x] = at[a] + x
  BY <1>4
<1>6. at[a] \in 0..Len(l) /\ at[b] \in at[a]..Len(l) /\ at[b] - at[a] = b - a
  <2>1. b - a \in 0..(b - a) /\ a + (b - a) = b /\ a \in 0..L /\ b \in 0..L
    BY <1>1, <1>2
  <2>2. at[b] = at[a] + (b - a) /\ at[a] \in 0..Len(l) /\ at[b] \in 0..Len(l)
    BY <1>5, <2>1
  <2> QED BY <2>1, <2>2, <1>2
<1>7. /\ SubSeq(text, a + 1, b) \in Seq(Char \cup {Placeholder})
      /\ Len(SubSeq(text, a + 1, b)) = b - a
      /\ \A x \in 1..(b - a) : SubSeq(text, a + 1, b)[x] = text[a + x]
  <2>1. a \in 0..Len(text) /\ b \in a..Len(text)
    BY <1>2
  <2> QED BY <1>1, <2>1, Window
<1>8. /\ SubSeq(l, at[a] + 1, at[b]) \in Seq(Char)
      /\ Len(SubSeq(l, at[a] + 1, at[b])) = b - a
      /\ \A x \in 1..(b - a) : SubSeq(l, at[a] + 1, at[b])[x] = l[at[a] + x]
  <2> DEFINE p == at[a]
             q == at[b]
  <2>1. p \in 0..Len(l) /\ q \in p..Len(l) /\ q - p = b - a
    BY <1>6
  <2> HIDE DEF p, q
  <2>2. /\ SubSeq(l, p + 1, q) \in Seq(Char) /\ Len(SubSeq(l, p + 1, q)) = q - p
        /\ \A x \in 1..(q - p) : SubSeq(l, p + 1, q)[x] = l[p + x]
    BY <2>1, Window
  <2> QED BY <2>1, <2>2 DEF p, q
<1>9. ASSUME NEW x \in 1..(b - a)
      PROVE  SubSeq(text, a + 1, b)[x] = SubSeq(l, at[a] + 1, at[b])[x]
  <2>1. a + x \in (a+1)..b /\ x \in 0..(b - a)
    BY <1>1, <1>2
  <2>2. l[at[a + x]] = text[a + x] /\ at[a + x] = at[a] + x
    BY <1>3, <1>5, <2>1
  <2> QED BY <1>7, <1>8, <2>2
<1>10. SubSeq(text, a + 1, b) = SubSeq(l, at[a] + 1, at[b])
  <2> DEFINE u == SubSeq(text, a + 1, b)
             v == SubSeq(l, at[a] + 1, at[b])
             S == Char \cup {Placeholder}
  <2>1. u \in Seq(S) /\ v \in Seq(S)
    <3>1. v \in Seq(Char) /\ Char \subseteq S
      BY <1>8
    <3>2. v \in Seq(S)
      <4> HIDE DEF v, S
      <4> QED BY <3>1, SeqMonotonic
    <3> QED BY <1>7, <3>2
  <2>2. Len(u) = b - a /\ Len(v) = b - a /\ \A x \in 1..(b - a) : u[x] = v[x]
    BY <1>7, <1>8, <1>9
  <2> HIDE DEF u, v, S
  <2>3. u = v
    BY <2>1, <2>2, SeqEqual
  <2> QED BY <2>3 DEF u, v
<1>11. Part(text, i) = SubSeq(l, at[a] + 1, at[b])
  BY <1>2, <1>10, Zenon
<1>12. at[a] <= at[b]
  BY <1>6
<1> QED BY <1>11, <1>12 DEF a, b

-----------------------------------------------------------------------------
(* Trees, level by level. *)

NextLevel(S) == {p \in UNION {ToSet(n.params) : n \in S} : IsNode(p)}

AreLevels(lev, root) ==
    /\ lev[0] = {root}
    /\ \A d \in 1..MaxCascadeDepth : lev[d] = NextLevel(lev[d-1])
    /\ NodesIn(root) = UNION {lev[d] : d \in 0..MaxCascadeDepth}

LEMMA LevelsExist == ASSUME NEW root PROVE \E lev : AreLevels(lev, root)
<1> DEFINE N == MaxCascadeDepth
           row(d, x) == IF d = 0 THEN {root}
                        ELSE {p \in UNION {ToSet(n.params) : n \in x[d-1]} : IsNode(p)}
           Good(g, n) == g = [d \in 0..n |-> row(d, g)]
           S == {n \in 0..N : \E g : Good(g, n)}
<1>1. N \in Nat
  BY CascadeAssumption
<1>2. 0 \in S
  <2> DEFINE g == [i \in 0..0 |-> {root}]
  <2>1. \A d \in 0..0 : row(d, g) = {root}
    OBVIOUS
  <2>2. g = [d \in 0..0 |-> row(d, g)]
    <3> HIDE DEF row
    <3> QED BY <2>1
  <2>3. Good(g, 0)
    <3> HIDE DEF g, row
    <3> QED BY <2>2
  <2> HIDE DEF Good, g
  <2> QED BY <2>3, <1>1
<1>3. ASSUME NEW n \in 0..(N-1), n \in S PROVE n + 1 \in S
  <2>1. PICK f : Good(f, n)
    BY <1>3
  <2> DEFINE g == [i \in 0..(n+1) |-> IF i = n + 1 THEN row(n+1, f) ELSE f[i]]
  <2>2. n + 1 \in 0..(n+1) /\ n + 1 \in 0..N /\ n \in Nat /\ (n + 1) - 1 = n /\ n \in 0..n
    BY <1>1
  <2>3. g = [i \in 0..(n+1) |-> g[i]] /\ g[n+1] = row(n+1, f)
    BY <2>2
  <2>4. \A d \in 0..n : g[d] = f[d]
    BY <2>2
  <2>a. \A d \in 0..n : f[d] = row(d, f)
    BY <2>1
  <2> HIDE DEF g
  <2>5. ASSUME NEW d \in 0..(n+1) PROVE g[d] = row(d, g)
    <3>1. CASE d = n + 1
      <4>1. f[n] = g[n]
        BY <2>2, <2>4
      <4>2. row(n+1, f) = row(n+1, g)
        BY <4>1, <2>2
      <4> HIDE DEF row
      <4> QED BY <3>1, <4>2, <2>3
    <3>2. CASE d \in 0..n
      <4>1. g[d] = f[d] /\ f[d] = row(d, f)
        BY <3>2, <2>a, <2>4
      <4>2. d = 0 \/ (d - 1 \in 0..n)
        BY <3>2
      <4>3. d = 0 \/ f[d-1] = g[d-1]
        BY <4>2, <2>4
      <4>4. row(d, f) = row(d, g)
        BY <4>3
      <4> HIDE DEF row
      <4> QED BY <4>1, <4>4
    <3> QED BY <3>1, <3>2, <2>2
  <2>6. Good(g, n+1)
    <3> HIDE DEF row
    <3>1. [i \in 0..(n+1) |-> g[i]] = [i \in 0..(n+1) |-> row(i, g)]
      BY <2>5
    <3> QED BY <2>3, <3>1
  <2> HIDE DEF Good
  <2> QED BY <2>6, <2>2
<1>4. PICK g : Good(g, N)
  <2>1. 0..N \subseteq S
    <3> HIDE DEF S
    <3> QED BY <1>1, <1>2, <1>3, Upwards
  <2>2. N \in S
    <3> HIDE DEF S
    <3> QED BY <2>1, <1>1
  <2> HIDE DEF Good
  <2> QED BY <2>2
<1> DEFINE E(x) == [d \in 0..N |-> row(d, x)]
           lev == CHOOSE x : x = E(x)
<1>5. lev = E(lev)
  <2>1. g = E(g)
    BY <1>4
  <2> HIDE DEF E
  <2> QED BY <2>1
<1>6. NodesIn(root) = UNION {lev[d] : d \in 0..N}
  BY DEF NodesIn
<1> HIDE DEF lev
<1>7. \A d \in 0..N : lev[d] = row(d, lev)
  BY <1>5
<1>8. lev[0] = {root}
  <2>1. 0 \in 0..N
    BY <1>1
  <2>2. lev[0] = row(0, lev)
    <3> HIDE DEF row
    <3> QED BY <1>7, <2>1
  <2> QED BY <2>2
<1>9. \A d \in 1..N : lev[d] = NextLevel(lev[d-1])
  <2> TAKE d \in 1..N
  <2>1. d \in 0..N /\ d # 0
    BY <1>1
  <2> QED BY <1>7, <2>1 DEF NextLevel
<1> QED BY <1>6, <1>8, <1>9 DEF AreLevels

Levels(root) == CHOOSE lev : AreLevels(lev, root)

LEMMA LevelsFacts == ASSUME NEW root PROVE AreLevels(Levels(root), root)
BY LevelsExist DEF Levels

LEMMA KindOfLeaf == \A s : ~IsNode(Leaf(s)) /\ Leaf(s).value = s
BY DEF IsNode, Leaf

LEMMA ParamOf ==
  ASSUME NEW l \in Seq(Char), NEW lo \in 0..Len(l), NEW hi \in lo..Len(l), NEW at, NEW n,
         NEW e \in 0..MaxCascadeDepth, Stands(n, l, lo, hi, at, e),
         NEW m \in 1..Len(n.text), n.text[m] = Placeholder
  PROVE  /\ at[m-1] \in lo..hi /\ at[m] \in at[m-1]..hi
         /\ Slots(n.text, m) \in DOMAIN n.params
         /\ LET p == n.params[Slots(n.text, m)] IN
            \/ p = Leaf(SubSeq(l, at[m-1] + 1, at[m])) /\ p.value \in Seq(Char)
               /\ p.value = SubSeq(l, at[m-1] + 1, at[m]) /\ ~IsNode(p)
            \/ /\ e > 0 /\ IsNode(p)
               /\ \E bt : Stands(p, l, at[m-1], at[m], bt, e - 1)
<1> DEFINE p == n.params[Slots(n.text, m)]
<1>1. /\ n.text \in Text /\ at \in [0..Len(n.text) -> lo..hi] /\ Spans(at, n.text, l, 0)
      /\ DOMAIN n.params = 1..Slots(n.text, Len(n.text))
      /\ \A x \in 1..Len(n.text) : n.text[x] = Placeholder =>
            n.params[Slots(n.text, x)] = Param[e][SubSeq(l, at[x-1] + 1, at[x])]
  BY DEF Stands
<1>2. n.text \in Seq(Char \cup {Placeholder}) /\ Len(n.text) \in Nat
  BY <1>1 DEF Text
<1>3. at[m-1] \in lo..hi /\ at[m] \in at[m-1]..hi
  <2>1. m \in (0+1)..Len(n.text) /\ m \in 0..Len(n.text) /\ m - 1 \in 0..Len(n.text)
    BY <1>2
  <2>2. at[m-1] <= at[m]
    BY <1>1, <2>1 DEF Spans
  <2>3. at[m-1] \in lo..hi /\ at[m] \in lo..hi
    BY <1>1, <2>1
  <2> QED BY <2>2, <2>3
<1>4. Slots(n.text, m) \in DOMAIN n.params
  <2>1. \A x \in 1..Len(n.text) : n.text[x] = Placeholder =>
            Slots(n.text, x) \in 1..Len(Holes(n.text))
    BY <1>2, HolesFacts
  <2>2. Len(Holes(n.text)) = Slots(n.text, Len(n.text))
    BY <1>2, HolesFacts
  <2> QED BY <1>1, <2>1, <2>2
<1>5. p = Param[e][SubSeq(l, at[m-1] + 1, at[m])]
  BY <1>1
<1>6. at[m-1] \in 0..Len(l) /\ at[m] \in at[m-1]..Len(l)
  BY <1>3
<1>7. SubSeq(l, at[m-1] + 1, at[m]) \in Seq(Char)
  BY <1>6, Window
<1> HIDE DEF p
<1>8. \/ p = Leaf(SubSeq(l, at[m-1] + 1, at[m]))
      \/ e > 0 /\ \E bt : Stands(p, l, at[m-1], at[m], bt, e - 1)
  BY <1>5, <1>6, ParamStands
<1>9. CASE p = Leaf(SubSeq(l, at[m-1] + 1, at[m]))
  <2>1. p.value = SubSeq(l, at[m-1] + 1, at[m]) /\ ~IsNode(p)
    BY <1>9, KindOfLeaf
  <2> QED BY <1>3, <1>4, <1>7, <1>9, <2>1 DEF p
<1>10. CASE e > 0 /\ \E bt : Stands(p, l, at[m-1], at[m], bt, e - 1)
  <2>1. IsNode(p)
    BY <1>10 DEF Stands, IsNode
  <2> QED BY <1>3, <1>4, <1>10, <2>1 DEF p
<1> QED BY <1>8, <1>9, <1>10

LEMMA SlotOf ==
  ASSUME NEW l, NEW lo, NEW hi, NEW at, NEW n, NEW e, Stands(n, l, lo, hi, at, e),
         NEW k \in DOMAIN n.params
  PROVE  \E m \in 1..Len(n.text) : n.text[m] = Placeholder /\ Slots(n.text, m) = k
<1>1. n.text \in Seq(Char \cup {Placeholder}) /\ k \in 1..Slots(n.text, Len(n.text))
  BY DEF Stands, Text
<1> QED BY <1>1, HoleAt

LEMMA LevelStands ==
  ASSUME NEW l \in Seq(Char), NEW root \in Resolve(l), NEW d \in 0..MaxCascadeDepth,
         NEW n \in Levels(root)[d]
  PROVE  \E lo \in 0..Len(l) : \E hi \in lo..Len(l) :
            \E at : Stands(n, l, lo, hi, at, MaxCascadeDepth - d)
<1> DEFINE M == MaxCascadeDepth
           lev == Levels(root)
           Somewhere(x, c) == \E lo \in 0..Len(l) : \E hi \in lo..Len(l) :
                                 \E at : Stands(x, l, lo, hi, at, c)
           U == {c \in 0..M : \A x \in lev[c] : Somewhere(x, M - c)}
<1>1. M \in Nat
  BY CascadeAssumption
<1>2. lev[0] = {root} /\ \A c \in 1..M : lev[c] = NextLevel(lev[c-1])
  BY LevelsFacts DEF AreLevels
<1> HIDE DEF lev
<1>3. 0 \in U
  <2>1. \E at : Stands(root, l, 0, Len(l), at, M)
    BY RootStands
  <2>2. 0 \in 0..Len(l) /\ Len(l) \in 0..Len(l) /\ M - 0 = M /\ 0 \in 0..M
    BY <1>1
  <2>3. Somewhere(root, M - 0)
    BY <2>1, <2>2
  <2> HIDE DEF Somewhere
  <2> QED BY <1>2, <2>2, <2>3
<1>4. ASSUME NEW c \in 0..(M-1), c \in U PROVE c + 1 \in U
  <2> SUFFICES ASSUME NEW x \in lev[c+1] PROVE Somewhere(x, M - (c + 1))
    BY <1>1
  <2>1. c + 1 \in 1..M /\ (c + 1) - 1 = c /\ M - c \in 0..M /\ M - (c + 1) = (M - c) - 1
    BY <1>1
  <2>2. x \in NextLevel(lev[c])
    BY <1>2, <2>1
  <2>3. PICK y \in lev[c] : x \in ToSet(y.params) /\ IsNode(x)
    BY <2>2 DEF NextLevel
  <2>4. Somewhere(y, M - c)
    BY <1>4, <2>3
  <2>5. PICK lo \in 0..Len(l) : \E hi \in lo..Len(l) : \E at : Stands(y, l, lo, hi, at, M - c)
    BY <2>4
  <2>6. PICK hi \in lo..Len(l) : \E at : Stands(y, l, lo, hi, at, M - c)
    BY <2>5
  <2>7. PICK at : Stands(y, l, lo, hi, at, M - c)
    BY <2>6
  <2>8. PICK k \in DOMAIN y.params : x = y.params[k]
    BY <2>3 DEF ToSet
  <2>9. PICK m \in 1..Len(y.text) : y.text[m] = Placeholder /\ Slots(y.text, m) = k
    BY <2>7, SlotOf
  <2> HIDE DEF M
  <2>10. /\ at[m-1] \in lo..hi /\ at[m] \in at[m-1]..hi
         /\ \E bt : Stands(x, l, at[m-1], at[m], bt, (M - c) - 1)
    <3>1. M - c \in 0..MaxCascadeDepth
      BY <2>1 DEF M
    <3> DEFINE e == M - c
    <3> HIDE DEF e
    <3>2. Stands(y, l, lo, hi, at, e) /\ e \in 0..MaxCascadeDepth
      BY <3>1, <2>7 DEF e
    <3>3. /\ at[m-1] \in lo..hi /\ at[m] \in at[m-1]..hi
          /\ \E bt : Stands(x, l, at[m-1], at[m], bt, e - 1)
      BY <2>3, <2>8, <2>9, <3>2, ParamOf
    <3> QED BY <3>3 DEF e
  <2>11. at[m-1] \in 0..Len(l) /\ at[m] \in at[m-1]..Len(l)
    BY <2>10
  <2>12. \E bt : Stands(x, l, at[m-1], at[m], bt, M - (c + 1))
    BY <2>1, <2>10
  <2> QED BY <2>11, <2>12
<1>5. d \in U
  <2>1. 0..M \subseteq U
    <3> HIDE DEF U
    <3> QED BY <1>1, <1>3, <1>4, Upwards
  <2> HIDE DEF U
  <2> QED BY <2>1
<1> QED BY <1>5 DEF lev

-----------------------------------------------------------------------------
(* The nodes of a block, each at its level of some line's tree. *)

AtLevel(n, d) == \E l \in ToSet(lines) : \E root \in Resolve(l) : n \in Levels(root)[d]

BlockOK == lines \in Seq(Seq(Char)) /\ \A l \in ToSet(lines) : Resolved[l] = Resolve(l)

LEMMA BlockFacts == lines \in Blocks => BlockOK
<1> SUFFICES ASSUME lines \in Blocks PROVE BlockOK
  OBVIOUS
<1>1. lines \in Seq(Seq(Char))
  BY ColumnAssumption
<1>2. \A l \in ToSet(lines) : l \in UNION {ToSet(b) : b \in Blocks}
  OBVIOUS
<1> QED BY <1>1, <1>2 DEF BlockOK, Resolved

LEMMA LinesOfBlock == BlockOK => \A l \in ToSet(lines) : l \in Seq(Char)
BY DEF BlockOK, ToSet

LEMMA RootAtLevel ==
  ASSUME BlockOK, NEW l \in ToSet(lines), NEW n \in Resolved[l]
  PROVE  AtLevel(n, 0) /\ n \in Resolve(l)
<1>1. n \in Resolve(l)
  BY DEF BlockOK
<1>2. n \in Levels(n)[0]
  BY LevelsFacts DEF AreLevels
<1> QED BY <1>1, <1>2 DEF AtLevel

LEMMA LevelPlaced ==
  ASSUME BlockOK, NEW d \in 0..MaxCascadeDepth, NEW n, AtLevel(n, d)
  PROVE  \E l \in ToSet(lines) : \E lo \in 0..Len(l) : \E hi \in lo..Len(l) :
            \E at : Stands(n, l, lo, hi, at, MaxCascadeDepth - d)
<1>1. PICK l \in ToSet(lines) : \E root \in Resolve(l) : n \in Levels(root)[d]
  BY DEF AtLevel
<1>2. PICK root \in Resolve(l) : n \in Levels(root)[d]
  BY <1>1
<1>3. l \in Seq(Char)
  BY LinesOfBlock
<1> QED BY <1>2, <1>3, LevelStands

LEMMA ChildAtLevel ==
  ASSUME BlockOK, NEW d \in 0..MaxCascadeDepth, NEW n, AtLevel(n, d),
         NEW k \in DOMAIN n.params, IsNode(n.params[k])
  PROVE  d + 1 \in 0..MaxCascadeDepth /\ AtLevel(n.params[k], d + 1)
<1> DEFINE e == MaxCascadeDepth - d
<1>0. e \in 0..MaxCascadeDepth
  BY CascadeAssumption
<1>1. PICK l \in ToSet(lines) : \E lo \in 0..Len(l) : \E hi \in lo..Len(l) :
            \E at : Stands(n, l, lo, hi, at, e)
  BY LevelPlaced
<1>2. PICK lo \in 0..Len(l) : \E hi \in lo..Len(l) : \E at : Stands(n, l, lo, hi, at, e)
  BY <1>1
<1>3. PICK hi \in lo..Len(l) : \E at : Stands(n, l, lo, hi, at, e)
  BY <1>2
<1>4. PICK at : Stands(n, l, lo, hi, at, e)
  BY <1>3
<1>5. PICK m \in 1..Len(n.text) : n.text[m] = Placeholder /\ Slots(n.text, m) = k
  BY <1>4, SlotOf
<1> HIDE DEF e
<1>6. e > 0
  <2>1. l \in Seq(Char)
    BY LinesOfBlock
  <2> QED BY <1>0, <1>4, <1>5, <2>1, ParamOf
<1>7. d + 1 \in 1..MaxCascadeDepth /\ (d + 1) - 1 = d
  BY <1>0, <1>6, CascadeAssumption DEF e
<1>8. PICK h \in ToSet(lines) : \E root \in Resolve(h) : n \in Levels(root)[d]
  BY DEF AtLevel
<1>9. PICK root \in Resolve(h) : n \in Levels(root)[d]
  BY <1>8
<1>10. Levels(root)[d + 1] = NextLevel(Levels(root)[d])
  BY <1>7, LevelsFacts DEF AreLevels
<1>11. n.params[k] \in ToSet(n.params)
  BY DEF ToSet
<1>12. n.params[k] \in NextLevel(Levels(root)[d])
  BY <1>9, <1>11 DEF NextLevel
<1> QED BY <1>7, <1>10, <1>12 DEF AtLevel

LEMMA NodesAreAtLevels ==
  ASSUME BlockOK, NEW n
  PROVE  n \in BlockNodes <=> \E d \in 0..MaxCascadeDepth : AtLevel(n, d)
<1>1. n \in BlockNodes <=> \E l \in ToSet(lines) : \E root \in Resolve(l) : n \in NodesIn(root)
  BY DEF BlockNodes, BlockOK
<1>2. \A root : n \in NodesIn(root) <=> \E d \in 0..MaxCascadeDepth : n \in Levels(root)[d]
  BY LevelsFacts DEF AreLevels
<1> QED BY <1>1, <1>2 DEF AtLevel

StandsIn(n, l, lo, hi, at, e) ==
    /\ l \in ToSet(lines) /\ l \in Seq(Char) /\ lo \in 0..Len(l) /\ hi \in lo..Len(l)
    /\ e \in 0..MaxCascadeDepth /\ Stands(n, l, lo, hi, at, e)

LEMMA NodeStands ==
  ASSUME BlockOK, NEW n \in BlockNodes
  PROVE  \E l, lo, hi, at, e : StandsIn(n, l, lo, hi, at, e)
<1>1. PICK d \in 0..MaxCascadeDepth : AtLevel(n, d)
  BY NodesAreAtLevels
<1>2. MaxCascadeDepth - d \in 0..MaxCascadeDepth
  BY CascadeAssumption
<1>3. PICK l \in ToSet(lines) : \E lo \in 0..Len(l) : \E hi \in lo..Len(l) :
            \E at : Stands(n, l, lo, hi, at, MaxCascadeDepth - d)
  BY <1>1, LevelPlaced
<1> QED BY <1>2, <1>3, LinesOfBlock DEF StandsIn

\* What every node of the block is, wherever it stands.
LEMMA NodeFacts ==
  ASSUME BlockOK, NEW n \in BlockNodes
  PROVE  /\ n.text \in Text /\ n.id[2] = n.text /\ IsNode(n)
         /\ n.prefix \in Seq(Char) /\ n.suffix \in BOOLEAN /\ n.id \in IDsOf(n.suffix)
         /\ DOMAIN n.params = 1..Slots(n.text, Len(n.text))
         /\ \A k \in DOMAIN n.params : IsNode(n.params[k]) => n.params[k] \in BlockNodes
         /\ \A k \in DOMAIN n.params : ~IsNode(n.params[k]) => n.params[k].value \in Seq(Char)
<1>1. PICK d \in 0..MaxCascadeDepth : AtLevel(n, d)
  BY NodesAreAtLevels
<1>2. PICK l, lo, hi, at, e : StandsIn(n, l, lo, hi, at, e)
  BY NodeStands
<1>5. /\ Stands(n, l, lo, hi, at, e) /\ e \in 0..MaxCascadeDepth
      /\ l \in Seq(Char) /\ lo \in 0..Len(l) /\ hi \in lo..Len(l)
  BY <1>2 DEF StandsIn
<1>7. n.text \in Text /\ n.id[2] = n.text /\ IsNode(n) /\ n.suffix \in BOOLEAN
      /\ n.id \in IDsOf(n.suffix) /\ DOMAIN n.params = 1..Slots(n.text, Len(n.text))
      /\ n.prefix = SubSeq(l, lo + 1, at[0]) /\ at \in [0..Len(n.text) -> lo..hi]
  BY <1>5 DEF Stands, IsNode
<1>8. n.prefix \in Seq(Char)
  <2>1. 0 \in 0..Len(n.text)
    BY <1>7 DEF Text
  <2>2. at[0] \in lo..Len(l)
    BY <1>5, <1>7, <2>1
  <2> QED BY <1>5, <1>7, <2>2, Window
<1>9. ASSUME NEW k \in DOMAIN n.params
      PROVE  /\ IsNode(n.params[k]) => n.params[k] \in BlockNodes
             /\ ~IsNode(n.params[k]) => n.params[k].value \in Seq(Char)
  <2>1. PICK m \in 1..Len(n.text) : n.text[m] = Placeholder /\ Slots(n.text, m) = k
    BY <1>5, SlotOf
  <2>2. ~IsNode(n.params[k]) => n.params[k].value \in Seq(Char)
    BY <1>5, <2>1, ParamOf
  <2>3. IsNode(n.params[k]) => n.params[k] \in BlockNodes
    BY <1>1, ChildAtLevel, NodesAreAtLevels
  <2> QED BY <2>2, <2>3
<1> QED BY <1>7, <1>8, <1>9

LEMMA FlattenUp ==
  ASSUME NEW A, NEW ss \in Seq(Seq(A))
  PROVE  \E F \in [0..Len(ss) -> Seq(A)] :
            /\ F[0] = <<>> /\ \A i \in 1..Len(ss) : F[i] = F[i-1] \o ss[i]
            /\ FlattenSeq(ss) = F[Len(ss)]
<1> DEFINE L == Len(ss)
           D == Seq(A)
           G == [p \in (1..L) \X D |-> p[2] \o ss[p[1]]]
<1>1. L \in Nat /\ <<>> \in D /\ \A i \in 1..L : ss[i] \in D
  OBVIOUS
<1>2. IsStep(G, 1..L, D)
  <2>1. \A p \in (1..L) \X D : p[2] \o ss[p[1]] \in D
    BY <1>1
  <2> QED BY <2>1 DEF IsStep
<1>3. PICK F : ClimbsBy(G, F, L, D, <<>>)
  <2> HIDE DEF G, D, L
  <2> QED BY <1>1, <1>2, RecursionUp
<1>4. F \in [0..L -> D] /\ F[0] = <<>> /\ \A i \in 1..L : F[i] = F[i-1] \o ss[i]
  <2>1. F \in [0..L -> D] /\ F[0] = <<>> /\ \A i \in 1..L : F[i] = G[<<i, F[i-1]>>]
    BY <1>3 DEF ClimbsBy
  <2>2. ASSUME NEW i \in 1..L PROVE G[<<i, F[i-1]>>] = F[i-1] \o ss[i]
    <3>1. i - 1 \in 0..L
      BY <1>1
    <3>2. F[i-1] \in D
      BY <2>1, <3>1
    <3> HIDE DEF D
    <3> QED BY <3>2
  <2> HIDE DEF G, D
  <2> QED BY <2>1, <2>2
<1>5. CASE L = 0
  <2>1. ss = <<>> /\ F[L] = <<>>
    BY <1>4, <1>5
  <2>2. FlattenSeq(ss) = <<>>
    BY <1>5, <2>1 DEF FlattenSeq
  <2> QED BY <1>4, <2>1, <2>2
<1>6. CASE L # 0
  <2> DEFINE E(f) == [i \in 1..L |-> IF i = 1 THEN ss[i] ELSE f[i-1] \o ss[i]]
             flat == CHOOSE f : f = E(f)
             g == [i \in 1..L |-> F[i]]
  <2>1. \A i \in 1..L : g[i] = F[i] /\ F[i] = IF i = 1 THEN ss[i] ELSE F[i-1] \o ss[i]
    <3> SUFFICES ASSUME NEW i \in 1..L PROVE F[i] = IF i = 1 THEN ss[i] ELSE F[i-1] \o ss[i]
      OBVIOUS
    <3>1. i = 1 => F[i-1] \o ss[i] = ss[i]
      <4> SUFFICES ASSUME i = 1 PROVE F[i-1] \o ss[i] = ss[i]
        OBVIOUS
      <4>1. F[i-1] = <<>> /\ ss[i] \in D
        BY <1>1, <1>4
      <4> QED BY <4>1, ConcatEmptySeq
    <3> QED BY <1>4, <3>1
  <2>2. g = E(g)
    <3>1. \A i \in 1..L : i # 1 => g[i-1] = F[i-1]
      <4> SUFFICES ASSUME NEW i \in 1..L, i # 1 PROVE g[i-1] = F[i-1]
        OBVIOUS
      <4>1. i - 1 \in 1..L
        BY <1>1
      <4> QED BY <4>1
    <3>2. \A i \in 1..L : E(g)[i] = IF i = 1 THEN ss[i] ELSE g[i-1] \o ss[i]
      <4> HIDE DEF g
      <4> QED BY Zenon
    <3>3. E(g) = [i \in 1..L |-> E(g)[i]] /\ g = [i \in 1..L |-> g[i]]
      OBVIOUS
    <3> HIDE DEF E, g
    <3>4. \A i \in 1..L : E(g)[i] = g[i]
      <4> TAKE i \in 1..L
      <4>1. CASE i = 1
        BY <2>1, <3>2, <4>1
      <4>2. CASE i # 1
        <5>1. g[i-1] = F[i-1]
          BY <3>1, <4>2
        <5>2. E(g)[i] = g[i-1] \o ss[i]
          BY <3>2, <4>2, Zenon
        <5>3. g[i] = F[i-1] \o ss[i]
          BY <2>1, <4>2, Zenon
        <5> QED BY <5>1, <5>2, <5>3
      <4> QED BY <4>1, <4>2
    <3>5. [i \in 1..L |-> E(g)[i]] = [i \in 1..L |-> g[i]]
      BY <3>4
    <3> QED BY <3>3, <3>5
  <2>3. flat = E(flat)
    <3> HIDE DEF E, g
    <3> QED BY <2>2
  <2>4. FlattenSeq(ss) = flat[L]
    BY <1>6 DEF FlattenSeq
  <2>5. \A i \in 1..L : flat[i] = IF i = 1 THEN ss[i] ELSE flat[i-1] \o ss[i]
    <3>1. \A i \in 1..L : E(flat)[i] = IF i = 1 THEN ss[i] ELSE flat[i-1] \o ss[i]
      BY Zenon
    <3> HIDE DEF E, flat
    <3> QED BY <2>3, <3>1
  <2> HIDE DEF flat
  <2> DEFINE U == {x \in 0..(L-1) : flat[x + 1] = F[x + 1]}
  <2>6. 0 \in U
    <3>1. 1 \in 1..L /\ 0 + 1 = 1 /\ 0 \in 0..(L-1)
      BY <1>1, <1>6
    <3>2. flat[1] = ss[1]
      BY <2>5, <3>1
    <3>3. F[1] = ss[1]
      BY <2>1, <3>1
    <3> QED BY <3>1, <3>2, <3>3
  <2>7. ASSUME NEW x \in 0..((L-1)-1), x \in U PROVE x + 1 \in U
    <3>1. (x + 1) + 1 \in 1..L /\ (x + 1) + 1 # 1 /\ ((x + 1) + 1) - 1 = x + 1 /\ x + 1 \in 0..(L-1)
      BY <1>1
    <3>2. flat[(x+1)+1] = flat[x+1] \o ss[(x+1)+1]
      BY <2>5, <3>1
    <3>3. F[(x+1)+1] = F[x+1] \o ss[(x+1)+1]
      BY <2>1, <3>1
    <3> QED BY <2>7, <3>1, <3>2, <3>3
  <2>8. L - 1 \in Nat /\ L - 1 \in 0..(L-1) /\ (L - 1) + 1 = L
    BY <1>1, <1>6
  <2>9. L - 1 \in U
    <3>1. 0..(L-1) \subseteq U
      <4> HIDE DEF U
      <4> QED BY <2>6, <2>7, <2>8, Upwards
    <3> QED BY <2>8, <3>1
  <2>10. flat[L] = F[L]
    BY <2>8, <2>9
  <2> QED BY <1>4, <2>4, <2>10
<1> QED BY <1>5, <1>6

-----------------------------------------------------------------------------
(* Slots of a concatenation. *)

LEMMA SlotsConcat ==
  ASSUME NEW S, NEW u \in Seq(S), NEW w \in Seq(S)
  PROVE  /\ \A x \in 0..Len(u) : Slots(u \o w, x) = Slots(u, x)
         /\ \A x \in 0..Len(w) : Slots(u \o w, Len(u) + x) = Slots(u, Len(u)) + Slots(w, x)
<1> DEFINE v == u \o w
<1>1. /\ v \in Seq(S) /\ Len(v) = Len(u) + Len(w)
      /\ \A i \in 1..(Len(u) + Len(w)) : v[i] = IF i <= Len(u) THEN u[i] ELSE w[i - Len(u)]
  BY ConcatProperties
<1> HIDE DEF v
<1>2. Len(u) \in Nat /\ Len(w) \in Nat
  OBVIOUS
<1>u. /\ Slots(u, 0) = 0 /\ \A i \in 0..Len(u) : Slots(u, i) \in Nat
      /\ \A i \in 1..Len(u) : Slots(u, i) = Slots(u, i-1) + IF u[i] = Placeholder THEN 1 ELSE 0
  BY SlotsFacts
<1>w. /\ Slots(w, 0) = 0 /\ \A i \in 0..Len(w) : Slots(w, i) \in Nat
      /\ \A i \in 1..Len(w) : Slots(w, i) = Slots(w, i-1) + IF w[i] = Placeholder THEN 1 ELSE 0
  BY SlotsFacts
<1>v. /\ Slots(v, 0) = 0 /\ \A i \in 0..Len(v) : Slots(v, i) \in Nat
      /\ \A i \in 1..Len(v) : Slots(v, i) = Slots(v, i-1) + IF v[i] = Placeholder THEN 1 ELSE 0
  BY <1>1, SlotsFacts
<1>3. \A x \in 0..Len(u) : Slots(v, x) = Slots(u, x)
  <2> DEFINE U == {x \in 0..Len(u) : Slots(v, x) = Slots(u, x)}
  <2>1. 0 \in U
    BY <1>u, <1>v, <1>2
  <2>2. ASSUME NEW x \in 0..(Len(u) - 1), x \in U PROVE x + 1 \in U
    <3>1. x + 1 \in 1..Len(u) /\ x + 1 \in 1..Len(v) /\ (x + 1) - 1 = x /\ x + 1 \in 0..Len(u)
          /\ x + 1 \in 1..(Len(u) + Len(w)) /\ x + 1 <= Len(u)
      BY <1>1, <1>2
    <3>2. v[x+1] = u[x+1]
      BY <1>1, <3>1
    <3>3. Slots(v, x+1) = Slots(v, x) + IF v[x+1] = Placeholder THEN 1 ELSE 0
      BY <1>v, <3>1
    <3>4. Slots(u, x+1) = Slots(u, x) + IF u[x+1] = Placeholder THEN 1 ELSE 0
      BY <1>u, <3>1
    <3> QED BY <2>2, <3>1, <3>2, <3>3, <3>4
  <2>3. 0..Len(u) \subseteq U
    <3> HIDE DEF U
    <3> QED BY <1>2, <2>1, <2>2, Upwards
  <2> QED BY <2>3
<1>4. \A x \in 0..Len(w) : Slots(v, Len(u) + x) = Slots(u, Len(u)) + Slots(w, x)
  <2> DEFINE U == {x \in 0..Len(w) : Slots(v, Len(u) + x) = Slots(u, Len(u)) + Slots(w, x)}
  <2>1. 0 \in U
    <3>1. Len(u) + 0 = Len(u) /\ 0 \in 0..Len(w) /\ Len(u) \in 0..Len(u)
      BY <1>2
    <3>2. Slots(v, Len(u)) = Slots(u, Len(u)) /\ Slots(u, Len(u)) \in Nat
      BY <1>3, <1>u, <3>1
    <3> QED BY <1>w, <3>1, <3>2
  <2>2. ASSUME NEW x \in 0..(Len(w) - 1), x \in U PROVE x + 1 \in U
    <3>1. /\ x + 1 \in 1..Len(w) /\ Len(u) + (x + 1) \in 1..Len(v) /\ (x + 1) - 1 = x
          /\ x + 1 \in 0..Len(w) /\ x \in 0..Len(w)
          /\ Len(u) + (x + 1) \in 1..(Len(u) + Len(w)) /\ ~(Len(u) + (x + 1) <= Len(u))
          /\ (Len(u) + (x + 1)) - 1 = Len(u) + x /\ (Len(u) + (x + 1)) - Len(u) = x + 1
          /\ Len(u) \in 0..Len(u)
      BY <1>1, <1>2
    <3>2. v[Len(u) + (x+1)] = w[x+1]
      BY <1>1, <3>1
    <3>3. Slots(v, Len(u) + (x+1)) =
             Slots(v, Len(u) + x) + IF v[Len(u) + (x+1)] = Placeholder THEN 1 ELSE 0
      BY <1>v, <3>1
    <3>4. Slots(w, x+1) = Slots(w, x) + IF w[x+1] = Placeholder THEN 1 ELSE 0
      BY <1>w, <3>1
    <3>5. Slots(u, Len(u)) \in Nat /\ Slots(w, x) \in Nat
      BY <1>u, <1>w, <3>1
    <3>6. Slots(v, Len(u) + x) = Slots(u, Len(u)) + Slots(w, x)
      BY <2>2
    <3>7. Slots(v, Len(u) + (x+1)) = Slots(u, Len(u)) + Slots(w, x+1)
      BY <3>2, <3>3, <3>4, <3>5, <3>6
    <3> QED BY <3>1, <3>7
  <2>3. 0..Len(w) \subseteq U
    <3> HIDE DEF U
    <3> QED BY <1>2, <2>1, <2>2, Upwards
  <2> QED BY <2>3
<1> QED BY <1>3, <1>4 DEF v

-----------------------------------------------------------------------------
(* Slots of the specialised text. *)

LEMMA CompactFacts ==
  ASSUME NEW id
  PROVE  /\ CompactSlot(id, 0) = 0
         /\ \A i \in Nat : CompactSlot(id, i) \in Nat
         /\ \A i \in Nat \ {0} :
               CompactSlot(id, i) = CompactSlot(id, i-1) + IF IsFolded(id, i) THEN 0 ELSE 1
<1> DEFINE H(i) == {j \in 1..i : ~IsFolded(id, j)}
<1>1. \A i \in Nat : IsFiniteSet(H(i)) /\ Cardinality(H(i)) \in Nat
  <2> SUFFICES ASSUME NEW i \in Nat
               PROVE  IsFiniteSet(H(i)) /\ Cardinality(H(i)) \in Nat
    OBVIOUS
  <2>1. IsFiniteSet(1..i) /\ H(i) \subseteq 1..i
    BY FS_Interval
  <2> QED BY <2>1, FS_Subset, FS_CardinalityType
<1>2. H(0) = {}
  OBVIOUS
<1>3. ASSUME NEW i \in Nat \ {0}
      PROVE  Cardinality(H(i)) = Cardinality(H(i-1)) + IF IsFolded(id, i) THEN 0 ELSE 1
  <2>1. i - 1 \in Nat
    OBVIOUS
  <2>2. CASE ~IsFolded(id, i)
    <3>1. H(i) = H(i-1) \cup {i} /\ i \notin H(i-1)
      BY <2>2
    <3>2. Cardinality(H(i-1) \cup {i}) = Cardinality(H(i-1)) + 1
      BY <1>1, <2>1, <3>1, FS_AddElement
    <3> QED BY <2>2, <3>1, <3>2
  <2>3. CASE IsFolded(id, i)
    <3>1. H(i) = H(i-1)
      BY <2>3
    <3>2. Cardinality(H(i-1)) \in Nat
      BY <1>1, <2>1
    <3> HIDE DEF H
    <3> QED BY <2>3, <3>1, <3>2
  <2> QED BY <2>2, <2>3
<1>4. \A i : CompactSlot(id, i) = Cardinality(H(i))
  BY DEF CompactSlot
<1> HIDE DEF H
<1> QED BY <1>1, <1>2, <1>3, <1>4, FS_EmptySet

LEMMA CompactMonotone ==
  ASSUME NEW id, NEW i \in Nat, NEW j \in Nat, i <= j
  PROVE  CompactSlot(id, i) <= CompactSlot(id, j)
<1> DEFINE U == {m \in 0..(j - i) : CompactSlot(id, i) <= CompactSlot(id, i + m)}
<1>1. 0 \in U
  <2>1. CompactSlot(id, i) \in Nat /\ i + 0 = i /\ 0 \in 0..(j - i)
    BY CompactFacts
  <2>2. CompactSlot(id, i) <= CompactSlot(id, i + 0)
    BY <2>1
  <2> QED BY <2>1, <2>2
<1>2. ASSUME NEW m \in 0..(j - i - 1), m \in U PROVE m + 1 \in U
  <2>1. i + m + 1 \in Nat \ {0} /\ i + m \in Nat /\ (i + m + 1) - 1 = i + m /\ i + (m + 1) = i + m + 1
    OBVIOUS
  <2>2. CompactSlot(id, i + m + 1) = CompactSlot(id, i + m) + IF IsFolded(id, i + m + 1) THEN 0 ELSE 1
    BY <2>1, CompactFacts
  <2>3. CompactSlot(id, i + m) \in Nat /\ CompactSlot(id, i) \in Nat
        /\ CompactSlot(id, i) <= CompactSlot(id, i + m)
    BY <1>2, <2>1, CompactFacts
  <2>4. CompactSlot(id, i) <= CompactSlot(id, i + (m + 1))
    BY <2>1, <2>2, <2>3
  <2> QED BY <2>4
<1>3. 0..(j - i) \subseteq U
  <2>1. j - i \in Nat
    OBVIOUS
  <2> HIDE DEF U
  <2> QED BY <1>1, <1>2, <2>1, Upwards
<1>4. j - i \in 0..(j - i) /\ i + (j - i) = j
  OBVIOUS
<1> QED BY <1>3, <1>4

LEMMA CompactUnique ==
  ASSUME NEW id, NEW i \in Nat \ {0}, NEW j \in Nat \ {0}, ~IsFolded(id, i), ~IsFolded(id, j),
         CompactSlot(id, i) = CompactSlot(id, j)
  PROVE  i = j
<1>1. ASSUME NEW a \in Nat \ {0}, NEW b \in Nat \ {0}, ~IsFolded(id, b), a < b
      PROVE  CompactSlot(id, a) < CompactSlot(id, b)
  <2>1. b - 1 \in Nat /\ a <= b - 1
    BY <1>1
  <2>2. CompactSlot(id, a) <= CompactSlot(id, b - 1)
    BY <2>1, CompactMonotone
  <2>3. CompactSlot(id, b) = CompactSlot(id, b - 1) + 1
    BY <1>1, CompactFacts
  <2>4. CompactSlot(id, a) \in Nat /\ CompactSlot(id, b-1) \in Nat
    BY <2>1, CompactFacts
  <2> QED BY <2>2, <2>3, <2>4
<1>2. CompactSlot(id, i) \in Nat /\ CompactSlot(id, j) \in Nat
  BY CompactFacts
<1> QED BY <1>1, <1>2

IsMap(at, n, lo, hi) == at \in [0..n -> lo..hi]

LEMMA AlignAppend ==
  ASSUME NEW u \in Text, NEW w \in Text, NEW l, NEW lo, NEW hi,
         NEW bt, IsMap(bt, Len(u), lo, hi), NEW ct, IsMap(ct, Len(w), lo, hi),
         ct[0] = bt[Len(u)], Spans(bt, u, l, 0), Spans(ct, w, l, 0)
  PROVE  \E dt :
            /\ IsMap(dt, Len(u \o w), lo, hi)
            /\ \A x \in 0..Len(u) : dt[x] = bt[x]
            /\ \A x \in 0..Len(w) : dt[Len(u) + x] = ct[x]
            /\ Spans(dt, u \o w, l, 0)
<1> USE DEF IsMap
<1> DEFINE U == Len(u)
           W == Len(w)
           dt == [x \in 0..(U + W) |-> IF x <= U THEN bt[x] ELSE ct[x - U]]
           v == u \o w
<1>1. U \in Nat /\ W \in Nat
  BY DEF Text
<1>2. /\ v \in Text /\ Len(v) = U + W
      /\ \A x \in 1..(U + W) : v[x] = IF x <= U THEN u[x] ELSE w[x - U]
  <2>1. u \in Seq(Char \cup {Placeholder}) /\ w \in Seq(Char \cup {Placeholder})
    BY DEF Text
  <2> QED BY <2>1, ConcatProperties DEF Text
<1>3. dt \in [0..(U + W) -> lo..hi]
  <2>1. \A x \in 0..(U + W) : (x <= U => x \in 0..U) /\ (~(x <= U) => x - U \in 0..W)
    BY <1>1
  <2> QED BY <2>1
<1>4. \A x \in 0..U : dt[x] = bt[x]
  BY <1>1
<1>5. ASSUME NEW x \in 0..W PROVE dt[U + x] = ct[x]
  <2>1. U + x \in 0..(U + W) /\ (U + x) - U = x /\ (U + x <= U <=> x = 0)
    BY <1>1
  <2>2. dt[U + x] = IF U + x <= U THEN bt[U + x] ELSE ct[(U + x) - U]
    BY <2>1
  <2> HIDE DEF dt
  <2> QED BY <2>1, <2>2, <1>1
<1> HIDE DEF dt, v
<1>6. ASSUME NEW m \in (0+1)..Len(v)
      PROVE  /\ dt[m-1] <= dt[m]
             /\ v[m] # Placeholder => dt[m] = dt[m-1] + 1 /\ l[dt[m]] = v[m]
  <2>1. m \in 1..(U + W)
    BY <1>2
  <2>2. CASE m <= U
    <3>1. m \in (0+1)..U /\ m \in 0..U /\ m - 1 \in 0..U
      BY <1>1, <2>1, <2>2
    <3>2. dt[m] = bt[m] /\ dt[m-1] = bt[m-1] /\ v[m] = u[m]
      BY <1>2, <1>4, <2>1, <2>2, <3>1
    <3> QED BY <3>1, <3>2 DEF Spans
  <2>3. CASE ~(m <= U)
    <3> DEFINE y == m - U
    <3>1. y \in (0+1)..W /\ y \in 0..W /\ y - 1 \in 0..W /\ U + y = m /\ U + (y - 1) = m - 1
      BY <1>1, <2>1, <2>3
    <3>2. dt[m] = ct[y] /\ dt[m-1] = ct[y-1] /\ v[m] = w[y]
      <4> HIDE DEF y
      <4>1. dt[U + y] = ct[y] /\ dt[U + (y - 1)] = ct[y-1]
        BY <1>5, <3>1
      <4>2. v[m] = w[m - U]
        BY <1>2, <2>1, <2>3
      <4> QED BY <3>1, <4>1, <4>2 DEF y
    <3> HIDE DEF y
    <3> QED BY <3>1, <3>2 DEF Spans
  <2> QED BY <2>2, <2>3
<1>7. Spans(dt, v, l, 0)
  BY <1>6 DEF Spans
<1> QED BY <1>2, <1>3, <1>4, <1>5, <1>7 DEF v

\* What the first i symbols of a node's template become when its folded
\* slots are written out, standing where they stood.
SpecAligned(T, bt, n, at, l, lo, hi, i) ==
    /\ T \in Text /\ bt \in [0..Len(T) -> lo..hi]
    /\ bt[0] = at[0] /\ bt[Len(T)] = at[i]
    /\ Spans(bt, T, l, 0)
    /\ Slots(T, Len(T)) = CompactSlot(n.id, Slots(n.text, i))
    /\ \A M \in 1..Len(T) : T[M] = Placeholder =>
          \E m \in 1..i : /\ n.text[m] = Placeholder /\ ~IsFolded(n.id, Slots(n.text, m))
                          /\ CompactSlot(n.id, Slots(n.text, m)) = Slots(T, M)
                          /\ bt[M-1] = at[m-1] /\ bt[M] = at[m]

LEMMA SpecStep ==
  ASSUME NEW n, n.text \in Text, NEW l, NEW lo \in Int, NEW hi \in Int, NEW at,
         NEW i \in 1..Len(n.text),
         NEW F, NEW bt, SpecAligned(F, bt, n, at, l, lo, hi, i - 1),
         NEW w \in Text, NEW ct \in [0..Len(w) -> lo..hi],
         ct[0] = at[i-1], ct[Len(w)] = at[i], Spans(ct, w, l, 0),
         CompactSlot(n.id, Slots(n.text, i)) =
            CompactSlot(n.id, Slots(n.text, i-1)) + Slots(w, Len(w)),
         \A x \in 1..Len(w) : w[x] = Placeholder =>
            /\ n.text[i] = Placeholder /\ ~IsFolded(n.id, Slots(n.text, i))
            /\ Slots(w, x) = Slots(w, Len(w)) /\ ct[x-1] = at[i-1] /\ ct[x] = at[i]
  PROVE  \E dt : SpecAligned(F \o w, dt, n, at, l, lo, hi, i)
<1>1. /\ F \in Text /\ bt \in [0..Len(F) -> lo..hi]
      /\ bt[0] = at[0] /\ bt[Len(F)] = at[i-1]
      /\ Spans(bt, F, l, 0)
      /\ Slots(F, Len(F)) = CompactSlot(n.id, Slots(n.text, i-1))
      /\ \A M \in 1..Len(F) : F[M] = Placeholder =>
          \E m \in 1..(i-1) : /\ n.text[m] = Placeholder /\ ~IsFolded(n.id, Slots(n.text, m))
                          /\ CompactSlot(n.id, Slots(n.text, m)) = Slots(F, M)
                          /\ bt[M-1] = at[m-1] /\ bt[M] = at[m]
  BY DEF SpecAligned
<1> DEFINE v == F \o w
           U == Len(F)
           W == Len(w)
<1>2. PICK dt \in [0..Len(v) -> lo..hi] :
            /\ \A x \in 0..Len(F) : dt[x] = bt[x]
            /\ \A x \in 0..Len(w) : dt[Len(F) + x] = ct[x]
            /\ Spans(dt, v, l, 0)
  <2>1. ct[0] = bt[Len(F)]
    BY <1>1
  <2>2. /\ F \in Text /\ w \in Text /\ IsMap(bt, Len(F), lo, hi) /\ IsMap(ct, Len(w), lo, hi)
        /\ Spans(bt, F, l, 0) /\ Spans(ct, w, l, 0)
    BY <1>1 DEF IsMap
  <2>3. \E dt : /\ IsMap(dt, Len(v), lo, hi)
                /\ \A x \in 0..Len(F) : dt[x] = bt[x]
                /\ \A x \in 0..Len(w) : dt[Len(F) + x] = ct[x]
                /\ Spans(dt, v, l, 0)
    BY <2>1, <2>2, AlignAppend
  <2> QED BY <2>3 DEF IsMap
<1>t. F \in Seq(Char \cup {Placeholder}) /\ w \in Seq(Char \cup {Placeholder})
  BY <1>1 DEF Text
<1>3. /\ v \in Text /\ Len(v) = U + W /\ U \in Nat /\ W \in Nat
      /\ \A x \in 1..(U + W) : v[x] = IF x <= U THEN F[x] ELSE w[x - U]
  BY <1>t, ConcatProperties DEF Text
<1>4. /\ \A x \in 0..U : Slots(v, x) = Slots(F, x)
      /\ \A x \in 0..W : Slots(v, U + x) = Slots(F, U) + Slots(w, x)
  BY <1>t, SlotsConcat
<1> HIDE DEF v
<1>5. dt[0] = at[0] /\ dt[Len(v)] = at[i]
  <2>1. 0 \in 0..U /\ W \in 0..W
    BY <1>3
  <2> QED BY <1>1, <1>2, <1>3, <2>1
<1>6. Slots(v, Len(v)) = CompactSlot(n.id, Slots(n.text, i))
  <2>1. W \in 0..W
    BY <1>3
  <2>2. Slots(v, U + W) = Slots(F, U) + Slots(w, W)
    BY <1>4, <2>1
  <2> QED BY <1>1, <1>3, <2>2
<1>7. ASSUME NEW M \in 1..Len(v), v[M] = Placeholder
      PROVE  \E m \in 1..i : /\ n.text[m] = Placeholder /\ ~IsFolded(n.id, Slots(n.text, m))
                          /\ CompactSlot(n.id, Slots(n.text, m)) = Slots(v, M)
                          /\ dt[M-1] = at[m-1] /\ dt[M] = at[m]
  <2>1. M \in 1..(U + W)
    BY <1>3
  <2>2. CASE M <= U
    <3>1. M \in 1..U /\ M \in 0..U /\ M - 1 \in 0..U
      BY <1>3, <2>1, <2>2
    <3>2. F[M] = Placeholder /\ Slots(v, M) = Slots(F, M) /\ dt[M] = bt[M] /\ dt[M-1] = bt[M-1]
      BY <1>2, <1>3, <1>4, <1>7, <2>1, <2>2, <3>1
    <3>3. PICK m \in 1..(i-1) : /\ n.text[m] = Placeholder /\ ~IsFolded(n.id, Slots(n.text, m))
                          /\ CompactSlot(n.id, Slots(n.text, m)) = Slots(F, M)
                          /\ bt[M-1] = at[m-1] /\ bt[M] = at[m]
      BY <1>1, <3>1, <3>2
    <3>4. m \in 1..i
      OBVIOUS
    <3> QED BY <3>2, <3>3, <3>4
  <2>3. CASE ~(M <= U)
    <3> DEFINE x == M - U
    <3>1. x \in 1..W /\ x \in 0..W /\ x - 1 \in 0..W /\ U + x = M /\ U + (x - 1) = M - 1
      BY <1>3, <2>1, <2>3
    <3>2. w[x] = Placeholder
      BY <1>3, <1>7, <2>1, <2>3
    <3> HIDE DEF x
    <3>3. dt[M] = ct[x] /\ dt[M-1] = ct[x-1]
      <4>1. dt[U + x] = ct[x] /\ dt[U + (x - 1)] = ct[x-1]
        BY <1>2, <3>1
      <4> QED BY <3>1, <4>1
    <3>4. Slots(v, M) = Slots(F, U) + Slots(w, x)
      <4>1. Slots(v, U + x) = Slots(F, U) + Slots(w, x)
        BY <1>4, <3>1
      <4> QED BY <3>1, <4>1
    <3>5. /\ n.text[i] = Placeholder /\ ~IsFolded(n.id, Slots(n.text, i))
          /\ Slots(w, x) = Slots(w, Len(w)) /\ ct[x-1] = at[i-1] /\ ct[x] = at[i]
      BY <3>1, <3>2
    <3>6. CompactSlot(n.id, Slots(n.text, i)) = Slots(v, M)
      BY <1>1, <3>4, <3>5
    <3>7. i \in 1..i
      OBVIOUS
    <3> QED BY <3>3, <3>5, <3>6, <3>7
  <2> QED BY <2>2, <2>3
<1>8. SpecAligned(v, dt, n, at, l, lo, hi, i)
  BY <1>2, <1>3, <1>5, <1>6, <1>7 DEF SpecAligned
<1> QED BY <1>8 DEF v

-----------------------------------------------------------------------------
\* The slots of a node that fold are the leaves that hold the folded value.
FoldedRight(n) ==
    \A k \in DOMAIN n.params : IsFolded(n.id, k) =>
        ~IsNode(n.params[k]) /\ folded[<<n.id, k>>] = n.params[k].value

LEMMA SpecialisedStands ==
  ASSUME NEW l \in Seq(Char), NEW lo \in 0..Len(l), NEW hi \in lo..Len(l), NEW at, NEW n,
         NEW e \in 0..MaxCascadeDepth, Stands(n, l, lo, hi, at, e), FoldedRight(n)
  PROVE  \E bt : SpecAligned(Specialised(n), bt, n, at, l, lo, hi, Len(n.text))
<1> DEFINE A == Char \cup {Placeholder}
           L == Len(n.text)
           piece(i) == IF n.text[i] = Placeholder /\ IsFolded(n.id, Slots(n.text, i))
                       THEN folded[<<n.id, Slots(n.text, i)>>] ELSE <<n.text[i]>>
           ss == [i \in DOMAIN n.text |-> piece(i)]
<1>1. /\ n.text \in Text /\ at \in [0..L -> lo..hi] /\ Spans(at, n.text, l, 0)
  BY DEF Stands
<1>2. n.text \in Seq(A) /\ L \in Nat /\ DOMAIN n.text = 1..L
  BY <1>1 DEF Text
<1>3. \A i \in 0..L : Slots(n.text, i) \in Nat
  BY <1>2, SlotsFacts
<1>4. \A i \in 1..L : Slots(n.text, i) = Slots(n.text, i-1) + IF n.text[i] = Placeholder THEN 1 ELSE 0
  BY <1>2, SlotsFacts
<1>5. \A i \in 1..L : at[i-1] \in lo..hi /\ at[i] \in at[i-1]..hi
  <2> TAKE i \in 1..L
  <2>1. i \in (0+1)..L /\ i \in 0..L /\ i - 1 \in 0..L
    BY <1>2
  <2>2. at[i-1] <= at[i]
    BY <1>1, <2>1 DEF Spans
  <2>3. at[i-1] \in lo..hi /\ at[i] \in lo..hi
    BY <1>1, <2>1
  <2> QED BY <2>2, <2>3
\* Each piece by itself.
<1>6. ASSUME NEW i \in 1..L
      PROVE  /\ piece(i) \in Text
             /\ CompactSlot(n.id, Slots(n.text, i)) =
                   CompactSlot(n.id, Slots(n.text, i-1)) + Slots(piece(i), Len(piece(i)))
             /\ \E ct \in [0..Len(piece(i)) -> lo..hi] :
                   /\ ct[0] = at[i-1] /\ ct[Len(piece(i))] = at[i]
                   /\ Spans(ct, piece(i), l, 0)
                   /\ \A x \in 1..Len(piece(i)) : piece(i)[x] = Placeholder =>
                        /\ n.text[i] = Placeholder /\ ~IsFolded(n.id, Slots(n.text, i))
                        /\ Slots(piece(i), x) = Slots(piece(i), Len(piece(i)))
                        /\ ct[x-1] = at[i-1] /\ ct[x] = at[i]
  <2> DEFINE w == piece(i)
  <2>0. /\ at[i-1] \in lo..hi /\ at[i] \in at[i-1]..hi /\ i \in 0..L /\ i - 1 \in 0..L
        /\ i \in (0+1)..L
    BY <1>2, <1>5
  <2>1. CASE n.text[i] = Placeholder /\ IsFolded(n.id, Slots(n.text, i))
    <3>1. w = folded[<<n.id, Slots(n.text, i)>>]
      BY <2>1
    <3>2. /\ Slots(n.text, i) \in DOMAIN n.params
          /\ LET p == n.params[Slots(n.text, i)] IN
             ~IsNode(p) => p.value = SubSeq(l, at[i-1] + 1, at[i])
      <4>1. n.text[i] = Placeholder
        BY <2>1
      <4> QED BY <4>1, ParamOf
    <3>3. w = SubSeq(l, at[i-1] + 1, at[i])
      BY <2>1, <3>1, <3>2 DEF FoldedRight
    <3> HIDE DEF w
    <3>4. /\ w \in Seq(Char) /\ Len(w) = at[i] - at[i-1]
          /\ \A x \in 1..(at[i] - at[i-1]) : w[x] = l[at[i-1] + x]
      <4>1. PICK p : p = at[i-1]
        OBVIOUS
      <4>2. PICK q : q = at[i]
        OBVIOUS
      <4>3. p \in 0..Len(l) /\ q \in p..Len(l)
        BY <2>0, <4>1, <4>2
      <4>4. /\ SubSeq(l, p + 1, q) \in Seq(Char) /\ Len(SubSeq(l, p + 1, q)) = q - p
            /\ \A x \in 1..(q - p) : SubSeq(l, p + 1, q)[x] = l[p + x]
        BY <4>3, Window
      <4> QED BY <3>3, <4>1, <4>2, <4>4
    <3>5. w \in Text
      <4>1. Char \subseteq Char \cup {Placeholder}
        OBVIOUS
      <4> QED BY <3>4, <4>1, SeqMonotonic DEF Text
    <3>6. \A x \in 1..Len(w) : w[x] # Placeholder
      BY <3>4, CharAssumption
    <3>7. Slots(w, Len(w)) = 0
      <4>1. {j \in 1..Len(w) : w[j] = Placeholder} = {}
        BY <3>6
      <4> QED BY <4>1, FS_EmptySet DEF Slots
    <3>8. CompactSlot(n.id, Slots(n.text, i)) =
             CompactSlot(n.id, Slots(n.text, i-1)) + Slots(w, Len(w))
      <4>1. Slots(n.text, i) \in Nat \ {0} /\ Slots(n.text, i-1) \in Nat
            /\ Slots(n.text, i-1) = Slots(n.text, i) - 1
        BY <1>3, <1>4, <2>0, <2>1
      <4>2. CompactSlot(n.id, Slots(n.text, i)) = CompactSlot(n.id, Slots(n.text, i) - 1) + 0
        BY <2>1, <4>1, CompactFacts
      <4> QED BY <3>7, <4>1, <4>2
    <3> DEFINE ct == [x \in 0..Len(w) |-> at[i-1] + x]
    <3>9. ct \in [0..Len(w) -> lo..hi] /\ ct[0] = at[i-1] /\ ct[Len(w)] = at[i]
      <4>1. \A x \in 0..Len(w) : at[i-1] + x \in lo..hi
        BY <2>0, <3>4
      <4>2. 0 \in 0..Len(w) /\ Len(w) \in 0..Len(w) /\ at[i-1] + 0 = at[i-1]
            /\ at[i-1] + Len(w) = at[i]
        BY <2>0, <3>4
      <4>3. ct[0] = at[i-1] + 0 /\ ct[Len(w)] = at[i-1] + Len(w)
        BY <4>2
      <4>4. ct \in [0..Len(w) -> lo..hi]
        BY <4>1
      <4> HIDE DEF ct
      <4> QED BY <4>2, <4>3, <4>4
    <3>10. Spans(ct, w, l, 0)
      <4> SUFFICES ASSUME NEW m \in (0+1)..Len(w)
                   PROVE  ct[m-1] <= ct[m] /\ ct[m] = ct[m-1] + 1 /\ l[ct[m]] = w[m]
        BY DEF Spans
      <4>1. m \in 0..Len(w) /\ m - 1 \in 0..Len(w) /\ m \in 1..(at[i] - at[i-1]) /\ at[i-1] \in Nat
        BY <2>0, <3>4
      <4>2. ct[m] = at[i-1] + m /\ ct[m-1] = at[i-1] + (m - 1)
        BY <4>1
      <4>3. w[m] = l[at[i-1] + m]
        BY <3>4, <4>1
      <4> HIDE DEF ct
      <4> QED BY <4>1, <4>2, <4>3
    <3> HIDE DEF ct
    <3> QED BY <3>5, <3>6, <3>8, <3>9, <3>10 DEF w
  <2>2. CASE ~(n.text[i] = Placeholder /\ IsFolded(n.id, Slots(n.text, i)))
    <3> DEFINE c == n.text[i]
    <3>0. c \in A
      BY <1>2
    <3>1. w = <<c>>
      BY <2>2
    <3> HIDE DEF w, c
    <3>2. w \in Text /\ Len(w) = 1 /\ w[1] = c
      BY <3>0, <3>1 DEF Text
    <3>3. Slots(w, 0) = 0 /\ Slots(w, 1) = IF c = Placeholder THEN 1 ELSE 0
      <4>1. w \in Seq(A) /\ 1 \in 1..Len(w) /\ 1 - 1 = 0
        BY <3>2 DEF Text
      <4>2. Slots(w, 0) = 0 /\ Slots(w, 1) = Slots(w, 1 - 1) + IF w[1] = Placeholder THEN 1 ELSE 0
        BY <4>1, SlotsFacts
      <4> QED BY <3>2, <4>1, <4>2
    <3>4. CompactSlot(n.id, Slots(n.text, i)) =
             CompactSlot(n.id, Slots(n.text, i-1)) + Slots(w, Len(w))
      <4>1. Slots(n.text, i) \in Nat /\ Slots(n.text, i-1) \in Nat
            /\ Slots(n.text, i) = Slots(n.text, i-1) + IF c = Placeholder THEN 1 ELSE 0
        BY <1>3, <1>4, <2>0 DEF c
      <4>2. CompactSlot(n.id, Slots(n.text, i-1)) \in Nat
        BY <4>1, CompactFacts
      <4>3. CASE c = Placeholder
        <5>1. Slots(n.text, i) \in Nat \ {0} /\ Slots(n.text, i) - 1 = Slots(n.text, i-1)
          BY <4>1, <4>3
        <5>2. CompactSlot(n.id, Slots(n.text, i)) = CompactSlot(n.id, Slots(n.text, i) - 1) + 1
          BY <2>2, <4>3, <5>1, CompactFacts DEF c
        <5> QED BY <3>2, <3>3, <4>3, <5>1, <5>2
      <4>4. CASE c # Placeholder
        BY <3>2, <3>3, <4>1, <4>2, <4>4
      <4> QED BY <4>3, <4>4
    <3> DEFINE ct == [x \in 0..1 |-> IF x = 0 THEN at[i-1] ELSE at[i]]
    <3>5. ct \in [0..1 -> lo..hi] /\ ct[0] = at[i-1] /\ ct[1] = at[i]
      BY <2>0
    <3> HIDE DEF ct
    <3>6. Spans(ct, w, l, 0)
      <4> SUFFICES ASSUME NEW m \in (0+1)..Len(w)
                   PROVE  /\ ct[m-1] <= ct[m]
                          /\ w[m] # Placeholder => ct[m] = ct[m-1] + 1 /\ l[ct[m]] = w[m]
        BY DEF Spans
      <4>1. m = 1 /\ m - 1 = 0
        BY <3>2
      <4>2. at[i-1] <= at[i]
            /\ (c # Placeholder => at[i] = at[i-1] + 1 /\ l[at[i]] = c)
        BY <1>1, <2>0 DEF Spans, c
      <4> QED BY <3>2, <3>5, <4>1, <4>2
    <3>7. ASSUME NEW x \in 1..Len(w), w[x] = Placeholder
          PROVE  /\ n.text[i] = Placeholder /\ ~IsFolded(n.id, Slots(n.text, i))
                 /\ Slots(w, x) = Slots(w, Len(w))
                 /\ ct[x-1] = at[i-1] /\ ct[x] = at[i]
      <4>1. x = 1 /\ x - 1 = 0
        BY <3>2
      <4>2. c = Placeholder
        BY <3>2, <3>7, <4>1
      <4> QED BY <2>2, <3>2, <3>5, <4>1, <4>2 DEF c
    <3> QED BY <3>2, <3>4, <3>5, <3>6, <3>7 DEF w
  <2> QED BY <2>1, <2>2
<1> HIDE DEF piece
<1>7. ss \in Seq(Seq(A)) /\ Len(ss) = L /\ \A i \in 1..L : ss[i] = piece(i)
  <2>1. \A i \in 1..L : piece(i) \in Seq(A)
    BY <1>6 DEF Text
  <2> HIDE DEF A
  <2> QED BY <1>2, <2>1
<1>8. Specialised(n) = FlattenSeq(ss)
  BY DEF Specialised, piece
<1> HIDE DEF ss
<1>9. PICK F \in [0..L -> Seq(A)] :
            /\ F[0] = <<>> /\ \A i \in 1..L : F[i] = F[i-1] \o piece(i)
            /\ FlattenSeq(ss) = F[L]
  <2>1. PICK F \in [0..Len(ss) -> Seq(A)] :
            /\ F[0] = <<>> /\ \A i \in 1..Len(ss) : F[i] = F[i-1] \o ss[i]
            /\ FlattenSeq(ss) = F[Len(ss)]
    <3> HIDE DEF A
    <3> QED BY <1>7, FlattenUp
  <2> QED BY <1>7, <2>1
<1> DEFINE Q == {i \in 0..L : \E bt : SpecAligned(F[i], bt, n, at, l, lo, hi, i)}
<1>10. 0 \in Q
  <2> DEFINE bt == [x \in 0..0 |-> at[0]]
  <2>0. Len(<<>>) = 0 /\ <<>> \in Text
    BY DEF Text
  <2>1. bt \in [0..Len(<<>>) -> lo..hi] /\ bt[0] = at[0] /\ bt[Len(<<>>)] = at[0]
    <3>1. at[0] \in lo..hi
      BY <1>1, <1>2
    <3> QED BY <2>0, <3>1
  <2>2. Spans(bt, <<>>, l, 0)
    BY <2>0 DEF Spans
  <2>3. Slots(<<>>, Len(<<>>)) = 0 /\ Slots(n.text, 0) = 0
    <3>1. <<>> \in Seq(A)
      BY <2>0 DEF Text
    <3> QED BY <1>2, <2>0, <3>1, SlotsFacts
  <2>4. CompactSlot(n.id, 0) = 0
    BY CompactFacts
  <2> HIDE DEF bt
  <2>5. SpecAligned(<<>>, bt, n, at, l, lo, hi, 0)
    BY <2>0, <2>1, <2>2, <2>3, <2>4 DEF SpecAligned
  <2> QED BY <1>2, <1>9, <2>5
<1>11. ASSUME NEW i \in 0..(L-1), i \in Q PROVE i + 1 \in Q
  <2>1. i + 1 \in 1..L /\ (i + 1) - 1 = i /\ i + 1 \in 0..L
    BY <1>2
  <2>2. PICK bt : SpecAligned(F[i], bt, n, at, l, lo, hi, i)
    BY <1>11
  <2> DEFINE j == i + 1
             w == piece(j)
  <2>3. /\ w \in Text
        /\ CompactSlot(n.id, Slots(n.text, j)) =
                   CompactSlot(n.id, Slots(n.text, j-1)) + Slots(w, Len(w))
        /\ \E ct \in [0..Len(w) -> lo..hi] :
                   /\ ct[0] = at[j-1] /\ ct[Len(w)] = at[j]
                   /\ Spans(ct, w, l, 0)
                   /\ \A x \in 1..Len(w) : w[x] = Placeholder =>
                        /\ n.text[j] = Placeholder /\ ~IsFolded(n.id, Slots(n.text, j))
                        /\ Slots(w, x) = Slots(w, Len(w))
                        /\ ct[x-1] = at[j-1] /\ ct[x] = at[j]
    BY <1>6, <2>1
  <2> HIDE DEF w, j
  <2>4. PICK ct \in [0..Len(w) -> lo..hi] :
                   /\ ct[0] = at[j-1] /\ ct[Len(w)] = at[j]
                   /\ Spans(ct, w, l, 0)
                   /\ \A x \in 1..Len(w) : w[x] = Placeholder =>
                        /\ n.text[j] = Placeholder /\ ~IsFolded(n.id, Slots(n.text, j))
                        /\ Slots(w, x) = Slots(w, Len(w))
                        /\ ct[x-1] = at[j-1] /\ ct[x] = at[j]
    BY <2>3
  <2>5. j \in 1..Len(n.text) /\ j - 1 = i /\ j \in 0..L
    BY <2>1 DEF j
  <2>6. SpecAligned(F[i], bt, n, at, l, lo, hi, j - 1)
    BY <2>2, <2>5
  <2>7. lo \in Int /\ hi \in Int
    OBVIOUS
  <2>8. \E dt : SpecAligned(F[i] \o w, dt, n, at, l, lo, hi, j)
    BY <1>1, <2>3, <2>4, <2>5, <2>6, <2>7, SpecStep
  <2>9. F[j] = F[i] \o w
    <3>1. F[j] = F[j-1] \o piece(j)
      BY <1>9, <2>5
    <3> QED BY <2>5, <3>1 DEF w
  <2> QED BY <2>5, <2>8, <2>9 DEF j
<1>12. L \in Q
  <2>1. 0..L \subseteq Q
    <3> HIDE DEF Q, L
    <3> QED BY <1>2, <1>10, <1>11, Upwards
  <2>2. L \in 0..L
    BY <1>2
  <2> HIDE DEF Q, L
  <2> QED BY <2>1, <2>2
<1> QED BY <1>8, <1>9, <1>12

\* A slot folds only if it is a leaf, and always the same, wherever its template is used.
LEMMA FoldIsRight ==
  ASSUME folded = Fold(Profile(lines)), NEW n \in BlockNodes
  PROVE  FoldedRight(n)
<1> SUFFICES ASSUME NEW k \in DOMAIN n.params, IsFolded(n.id, k)
             PROVE  ~IsNode(n.params[k]) /\ folded[<<n.id, k>>] = n.params[k].value
  BY DEF FoldedRight
<1> DEFINE P == Profile(lines)
           held(x) == {q[3] : q \in {r \in P : <<r[1], r[2]>> = x}}
           slots == {<<q[1], q[2]>> : q \in P}
           dom == {s \in slots : Folds(held(s))}
           q0 == <<n.id, k, n.params[k]>>
           x0 == <<n.id, k>>
<1>1. folded = [x \in dom |-> (CHOOSE p \in held(x) : TRUE).value]
  BY DEF Fold
<1>2. x0 \in dom
  BY <1>1 DEF IsFolded
<1>3. q0 \in P
  <2>1. n \in UNION {NodesIn(r) : r \in UNION {Resolved[l] : l \in ToSet(lines)}}
    BY DEF BlockNodes
  <2>2. q0 \in {<<n.id, i, n.params[i]>> : i \in DOMAIN n.params}
    OBVIOUS
  <2> HIDE DEF q0
  <2> QED BY <2>1, <2>2 DEF Profile
<1>4. n.params[k] \in held(x0)
  <2>1. q0[1] = n.id /\ q0[2] = k /\ q0[3] = n.params[k]
    OBVIOUS
  <2>2. q0 \in {r \in P : <<r[1], r[2]>> = x0}
    <3> HIDE DEF q0, P
    <3> QED BY <1>3, <2>1
  <2> HIDE DEF q0, P, x0
  <2> QED BY <2>1, <2>2
<1>5. Folds(held(x0))
  <2> HIDE DEF held, x0
  <2> QED BY <1>2
<1>6. PICK p \in held(x0) : held(x0) = {p} /\ ~IsNode(p)
  <2> HIDE DEF held, x0
  <2> QED BY <1>5 DEF Folds
<1>7. p = n.params[k] /\ (CHOOSE y \in held(x0) : TRUE) = p
  <2> HIDE DEF held, x0
  <2> QED BY <1>4, <1>6
<1>8. folded[x0] = (CHOOSE y \in held(x0) : TRUE).value
  <2> HIDE DEF held, x0, dom
  <2> QED BY <1>1, <1>2
<1> QED BY <1>6, <1>7, <1>8

-----------------------------------------------------------------------------
Rooted(n, l, lo, hi) ==
    n \in BlockNodes /\ \E d \in 0..MaxCascadeDepth : \E at : Stands(n, l, lo, hi, at, d)

\* A node of the block with its folded slots written out, standing in l
\* from lo to hi.
Placed(n, l, lo, hi, bt) ==
    LET T == Specialised(n) IN
    /\ n \in BlockNodes /\ T \in Text
    /\ bt \in [0..Len(T) -> lo..hi] /\ bt[Len(T)] = hi
    /\ Spans(bt, T, l, 0)
    /\ n.prefix = SubSeq(l, lo + 1, bt[0]) /\ (~n.suffix => bt[0] = lo)
    /\ Slots(T, Len(T)) = CompactSlot(n.id, Len(n.params))
    /\ \A M \in 1..Len(T) : T[M] = Placeholder =>
          /\ bt[M-1] \in 0..Len(l) /\ bt[M] \in bt[M-1]..Len(l)
          /\ \E k \in DOMAIN n.params :
              /\ ~IsFolded(n.id, k) /\ CompactSlot(n.id, k) = Slots(T, M)
              /\ ~IsNode(n.params[k]) => n.params[k].value = SubSeq(l, bt[M-1] + 1, bt[M])
              /\ IsNode(n.params[k]) => Rooted(n.params[k], l, bt[M-1], bt[M])

LEMMA ParamsLen ==
  ASSUME BlockOK, NEW n \in BlockNodes
  PROVE  /\ Len(n.params) = Slots(n.text, Len(n.text)) /\ Len(n.params) \in Nat
         /\ DOMAIN n.params = 1..Len(n.params)
<1>1. DOMAIN n.params = 1..Slots(n.text, Len(n.text)) /\ n.text \in Seq(Char \cup {Placeholder})
  BY NodeFacts DEF Text
<1>2. Slots(n.text, Len(n.text)) \in Nat
  BY <1>1, SlotsFacts
<1>3. Len(n.params) = Slots(n.text, Len(n.text))
  BY <1>1, <1>2
<1> QED BY <1>1, <1>2, <1>3

LEMMA RootedPlaced ==
  ASSUME BlockOK, NEW l \in Seq(Char), NEW lo \in 0..Len(l), NEW hi \in lo..Len(l), NEW n,
         Rooted(n, l, lo, hi), FoldedRight(n)
  PROVE  \E bt : Placed(n, l, lo, hi, bt)
<1>1. PICK d \in 0..MaxCascadeDepth : \E at : Stands(n, l, lo, hi, at, d)
  BY DEF Rooted
<1>2. PICK at : Stands(n, l, lo, hi, at, d)
  BY <1>1
<1> DEFINE T == Specialised(n)
<1>3. PICK bt : SpecAligned(T, bt, n, at, l, lo, hi, Len(n.text))
  BY <1>2, SpecialisedStands
<1>4. n \in BlockNodes
  BY DEF Rooted
<1>5. /\ n.text \in Text /\ at[Len(n.text)] = hi /\ n.prefix = SubSeq(l, lo + 1, at[0])
      /\ (~n.suffix => at[0] = lo)
  BY <1>2 DEF Stands
<1>6. /\ T \in Text /\ bt \in [0..Len(T) -> lo..hi]
      /\ bt[0] = at[0] /\ bt[Len(T)] = hi /\ Spans(bt, T, l, 0)
      /\ Slots(T, Len(T)) = CompactSlot(n.id, Slots(n.text, Len(n.text)))
      /\ \A M \in 1..Len(T) : T[M] = Placeholder =>
          \E m \in 1..Len(n.text) : /\ n.text[m] = Placeholder /\ ~IsFolded(n.id, Slots(n.text, m))
                          /\ CompactSlot(n.id, Slots(n.text, m)) = Slots(T, M)
                          /\ bt[M-1] = at[m-1] /\ bt[M] = at[m]
  BY <1>3, <1>5 DEF SpecAligned
<1> HIDE DEF T
<1>7. ASSUME NEW M \in 1..Len(T), T[M] = Placeholder
      PROVE  /\ bt[M-1] \in 0..Len(l) /\ bt[M] \in bt[M-1]..Len(l)
             /\ \E k \in DOMAIN n.params :
              /\ ~IsFolded(n.id, k) /\ CompactSlot(n.id, k) = Slots(T, M)
              /\ ~IsNode(n.params[k]) => n.params[k].value = SubSeq(l, bt[M-1] + 1, bt[M])
              /\ IsNode(n.params[k]) => Rooted(n.params[k], l, bt[M-1], bt[M])
  <2>1. PICK m \in 1..Len(n.text) :
            /\ n.text[m] = Placeholder /\ ~IsFolded(n.id, Slots(n.text, m))
            /\ CompactSlot(n.id, Slots(n.text, m)) = Slots(T, M)
            /\ bt[M-1] = at[m-1] /\ bt[M] = at[m]
    BY <1>6, <1>7
  <2> DEFINE k == Slots(n.text, m)
             p == n.params[k]
  <2>2. /\ at[m-1] \in lo..hi /\ at[m] \in at[m-1]..hi
        /\ k \in DOMAIN n.params
        /\ \/ p.value = SubSeq(l, at[m-1] + 1, at[m]) /\ ~IsNode(p)
           \/ d > 0 /\ IsNode(p) /\ \E ct : Stands(p, l, at[m-1], at[m], ct, d - 1)
    BY <1>2, <2>1, ParamOf
  <2> HIDE DEF k
  <2>3. at[m-1] \in 0..Len(l) /\ at[m] \in at[m-1]..Len(l)
    BY <2>2
  <2>4. IsNode(p) => Rooted(p, l, at[m-1], at[m])
    <3> SUFFICES ASSUME IsNode(p) PROVE Rooted(p, l, at[m-1], at[m])
      OBVIOUS
    <3>1. p \in BlockNodes
      BY <1>4, <2>2, NodeFacts
    <3>2. d - 1 \in 0..MaxCascadeDepth /\ \E ct : Stands(p, l, at[m-1], at[m], ct, d - 1)
      BY <2>2, CascadeAssumption
    <3> QED BY <3>1, <3>2 DEF Rooted
  <2>5. ~IsNode(p) => p.value = SubSeq(l, at[m-1] + 1, at[m])
    BY <2>2
  <2> QED BY <2>1, <2>2, <2>3, <2>4, <2>5 DEF k
<1>8. Slots(T, Len(T)) = CompactSlot(n.id, Len(n.params))
  BY <1>4, <1>6, ParamsLen
<1>9. Placed(n, l, lo, hi, bt)
  BY <1>4, <1>5, <1>6, <1>7, <1>8 DEF Placed, T
<1> QED BY <1>9

LEMMA RootRooted ==
  ASSUME BlockOK, NEW l \in ToSet(lines), NEW n \in Resolved[l]
  PROVE  Rooted(n, l, 0, Len(l))
<1>1. AtLevel(n, 0) /\ n \in Resolve(l) /\ l \in Seq(Char)
  BY RootAtLevel, LinesOfBlock
<1>2. 0 \in 0..MaxCascadeDepth /\ MaxCascadeDepth \in 0..MaxCascadeDepth
  BY CascadeAssumption
<1>3. n \in BlockNodes
  BY <1>1, <1>2, NodesAreAtLevels
<1>4. \E at : Stands(n, l, 0, Len(l), at, MaxCascadeDepth)
  BY <1>1, RootStands
<1> QED BY <1>2, <1>3, <1>4 DEF Rooted

\* The text in the table has one placeholder per slot that has a stream.
LEMMA SpecialisedFacts ==
  ASSUME BlockOK, NEW n \in BlockNodes, FoldedRight(n)
  PROVE  /\ Specialised(n) \in Text
         /\ Len(Holes(Specialised(n))) = CompactSlot(n.id, Len(n.params))
         /\ Len(Holes(Specialised(n))) \in Nat
<1>1. PICK l, lo, hi, at, e : StandsIn(n, l, lo, hi, at, e)
  BY NodeStands
<1>5. Rooted(n, l, lo, hi)
  BY <1>1 DEF Rooted, StandsIn
<1>6. l \in Seq(Char) /\ lo \in 0..Len(l) /\ hi \in lo..Len(l)
  BY <1>1 DEF StandsIn
<1>7. PICK bt : Placed(n, l, lo, hi, bt)
  BY <1>5, <1>6, RootedPlaced
<1>8. /\ Specialised(n) \in Text
      /\ Slots(Specialised(n), Len(Specialised(n))) = CompactSlot(n.id, Len(n.params))
  BY <1>7 DEF Placed
<1>9. /\ Len(Holes(Specialised(n))) = Slots(Specialised(n), Len(Specialised(n)))
      /\ Slots(Specialised(n), Len(Specialised(n))) \in Nat
  BY <1>8, HolesFacts DEF Text
<1> QED BY <1>8, <1>9

RereadStep(done, c) ==
    LET n == Len(done)
    IN  IF c = Gt /\ n >= 2 /\ SubSeq(done, n - 1, n) = <<Lt, Star>>
        THEN Append(SubSeq(done, 1, n - 2), Placeholder)
        ELSE Append(done, c)

\* What Reread has gathered after each symbol.
Gathers(seen, text) ==
    /\ seen \in [0..Len(text) -> Text] /\ seen[0] = <<>>
    /\ \A i \in 1..Len(text) : seen[i] = RereadStep(seen[i-1], text[i])
    /\ Reread(text) = seen[Len(text)]

LEMMA RereadGathers ==
  ASSUME NEW text \in Text
  PROVE  \E seen : Gathers(seen, text)
<1> DEFINE S == Char \cup {Placeholder}
           D == Seq(S)
           L == Len(text)
           G == [p \in (1..L) \X D |-> RereadStep(p[2], text[p[1]])]
           E(f) == [i \in 0..L |-> IF i = 0 THEN <<>> ELSE RereadStep(f[i-1], text[i])]
           seen == CHOOSE f : f = E(f)
<1>1. L \in Nat /\ <<>> \in D /\ (\A i \in 1..L : text[i] \in S)
  BY DEF Text
<1>2. \A done \in D, c \in S : RereadStep(done, c) \in D
  <2> SUFFICES ASSUME NEW done \in D, NEW c \in S PROVE RereadStep(done, c) \in D
    OBVIOUS
  <2>1. Len(done) \in Nat /\ \A i \in 1..Len(done) : done[i] \in S
    OBVIOUS
  <2>2. Append(done, c) \in D
    OBVIOUS
  <2>3. ASSUME Len(done) >= 2 PROVE Append(SubSeq(done, 1, Len(done) - 2), Placeholder) \in D
    <3>1. SubSeq(done, 1, Len(done) - 2) \in D
      <4>1. \A i \in 1..(Len(done) - 2) : done[i] \in S
        BY <2>1
      <4> HIDE DEF S
      <4> QED BY <2>1, <2>3, <4>1
    <3> HIDE DEF D
    <3>2. Placeholder \in S
      OBVIOUS
    <3> HIDE DEF S
    <3> QED BY <3>1, <3>2 DEF D
  <2> HIDE DEF D, S
  <2> QED BY <2>2, <2>3 DEF RereadStep
<1>3. IsStep(G, 1..L, D)
  <2> HIDE DEF S
  <2>1. \A p \in (1..L) \X D : RereadStep(p[2], text[p[1]]) \in D
    BY <1>1, <1>2
  <2> HIDE DEF D, L
  <2> QED BY <2>1 DEF IsStep
<1>4. PICK F : ClimbsBy(G, F, L, D, <<>>)
  <2> HIDE DEF G, D, L
  <2> QED BY <1>1, <1>3, RecursionUp
<1>5. F = E(F)
  <2> HIDE DEF D
  <2>1. F \in [0..L -> D] /\ F[0] = <<>> /\ \A i \in 1..L : F[i] = G[<<i, F[i-1]>>]
    BY <1>4 DEF ClimbsBy
  <2>2. \A i \in 1..L : F[i-1] \in D
    BY <1>1, <2>1
  <2>3. \A i \in 1..L : F[i] = RereadStep(F[i-1], text[i])
    BY <2>1, <2>2
  <2>4. \A i \in 0..L : F[i] = E(F)[i]
    <3> TAKE i \in 0..L
    <3>1. CASE i = 0
      BY <2>1, <3>1
    <3>2. CASE i # 0
      <4>1. i \in 1..L
        BY <3>2, <1>1
      <4>2. E(F)[i] = RereadStep(F[i-1], text[i])
        BY <3>2
      <4> QED BY <4>1, <4>2, <2>3
    <3> QED BY <3>1, <3>2
  <2>5. F = [i \in 0..L |-> F[i]] /\ E(F) = [i \in 0..L |-> E(F)[i]]
    BY <2>1
  <2> HIDE DEF E
  <2> QED BY <2>4, <2>5
<1>6. seen = E(seen)
  <2> HIDE DEF E
  <2> QED BY <1>5
<1>7. Reread(text) = seen[L]
  BY DEF Reread, RereadStep
<1> HIDE DEF seen
<1>8. \A i \in 0..L : seen[i] = IF i = 0 THEN <<>> ELSE RereadStep(seen[i-1], text[i])
  <2>1. \A i \in 0..L : E(seen)[i] = IF i = 0 THEN <<>> ELSE RereadStep(seen[i-1], text[i])
    OBVIOUS
  <2> HIDE DEF E
  <2> QED BY <1>6, <2>1
<1> DEFINE U == {i \in 0..L : seen[i] \in D}
<1>9. 0 \in U
  <2>1. 0 \in 0..L /\ seen[0] = <<>>
    BY <1>1, <1>8
  <2> HIDE DEF D, L
  <2> QED BY <2>1, <1>1
<1>10. \A n \in 0..(L-1) : n \in U => n + 1 \in U
  <2> SUFFICES ASSUME NEW n \in 0..(L-1), n \in U PROVE n + 1 \in U
    OBVIOUS
  <2>1. n + 1 \in 0..L /\ n + 1 \in 1..L /\ n + 1 # 0 /\ (n + 1) - 1 = n
    BY <1>1
  <2> HIDE DEF D, S, L
  <2>2. seen[n+1] = RereadStep(seen[n], text[n+1])
    BY <1>8, <2>1
  <2> QED BY <1>1, <1>2, <2>1, <2>2
<1>11. 0..L \subseteq U
  <2> HIDE DEF U, L
  <2> QED BY <1>1, <1>9, <1>10, Upwards
<1>12. seen \in [0..L -> D]
  <2>1. \A i \in 0..L : seen[i] \in D
    BY <1>11
  <2>2. seen = [i \in 0..L |-> seen[i]]
    <3>1. E(seen) = [i \in 0..L |-> E(seen)[i]]
      OBVIOUS
    <3> HIDE DEF E
    <3> QED BY <1>6, <3>1
  <2> HIDE DEF D, L
  <2> QED BY <2>1, <2>2
<1>13. Text = D
  BY DEF Text
<1> HIDE DEF D, E
<1>14. seen[0] = <<>> /\ \A i \in 1..L : seen[i] = RereadStep(seen[i-1], text[i])
  BY <1>1, <1>8
<1>15. Gathers(seen, text)
  <2>1. L = Len(text)
    OBVIOUS
  <2> HIDE DEF L
  <2> QED BY <1>7, <1>12, <1>13, <1>14, <2>1 DEF Gathers
<1> QED BY <1>15

\* What is read back is a text.
LEMMA RereadText ==
  ASSUME NEW text \in Text
  PROVE  Reread(text) \in Text
<1>1. PICK seen : Gathers(seen, text)
  BY RereadGathers
<1>2. Len(text) \in Nat
  BY DEF Text
<1> QED BY <1>1, <1>2 DEF Gathers

\* No three literal characters of it spell a placeholder.
Plain(text) ==
    \A i \in 1..(Len(text) - 2) : ~(text[i] = Lt /\ text[i+1] = Star /\ text[i+2] = Gt)

\* Splitting a plain text again changes nothing.
LEMMA RereadPlain ==
  ASSUME NEW text \in Text, Plain(text)
  PROVE  Reread(text) = text
<1>1. PICK seen : Gathers(seen, text)
  BY RereadGathers
<1> DEFINE L == Len(text)
           S == Char \cup {Placeholder}
           U == {i \in 0..L : seen[i] = SubSeq(text, 1, i)}
<1>2. L \in Nat /\ text \in Seq(S)
  BY DEF Text
<1>3. 0 \in U
  <2>1. SubSeq(text, 1, 0) = <<>>
    BY <1>2
  <2>2. seen[0] = <<>>
    BY <1>1 DEF Gathers
  <2>3. 0 \in 0..L
    BY <1>2
  <2>4. seen[0] = SubSeq(text, 1, 0)
    BY <2>1, <2>2
  <2> QED BY <2>3, <2>4
<1>4. \A n \in 0..(L-1) : n \in U => n + 1 \in U
  <2> SUFFICES ASSUME NEW n \in 0..(L-1), n \in U PROVE n + 1 \in U
    OBVIOUS
  <2> DEFINE done == SubSeq(text, 1, n)
  <2>1. n + 1 \in 0..L /\ n + 1 \in 1..L /\ (n + 1) - 1 = n /\ n \in Nat
    BY <1>2
  <2>2. seen[n+1] = RereadStep(done, text[n+1])
    BY <1>1, <2>1 DEF Gathers
  <2> HIDE DEF S
  <2>3. Len(done) = n /\ \A i \in 1..n : done[i] = text[i]
    BY <1>2, <2>1
  <2>4. Append(done, text[n+1]) = SubSeq(text, 1, n + 1)
    BY <1>2, <2>1
  <2>5. ASSUME text[n+1] = Gt, n >= 2, SubSeq(done, n - 1, n) = <<Lt, Star>> PROVE FALSE
    <3>1. SubSeq(done, n - 1, n)[1] = done[n-1] /\ SubSeq(done, n - 1, n)[2] = done[n]
      BY <1>2, <2>1, <2>3, <2>5
    <3>2. text[n-1] = Lt /\ text[n] = Star
      <4>1. SubSeq(done, n - 1, n)[1] = Lt /\ SubSeq(done, n - 1, n)[2] = Star
        <5>1. PICK w : w = SubSeq(done, n - 1, n)
          OBVIOUS
        <5> HIDE DEF done
        <5>2. w = <<Lt, Star>>
          BY <2>5, <5>1
        <5>3. w[1] = Lt /\ w[2] = Star
          BY <5>2
        <5> QED BY <5>1, <5>3
      <4>2. done[n-1] = text[n-1] /\ done[n] = text[n]
        BY <2>1, <2>3, <2>5
      <4> HIDE DEF done
      <4> QED BY <3>1, <4>1, <4>2
    <3>3. n - 1 \in 1..(L - 2) /\ (n - 1) + 1 = n /\ (n - 1) + 2 = n + 1
      BY <1>2, <2>1, <2>5
    <3> HIDE DEF done
    <3> QED BY <2>5, <3>2, <3>3 DEF Plain
  <2> HIDE DEF done
  <2>6. RereadStep(done, text[n+1]) = Append(done, text[n+1])
    BY <2>3, <2>5 DEF RereadStep
  <2> QED BY <2>1, <2>2, <2>4, <2>6
<1>5. 0..L \subseteq U
  <2> HIDE DEF U, L
  <2> QED BY <1>2, <1>3, <1>4, Upwards
<1>6. seen[L] = SubSeq(text, 1, L)
  BY <1>2, <1>5
<1>7. SubSeq(text, 1, L) = text
  BY <1>2
<1> QED BY <1>1, <1>6, <1>7 DEF Gathers

-----------------------------------------------------------------------------
\* The dictionary of a bucket holds every value of it.
LEMMA WordsHold ==
  ASSUME NEW A, NEW values \in Seq(A)
  PROVE  /\ Words(values) \in Seq(A)
         /\ \A i \in 1..Len(values) : values[i] \in ToSet(Words(values))
<1> DEFINE D == Seq(A)
           L == Len(values)
           Next1(done, v) == IF v \in ToSet(done) THEN done ELSE Append(done, v)
           G == [p \in (1..L) \X D |-> Next1(p[2], values[p[1]])]
           E(f) == [i \in 0..L |-> IF i = 0 THEN <<>> ELSE Next1(f[i-1], values[i])]
           words == CHOOSE f : f = E(f)
<1>1. L \in Nat /\ <<>> \in D /\ (\A i \in 1..L : values[i] \in A)
  OBVIOUS
<1>2. \A done \in D, v \in A : Next1(done, v) \in D
  OBVIOUS
<1>3. IsStep(G, 1..L, D)
  <2> HIDE DEF Next1
  <2>1. \A p \in (1..L) \X D : Next1(p[2], values[p[1]]) \in D
    BY <1>1, <1>2
  <2> HIDE DEF D, L
  <2> QED BY <2>1 DEF IsStep
<1>4. PICK F : ClimbsBy(G, F, L, D, <<>>)
  <2> HIDE DEF G, D, L
  <2> QED BY <1>1, <1>3, RecursionUp
<1>5. F = E(F)
  <2> HIDE DEF Next1, D
  <2>1. F \in [0..L -> D] /\ F[0] = <<>> /\ \A i \in 1..L : F[i] = G[<<i, F[i-1]>>]
    BY <1>4 DEF ClimbsBy
  <2>2. \A i \in 1..L : F[i-1] \in D
    BY <1>1, <2>1
  <2>3. \A i \in 1..L : F[i] = Next1(F[i-1], values[i])
    BY <2>1, <2>2
  <2>4. \A i \in 0..L : F[i] = E(F)[i]
    <3> TAKE i \in 0..L
    <3>1. CASE i = 0
      BY <2>1, <3>1
    <3>2. CASE i # 0
      <4>1. i \in 1..L
        BY <3>2, <1>1
      <4>2. E(F)[i] = Next1(F[i-1], values[i])
        BY <3>2
      <4> QED BY <4>1, <4>2, <2>3
    <3> QED BY <3>1, <3>2
  <2>5. F = [i \in 0..L |-> F[i]] /\ E(F) = [i \in 0..L |-> E(F)[i]]
    BY <2>1
  <2> HIDE DEF E
  <2> QED BY <2>4, <2>5
<1>6. words = E(words)
  <2> HIDE DEF E
  <2> QED BY <1>5
<1>7. Words(values) = words[L]
  BY DEF Words
<1> HIDE DEF words
<1>8. \A i \in 0..L : words[i] = IF i = 0 THEN <<>> ELSE Next1(words[i-1], values[i])
  <2> HIDE DEF Next1
  <2>1. \A i \in 0..L : E(words)[i] = IF i = 0 THEN <<>> ELSE Next1(words[i-1], values[i])
    OBVIOUS
  <2> HIDE DEF E
  <2> QED BY <1>6, <2>1
<1> DEFINE U == {i \in 0..L : words[i] \in D /\ \A j \in 1..i : values[j] \in ToSet(words[i])}
<1>9. 0 \in U
  <2>1. 0 \in 0..L /\ words[0] = <<>>
    BY <1>1, <1>8
  <2> HIDE DEF D, L
  <2> QED BY <2>1, <1>1
<1>10. \A n \in 0..(L-1) : n \in U => n + 1 \in U
  <2> SUFFICES ASSUME NEW n \in 0..(L-1), n \in U PROVE n + 1 \in U
    OBVIOUS
  <2>1. n + 1 \in 0..L /\ n + 1 \in 1..L /\ n + 1 # 0 /\ (n + 1) - 1 = n /\ n \in Nat
    BY <1>1
  <2>2. words[n+1] = Next1(words[n], values[n+1])
    <3> HIDE DEF Next1, L
    <3> QED BY <1>8, <2>1
  <2>3. words[n+1] \in D /\ words[n] \in D
    <3> HIDE DEF D, L, Next1
    <3> QED BY <1>1, <1>2, <2>1, <2>2
  <2>4. ToSet(words[n+1]) = ToSet(words[n]) \cup {values[n+1]}
    <3>1. CASE values[n+1] \in ToSet(words[n])
      BY <2>2, <3>1
    <3>2. CASE values[n+1] \notin ToSet(words[n])
      <4> DEFINE w == words[n]
                 v == values[n+1]
      <4>1. words[n+1] = Append(w, v)
        BY <2>2, <3>2
      <4>2. w \in Seq(A) /\ v \in A
        BY <1>1, <2>1, <2>3
      <4> HIDE DEF w, v
      <4>3. /\ DOMAIN Append(w, v) = 1..(Len(w) + 1) /\ Append(w, v)[Len(w) + 1] = v
            /\ Len(w) \in Nat /\ DOMAIN w = 1..Len(w)
            /\ \A x \in 1..Len(w) : Append(w, v)[x] = w[x]
        BY <4>2
      <4>4. ToSet(Append(w, v)) = ToSet(w) \cup {v}
        BY <4>3 DEF ToSet
      <4> QED BY <4>1, <4>4 DEF w, v
    <3> QED BY <3>1, <3>2
  <2>5. \A j \in 1..n : values[j] \in ToSet(words[n])
    OBVIOUS
  <2>6. \A j \in 1..(n+1) : j \in 1..n \/ j = n + 1
    BY <2>1
  <2> HIDE DEF D, L
  <2> QED BY <2>1, <2>3, <2>4, <2>5, <2>6
<1>11. 0..L \subseteq U
  <2> HIDE DEF U, L
  <2> QED BY <1>1, <1>9, <1>10, Upwards
<1>12. L \in U
  BY <1>1, <1>11
<1> HIDE DEF D, L
<1> QED BY <1>7, <1>12 DEF D, L

\* readBucket gives back what writeBucket was given.
LEMMA CarriedSame ==
  ASSUME NEW A, NEW values \in Seq(A)
  PROVE  Carried(values) = values
<1> DEFINE W == Words(values)
           at(i) == SelectInSeq(W, LAMBDA w : w = values[i])
           d == Indexed(values)
<1>1. W \in Seq(A) /\ \A i \in 1..Len(values) : values[i] \in ToSet(W)
  BY WordsHold
<1>2. d.words = W /\ d.index = [i \in DOMAIN values |-> at(i)]
  BY DEF Indexed
<1>3. \A i \in 1..Len(values) : W[at(i)] = values[i]
  <2> SUFFICES ASSUME NEW i \in 1..Len(values) PROVE W[at(i)] = values[i]
    OBVIOUS
  <2> HIDE DEF W
  <2> DEFINE I == {x \in 1..Len(W) : W[x] = values[i]}
  <2>1. Len(W) \in Nat /\ DOMAIN W = 1..Len(W)
    BY <1>1
  <2>2. PICK x \in DOMAIN W : W[x] = values[i]
    BY <1>1 DEF ToSet
  <2>3. I # {} /\ I \subseteq Nat
    BY <2>1, <2>2
  <2>4. PICK m \in I : \A y \in I : m <= y
    <3> HIDE DEF I
    <3> QED BY <2>3, LeastNat
  <2>5. at(i) = IF I # {} THEN Min(I) ELSE 0
    BY DEF SelectInSeq
  <2>6. Min(I) \in I
    <3> HIDE DEF I
    <3> QED BY <2>4 DEF Min
  <2> HIDE DEF at
  <2> QED BY <2>3, <2>5, <2>6
<1>4. [i \in DOMAIN d.index |-> d.words[d.index[i]]] = values
  <2> HIDE DEF W, at, d
  <2>1. DOMAIN values = 1..Len(values) /\ values = [i \in DOMAIN values |-> values[i]]
    OBVIOUS
  <2>2. DOMAIN d.index = DOMAIN values
    BY <1>2
  <2>3. \A i \in DOMAIN values : d.words[d.index[i]] = values[i]
    BY <1>2, <1>3, <2>1
  <2>4. [i \in DOMAIN d.index |-> d.words[d.index[i]]] = [i \in DOMAIN values |-> values[i]]
    BY <2>2, <2>3
  <2> QED BY <2>1, <2>4
<1> QED BY <1>4 DEF Carried

Uses(stream, k) == Cardinality({i \in DOMAIN stream : stream[i] = k})

\* The whole of a table entry, whatever its text.
WholeEntry(e) ==
    /\ e = [id |-> e.id, text |-> e.text, suffix |-> e.suffix, count |-> e.count]
    /\ e.count \in Nat

\* One entry per ID, and no code outside the table: that the count of the
\* entry whose code is written is the one that grows rests on both.
TableOK ==
    /\ \E S : table \in Seq(S)
    /\ \A k \in DOMAIN table : WholeEntry(table[k])
    /\ \A j, k \in DOMAIN table : table[j].id = table[k].id => j = k

StreamsOK == rowIDs \in Seq(0..Len(table)) /\ subIDs \in Seq(0..Len(table))

IInv == TableOK /\ StreamsOK /\ CountsUses

-----------------------------------------------------------------------------
\* One more code in a stream is one more use of that code only.
LEMMA UsesAppend ==
    ASSUME NEW stream \in Seq(Nat), NEW c \in Nat, NEW k \in Nat
    PROVE  /\ Uses(stream, k) \in Nat
           /\ Uses(Append(stream, c), k) = Uses(stream, k) + IF c = k THEN 1 ELSE 0
<1> DEFINE old == {i \in DOMAIN stream : stream[i] = k}
           new == {i \in DOMAIN Append(stream, c) : Append(stream, c)[i] = k}
<1>1. DOMAIN stream = 1..Len(stream) /\ Len(stream) \in Nat
  OBVIOUS
<1>2. DOMAIN Append(stream, c) = 1..(Len(stream) + 1)
  BY <1>1
<1>3. IsFiniteSet(1..Len(stream))
  BY <1>1, FS_Interval
<1>4. IsFiniteSet(old) /\ Cardinality(old) \in Nat
  <2>1. old \subseteq 1..Len(stream)
    BY <1>1
  <2> QED BY <2>1, <1>3, FS_Subset, FS_CardinalityType
<1> DEFINE u == Cardinality(old)
<1>a. Uses(stream, k) = u /\ Uses(Append(stream, c), k) = Cardinality(new) /\ u \in Nat
  BY <1>4 DEF Uses
<1>5. CASE c = k
  <2>1. new = old \cup {Len(stream) + 1}
    BY <1>1, <1>2, <1>5
  <2>2. Len(stream) + 1 \notin old
    BY <1>1
  <2>3. Cardinality(new) = u + 1
    BY <2>1, <2>2, <1>4, FS_AddElement
  <2> HIDE DEF u, new
  <2> QED BY <2>3, <1>a, <1>5
<1>6. CASE c # k
  <2>1. new = old
    BY <1>1, <1>2, <1>6
  <2>2. Cardinality(new) = u
    BY <2>1
  <2> HIDE DEF u, new
  <2> QED BY <2>2, <1>a, <1>6
<1> QED BY <1>5, <1>6

\* Streams of one set of codes stay so.
LEMMA StreamExtended ==
    ASSUME NEW S, NEW r, NEW s, NEW c \in S, r \in Seq(S), s \in Seq(S), NEW r2, NEW s2,
           \/ r2 = Append(r, c) /\ s2 = s
           \/ r2 = r /\ s2 = Append(s, c)
    PROVE  r2 \in Seq(S) /\ s2 \in Seq(S)
<1>1. Append(r, c) \in Seq(S) /\ Append(s, c) \in Seq(S)
  OBVIOUS
<1> QED BY <1>1

-----------------------------------------------------------------------------
\* code: whatever node comes, its code is in the table afterwards, its
\* entry counts one use more (from none, if it is new), no other changes.
LEMMA CodedOK ==
    ASSUME TableOK, StreamsOK, NEW n, table' = Coded(n)
    PROVE  /\ TableOK'
           /\ Len(table') \in Nat /\ Len(table) \in Nat
           /\ Len(table) <= Len(table')
           /\ CodeFor(n) \in 1..Len(table')
           /\ \A k \in 1..Len(table) :
                 table'[k].count = table[k].count + IF k = CodeFor(n) THEN 1 ELSE 0
           /\ Len(table') # Len(table) => /\ Len(table') = Len(table) + 1
                                          /\ CodeFor(n) = Len(table')
                                          /\ table'[Len(table')].count = 1
<1>1. PICK S : table \in Seq(S)
  BY DEF TableOK
<1>2. DOMAIN table = 1..Len(table) /\ Len(table) \in Nat
  BY <1>1
<1>3. CASE CodeOf(n.id) = {}
  <2> DEFINE e == Entry(n)
  <2>1. table' = Append(table, e) /\ CodeFor(n) = Len(table) + 1
    BY <1>3 DEF Coded, CodeFor
  <2>2. /\ e.id = n.id /\ e.count = 1
        /\ e = [id |-> e.id, text |-> e.text, suffix |-> e.suffix, count |-> e.count]
    BY DEF Entry
  <2> HIDE DEF e
  <2>3. table \in Seq(S \cup {e})
    BY <1>1, <1>2
  <2>4. /\ table' \in Seq(S \cup {e}) /\ Len(table') = Len(table) + 1
        /\ \A k \in 1..Len(table) : table'[k] = table[k]
        /\ table'[Len(table) + 1] = e
    BY <2>1, <2>3, <1>2
  <2>5. DOMAIN table' = 1..(Len(table) + 1)
    BY <2>4
  <2>6. \A k \in DOMAIN table : table[k].id # n.id
    BY <1>3 DEF CodeOf
  <2>7. WholeEntry(e)
    BY <2>2 DEF WholeEntry
  <2>8. \A k \in DOMAIN table' : WholeEntry(table'[k])
    <3> SUFFICES ASSUME NEW k \in DOMAIN table' PROVE WholeEntry(table'[k])
      OBVIOUS
    <3>1. CASE k \in 1..Len(table)
      BY <3>1, <2>4, <1>2 DEF TableOK
    <3>2. CASE k = Len(table) + 1
      BY <3>2, <2>4, <2>7
    <3> QED BY <3>1, <3>2, <2>5, <1>2
  <2>9. \A j, k \in DOMAIN table' : table'[j].id = table'[k].id => j = k
    BY <2>2, <2>4, <2>5, <2>6, <1>2 DEF TableOK
  <2>10. TableOK'
    <3>1. \E R : table' \in Seq(R)
      BY <2>4
    <3> QED BY <3>1, <2>8, <2>9 DEF TableOK
  <2>11. \A k \in 1..Len(table) : k # CodeFor(n) /\ table[k].count \in Nat
    BY <2>1, <1>2 DEF TableOK, WholeEntry
  <2>12. \A k \in 1..Len(table) :
            table'[k].count = table[k].count + IF k = CodeFor(n) THEN 1 ELSE 0
    BY <2>4, <2>11
  <2>13. /\ Len(table') = Len(table) + 1
         /\ CodeFor(n) = Len(table')
         /\ table'[Len(table')].count = 1
    BY <2>1, <2>2, <2>4
  <2>14. CodeFor(n) \in 1..Len(table') /\ Len(table) <= Len(table') /\ Len(table') \in Nat
    BY <2>13, <1>2
  <2> QED BY <2>10, <2>12, <2>13, <2>14, <1>2
<1>4. CASE CodeOf(n.id) # {}
  <2> DEFINE code == CodeFor(n)
  <2>1. code \in CodeOf(n.id)
    BY <1>4 DEF CodeFor
  <2>2. code \in DOMAIN table /\ CodeOf(n.id) = {code}
    BY <2>1 DEF CodeOf, TableOK
  <2> HIDE DEF code
  <2>3. table' = [k \in DOMAIN table |-> IF k \in CodeOf(n.id)
                                         THEN [table[k] EXCEPT !.count = @ + 1]
                                         ELSE table[k]]
    BY <1>4 DEF Coded
  <2>4. DOMAIN table' = 1..Len(table)
    BY <2>3, <1>2
  <2>5. \A k \in DOMAIN table :
            /\ WholeEntry(table'[k]) /\ table'[k].id = table[k].id
            /\ table'[k].count = table[k].count + IF k = code THEN 1 ELSE 0
    <3> SUFFICES ASSUME NEW k \in DOMAIN table
                 PROVE /\ WholeEntry(table'[k]) /\ table'[k].id = table[k].id
                       /\ table'[k].count = table[k].count + IF k = code THEN 1 ELSE 0
      OBVIOUS
    <3>1. WholeEntry(table[k])
      BY DEF TableOK
    <3>2. CASE k = code
      <4>1. table'[k] = [table[k] EXCEPT !.count = @ + 1]
        BY <3>2, <2>2, <2>3
      <4>2. table'[k] = [id |-> table[k].id, text |-> table[k].text,
                         suffix |-> table[k].suffix, count |-> table[k].count + 1]
        BY <4>1, <3>1 DEF WholeEntry
      <4> QED BY <4>2, <3>1, <3>2 DEF WholeEntry
    <3>3. CASE k # code
      <4>1. table'[k] = table[k]
        BY <3>3, <2>2, <2>3
      <4> QED BY <4>1, <3>1, <3>3 DEF WholeEntry
    <3> QED BY <3>2, <3>3
  <2>6. \E R : table' \in Seq(R)
    <3> DEFINE R == {table'[k] : k \in 1..Len(table)}
    <3>1. table' \in [1..Len(table) -> R]
      BY <2>3, <1>2
    <3>2. table' \in Seq(R)
      <4> HIDE DEF R
      <4> QED BY <3>1, <1>2
    <3> QED BY <3>2
  <2>7. Len(table') = Len(table)
    BY <2>4, <2>6, <1>2
  <2>8. TableOK'
    BY <2>4, <2>5, <2>6, <1>2 DEF TableOK
  <2> QED BY <2>2, <2>5, <2>7, <2>8, <1>2 DEF code
<1> QED BY <1>3, <1>4

\* What a row or a param slot writes: a code that code has just counted,
\* into one of the two streams.
LEMMA CodeWritten ==
    ASSUME IInv, NEW n, table' = Coded(n),
           \/ rowIDs' = Append(rowIDs, CodeFor(n)) /\ subIDs' = subIDs
           \/ rowIDs' = rowIDs /\ subIDs' = Append(subIDs, CodeFor(n))
    PROVE  IInv'
<1> DEFINE c == CodeFor(n)
           last == Len(table')
<1>1. /\ TableOK'
      /\ last \in Nat /\ Len(table) \in Nat /\ Len(table) <= last
      /\ c \in 1..last
      /\ \A k \in 1..Len(table) :
            table'[k].count = table[k].count + IF k = c THEN 1 ELSE 0
      /\ last # Len(table) => /\ last = Len(table) + 1 /\ c = last
                              /\ table'[last].count = 1
  BY CodedOK DEF IInv
<1> HIDE DEF c, last
<1>2. /\ rowIDs \in Seq(Nat) /\ subIDs \in Seq(Nat) /\ c \in Nat
      /\ rowIDs \in Seq(0..last) /\ subIDs \in Seq(0..last)
  BY <1>1 DEF IInv, StreamsOK
<1>3. StreamsOK'
  <2>1. rowIDs' \in Seq(0..last) /\ subIDs' \in Seq(0..last)
    <3>1. c \in 0..last
      BY <1>1
    <3> QED BY <3>1, <1>2, StreamExtended DEF c
  <2> QED BY <2>1 DEF StreamsOK, last
<1>4. \A k \in Nat : /\ Uses(rowIDs, k) \in Nat /\ Uses(subIDs, k) \in Nat
                     /\ Uses(rowIDs', k) + Uses(subIDs', k)
                          = Uses(rowIDs, k) + Uses(subIDs, k) + IF c = k THEN 1 ELSE 0
  <2> SUFFICES ASSUME NEW k \in Nat
               PROVE  /\ Uses(rowIDs, k) \in Nat /\ Uses(subIDs, k) \in Nat
                      /\ Uses(rowIDs', k) + Uses(subIDs', k)
                           = Uses(rowIDs, k) + Uses(subIDs, k) + IF c = k THEN 1 ELSE 0
    OBVIOUS
  <2>1. /\ Uses(rowIDs, k) \in Nat
        /\ Uses(Append(rowIDs, c), k) = Uses(rowIDs, k) + IF c = k THEN 1 ELSE 0
    BY <1>2, UsesAppend
  <2>2. /\ Uses(subIDs, k) \in Nat
        /\ Uses(Append(subIDs, c), k) = Uses(subIDs, k) + IF c = k THEN 1 ELSE 0
    BY <1>2, UsesAppend
  <2>3. CASE rowIDs' = Append(rowIDs, c) /\ subIDs' = subIDs
    <3>1. Uses(rowIDs', k) = Uses(Append(rowIDs, c), k) /\ Uses(subIDs', k) = Uses(subIDs, k)
      BY <2>3
    <3> QED BY <3>1, <2>1, <2>2
  <2>4. CASE rowIDs' = rowIDs /\ subIDs' = Append(subIDs, c)
    <3>1. Uses(rowIDs', k) = Uses(rowIDs, k) /\ Uses(subIDs', k) = Uses(Append(subIDs, c), k)
      BY <2>4
    <3> QED BY <3>1, <2>1, <2>2
  <2> QED BY <2>3, <2>4 DEF c
<1>5. \A k \in DOMAIN table' : table'[k].count = Uses(rowIDs', k) + Uses(subIDs', k)
  <2> SUFFICES ASSUME NEW k \in DOMAIN table'
               PROVE  table'[k].count = Uses(rowIDs', k) + Uses(subIDs', k)
    OBVIOUS
  <2>0. DOMAIN table = 1..Len(table) /\ DOMAIN table' = 1..last
    BY <1>1 DEF IInv, TableOK, last
  <2>1. CASE k \in 1..Len(table)
    <3>1. table[k].count = Uses(rowIDs, k) + Uses(subIDs, k)
      BY <2>0, <2>1 DEF IInv, CountsUses, Uses
    <3>2. table'[k].count = table[k].count + IF k = c THEN 1 ELSE 0
      BY <1>1, <2>1
    <3>3. /\ Uses(rowIDs, k) \in Nat /\ Uses(subIDs, k) \in Nat
          /\ Uses(rowIDs', k) + Uses(subIDs', k)
               = Uses(rowIDs, k) + Uses(subIDs, k) + IF c = k THEN 1 ELSE 0
      <4>1. k \in Nat
        BY <1>1, <2>1
      <4> QED BY <4>1, <1>4, Zenon
    <3> QED BY <3>1, <3>2, <3>3
  <2>2. CASE k \notin 1..Len(table)
    <3>1. k = last /\ c = last /\ table'[k].count = 1 /\ k = Len(table) + 1
      BY <2>0, <2>2, <1>1
    <3>2. Uses(rowIDs, k) = 0 /\ Uses(subIDs, k) = 0
      <4>1. /\ \A i \in DOMAIN rowIDs : rowIDs[i] # k
            /\ \A i \in DOMAIN subIDs : subIDs[i] # k
        BY <3>1, <1>1 DEF IInv, StreamsOK
      <4>2. /\ {i \in DOMAIN rowIDs : rowIDs[i] = k} = {}
            /\ {i \in DOMAIN subIDs : subIDs[i] = k} = {}
        BY <4>1
      <4> QED BY <4>2, FS_EmptySet DEF Uses
    <3> QED BY <3>1, <3>2, <1>1, <1>4
  <2> QED BY <2>1, <2>2
<1> QED BY <1>1, <1>3, <1>5 DEF IInv, CountsUses, Uses

\* An unmatched row and a plain leaf write 0, which is no code.
LEMMA ZeroWritten ==
    ASSUME IInv, table' = table,
           \/ rowIDs' = Append(rowIDs, 0) /\ subIDs' = subIDs
           \/ rowIDs' = rowIDs /\ subIDs' = Append(subIDs, 0)
    PROVE  IInv'
<1>1. Len(table) \in Nat /\ DOMAIN table = 1..Len(table)
  BY DEF IInv, TableOK
<1>2. rowIDs \in Seq(Nat) /\ subIDs \in Seq(Nat)
  BY <1>1 DEF IInv, StreamsOK
<1>3. TableOK'
  BY DEF IInv, TableOK
<1>4. StreamsOK'
  <2>1. /\ rowIDs \in Seq(0..Len(table)) /\ subIDs \in Seq(0..Len(table))
        /\ 0 \in 0..Len(table)
    BY <1>1 DEF IInv, StreamsOK
  <2>2. rowIDs' \in Seq(0..Len(table)) /\ subIDs' \in Seq(0..Len(table))
    BY <2>1, StreamExtended
  <2> QED BY <2>2 DEF StreamsOK
<1>5. \A k \in DOMAIN table : /\ Uses(rowIDs', k) = Uses(rowIDs, k)
                              /\ Uses(subIDs', k) = Uses(subIDs, k)
  <2> SUFFICES ASSUME NEW k \in DOMAIN table
               PROVE  Uses(rowIDs', k) = Uses(rowIDs, k) /\ Uses(subIDs', k) = Uses(subIDs, k)
    OBVIOUS
  <2>1. k \in Nat /\ k # 0
    BY <1>1
  <2>2. /\ Uses(rowIDs, k) \in Nat
        /\ Uses(Append(rowIDs, 0), k) = Uses(rowIDs, k) + IF 0 = k THEN 1 ELSE 0
    BY <1>2, <2>1, UsesAppend
  <2>3. /\ Uses(subIDs, k) \in Nat
        /\ Uses(Append(subIDs, 0), k) = Uses(subIDs, k) + IF 0 = k THEN 1 ELSE 0
    BY <1>2, <2>1, UsesAppend
  <2>4. Uses(Append(rowIDs, 0), k) = Uses(rowIDs, k) /\ Uses(Append(subIDs, 0), k) = Uses(subIDs, k)
    BY <2>1, <2>2, <2>3
  <2> QED BY <2>4
<1>6. CountsUses'
  <2>1. \A k \in DOMAIN table : table[k].count = Uses(rowIDs', k) + Uses(subIDs', k)
    BY <1>5 DEF IInv, CountsUses, Uses
  <2> QED BY <2>1 DEF CountsUses, Uses
<1> QED BY <1>3, <1>4, <1>6 DEF IInv

LEMMA CountsInductive == IInv /\ [Next]_vars => IInv'
<1> SUFFICES ASSUME IInv, [Next]_vars PROVE IInv'
  OBVIOUS
<1>1. CASE EncodeMatched
  <2>1. PICK n \in Resolved[lines[Len(rowIDs) + 1]] :
            rowIDs' = Append(rowIDs, CodeFor(n)) /\ table' = Coded(n)
    BY <1>1 DEF EncodeMatched, Enter
  <2>2. subIDs' = subIDs
    BY <1>1 DEF EncodeMatched
  <2> QED BY <2>1, <2>2, CodeWritten
<1>2. CASE EncodeUnmatched
  BY <1>2, ZeroWritten DEF EncodeUnmatched
<1>3. CASE EncodeNode
  <2>1. subIDs' = Append(subIDs, CodeFor(Slot)) /\ table' = Coded(Slot) /\ rowIDs' = rowIDs
    BY <1>3 DEF EncodeNode, Enter
  <2> QED BY <2>1, CodeWritten
<1>4. CASE EncodeLeaf
  BY <1>4, ZeroWritten DEF EncodeLeaf
<1>5. CASE UNCHANGED <<table, rowIDs, subIDs>>
  BY <1>5 DEF IInv, TableOK, StreamsOK, CountsUses
<1>6. \/ EncodeMatched \/ EncodeUnmatched \/ EncodeNode \/ EncodeLeaf
      \/ UNCHANGED <<table, rowIDs, subIDs>>
  BY DEF Next, vars, column, ProfileBlock, EncodeFolded, EncodeReturn, EncodeDone, Transfer,
         DecodeMatched, DecodeUnmatched, DecodeLeaf, DecodeNode, DecodeReturn, DecodeDone
<1> QED BY <1>1, <1>2, <1>3, <1>4, <1>5, <1>6

LEMMA CountsInitially == Init => IInv
<1> SUFFICES ASSUME Init PROVE IInv
  OBVIOUS
<1>1. table = <<>> /\ rowIDs = <<>> /\ subIDs = <<>>
  BY DEF Init
<1>2. table \in Seq({})
  BY <1>1
<1> QED BY <1>1, <1>2 DEF IInv, TableOK, StreamsOK, CountsUses

(***************************************************************************)
(* For every block, catalog and dictionary: the count of a table entry is  *)
(* the number of rows and param slots that used it, at every point.        *)
(***************************************************************************)
THEOREM CountsAreUses == Spec => []CountsUses
<1>1. IInv => CountsUses
  BY DEF IInv
<1> QED BY <1>1, CountsInitially, CountsInductive, PTL DEF Spec

(***************************************************************************)
(* ReadColumn's checks on codes (column.go:443-452) never refuse a column  *)
(* that BuildColumn made, nor does render index past the table.            *)
(***************************************************************************)
THEOREM CodesInTable == Spec => [](ToSet(rowIDs) \cup ToSet(subIDs) \subseteq 0..Len(table))
<1>1. IInv => ToSet(rowIDs) \cup ToSet(subIDs) \subseteq 0..Len(table)
  BY DEF IInv, StreamsOK, ToSet
<1> QED BY <1>1, CountsInitially, CountsInductive, PTL DEF Spec

\* An ID stands for one text, and so for one specialised text.
LEMMA OneTextPerID ==
  ASSUME BlockOK, NEW n \in BlockNodes, NEW m \in BlockNodes, n.id = m.id
  PROVE  n.text = m.text /\ Specialised(n) = Specialised(m)
<1>1. n.text = m.text
  BY NodeFacts
<1> QED BY <1>1 DEF Specialised

\* What the table says of the template of n, n itself or another node that uses it.
Made(e, n) == e.id = n.id /\ e.text = Specialised(n) /\ e.suffix = n.suffix

EntriesOK == \A k \in DOMAIN table : \E n \in BlockNodes : Made(table[k], n)

LEMMA EntryText ==
  ASSUME BlockOK, EntriesOK, NEW k \in DOMAIN table, NEW n \in BlockNodes, table[k].id = n.id
  PROVE  table[k].text = Specialised(n)
<1>1. PICK m \in BlockNodes : Made(table[k], m)
  BY DEF EntriesOK
<1>2. m.id = n.id /\ table[k].text = Specialised(m)
  BY <1>1 DEF Made
<1> QED BY <1>2, OneTextPerID

SameTables == \A k \in DOMAIN table :
    /\ k \in DOMAIN table' /\ table'[k].id = table[k].id
    /\ table'[k].text = table[k].text /\ table'[k].suffix = table[k].suffix

LEMMA CodedEntries ==
  ASSUME BlockOK, TableOK, EntriesOK, NEW n \in BlockNodes, table' = Coded(n),
         UNCHANGED <<lines, folded>>
  PROVE  /\ EntriesOK' /\ SameTables
         /\ CodeFor(n) \in DOMAIN table' /\ table'[CodeFor(n)].id = n.id
<1>1. PICK S : table \in Seq(S)
  BY DEF TableOK
<1>2. DOMAIN table = 1..Len(table) /\ Len(table) \in Nat
  BY <1>1
<1>3. \A m : Specialised(m)' = Specialised(m)
  BY DEF Specialised, IsFolded
<1>4. BlockNodes' = BlockNodes
  BY DEF BlockNodes
<1>5. CASE CodeOf(n.id) = {}
  <2> DEFINE e == Entry(n)
  <2>1. table' = Append(table, e) /\ CodeFor(n) = Len(table) + 1
    BY <1>5 DEF Coded, CodeFor
  <2>2. e.id = n.id /\ e.text = Specialised(n) /\ e.suffix = n.suffix
    BY DEF Entry
  <2> HIDE DEF e
  <2>3. /\ DOMAIN table' = 1..(Len(table) + 1)
        /\ \A k \in 1..Len(table) : table'[k] = table[k]
        /\ table'[Len(table) + 1] = e
    BY <2>1, <1>1, <1>2
  <2>4. EntriesOK'
    <3>1. \A k \in DOMAIN table' : \E m \in BlockNodes : Made(table'[k], m)
      <4> TAKE k \in DOMAIN table'
      <4>1. CASE k \in DOMAIN table
        BY <4>1, <2>3, <1>2 DEF EntriesOK
      <4>2. CASE k = Len(table) + 1
        BY <4>2, <2>2, <2>3 DEF Made
      <4> QED BY <4>1, <4>2, <2>3, <1>2
    <3> QED BY <3>1, <1>3, <1>4 DEF EntriesOK, Made
  <2> QED BY <2>1, <2>2, <2>3, <2>4, <1>2 DEF SameTables
<1>6. CASE CodeOf(n.id) # {}
  <2>1. CodeFor(n) \in CodeOf(n.id)
    BY <1>6 DEF CodeFor
  <2>2. CodeFor(n) \in DOMAIN table /\ table[CodeFor(n)].id = n.id
    BY <2>1 DEF CodeOf
  <2>3. table' = [k \in DOMAIN table |-> IF k \in CodeOf(n.id)
                                         THEN [table[k] EXCEPT !.count = @ + 1]
                                         ELSE table[k]]
    BY <1>6 DEF Coded
  <2>4. DOMAIN table' = DOMAIN table
    BY <2>3
  <2>5. \A k \in DOMAIN table :
            /\ table'[k].id = table[k].id /\ table'[k].text = table[k].text
            /\ table'[k].suffix = table[k].suffix
    <3> TAKE k \in DOMAIN table
    <3>1. WholeEntry(table[k])
      BY DEF TableOK
    <3>2. CASE k \in CodeOf(n.id)
      <4>1. table'[k] = [table[k] EXCEPT !.count = @ + 1]
        BY <3>2, <2>3
      <4>2. table'[k] = [id |-> table[k].id, text |-> table[k].text,
                         suffix |-> table[k].suffix, count |-> table[k].count + 1]
        BY <4>1, <3>1 DEF WholeEntry
      <4> QED BY <4>2
    <3>3. CASE k \notin CodeOf(n.id)
      BY <3>3, <2>3
    <3> QED BY <3>2, <3>3
  <2>6. EntriesOK'
    <3>1. \A k \in DOMAIN table' : \E m \in BlockNodes : Made(table'[k], m)
      BY <2>4, <2>5 DEF EntriesOK, Made
    <3> QED BY <3>1, <1>3, <1>4 DEF EntriesOK, Made
  <2> QED BY <2>2, <2>4, <2>5, <2>6 DEF SameTables
<1> QED BY <1>5, <1>6

\* The table as it stays while the streams grow, or are read.
LEMMA TableKept ==
  ASSUME EntriesOK, UNCHANGED <<lines, folded, table>>
  PROVE  EntriesOK' /\ SameTables
<1>1. \A m : Specialised(m)' = Specialised(m)
  BY DEF Specialised, IsFolded
<1>2. BlockNodes' = BlockNodes
  BY DEF BlockNodes
<1> QED BY <1>1, <1>2 DEF EntriesOK, Made, SameTables

-----------------------------------------------------------------------------
\* The innermost call goes on to its next slot.
Stepped(s) == [s EXCEPT ![Len(s)].next = @ + 1]

LEMMA SteppedFacts ==
  ASSUME NEW A, NEW s \in Seq(A), s # <<>>
  PROVE  /\ Len(Stepped(s)) = Len(s) /\ Len(s) \in Nat \ {0}
         /\ DOMAIN Stepped(s) = 1..Len(s)
         /\ \A i \in 1..(Len(s) - 1) : Stepped(s)[i] = s[i]
         /\ Stepped(s)[Len(s)] = [s[Len(s)] EXCEPT !.next = @ + 1]
         /\ \A B : (\A i \in 1..Len(s) : Stepped(s)[i] \in B) => Stepped(s) \in Seq(B)
<1> DEFINE n == Len(s)
<1>1. n \in Nat /\ n # 0 /\ DOMAIN s = 1..n
  BY EmptySeq
<1>2. Stepped(s) = [i \in 1..n |-> IF i = n THEN [s[n] EXCEPT !.next = @ + 1] ELSE s[i]]
  BY <1>1 DEF Stepped
<1> HIDE DEF n
<1>3. /\ DOMAIN Stepped(s) = 1..n
      /\ \A i \in 1..(n - 1) : Stepped(s)[i] = s[i]
      /\ Stepped(s)[n] = [s[n] EXCEPT !.next = @ + 1]
  BY <1>1, <1>2
<1>4. Len(Stepped(s)) = n
  <2> DEFINE R == {Stepped(s)[i] : i \in 1..n}
  <2>1. Stepped(s) \in [1..n -> R]
    BY <1>2
  <2> HIDE DEF R
  <2>2. Stepped(s) \in Seq(R)
    BY <1>1, <2>1, SeqDef
  <2> QED BY <1>1, <1>3, <2>2
<1>5. \A B : (\A i \in 1..n : Stepped(s)[i] \in B) => Stepped(s) \in Seq(B)
  <2> SUFFICES ASSUME NEW B, \A i \in 1..n : Stepped(s)[i] \in B PROVE Stepped(s) \in Seq(B)
    OBVIOUS
  <2>1. Stepped(s) \in [1..n -> B]
    BY <1>2
  <2> QED BY <1>1, <2>1, SeqDef
<1> QED BY <1>1, <1>3, <1>4, <1>5 DEF n

LEMMA FrontFacts ==
  ASSUME NEW A, NEW s \in Seq(A), s # <<>>
  PROVE  /\ Front(s) \in Seq(A) /\ Len(Front(s)) = Len(s) - 1 /\ Len(s) \in Nat \ {0}
         /\ \A i \in 1..(Len(s) - 1) : Front(s)[i] = s[i]
         /\ Last(s) = s[Len(s)] /\ Last(s) \in A
BY DEF Front, Last

LEMMA PushFacts ==
  ASSUME NEW A, NEW B, NEW s \in Seq(A), NEW f \in B, A \subseteq B
  PROVE  /\ Append(s, f) \in Seq(B) /\ Len(Append(s, f)) = Len(s) + 1 /\ Len(s) \in Nat
         /\ \A i \in 1..Len(s) : Append(s, f)[i] = s[i]
         /\ Append(s, f)[Len(s) + 1] = f
<1>1. s \in Seq(B)
  OBVIOUS
<1> QED BY <1>1

LEMMA PutFacts ==
  ASSUME NEW k, NEW v, buckets' = Put(k, v)
  PROVE  /\ DOMAIN buckets' = DOMAIN buckets \cup {k}
         /\ buckets'[k] = Append(Bucket(k), v)
         /\ \A j \in DOMAIN buckets : j # k => buckets'[j] = buckets[j]
         /\ \A j : j # k => Bucket(j)' = Bucket(j)
         /\ buckets' = [j \in DOMAIN buckets' |-> buckets'[j]]
<1>1. /\ DOMAIN buckets' = DOMAIN buckets \cup {k}
      /\ buckets'[k] = Append(Bucket(k), v)
      /\ \A j \in DOMAIN buckets : j # k => buckets'[j] = buckets[j]
      /\ buckets' = [j \in DOMAIN buckets' |-> buckets'[j]]
  BY DEF Put
<1>2. \A j : j # k => Bucket(j)' = Bucket(j)
  BY <1>1 DEF Bucket
<1> QED BY <1>1, <1>2

BucketOK(k) ==
    /\ k[1] \in DOMAIN table /\ k[2] \in 0..Len(Holes(table[k[1]].text))
    /\ buckets[k] \in Seq(Seq(Char))

BucketsOK ==
    /\ DOMAIN buckets \subseteq Nat \X Nat
    /\ buckets = [k \in DOMAIN buckets |-> buckets[k]]
    /\ \A k \in DOMAIN buckets : BucketOK(k)

LEMMA BucketsGrow ==
  ASSUME BucketsOK, SameTables, NEW a \in DOMAIN table', NEW b \in Nat, a \in Nat,
         b \in 0..Len(Holes(table'[a].text)), NEW v \in Seq(Char), buckets' = Put(<<a, b>>, v)
  PROVE  BucketsOK'
<1> DEFINE k == <<a, b>>
<1>1. k[1] = a /\ k[2] = b /\ k \in Nat \X Nat
  OBVIOUS
<1> HIDE DEF k
<1>2. buckets' = Put(k, v)
  BY DEF k
<1>3. /\ DOMAIN buckets' = DOMAIN buckets \cup {k}
      /\ buckets'[k] = Append(Bucket(k), v)
      /\ \A j \in DOMAIN buckets : j # k => buckets'[j] = buckets[j]
      /\ buckets' = [j \in DOMAIN buckets' |-> buckets'[j]]
  BY <1>2, PutFacts
<1>4. Append(Bucket(k), v) \in Seq(Seq(Char))
  <2> DEFINE C == Seq(Char)
  <2>1. Bucket(k) \in Seq(C) /\ v \in C
    BY DEF Bucket, BucketsOK, BucketOK
  <2> HIDE DEF C
  <2>2. Append(Bucket(k), v) \in Seq(C)
    BY <2>1
  <2> QED BY <2>2 DEF C
<1>5. \A j \in DOMAIN buckets' :
         /\ j[1] \in DOMAIN table' /\ j[2] \in 0..Len(Holes(table'[j[1]].text))
         /\ buckets'[j] \in Seq(Seq(Char))
  <2> TAKE j \in DOMAIN buckets'
  <2>1. CASE j = k
    <3>1. buckets'[j] \in Seq(Seq(Char))
      BY <2>1, <1>3, <1>4
    <3>2. j[1] = a /\ j[2] = b
      BY <2>1, <1>1
    <3> QED BY <3>1, <3>2
  <2>2. CASE j # k
    <3>1. j \in DOMAIN buckets /\ buckets'[j] = buckets[j]
      BY <2>2, <1>3
    <3>2. BucketOK(j)
      BY <3>1 DEF BucketsOK
    <3> QED BY <3>1, <3>2 DEF BucketOK, SameTables
  <2> QED BY <2>1, <2>2
<1>6. DOMAIN buckets' \subseteq Nat \X Nat
  BY <1>1, <1>3 DEF BucketsOK
<1> QED BY <1>3, <1>5, <1>6 DEF BucketsOK, BucketOK

LEMMA BucketsKept ==
  ASSUME BucketsOK, SameTables, buckets' = buckets
  PROVE  BucketsOK'
<1>1. \A j \in DOMAIN buckets :
         /\ j[1] \in DOMAIN table' /\ j[2] \in 0..Len(Holes(table'[j[1]].text))
         /\ buckets[j] \in Seq(Seq(Char))
  BY DEF BucketsOK, BucketOK, SameTables
<1> QED BY <1>1 DEF BucketsOK, BucketOK

\* WriteTo and ReadColumn change no bucket.
LEMMA TransferSame ==
  ASSUME BucketsOK, Transfer
  PROVE  buckets' = buckets
<1>1. buckets' = [k \in DOMAIN buckets |-> Carried(buckets[k])]
  BY DEF Transfer
<1>2. \A k \in DOMAIN buckets : Carried(buckets[k]) = buckets[k]
  BY CarriedSame DEF BucketsOK, BucketOK
<1>3. [k \in DOMAIN buckets |-> Carried(buckets[k])] = [k \in DOMAIN buckets |-> buckets[k]]
  BY <1>2
<1> QED BY <1>1, <1>3 DEF BucketsOK

\* The calls of encodeNode under way: each node one level below its caller's.
EncStack(s) ==
    /\ s \in Seq(NodeFrame) /\ Len(s) <= MaxCascadeDepth + 1
    /\ \A j \in 1..Len(s) : /\ table[s[j].code].id = s[j].node.id
                            /\ AtLevel(s[j].node, j - 1)

\* The calls of render: each caller is at a placeholder of its text.
DecStack ==
    /\ stack \in Seq(RenderFrame)
    /\ \A j \in 1..(Len(stack) - 1) :
          stack[j].next <= Len(Holes(Reread(table[stack[j].code].text)))
    /\ stack # <<>> => rows # <<>>

CursorOK ==
    /\ read = [sub |-> read.sub, unm |-> read.unm, pos |-> read.pos]
    /\ read.sub \in 0..Len(subIDs) /\ read.unm \in 0..Len(unmatched)
    /\ IF pc \in {"decode", "done"}
       THEN /\ read.pos \in [DOMAIN buckets -> Nat]
            /\ \A k \in DOMAIN buckets : read.pos[k] <= Len(buckets[k])
       ELSE read = [sub |-> 0, unm |-> 0, pos |-> [k \in {} |-> 0]]

StackOK ==
    IF pc = "encode" THEN EncStack(stack) ELSE IF pc = "decode" THEN DecStack ELSE stack = <<>>

PhaseOK ==
    /\ lines \in Blocks
    /\ pc \in {"profile", "encode", "transfer", "decode", "done"}
    /\ IF pc = "profile" THEN table = <<>> ELSE folded = Fold(Profile(lines))

TypeInv ==
    /\ IInv /\ PhaseOK /\ EntriesOK /\ BucketsOK /\ StackOK /\ CursorOK
    /\ unmatched \in Seq(ToSet(lines)) /\ rows \in Seq(Seq(Char))

-----------------------------------------------------------------------------
LEMMA TableSeq ==
  ASSUME TableOK PROVE Len(table) \in Nat /\ DOMAIN table = 1..Len(table)
BY DEF TableOK

\* The stack while the table grows under it.
LEMMA EncStackKept ==
  ASSUME NEW s, EncStack(s), SameTables, UNCHANGED lines
  PROVE  EncStack(s)'
<1>1. BlockNodes' = BlockNodes
  BY DEF BlockNodes
<1>2. \A n, d : AtLevel(n, d)' = AtLevel(n, d)
  BY DEF AtLevel
<1>3. s \in Seq(NodeFrame)
  BY DEF EncStack
<1>4. NodeFrame \subseteq NodeFrame'
  BY <1>1 DEF NodeFrame, SameTables
<1>5. s \in Seq(NodeFrame')
  BY <1>3, <1>4, SeqMonotonic
<1>6. \A j \in 1..Len(s) : s[j].code \in DOMAIN table
  <2> TAKE j \in 1..Len(s)
  <2>1. s[j] \in NodeFrame
    BY <1>3
  <2> QED BY <2>1 DEF NodeFrame
<1>7. \A j \in 1..Len(s) : table'[s[j].code].id = s[j].node.id /\ AtLevel(s[j].node, j - 1)
  BY <1>6 DEF EncStack, SameTables
<1> QED BY <1>2, <1>5, <1>7 DEF EncStack

LEMMA Entering ==
  ASSUME TableOK, EntriesOK, BucketsOK, BlockOK, NEW n \in BlockNodes, NEW callers,
         EncStack(callers), AtLevel(n, Len(callers)), Len(callers) <= MaxCascadeDepth,
         Enter(n, callers), UNCHANGED <<lines, folded>>, FoldedRight(n), TableOK'
  PROVE  EntriesOK' /\ BucketsOK' /\ EncStack(stack)' /\ SameTables
<1>1. /\ EntriesOK' /\ SameTables
      /\ CodeFor(n) \in DOMAIN table' /\ table'[CodeFor(n)].id = n.id
  BY CodedEntries DEF Enter
<1>2. BlockNodes' = BlockNodes
  BY DEF BlockNodes
<1>3. BucketsOK'
  <2>1. CASE n.suffix
    <3>1. buckets' = Put(<<CodeFor(n), 0>>, n.prefix)
      BY <2>1 DEF Enter
    <3>2. n.prefix \in Seq(Char)
      BY NodeFacts
    <3>3. CodeFor(n) \in Nat
      <4>1. DOMAIN table' = 1..Len(table')
        BY DEF TableOK
      <4> QED BY <1>1, <4>1
    <3>4. 0 \in 0..Len(Holes(table'[CodeFor(n)].text))
      <4>1. PICK m \in BlockNodes' : /\ table'[CodeFor(n)].id = m.id
                                     /\ table'[CodeFor(n)].text = Specialised(m)'
        BY <1>1 DEF EntriesOK, Made
      <4>2. \A q : Specialised(q)' = Specialised(q)
        BY DEF Specialised, IsFolded
      <4>3. m \in BlockNodes /\ m.id = n.id /\ table'[CodeFor(n)].text = Specialised(m)
        BY <1>1, <1>2, <4>1, <4>2
      <4>4. Specialised(m) = Specialised(n)
        BY <4>3, OneTextPerID
      <4>5. Len(Holes(Specialised(n))) \in Nat
        BY SpecialisedFacts
      <4> QED BY <4>3, <4>4, <4>5
    <3> QED BY <3>1, <3>2, <3>3, <3>4, <1>1, BucketsGrow
  <2>2. CASE ~n.suffix
    <3>1. buckets' = buckets
      BY <2>2 DEF Enter
    <3> QED BY <3>1, <1>1, BucketsKept
  <2> QED BY <2>1, <2>2
<1>4. EncStack(stack)'
  <2> DEFINE f == [code |-> CodeFor(n), node |-> n, next |-> 1]
  <2>1. stack' = Append(callers, f)
    BY DEF Enter
  <2>2. EncStack(callers)'
    BY <1>1, EncStackKept
  <2>3. f \in NodeFrame'
    BY <1>1, <1>2 DEF NodeFrame
  <2>4. f.code = CodeFor(n) /\ f.node = n
    OBVIOUS
  <2> HIDE DEF f
  <2>5. callers \in Seq(NodeFrame')
    BY <2>2 DEF EncStack
  <2>6. /\ Append(callers, f) \in Seq(NodeFrame') /\ Len(Append(callers, f)) = Len(callers) + 1
        /\ Len(callers) \in Nat
        /\ \A i \in 1..Len(callers) : Append(callers, f)[i] = callers[i]
        /\ Append(callers, f)[Len(callers) + 1] = f
    BY <2>3, <2>5, PushFacts
  <2>7. \A q, d : AtLevel(q, d)' = AtLevel(q, d)
    BY DEF AtLevel
  <2>8. \A j \in 1..Len(stack') : /\ table'[stack'[j].code].id = stack'[j].node.id
                                  /\ AtLevel(stack'[j].node, j - 1)
    <3> TAKE j \in 1..Len(stack')
    <3>1. CASE j \in 1..Len(callers)
      <4>1. stack'[j] = callers[j]
        BY <2>1, <2>6, <3>1
      <4>2. table'[callers[j].code].id = callers[j].node.id /\ AtLevel(callers[j].node, j - 1)
        BY <2>2, <2>7, <3>1 DEF EncStack
      <4> QED BY <4>1, <4>2
    <3>2. CASE j = Len(callers) + 1
      <4>1. stack'[j] = f /\ j - 1 = Len(callers)
        BY <2>1, <2>6, <3>2
      <4> QED BY <4>1, <2>4, <1>1
    <3> QED BY <3>1, <3>2, <2>1, <2>6
  <2>9. stack' \in Seq(NodeFrame') /\ Len(stack') <= MaxCascadeDepth + 1
    <3>1. MaxCascadeDepth \in Nat
      BY CascadeAssumption
    <3> QED BY <3>1, <2>1, <2>6
  <2> QED BY <2>7, <2>8, <2>9 DEF EncStack
<1> QED BY <1>1, <1>3, <1>4

LEMMA TopFacts ==
  ASSUME EncStack(stack), stack # <<>>
  PROVE  /\ Top = [code |-> Top.code, node |-> Top.node, next |-> Top.next]
         /\ Top.code \in DOMAIN table /\ table[Top.code].id = Top.node.id
         /\ Top.node \in BlockNodes /\ AtLevel(Top.node, Len(stack) - 1)
         /\ Top.next \in Nat \ {0} /\ Len(stack) \in 1..(MaxCascadeDepth + 1)
<1>1. stack \in Seq(NodeFrame) /\ Len(stack) \in Nat \ {0}
  BY EmptySeq DEF EncStack
<1>2. stack[Len(stack)] \in NodeFrame
  BY <1>1
<1>3. Len(stack) \in 1..Len(stack)
  BY <1>1
<1>4. table[Top.code].id = Top.node.id /\ AtLevel(Top.node, Len(stack) - 1)
  BY <1>3 DEF EncStack, Top
<1>5. /\ Top = [code |-> Top.code, node |-> Top.node, next |-> Top.next]
      /\ Top.code \in DOMAIN table /\ Top.node \in BlockNodes /\ Top.next \in Nat \ {0}
  BY <1>2 DEF Top, NodeFrame
<1>6. Len(stack) \in 1..(MaxCascadeDepth + 1)
  BY <1>1, CascadeAssumption DEF EncStack
<1> QED BY <1>4, <1>5, <1>6

LEMMA AdvancedFacts ==
  ASSUME EncStack(stack), stack # <<>>
  PROVE  /\ EncStack(Advanced) /\ Len(Advanced) = Len(stack)
         /\ \A i \in 1..(Len(stack) - 1) : Advanced[i] = stack[i]
         /\ Advanced[Len(stack)] = [code |-> Top.code, node |-> Top.node, next |-> Top.next + 1]
<1>1. stack \in Seq(NodeFrame) /\ Advanced = Stepped(stack)
  BY DEF EncStack, Advanced, Stepped
<1>2. /\ Len(Stepped(stack)) = Len(stack) /\ Len(stack) \in Nat \ {0}
      /\ \A i \in 1..(Len(stack) - 1) : Stepped(stack)[i] = stack[i]
      /\ Stepped(stack)[Len(stack)] = [stack[Len(stack)] EXCEPT !.next = @ + 1]
      /\ \A B : (\A i \in 1..Len(stack) : Stepped(stack)[i] \in B) => Stepped(stack) \in Seq(B)
  BY <1>1, SteppedFacts
<1> DEFINE f == [code |-> Top.code, node |-> Top.node, next |-> Top.next + 1]
<1>3. /\ Top = [code |-> Top.code, node |-> Top.node, next |-> Top.next]
      /\ Top.code \in DOMAIN table /\ Top.node \in BlockNodes /\ Top.next \in Nat \ {0}
      /\ table[Top.code].id = Top.node.id /\ AtLevel(Top.node, Len(stack) - 1)
  BY TopFacts
<1>4. Advanced[Len(stack)] = f
  <2>1. Advanced[Len(stack)] = [Top EXCEPT !.next = Top.next + 1]
    BY <1>1, <1>2 DEF Top
  <2> QED BY <2>1, <1>3
<1>5. f \in NodeFrame
  BY <1>3 DEF NodeFrame
<1>6. f.code = Top.code /\ f.node = Top.node
  OBVIOUS
<1> HIDE DEF f
<1>7. \A i \in 1..Len(stack) : Advanced[i] \in NodeFrame
  <2> TAKE i \in 1..Len(stack)
  <2>1. CASE i = Len(stack)
    BY <2>1, <1>4, <1>5
  <2>2. CASE i # Len(stack)
    <3>1. i \in 1..(Len(stack) - 1)
      BY <2>2, <1>2
    <3> QED BY <3>1, <1>1, <1>2
  <2> QED BY <2>1, <2>2
<1>8. Advanced \in Seq(NodeFrame)
  BY <1>1, <1>2, <1>7
<1>9. \A j \in 1..Len(stack) : /\ table[Advanced[j].code].id = Advanced[j].node.id
                               /\ AtLevel(Advanced[j].node, j - 1)
  <2> TAKE j \in 1..Len(stack)
  <2>1. CASE j = Len(stack)
    BY <2>1, <1>3, <1>4, <1>6
  <2>2. CASE j # Len(stack)
    <3>1. j \in 1..(Len(stack) - 1)
      BY <2>2, <1>2
    <3>2. Advanced[j] = stack[j]
      BY <3>1, <1>1, <1>2
    <3> QED BY <3>2 DEF EncStack
  <2> QED BY <2>1, <2>2
<1>10. EncStack(Advanced)
  BY <1>1, <1>2, <1>8, <1>9 DEF EncStack
<1> QED BY <1>1, <1>2, <1>4, <1>10 DEF f

LEMMA EncFront ==
  ASSUME EncStack(stack), stack # <<>>
  PROVE  /\ EncStack(Front(stack)) /\ Len(Front(stack)) = Len(stack) - 1
         /\ \A i \in 1..(Len(stack) - 1) : Front(stack)[i] = stack[i]
<1>1. stack \in Seq(NodeFrame)
  BY DEF EncStack
<1>2. /\ Front(stack) \in Seq(NodeFrame) /\ Len(Front(stack)) = Len(stack) - 1
      /\ Len(stack) \in Nat \ {0}
      /\ \A i \in 1..(Len(stack) - 1) : Front(stack)[i] = stack[i]
  BY <1>1, FrontFacts
<1>3. \A j \in 1..Len(Front(stack)) : /\ table[Front(stack)[j].code].id = Front(stack)[j].node.id
                                      /\ AtLevel(Front(stack)[j].node, j - 1)
  <2> TAKE j \in 1..Len(Front(stack))
  <2>1. Front(stack)[j] = stack[j] /\ j \in 1..Len(stack)
    BY <1>2
  <2> QED BY <2>1 DEF EncStack
<1>4. Len(Front(stack)) <= MaxCascadeDepth + 1
  BY <1>2, CascadeAssumption DEF EncStack
<1> QED BY <1>2, <1>3, <1>4 DEF EncStack

\* A slot the encoder comes to.
LEMMA SlotFacts ==
  ASSUME BlockOK, EncStack(stack), EncodingParam
  PROVE  /\ Top.next \in 1..Len(Top.node.params) /\ Top.next \in DOMAIN Top.node.params
         /\ IsNode(Slot) => /\ Slot \in BlockNodes /\ AtLevel(Slot, Len(stack))
                            /\ Len(stack) <= MaxCascadeDepth
         /\ ~IsNode(Slot) => Slot.value \in Seq(Char)
<1>1. stack # <<>> /\ Top.next <= Len(Top.node.params)
  BY DEF EncodingParam
<1>2. /\ Top.node \in BlockNodes /\ AtLevel(Top.node, Len(stack) - 1)
      /\ Top.next \in Nat \ {0} /\ Len(stack) \in 1..(MaxCascadeDepth + 1)
  BY <1>1, TopFacts
<1>3. Len(Top.node.params) \in Nat /\ DOMAIN Top.node.params = 1..Len(Top.node.params)
  BY <1>2, ParamsLen
<1>4. Top.next \in DOMAIN Top.node.params
  BY <1>1, <1>2, <1>3
<1>5. ASSUME IsNode(Slot)
      PROVE  Slot \in BlockNodes /\ AtLevel(Slot, Len(stack)) /\ Len(stack) <= MaxCascadeDepth
  <2> DEFINE d == Len(stack) - 1
  <2>1. d \in 0..MaxCascadeDepth /\ d + 1 = Len(stack)
    BY <1>2, CascadeAssumption
  <2> HIDE DEF d
  <2>2. IsNode(Top.node.params[Top.next]) /\ AtLevel(Top.node, d)
    BY <1>2, <1>5 DEF Slot, d
  <2>3. d + 1 \in 0..MaxCascadeDepth /\ AtLevel(Top.node.params[Top.next], d + 1)
    BY <1>4, <2>1, <2>2, ChildAtLevel
  <2>4. Slot \in BlockNodes
    BY <1>2, <1>4, <1>5, NodeFacts DEF Slot
  <2> QED BY <2>1, <2>3, <2>4 DEF Slot
<1>6. ASSUME ~IsNode(Slot) PROVE Slot.value \in Seq(Char)
  BY <1>2, <1>4, <1>6, NodeFacts DEF Slot
<1> QED BY <1>1, <1>2, <1>3, <1>4, <1>5, <1>6

\* While the encoder runs the cursor is at zero, and the block and its fold stay.
LEMMA EncodeStays ==
  ASSUME TypeInv, IInv', pc = "encode", pc' = "encode", UNCHANGED <<lines, folded, read, rows>>,
         EntriesOK', BucketsOK', EncStack(stack)', unmatched' \in Seq(ToSet(lines))
  PROVE  TypeInv'
<1>1. PhaseOK'
  <2>1. lines \in Blocks /\ folded = Fold(Profile(lines))
    BY DEF TypeInv, PhaseOK
  <2> QED BY <2>1 DEF PhaseOK
<1>2. StackOK'
  BY DEF StackOK
<1>3. CursorOK'
  <2>1. read = [sub |-> 0, unm |-> 0, pos |-> [k \in {} |-> 0]]
    BY DEF TypeInv, CursorOK
  <2>2. read' = [sub |-> 0, unm |-> 0, pos |-> [k \in {} |-> 0]]
    BY <2>1
  <2> DEFINE none == [k \in {} |-> 0]
  <2> HIDE DEF none
  <2>3. read' = [sub |-> 0, unm |-> 0, pos |-> none]
    BY <2>2 DEF none
  <2>4. Len(subIDs') \in Nat /\ Len(unmatched') \in Nat
    BY DEF IInv, StreamsOK
  <2>5. read'.sub = 0 /\ read'.unm = 0 /\ read'.pos = none
    BY <2>3
  <2> QED BY <2>3, <2>4, <2>5 DEF CursorOK, none
<1> QED BY <1>1, <1>2, <1>3 DEF TypeInv

LEMMA TypedEncoding ==
  ASSUME TypeInv, pc = "encode"
  PROVE  /\ BlockOK /\ EncStack(stack) /\ TableOK /\ EntriesOK /\ BucketsOK
         /\ \A n \in BlockNodes : FoldedRight(n)
<1>1. lines \in Blocks /\ folded = Fold(Profile(lines))
  BY DEF TypeInv, PhaseOK
<1> QED BY <1>1, BlockFacts, FoldIsRight DEF TypeInv, StackOK, IInv

LEMMA RowResolved ==
  ASSUME TypeInv, pc = "encode", Len(rowIDs) < Len(lines)
  PROVE  /\ lines[Len(rowIDs) + 1] \in ToSet(lines)
         /\ \A n \in Resolved[lines[Len(rowIDs) + 1]] : n \in BlockNodes /\ AtLevel(n, 0)
<1>1. BlockOK
  BY TypedEncoding
<1>2. lines \in Seq(Seq(Char)) /\ Len(rowIDs) \in Nat
  BY <1>1 DEF BlockOK, TypeInv, IInv, StreamsOK
<1>3. lines[Len(rowIDs) + 1] \in ToSet(lines)
  BY <1>2 DEF ToSet
<1>4. \A n \in Resolved[lines[Len(rowIDs) + 1]] : AtLevel(n, 0)
  BY <1>1, <1>3, RootAtLevel
<1>5. 0 \in 0..MaxCascadeDepth
  BY CascadeAssumption
<1>6. \A n : AtLevel(n, 0) => n \in BlockNodes
  BY <1>1, <1>5, NodesAreAtLevels
<1> QED BY <1>3, <1>4, <1>6

LEMMA TypeMatched ==
  ASSUME TypeInv, IInv', EncodeMatched
  PROVE  TypeInv'
<1>1. /\ pc = "encode" /\ pc' = "encode" /\ stack = <<>> /\ Len(rowIDs) < Len(lines)
      /\ UNCHANGED <<lines, folded, read, rows, unmatched>>
  BY DEF EncodeMatched, EncodingRow
<1>2. PICK n \in Resolved[lines[Len(rowIDs) + 1]] : Enter(n, <<>>)
  BY DEF EncodeMatched
<1>3. n \in BlockNodes /\ AtLevel(n, 0)
  BY <1>1, RowResolved
<1>4. BlockOK /\ EncStack(stack) /\ TableOK /\ EntriesOK /\ BucketsOK /\ FoldedRight(n)
  BY <1>1, <1>3, TypedEncoding
<1>5. Len(<<>>) = 0 /\ 0 <= MaxCascadeDepth
  BY CascadeAssumption
<1>6. EncStack(<<>>) /\ AtLevel(n, Len(<<>>)) /\ Len(<<>>) <= MaxCascadeDepth
  BY <1>1, <1>3, <1>4, <1>5
<1>7. TableOK' /\ UNCHANGED <<lines, folded>>
  BY <1>1 DEF IInv
<1> DEFINE nobody == <<>>
<1>8. EncStack(nobody) /\ AtLevel(n, Len(nobody)) /\ Len(nobody) <= MaxCascadeDepth
      /\ Enter(n, nobody)
  BY <1>2, <1>6
<1> HIDE DEF nobody
<1>9. EntriesOK' /\ BucketsOK' /\ EncStack(stack)'
  BY <1>3, <1>4, <1>7, <1>8, Entering
<1>10. unmatched' \in Seq(ToSet(lines))
  BY <1>1 DEF TypeInv
<1> QED BY <1>1, <1>9, <1>10, EncodeStays

LEMMA TypeUnmatched ==
  ASSUME TypeInv, IInv', EncodeUnmatched
  PROVE  TypeInv'
<1>1. /\ pc = "encode" /\ pc' = "encode" /\ Len(rowIDs) < Len(lines)
      /\ UNCHANGED <<lines, folded, read, rows, table, buckets, stack>>
      /\ unmatched' = Append(unmatched, lines[Len(rowIDs) + 1])
  BY DEF EncodeUnmatched, EncodingRow
<1>2. EncStack(stack) /\ EntriesOK /\ BucketsOK
  BY <1>1, TypedEncoding
<1>3. EntriesOK' /\ SameTables
  BY <1>1, <1>2, TableKept
<1>4. EncStack(stack)'
  BY <1>1, <1>2, <1>3, EncStackKept
<1>5. BucketsOK'
  BY <1>1, <1>2, <1>3, BucketsKept
<1>6. unmatched' \in Seq(ToSet(lines))
  <2>1. unmatched \in Seq(ToSet(lines)) /\ lines[Len(rowIDs) + 1] \in ToSet(lines)
    BY <1>1, RowResolved DEF TypeInv
  <2> QED BY <1>1, <2>1
<1> QED BY <1>1, <1>3, <1>4, <1>5, <1>6, EncodeStays

LEMMA TypeEncodeNode ==
  ASSUME TypeInv, IInv', EncodeNode
  PROVE  TypeInv'
<1>1. /\ pc = "encode" /\ pc' = "encode" /\ EncodingParam /\ IsNode(Slot) /\ stack # <<>>
      /\ UNCHANGED <<lines, folded, read, rows, unmatched>> /\ Enter(Slot, Advanced)
  BY DEF EncodeNode, EncodingParam
<1>2. BlockOK /\ EncStack(stack) /\ TableOK /\ EntriesOK /\ BucketsOK
  BY <1>1, TypedEncoding
<1>3. Slot \in BlockNodes /\ AtLevel(Slot, Len(stack)) /\ Len(stack) <= MaxCascadeDepth
  BY <1>1, <1>2, SlotFacts
<1>4. EncStack(Advanced) /\ Len(Advanced) = Len(stack)
  BY <1>1, <1>2, AdvancedFacts
<1>5. FoldedRight(Slot) /\ TableOK' /\ UNCHANGED <<lines, folded>>
  BY <1>1, <1>3, TypedEncoding DEF IInv
<1>6. \E n \in BlockNodes : n = Slot
  BY <1>3
<1>7. PICK n \in BlockNodes : n = Slot
  BY <1>6
<1> DEFINE callers == Advanced
<1>8. EncStack(callers) /\ AtLevel(n, Len(callers)) /\ Len(callers) <= MaxCascadeDepth
      /\ Enter(n, callers) /\ FoldedRight(n)
  BY <1>1, <1>3, <1>4, <1>5, <1>7
<1> HIDE DEF callers
<1>9. EntriesOK' /\ BucketsOK' /\ EncStack(stack)'
  BY <1>2, <1>5, <1>8, Entering
<1>10. unmatched' \in Seq(ToSet(lines))
  BY <1>1 DEF TypeInv
<1> QED BY <1>1, <1>9, <1>10, EncodeStays

LEMMA TypeEncodeFolded ==
  ASSUME TypeInv, IInv', EncodeFolded
  PROVE  TypeInv'
<1>1. /\ pc = "encode" /\ pc' = "encode" /\ EncodingParam /\ stack # <<>> /\ stack' = Advanced
      /\ UNCHANGED <<lines, folded, read, rows, table, buckets, unmatched>>
  BY DEF EncodeFolded, EncodingParam, column
<1>2. EncStack(stack) /\ EntriesOK /\ BucketsOK
  BY <1>1, TypedEncoding
<1>3. EntriesOK' /\ SameTables
  BY <1>1, <1>2, TableKept
<1> DEFINE s == stack'
<1>4. EncStack(s)
  BY <1>1, <1>2, AdvancedFacts
<1>5. EncStack(stack)'
  BY <1>1, <1>3, <1>4, EncStackKept DEF EncStack
<1>6. BucketsOK'
  BY <1>1, <1>2, <1>3, BucketsKept
<1>7. unmatched' \in Seq(ToSet(lines))
  BY <1>1 DEF TypeInv
<1> QED BY <1>1, <1>3, <1>5, <1>6, <1>7, EncodeStays

LEMMA EmptyCursor ==
  ASSUME NEW c, c = [sub |-> 0, unm |-> 0, pos |-> [k \in {} |-> 0]]
  PROVE  /\ c = [sub |-> c.sub, unm |-> c.unm, pos |-> c.pos]
         /\ c.sub = 0 /\ c.unm = 0
         /\ \A p : [c EXCEPT !.pos = p] = [sub |-> 0, unm |-> 0, pos |-> p]
<1> DEFINE none == [k \in {} |-> 0]
<1> HIDE DEF none
<1>1. c = [sub |-> 0, unm |-> 0, pos |-> none]
  BY DEF none
<1> QED BY <1>1

\* The codes and slots a leaf of the innermost call is written under.
LEMMA LeafKey ==
  ASSUME TypeInv, EncodingParam
  PROVE  LET c == CompactSlot(Top.node.id, Top.next) IN
         /\ Top.code \in DOMAIN table /\ Top.code \in Nat /\ c \in Nat
         /\ c \in 0..Len(Holes(table[Top.code].text))
<1> DEFINE n == Top.node
           c == CompactSlot(n.id, Top.next)
<1>1. pc = "encode" /\ stack # <<>> /\ Top.next <= Len(n.params)
  BY DEF EncodingParam
<1>2. BlockOK /\ EncStack(stack) /\ TableOK /\ EntriesOK
  BY <1>1, TypedEncoding
<1>3. /\ Top.code \in DOMAIN table /\ table[Top.code].id = n.id /\ n \in BlockNodes
      /\ Top.next \in Nat \ {0} /\ FoldedRight(n)
  BY <1>1, <1>2, TopFacts, TypedEncoding
<1>4. Top.code \in Nat
  BY <1>2, <1>3, TableSeq
<1>5. table[Top.code].text = Specialised(n)
  BY <1>2, <1>3, EntryText
<1>6. /\ Len(Holes(Specialised(n))) = CompactSlot(n.id, Len(n.params))
      /\ Len(n.params) \in Nat
  BY <1>2, <1>3, SpecialisedFacts, ParamsLen
<1>7. c \in Nat /\ CompactSlot(n.id, Len(n.params)) \in Nat
  BY <1>3, <1>6, CompactFacts
<1>8. c <= CompactSlot(n.id, Len(n.params))
  BY <1>1, <1>3, <1>6, CompactMonotone
<1> HIDE DEF c
<1>9. c \in 0..Len(Holes(table[Top.code].text))
  BY <1>5, <1>6, <1>7, <1>8
<1> QED BY <1>3, <1>4, <1>7, <1>9 DEF c

LEMMA TypeEncodeLeaf ==
  ASSUME TypeInv, IInv', EncodeLeaf
  PROVE  TypeInv'
<1> DEFINE c == CompactSlot(Top.node.id, Top.next)
<1>1. /\ pc = "encode" /\ pc' = "encode" /\ EncodingParam /\ ~IsNode(Slot) /\ stack # <<>>
      /\ stack' = Advanced
      /\ UNCHANGED <<lines, folded, read, rows, table, unmatched>>
      /\ buckets' = Put(<<Top.code, c>>, Slot.value)
  BY DEF EncodeLeaf, EncodingParam
<1>2. EncStack(stack) /\ EntriesOK /\ BucketsOK /\ BlockOK
  BY <1>1, TypedEncoding
<1>3. EntriesOK' /\ SameTables
  BY <1>1, <1>2, TableKept
<1>4. EncStack(stack)'
  <2> DEFINE s == stack'
  <2>1. EncStack(s)
    BY <1>1, <1>2, AdvancedFacts
  <2> QED BY <1>1, <1>3, <2>1, EncStackKept DEF EncStack
<1>5. BucketsOK'
  <2>1. /\ Top.code \in DOMAIN table /\ Top.code \in Nat /\ c \in Nat
        /\ c \in 0..Len(Holes(table[Top.code].text))
    BY <1>1, LeafKey
  <2>2. Slot.value \in Seq(Char)
    BY <1>1, <1>2, SlotFacts
  <2>3. table' = table
    BY <1>1
  <2> DEFINE a == Top.code
             v == Slot.value
  <2>4. /\ a \in DOMAIN table' /\ a \in Nat /\ c \in Nat
        /\ c \in 0..Len(Holes(table'[a].text)) /\ v \in Seq(Char)
        /\ buckets' = Put(<<a, c>>, v)
    BY <1>1, <2>1, <2>2, <2>3
  <2> HIDE DEF a, c, v
  <2> QED BY <1>2, <1>3, <2>4, BucketsGrow
<1>6. unmatched' \in Seq(ToSet(lines))
  BY <1>1 DEF TypeInv
<1> QED BY <1>1, <1>3, <1>4, <1>5, <1>6, EncodeStays

LEMMA TypeEncodeReturn ==
  ASSUME TypeInv, IInv', EncodeReturn
  PROVE  TypeInv'
<1>1. /\ pc = "encode" /\ pc' = "encode" /\ stack # <<>> /\ stack' = Front(stack)
      /\ UNCHANGED <<lines, folded, read, rows, table, buckets, unmatched>>
  BY DEF EncodeReturn, column
<1>2. EncStack(stack) /\ EntriesOK /\ BucketsOK
  BY <1>1, TypedEncoding
<1>3. EntriesOK' /\ SameTables
  BY <1>1, <1>2, TableKept
<1>4. EncStack(stack)'
  <2> DEFINE s == stack'
  <2>1. EncStack(s)
    BY <1>1, <1>2, EncFront
  <2> QED BY <1>1, <1>3, <2>1, EncStackKept DEF EncStack
<1>5. BucketsOK'
  BY <1>1, <1>2, <1>3, BucketsKept
<1>6. unmatched' \in Seq(ToSet(lines))
  BY <1>1 DEF TypeInv
<1> QED BY <1>1, <1>3, <1>4, <1>5, <1>6, EncodeStays

LEMMA TypeEncodeDone ==
  ASSUME TypeInv, IInv', EncodeDone
  PROVE  TypeInv'
<1>1. /\ pc = "encode" /\ pc' = "transfer" /\ stack = <<>>
      /\ UNCHANGED <<lines, folded, read, rows, rowIDs, table, subIDs, buckets, unmatched, stack>>
  BY DEF EncodeDone, column
<1>2. EntriesOK /\ BucketsOK
  BY <1>1, TypedEncoding
<1>3. EntriesOK' /\ SameTables
  BY <1>1, <1>2, TableKept
<1>4. BucketsOK'
  BY <1>1, <1>2, <1>3, BucketsKept
<1>5. PhaseOK' /\ StackOK'
  BY <1>1 DEF TypeInv, PhaseOK, StackOK
<1>6. CursorOK'
  BY <1>1 DEF TypeInv, CursorOK
<1>7. unmatched' \in Seq(ToSet(lines')) /\ rows' \in Seq(Seq(Char))
  BY <1>1 DEF TypeInv
<1> QED BY <1>3, <1>4, <1>5, <1>6, <1>7 DEF TypeInv

LEMMA TypeProfile ==
  ASSUME TypeInv, IInv', ProfileBlock
  PROVE  TypeInv'
<1>1. /\ pc = "profile" /\ pc' = "encode" /\ folded' = Fold(Profile(lines))
      /\ UNCHANGED <<lines, read, rows, rowIDs, table, subIDs, buckets, unmatched, stack>>
  BY DEF ProfileBlock, column
<1>2. table = <<>> /\ lines \in Blocks /\ stack = <<>>
  BY <1>1 DEF TypeInv, PhaseOK, StackOK
<1>3. DOMAIN table = {} /\ table' = table
  BY <1>1, <1>2
<1>4. EntriesOK' /\ SameTables
  BY <1>3 DEF EntriesOK, SameTables
<1>5. BucketsOK'
  BY <1>1, <1>4, BucketsKept DEF TypeInv
<1>6. PhaseOK'
  <2>1. Profile(lines)' = Profile(lines)
    BY <1>1 DEF Profile
  <2>2. folded' = Fold(Profile(lines))'
    BY <1>1, <2>1 DEF Fold
  <2> QED BY <1>1, <1>2, <2>2 DEF PhaseOK
<1>7. StackOK'
  <2>1. stack' = <<>> /\ stack' \in Seq(NodeFrame') /\ Len(stack') = 0
    BY <1>1, <1>2
  <2>2. EncStack(stack)'
    BY <2>1, CascadeAssumption DEF EncStack
  <2> QED BY <1>1, <2>2 DEF StackOK
<1>8. CursorOK'
  BY <1>1 DEF TypeInv, CursorOK
<1>9. unmatched' \in Seq(ToSet(lines')) /\ rows' \in Seq(Seq(Char))
  BY <1>1 DEF TypeInv
<1> QED BY <1>4, <1>5, <1>6, <1>7, <1>8, <1>9 DEF TypeInv

LEMMA TypeTransfer ==
  ASSUME TypeInv, IInv', Transfer
  PROVE  TypeInv'
<1>1. /\ pc = "transfer" /\ pc' = "decode"
      /\ read' = [read EXCEPT !.pos = [k \in DOMAIN buckets |-> 0]]
      /\ UNCHANGED <<lines, folded, rows, rowIDs, table, subIDs, unmatched, stack>>
  BY DEF Transfer
<1>2. EntriesOK /\ BucketsOK /\ stack = <<>>
  BY <1>1 DEF TypeInv, StackOK
<1>3. buckets' = buckets
  BY <1>2, TransferSame
<1>4. EntriesOK' /\ SameTables
  BY <1>1, <1>2, TableKept
<1>5. BucketsOK'
  BY <1>2, <1>3, <1>4, BucketsKept
<1>6. PhaseOK'
  BY <1>1 DEF TypeInv, PhaseOK
<1>7. StackOK'
  <2>1. stack' = <<>> /\ stack' \in Seq(RenderFrame') /\ Len(stack') = 0
    BY <1>1, <1>2
  <2>2. DecStack'
    BY <2>1 DEF DecStack
  <2> QED BY <1>1, <2>2 DEF StackOK
<1>8. CursorOK'
  <2> DEFINE zero == [k \in DOMAIN buckets |-> 0]
  <2>1. read = [sub |-> 0, unm |-> 0, pos |-> [k \in {} |-> 0]]
    BY <1>1 DEF TypeInv, CursorOK
  <2>2. zero \in [DOMAIN buckets -> Nat] /\ \A k \in DOMAIN buckets : zero[k] = 0
    OBVIOUS
  <2> HIDE DEF zero
  <2>3. read' = [sub |-> 0, unm |-> 0, pos |-> zero]
    BY <1>1, <2>1, EmptyCursor DEF zero
  <2>4. Len(subIDs') \in Nat /\ Len(unmatched') \in Nat
    BY <1>1 DEF TypeInv, IInv, StreamsOK
  <2>5. \A k \in DOMAIN buckets : Len(buckets[k]) \in Nat
    BY <1>2 DEF BucketsOK, BucketOK
  <2>6. read'.sub = 0 /\ read'.unm = 0 /\ read'.pos = zero
    BY <2>3
  <2>7. read' = [sub |-> read'.sub, unm |-> read'.unm, pos |-> read'.pos]
    BY <2>3, <2>6
  <2>8. read'.sub \in 0..Len(subIDs') /\ read'.unm \in 0..Len(unmatched')
    BY <2>4, <2>6
  <2>9. /\ read'.pos \in [DOMAIN buckets' -> Nat]
        /\ \A k \in DOMAIN buckets' : read'.pos[k] <= Len(buckets'[k])
    BY <1>3, <2>2, <2>5, <2>6
  <2> QED BY <1>1, <2>7, <2>8, <2>9 DEF CursorOK
<1>9. unmatched' \in Seq(ToSet(lines')) /\ rows' \in Seq(Seq(Char))
  BY <1>1 DEF TypeInv
<1> QED BY <1>4, <1>5, <1>6, <1>7, <1>8, <1>9 DEF TypeInv

LEMMA TypeInitially == Init => TypeInv
<1> SUFFICES ASSUME Init PROVE TypeInv
  OBVIOUS
<1>1. /\ lines \in Blocks /\ table = <<>> /\ subIDs = <<>> /\ unmatched = <<>>
      /\ buckets = [k \in {} |-> <<>>] /\ stack = <<>> /\ rows = <<>> /\ pc = "profile"
      /\ read = [sub |-> 0, unm |-> 0, pos |-> [k \in {} |-> 0]]
  BY DEF Init
<1>2. EntriesOK
  BY <1>1 DEF EntriesOK
<1>3. BucketsOK
  BY <1>1 DEF BucketsOK
<1>4. CursorOK
  <2>1. /\ read = [sub |-> read.sub, unm |-> read.unm, pos |-> read.pos]
        /\ read.sub = 0 /\ read.unm = 0
    BY <1>1, EmptyCursor
  <2> QED BY <1>1, <2>1 DEF CursorOK
<1>5. PhaseOK /\ StackOK
  BY <1>1 DEF PhaseOK, StackOK
<1>6. unmatched \in Seq(ToSet(lines)) /\ rows \in Seq(Seq(Char))
  BY <1>1
<1> QED BY <1>2, <1>3, <1>4, <1>5, <1>6, CountsInitially DEF TypeInv

\* A cursor within the streams.
CursorAt(c) ==
    /\ c = [sub |-> c.sub, unm |-> c.unm, pos |-> c.pos]
    /\ c.sub \in 0..Len(subIDs) /\ c.unm \in 0..Len(unmatched)
    /\ c.pos \in [DOMAIN buckets -> Nat]
    /\ \A k \in DOMAIN buckets : c.pos[k] <= Len(buckets[k])

LEMMA TakeLeaf ==
  ASSUME BucketsOK, NEW c, CursorAt(c), NEW k \in DOMAIN buckets, c.pos[k] < Len(buckets[k])
  PROVE  LET e == [c EXCEPT !.pos[k] = @ + 1] IN
         /\ CursorAt(e) /\ e.sub = c.sub /\ e.unm = c.unm
         /\ e.pos[k] = c.pos[k] + 1 /\ \A j \in DOMAIN buckets : j # k => e.pos[j] = c.pos[j]
         /\ buckets[k][c.pos[k] + 1] \in Seq(Char)
<1> DEFINE p == [j \in DOMAIN buckets |-> IF j = k THEN c.pos[j] + 1 ELSE c.pos[j]]
           e == [c EXCEPT !.pos[k] = @ + 1]
<1>1. /\ c = [sub |-> c.sub, unm |-> c.unm, pos |-> c.pos]
      /\ c.pos \in [DOMAIN buckets -> Nat]
      /\ \A j \in DOMAIN buckets : c.pos[j] <= Len(buckets[j])
  BY DEF CursorAt
<1>2. [c.pos EXCEPT ![k] = @ + 1] = p
  BY <1>1
<1>3. e = [c EXCEPT !.pos = [c.pos EXCEPT ![k] = @ + 1]]
  OBVIOUS
<1>4. /\ p \in [DOMAIN buckets -> Nat] /\ p[k] = c.pos[k] + 1
      /\ \A j \in DOMAIN buckets : j # k => p[j] = c.pos[j]
  BY <1>1
<1> HIDE DEF p, e
<1>5. e = [sub |-> c.sub, unm |-> c.unm, pos |-> p]
  BY <1>1, <1>2, <1>3
<1>6. buckets[k] \in Seq(Seq(Char))
  BY DEF BucketsOK, BucketOK
<1>7. Len(buckets[k]) \in Nat /\ c.pos[k] \in Nat
  BY <1>1, <1>6
<1>8. \A j \in DOMAIN buckets : p[j] <= Len(buckets[j])
  <2> TAKE j \in DOMAIN buckets
  <2>1. CASE j = k
    BY <2>1, <1>4, <1>7
  <2>2. CASE j # k
    BY <2>2, <1>1, <1>4
  <2> QED BY <2>1, <2>2
<1>9. buckets[k][c.pos[k] + 1] \in Seq(Char)
  <2> DEFINE A == Seq(Char)
             s == buckets[k]
             i == c.pos[k] + 1
  <2>1. s \in Seq(A) /\ i \in 1..Len(s)
    BY <1>6, <1>7
  <2> HIDE DEF A, s, i
  <2>2. s[i] \in A
    BY <2>1
  <2> QED BY <2>2 DEF A, s, i
<1>10. e.sub = c.sub /\ e.unm = c.unm /\ e.pos = p
  BY <1>5
<1>11. CursorAt(e)
  BY <1>4, <1>5, <1>8, <1>10 DEF CursorAt
<1> QED BY <1>4, <1>9, <1>10, <1>11 DEF e

LEMMA TakeSub ==
  ASSUME StreamsOK, NEW c, CursorAt(c), c.sub + 1 \in DOMAIN subIDs
  PROVE  LET e == [c EXCEPT !.sub = @ + 1] IN
         CursorAt(e) /\ e.sub = c.sub + 1 /\ e.unm = c.unm /\ e.pos = c.pos
<1> DEFINE e == [c EXCEPT !.sub = @ + 1]
<1>1. c = [sub |-> c.sub, unm |-> c.unm, pos |-> c.pos]
  BY DEF CursorAt
<1>2. e = [sub |-> c.sub + 1, unm |-> c.unm, pos |-> c.pos]
  BY <1>1
<1> HIDE DEF e
<1>3. e.sub = c.sub + 1 /\ e.unm = c.unm /\ e.pos = c.pos
  BY <1>2
<1>4. DOMAIN subIDs = 1..Len(subIDs) /\ Len(subIDs) \in Nat
  BY DEF StreamsOK
<1>5. c.sub \in Nat
  BY <1>4 DEF CursorAt
<1>6. CursorAt(e)
  BY <1>2, <1>3, <1>4, <1>5 DEF CursorAt
<1> QED BY <1>3, <1>6 DEF e

LEMMA TakeUnmatched ==
  ASSUME NEW c, CursorAt(c), c.unm < Len(unmatched), Len(unmatched) \in Nat
  PROVE  LET e == [c EXCEPT !.unm = @ + 1] IN
         CursorAt(e) /\ e.sub = c.sub /\ e.unm = c.unm + 1 /\ e.pos = c.pos
<1> DEFINE e == [c EXCEPT !.unm = @ + 1]
<1>1. c = [sub |-> c.sub, unm |-> c.unm, pos |-> c.pos]
  BY DEF CursorAt
<1>2. e = [sub |-> c.sub, unm |-> c.unm + 1, pos |-> c.pos]
  BY <1>1
<1> HIDE DEF e
<1>3. e.sub = c.sub /\ e.unm = c.unm + 1 /\ e.pos = c.pos
  BY <1>2
<1>6. CursorAt(e)
  BY <1>2, <1>3 DEF CursorAt
<1> QED BY <1>3, <1>6 DEF e

-----------------------------------------------------------------------------
\* More of the row under way.
Emitted(r, s) == [r EXCEPT ![Len(r)] = @ \o s]

LEMMA EmittedFacts ==
  ASSUME NEW r \in Seq(Seq(Char)), r # <<>>, NEW s \in Seq(Char)
  PROVE  /\ Emitted(r, s) \in Seq(Seq(Char)) /\ Len(Emitted(r, s)) = Len(r)
         /\ Len(r) \in Nat \ {0} /\ Emitted(r, s) # <<>>
         /\ \A i \in 1..(Len(r) - 1) : Emitted(r, s)[i] = r[i]
         /\ Emitted(r, s)[Len(r)] = r[Len(r)] \o s
<1> DEFINE C == Seq(Char)
           x == r[Len(r)] \o s
<1>1. Len(r) \in Nat \ {0} /\ r \in Seq(C)
  BY EmptySeq
<1>2. x \in C
  <2>1. r[Len(r)] \in C
    <3> HIDE DEF C
    <3> QED BY <1>1
  <2> QED BY <2>1
<1>3. Emitted(r, s) = [r EXCEPT ![Len(r)] = x]
  BY DEF Emitted
<1> HIDE DEF C, x
<1>4. /\ Emitted(r, s) \in Seq(C) /\ Len(Emitted(r, s)) = Len(r)
      /\ \A i \in 1..(Len(r) - 1) : Emitted(r, s)[i] = r[i]
      /\ Emitted(r, s)[Len(r)] = x
  BY <1>1, <1>2, <1>3
<1>5. Emitted(r, s) # <<>>
  <2>1. Len(<<>>) = 0
    OBVIOUS
  <2> QED BY <2>1, <1>1, <1>4
<1> QED BY <1>1, <1>4, <1>5 DEF C, x

LEMMA DecodeStays ==
  ASSUME TypeInv, pc = "decode", pc' = "decode", UNCHANGED <<lines, folded, column>>,
         DecStack', CursorAt(read'), rows' \in Seq(Seq(Char))
  PROVE  TypeInv'
<1>1. UNCHANGED <<rowIDs, table, subIDs, buckets, unmatched>>
  BY DEF column
<1>2. IInv'
  BY <1>1 DEF TypeInv, IInv, TableOK, StreamsOK, CountsUses
<1>3. EntriesOK' /\ SameTables
  BY <1>1, TableKept DEF TypeInv
<1>4. BucketsOK'
  BY <1>1, <1>3, BucketsKept DEF TypeInv
<1>5. PhaseOK' /\ StackOK'
  BY DEF TypeInv, PhaseOK, StackOK
<1>6. CursorOK'
  BY <1>1 DEF CursorAt, CursorOK
<1>7. unmatched' \in Seq(ToSet(lines'))
  BY <1>1 DEF TypeInv
<1> QED BY <1>2, <1>3, <1>4, <1>5, <1>6, <1>7 DEF TypeInv

LEMMA TypedDecoding ==
  ASSUME TypeInv, pc = "decode"
  PROVE  /\ BlockOK /\ TableOK /\ StreamsOK /\ EntriesOK /\ BucketsOK /\ DecStack
         /\ CursorAt(read) /\ rows \in Seq(Seq(Char)) /\ Len(unmatched) \in Nat
         /\ DOMAIN table = 1..Len(table) /\ Len(table) \in Nat
         /\ \A n \in BlockNodes : FoldedRight(n)
<1>1. lines \in Blocks /\ folded = Fold(Profile(lines))
  BY DEF TypeInv, PhaseOK
<1>2. CursorAt(read)
  BY DEF TypeInv, CursorOK, CursorAt
<1>3. TableOK
  BY DEF TypeInv, IInv
<1> QED BY <1>1, <1>2, <1>3, BlockFacts, FoldIsRight, TableSeq DEF TypeInv, StackOK, IInv

LEMMA EntryFacts ==
  ASSUME TypeInv, pc = "decode", NEW k \in DOMAIN table
  PROVE  /\ \E n \in BlockNodes : Made(table[k], n)
         /\ Reread(table[k].text) \in Text /\ table[k].suffix \in BOOLEAN
         /\ \A i \in 0..Len(Holes(Reread(table[k].text))) :
               Part(Reread(table[k].text), i) \in Seq(Char)
<1>1. EntriesOK /\ BlockOK /\ \A n \in BlockNodes : FoldedRight(n)
  BY TypedDecoding
<1>2. PICK n \in BlockNodes : Made(table[k], n)
  BY <1>1 DEF EntriesOK
<1>3. Specialised(n) \in Text /\ n.suffix \in BOOLEAN
  BY <1>1, SpecialisedFacts, NodeFacts
<1>4. table[k].text \in Text /\ table[k].suffix \in BOOLEAN
  BY <1>2, <1>3 DEF Made
<1> DEFINE T == Reread(table[k].text)
<1>5. T \in Text
  BY <1>4, RereadText
<1> HIDE DEF T
<1>6. ASSUME NEW i \in 0..Len(Holes(T)) PROVE Part(T, i) \in Seq(Char)
  <2>1. T \in Seq(Char \cup {Placeholder})
    BY <1>5 DEF Text
  <2>2. /\ Part(T, i) = SubSeq(T, Opens(T, i) + 1, Shuts(T, i) - 1)
        /\ Opens(T, i) \in 0..Len(T) /\ Shuts(T, i) \in (Opens(T, i) + 1)..(Len(T) + 1)
        /\ \A m \in (Opens(T, i) + 1)..(Shuts(T, i) - 1) : T[m] # Placeholder
    BY <2>1, PartFacts
  <2> DEFINE a == Opens(T, i)
             b == Shuts(T, i) - 1
  <2>3. a \in 0..Len(T) /\ b \in a..Len(T)
    BY <2>1, <2>2
  <2>4. \A m \in (a+1)..b : T[m] \in Char
    BY <2>1, <2>2, <2>3
  <2> HIDE DEF a, b
  <2>5. SubSeq(T, a + 1, b) \in Seq(Char)
    BY <2>1, <2>3, <2>4
  <2> QED BY <2>2, <2>5 DEF a, b
<1> QED BY <1>2, <1>4, <1>5, <1>6 DEF T

\* What the start of render takes from the prefix stream.
Takes(k, needed, c, d, prefix) ==
    IF needed
    THEN /\ k \in DOMAIN buckets /\ c.pos[k] < Len(buckets[k])
         /\ prefix = buckets[k][c.pos[k] + 1] /\ d = [c EXCEPT !.pos[k] = @ + 1]
    ELSE prefix = <<>> /\ d = c

LEMMA NextLeafFacts ==
  ASSUME NEW k, NEW v \in NextLeaf(k)
  PROVE  k \in DOMAIN buckets /\ read.pos[k] < Len(buckets[k]) /\ v = buckets[k][read.pos[k] + 1]
BY DEF NextLeaf

LEMMA RenderFacts ==
  ASSUME TypeInv, pc = "decode", NEW code \in DOMAIN table, NEW callers, NEW written, NEW c,
         written \in Seq(Seq(Char)), written # <<>>, CursorAt(c), c.pos = read.pos,
         Render(code, callers, written, c)
  PROVE  /\ stack' = Append(callers, [code |-> code, next |-> 1])
         /\ CursorAt(read') /\ Part(Reread(table[code].text), 0) \in Seq(Char)
         /\ \E prefix \in Seq(Char) :
               /\ Takes(<<code, 0>>, table[code].suffix, c, read', prefix)
               /\ rows' = Emitted(written, prefix \o Part(Reread(table[code].text), 0))
<1> DEFINE t == table[code]
           k == <<code, 0>>
           part == Part(Reread(t.text), 0)
<1>1. PICK prefix \in IF t.suffix THEN NextLeaf(k) ELSE {<<>>} :
         rows' = [written EXCEPT ![Len(written)] = @ \o prefix \o part]
  BY DEF Render
<1>2. /\ stack' = Append(callers, [code |-> code, next |-> 1])
      /\ read' = IF t.suffix THEN [c EXCEPT !.pos[k] = @ + 1] ELSE c
  BY DEF Render
<1>3. BucketsOK /\ t.suffix \in BOOLEAN
  BY TypedDecoding, EntryFacts
<1>4. part \in Seq(Char)
  <2>1. /\ Reread(t.text) \in Text
        /\ \A i \in 0..Len(Holes(Reread(t.text))) : Part(Reread(t.text), i) \in Seq(Char)
    BY EntryFacts
  <2>2. Len(Holes(Reread(t.text))) \in Nat
    <3>1. Reread(t.text) \in Seq(Char \cup {Placeholder})
      BY <2>1 DEF Text
    <3> QED BY <3>1, HolesFacts
  <2> QED BY <2>1, <2>2
<1>5. prefix \in Seq(Char) /\ Takes(k, t.suffix, c, read', prefix) /\ CursorAt(read')
  <2>1. CASE t.suffix
    <3>1. k \in DOMAIN buckets /\ c.pos[k] < Len(buckets[k]) /\ prefix = buckets[k][c.pos[k] + 1]
      BY <2>1, <1>1, NextLeafFacts
    <3>2. read' = [c EXCEPT !.pos[k] = @ + 1]
      BY <2>1, <1>2
    <3> HIDE DEF k, t
    <3>3. CursorAt(read') /\ prefix \in Seq(Char)
      BY <3>1, <3>2, <1>3, TakeLeaf
    <3> QED BY <2>1, <3>1, <3>2, <3>3 DEF Takes
  <2>2. CASE ~t.suffix
    <3>1. prefix = <<>> /\ read' = c
      BY <2>2, <1>1, <1>2
    <3> HIDE DEF t, k
    <3>2. prefix \in Seq(Char)
      BY <3>1
    <3> QED BY <2>2, <3>1, <3>2 DEF Takes
  <2> QED BY <2>1, <2>2, <1>3
<1>6. rows' = Emitted(written, prefix \o part)
  <2> HIDE DEF part
  <2> DEFINE C == Seq(Char)
             w == written[Len(written)]
  <2>1. w \in C
    <3>1. Len(written) \in 1..Len(written) /\ written \in Seq(C)
      BY EmptySeq
    <3> HIDE DEF C
    <3> QED BY <3>1
  <2>2. (w \o prefix) \o part = w \o (prefix \o part)
    <3>1. w \in Seq(Char) /\ prefix \in Seq(Char) /\ part \in Seq(Char)
      BY <2>1, <1>4, <1>5
    <3> HIDE DEF w
    <3> QED BY <3>1
  <2>3. rows' = [written EXCEPT ![Len(written)] = (w \o prefix) \o part]
    BY <1>1
  <2>4. Emitted(written, prefix \o part) = [written EXCEPT ![Len(written)] = w \o (prefix \o part)]
    BY DEF Emitted
  <2> QED BY <2>2, <2>3, <2>4
<1> QED BY <1>2, <1>4, <1>5, <1>6

\* The calls of render grow by one.
LEMMA DecPush ==
  ASSUME NEW callers \in Seq(RenderFrame), NEW code \in DOMAIN table, UNCHANGED table,
         \A j \in 1..Len(callers) :
            callers[j].next <= Len(Holes(Reread(table[callers[j].code].text))),
         stack' = Append(callers, [code |-> code, next |-> 1]), rows' # <<>>
  PROVE  DecStack'
<1> DEFINE f == [code |-> code, next |-> 1]
<1>1. f \in RenderFrame /\ RenderFrame' = RenderFrame
  BY DEF RenderFrame
<1> HIDE DEF f
<1>2. stack' = Append(callers, f)
  BY DEF f
<1>3. /\ stack' \in Seq(RenderFrame) /\ Len(stack') = Len(callers) + 1 /\ Len(callers) \in Nat
      /\ \A i \in 1..Len(callers) : stack'[i] = callers[i]
  BY <1>1, <1>2
<1>4. \A j \in 1..(Len(stack') - 1) :
         stack'[j].next <= Len(Holes(Reread(table'[stack'[j].code].text)))
  BY <1>3
<1> QED BY <1>1, <1>3, <1>4 DEF DecStack

\* The innermost call of render, where it has more to do.
LEMMA DecTop ==
  ASSUME TypeInv, pc = "decode", stack # <<>>
  PROVE  /\ stack \in Seq(RenderFrame) /\ Len(stack) \in Nat \ {0}
         /\ Top = [code |-> Top.code, next |-> Top.next] /\ Top = stack[Len(stack)]
         /\ Top.code \in DOMAIN table /\ Top.next \in Nat \ {0} /\ rows # <<>>
         /\ TopText \in Text /\ Len(Holes(TopText)) \in Nat
         /\ \A i \in 0..Len(Holes(TopText)) : Part(TopText, i) \in Seq(Char)
<1>1. stack \in Seq(RenderFrame) /\ Len(stack) \in Nat \ {0} /\ rows # <<>>
  BY TypedDecoding, EmptySeq DEF DecStack
<1>2. stack[Len(stack)] \in RenderFrame
  BY <1>1
<1>3. /\ Top = [code |-> Top.code, next |-> Top.next] /\ Top = stack[Len(stack)]
      /\ Top.code \in DOMAIN table /\ Top.next \in Nat \ {0}
  BY <1>2 DEF RenderFrame, Top
<1>4. /\ TopText \in Text
      /\ \A i \in 0..Len(Holes(TopText)) : Part(TopText, i) \in Seq(Char)
  BY <1>3, EntryFacts DEF TopText
<1>5. Len(Holes(TopText)) \in Nat
  <2>1. TopText \in Seq(Char \cup {Placeholder})
    BY <1>4 DEF Text
  <2> QED BY <2>1, HolesFacts
<1> QED BY <1>1, <1>3, <1>4, <1>5

\* A frame that goes on, with its callers as they are.
LEMMA DecStep ==
  ASSUME NEW s \in Seq(RenderFrame), s # <<>>, UNCHANGED table,
         \A j \in 1..(Len(s) - 1) : s[j].next <= Len(Holes(Reread(table[s[j].code].text))),
         stack' = Stepped(s), rows' # <<>>
  PROVE  /\ DecStack' /\ Len(stack') = Len(s)
         /\ stack'[Len(s)] = [code |-> s[Len(s)].code, next |-> s[Len(s)].next + 1]
<1>1. /\ Len(Stepped(s)) = Len(s) /\ Len(s) \in Nat \ {0}
      /\ \A i \in 1..(Len(s) - 1) : Stepped(s)[i] = s[i]
      /\ Stepped(s)[Len(s)] = [s[Len(s)] EXCEPT !.next = @ + 1]
      /\ \A B : (\A i \in 1..Len(s) : Stepped(s)[i] \in B) => Stepped(s) \in Seq(B)
  BY SteppedFacts
<1>2. s[Len(s)] \in RenderFrame
  BY <1>1
<1> DEFINE f == s[Len(s)]
<1>3. f = [code |-> f.code, next |-> f.next] /\ f.code \in DOMAIN table /\ f.next \in Nat \ {0}
  BY <1>2 DEF RenderFrame
<1>4. Stepped(s)[Len(s)] = [code |-> f.code, next |-> f.next + 1]
  <2>1. Stepped(s)[Len(s)] = [f EXCEPT !.next = f.next + 1]
    BY <1>1
  <2> HIDE DEF f
  <2> QED BY <1>3, <2>1
<1>5. [code |-> f.code, next |-> f.next + 1] \in RenderFrame
  <2> HIDE DEF f
  <2> QED BY <1>3 DEF RenderFrame
<1> HIDE DEF f
<1>6. \A i \in 1..Len(s) : Stepped(s)[i] \in RenderFrame
  <2> TAKE i \in 1..Len(s)
  <2>1. CASE i = Len(s)
    BY <2>1, <1>4, <1>5
  <2>2. CASE i # Len(s)
    <3>1. i \in 1..(Len(s) - 1)
      BY <2>2, <1>1
    <3> QED BY <3>1, <1>1
  <2> QED BY <2>1, <2>2
<1>7. Stepped(s) \in Seq(RenderFrame)
  BY <1>1, <1>6
<1>8. RenderFrame' = RenderFrame
  BY DEF RenderFrame
<1>9. \A j \in 1..(Len(stack') - 1) :
         stack'[j].next <= Len(Holes(Reread(table'[stack'[j].code].text)))
  BY <1>1
<1>10. DecStack'
  BY <1>7, <1>8, <1>9 DEF DecStack
<1> QED BY <1>1, <1>4, <1>10 DEF f

LEMMA CodeInTable ==
  ASSUME TypeInv, pc = "decode"
  PROVE  /\ \A i \in DOMAIN rowIDs : rowIDs[i] # 0 => rowIDs[i] \in DOMAIN table
         /\ \A c \in NextSub : c # 0 => c \in DOMAIN table
         /\ \A c \in NextSub : read.sub + 1 \in DOMAIN subIDs /\ c = subIDs[read.sub + 1]
<1>1. StreamsOK /\ DOMAIN table = 1..Len(table) /\ Len(table) \in Nat
  BY TypedDecoding
<1>2. \A i \in DOMAIN rowIDs : rowIDs[i] \in 0..Len(table)
  BY <1>1 DEF StreamsOK
<1>3. \A c \in NextSub : read.sub + 1 \in DOMAIN subIDs /\ c = subIDs[read.sub + 1]
  BY DEF NextSub
<1>4. \A c \in NextSub : c \in 0..Len(table)
  BY <1>1, <1>3 DEF StreamsOK
<1> QED BY <1>1, <1>2, <1>3, <1>4

LEMMA TypeDecodeMatched ==
  ASSUME TypeInv, DecodeMatched
  PROVE  TypeInv'
<1> DEFINE code == rowIDs[Len(rows) + 1]
           callers == <<>>
           written == Append(rows, <<>>)
<1>1. /\ pc = "decode" /\ pc' = "decode" /\ stack = <<>> /\ code # 0
      /\ Len(rows) < Len(rowIDs) /\ UNCHANGED <<lines, folded, column>>
      /\ Render(code, callers, written, read)
  BY DEF DecodeMatched, DecodingRow
<1>2. /\ CursorAt(read) /\ rows \in Seq(Seq(Char)) /\ StreamsOK
  BY <1>1, TypedDecoding
<1>3. code \in DOMAIN table
  <2>1. Len(rows) + 1 \in DOMAIN rowIDs
    BY <1>1, <1>2 DEF StreamsOK
  <2> QED BY <1>1, <2>1, CodeInTable
<1>4. written \in Seq(Seq(Char)) /\ written # <<>>
  <2> DEFINE C == Seq(Char)
  <2>1. rows \in Seq(C) /\ <<>> \in C
    BY <1>2
  <2> HIDE DEF C
  <2>2. written \in Seq(C) /\ Len(written) = Len(rows) + 1 /\ Len(rows) \in Nat
    BY <2>1
  <2>3. written # <<>>
    <3> HIDE DEF written
    <3> QED BY <2>2
  <2> QED BY <2>2, <2>3 DEF C
<1>5. callers \in Seq(RenderFrame) /\ Len(callers) = 0
  OBVIOUS
<1> HIDE DEF callers, written, code
<1>6. /\ stack' = Append(callers, [code |-> code, next |-> 1]) /\ CursorAt(read')
      /\ Part(Reread(table[code].text), 0) \in Seq(Char)
      /\ \E prefix \in Seq(Char) :
               /\ Takes(<<code, 0>>, table[code].suffix, read, read', prefix)
               /\ rows' = Emitted(written, prefix \o Part(Reread(table[code].text), 0))
  BY <1>1, <1>2, <1>3, <1>4, RenderFacts
<1>7. rows' \in Seq(Seq(Char)) /\ rows' # <<>>
  <2>1. PICK prefix \in Seq(Char) :
           rows' = Emitted(written, prefix \o Part(Reread(table[code].text), 0))
    BY <1>6
  <2>2. prefix \o Part(Reread(table[code].text), 0) \in Seq(Char)
    BY <1>6
  <2> QED BY <1>4, <2>1, <2>2, EmittedFacts
<1>8. DecStack'
  <2>1. \A j \in 1..Len(callers) :
           callers[j].next <= Len(Holes(Reread(table[callers[j].code].text)))
    BY <1>5
  <2>2. UNCHANGED table
    BY <1>1 DEF column
  <2> QED BY <1>3, <1>5, <1>6, <1>7, <2>1, <2>2, DecPush
<1> QED BY <1>1, <1>6, <1>7, <1>8, DecodeStays

LEMMA TypeDecodeNode ==
  ASSUME TypeInv, DecodeNode
  PROVE  TypeInv'
<1>1. /\ pc = "decode" /\ pc' = "decode" /\ stack # <<>> /\ Top.next <= Len(Holes(TopText))
      /\ UNCHANGED <<lines, folded, column>>
  BY DEF DecodeNode, DecodingSlot
<1> DEFINE c == [read EXCEPT !.sub = @ + 1]
<1>2. PICK code \in NextSub \ {0} : Render(code, stack, rows, c)
  BY DEF DecodeNode
<1>3. code \in DOMAIN table /\ read.sub + 1 \in DOMAIN subIDs
  BY <1>1, <1>2, CodeInTable
<1>4. CursorAt(read) /\ rows \in Seq(Seq(Char)) /\ StreamsOK /\ DecStack
  BY <1>1, TypedDecoding
<1>5. CursorAt(c) /\ c.pos = read.pos
  BY <1>3, <1>4, TakeSub
<1>6. rows # <<>> /\ Top = stack[Len(stack)] /\ Len(stack) \in Nat \ {0}
  BY <1>1, DecTop
<1> DEFINE callers == stack
<1> HIDE DEF c
<1>7. /\ stack' = Append(callers, [code |-> code, next |-> 1]) /\ CursorAt(read')
      /\ Part(Reread(table[code].text), 0) \in Seq(Char)
      /\ \E prefix \in Seq(Char) :
               /\ Takes(<<code, 0>>, table[code].suffix, c, read', prefix)
               /\ rows' = Emitted(rows, prefix \o Part(Reread(table[code].text), 0))
  BY <1>1, <1>2, <1>3, <1>4, <1>5, <1>6, RenderFacts
<1>8. rows' \in Seq(Seq(Char)) /\ rows' # <<>>
  <2>1. PICK prefix \in Seq(Char) :
           rows' = Emitted(rows, prefix \o Part(Reread(table[code].text), 0))
    BY <1>7
  <2>2. prefix \o Part(Reread(table[code].text), 0) \in Seq(Char)
    BY <1>7
  <2> QED BY <1>4, <1>6, <2>1, <2>2, EmittedFacts
<1>9. /\ callers \in Seq(RenderFrame)
      /\ \A j \in 1..Len(callers) :
            callers[j].next <= Len(Holes(Reread(table[callers[j].code].text)))
  <2>1. \A j \in 1..Len(stack) : j \in 1..(Len(stack) - 1) \/ j = Len(stack)
    BY <1>6
  <2>2. stack[Len(stack)].next <= Len(Holes(Reread(table[stack[Len(stack)].code].text)))
    BY <1>1, <1>6 DEF TopText
  <2> QED BY <1>4, <2>1, <2>2 DEF DecStack
<1> HIDE DEF callers
<1>10. DecStack'
  BY <1>1, <1>3, <1>7, <1>8, <1>9, DecPush DEF column
<1> QED BY <1>1, <1>7, <1>8, <1>10, DecodeStays

LEMMA TypeDecodeUnmatched ==
  ASSUME TypeInv, DecodeUnmatched
  PROVE  TypeInv'
<1>1. /\ pc = "decode" /\ pc' = "decode" /\ stack = <<>> /\ read.unm < Len(unmatched)
      /\ rows' = Append(rows, unmatched[read.unm + 1])
      /\ read' = [read EXCEPT !.unm = @ + 1]
      /\ UNCHANGED <<lines, folded, column, stack>>
  BY DEF DecodeUnmatched, DecodingRow
<1>2. /\ CursorAt(read) /\ rows \in Seq(Seq(Char)) /\ BlockOK /\ Len(unmatched) \in Nat
  BY <1>1, TypedDecoding
<1>3. CursorAt(read')
  BY <1>1, <1>2, TakeUnmatched
<1>4. rows' \in Seq(Seq(Char))
  <2> DEFINE C == Seq(Char)
  <2>1. unmatched[read.unm + 1] \in ToSet(lines)
    BY <1>1, <1>2 DEF TypeInv, CursorAt
  <2>2. unmatched[read.unm + 1] \in C /\ rows \in Seq(C)
    BY <1>2, <2>1, LinesOfBlock
  <2> HIDE DEF C
  <2>3. rows' \in Seq(C)
    BY <1>1, <2>2
  <2> QED BY <2>3 DEF C
<1>5. DecStack'
  <2>1. stack' = <<>> /\ stack' \in Seq(RenderFrame') /\ Len(stack') = 0
    BY <1>1
  <2> QED BY <2>1 DEF DecStack
<1> QED BY <1>1, <1>3, <1>4, <1>5, DecodeStays

\* The cursor after a plain leaf.
LEMMA LeafCursor ==
  ASSUME TypeInv, pc = "decode", read.sub + 1 \in DOMAIN subIDs,
         NEW k \in DOMAIN buckets, read.pos[k] < Len(buckets[k]),
         read' = [read EXCEPT !.sub = @ + 1, !.pos[k] = @ + 1]
  PROVE  /\ CursorAt(read') /\ read'.sub = read.sub + 1 /\ read'.unm = read.unm
         /\ read'.pos[k] = read.pos[k] + 1
         /\ \A j \in DOMAIN buckets : j # k => read'.pos[j] = read.pos[j]
         /\ buckets[k][read.pos[k] + 1] \in Seq(Char)
<1> DEFINE c == [read EXCEPT !.sub = @ + 1]
<1>1. CursorAt(read) /\ StreamsOK /\ BucketsOK
  BY TypedDecoding
<1>2. CursorAt(c) /\ c.sub = read.sub + 1 /\ c.unm = read.unm /\ c.pos = read.pos
  BY <1>1, TakeSub
<1>3. read' = [c EXCEPT !.pos[k] = @ + 1]
  OBVIOUS
<1> HIDE DEF c
<1>4. c.pos[k] < Len(buckets[k])
  BY <1>2
<1> DEFINE e == [c EXCEPT !.pos[k] = @ + 1]
<1>5. /\ CursorAt(e) /\ e.sub = c.sub /\ e.unm = c.unm
      /\ e.pos[k] = c.pos[k] + 1 /\ \A j \in DOMAIN buckets : j # k => e.pos[j] = c.pos[j]
      /\ buckets[k][c.pos[k] + 1] \in Seq(Char)
  BY <1>1, <1>2, <1>4, TakeLeaf
<1> HIDE DEF e
<1>6. read' = e
  BY <1>3 DEF e
<1> QED BY <1>2, <1>5, <1>6

LEMMA TypeDecodeLeaf ==
  ASSUME TypeInv, DecodeLeaf
  PROVE  TypeInv'
<1> DEFINE k == <<Top.code, Top.next>>
<1>1. /\ pc = "decode" /\ pc' = "decode" /\ stack # <<>> /\ Top.next <= Len(Holes(TopText))
      /\ 0 \in NextSub /\ stack' = Advanced
      /\ read' = [read EXCEPT !.sub = @ + 1, !.pos[k] = @ + 1]
      /\ UNCHANGED <<lines, folded, column>>
  BY DEF DecodeLeaf, DecodingSlot
<1>2. PICK v \in NextLeaf(k) : rows' = Emit(v \o Part(TopText, Top.next))
  BY DEF DecodeLeaf
<1>3. k \in DOMAIN buckets /\ read.pos[k] < Len(buckets[k]) /\ v = buckets[k][read.pos[k] + 1]
  BY <1>2, NextLeafFacts
<1>4. read.sub + 1 \in DOMAIN subIDs
  BY <1>1, CodeInTable
<1> HIDE DEF k
<1>5. CursorAt(read') /\ v \in Seq(Char)
  BY <1>1, <1>3, <1>4, LeafCursor
<1>6. /\ stack \in Seq(RenderFrame) /\ Top.next \in Nat \ {0} /\ rows # <<>>
      /\ Len(Holes(TopText)) \in Nat
      /\ \A i \in 0..Len(Holes(TopText)) : Part(TopText, i) \in Seq(Char)
  BY <1>1, DecTop
<1>7. Part(TopText, Top.next) \in Seq(Char)
  BY <1>1, <1>6
<1>8. v \o Part(TopText, Top.next) \in Seq(Char)
  BY <1>5, <1>7
<1>9. rows' = Emitted(rows, v \o Part(TopText, Top.next)) /\ rows \in Seq(Seq(Char))
  BY <1>1, <1>2, TypedDecoding DEF Emit, Emitted
<1>10. rows' \in Seq(Seq(Char)) /\ rows' # <<>>
  BY <1>6, <1>8, <1>9, EmittedFacts
<1>11. DecStack'
  <2>1. stack' = Stepped(stack) /\ table' = table /\ DecStack
    BY <1>1, TypedDecoding DEF Advanced, Stepped, column
  <2>2. \A j \in 1..(Len(stack) - 1) :
           stack[j].next <= Len(Holes(Reread(table[stack[j].code].text)))
    BY <2>1 DEF DecStack
  <2> DEFINE s == stack
  <2>3. s \in Seq(RenderFrame) /\ s # <<>> /\ stack' = Stepped(s)
        /\ \A j \in 1..(Len(s) - 1) : s[j].next <= Len(Holes(Reread(table[s[j].code].text)))
    BY <1>1, <1>6, <2>1, <2>2
  <2> HIDE DEF s
  <2> QED BY <1>10, <2>1, <2>3, DecStep
<1> QED BY <1>1, <1>5, <1>10, <1>11, DecodeStays

LEMMA TypeDecodeReturn ==
  ASSUME TypeInv, DecodeReturn
  PROVE  TypeInv'
<1> DEFINE callers == Front(stack)
           caller == Last(callers)
<1>1. /\ pc = "decode" /\ pc' = "decode" /\ stack # <<>> /\ read' = read
      /\ UNCHANGED <<lines, folded, column>>
  BY DEF DecodeReturn
<1>2. /\ stack \in Seq(RenderFrame) /\ Len(stack) \in Nat \ {0} /\ rows # <<>>
      /\ rows \in Seq(Seq(Char)) /\ DecStack /\ CursorAt(read)
  BY <1>1, DecTop, TypedDecoding
<1>3. CursorAt(read')
  BY <1>1, <1>2
<1>4. /\ callers \in Seq(RenderFrame) /\ Len(callers) = Len(stack) - 1
      /\ \A i \in 1..(Len(stack) - 1) : callers[i] = stack[i]
  BY <1>1, <1>2, FrontFacts
<1>5. CASE callers = <<>>
  <2>1. stack' = <<>> /\ rows' = rows
    BY <1>5 DEF DecodeReturn
  <2>2. stack' \in Seq(RenderFrame') /\ Len(stack') = 0
    BY <2>1
  <2>3. DecStack'
    BY <2>1, <2>2 DEF DecStack
  <2> QED BY <1>1, <1>2, <1>3, <2>1, <2>3, DecodeStays
<1>6. CASE callers # <<>>
  <2>1. /\ stack' = [callers EXCEPT ![Len(callers)].next = @ + 1]
        /\ rows' = Emit(Part(Reread(table[caller.code].text), caller.next))
    BY <1>6 DEF DecodeReturn
  <2>2. stack' = Stepped(callers)
    BY <2>1 DEF Stepped
  <2>3. \A j \in 1..Len(callers) :
           callers[j].next <= Len(Holes(Reread(table[callers[j].code].text)))
    BY <1>2, <1>4 DEF DecStack
  <2> DEFINE part == Part(Reread(table[caller.code].text), caller.next)
  <2> HIDE DEF callers
  <2>4. Len(callers) \in Nat \ {0} /\ caller = callers[Len(callers)]
    BY <1>4, <1>6, EmptySeq DEF Last
  <2>5. caller \in RenderFrame
    BY <1>4, <2>4
  <2>6. part \in Seq(Char)
    <3>1. caller.code \in DOMAIN table /\ caller.next \in Nat
      BY <2>5 DEF RenderFrame
    <3>2. caller.next <= Len(Holes(Reread(table[caller.code].text)))
      BY <2>3, <2>4
    <3>3. /\ Reread(table[caller.code].text) \in Text
          /\ \A i \in 0..Len(Holes(Reread(table[caller.code].text))) :
                Part(Reread(table[caller.code].text), i) \in Seq(Char)
      BY <1>1, <3>1, EntryFacts
    <3>4. Len(Holes(Reread(table[caller.code].text))) \in Nat
      <4>1. Reread(table[caller.code].text) \in Seq(Char \cup {Placeholder})
        BY <3>3 DEF Text
      <4> QED BY <4>1, HolesFacts
    <3> HIDE DEF caller
    <3> QED BY <3>1, <3>2, <3>3, <3>4
  <2>7. rows' \in Seq(Seq(Char)) /\ rows' # <<>>
    <3>1. rows' = Emitted(rows, part)
      BY <2>1 DEF Emit, Emitted
    <3> QED BY <3>1, <2>6, <1>2, EmittedFacts
  <2>8. DecStack'
    <3>1. table' = table
      BY <1>1 DEF column
    <3>2. \A j \in 1..(Len(callers) - 1) :
             callers[j].next <= Len(Holes(Reread(table[callers[j].code].text)))
      BY <2>3, <2>4
    <3> QED BY <1>4, <1>6, <2>2, <2>7, <3>1, <3>2, DecStep
  <2> QED BY <1>1, <1>3, <2>7, <2>8, DecodeStays
<1> QED BY <1>5, <1>6

LEMMA TypeDecodeDone ==
  ASSUME TypeInv, IInv', DecodeDone
  PROVE  TypeInv'
<1>1. /\ pc = "decode" /\ pc' = "done" /\ stack = <<>>
      /\ UNCHANGED <<lines, folded, rowIDs, table, subIDs, buckets, unmatched, stack, read, rows>>
  BY DEF DecodeDone, column
<1>2. EntriesOK' /\ SameTables
  BY <1>1, TableKept DEF TypeInv
<1>3. BucketsOK'
  BY <1>1, <1>2, BucketsKept DEF TypeInv
<1>4. PhaseOK' /\ StackOK'
  BY <1>1 DEF TypeInv, PhaseOK, StackOK
<1>5. CursorOK'
  BY <1>1 DEF TypeInv, CursorOK
<1>6. unmatched' \in Seq(ToSet(lines')) /\ rows' \in Seq(Seq(Char))
  BY <1>1 DEF TypeInv
<1> QED BY <1>2, <1>3, <1>4, <1>5, <1>6 DEF TypeInv

LEMMA TypeStutter ==
  ASSUME TypeInv, IInv', UNCHANGED vars
  PROVE  TypeInv'
<1>1. UNCHANGED <<lines, folded, rowIDs, table, subIDs, buckets, unmatched, stack, read, rows, pc>>
  BY DEF vars, column
<1>2. EntriesOK' /\ SameTables
  BY <1>1, TableKept DEF TypeInv
<1>3. BucketsOK'
  BY <1>1, <1>2, BucketsKept DEF TypeInv
<1>4. PhaseOK'
  <2>1. Profile(lines)' = Profile(lines)
    BY <1>1 DEF Profile
  <2>2. Fold(Profile(lines))' = Fold(Profile(lines))
    BY <2>1 DEF Fold
  <2> QED BY <1>1, <2>2 DEF TypeInv, PhaseOK
<1>5. StackOK'
  <2>1. CASE pc = "encode"
    <3> DEFINE s == stack'
    <3>1. EncStack(s)
      BY <1>1, <2>1 DEF TypeInv, StackOK
    <3>2. EncStack(stack)'
      BY <1>1, <1>2, <3>1, EncStackKept DEF EncStack
    <3> QED BY <1>1, <2>1, <3>2 DEF StackOK
  <2>2. CASE pc = "decode"
    <3>1. RenderFrame' = RenderFrame
      BY <1>1 DEF RenderFrame
    <3>2. DecStack'
      BY <1>1, <2>2, <3>1 DEF TypeInv, StackOK, DecStack
    <3> QED BY <1>1, <2>2, <3>2 DEF StackOK
  <2>3. CASE pc # "encode" /\ pc # "decode"
    BY <1>1, <2>3 DEF TypeInv, StackOK
  <2> QED BY <2>1, <2>2, <2>3
<1>6. CursorOK'
  BY <1>1 DEF TypeInv, CursorOK
<1>7. unmatched' \in Seq(ToSet(lines')) /\ rows' \in Seq(Seq(Char))
  BY <1>1 DEF TypeInv
<1> QED BY <1>2, <1>3, <1>4, <1>5, <1>6, <1>7 DEF TypeInv

LEMMA TypeInductive == TypeInv /\ [Next]_vars => TypeInv'
<1> SUFFICES ASSUME TypeInv, [Next]_vars PROVE TypeInv'
  OBVIOUS
<1>1. IInv'
  BY CountsInductive DEF TypeInv
<1>2. CASE ProfileBlock
  BY <1>1, <1>2, TypeProfile
<1>3. CASE EncodeMatched
  BY <1>1, <1>3, TypeMatched
<1>4. CASE EncodeUnmatched
  BY <1>1, <1>4, TypeUnmatched
<1>5. CASE EncodeNode
  BY <1>1, <1>5, TypeEncodeNode
<1>6. CASE EncodeFolded
  BY <1>1, <1>6, TypeEncodeFolded
<1>7. CASE EncodeLeaf
  BY <1>1, <1>7, TypeEncodeLeaf
<1>8. CASE EncodeReturn
  BY <1>1, <1>8, TypeEncodeReturn
<1>9. CASE EncodeDone
  BY <1>1, <1>9, TypeEncodeDone
<1>10. CASE Transfer
  BY <1>1, <1>10, TypeTransfer
<1>11. CASE DecodeMatched
  BY <1>11, TypeDecodeMatched
<1>12. CASE DecodeUnmatched
  BY <1>12, TypeDecodeUnmatched
<1>13. CASE DecodeLeaf
  BY <1>13, TypeDecodeLeaf
<1>14. CASE DecodeNode
  BY <1>14, TypeDecodeNode
<1>15. CASE DecodeReturn
  BY <1>15, TypeDecodeReturn
<1>16. CASE DecodeDone
  BY <1>1, <1>16, TypeDecodeDone
<1>17. CASE UNCHANGED vars
  BY <1>1, <1>17, TypeStutter
<1> QED BY <1>2, <1>3, <1>4, <1>5, <1>6, <1>7, <1>8, <1>9, <1>10, <1>11, <1>12, <1>13, <1>14, <1>15,
     <1>16, <1>17 DEF Next

LEMMA TypeInvTypes == TypeInv => TypeOK
<1> SUFFICES ASSUME TypeInv PROVE TypeOK
  OBVIOUS
<1>1. /\ lines \in Blocks /\ pc \in {"profile", "encode", "transfer", "decode", "done"}
      /\ rowIDs \in Seq(0..Len(table)) /\ subIDs \in Seq(0..Len(table))
      /\ unmatched \in Seq(ToSet(lines)) /\ rows \in Seq(Seq(Char))
  BY DEF TypeInv, PhaseOK, IInv, StreamsOK
<1>2. \A k \in DOMAIN buckets : /\ k[1] \in DOMAIN table
                                /\ k[2] \in 0..Len(Holes(table[k[1]].text))
                                /\ buckets[k] \in Seq(Seq(Char))
  BY DEF TypeInv, BucketsOK, BucketOK
<1>3. stack \in IF pc = "encode" THEN Seq(NodeFrame) ELSE Seq(RenderFrame)
  <2>1. CASE pc = "encode"
    BY <2>1 DEF TypeInv, StackOK, EncStack
  <2>2. CASE pc = "decode"
    BY <2>2 DEF TypeInv, StackOK, DecStack
  <2>3. CASE pc # "encode" /\ pc # "decode"
    <3>1. stack = <<>>
      BY <2>3 DEF TypeInv, StackOK
    <3> QED BY <2>3, <3>1
  <2> QED BY <2>1, <2>2, <2>3
<1>4. read.sub \in 0..Len(subIDs) /\ read.unm \in 0..Len(unmatched)
  BY DEF TypeInv, CursorOK
<1>5. \A k \in DOMAIN read.pos : read.pos[k] \in 0..Len(buckets[k])
  <2>1. CASE pc \in {"decode", "done"}
    <3>1. /\ read.pos \in [DOMAIN buckets -> Nat]
          /\ \A k \in DOMAIN buckets : read.pos[k] <= Len(buckets[k])
      BY <2>1 DEF TypeInv, CursorOK
    <3>2. \A k \in DOMAIN buckets : Len(buckets[k]) \in Nat
      BY <1>2
    <3> QED BY <3>1, <3>2
  <2>2. CASE pc \notin {"decode", "done"}
    <3>1. read = [sub |-> 0, unm |-> 0, pos |-> [k \in {} |-> 0]]
      BY <2>2 DEF TypeInv, CursorOK
    <3>2. DOMAIN read.pos = {}
      BY <3>1
    <3> QED BY <3>2
  <2> QED BY <2>1, <2>2
<1> QED BY <1>1, <1>2, <1>3, <1>4, <1>5 DEF TypeOK

(***************************************************************************)
(* For every catalog, dictionary and block: every code is in the table,    *)
(* every bucket belongs to a slot of its entry's text, every cursor stays  *)
(* within its stream, the unmatched lines are lines of the block.          *)
(***************************************************************************)
THEOREM ColumnTyped == Spec => []TypeOK
<1> QED BY TypeInitially, TypeInductive, TypeInvTypes, PTL DEF Spec

\* A point of the encoding as the decoder will come to it: the row, the
\* nodes under way with the placeholder of each that is next, and how much
\* of every stream is before it.
View(s) ==
    [j \in 1..Len(s) |->
        [node |-> s[j].node,
         next |-> CompactSlot(s[j].node.id, s[j].next - 1) + IF j = Len(s) THEN 1 ELSE 0]]

Lengths == [k \in Nat \X Nat |-> Len(Bucket(k))]

Here(s) ==
    [row |-> Len(rowIDs), frames |-> View(s), sub |-> Len(subIDs), unm |-> Len(unmatched),
     pos |-> Lengths]

\* From c to d the decoder takes v from the stream k.
Gets(c, d, k, v) ==
    /\ k \in DOMAIN buckets /\ c.pos[k] < Len(buckets[k]) /\ buckets[k][c.pos[k] + 1] = v
    /\ d.pos = [c.pos EXCEPT ![k] = @ + 1]

Starts(c, d, code, n, callers) ==
    /\ code \in DOMAIN table /\ table[code].id = n.id /\ n \in BlockNodes
    /\ d.frames = Append(callers, [node |-> n, next |-> 1])
    /\ IF n.suffix THEN Gets(c, d, <<code, 0>>, n.prefix) ELSE d.pos = c.pos

RowMatched(c, d) ==
    /\ c.frames = <<>> /\ c.row < Len(rowIDs) /\ rowIDs[c.row + 1] # 0
    /\ \E n \in Resolved[lines[c.row + 1]] : Starts(c, d, rowIDs[c.row + 1], n, <<>>)
    /\ d.row = c.row + 1 /\ d.sub = c.sub /\ d.unm = c.unm

RowUnmatched(c, d) ==
    /\ c.frames = <<>> /\ c.row < Len(rowIDs) /\ rowIDs[c.row + 1] = 0
    /\ c.unm < Len(unmatched) /\ unmatched[c.unm + 1] = lines[c.row + 1]
    /\ d.row = c.row + 1 /\ d.frames = <<>> /\ d.sub = c.sub /\ d.unm = c.unm + 1
    /\ d.pos = c.pos

TopOf(c) == c.frames[Len(c.frames)]

\* The slot of a node behind the M-th placeholder of its specialised text.
IsSlot(n, k, M) == k \in DOMAIN n.params /\ ~IsFolded(n.id, k) /\ CompactSlot(n.id, k) = M

SlotLeaf(c, d) ==
    /\ c.frames # <<>> /\ c.sub < Len(subIDs) /\ subIDs[c.sub + 1] = 0
    /\ \E k : /\ IsSlot(TopOf(c).node, k, TopOf(c).next) /\ ~IsNode(TopOf(c).node.params[k])
              /\ \E code \in DOMAIN table :
                    /\ table[code].id = TopOf(c).node.id
                    /\ Gets(c, d, <<code, TopOf(c).next>>, TopOf(c).node.params[k].value)
    /\ d.frames = Stepped(c.frames) /\ d.row = c.row /\ d.sub = c.sub + 1 /\ d.unm = c.unm

SlotNode(c, d) ==
    /\ c.frames # <<>> /\ c.sub < Len(subIDs)
    /\ \E k : /\ IsSlot(TopOf(c).node, k, TopOf(c).next) /\ IsNode(TopOf(c).node.params[k])
              /\ Starts(c, d, subIDs[c.sub + 1], TopOf(c).node.params[k], c.frames)
    /\ d.row = c.row /\ d.sub = c.sub + 1 /\ d.unm = c.unm

Popped(frames) == IF Len(frames) = 1 THEN <<>> ELSE Stepped(Front(frames))

Returns(c, d) ==
    /\ c.frames # <<>> /\ TopOf(c).next > CompactSlot(TopOf(c).node.id, Len(TopOf(c).node.params))
    /\ d.frames = Popped(c.frames)
    /\ d.row = c.row /\ d.sub = c.sub /\ d.unm = c.unm /\ d.pos = c.pos

Follows(c, d) ==
    \/ RowMatched(c, d) \/ RowUnmatched(c, d)
    \/ SlotLeaf(c, d) \/ SlotNode(c, d) \/ Returns(c, d)

-----------------------------------------------------------------------------
(* What follows what does not change while the streams grow. *)
Longer(a, b) ==
    Len(a) \in Nat /\ Len(b) \in Nat /\ Len(a) <= Len(b) /\ \A i \in 1..Len(a) : b[i] = a[i]

Grown ==
    /\ UNCHANGED <<lines, folded>> /\ SameTables
    /\ Longer(rowIDs, rowIDs') /\ Longer(subIDs, subIDs') /\ Longer(unmatched, unmatched')
    /\ \A k \in DOMAIN buckets : k \in DOMAIN buckets' /\ Longer(buckets[k], buckets'[k])

ConfigOK(c) ==
    /\ c.row \in Nat /\ c.sub \in Nat /\ c.unm \in Nat
    /\ c.pos \in [Nat \X Nat -> Nat]
    /\ c.frames \in Seq([node : BlockNodes, next : Nat]) /\ Len(c.frames) <= MaxCascadeDepth + 1

LEMMA LongerAt ==
  ASSUME NEW a, NEW b, Longer(a, b), NEW i \in Nat, i < Len(a)
  PROVE  i < Len(b) /\ b[i+1] = a[i+1]
<1>1. i + 1 \in 1..Len(a) /\ i < Len(b)
  BY DEF Longer
<1> QED BY <1>1 DEF Longer

LEMMA GetsStays ==
  ASSUME Grown, BucketsOK, NEW c, c.pos \in [Nat \X Nat -> Nat], NEW d, NEW k, NEW v,
         Gets(c, d, k, v)
  PROVE  Gets(c, d, k, v)'
<1>1. k \in DOMAIN buckets /\ c.pos[k] < Len(buckets[k]) /\ buckets[k][c.pos[k] + 1] = v
  BY DEF Gets
<1>2. k \in DOMAIN buckets' /\ Longer(buckets[k], buckets'[k])
  BY <1>1 DEF Grown
<1>3. c.pos[k] \in Nat
  BY <1>1 DEF BucketsOK
<1>4. c.pos[k] + 1 \in 1..Len(buckets[k]) /\ c.pos[k] < Len(buckets'[k])
  BY <1>1, <1>2, <1>3 DEF Longer
<1>5. buckets'[k][c.pos[k] + 1] = v
  BY <1>1, <1>2, <1>4 DEF Longer
<1> QED BY <1>2, <1>4, <1>5 DEF Gets

LEMMA StartsStays ==
  ASSUME Grown, BucketsOK, NEW c, c.pos \in [Nat \X Nat -> Nat], NEW d, NEW code, NEW n,
         NEW callers, Starts(c, d, code, n, callers)
  PROVE  Starts(c, d, code, n, callers)'
<1>1. BlockNodes' = BlockNodes
  BY DEF Grown, BlockNodes
<1>2. code \in DOMAIN table' /\ table'[code].id = n.id
  BY DEF Starts, Grown, SameTables
<1>3. CASE n.suffix
  <2>1. Gets(c, d, <<code, 0>>, n.prefix)
    BY <1>3 DEF Starts
  <2> DEFINE k == <<code, 0>>
             v == n.prefix
  <2>2. Gets(c, d, k, v)
    BY <2>1
  <2> HIDE DEF k, v
  <2>3. Gets(c, d, k, v)'
    BY <2>2, GetsStays
  <2> QED BY <1>1, <1>2, <1>3, <2>3 DEF Starts, k, v
<1>4. CASE ~n.suffix
  BY <1>1, <1>2, <1>4 DEF Starts
<1> QED BY <1>3, <1>4

LEMMA FollowsStays ==
  ASSUME Grown, BucketsOK, NEW c, ConfigOK(c), NEW d, Follows(c, d)
  PROVE  Follows(c, d)'
<1>1. /\ c.row \in Nat /\ c.sub \in Nat /\ c.unm \in Nat /\ c.pos \in [Nat \X Nat -> Nat]
  BY DEF ConfigOK
<1>2. \A id, k : IsFolded(id, k)' = IsFolded(id, k) /\ CompactSlot(id, k)' = CompactSlot(id, k)
  BY DEF Grown, IsFolded, CompactSlot
<1>3. \A n, k, M : IsSlot(n, k, M)' = IsSlot(n, k, M)
  BY <1>2 DEF IsSlot
<1>4. CASE RowMatched(c, d)
  <2>1. c.row < Len(rowIDs') /\ rowIDs'[c.row + 1] = rowIDs[c.row + 1]
    BY <1>1, <1>4, LongerAt DEF RowMatched, Grown
  <2>2. PICK n \in Resolved[lines[c.row + 1]] : Starts(c, d, rowIDs[c.row + 1], n, <<>>)
    BY <1>4 DEF RowMatched
  <2> DEFINE code == rowIDs[c.row + 1]
             nobody == <<>>
  <2>3. Starts(c, d, code, n, nobody)
    BY <2>2
  <2>4. Starts(c, d, code, n, nobody)'
    <3>1. \E q : q = code
      OBVIOUS
    <3>2. PICK q : q = code
      BY <3>1
    <3> HIDE DEF code, nobody
    <3>3. Starts(c, d, q, n, nobody)
      BY <2>3, <3>2
    <3> USE DEF nobody
    <3> HIDE DEF nobody
    <3>4. Starts(c, d, q, n, nobody)'
      BY <1>1, <3>3, StartsStays
    <3>5. code' = q
      BY <2>1, <3>2 DEF code
    <3> QED BY <3>4, <3>5
  <2>5. lines' = lines
    BY DEF Grown
  <2>6. RowMatched(c, d)'
    BY <1>4, <2>1, <2>4, <2>5 DEF RowMatched
  <2> QED BY <2>6 DEF Follows
<1>5. CASE RowUnmatched(c, d)
  <2>1. c.row < Len(rowIDs') /\ rowIDs'[c.row + 1] = rowIDs[c.row + 1]
    BY <1>1, <1>5, LongerAt DEF RowUnmatched, Grown
  <2>2. c.unm < Len(unmatched') /\ unmatched'[c.unm + 1] = unmatched[c.unm + 1]
    BY <1>1, <1>5, LongerAt DEF RowUnmatched, Grown
  <2>3. RowUnmatched(c, d)'
    BY <1>5, <2>1, <2>2 DEF RowUnmatched, Grown
  <2> QED BY <2>3 DEF Follows
<1>6. CASE SlotLeaf(c, d)
  <2>1. c.sub < Len(subIDs') /\ subIDs'[c.sub + 1] = subIDs[c.sub + 1]
    BY <1>1, <1>6, LongerAt DEF SlotLeaf, Grown
  <2>2. PICK k : /\ IsSlot(TopOf(c).node, k, TopOf(c).next) /\ ~IsNode(TopOf(c).node.params[k])
                 /\ \E code \in DOMAIN table :
                       /\ table[code].id = TopOf(c).node.id
                       /\ Gets(c, d, <<code, TopOf(c).next>>, TopOf(c).node.params[k].value)
    BY <1>6 DEF SlotLeaf
  <2>3. PICK code \in DOMAIN table :
            /\ table[code].id = TopOf(c).node.id
            /\ Gets(c, d, <<code, TopOf(c).next>>, TopOf(c).node.params[k].value)
    BY <2>2
  <2>4. code \in DOMAIN table' /\ table'[code].id = TopOf(c).node.id
    BY <2>3 DEF Grown, SameTables
  <2> DEFINE key == <<code, TopOf(c).next>>
             v == TopOf(c).node.params[k].value
  <2>5. Gets(c, d, key, v)'
    <3>1. Gets(c, d, key, v)
      BY <2>3
    <3> HIDE DEF key, v
    <3> QED BY <1>1, <3>1, GetsStays
  <2>6. IsSlot(TopOf(c).node, k, TopOf(c).next)'
    BY <1>3, <2>2
  <2>7. SlotLeaf(c, d)'
    BY <1>6, <2>1, <2>2, <2>4, <2>5, <2>6 DEF SlotLeaf
  <2> QED BY <2>7 DEF Follows
<1>7. CASE SlotNode(c, d)
  <2>1. c.sub < Len(subIDs') /\ subIDs'[c.sub + 1] = subIDs[c.sub + 1]
    BY <1>1, <1>7, LongerAt DEF SlotNode, Grown
  <2>2. PICK k : /\ IsSlot(TopOf(c).node, k, TopOf(c).next) /\ IsNode(TopOf(c).node.params[k])
                 /\ Starts(c, d, subIDs[c.sub + 1], TopOf(c).node.params[k], c.frames)
    BY <1>7 DEF SlotNode
  <2>3. \E q, n, callers : q = subIDs[c.sub + 1] /\ n = TopOf(c).node.params[k] /\ callers = c.frames
    OBVIOUS
  <2>4. PICK q, n, callers :
           q = subIDs[c.sub + 1] /\ n = TopOf(c).node.params[k] /\ callers = c.frames
    BY <2>3
  <2>5. Starts(c, d, q, n, callers)
    BY <2>2, <2>4
  <2>6. Starts(c, d, q, n, callers)'
    BY <1>1, <2>5, StartsStays
  <2>7. Starts(c, d, subIDs[c.sub + 1], TopOf(c).node.params[k], c.frames)'
    BY <2>1, <2>4, <2>6
  <2>8. IsSlot(TopOf(c).node, k, TopOf(c).next)'
    BY <1>3, <2>2
  <2>9. SlotNode(c, d)'
    BY <1>7, <2>1, <2>2, <2>7, <2>8 DEF SlotNode
  <2> QED BY <2>9 DEF Follows
<1>8. CASE Returns(c, d)
  <2>1. Returns(c, d)'
    BY <1>2, <1>8 DEF Returns
  <2> QED BY <2>1 DEF Follows
<1> QED BY <1>4, <1>5, <1>6, <1>7, <1>8 DEF Follows

LEMMA SameSeq ==
  ASSUME NEW A, NEW s \in Seq(A), NEW B, NEW t \in Seq(B), Len(s) = Len(t),
         \A i \in 1..Len(s) : s[i] = t[i]
  PROVE  s = t
<1>1. s = [i \in 1..Len(s) |-> s[i]] /\ t = [i \in 1..Len(t) |-> t[i]]
  OBVIOUS
<1> QED BY <1>1

\* A frame of the encoder as the decoder will have it.
Seen(f, top) ==
    [node |-> f.node, next |-> CompactSlot(f.node.id, f.next - 1) + IF top THEN 1 ELSE 0]

Frame == [node : BlockNodes, next : Nat]

LEMMA ViewOf ==
  ASSUME NEW A, NEW s \in Seq(A),
         \A j \in 1..Len(s) : s[j].node \in BlockNodes /\ s[j].next \in Nat \ {0}
  PROVE  /\ View(s) \in Seq(Frame) /\ Len(View(s)) = Len(s) /\ Len(s) \in Nat
         /\ \A j \in 1..Len(s) : View(s)[j] = Seen(s[j], j = Len(s))
<1>1. Len(s) \in Nat
  OBVIOUS
<1>2. \A j \in 1..Len(s) : View(s)[j] = Seen(s[j], j = Len(s))
  BY DEF View, Seen
<1>3. ASSUME NEW f, f.node \in BlockNodes, f.next \in Nat \ {0}, NEW top
      PROVE  Seen(f, top) \in Frame
  <2>1. f.next - 1 \in Nat
    BY <1>3
  <2>2. CompactSlot(f.node.id, f.next - 1) \in Nat
    BY <2>1, CompactFacts
  <2> QED BY <1>3, <2>2 DEF Seen, Frame
<1>4. \A j \in 1..Len(s) : View(s)[j] \in Frame
  BY <1>2, <1>3
<1>5. View(s) = [j \in 1..Len(s) |-> View(s)[j]]
  BY DEF View
<1>6. View(s) \in [1..Len(s) -> Frame]
  <2> DEFINE v == View(s)
  <2>1. v = [j \in 1..Len(s) |-> v[j]] /\ \A j \in 1..Len(s) : v[j] \in Frame
    BY <1>4, <1>5
  <2> HIDE DEF v
  <2>2. v \in [1..Len(s) -> Frame]
    BY <2>1
  <2> QED BY <2>2 DEF v
<1>7. View(s) \in Seq(Frame)
  BY <1>1, <1>6, SeqDef
<1>8. Len(View(s)) = Len(s)
  BY <1>1, <1>6, <1>7
<1> QED BY <1>1, <1>2, <1>7, <1>8

LEMMA ViewFacts ==
  ASSUME NEW s \in Seq(NodeFrame)
  PROVE  /\ View(s) \in Seq(Frame) /\ Len(View(s)) = Len(s) /\ Len(s) \in Nat
         /\ \A j \in 1..Len(s) : View(s)[j] = Seen(s[j], j = Len(s))
<1>1. \A j \in 1..Len(s) : s[j].node \in BlockNodes /\ s[j].next \in Nat \ {0}
  <2> TAKE j \in 1..Len(s)
  <2>1. s[j] \in NodeFrame
    OBVIOUS
  <2> QED BY <2>1 DEF NodeFrame
<1> QED BY <1>1, ViewOf

\* The top of the view, and its callers.
LEMMA ViewTop ==
  ASSUME EncStack(stack), stack # <<>>
  PROVE  /\ View(stack) \in Seq(Frame) /\ Len(View(stack)) = Len(stack) /\ View(stack) # <<>>
         /\ Len(stack) \in Nat \ {0}
         /\ View(stack)[Len(stack)] =
               [node |-> Top.node, next |-> CompactSlot(Top.node.id, Top.next - 1) + 1]
         /\ \A j \in 1..(Len(stack) - 1) : View(stack)[j] = Seen(stack[j], FALSE)
         /\ Top.next - 1 \in Nat /\ Top.next \in Nat \ {0}
         /\ CompactSlot(Top.node.id, Top.next - 1) \in Nat
<1>1. stack \in Seq(NodeFrame) /\ Len(stack) \in Nat \ {0}
  BY EmptySeq DEF EncStack
<1>2. /\ View(stack) \in Seq(Frame) /\ Len(View(stack)) = Len(stack)
      /\ \A j \in 1..Len(stack) : View(stack)[j] = Seen(stack[j], j = Len(stack))
  BY <1>1, ViewFacts
<1>3. View(stack) # <<>>
  <2>1. Len(<<>>) = 0
    OBVIOUS
  <2> QED BY <2>1, <1>1, <1>2
<1>4. View(stack)[Len(stack)] = Seen(Top, TRUE)
  <2>1. Len(stack) \in 1..Len(stack)
    BY <1>1
  <2>2. View(stack)[Len(stack)] = Seen(stack[Len(stack)], Len(stack) = Len(stack))
    BY <2>1, <1>2
  <2> QED BY <2>2 DEF Top, Seen
<1>5. \A j \in 1..(Len(stack) - 1) : View(stack)[j] = Seen(stack[j], FALSE)
  <2> TAKE j \in 1..(Len(stack) - 1)
  <2>1. j \in 1..Len(stack) /\ j # Len(stack)
    BY <1>1
  <2>2. View(stack)[j] = Seen(stack[j], j = Len(stack))
    BY <2>1, <1>2
  <2> QED BY <2>1, <2>2 DEF Seen
<1>6. Top.next \in Nat \ {0}
  BY TopFacts
<1>7. CompactSlot(Top.node.id, Top.next - 1) \in Nat
  <2>1. Top.next - 1 \in Nat
    BY <1>6
  <2> QED BY <2>1, CompactFacts
<1> QED BY <1>1, <1>2, <1>3, <1>4, <1>5, <1>6, <1>7 DEF Seen

LEMMA AdvancedView ==
  ASSUME EncStack(stack), stack # <<>>
  PROVE  View(Advanced) = IF IsFolded(Top.node.id, Top.next)
                          THEN View(stack) ELSE Stepped(View(stack))
<1> DEFINE n == Len(stack)
           id == Top.node.id
<1>1. /\ EncStack(Advanced) /\ Len(Advanced) = n
      /\ \A i \in 1..(n - 1) : Advanced[i] = stack[i]
      /\ Advanced[n] = [code |-> Top.code, node |-> Top.node, next |-> Top.next + 1]
  BY AdvancedFacts
<1>2. /\ View(stack) \in Seq(Frame) /\ Len(View(stack)) = n /\ View(stack) # <<>>
      /\ n \in Nat \ {0}
      /\ View(stack)[n] = [node |-> Top.node, next |-> CompactSlot(id, Top.next - 1) + 1]
      /\ \A j \in 1..(n - 1) : View(stack)[j] = Seen(stack[j], FALSE)
      /\ Top.next - 1 \in Nat /\ Top.next \in Nat \ {0} /\ CompactSlot(id, Top.next - 1) \in Nat
  BY ViewTop
<1>3. /\ View(Advanced) \in Seq(Frame) /\ Len(View(Advanced)) = n
      /\ \A j \in 1..n : View(Advanced)[j] = Seen(Advanced[j], j = n)
  <2>1. Advanced \in Seq(NodeFrame)
    BY <1>1 DEF EncStack
  <2> QED BY <1>1, <2>1, ViewFacts
<1>4. View(Advanced)[n] = [node |-> Top.node, next |-> CompactSlot(id, Top.next) + 1]
  <2>1. n \in 1..n
    BY <1>2
  <2>2. View(Advanced)[n] = Seen(Advanced[n], n = n)
    BY <2>1, <1>3
  <2>3. Advanced[n].node = Top.node /\ Advanced[n].next - 1 = Top.next
    BY <1>1, <1>2
  <2> QED BY <2>2, <2>3 DEF Seen
<1>5. CompactSlot(id, Top.next) = CompactSlot(id, Top.next - 1) + IF IsFolded(id, Top.next) THEN 0 ELSE 1
  BY <1>2, CompactFacts
<1>6. \A j \in 1..(n - 1) : View(Advanced)[j] = View(stack)[j]
  <2> TAKE j \in 1..(n - 1)
  <2>1. j \in 1..n /\ j # n
    BY <1>2
  <2>2. View(Advanced)[j] = Seen(Advanced[j], j = n)
    BY <2>1, <1>3
  <2> QED BY <2>1, <2>2, <1>1, <1>2 DEF Seen
<1> DEFINE c0 == CompactSlot(id, Top.next - 1)
           c1 == CompactSlot(id, Top.next)
           vs == View(stack)
           va == View(Advanced)
<1> HIDE DEF c0, c1, vs, va, n
<1>7. CASE IsFolded(id, Top.next)
  <2>1. c1 = c0
    BY <1>2, <1>5, <1>7 DEF c0, c1
  <2>2. \A j \in 1..n : va[j] = vs[j]
    <3> TAKE j \in 1..n
    <3>1. CASE j = n
      BY <2>1, <3>1, <1>2, <1>4 DEF c0, c1, vs, va
    <3>2. CASE j # n
      <4>1. j \in 1..(n - 1)
        BY <3>2, <1>2
      <4> QED BY <4>1, <1>6 DEF vs, va
    <3> QED BY <3>1, <3>2
  <2>3. va = vs
    BY <2>2, <1>2, <1>3, SameSeq DEF vs, va
  <2> QED BY <2>3, <1>7 DEF vs, va
<1>8. CASE ~IsFolded(id, Top.next)
  <2>1. c1 = c0 + 1
    BY <1>2, <1>5, <1>8 DEF c0, c1
  <2>2. /\ Len(Stepped(vs)) = n
        /\ \A i \in 1..(n - 1) : Stepped(vs)[i] = vs[i]
        /\ Stepped(vs)[n] = [vs[n] EXCEPT !.next = @ + 1]
        /\ \A B : (\A i \in 1..n : Stepped(vs)[i] \in B) => Stepped(vs) \in Seq(B)
    <3>1. vs \in Seq(Frame) /\ vs # <<>> /\ Len(vs) = n
      BY <1>2 DEF vs
    <3> QED BY <3>1, SteppedFacts
  <2>3. vs[n] = [node |-> Top.node, next |-> c0 + 1]
    BY <1>2 DEF vs, c0
  <2>4. Stepped(vs)[n] = [node |-> Top.node, next |-> (c0 + 1) + 1]
    BY <2>2, <2>3
  <2>5. \A j \in 1..n : va[j] = Stepped(vs)[j]
    <3> TAKE j \in 1..n
    <3>1. CASE j = n
      <4>1. va[n] = [node |-> Top.node, next |-> c1 + 1]
        BY <1>4 DEF va, c1
      <4> QED BY <4>1, <2>1, <2>4, <3>1
    <3>2. CASE j # n
      <4>1. j \in 1..(n - 1)
        BY <3>2, <1>2
      <4> QED BY <4>1, <1>6, <2>2 DEF vs, va
    <3> QED BY <3>1, <3>2
  <2>6. Stepped(vs) \in Seq({va[i] : i \in 1..n})
    <3> DEFINE R == {va[i] : i \in 1..n}
    <3>1. \A i \in 1..n : Stepped(vs)[i] \in R
      BY <2>5
    <3> HIDE DEF R
    <3>2. Stepped(vs) \in Seq(R)
      BY <2>2, <3>1
    <3> QED BY <3>2 DEF R
  <2>7. va \in Seq(Frame) /\ Len(va) = n
    BY <1>3 DEF va
  <2>8. va = Stepped(vs)
    <3> DEFINE R == {va[i] : i \in 1..n}
               t == Stepped(vs)
    <3>1. t \in Seq(R) /\ Len(t) = n /\ \A j \in 1..n : va[j] = t[j]
      BY <2>2, <2>5, <2>6
    <3> HIDE DEF R, t
    <3>2. va = t
      BY <3>1, <2>7, SameSeq
    <3> QED BY <3>2 DEF t
  <2> QED BY <2>8, <1>8 DEF vs, va
<1> QED BY <1>7, <1>8

LEMMA FrontView ==
  ASSUME EncStack(stack), stack # <<>>
  PROVE  View(Front(stack)) = Popped(View(stack))
<1> DEFINE n == Len(stack)
           vs == View(stack)
           vf == View(Front(stack))
<1>1. /\ EncStack(Front(stack)) /\ Len(Front(stack)) = n - 1
      /\ \A i \in 1..(n - 1) : Front(stack)[i] = stack[i]
  BY EncFront
<1>2. /\ vs \in Seq(Frame) /\ Len(vs) = n /\ vs # <<>> /\ n \in Nat \ {0}
      /\ \A j \in 1..(n - 1) : vs[j] = Seen(stack[j], FALSE)
  BY ViewTop
<1>3. /\ vf \in Seq(Frame) /\ Len(vf) = n - 1
      /\ \A j \in 1..(n - 1) : vf[j] = Seen(stack[j], j = n - 1)
  <2>1. Front(stack) \in Seq(NodeFrame)
    BY <1>1 DEF EncStack
  <2>2. \A j \in 1..(n - 1) : vf[j] = Seen(Front(stack)[j], j = n - 1)
    BY <1>1, <2>1, ViewFacts
  <2> QED BY <1>1, <2>1, <2>2, ViewFacts
<1>4. CASE n = 1
  <2>1. vf = <<>>
    BY <1>3, <1>4, EmptySeq
  <2> QED BY <2>1, <1>2, <1>4 DEF Popped
<1>5. CASE n # 1
  <2> DEFINE fv == Front(vs)
             t == Stepped(fv)
  <2>1. /\ fv \in Seq(Frame) /\ Len(fv) = n - 1 /\ \A i \in 1..(n - 1) : fv[i] = vs[i]
    <3> HIDE DEF vs
    <3> QED BY <1>2, FrontFacts
  <2> HIDE DEF fv
  <2>2. fv # <<>>
    BY <2>1, <1>2, <1>5, EmptySeq
  <2>3. /\ Len(t) = n - 1
        /\ \A i \in 1..((n - 1) - 1) : t[i] = fv[i]
        /\ t[n - 1] = [fv[n - 1] EXCEPT !.next = @ + 1]
        /\ \A B : (\A i \in 1..(n - 1) : t[i] \in B) => t \in Seq(B)
    BY <2>1, <2>2, SteppedFacts
  <2>4. \A j \in 1..(n - 1) : vf[j] = t[j]
    <3> TAKE j \in 1..(n - 1)
    <3>1. fv[j] = Seen(stack[j], FALSE) /\ vf[j] = Seen(stack[j], j = n - 1)
      <4> HIDE DEF vs, vf
      <4> QED BY <1>2, <1>3, <2>1
    <3>2. CASE j = n - 1
      <4>1. t[j] = [fv[j] EXCEPT !.next = @ + 1]
        BY <2>3, <3>2
      <4>2. CompactSlot(stack[j].node.id, stack[j].next - 1) \in Nat
        <5>1. stack[j] \in NodeFrame
          BY <1>2 DEF EncStack
        <5>2. stack[j].next - 1 \in Nat
          BY <5>1 DEF NodeFrame
        <5> QED BY <5>2, CompactFacts
      <4> HIDE DEF t, vf
      <4>3. vf[j] = [node |-> stack[j].node, next |-> CompactSlot(stack[j].node.id, stack[j].next - 1) + 1]
        BY <3>1, <3>2 DEF Seen
      <4>4. fv[j] = [node |-> stack[j].node, next |-> CompactSlot(stack[j].node.id, stack[j].next - 1) + 0]
        BY <3>1 DEF Seen
      <4> QED BY <4>1, <4>2, <4>3, <4>4
    <3>3. CASE j # n - 1
      <4>1. j \in 1..((n - 1) - 1)
        BY <3>3, <1>2
      <4>2. t[j] = fv[j]
        BY <2>3, <4>1
      <4> HIDE DEF t, vf
      <4> QED BY <3>1, <3>3, <4>2 DEF Seen
    <3> QED BY <3>2, <3>3
  <2>5. vf = t
    <3> DEFINE R == {vf[i] : i \in 1..(n - 1)}
    <3> HIDE DEF vf, t
    <3>1. \A i \in 1..(n - 1) : t[i] \in R
      BY <2>4
    <3> HIDE DEF R
    <3>2. t \in Seq(R)
      BY <2>3, <3>1
    <3> QED BY <3>2, <2>3, <2>4, <1>3, SameSeq
  <2>6. Popped(vs) = t
    <3> HIDE DEF vs
    <3> QED BY <1>2, <1>5 DEF Popped, fv
  <2> QED BY <2>5, <2>6
<1> QED BY <1>4, <1>5

\* A new innermost node: its caller is at the slot it was found in.
LEMMA PushedView ==
  ASSUME EncStack(stack), stack # <<>>, ~IsFolded(Top.node.id, Top.next), NEW p \in BlockNodes,
         NEW code
  PROVE  View(Append(Advanced, [code |-> code, node |-> p, next |-> 1]))
            = Append(View(stack), [node |-> p, next |-> 1])
<1> DEFINE n == Len(stack)
           f == [code |-> code, node |-> p, next |-> 1]
           g == [node |-> p, next |-> 1]
           s == Append(Advanced, f)
           vs == View(stack)
           t == Append(vs, g)
           id == Top.node.id
<1>1. /\ EncStack(Advanced) /\ Len(Advanced) = n
      /\ \A i \in 1..(n - 1) : Advanced[i] = stack[i]
      /\ Advanced[n] = [code |-> Top.code, node |-> Top.node, next |-> Top.next + 1]
  BY AdvancedFacts
<1>2. /\ vs \in Seq(Frame) /\ Len(vs) = n /\ n \in Nat \ {0}
      /\ vs[n] = [node |-> Top.node, next |-> CompactSlot(id, Top.next - 1) + 1]
      /\ \A j \in 1..(n - 1) : vs[j] = Seen(stack[j], FALSE)
      /\ Top.next - 1 \in Nat /\ Top.next \in Nat \ {0} /\ CompactSlot(id, Top.next - 1) \in Nat
  BY ViewTop
<1>3. f.node = p /\ f.next = 1 /\ g \in Frame /\ g = [node |-> p, next |-> 1]
  BY DEF Frame
<1>4. Advanced \in Seq(NodeFrame)
  BY <1>1 DEF EncStack
<1> HIDE DEF f, g, vs
<1>5. /\ s \in Seq(NodeFrame \cup {f}) /\ Len(s) = n + 1 /\ s[n + 1] = f
      /\ \A i \in 1..n : s[i] = Advanced[i]
  <2>1. f \in NodeFrame \cup {f} /\ NodeFrame \subseteq NodeFrame \cup {f}
    OBVIOUS
  <2> QED BY <2>1, <1>1, <1>4, PushFacts
<1>6. /\ t \in Seq(Frame) /\ Len(t) = n + 1 /\ t[n + 1] = g
      /\ \A i \in 1..n : t[i] = vs[i]
  BY <1>2, <1>3
<1> HIDE DEF s, t
<1>7. \A j \in 1..Len(s) : s[j].node \in BlockNodes /\ s[j].next \in Nat \ {0}
  <2> TAKE j \in 1..Len(s)
  <2>1. CASE j = n + 1
    BY <2>1, <1>3, <1>5
  <2>2. CASE j # n + 1
    <3>1. j \in 1..n
      BY <2>2, <1>2, <1>5
    <3>2. Advanced[j] \in NodeFrame
      BY <1>1, <1>4, <3>1
    <3> QED BY <3>1, <3>2, <1>5 DEF NodeFrame
  <2> QED BY <2>1, <2>2
<1>8. /\ View(s) \in Seq(Frame) /\ Len(View(s)) = n + 1
      /\ \A j \in 1..(n + 1) : View(s)[j] = Seen(s[j], j = n + 1)
  BY <1>5, <1>7, ViewOf
<1>9. CompactSlot(id, Top.next) = CompactSlot(id, Top.next - 1) + 1 /\ CompactSlot(p.id, 0) = 0
  BY <1>2, CompactFacts
<1>10. \A j \in 1..(n + 1) : View(s)[j] = t[j]
  <2> TAKE j \in 1..(n + 1)
  <2>0. View(s)[j] = Seen(s[j], j = n + 1)
    BY <1>8
  <2>1. CASE j = n + 1
    <3>1. f.next - 1 = 0 /\ CompactSlot(p.id, 0) + 1 = 1
      BY <1>3, <1>9
    <3>2. Seen(f, TRUE) = g
      BY <1>3, <3>1 DEF Seen
    <3> QED BY <2>0, <2>1, <3>2, <1>5, <1>6 DEF Seen
  <2>2. CASE j = n
    <3>1. View(s)[j] = Seen(Advanced[n], FALSE)
      BY <2>0, <2>2, <1>2, <1>5 DEF Seen
    <3>2. Seen(Advanced[n], FALSE) = [node |-> Top.node, next |-> CompactSlot(id, Top.next) + 0]
      <4>1. Advanced[n].node = Top.node /\ Advanced[n].next - 1 = Top.next
        BY <1>1, <1>2
      <4> QED BY <4>1 DEF Seen
    <3>3. t[j] = [node |-> Top.node, next |-> CompactSlot(id, Top.next - 1) + 1]
      BY <2>2, <1>2, <1>6
    <3>4. CompactSlot(id, Top.next) + 0 = CompactSlot(id, Top.next - 1) + 1
      BY <1>2, <1>9
    <3> QED BY <3>1, <3>2, <3>3, <3>4
  <2>3. CASE j # n /\ j # n + 1
    <3>1. j \in 1..(n - 1) /\ j \in 1..n
      BY <2>3, <1>2
    <3>2. s[j] = stack[j] /\ t[j] = Seen(stack[j], FALSE)
      BY <3>1, <1>1, <1>2, <1>5, <1>6
    <3> QED BY <2>0, <2>3, <3>2 DEF Seen
  <2> QED BY <2>1, <2>2, <2>3
<1>11. View(s) = t
  <2> DEFINE v == View(s)
  <2>1. v \in Seq(Frame) /\ Len(v) = Len(t) /\ \A j \in 1..Len(v) : v[j] = t[j]
    BY <1>6, <1>8, <1>10
  <2> HIDE DEF v
  <2>2. v = t
    BY <2>1, <1>6, SameSeq
  <2> QED BY <2>2 DEF v
<1> QED BY <1>11 DEF s, t, f, g, vs

LEMMA RootView ==
  ASSUME NEW p \in BlockNodes, NEW code
  PROVE  View(Append(<<>>, [code |-> code, node |-> p, next |-> 1]))
            = Append(<<>>, [node |-> p, next |-> 1])
<1> DEFINE f == [code |-> code, node |-> p, next |-> 1]
           g == [node |-> p, next |-> 1]
           s == Append(<<>>, f)
<1>1. f.node = p /\ f.next = 1 /\ g = [node |-> p, next |-> 1]
  OBVIOUS
<1> HIDE DEF f
<1>2. s \in Seq({f}) /\ Len(s) = 1 /\ s[1] = f
  OBVIOUS
<1> HIDE DEF s
<1>3. \A j \in 1..Len(s) : s[j].node \in BlockNodes /\ s[j].next \in Nat \ {0}
  BY <1>1, <1>2
<1>4. View(s) \in Seq(Frame) /\ Len(View(s)) = 1 /\ \A j \in 1..1 : View(s)[j] = Seen(s[j], j = 1)
  BY <1>2, <1>3, ViewOf
<1>5. View(s)[1] = g
  <2>1. View(s)[1] = Seen(f, TRUE)
    BY <1>2, <1>4 DEF Seen
  <2>2. CompactSlot(p.id, 0) = 0
    BY CompactFacts
  <2>3. f.next - 1 = 0 /\ CompactSlot(p.id, 0) + 1 = 1
    BY <1>1, <2>2
  <2>4. Seen(f, TRUE) = [node |-> p, next |-> 1]
    BY <1>1, <2>3 DEF Seen
  <2> QED BY <2>1, <2>4
<1> HIDE DEF g
<1>6. Append(<<>>, g) \in Seq({g}) /\ Len(Append(<<>>, g)) = 1 /\ Append(<<>>, g)[1] = g
  OBVIOUS
<1>7. View(s) = Append(<<>>, g)
  BY <1>4, <1>5, <1>6, SameSeq
<1> QED BY <1>7 DEF s, f, g

LEMMA EmptyView == View(<<>>) = <<>>
BY DEF View

LEMMA AppendLonger ==
  ASSUME NEW A, NEW s \in Seq(A), NEW v
  PROVE  /\ Longer(s, Append(s, v)) /\ Longer(s, s)
         /\ Len(Append(s, v)) = Len(s) + 1 /\ Append(s, v)[Len(s) + 1] = v
<1>1. \A i \in 1..Len(s) : Append(s, v)[i] = s[i]
  OBVIOUS
<1>2. Len(s) \in Nat /\ Len(Append(s, v)) = Len(s) + 1 /\ Append(s, v)[Len(s) + 1] = v
  OBVIOUS
<1> QED BY <1>1, <1>2 DEF Longer

LEMMA BucketSeq ==
  ASSUME BucketsOK, NEW k
  PROVE  Bucket(k) \in Seq(Seq(Char)) /\ Len(Bucket(k)) \in Nat
<1>1. CASE k \in DOMAIN buckets
  <2>1. Bucket(k) = buckets[k] /\ buckets[k] \in Seq(Seq(Char))
    BY <1>1 DEF Bucket, BucketsOK, BucketOK
  <2> DEFINE C == Seq(Char)
  <2>2. Bucket(k) \in Seq(C)
    BY <2>1
  <2> HIDE DEF C
  <2>3. Len(Bucket(k)) \in Nat
    BY <2>2
  <2> QED BY <2>1, <2>3
<1>2. CASE k \notin DOMAIN buckets
  BY <1>2 DEF Bucket
<1> QED BY <1>1, <1>2

LEMMA LengthsType == BucketsOK => Lengths \in [Nat \X Nat -> Nat]
BY BucketSeq DEF Lengths

\* What is appended to a stream is what comes next where the stream ended.
LEMMA PutGets ==
  ASSUME BucketsOK, NEW k \in Nat \X Nat, NEW v, buckets' = Put(k, v),
         NEW c, c.pos = Lengths, NEW d, d.pos = Lengths'
  PROVE  Gets(c, d, k, v)'
<1>1. /\ DOMAIN buckets' = DOMAIN buckets \cup {k} /\ buckets'[k] = Append(Bucket(k), v)
      /\ \A j : j # k => Bucket(j)' = Bucket(j)
  BY PutFacts
<1>2. Bucket(k) \in Seq(Seq(Char)) /\ Len(Bucket(k)) \in Nat
  BY BucketSeq
<1>3. Len(buckets'[k]) = Len(Bucket(k)) + 1 /\ buckets'[k][Len(Bucket(k)) + 1] = v
  <2> DEFINE C == Seq(Char)
             b == Bucket(k)
  <2>1. b \in Seq(C) /\ buckets'[k] = Append(b, v)
    BY <1>1, <1>2
  <2> HIDE DEF C, b
  <2>2. Len(Append(b, v)) = Len(b) + 1 /\ Append(b, v)[Len(b) + 1] = v
    BY <2>1, AppendLonger
  <2> QED BY <2>1, <2>2 DEF b
<1>4. c.pos[k] = Len(Bucket(k)) /\ c.pos \in [Nat \X Nat -> Nat]
  BY LengthsType DEF Lengths
<1>5. Bucket(k)' = buckets'[k]
  BY <1>1 DEF Bucket
<1>6. d.pos = [c.pos EXCEPT ![k] = @ + 1]
  <2> DEFINE e == [c.pos EXCEPT ![k] = @ + 1]
  <2>1. Lengths' = [j \in Nat \X Nat |-> Len(Bucket(j)')]
    BY DEF Lengths
  <2>2. \A j \in Nat \X Nat : e[j] = IF j = k THEN c.pos[k] + 1 ELSE c.pos[j]
    BY <1>4
  <2>3. \A j \in Nat \X Nat : c.pos[j] = Len(Bucket(j))
    BY DEF Lengths
  <2>4. \A j \in Nat \X Nat : Len(Bucket(j)') = e[j]
    <3> TAKE j \in Nat \X Nat
    <3>1. CASE j = k
      BY <3>1, <1>3, <1>4, <1>5, <2>2
    <3>2. CASE j # k
      BY <3>2, <1>1, <2>2, <2>3
    <3> QED BY <3>1, <3>2
  <2>5. e = [j \in Nat \X Nat |-> e[j]]
    BY <1>4
  <2> HIDE DEF e
  <2>6. [j \in Nat \X Nat |-> Len(Bucket(j)')] = [j \in Nat \X Nat |-> e[j]]
    BY <2>4
  <2> QED BY <2>1, <2>5, <2>6 DEF e
<1> QED BY <1>1, <1>3, <1>4, <1>6 DEF Gets

LEMMA PutGrows ==
  ASSUME BucketsOK, NEW k, NEW v, buckets' = Put(k, v), NEW j \in DOMAIN buckets
  PROVE  j \in DOMAIN buckets' /\ Longer(buckets[j], buckets'[j])
<1>1. /\ DOMAIN buckets' = DOMAIN buckets \cup {k} /\ buckets'[k] = Append(Bucket(k), v)
      /\ \A i \in DOMAIN buckets : i # k => buckets'[i] = buckets[i]
  BY PutFacts
<1> DEFINE C == Seq(Char)
           b == buckets[j]
<1>2. b \in Seq(C) /\ Bucket(j) = b
  BY DEF BucketsOK, BucketOK, Bucket
<1> HIDE DEF C, b
<1>3. Longer(b, Append(b, v)) /\ Longer(b, b)
  BY <1>2, AppendLonger
<1> QED BY <1>1, <1>2, <1>3 DEF b

\* The start of encodeNode, and what render will take there.
LEMMA EnterStarts ==
  ASSUME TypeInv, pc = "encode", NEW n \in BlockNodes, NEW callers, Enter(n, callers),
         UNCHANGED <<lines, folded>>, NEW code, code = CodeFor(n),
         NEW c, c.pos = Lengths, NEW d, d.pos = Lengths', NEW above,
         d.frames = Append(above, [node |-> n, next |-> 1])
  PROVE  /\ Starts(c, d, code, n, above)' /\ SameTables
         /\ \A j \in DOMAIN buckets : j \in DOMAIN buckets' /\ Longer(buckets[j], buckets'[j])
<1>1. BlockOK /\ TableOK /\ EntriesOK /\ BucketsOK
  BY TypedEncoding
<1>2. SameTables /\ code \in DOMAIN table' /\ table'[code].id = n.id
  BY <1>1, CodedEntries DEF Enter
<1>3. n \in BlockNodes'
  BY DEF BlockNodes
<1>4. CASE n.suffix
  <2>1. CodeFor(n) \in Nat
    <3>1. DOMAIN table = 1..Len(table) /\ Len(table) \in Nat
      BY <1>1, TableSeq
    <3> QED BY <3>1 DEF CodeFor, CodeOf
  <2> DEFINE k == <<code, 0>>
             v == n.prefix
  <2>2. k \in Nat \X Nat /\ buckets' = Put(k, v)
    BY <2>1, <1>4 DEF Enter
  <2> HIDE DEF k, v
  <2>3. Gets(c, d, k, v)'
    BY <1>1, <2>2, PutGets
  <2>4. \A j \in DOMAIN buckets : j \in DOMAIN buckets' /\ Longer(buckets[j], buckets'[j])
    BY <1>1, <2>2, PutGrows
  <2> QED BY <1>2, <1>3, <1>4, <2>3, <2>4 DEF Starts, k, v
<1>5. CASE ~n.suffix
  <2>1. buckets' = buckets
    BY <1>5 DEF Enter
  <2>2. d.pos = c.pos
    BY <2>1 DEF Lengths, Bucket
  <2>3. \A j \in DOMAIN buckets : Longer(buckets[j], buckets[j])
    <3> TAKE j \in DOMAIN buckets
    <3> DEFINE C == Seq(Char)
               b == buckets[j]
    <3>1. b \in Seq(C)
      BY <1>1 DEF BucketsOK, BucketOK
    <3> HIDE DEF C, b
    <3>2. Longer(b, b)
      BY <3>1, AppendLonger
    <3> QED BY <3>2 DEF b
  <2> QED BY <1>2, <1>3, <1>5, <2>1, <2>2, <2>3 DEF Starts
<1> QED BY <1>4, <1>5

LEMMA ViewKept == UNCHANGED folded => \A s : View(s)' = View(s)
<1> SUFFICES ASSUME UNCHANGED folded, NEW s PROVE View(s)' = View(s)
  OBVIOUS
<1>1. \A id, k : CompactSlot(id, k)' = CompactSlot(id, k)
  BY DEF CompactSlot, IsFolded
<1> QED BY <1>1 DEF View

LEMMA StreamTypes ==
  ASSUME TypeInv
  PROVE  /\ rowIDs \in Seq(Nat) /\ subIDs \in Seq(Nat) /\ \E S : unmatched \in Seq(S)
         /\ Len(rowIDs) \in Nat /\ Len(subIDs) \in Nat /\ Len(unmatched) \in Nat
<1>1. Len(table) \in Nat /\ StreamsOK
  BY TableSeq DEF TypeInv, IInv
<1>2. 0..Len(table) \subseteq Nat
  BY <1>1
<1>3. rowIDs \in Seq(Nat) /\ subIDs \in Seq(Nat)
  BY <1>1, <1>2 DEF StreamsOK
<1>4. unmatched \in Seq(ToSet(lines))
  BY DEF TypeInv
<1>5. Len(unmatched) \in Nat
  <2> DEFINE S == ToSet(lines)
  <2>1. unmatched \in Seq(S)
    BY <1>4
  <2> HIDE DEF S
  <2> QED BY <2>1
<1> QED BY <1>3, <1>4, <1>5

LEMMA SameLonger ==
  ASSUME TypeInv
  PROVE  /\ Longer(rowIDs, rowIDs) /\ Longer(subIDs, subIDs) /\ Longer(unmatched, unmatched)
         /\ \A j \in DOMAIN buckets : Longer(buckets[j], buckets[j])
<1>1. rowIDs \in Seq(Nat) /\ subIDs \in Seq(Nat) /\ \E S : unmatched \in Seq(S)
  BY StreamTypes
<1>2. PICK S : unmatched \in Seq(S)
  BY <1>1
<1>3. Longer(rowIDs, rowIDs) /\ Longer(subIDs, subIDs) /\ Longer(unmatched, unmatched)
  BY <1>1, <1>2, AppendLonger
<1>4. ASSUME NEW j \in DOMAIN buckets PROVE Longer(buckets[j], buckets[j])
  <2> DEFINE C == Seq(Char)
             b == buckets[j]
  <2>1. b \in Seq(C)
    BY DEF TypeInv, BucketsOK, BucketOK
  <2> HIDE DEF C, b
  <2>2. Longer(b, b)
    BY <2>1, AppendLonger
  <2> QED BY <2>2 DEF b
<1> QED BY <1>3, <1>4

LEMMA SameTable ==
  ASSUME UNCHANGED table PROVE SameTables
BY DEF SameTables

-----------------------------------------------------------------------------
(* Each step of the encoder, as the decoder will take it. *)

LEMMA ChartMatched ==
  ASSUME TypeInv, EncodeMatched, NEW h, h = Here(stack), NEW g, g = Here(stack)'
  PROVE  Grown /\ Follows(h, g)'
<1>1. /\ pc = "encode" /\ stack = <<>> /\ Len(rowIDs) < Len(lines)
      /\ UNCHANGED <<lines, folded, subIDs, unmatched>>
  BY DEF EncodeMatched, EncodingRow
<1>2. PICK n \in Resolved[lines[Len(rowIDs) + 1]] :
         rowIDs' = Append(rowIDs, CodeFor(n)) /\ Enter(n, <<>>)
  BY DEF EncodeMatched
<1>3. n \in BlockNodes
  BY <1>1, RowResolved
<1>4. PICK code : code = CodeFor(n)
  OBVIOUS
<1>5. /\ Longer(rowIDs, rowIDs') /\ Len(rowIDs') = Len(rowIDs) + 1 /\ rowIDs'[Len(rowIDs) + 1] = code
      /\ Len(rowIDs) \in Nat
  BY <1>2, <1>4, StreamTypes, AppendLonger
<1>6. View(stack) = <<>> /\ View(stack)' = Append(<<>>, [node |-> n, next |-> 1])
  <2>1. View(stack) = <<>>
    BY <1>1, EmptyView
  <2>2. stack' = Append(<<>>, [code |-> code, node |-> n, next |-> 1])
    BY <1>2, <1>4 DEF Enter
  <2> DEFINE s == Append(<<>>, [code |-> code, node |-> n, next |-> 1])
  <2>3. View(s) = Append(<<>>, [node |-> n, next |-> 1])
    BY <1>3, RootView
  <2> HIDE DEF s
  <2>4. View(s)' = View(s)
    BY <1>1, ViewKept
  <2>5. stack' = s
    BY <2>2 DEF s
  <2> QED BY <2>1, <2>3, <2>4, <2>5
<1>7. /\ h.row = Len(rowIDs) /\ h.frames = <<>> /\ h.sub = Len(subIDs) /\ h.unm = Len(unmatched)
      /\ h.pos = Lengths
  BY <1>6 DEF Here
<1>8. /\ g.row = Len(rowIDs') /\ g.frames = Append(<<>>, [node |-> n, next |-> 1])
      /\ g.sub = Len(subIDs) /\ g.unm = Len(unmatched) /\ g.pos = Lengths'
  BY <1>1, <1>6 DEF Here
<1> DEFINE nobody == <<>>
<1>9. Enter(n, nobody) /\ g.frames = Append(nobody, [node |-> n, next |-> 1])
  BY <1>2, <1>8
<1> HIDE DEF nobody
<1>10. /\ Starts(h, g, code, n, nobody)' /\ SameTables
       /\ \A j \in DOMAIN buckets : j \in DOMAIN buckets' /\ Longer(buckets[j], buckets'[j])
  BY <1>1, <1>3, <1>4, <1>7, <1>8, <1>9, EnterStarts
<1>11. Grown
  <2>1. Longer(subIDs, subIDs') /\ Longer(unmatched, unmatched')
    BY <1>1, SameLonger
  <2> QED BY <1>1, <1>5, <1>10, <2>1 DEF Grown
<1>12. code # 0
  <2>1. DOMAIN table = 1..Len(table) /\ Len(table) \in Nat
    BY TableSeq DEF TypeInv, IInv
  <2> QED BY <1>4, <2>1 DEF CodeFor, CodeOf
<1>13. RowMatched(h, g)'
  <2>1. n \in Resolved[lines'[h.row + 1]] /\ rowIDs'[h.row + 1] = code /\ h.row < Len(rowIDs')
    BY <1>1, <1>5, <1>7
  <2>2. g.row = h.row + 1 /\ g.sub = h.sub /\ g.unm = h.unm
    BY <1>5, <1>7, <1>8
  <2> QED BY <1>7, <1>10, <1>12, <2>1, <2>2 DEF RowMatched, nobody
<1> QED BY <1>11, <1>13 DEF Follows

LEMMA ChartUnmatched ==
  ASSUME TypeInv, EncodeUnmatched, NEW h, h = Here(stack), NEW g, g = Here(stack)'
  PROVE  Grown /\ Follows(h, g)' /\ g.frames = <<>>
<1>1. /\ stack = <<>> /\ stack' = <<>> /\ rowIDs' = Append(rowIDs, 0)
      /\ unmatched' = Append(unmatched, lines[Len(rowIDs) + 1])
      /\ UNCHANGED <<lines, folded, table, subIDs, buckets>>
  BY DEF EncodeUnmatched, EncodingRow
<1>2. /\ Longer(rowIDs, rowIDs') /\ Len(rowIDs') = Len(rowIDs) + 1 /\ rowIDs'[Len(rowIDs) + 1] = 0
      /\ Len(rowIDs) \in Nat
  BY <1>1, StreamTypes, AppendLonger
<1>3. /\ Longer(unmatched, unmatched') /\ Len(unmatched') = Len(unmatched) + 1
      /\ unmatched'[Len(unmatched) + 1] = lines[Len(rowIDs) + 1] /\ Len(unmatched) \in Nat
  BY <1>1, StreamTypes, AppendLonger
<1>4. View(stack) = <<>> /\ View(stack)' = <<>>
  BY <1>1 DEF View
<1>5. /\ h.row = Len(rowIDs) /\ h.frames = <<>> /\ h.sub = Len(subIDs) /\ h.unm = Len(unmatched)
      /\ h.pos = Lengths
  BY <1>4 DEF Here
<1>6. /\ g.row = Len(rowIDs') /\ g.frames = <<>> /\ g.sub = Len(subIDs)
      /\ g.unm = Len(unmatched') /\ g.pos = Lengths
  BY <1>1, <1>4 DEF Here, Lengths, Bucket
<1>7. Grown
  BY <1>1, <1>2, <1>3, SameLonger, SameTable DEF Grown
<1>8. RowUnmatched(h, g)'
  BY <1>1, <1>2, <1>3, <1>5, <1>6 DEF RowUnmatched
<1> QED BY <1>6, <1>7, <1>8 DEF Follows

LEMMA ChartFolded ==
  ASSUME TypeInv, EncodeFolded
  PROVE  Here(stack)' = Here(stack)
<1>1. /\ pc = "encode" /\ EncodingParam /\ stack # <<>> /\ stack' = Advanced
      /\ IsFolded(Top.node.id, Top.next)
      /\ UNCHANGED <<folded, rowIDs, subIDs, buckets, unmatched>>
  BY DEF EncodeFolded, EncodingParam, column
<1>2. View(Advanced) = View(stack)
  BY <1>1, TypedEncoding, AdvancedView
<1>3. PICK s : s = Advanced
  OBVIOUS
<1>4. View(s)' = View(s)
  BY <1>1, ViewKept
<1>5. View(stack)' = View(stack)
  BY <1>1, <1>2, <1>3, <1>4
<1> QED BY <1>1, <1>5 DEF Here, Lengths, Bucket

\* Where the encoder stands in the innermost node, as the decoder will.
LEMMA HereTop ==
  ASSUME TypeInv, pc = "encode", stack # <<>>, NEW h, h = Here(stack)
  PROVE  /\ h.row = Len(rowIDs) /\ h.frames = View(stack) /\ h.sub = Len(subIDs)
         /\ h.unm = Len(unmatched) /\ h.pos = Lengths
         /\ h.frames \in Seq(Frame) /\ h.frames # <<>>
         /\ TopOf(h).node = Top.node
         /\ TopOf(h).next = CompactSlot(Top.node.id, Top.next - 1) + 1
<1>1. /\ h.row = Len(rowIDs) /\ h.frames = View(stack) /\ h.sub = Len(subIDs)
      /\ h.unm = Len(unmatched) /\ h.pos = Lengths
  BY DEF Here
<1>2. EncStack(stack)
  BY TypedEncoding
<1>3. /\ View(stack) \in Seq(Frame) /\ Len(View(stack)) = Len(stack) /\ View(stack) # <<>>
      /\ View(stack)[Len(stack)] =
            [node |-> Top.node, next |-> CompactSlot(Top.node.id, Top.next - 1) + 1]
  BY <1>2, ViewTop
<1>4. TopOf(h) = [node |-> Top.node, next |-> CompactSlot(Top.node.id, Top.next - 1) + 1]
  BY <1>1, <1>3 DEF TopOf
<1> QED BY <1>1, <1>3, <1>4

\* An unfolded slot of it is behind the placeholder that is next.
LEMMA HereSlot ==
  ASSUME TypeInv, EncodingParam, ~IsFolded(Top.node.id, Top.next), NEW h, h = Here(stack)
  PROVE  /\ IsSlot(TopOf(h).node, Top.next, TopOf(h).next)
         /\ TopOf(h).next = CompactSlot(Top.node.id, Top.next)
         /\ TopOf(h).node.params[Top.next] = Slot
<1>1. pc = "encode" /\ stack # <<>>
  BY DEF EncodingParam
<1>2. BlockOK /\ EncStack(stack)
  BY <1>1, TypedEncoding
<1>3. Top.next \in DOMAIN Top.node.params /\ Top.next \in Nat \ {0}
  BY <1>1, <1>2, SlotFacts, TopFacts
<1>4. TopOf(h).node = Top.node /\ TopOf(h).next = CompactSlot(Top.node.id, Top.next - 1) + 1
  BY <1>1, HereTop
<1>5. CompactSlot(Top.node.id, Top.next) = CompactSlot(Top.node.id, Top.next - 1) + 1
  BY <1>3, CompactFacts
<1> QED BY <1>3, <1>4, <1>5 DEF IsSlot, Slot

LEMMA ChartNode ==
  ASSUME TypeInv, EncodeNode, NEW h, h = Here(stack), NEW g, g = Here(stack)'
  PROVE  Grown /\ Follows(h, g)'
<1>1. /\ pc = "encode" /\ EncodingParam /\ stack # <<>> /\ IsNode(Slot)
      /\ subIDs' = Append(subIDs, CodeFor(Slot)) /\ Enter(Slot, Advanced)
      /\ UNCHANGED <<lines, folded, rowIDs, unmatched>>
  BY DEF EncodeNode, EncodingParam
<1>2. BlockOK /\ EncStack(stack) /\ \A m \in BlockNodes : FoldedRight(m)
  BY <1>1, TypedEncoding
<1>3. Slot \in BlockNodes /\ Top.node \in BlockNodes /\ Top.next \in DOMAIN Top.node.params
  BY <1>1, <1>2, SlotFacts, TopFacts
<1>4. ~IsFolded(Top.node.id, Top.next)
  BY <1>1, <1>2, <1>3 DEF FoldedRight, Slot
<1>5. \E n, code, callers : n = Slot /\ code = CodeFor(n) /\ callers = Advanced
  OBVIOUS
<1>6. PICK n, code, callers : n = Slot /\ code = CodeFor(n) /\ callers = Advanced
  BY <1>5
<1>7. Enter(n, callers) /\ subIDs' = Append(subIDs, code) /\ n \in BlockNodes
  BY <1>1, <1>3, <1>6
<1>8. /\ Longer(subIDs, subIDs') /\ Len(subIDs') = Len(subIDs) + 1 /\ subIDs'[Len(subIDs) + 1] = code
      /\ Len(subIDs) \in Nat
  BY <1>7, StreamTypes, AppendLonger
<1>9. View(stack)' = Append(View(stack), [node |-> n, next |-> 1])
  <2> DEFINE s == Append(callers, [code |-> code, node |-> n, next |-> 1])
  <2>1. stack' = s
    BY <1>6, <1>7 DEF Enter
  <2>2. View(s) = Append(View(stack), [node |-> n, next |-> 1])
    BY <1>1, <1>2, <1>4, <1>6, <1>7, PushedView
  <2> HIDE DEF s
  <2>3. View(s)' = View(s)
    BY <1>1, ViewKept
  <2> QED BY <2>1, <2>2, <2>3
<1>10. /\ h.row = Len(rowIDs) /\ h.frames = View(stack) /\ h.sub = Len(subIDs)
       /\ h.unm = Len(unmatched) /\ h.pos = Lengths /\ h.frames # <<>>
  BY <1>1, HereTop
<1>11. /\ g.row = Len(rowIDs) /\ g.frames = Append(h.frames, [node |-> n, next |-> 1])
       /\ g.sub = Len(subIDs') /\ g.unm = Len(unmatched) /\ g.pos = Lengths'
  BY <1>1, <1>9, <1>10 DEF Here
<1> DEFINE above == h.frames
<1>12. /\ Starts(h, g, code, n, above)' /\ SameTables
       /\ \A j \in DOMAIN buckets : j \in DOMAIN buckets' /\ Longer(buckets[j], buckets'[j])
  <2>1. g.frames = Append(above, [node |-> n, next |-> 1]) /\ UNCHANGED <<lines, folded>>
    BY <1>1, <1>11
  <2> HIDE DEF above
  <2> QED BY <1>1, <1>6, <1>7, <1>10, <1>11, <2>1, EnterStarts
<1>13. Grown
  <2>1. Longer(rowIDs, rowIDs') /\ Longer(unmatched, unmatched')
    BY <1>1, SameLonger
  <2> QED BY <1>1, <1>8, <1>12, <2>1 DEF Grown
<1>14. PICK k : k = Top.next
  OBVIOUS
<1>15. IsSlot(TopOf(h).node, k, TopOf(h).next)' /\ TopOf(h).node.params[k] = n
  <2>1. IsSlot(TopOf(h).node, k, TopOf(h).next) /\ TopOf(h).node.params[k] = n
    BY <1>1, <1>4, <1>6, <1>14, HereSlot
  <2>2. IsSlot(TopOf(h).node, k, TopOf(h).next)' = IsSlot(TopOf(h).node, k, TopOf(h).next)
    BY <1>1 DEF IsSlot, IsFolded, CompactSlot
  <2> QED BY <2>1, <2>2
<1>16. SlotNode(h, g)'
  <2>1. subIDs'[h.sub + 1] = code /\ h.sub < Len(subIDs') /\ IsNode(TopOf(h).node.params[k])
    BY <1>1, <1>6, <1>8, <1>10, <1>15
  <2>2. g.row = h.row /\ g.sub = h.sub + 1 /\ g.unm = h.unm
    BY <1>8, <1>10, <1>11
  <2> QED BY <1>10, <1>12, <1>15, <2>1, <2>2 DEF SlotNode
<1> QED BY <1>13, <1>16 DEF Follows

LEMMA ChartLeaf ==
  ASSUME TypeInv, EncodeLeaf, NEW h, h = Here(stack), NEW g, g = Here(stack)'
  PROVE  Grown /\ Follows(h, g)'
<1>1. /\ pc = "encode" /\ EncodingParam /\ stack # <<>> /\ ~IsNode(Slot)
      /\ ~IsFolded(Top.node.id, Top.next) /\ subIDs' = Append(subIDs, 0) /\ stack' = Advanced
      /\ buckets' = Put(<<Top.code, CompactSlot(Top.node.id, Top.next)>>, Slot.value)
      /\ UNCHANGED <<lines, folded, rowIDs, table, unmatched>>
  BY DEF EncodeLeaf, EncodingParam
<1>2. BlockOK /\ EncStack(stack) /\ BucketsOK
  BY <1>1, TypedEncoding
<1>3. /\ Top.code \in DOMAIN table /\ Top.code \in Nat /\ CompactSlot(Top.node.id, Top.next) \in Nat
      /\ table[Top.code].id = Top.node.id
  BY <1>1, <1>2, LeafKey, TopFacts
<1>4. /\ Longer(subIDs, subIDs') /\ Len(subIDs') = Len(subIDs) + 1 /\ subIDs'[Len(subIDs) + 1] = 0
      /\ Len(subIDs) \in Nat
  BY <1>1, StreamTypes, AppendLonger
<1>5. /\ h.row = Len(rowIDs) /\ h.frames = View(stack) /\ h.sub = Len(subIDs)
      /\ h.unm = Len(unmatched) /\ h.pos = Lengths /\ h.frames # <<>> /\ TopOf(h).node = Top.node
  BY <1>1, HereTop
<1>6. View(stack)' = Stepped(View(stack))
  <2>1. View(Advanced) = Stepped(View(stack))
    BY <1>1, <1>2, AdvancedView
  <2>2. PICK s : s = Advanced
    OBVIOUS
  <2>3. View(s)' = View(s)
    BY <1>1, ViewKept
  <2> QED BY <1>1, <2>1, <2>2, <2>3
<1>7. /\ g.row = Len(rowIDs) /\ g.frames = Stepped(h.frames) /\ g.sub = Len(subIDs')
      /\ g.unm = Len(unmatched) /\ g.pos = Lengths'
  BY <1>1, <1>5, <1>6 DEF Here
<1>8. \E code, k, v : code = Top.code /\ k = Top.next /\ v = Slot.value
  OBVIOUS
<1>9. PICK code, k, v : code = Top.code /\ k = Top.next /\ v = Slot.value
  BY <1>8
<1>10. /\ IsSlot(TopOf(h).node, k, TopOf(h).next) /\ TopOf(h).next = CompactSlot(Top.node.id, k)
       /\ TopOf(h).node.params[k] = Slot
  BY <1>1, <1>9, HereSlot
<1> DEFINE key == <<code, TopOf(h).next>>
<1>11. key \in Nat \X Nat /\ buckets' = Put(key, v)
  BY <1>1, <1>3, <1>9, <1>10
<1> HIDE DEF key
<1>12. Gets(h, g, key, v)'
  BY <1>2, <1>5, <1>7, <1>11, PutGets
<1>13. Grown
  <2>1. Longer(rowIDs, rowIDs') /\ Longer(unmatched, unmatched') /\ SameTables
    BY <1>1, SameLonger, SameTable
  <2>2. \A j \in DOMAIN buckets : j \in DOMAIN buckets' /\ Longer(buckets[j], buckets'[j])
    BY <1>2, <1>11, PutGrows
  <2> QED BY <1>1, <1>4, <2>1, <2>2 DEF Grown
<1>14. IsSlot(TopOf(h).node, k, TopOf(h).next)'
  BY <1>1, <1>10 DEF IsSlot, IsFolded, CompactSlot
<1>15. SlotLeaf(h, g)'
  <2>1. subIDs'[h.sub + 1] = 0 /\ h.sub < Len(subIDs')
    BY <1>4, <1>5
  <2>2. ~IsNode(TopOf(h).node.params[k]) /\ TopOf(h).node.params[k].value = v
    BY <1>1, <1>9, <1>10
  <2>3. code \in DOMAIN table' /\ table'[code].id = TopOf(h).node.id
    BY <1>1, <1>3, <1>5, <1>9
  <2>4. g.row = h.row /\ g.sub = h.sub + 1 /\ g.unm = h.unm
    BY <1>4, <1>5, <1>7
  <2> QED BY <1>5, <1>7, <1>12, <1>14, <2>1, <2>2, <2>3, <2>4 DEF SlotLeaf, key
<1> QED BY <1>13, <1>15 DEF Follows

LEMMA ChartReturn ==
  ASSUME TypeInv, EncodeReturn, NEW h, h = Here(stack), NEW g, g = Here(stack)'
  PROVE  Grown /\ Follows(h, g)'
<1>1. /\ pc = "encode" /\ stack # <<>> /\ Top.next > Len(Top.node.params) /\ stack' = Front(stack)
      /\ UNCHANGED <<lines, folded, rowIDs, table, subIDs, buckets, unmatched>>
  BY DEF EncodeReturn, column
<1>2. BlockOK /\ EncStack(stack)
  BY <1>1, TypedEncoding
<1>3. Top.node \in BlockNodes /\ Top.next \in Nat \ {0}
  BY <1>1, <1>2, TopFacts
<1>4. /\ h.row = Len(rowIDs) /\ h.frames = View(stack) /\ h.sub = Len(subIDs)
      /\ h.unm = Len(unmatched) /\ h.pos = Lengths /\ h.frames # <<>> /\ TopOf(h).node = Top.node
      /\ TopOf(h).next = CompactSlot(Top.node.id, Top.next - 1) + 1
  BY <1>1, HereTop
<1>5. TopOf(h).next > CompactSlot(Top.node.id, Len(Top.node.params))
  <2>1. Len(Top.node.params) \in Nat
    BY <1>2, <1>3, ParamsLen
  <2>2. Top.next - 1 \in Nat /\ Len(Top.node.params) <= Top.next - 1
    BY <1>1, <1>3, <2>1
  <2>3. CompactSlot(Top.node.id, Len(Top.node.params)) <= CompactSlot(Top.node.id, Top.next - 1)
    BY <2>1, <2>2, CompactMonotone
  <2>4. /\ CompactSlot(Top.node.id, Len(Top.node.params)) \in Nat
        /\ CompactSlot(Top.node.id, Top.next - 1) \in Nat
    BY <2>1, <2>2, CompactFacts
  <2> QED BY <1>4, <2>3, <2>4
<1>6. View(stack)' = Popped(View(stack))
  <2>1. View(Front(stack)) = Popped(View(stack))
    BY <1>1, <1>2, FrontView
  <2>2. PICK s : s = Front(stack)
    OBVIOUS
  <2>3. View(s)' = View(s)
    BY <1>1, ViewKept
  <2> QED BY <1>1, <2>1, <2>2, <2>3
<1>7. /\ g.row = Len(rowIDs) /\ g.frames = Popped(h.frames) /\ g.sub = Len(subIDs)
      /\ g.unm = Len(unmatched) /\ g.pos = Lengths
  BY <1>1, <1>4, <1>6 DEF Here, Lengths, Bucket
<1>8. Grown
  <2>1. /\ Longer(rowIDs, rowIDs') /\ Longer(subIDs, subIDs') /\ Longer(unmatched, unmatched')
        /\ SameTables /\ \A j \in DOMAIN buckets : Longer(buckets[j], buckets'[j])
    BY <1>1, SameLonger, SameTable
  <2> QED BY <1>1, <2>1 DEF Grown
<1>9. Returns(h, g)'
  <2>1. CompactSlot(TopOf(h).node.id, Len(TopOf(h).node.params))'
           = CompactSlot(Top.node.id, Len(Top.node.params))
    BY <1>1, <1>4 DEF CompactSlot, IsFolded
  <2> QED BY <1>4, <1>5, <1>7, <2>1 DEF Returns
<1> QED BY <1>8, <1>9 DEF Follows

\* The way of the decoder, as the encoder has written it so far: from the
\* start to where the encoder is, each point followed by the next, and the
\* points between rows where the marks were made.
Start == [row |-> 0, frames |-> <<>>, sub |-> 0, unm |-> 0, pos |-> [k \in Nat \X Nat |-> 0]]

Now == Here(IF pc = "encode" THEN stack ELSE <<>>)

MarkAt(c, m) ==
    /\ c.sub = m.sub /\ c.unm = m.unm
    /\ \A k \in Nat \X Nat : c.pos[k] = IF k \in DOMAIN m.pos THEN m.pos[k] ELSE 0

Marked(c) == c.row + 1 \in 1..Len(marks) /\ MarkAt(c, marks[c.row + 1])

RowsCharted ==
    /\ \E S : marks \in Seq(S)
    /\ IF pc \in {"profile", "encode"}
       THEN Len(marks) = Len(rowIDs) /\ Len(rowIDs) <= Len(lines)
       ELSE Len(marks) = Len(rowIDs) + 1 /\ Len(rowIDs) = Len(lines)

Charted(C) ==
    /\ RowsCharted /\ Start \in C /\ Now \in C
    /\ \A c \in C : /\ ConfigOK(c)
                    /\ c = Now \/ \E d \in C : Follows(c, d)
                    /\ c.frames = <<>> => \/ Marked(c)
                                          \/ c = Now /\ pc \in {"profile", "encode"}
    /\ pc = "profile" => C = {Start}

\* The encoder never comes to a point that is none.
ViewOK == pc = "encode" => ConfigOK(Here(stack))

LEMMA ViewConfig == TypeInv => ViewOK
<1> SUFFICES ASSUME TypeInv, pc = "encode" PROVE ConfigOK(Here(stack))
  BY DEF ViewOK
<1>1. EncStack(stack) /\ BucketsOK
  BY TypedEncoding
<1>2. stack \in Seq(NodeFrame) /\ Len(stack) <= MaxCascadeDepth + 1
  BY <1>1 DEF EncStack
<1>3. View(stack) \in Seq(Frame) /\ Len(View(stack)) <= MaxCascadeDepth + 1
  BY <1>2, ViewFacts
<1>4. Lengths \in [Nat \X Nat -> Nat]
  BY <1>1, LengthsType
<1> DEFINE c == Here(stack)
<1>5. /\ c.row = Len(rowIDs) /\ c.frames = View(stack) /\ c.sub = Len(subIDs)
      /\ c.unm = Len(unmatched) /\ c.pos = Lengths
  BY DEF Here
<1> HIDE DEF c
<1>6. ConfigOK(c)
  BY <1>3, <1>4, <1>5, StreamTypes DEF ConfigOK, Frame
<1> QED BY <1>6 DEF c

\* The streams as long as they are now are where Here() is.
LEMMA HereMark ==
  ASSUME NEW h, h = Here(<<>>), BucketsOK
  PROVE  h.row = Len(rowIDs) /\ h.frames = <<>> /\ MarkAt(h, StreamLengths)
<1>1. /\ h.row = Len(rowIDs) /\ h.frames = View(<<>>) /\ h.sub = Len(subIDs)
      /\ h.unm = Len(unmatched) /\ h.pos = Lengths
  BY DEF Here
<1>2. /\ StreamLengths.sub = Len(subIDs) /\ StreamLengths.unm = Len(unmatched)
      /\ StreamLengths.pos = [k \in DOMAIN buckets |-> Len(buckets[k])]
  BY DEF StreamLengths
<1> DEFINE p == [k \in DOMAIN buckets |-> Len(buckets[k])]
<1>3. \A k \in Nat \X Nat : Lengths[k] = IF k \in DOMAIN p THEN p[k] ELSE 0
  <2>1. Len(<<>>) = 0
    OBVIOUS
  <2> QED BY <2>1 DEF Lengths, Bucket
<1> HIDE DEF p
<1>4. StreamLengths.pos = p
  BY <1>2 DEF p
<1> QED BY <1>1, <1>2, <1>3, <1>4, EmptyView DEF MarkAt

LEMMA ChartMarks ==
  ASSUME RowsCharted, NEW c, c.row \in Nat, Marked(c), NEW m, marks' = Append(marks, m) \/ marks' = marks
  PROVE  Marked(c)'
<1>1. PICK S : marks \in Seq(S)
  BY DEF RowsCharted
<1>2. c.row + 1 \in 1..Len(marks') /\ marks'[c.row + 1] = marks[c.row + 1]
  BY <1>1 DEF Marked
<1> QED BY <1>2 DEF Marked, MarkAt

\* A step of the encoder adds the point it comes to.
LEMMA ChartGrows ==
  ASSUME NEW C, Charted(C), TypeInv, ViewOK', pc = "encode", pc' = "encode", Grown,
         NEW h, h = Here(stack), NEW g, g = Here(stack)', Follows(h, g)',
         \/ stack # <<>> /\ UNCHANGED <<marks, rowIDs>>
         \/ /\ stack = <<>> /\ Len(rowIDs) < Len(lines) /\ marks' = Append(marks, StreamLengths)
            /\ \E id : rowIDs' = Append(rowIDs, id)
  PROVE  Charted(C \cup {g})'
<1>1. h = Now /\ g = Now' /\ BucketsOK /\ h \in C
  BY TypedEncoding DEF Now, Charted
<1>2. RowsCharted'
  <2>1. PICK S : marks \in Seq(S)
    BY DEF Charted, RowsCharted
  <2>2. rowIDs \in Seq(Nat) /\ Len(rowIDs) \in Nat /\ lines' = lines
    BY StreamTypes DEF Grown
  <2>3. Len(marks) = Len(rowIDs) /\ Len(rowIDs) <= Len(lines)
    BY DEF Charted, RowsCharted
  <2>4. Len(lines) \in Nat
    <3>1. BlockOK
      BY TypedEncoding
    <3> DEFINE D == Seq(Char)
    <3>2. lines \in Seq(D)
      BY <3>1 DEF BlockOK
    <3> HIDE DEF D
    <3> QED BY <3>2
  <2>5. CASE stack # <<>>
    BY <2>1, <2>2, <2>3, <2>5 DEF RowsCharted
  <2>6. CASE stack = <<>>
    <3>1. marks' = Append(marks, StreamLengths) /\ Len(rowIDs) < Len(lines)
      BY <2>6
    <3>2. PICK m : m = StreamLengths
      OBVIOUS
    <3>3. marks' \in Seq(S \cup {m}) /\ Len(marks') = Len(marks) + 1
      BY <2>1, <3>1, <3>2
    <3>4. Len(rowIDs') = Len(rowIDs) + 1
      BY <2>2, <2>6
    <3> QED BY <2>2, <2>3, <2>4, <3>1, <3>3, <3>4 DEF RowsCharted
  <2> QED BY <2>5, <2>6
<1>3. ConfigOK(g)'
  BY DEF ViewOK
<1>4. ASSUME NEW c \in C
      PROVE  /\ ConfigOK(c)' /\ \E d \in C \cup {g} : Follows(c, d)'
             /\ c.frames = <<>> => Marked(c)'
  <2>1. ConfigOK(c)
    BY DEF Charted
  <2>2. ConfigOK(c)'
    BY <2>1 DEF ConfigOK, BlockNodes, Grown
  <2>3. \E d \in C \cup {g} : Follows(c, d)'
    <3>1. CASE c = Now
      BY <3>1, <1>1
    <3>2. CASE c # Now
      <4>1. PICK d \in C : Follows(c, d)
        BY <3>2 DEF Charted
      <4> QED BY <4>1, <1>1, <2>1, FollowsStays
    <3> QED BY <3>1, <3>2
  <2>4. ASSUME c.frames = <<>> PROVE Marked(c)'
    <3>1. c.row \in Nat /\ RowsCharted
      BY <2>1 DEF ConfigOK, Charted
    <3>2. CASE Marked(c)
      BY <3>1, <3>2, ChartMarks
    <3>3. CASE ~Marked(c)
      <4>1. c = Now /\ c = h
        BY <1>1, <2>4, <3>3 DEF Charted
      <4>2. stack = <<>>
        <5>1. CASE stack # <<>>
          <6>1. h.frames # <<>>
            BY <5>1, HereTop
          <6> QED BY <6>1, <2>4, <4>1
        <5> QED BY <5>1
      <4>3. c.row = Len(rowIDs) /\ MarkAt(c, StreamLengths)
        BY <1>1, <4>1, <4>2, HereMark
      <4>4. marks' = Append(marks, StreamLengths) /\ Len(marks) = Len(rowIDs)
        BY <4>2 DEF Charted, RowsCharted
      <4>5. PICK S : marks \in Seq(S)
        BY <3>1 DEF RowsCharted
      <4>6. PICK m : m = StreamLengths
        OBVIOUS
      <4>7. marks'[c.row + 1] = m /\ c.row + 1 \in 1..Len(marks')
        BY <4>3, <4>4, <4>5, <4>6
      <4> QED BY <4>3, <4>6, <4>7 DEF Marked, MarkAt
    <3> QED BY <3>2, <3>3
  <2> QED BY <2>2, <2>3, <2>4
<1>5. Start \in C
  BY DEF Charted
<1> QED BY <1>1, <1>2, <1>3, <1>4, <1>5 DEF Charted

LEMMA RowAppended ==
  ASSUME TypeInv, EncodeMatched \/ EncodeUnmatched
  PROVE  /\ pc = "encode" /\ pc' = "encode" /\ stack = <<>> /\ Len(rowIDs) < Len(lines)
         /\ marks' = Append(marks, StreamLengths) /\ \E id : rowIDs' = Append(rowIDs, id)
BY DEF EncodeMatched, EncodeUnmatched, EncodingRow

LEMMA WayEncode ==
  ASSUME NEW C, Charted(C), TypeInv, ViewOK',
         EncodeMatched \/ EncodeUnmatched \/ EncodeNode \/ EncodeLeaf \/ EncodeReturn
  PROVE  \E g : Charted(C \cup {g})'
<1>1. \E h, g : h = Here(stack) /\ g = Here(stack)'
  OBVIOUS
<1>2. PICK h, g : h = Here(stack) /\ g = Here(stack)'
  BY <1>1
<1>3. CASE EncodeMatched
  <2>1. Grown /\ Follows(h, g)'
    BY <1>2, <1>3, ChartMatched
  <2> QED BY <1>2, <1>3, <2>1, RowAppended, ChartGrows
<1>4. CASE EncodeUnmatched
  <2>1. Grown /\ Follows(h, g)'
    BY <1>2, <1>4, ChartUnmatched
  <2> QED BY <1>2, <1>4, <2>1, RowAppended, ChartGrows
<1>5. CASE EncodeNode
  <2>1. Grown /\ Follows(h, g)'
    BY <1>2, <1>5, ChartNode
  <2>2. pc = "encode" /\ pc' = "encode" /\ stack # <<>> /\ UNCHANGED <<marks, rowIDs>>
    BY <1>5 DEF EncodeNode, EncodingParam
  <2> QED BY <1>2, <2>1, <2>2, ChartGrows
<1>6. CASE EncodeLeaf
  <2>1. Grown /\ Follows(h, g)'
    BY <1>2, <1>6, ChartLeaf
  <2>2. pc = "encode" /\ pc' = "encode" /\ stack # <<>> /\ UNCHANGED <<marks, rowIDs>>
    BY <1>6 DEF EncodeLeaf, EncodingParam
  <2> QED BY <1>2, <2>1, <2>2, ChartGrows
<1>7. CASE EncodeReturn
  <2>1. Grown /\ Follows(h, g)'
    BY <1>2, <1>7, ChartReturn
  <2>2. pc = "encode" /\ pc' = "encode" /\ stack # <<>> /\ UNCHANGED <<marks, rowIDs>>
    BY <1>7 DEF EncodeReturn, column
  <2> QED BY <1>2, <2>1, <2>2, ChartGrows
<1> QED BY <1>3, <1>4, <1>5, <1>6, <1>7

\* What the chart rests on when the streams stay.
LEMMA ChartedSame ==
  ASSUME NEW C, Charted(C), UNCHANGED <<lines, folded, rowIDs, table, subIDs, buckets, unmatched>>,
         Now' = Now, RowsCharted', pc # "profile", pc' # "profile",
         \A c \in C : c.frames = <<>> => Marked(c)' \/ (c = Now' /\ pc' = "encode")
  PROVE  Charted(C)'
<1>1. BlockNodes' = BlockNodes
  BY DEF BlockNodes
<1>2. \A id, k : CompactSlot(id, k)' = CompactSlot(id, k) /\ IsFolded(id, k)' = IsFolded(id, k)
  BY DEF CompactSlot, IsFolded
<1>3. \A n, k, M : IsSlot(n, k, M)' = IsSlot(n, k, M)
  BY <1>2 DEF IsSlot
<1>4. \A c, d, k, v : Gets(c, d, k, v)' = Gets(c, d, k, v)
  BY DEF Gets
<1>5. \A c, d, code, n, callers : Starts(c, d, code, n, callers)' = Starts(c, d, code, n, callers)
  BY <1>1, <1>4 DEF Starts
<1>6. ASSUME NEW c, NEW d, Follows(c, d) PROVE Follows(c, d)'
  <2>0. \/ RowMatched(c, d) \/ RowUnmatched(c, d)
        \/ SlotLeaf(c, d) \/ SlotNode(c, d) \/ Returns(c, d)
    BY <1>6 DEF Follows
  <2>1. CASE RowMatched(c, d)
    <3>1. \E code, none : code = rowIDs[c.row + 1] /\ none = <<>>
      OBVIOUS
    <3>2. PICK code, none : code = rowIDs[c.row + 1] /\ none = <<>>
      BY <3>1
    <3>3. PICK n \in Resolved[lines[c.row + 1]] : Starts(c, d, code, n, none)
      BY <2>1, <3>2 DEF RowMatched
    <3>4. Starts(c, d, code, n, none)'
      BY <1>5, <3>3
    <3>5. RowMatched(c, d)'
      BY <2>1, <3>2, <3>4 DEF RowMatched
    <3> QED BY <3>5 DEF Follows
  <2>2. CASE RowUnmatched(c, d)
    BY <2>2 DEF Follows, RowUnmatched
  <2>3. CASE SlotLeaf(c, d)
    <3>1. SlotLeaf(c, d)'
      BY <1>3, <1>4, <2>3 DEF SlotLeaf
    <3> QED BY <3>1 DEF Follows
  <2>4. CASE SlotNode(c, d)
    <3>1. PICK k : /\ IsSlot(TopOf(c).node, k, TopOf(c).next) /\ IsNode(TopOf(c).node.params[k])
                   /\ Starts(c, d, subIDs[c.sub + 1], TopOf(c).node.params[k], c.frames)
      BY <2>4 DEF SlotNode
    <3>2. \E code : code = subIDs[c.sub + 1]
      OBVIOUS
    <3>3. PICK code : code = subIDs[c.sub + 1]
      BY <3>2
    <3>4. Starts(c, d, code, TopOf(c).node.params[k], c.frames)'
      BY <1>5, <3>1, <3>3
    <3>5. SlotNode(c, d)'
      BY <1>3, <2>4, <3>1, <3>3, <3>4 DEF SlotNode
    <3> QED BY <3>5 DEF Follows
  <2>5. CASE Returns(c, d)
    <3>1. Returns(c, d)'
      BY <1>2, <2>5 DEF Returns
    <3> QED BY <3>1 DEF Follows
  <2> QED BY <2>0, <2>1, <2>2, <2>3, <2>4, <2>5
<1>7. ASSUME NEW c \in C
      PROVE  ConfigOK(c)' /\ (c = Now' \/ \E d \in C : Follows(c, d)')
  <2>1. ConfigOK(c)'
    <3>1. ConfigOK(c)
      BY DEF Charted
    <3> QED BY <1>1, <3>1 DEF ConfigOK
  <2> QED BY <1>6, <2>1 DEF Charted
<1>8. Start \in C /\ Now' \in C
  BY DEF Charted
<1> QED BY <1>7, <1>8 DEF Charted

LEMMA WayInit == Init => Charted({Start})
<1> SUFFICES ASSUME Init PROVE Charted({Start})
  OBVIOUS
<1>1. /\ rowIDs = <<>> /\ subIDs = <<>> /\ unmatched = <<>> /\ marks = <<>> /\ pc = "profile"
      /\ DOMAIN buckets = {} /\ lines \in Blocks
  BY DEF Init
<1>2. Len(<<>>) = 0 /\ <<>> \in Seq({})
  OBVIOUS
<1>3. Lengths = [k \in Nat \X Nat |-> 0]
  BY <1>1, <1>2 DEF Lengths, Bucket
<1>4. Now = Start
  BY <1>1, <1>2, <1>3, EmptyView DEF Now, Here, Start
<1>5. ConfigOK(Start)
  <2>1. [k \in Nat \X Nat |-> 0] \in [Nat \X Nat -> Nat]
    OBVIOUS
  <2>2. <<>> \in Seq(Frame) /\ Len(<<>>) = 0 /\ MaxCascadeDepth \in Nat
    BY CascadeAssumption
  <2> QED BY <2>1, <2>2 DEF ConfigOK, Start, Frame
<1>6. RowsCharted
  <2>1. Len(lines) \in Nat
    <3>1. BlockOK
      BY <1>1, BlockFacts
    <3> DEFINE D == Seq(Char)
    <3>2. lines \in Seq(D)
      BY <3>1 DEF BlockOK
    <3> HIDE DEF D
    <3> QED BY <3>2
  <2> QED BY <1>1, <1>2, <2>1 DEF RowsCharted
<1> QED BY <1>1, <1>4, <1>5, <1>6 DEF Charted

LEMMA WayProfile ==
  ASSUME NEW C, Charted(C), TypeInv, ProfileBlock
  PROVE  Charted(C)'
<1>1. /\ pc = "profile" /\ pc' = "encode" /\ stack' = stack
      /\ UNCHANGED <<lines, rowIDs, table, subIDs, buckets, unmatched, marks>>
  BY DEF ProfileBlock, column
<1>2. C = {Start} /\ Now = Start /\ RowsCharted /\ ConfigOK(Start)
  BY <1>1 DEF Charted
<1>3. Now = Here(<<>>)
  BY <1>1 DEF Now
<1>4. Now' = Start
  <2>0. stack = <<>>
    BY <1>1 DEF TypeInv, StackOK
  <2>1. Now' = Here(<<>>)'
    BY <1>1, <2>0 DEF Now
  <2>2. Here(<<>>)' = Here(<<>>)
    BY <1>1 DEF Here, Lengths, Bucket, View
  <2> QED BY <1>2, <1>3, <2>1, <2>2
<1>5. RowsCharted'
  BY <1>1, <1>2 DEF RowsCharted
<1>6. ConfigOK(Start)'
  BY <1>1, <1>2 DEF ConfigOK, BlockNodes
<1> QED BY <1>1, <1>2, <1>4, <1>5, <1>6 DEF Charted

LEMMA WayFolded ==
  ASSUME NEW C, Charted(C), TypeInv, EncodeFolded
  PROVE  Charted(C)'
<1>1. /\ pc = "encode" /\ pc' = "encode" /\ stack # <<>>
      /\ UNCHANGED <<lines, folded, rowIDs, table, subIDs, buckets, unmatched, marks>>
  BY DEF EncodeFolded, EncodingParam, column
<1>2. Now' = Now
  <2>1. Here(stack)' = Here(stack)
    BY ChartFolded
  <2> QED BY <1>1, <2>1 DEF Now
<1>3. RowsCharted'
  BY <1>1 DEF RowsCharted, Charted
<1>4. \A c \in C : c.frames = <<>> => Marked(c)' \/ (c = Now' /\ pc' = "encode")
  <2> TAKE c \in C
  <2> HAVE c.frames = <<>>
  <2>1. Marked(c) \/ c = Now
    BY DEF Charted
  <2>2. Marked(c)' = Marked(c)
    BY <1>1 DEF Marked
  <2> QED BY <1>1, <1>2, <2>1, <2>2
<1> QED BY <1>1, <1>2, <1>3, <1>4, ChartedSame

\* The last mark, and nothing under way any more.
LEMMA WayDone ==
  ASSUME NEW C, Charted(C), TypeInv, EncodeDone
  PROVE  Charted(C)'
<1>1. /\ pc = "encode" /\ pc' = "transfer" /\ stack = <<>> /\ Len(rowIDs) = Len(lines)
      /\ marks' = Append(marks, StreamLengths)
      /\ UNCHANGED <<lines, folded, rowIDs, table, subIDs, buckets, unmatched, stack>>
  BY DEF EncodeDone, column
<1>2. Now = Here(<<>>) /\ Now' = Now
  BY <1>1 DEF Now, Here, View, CompactSlot, IsFolded, Lengths, Bucket
<1>3. RowsCharted /\ BucketsOK /\ Len(rowIDs) \in Nat
  BY <1>1, TypedEncoding, StreamTypes DEF Charted
<1>4. PICK S : marks \in Seq(S)
  BY <1>3 DEF RowsCharted
<1>5. PICK m : m = StreamLengths
  OBVIOUS
<1>6. marks' \in Seq(S \cup {m}) /\ Len(marks') = Len(marks) + 1 /\ marks'[Len(marks) + 1] = m
  BY <1>1, <1>4, <1>5
<1>7. Len(marks) = Len(rowIDs)
  BY <1>1, <1>3 DEF RowsCharted
<1>8. RowsCharted'
  BY <1>1, <1>6, <1>7 DEF RowsCharted
<1>9. \A c \in C : c.frames = <<>> => Marked(c)'
  <2> TAKE c \in C
  <2> HAVE c.frames = <<>>
  <2>1. ConfigOK(c) /\ (Marked(c) \/ c = Now)
    BY DEF Charted
  <2>2. CASE Marked(c)
    <3>1. c.row \in Nat
      BY <2>1 DEF ConfigOK
    <3> QED BY <1>1, <1>3, <2>2, <3>1, ChartMarks
  <2>3. CASE c = Now
    <3>1. c.row = Len(rowIDs) /\ MarkAt(c, m)
      BY <1>2, <1>3, <1>5, <2>3, HereMark
    <3> QED BY <1>3, <1>6, <1>7, <3>1 DEF Marked, MarkAt
  <2> QED BY <2>1, <2>2, <2>3
<1> QED BY <1>1, <1>2, <1>8, <1>9, ChartedSame

\* From then on neither the streams nor the marks change.
LEMMA WayRead ==
  ASSUME NEW C, Charted(C), TypeInv, pc \in {"transfer", "decode", "done"},
         pc' \in {"transfer", "decode", "done"},
         UNCHANGED <<lines, folded, rowIDs, table, subIDs, buckets, unmatched, marks>>
  PROVE  Charted(C)'
<1>1. Now = Here(<<>>) /\ Now' = Now
  BY DEF Now, Here, View, CompactSlot, IsFolded, Lengths, Bucket
<1>2. RowsCharted'
  BY DEF RowsCharted, Charted
<1>3. \A c \in C : c.frames = <<>> => Marked(c)'
  BY DEF Charted, Marked
<1> QED BY <1>1, <1>2, <1>3, ChartedSame

\* Where the i-th literal part of a placed text ends.
EndOf(T, bt, i) == bt[Shuts(T, i) - 1]

Standing(n, l, lo, hi, bt) ==
    /\ l \in Seq(Char) /\ lo \in 0..Len(l) /\ hi \in lo..Len(l)
    /\ Placed(n, l, lo, hi, bt)

LEMMA PlacedPart ==
  ASSUME NEW n, NEW l, NEW lo, NEW hi, NEW bt, Standing(n, l, lo, hi, bt),
         NEW T, T = Specialised(n), NEW i \in 0..Len(Holes(T))
  PROVE  /\ Part(T, i) = SubSeq(l, bt[Opens(T, i)] + 1, EndOf(T, bt, i))
         /\ bt[Opens(T, i)] \in lo..Len(l) /\ EndOf(T, bt, i) \in bt[Opens(T, i)]..Len(l)
         /\ Len(l) \in Nat
<1>1. /\ l \in Seq(Char) /\ lo \in 0..Len(l) /\ hi \in lo..Len(l) /\ Len(l) \in Nat
      /\ T \in Text /\ bt \in [0..Len(T) -> lo..hi] /\ Spans(bt, T, l, 0)
  BY DEF Standing, Placed
<1>2. bt \in [0..Len(T) -> 0..Len(l)]
  <2>1. lo..hi \subseteq 0..Len(l)
    BY <1>1
  <2> QED BY <1>1, <2>1
<1>3. /\ Part(T, i) = SubSeq(l, bt[Opens(T, i)] + 1, bt[Shuts(T, i) - 1])
      /\ bt[Opens(T, i)] <= bt[Shuts(T, i) - 1]
  BY <1>1, <1>2, PartAligned
<1>4. Opens(T, i) \in 0..Len(T) /\ Shuts(T, i) - 1 \in 0..Len(T)
  <2>1. T \in Seq(Char \cup {Placeholder}) /\ Len(T) \in Nat
    BY <1>1 DEF Text
  <2>2. Opens(T, i) \in 0..Len(T) /\ Shuts(T, i) \in (Opens(T, i) + 1)..(Len(T) + 1)
    BY <2>1, PartFacts
  <2> QED BY <2>1, <2>2
<1>5. bt[Opens(T, i)] \in lo..hi /\ bt[Shuts(T, i) - 1] \in lo..hi
  BY <1>1, <1>4
<1> QED BY <1>1, <1>3, <1>5 DEF EndOf

\* What render writes first.
PrefixOf(n) == IF n.suffix THEN n.prefix ELSE <<>>

\* The prefix and the first part are what stands there.
StartPlaced(n, l, lo, bt, T) ==
    /\ EndOf(T, bt, 0) \in lo..Len(l)
    /\ PrefixOf(n) \o Part(T, 0) = SubSeq(l, lo + 1, EndOf(T, bt, 0))

LEMMA PlacedStart ==
  ASSUME NEW n, NEW l, NEW lo, NEW hi, NEW bt, Standing(n, l, lo, hi, bt),
         NEW T, T = Specialised(n)
  PROVE  StartPlaced(n, l, lo, bt, T)
<1>1. /\ l \in Seq(Char) /\ lo \in 0..Len(l) /\ n.prefix = SubSeq(l, lo + 1, bt[0])
      /\ ~n.suffix => bt[0] = lo
      /\ T \in Seq(Char \cup {Placeholder})
  BY DEF Standing, Placed, Text
<1>2. 0 \in 0..Len(Holes(T)) /\ Opens(T, 0) = 0
  BY <1>1, HolesFacts DEF Opens
<1> DEFINE a == bt[0]
           b == EndOf(T, bt, 0)
<1>3. Part(T, 0) = SubSeq(l, a + 1, b) /\ a \in lo..Len(l) /\ b \in a..Len(l) /\ Len(l) \in Nat
  <2>1. /\ Part(T, 0) = SubSeq(l, bt[Opens(T, 0)] + 1, EndOf(T, bt, 0))
        /\ bt[Opens(T, 0)] \in lo..Len(l) /\ EndOf(T, bt, 0) \in bt[Opens(T, 0)]..Len(l)
        /\ Len(l) \in Nat
    BY <1>2, PlacedPart
  <2> QED BY <1>2, <2>1
<1> HIDE DEF a, b
<1>4. PrefixOf(n) = SubSeq(l, lo + 1, a)
  <2>1. CASE n.suffix
    BY <1>1, <2>1 DEF a, PrefixOf
  <2>2. CASE ~n.suffix
    <3>1. a = lo /\ PrefixOf(n) = <<>>
      BY <1>1, <2>2 DEF a, PrefixOf
    <3>2. SubSeq(l, lo + 1, lo) \in Seq(Char) /\ Len(SubSeq(l, lo + 1, lo)) = lo - lo
      <4>1. lo \in lo..Len(l)
        BY <1>1
      <4> QED BY <1>1, <4>1, Window
    <3>3. SubSeq(l, lo + 1, lo) = <<>>
      <4> DEFINE e == SubSeq(l, lo + 1, lo)
      <4>1. e \in Seq(Char) /\ Len(e) = 0
        BY <1>1, <3>2
      <4> HIDE DEF e
      <4>2. e = <<>>
        BY <4>1, EmptySeq
      <4> QED BY <4>2 DEF e
    <3> QED BY <3>1, <3>3
  <2> QED BY <2>1, <2>2
<1>5. SubSeq(l, lo + 1, a) \o SubSeq(l, a + 1, b) = SubSeq(l, lo + 1, b)
  BY <1>1, <1>3, Glue
<1>6. b \in lo..Len(l)
  BY <1>1, <1>3
<1> QED BY <1>3, <1>4, <1>5, <1>6 DEF b, StartPlaced

\* What is behind the i-th placeholder, the m-th symbol.
Behind(n, l, bt, T, i, k, m) ==
    /\ m \in 1..Len(T) /\ Opens(T, i) = m /\ EndOf(T, bt, i - 1) = bt[m-1]
    /\ bt[m-1] \in 0..Len(l) /\ bt[m] \in bt[m-1]..Len(l)
    /\ ~IsNode(n.params[k]) => n.params[k].value = SubSeq(l, bt[m-1] + 1, bt[m])
    /\ IsNode(n.params[k]) => Rooted(n.params[k], l, bt[m-1], bt[m])

LEMMA PlacedSlot ==
  ASSUME BlockOK, NEW n, NEW l, NEW lo, NEW hi, NEW bt, Standing(n, l, lo, hi, bt),
         NEW T, T = Specialised(n), NEW i \in 1..Len(Holes(T)), NEW k, IsSlot(n, k, i),
         NEW m, m = Holes(T)[i]
  PROVE  Behind(n, l, bt, T, i, k, m)
<1>1. /\ T \in Seq(Char \cup {Placeholder}) /\ n \in BlockNodes
      /\ \A M \in 1..Len(T) : T[M] = Placeholder =>
            /\ bt[M-1] \in 0..Len(l) /\ bt[M] \in bt[M-1]..Len(l)
            /\ \E j \in DOMAIN n.params :
                /\ ~IsFolded(n.id, j) /\ CompactSlot(n.id, j) = Slots(T, M)
                /\ ~IsNode(n.params[j]) => n.params[j].value = SubSeq(l, bt[M-1] + 1, bt[M])
                /\ IsNode(n.params[j]) => Rooted(n.params[j], l, bt[M-1], bt[M])
  BY DEF Standing, Placed, Text
<1>2. m \in 1..Len(T) /\ T[m] = Placeholder /\ Slots(T, m) = i /\ Len(Holes(T)) \in Nat
  BY <1>1, HolesFacts
<1>3. PICK j \in DOMAIN n.params :
         /\ ~IsFolded(n.id, j) /\ CompactSlot(n.id, j) = i
         /\ ~IsNode(n.params[j]) => n.params[j].value = SubSeq(l, bt[m-1] + 1, bt[m])
         /\ IsNode(n.params[j]) => Rooted(n.params[j], l, bt[m-1], bt[m])
  BY <1>1, <1>2
<1>4. j = k
  <2>1. DOMAIN n.params = 1..Len(n.params) /\ Len(n.params) \in Nat
    BY <1>1, ParamsLen
  <2>2. k \in DOMAIN n.params /\ ~IsFolded(n.id, k) /\ CompactSlot(n.id, k) = i
    BY DEF IsSlot
  <2>3. j \in Nat \ {0} /\ k \in Nat \ {0}
    BY <2>1, <2>2
  <2> QED BY <1>3, <2>2, <2>3, CompactUnique
<1>5. Opens(T, i) = m /\ EndOf(T, bt, i - 1) = bt[m-1]
  <2>1. i # 0 /\ i - 1 # Len(Holes(T)) /\ (i - 1) + 1 = i
    BY <1>2
  <2> QED BY <2>1 DEF Opens, Shuts, EndOf
<1> QED BY <1>1, <1>2, <1>3, <1>4, <1>5 DEF Behind

\* The value and the part behind it are what stands there.
LeafPlaced(n, l, bt, T, i, k, P) ==
    /\ P \in 0..Len(l) /\ EndOf(T, bt, i) \in P..Len(l)
    /\ n.params[k].value \o Part(T, i) = SubSeq(l, P + 1, EndOf(T, bt, i))

LEMMA PlacedLeaf ==
  ASSUME BlockOK, NEW n, NEW l, NEW lo, NEW hi, NEW bt, Standing(n, l, lo, hi, bt),
         NEW T, T = Specialised(n), NEW i \in 1..Len(Holes(T)), NEW k, IsSlot(n, k, i),
         ~IsNode(n.params[k]), NEW P, P = EndOf(T, bt, i - 1)
  PROVE  LeafPlaced(n, l, bt, T, i, k, P)
<1>1. PICK m : m = Holes(T)[i]
  OBVIOUS
<1>2. /\ Opens(T, i) = m /\ P = bt[m-1]
      /\ P \in 0..Len(l) /\ bt[m] \in P..Len(l)
      /\ n.params[k].value = SubSeq(l, P + 1, bt[m])
  <2>1. Behind(n, l, bt, T, i, k, m)
    BY <1>1, PlacedSlot
  <2>2. P = bt[m-1]
    BY <2>1 DEF Behind
  <2> QED BY <2>1, <2>2 DEF Behind
<1>3. i \in 0..Len(Holes(T)) /\ l \in Seq(Char)
  BY DEF Standing
<1>4. /\ Part(T, i) = SubSeq(l, bt[m] + 1, EndOf(T, bt, i))
      /\ EndOf(T, bt, i) \in bt[m]..Len(l) /\ Len(l) \in Nat
  <2>1. /\ Part(T, i) = SubSeq(l, bt[Opens(T, i)] + 1, EndOf(T, bt, i))
        /\ EndOf(T, bt, i) \in bt[Opens(T, i)]..Len(l) /\ Len(l) \in Nat
    BY <1>3, PlacedPart
  <2> QED BY <1>2, <2>1
<1> DEFINE a == bt[m]
           b == EndOf(T, bt, i)
<1>5. P \in 0..Len(l) /\ a \in P..Len(l) /\ b \in a..Len(l) /\ Len(l) \in Nat
  BY <1>2, <1>4
<1> HIDE DEF a, b
<1>6. SubSeq(l, P + 1, a) \o SubSeq(l, a + 1, b) = SubSeq(l, P + 1, b)
  BY <1>3, <1>5, Glue
<1>7. b \in P..Len(l)
  BY <1>5
<1> QED BY <1>2, <1>4, <1>5, <1>6, <1>7 DEF a, b, LeafPlaced

LEMMA PlacedEnd ==
  ASSUME NEW n, NEW l, NEW lo, NEW hi, NEW bt, Standing(n, l, lo, hi, bt),
         NEW T, T = Specialised(n)
  PROVE  EndOf(T, bt, Len(Holes(T))) = hi
<1>1. bt[Len(T)] = hi /\ Len(T) \in Nat
  BY DEF Standing, Placed, Text
<1>2. Shuts(T, Len(Holes(T))) - 1 = Len(T)
  BY <1>1 DEF Shuts
<1> QED BY <1>1, <1>2 DEF EndOf

\* How far the row under way is written: each node under way stands in its
\* line, where a placeholder of its caller is, and the innermost is written
\* up to the next placeholder.
StandsAt(f, l, b) == Standing(f.node, l, b.lo, b.hi, b.at)

Linked(f, a, b) ==
    LET T == Specialised(f.node) IN
    f.next \in 1..Len(Holes(T)) /\ b.hi = a.at[Holes(T)[f.next]]

Reached(f, b, P) ==
    LET T == Specialised(f.node) IN
    f.next - 1 \in 0..Len(Holes(T)) /\ P = EndOf(T, b.at, f.next - 1)

Writes(F, l, w, P) ==
    /\ F \in Seq(Frame) /\ F # <<>>
    /\ \A j \in 1..Len(F) : StandsAt(F[j], l, w[j])
    /\ w[1].hi = Len(l)
    /\ \A j \in 1..(Len(F) - 1) : Linked(F[j], w[j], w[j+1])
    /\ Reached(F[Len(F)], w[Len(F)], P)

LEMMA WritesFacts ==
  ASSUME NEW F, NEW l, NEW w, NEW P, Writes(F, l, w, P), NEW f, f = F[Len(F)],
         NEW b, b = w[Len(F)]
  PROVE  /\ Len(F) \in Nat \ {0} /\ f \in Frame /\ StandsAt(f, l, b) /\ Reached(f, b, P)
         /\ P \in 0..Len(l) /\ l \in Seq(Char) /\ f.node \in BlockNodes /\ f.next \in Nat
<1>1. F \in Seq(Frame) /\ Len(F) \in Nat \ {0}
  BY EmptySeq DEF Writes
<1>2. f \in Frame /\ StandsAt(f, l, b) /\ Reached(f, b, P)
  BY <1>1 DEF Writes
<1>3. f.node \in BlockNodes /\ f.next \in Nat
  BY <1>2 DEF Frame
<1>4. P \in 0..Len(l) /\ l \in Seq(Char)
  <2> DEFINE T == Specialised(f.node)
             i == f.next - 1
  <2>1. Standing(f.node, l, b.lo, b.hi, b.at) /\ i \in 0..Len(Holes(T)) /\ P = EndOf(T, b.at, i)
    BY <1>2 DEF StandsAt, Reached
  <2> HIDE DEF i
  <2>2. /\ b.at[Opens(T, i)] \in b.lo..Len(l) /\ EndOf(T, b.at, i) \in b.at[Opens(T, i)]..Len(l)
        /\ Len(l) \in Nat
    <3>1. PICK U : U = T
      OBVIOUS
    <3> HIDE DEF T
    <3>2. U = Specialised(f.node)
      BY <3>1 DEF T
    <3>3. i \in 0..Len(Holes(U))
      BY <2>1, <3>1
    <3>4. /\ b.at[Opens(U, i)] \in b.lo..Len(l) /\ EndOf(U, b.at, i) \in b.at[Opens(U, i)]..Len(l)
          /\ Len(l) \in Nat
      BY <2>1, <3>2, <3>3, PlacedPart
    <3> QED BY <3>1, <3>4
  <2>3. b.lo \in 0..Len(l) /\ l \in Seq(Char)
    BY <2>1 DEF Standing
  <2> HIDE DEF T
  <2> QED BY <2>1, <2>2, <2>3
<1> QED BY <1>1, <1>2, <1>3, <1>4

\* A node begins to be written.
Begins(f, n, l, lo, hi, b, Q) ==
    /\ b.hi = hi /\ StandsAt(f, l, b) /\ Q \in lo..Len(l) /\ Reached(f, b, Q)
    /\ PrefixOf(n) \o Part(Specialised(n), 0) = SubSeq(l, lo + 1, Q)

LEMMA WritesNew ==
  ASSUME BlockOK, NEW n, FoldedRight(n), NEW l \in Seq(Char), NEW lo \in 0..Len(l),
         NEW hi \in lo..Len(l), Rooted(n, l, lo, hi), NEW f, f = [node |-> n, next |-> 1]
  PROVE  \E b, Q : Begins(f, n, l, lo, hi, b, Q)
<1>1. PICK at : Placed(n, l, lo, hi, at)
  BY RootedPlaced
<1>2. Standing(n, l, lo, hi, at)
  BY <1>1 DEF Standing
<1>3. PICK T : T = Specialised(n)
  OBVIOUS
<1>4. /\ EndOf(T, at, 0) \in lo..Len(l)
      /\ PrefixOf(n) \o Part(T, 0) = SubSeq(l, lo + 1, EndOf(T, at, 0))
  <2>1. StartPlaced(n, l, lo, at, T)
    BY <1>2, <1>3, PlacedStart
  <2> QED BY <2>1 DEF StartPlaced
<1> DEFINE b == [lo |-> lo, hi |-> hi, at |-> at]
<1>5. b.lo = lo /\ b.hi = hi /\ b.at = at /\ f.node = n /\ f.next = 1
  OBVIOUS
<1> HIDE DEF b
<1>6. StandsAt(f, l, b)
  BY <1>2, <1>5 DEF StandsAt
<1>7. Reached(f, b, EndOf(T, at, 0))
  <2>1. Len(Holes(T)) \in Nat
    <3>1. T \in Seq(Char \cup {Placeholder})
      BY <1>1, <1>3 DEF Placed, Text
    <3> QED BY <3>1, HolesFacts
  <2>2. f.next - 1 = 0 /\ 0 \in 0..Len(Holes(T))
    BY <1>5, <2>1
  <2> QED BY <1>3, <1>5, <2>2 DEF Reached
<1> QED BY <1>3, <1>4, <1>5, <1>6, <1>7 DEF Begins

LEMMA WritesRow ==
  ASSUME BlockOK, NEW l \in ToSet(lines), NEW n \in Resolved[l], FoldedRight(n),
         NEW F, F = Append(<<>>, [node |-> n, next |-> 1])
  PROVE  \E w : \E Q \in 0..Len(l) :
            Writes(F, l, w, Q) /\ PrefixOf(n) \o Part(Specialised(n), 0) = SubSeq(l, 1, Q)
<1>1. l \in Seq(Char) /\ Len(l) \in Nat
  BY LinesOfBlock
<1>2. Rooted(n, l, 0, Len(l)) /\ 0 \in 0..Len(l) /\ Len(l) \in 0..Len(l) /\ 0 + 1 = 1
  BY <1>1, RootRooted
<1>3. PICK f : f = [node |-> n, next |-> 1]
  OBVIOUS
<1>4. PICK b, Q : Begins(f, n, l, 0, Len(l), b, Q)
  <2>1. PICK hi : hi = Len(l)
    OBVIOUS
  <2>2. PICK lo : lo = 0
    OBVIOUS
  <2>3. lo \in 0..Len(l) /\ hi \in lo..Len(l) /\ Rooted(n, l, lo, hi)
    BY <1>1, <1>2, <2>1, <2>2
  <2>4. \E b, Q : Begins(f, n, l, lo, hi, b, Q)
    BY <1>1, <1>3, <2>3, WritesNew
  <2> QED BY <2>1, <2>2, <2>4
<1>5. /\ b.hi = Len(l) /\ StandsAt(f, l, b) /\ Reached(f, b, Q) /\ Q \in 0..Len(l)
      /\ PrefixOf(n) \o Part(Specialised(n), 0) = SubSeq(l, 1, Q)
  BY <1>2, <1>4 DEF Begins
<1> DEFINE w == [j \in 1..1 |-> b]
<1>6. f \in Frame
  <2>1. n \in BlockNodes
    BY <1>2 DEF Rooted
  <2> QED BY <1>3, <2>1 DEF Frame
<1>7. F \in Seq(Frame) /\ F # <<>> /\ Len(F) = 1 /\ F[1] = f
  <2>1. F = Append(<<>>, f)
    BY <1>3
  <2> QED BY <1>6, <2>1
<1>8. w[1] = b
  OBVIOUS
<1> HIDE DEF w
<1>9. Writes(F, l, w, Q)
  BY <1>5, <1>7, <1>8 DEF Writes
<1> QED BY <1>5, <1>9

LEMMA FrameStep ==
  ASSUME NEW F \in Seq(Frame), F # <<>>
  PROVE  /\ Stepped(F) \in Seq(Frame) /\ Stepped(F) # <<>> /\ Len(Stepped(F)) = Len(F)
         /\ Len(F) \in Nat \ {0}
         /\ \A i \in 1..(Len(F) - 1) : Stepped(F)[i] = F[i]
         /\ Stepped(F)[Len(F)].node = F[Len(F)].node
         /\ Stepped(F)[Len(F)].next = F[Len(F)].next + 1
<1>1. /\ Len(Stepped(F)) = Len(F) /\ Len(F) \in Nat \ {0}
      /\ \A i \in 1..(Len(F) - 1) : Stepped(F)[i] = F[i]
      /\ Stepped(F)[Len(F)] = [F[Len(F)] EXCEPT !.next = @ + 1]
      /\ \A B : (\A i \in 1..Len(F) : Stepped(F)[i] \in B) => Stepped(F) \in Seq(B)
  BY SteppedFacts
<1>2. F[Len(F)] \in Frame /\ \A i \in 1..Len(F) : F[i] \in Frame
  BY <1>1
<1>3. Stepped(F)[Len(F)] = [node |-> F[Len(F)].node, next |-> F[Len(F)].next + 1]
  BY <1>1, <1>2 DEF Frame
<1>4. Stepped(F)[Len(F)] \in Frame
  BY <1>2, <1>3 DEF Frame
<1>5. \A i \in 1..Len(F) : Stepped(F)[i] \in Frame
  <2> TAKE i \in 1..Len(F)
  <2>1. CASE i = Len(F)
    BY <2>1, <1>4
  <2>2. CASE i # Len(F)
    BY <2>2, <1>1, <1>2
  <2> QED BY <2>1, <2>2
<1>6. Stepped(F) \in Seq(Frame) /\ Stepped(F) # <<>>
  BY <1>1, <1>5, EmptySeq
<1> QED BY <1>1, <1>3, <1>6

\* The innermost node has a placeholder to come: where the row is written up to.
LEMMA WritesSlot ==
  ASSUME BlockOK, NEW F, NEW l, NEW w, NEW P, Writes(F, l, w, P), NEW f, f = F[Len(F)],
         NEW b, b = w[Len(F)], NEW T, T = Specialised(f.node), f.next <= Len(Holes(T))
  PROVE  /\ f.next \in 1..Len(Holes(T)) /\ P = EndOf(T, b.at, f.next - 1)
         /\ Standing(f.node, l, b.lo, b.hi, b.at)
<1>1. f \in Frame /\ StandsAt(f, l, b) /\ Reached(f, b, P) /\ f.next \in Nat
  BY WritesFacts
<1>2. f.next - 1 \in 0..Len(Holes(T)) /\ P = EndOf(T, b.at, f.next - 1)
  BY <1>1 DEF Reached
<1>3. Len(Holes(T)) \in Nat
  <2>1. T \in Seq(Char \cup {Placeholder})
    BY <1>1 DEF StandsAt, Standing, Placed, Text
  <2> QED BY <2>1, HolesFacts
<1>4. f.next \in 1..Len(Holes(T))
  BY <1>1, <1>2, <1>3
<1> QED BY <1>1, <1>2, <1>4 DEF StandsAt

\* After P, s is what comes next, and then F is under way.
Further(F, l, P, s) ==
    \E w : \E Q \in P..Len(l) : Writes(F, l, w, Q) /\ s = SubSeq(l, P + 1, Q)

Joined(u, v) == u \o v

LEMMA WritesLeaf ==
  ASSUME BlockOK, NEW F, NEW l, NEW w, NEW P, Writes(F, l, w, P), NEW f, f = F[Len(F)],
         NEW T, T = Specialised(f.node), f.next <= Len(Holes(T)),
         NEW k, IsSlot(f.node, k, f.next), ~IsNode(f.node.params[k]),
         NEW s, s = Joined(f.node.params[k].value, Part(T, f.next))
  PROVE  Further(Stepped(F), l, P, s)
<1>1. PICK b : b = w[Len(F)]
  OBVIOUS
<1>2. /\ f.next \in 1..Len(Holes(T)) /\ P = EndOf(T, b.at, f.next - 1)
      /\ Standing(f.node, l, b.lo, b.hi, b.at)
  BY <1>1, WritesSlot
<1> DEFINE Q == EndOf(T, b.at, f.next)
<1>3. /\ Q \in P..Len(l)
      /\ s = SubSeq(l, P + 1, Q)
  <2>1. \E n, i, lo, hi, at : /\ n = f.node /\ i = f.next /\ lo = b.lo /\ hi = b.hi /\ at = b.at
    OBVIOUS
  <2>2. PICK n, i, lo, hi, at : /\ n = f.node /\ i = f.next /\ lo = b.lo /\ hi = b.hi /\ at = b.at
    BY <2>1
  <2>3. /\ i \in 1..Len(Holes(T)) /\ P = EndOf(T, at, i - 1) /\ Standing(n, l, lo, hi, at)
        /\ T = Specialised(n) /\ IsSlot(n, k, i) /\ ~IsNode(n.params[k])
    BY <1>2, <2>2
  <2>4. LeafPlaced(n, l, at, T, i, k, P)
    BY <2>3, PlacedLeaf
  <2> QED BY <2>2, <2>4 DEF LeafPlaced, Joined
<1> HIDE DEF Q
<1>4. F \in Seq(Frame) /\ F # <<>>
  BY DEF Writes
<1>5. /\ Stepped(F) \in Seq(Frame) /\ Stepped(F) # <<>> /\ Len(Stepped(F)) = Len(F)
      /\ Len(F) \in Nat \ {0}
      /\ \A i \in 1..(Len(F) - 1) : Stepped(F)[i] = F[i]
      /\ Stepped(F)[Len(F)].node = F[Len(F)].node
      /\ Stepped(F)[Len(F)].next = F[Len(F)].next + 1
  BY <1>4, FrameStep
<1>6. Reached(Stepped(F)[Len(F)], b, Q)
  <2>1. f.next \in 0..Len(Holes(T)) /\ (f.next + 1) - 1 = f.next
    BY <1>2
  <2> QED BY <1>5, <2>1 DEF Reached, Q
<1>7. \A j \in 1..Len(F) : StandsAt(Stepped(F)[j], l, w[j])
  <2> TAKE j \in 1..Len(F)
  <2>1. StandsAt(F[j], l, w[j])
    BY DEF Writes
  <2>2. Stepped(F)[j].node = F[j].node
    <3>1. CASE j = Len(F)
      BY <3>1, <1>5
    <3>2. CASE j # Len(F)
      BY <3>2, <1>5
    <3> QED BY <3>1, <3>2
  <2> QED BY <2>1, <2>2 DEF StandsAt
<1>8. \A j \in 1..(Len(F) - 1) : Linked(Stepped(F)[j], w[j], w[j+1])
  BY <1>5 DEF Writes
<1>9. w[1].hi = Len(l)
  BY DEF Writes
<1>10. Writes(Stepped(F), l, w, Q)
  BY <1>1, <1>5, <1>6, <1>7, <1>8, <1>9 DEF Writes
<1> QED BY <1>3, <1>10 DEF Further

LEMMA WritesNode ==
  ASSUME BlockOK, NEW F, NEW l, NEW w, NEW P, Writes(F, l, w, P), NEW f, f = F[Len(F)],
         NEW T, T = Specialised(f.node), f.next <= Len(Holes(T)),
         NEW k, IsSlot(f.node, k, f.next), NEW n, n = f.node.params[k], IsNode(n), FoldedRight(n),
         NEW s, s = Joined(PrefixOf(n), Part(Specialised(n), 0))
  PROVE  Further(Append(F, [node |-> n, next |-> 1]), l, P, s)
<1>1. PICK b : b = w[Len(F)]
  OBVIOUS
<1>2. /\ f.next \in 1..Len(Holes(T)) /\ P = EndOf(T, b.at, f.next - 1)
      /\ Standing(f.node, l, b.lo, b.hi, b.at)
  BY <1>1, WritesSlot
<1>3. PICK m : m = Holes(T)[f.next]
  OBVIOUS
<1>4. Behind(f.node, l, b.at, T, f.next, k, m)
  <2>1. \E o, i, lo, hi, at : /\ o = f.node /\ i = f.next /\ lo = b.lo /\ hi = b.hi /\ at = b.at
    OBVIOUS
  <2>2. PICK o, i, lo, hi, at : /\ o = f.node /\ i = f.next /\ lo = b.lo /\ hi = b.hi /\ at = b.at
    BY <2>1
  <2>3. /\ i \in 1..Len(Holes(T)) /\ Standing(o, l, lo, hi, at) /\ m = Holes(T)[i]
        /\ T = Specialised(o) /\ IsSlot(o, k, i)
    BY <1>2, <1>3, <2>2
  <2>4. Behind(o, l, at, T, i, k, m)
    BY <2>3, PlacedSlot
  <2> QED BY <2>2, <2>4
<1>5. P = b.at[m-1] /\ P \in 0..Len(l) /\ b.at[m] \in P..Len(l) /\ Rooted(n, l, P, b.at[m])
  <2>1. P = b.at[m-1]
    BY <1>2, <1>4 DEF Behind
  <2> QED BY <1>4, <2>1 DEF Behind
<1>6. PICK g : g = [node |-> n, next |-> 1]
  OBVIOUS
<1>7. PICK a, Q : Begins(g, n, l, P, b.at[m], a, Q)
  <2>1. PICK hi : hi = b.at[m]
    OBVIOUS
  <2>2. hi \in P..Len(l) /\ Rooted(n, l, P, hi) /\ l \in Seq(Char)
    BY <1>2, <1>5, <2>1 DEF Standing
  <2>3. \E a, Q : Begins(g, n, l, P, hi, a, Q)
    BY <1>5, <1>6, <2>2, WritesNew
  <2> QED BY <2>1, <2>3
<1>8. /\ a.hi = b.at[m] /\ StandsAt(g, l, a) /\ Q \in P..Len(l) /\ Reached(g, a, Q)
      /\ s = SubSeq(l, P + 1, Q)
  BY <1>7 DEF Begins, Joined
<1> DEFINE K == Len(F)
           G == Append(F, g)
           v == [j \in 1..(K + 1) |-> IF j <= K THEN w[j] ELSE a]
<1>9. F \in Seq(Frame) /\ K \in Nat \ {0}
  BY EmptySeq DEF Writes
<1>10. g \in Frame
  <2>1. n \in BlockNodes
    BY <1>5 DEF Rooted
  <2> QED BY <1>6, <2>1 DEF Frame
<1>11. /\ G \in Seq(Frame) /\ Len(G) = K + 1 /\ G[K + 1] = g /\ \A j \in 1..K : G[j] = F[j]
       /\ G # <<>>
  BY <1>9, <1>10
<1>12. v[K + 1] = a /\ \A j \in 1..K : v[j] = w[j]
  BY <1>9
<1> HIDE DEF G, v
<1>13. \A j \in 1..(K + 1) : StandsAt(G[j], l, v[j])
  <2> TAKE j \in 1..(K + 1)
  <2>1. CASE j = K + 1
    BY <2>1, <1>8, <1>11, <1>12
  <2>2. CASE j # K + 1
    <3>1. j \in 1..K
      BY <2>2, <1>9
    <3>2. StandsAt(F[j], l, w[j])
      BY <3>1 DEF Writes
    <3> QED BY <3>1, <3>2, <1>11, <1>12
  <2> QED BY <2>1, <2>2
<1>14. \A j \in 1..K : Linked(G[j], v[j], v[j+1])
  <2> TAKE j \in 1..K
  <2>1. CASE j = K
    <3>1. G[j] = f /\ v[j] = b /\ v[j+1] = a
      BY <2>1, <1>1, <1>9, <1>11, <1>12
    <3> QED BY <3>1, <1>2, <1>3, <1>8 DEF Linked
  <2>2. CASE j # K
    <3>1. j \in 1..(K - 1) /\ j + 1 \in 1..K
      BY <2>2, <1>9
    <3>2. Linked(F[j], w[j], w[j+1])
      BY <3>1 DEF Writes
    <3> QED BY <3>1, <3>2, <1>11, <1>12
  <2> QED BY <2>1, <2>2
<1>15. v[1].hi = Len(l)
  BY <1>9, <1>12 DEF Writes
<1>16. Writes(G, l, v, Q)
  <2>1. Len(G) - 1 = K /\ Reached(G[Len(G)], v[Len(G)], Q)
    BY <1>8, <1>9, <1>11, <1>12
  <2> HIDE DEF K
  <2> QED BY <1>11, <1>13, <1>14, <1>15, <2>1 DEF Writes
<1>17. Writes(Append(F, [node |-> n, next |-> 1]), l, v, Q)
  BY <1>6, <1>16 DEF G
<1> QED BY <1>8, <1>17 DEF Further

\* The innermost node has no placeholder left: it is written to its end.
LEMMA WritesEnd ==
  ASSUME NEW F, NEW l, NEW w, NEW P, Writes(F, l, w, P), NEW f, f = F[Len(F)],
         NEW b, b = w[Len(F)],
         NEW T, T = Specialised(f.node), f.next > Len(Holes(T)), T \in Text
  PROVE  P = b.hi
<1>1. f \in Frame /\ StandsAt(f, l, b) /\ Reached(f, b, P) /\ f.next \in Nat
  BY WritesFacts
<1>2. f.next - 1 \in 0..Len(Holes(T)) /\ P = EndOf(T, b.at, f.next - 1)
  BY <1>1 DEF Reached
<1>3. Len(Holes(T)) \in Nat
  <2>1. T \in Seq(Char \cup {Placeholder})
    BY DEF Text
  <2> QED BY <2>1, HolesFacts
<1>4. f.next - 1 = Len(Holes(T))
  BY <1>1, <1>2, <1>3
<1>5. EndOf(T, b.at, Len(Holes(T))) = b.hi
  <2>1. \E n, lo, hi, at : n = f.node /\ lo = b.lo /\ hi = b.hi /\ at = b.at
    OBVIOUS
  <2>2. PICK n, lo, hi, at : n = f.node /\ lo = b.lo /\ hi = b.hi /\ at = b.at
    BY <2>1
  <2>3. Standing(n, l, lo, hi, at) /\ T = Specialised(n)
    BY <1>1, <2>2 DEF StandsAt
  <2>4. EndOf(T, at, Len(Holes(T))) = hi
    BY <2>3, PlacedEnd
  <2> QED BY <2>2, <2>4
<1> QED BY <1>2, <1>4, <1>5

\* The caller goes on behind the placeholder that the innermost node filled.
LEMMA WritesReturn ==
  ASSUME NEW F, NEW l, NEW w, NEW P, Writes(F, l, w, P), Len(F) # 1, NEW f, f = F[Len(F)],
         NEW T, T = Specialised(f.node), f.next > Len(Holes(T)), T \in Text,
         NEW g, g = F[Len(F) - 1], NEW U, U = Specialised(g.node), NEW s, s = Part(U, g.next)
  PROVE  g.next \in 1..Len(Holes(U)) /\ Further(Stepped(Front(F)), l, P, s)
<1>1. P = w[Len(F)].hi
  <2>1. PICK b : b = w[Len(F)]
    OBVIOUS
  <2>2. P = b.hi
    BY <2>1, WritesEnd
  <2> QED BY <2>1, <2>2
<1>2. F \in Seq(Frame) /\ Len(F) \in Nat \ {0}
  BY EmptySeq DEF Writes
<1>3. PICK K : K = Len(F) - 1
  OBVIOUS
<1>4. K \in Nat \ {0} /\ Len(F) = K + 1 /\ Len(F) - 1 = K
  <2>1. PICK n : n = Len(F)
    OBVIOUS
  <2>2. n \in Nat /\ n # 0 /\ n # 1 /\ K = n - 1
    BY <1>2, <1>3, <2>1
  <2>3. K \in Nat \ {0} /\ n = K + 1 /\ n - 1 = K
    BY <2>2
  <2> QED BY <2>1, <2>3
<1>5. Front(F) \in Seq(Frame) /\ Len(Front(F)) = K /\ \A i \in 1..K : Front(F)[i] = F[i]
  <2>1. F # <<>>
    BY DEF Writes
  <2> QED BY <1>2, <1>4, <2>1, FrontFacts
<1>6. PICK E : E = Front(F)
  OBVIOUS
<1>7. E \in Seq(Frame) /\ Len(E) = K /\ (\A i \in 1..K : E[i] = F[i]) /\ E # <<>>
  BY <1>4, <1>5, <1>6, EmptySeq
<1>8. /\ Stepped(E) \in Seq(Frame) /\ Stepped(E) # <<>> /\ Len(Stepped(E)) = K
      /\ \A i \in 1..(K - 1) : Stepped(E)[i] = E[i]
      /\ Stepped(E)[K].node = E[K].node /\ Stepped(E)[K].next = E[K].next + 1
  BY <1>7, FrameStep
<1>9. g = E[K] /\ g \in Frame /\ g.next \in Nat
  <2>1. g = E[K] /\ g \in Frame
    BY <1>2, <1>4, <1>7
  <2> QED BY <2>1 DEF Frame
<1>10. PICK b : b = w[K]
  OBVIOUS
<1>11. StandsAt(g, l, b) /\ Linked(g, b, w[K + 1])
  BY <1>4, <1>10 DEF Writes
<1>12. g.next \in 1..Len(Holes(U)) /\ P = b.at[Holes(U)[g.next]]
  BY <1>1, <1>4, <1>11 DEF Linked
<1> DEFINE Q == EndOf(U, b.at, g.next)
<1>13. Q \in P..Len(l) /\ Part(U, g.next) = SubSeq(l, P + 1, Q)
  <2>1. \E n, i, lo, hi, at : /\ n = g.node /\ i = g.next /\ lo = b.lo /\ hi = b.hi /\ at = b.at
    OBVIOUS
  <2>2. PICK n, i, lo, hi, at : /\ n = g.node /\ i = g.next /\ lo = b.lo /\ hi = b.hi /\ at = b.at
    BY <2>1
  <2>3. /\ i \in 0..Len(Holes(U)) /\ Standing(n, l, lo, hi, at) /\ U = Specialised(n) /\ i # 0
    BY <1>11, <1>12, <2>2 DEF StandsAt
  <2>4. /\ Part(U, i) = SubSeq(l, at[Opens(U, i)] + 1, EndOf(U, at, i))
        /\ EndOf(U, at, i) \in at[Opens(U, i)]..Len(l)
    BY <2>3, PlacedPart
  <2>5. at[Opens(U, i)] = P
    BY <1>12, <2>2, <2>3 DEF Opens
  <2> QED BY <2>2, <2>4, <2>5
<1> HIDE DEF Q
<1>14. Reached(Stepped(E)[K], b, Q)
  <2>1. g.next \in 0..Len(Holes(U)) /\ (g.next + 1) - 1 = g.next
    BY <1>9, <1>12
  <2> QED BY <1>8, <1>9, <2>1 DEF Reached, Q
<1>15. \A j \in 1..K : StandsAt(Stepped(E)[j], l, w[j])
  <2> TAKE j \in 1..K
  <2>1. StandsAt(F[j], l, w[j])
    <3>1. j \in 1..Len(F)
      BY <1>4
    <3> QED BY <3>1 DEF Writes
  <2>2. Stepped(E)[j].node = F[j].node
    <3>1. CASE j = K
      BY <3>1, <1>7, <1>8
    <3>2. CASE j # K
      <4>1. j \in 1..(K - 1)
        BY <3>2, <1>4
      <4> QED BY <4>1, <1>7, <1>8
    <3> QED BY <3>1, <3>2
  <2> QED BY <2>1, <2>2 DEF StandsAt
<1>16. \A j \in 1..(K - 1) : Linked(Stepped(E)[j], w[j], w[j+1])
  <2> TAKE j \in 1..(K - 1)
  <2>1. j \in 1..K /\ j \in 1..(Len(F) - 1)
    BY <1>4
  <2>2. Stepped(E)[j] = F[j]
    BY <2>1, <1>7, <1>8
  <2> QED BY <2>1, <2>2 DEF Writes
<1>17. w[1].hi = Len(l)
  BY DEF Writes
<1>18. Writes(Stepped(E), l, w, Q)
  BY <1>8, <1>10, <1>14, <1>15, <1>16, <1>17 DEF Writes
<1> QED BY <1>6, <1>12, <1>13, <1>18, Zenon DEF Further

\* What a block needs to come back, and what the two findings about
\* column.go break: no text with its folded values written out spells a
\* placeholder that was not one, and no ID stands both for a line template
\* and for a dictionary template.
ReadAsWritten ==
    pc # "profile" => \A n \in BlockNodes : Reread(Specialised(n)) = Specialised(n)

OneFormPerID == \A n, m \in BlockNodes : n.id = m.id => n.suffix = m.suffix

\* The decoder is at the point c: the streams are read as far, the calls
\* of render are those of c, the rows before are the lines, and the row
\* under way is its line so far.
Tracks(s, frames) ==
    /\ Len(s) = Len(frames)
    /\ \A j \in 1..Len(s) : /\ table[s[j].code].id = frames[j].node.id
                            /\ s[j].next = frames[j].next

SamePos(p, q) == \A k \in DOMAIN buckets : p[k] = q[k]

CursorIs(r, c) == r.sub = c.sub /\ r.unm = c.unm /\ SamePos(r.pos, c.pos)

RowUnderWay(F, l, s) == \E w, P : Writes(F, l, w, P) /\ s = SubSeq(l, 1, P)

Aligned(c) ==
    /\ Len(rows) = c.row /\ c.row <= Len(rowIDs)
    /\ CursorIs(read, c) /\ Tracks(stack, c.frames)
    /\ \A i \in 1..Len(rows) : i # Len(rows) \/ stack = <<>> => rows[i] = lines[i]
    /\ stack # <<>> => c.row \in 1..Len(lines) /\ RowUnderWay(c.frames, lines[c.row], rows[c.row])

-----------------------------------------------------------------------------
\* What the table says of a node's template is what the node was written with.
LEMMA EntryOf ==
  ASSUME TypeInv, pc = "decode", ReadAsWritten, OneFormPerID,
         NEW code \in DOMAIN table, NEW n \in BlockNodes, table[code].id = n.id
  PROVE  /\ Reread(table[code].text) = Specialised(n) /\ table[code].suffix = n.suffix
         /\ Specialised(n) \in Text
         /\ Len(Holes(Specialised(n))) = CompactSlot(n.id, Len(n.params))
<1>1. BlockOK /\ EntriesOK /\ FoldedRight(n)
  BY TypedDecoding
<1>2. PICK m \in BlockNodes : Made(table[code], m)
  BY <1>1 DEF EntriesOK
<1>3. table[code].suffix = n.suffix
  BY <1>2 DEF OneFormPerID, Made
<1>4. table[code].text = Specialised(n)
  BY <1>1, EntryText
<1>5. Reread(Specialised(n)) = Specialised(n)
  BY DEF ReadAsWritten
<1>6. /\ Specialised(n) \in Text
      /\ Len(Holes(Specialised(n))) = CompactSlot(n.id, Len(n.params))
  BY <1>1, SpecialisedFacts
<1> QED BY <1>3, <1>4, <1>5, <1>6

\* The innermost call of render, and the node it writes.
LEMMA TopOfBoth ==
  ASSUME TypeInv, pc = "decode", ReadAsWritten, OneFormPerID, NEW c, ConfigOK(c), Aligned(c),
         stack # <<>>, NEW f, f = TopOf(c)
  PROVE  /\ c.frames # <<>> /\ Len(c.frames) = Len(stack) /\ Len(stack) \in Nat \ {0}
         /\ f \in Frame /\ f.node \in BlockNodes
         /\ Top.code \in DOMAIN table /\ table[Top.code].id = f.node.id /\ Top.next = f.next
         /\ TopText = Specialised(f.node) /\ TopText \in Text
         /\ Len(Holes(TopText)) = CompactSlot(f.node.id, Len(f.node.params))
<1>1. /\ Len(stack) \in Nat \ {0} /\ Top = stack[Len(stack)] /\ Top.code \in DOMAIN table
  BY DecTop
<1>2. /\ Len(c.frames) = Len(stack) /\ c.frames \in Seq(Frame)
  BY DEF Aligned, Tracks, ConfigOK, Frame
<1>3. Len(<<>>) = 0
  OBVIOUS
<1>4. c.frames # <<>> /\ f = c.frames[Len(stack)] /\ f \in Frame
  BY <1>1, <1>2, <1>3 DEF TopOf
<1>5. f.node \in BlockNodes
  BY <1>4 DEF Frame
<1>6. table[Top.code].id = f.node.id /\ Top.next = f.next
  <2>1. Len(stack) \in 1..Len(stack)
    BY <1>1
  <2> QED BY <1>1, <1>4, <2>1 DEF Aligned, Tracks
<1>7. /\ TopText = Specialised(f.node) /\ TopText \in Text
      /\ Len(Holes(TopText)) = CompactSlot(f.node.id, Len(f.node.params))
  BY <1>1, <1>5, <1>6, EntryOf DEF TopText
<1> QED BY <1>1, <1>2, <1>4, <1>5, <1>6, <1>7

LEMMA OneCode ==
  ASSUME TableOK, NEW j \in DOMAIN table, NEW k \in DOMAIN table, table[j].id = table[k].id
  PROVE  j = k
BY DEF TableOK

\* There is always a next point, until the last row.
LEMMA NextPoint ==
  ASSUME NEW C, Charted(C), TypeInv, pc = "decode", NEW c \in C, Aligned(c),
         stack # <<>> \/ Len(rows) < Len(rowIDs)
  PROVE  ConfigOK(c) /\ \E d \in C : Follows(c, d)
<1>1. ConfigOK(c) /\ (c = Now \/ \E d \in C : Follows(c, d))
  BY DEF Charted
<1>2. ASSUME c = Now PROVE FALSE
  <2>1. c.frames = <<>> /\ c.row = Len(rowIDs)
    BY <1>2, EmptyView DEF Now, Here
  <2>2. Len(rowIDs) \in Nat
    BY StreamTypes
  <2>3. CASE Len(rows) < Len(rowIDs)
    BY <2>1, <2>2, <2>3 DEF Aligned
  <2>4. CASE stack # <<>>
    <3>1. Len(stack) \in Nat \ {0}
      BY <2>4, DecTop
    <3>2. Len(stack) = Len(c.frames) /\ Len(<<>>) = 0
      BY DEF Aligned, Tracks
    <3> QED BY <2>1, <3>1, <3>2
  <2> QED BY <2>3, <2>4
<1> QED BY <1>1, <1>2

LEMMA EmptyFrames ==
  ASSUME NEW c, ConfigOK(c), Aligned(c), stack = <<>>
  PROVE  c.frames = <<>>
<1>1. c.frames \in Seq(Frame) /\ Len(c.frames) = 0
  <2>1. Len(<<>>) = 0
    OBVIOUS
  <2> QED BY <2>1 DEF ConfigOK, Aligned, Tracks, Frame
<1> QED BY <1>1, EmptySeq

\* What render takes from the prefix stream is the prefix that was put there.
LEMMA TakesGets ==
  ASSUME NEW c, ConfigOK(c), BucketsOK, NEW d, NEW code, NEW n, NEW above,
         Starts(c, d, code, n, above), NEW r, CursorAt(r), SamePos(r.pos, c.pos),
         NEW e, NEW s, NEW k, k = <<code, 0>>, Takes(k, n.suffix, r, e, s)
  PROVE  s = PrefixOf(n) /\ e.sub = r.sub /\ e.unm = r.unm /\ SamePos(e.pos, d.pos)
<1>0. c.pos \in [Nat \X Nat -> Nat]
  BY DEF ConfigOK
<1>0a. /\ r = [sub |-> r.sub, unm |-> r.unm, pos |-> r.pos]
       /\ DOMAIN r.pos = DOMAIN buckets /\ \A j \in DOMAIN buckets : r.pos[j] = c.pos[j]
  BY DEF CursorAt, SamePos
<1>1. CASE n.suffix
  <2>1. /\ k \in DOMAIN buckets /\ buckets[k][c.pos[k] + 1] = n.prefix
        /\ d.pos = [c.pos EXCEPT ![k] = @ + 1]
    BY <1>1 DEF Starts, Gets
  <2>2. s = buckets[k][r.pos[k] + 1] /\ e = [r EXCEPT !.pos[k] = @ + 1]
    BY <1>1 DEF Takes
  <2>3. s = n.prefix
    BY <1>0a, <2>1, <2>2
  <2>4. k \in Nat \X Nat /\ DOMAIN buckets \subseteq Nat \X Nat
    BY <2>1 DEF BucketsOK
  <2> DEFINE p == r.pos
  <2>5. e = [sub |-> r.sub, unm |-> r.unm, pos |-> [p EXCEPT ![k] = @ + 1]]
    BY <1>0a, <2>2
  <2>6. e.sub = r.sub /\ e.unm = r.unm /\ e.pos = [p EXCEPT ![k] = @ + 1]
    BY <2>5
  <2>7. ASSUME NEW j \in DOMAIN buckets PROVE e.pos[j] = d.pos[j]
    <3>1. p[j] = c.pos[j] /\ j \in DOMAIN p /\ j \in Nat \X Nat
      BY <1>0a, <2>4
    <3> HIDE DEF p
    <3>2. e.pos[j] = IF j = k THEN p[j] + 1 ELSE p[j]
      BY <2>6, <3>1
    <3>3. d.pos[j] = IF j = k THEN c.pos[j] + 1 ELSE c.pos[j]
      BY <1>0, <2>1, <2>4, <3>1
    <3> QED BY <3>1, <3>2, <3>3
  <2> QED BY <1>1, <2>3, <2>6, <2>7 DEF PrefixOf, SamePos
<1>2. CASE ~n.suffix
  BY <1>0a, <1>2 DEF Starts, Takes, PrefixOf, SamePos
<1> QED BY <1>1, <1>2

(* The calls of render keep to the frames of the point. *)

LEMMA TracksPush ==
  ASSUME NEW s \in Seq(RenderFrame), NEW F \in Seq(Frame), Tracks(s, F),
         NEW code \in DOMAIN table, NEW n \in BlockNodes, table[code].id = n.id
  PROVE  Tracks(Append(s, [code |-> code, next |-> 1]), Append(F, [node |-> n, next |-> 1]))
<1> DEFINE a == [code |-> code, next |-> 1]
           b == [node |-> n, next |-> 1]
           t == Append(s, a)
           G == Append(F, b)
<1>1. a.code = code /\ a.next = 1 /\ b.node = n /\ b.next = 1
  OBVIOUS
<1>2. a \in RenderFrame /\ b \in Frame
  BY DEF RenderFrame, Frame
<1> HIDE DEF a, b
<1>3. /\ Len(t) = Len(s) + 1 /\ Len(s) \in Nat /\ t[Len(s) + 1] = a
      /\ \A i \in 1..Len(s) : t[i] = s[i]
  BY <1>2, PushFacts
<1>4. /\ Len(G) = Len(F) + 1 /\ Len(F) \in Nat /\ G[Len(F) + 1] = b
      /\ \A i \in 1..Len(F) : G[i] = F[i]
  BY <1>2, PushFacts
<1> HIDE DEF t, G
<1>5. Len(s) = Len(F) /\ \A j \in 1..Len(s) : table[s[j].code].id = F[j].node.id /\ s[j].next = F[j].next
  BY DEF Tracks
<1>6. ASSUME NEW j \in 1..Len(t)
      PROVE  table[t[j].code].id = G[j].node.id /\ t[j].next = G[j].next
  <2>1. CASE j = Len(s) + 1
    BY <1>1, <1>3, <1>4, <1>5, <2>1
  <2>2. CASE j \in 1..Len(s)
    BY <1>3, <1>4, <1>5, <2>2
  <2> QED BY <1>3, <2>1, <2>2
<1>7. Tracks(t, G)
  BY <1>3, <1>4, <1>5, <1>6 DEF Tracks
<1> QED BY <1>7 DEF t, G, a, b

LEMMA TracksStep ==
  ASSUME NEW s \in Seq(RenderFrame), NEW F \in Seq(Frame), Tracks(s, F), s # <<>>
  PROVE  F # <<>> /\ Tracks(Stepped(s), Stepped(F))
<1>1. Len(s) = Len(F) /\ \A j \in 1..Len(s) : table[s[j].code].id = F[j].node.id /\ s[j].next = F[j].next
  BY DEF Tracks
<1>2. /\ Len(Stepped(s)) = Len(s) /\ Len(s) \in Nat \ {0}
      /\ \A i \in 1..(Len(s) - 1) : Stepped(s)[i] = s[i]
      /\ Stepped(s)[Len(s)] = [s[Len(s)] EXCEPT !.next = @ + 1]
  BY SteppedFacts
<1>3. F # <<>>
  <2>1. Len(<<>>) = 0
    OBVIOUS
  <2> QED BY <1>1, <1>2, <2>1
<1>4. /\ Len(Stepped(F)) = Len(F)
      /\ \A i \in 1..(Len(F) - 1) : Stepped(F)[i] = F[i]
      /\ Stepped(F)[Len(F)].node = F[Len(F)].node
      /\ Stepped(F)[Len(F)].next = F[Len(F)].next + 1
  BY <1>3, FrameStep
<1>5. Stepped(s)[Len(s)].code = s[Len(s)].code /\ Stepped(s)[Len(s)].next = s[Len(s)].next + 1
  <2>1. s[Len(s)] \in RenderFrame
    BY <1>2
  <2> HIDE DEF Stepped
  <2> QED BY <1>2, <2>1 DEF RenderFrame
<1>6. ASSUME NEW j \in 1..Len(Stepped(s))
      PROVE  /\ table[Stepped(s)[j].code].id = Stepped(F)[j].node.id
             /\ Stepped(s)[j].next = Stepped(F)[j].next
  <2>1. CASE j = Len(s)
    <3>1. Len(s) \in 1..Len(s) /\ Len(F) = Len(s)
      BY <1>1, <1>2
    <3>2. Stepped(F)[j].node = F[j].node /\ Stepped(F)[j].next = F[j].next + 1
      BY <1>4, <2>1, <3>1
    <3>3. Stepped(s)[j].code = s[j].code /\ Stepped(s)[j].next = s[j].next + 1
      BY <1>5, <2>1
    <3>4. table[s[j].code].id = F[j].node.id /\ s[j].next = F[j].next
      BY <1>1, <2>1, <3>1
    <3> QED BY <3>2, <3>3, <3>4
  <2>2. CASE j \in 1..(Len(s) - 1)
    BY <1>1, <1>2, <1>4, <2>2
  <2> QED BY <1>2, <2>1, <2>2
<1> QED BY <1>1, <1>2, <1>3, <1>4, <1>6 DEF Tracks

LEMMA TracksFront ==
  ASSUME NEW s \in Seq(RenderFrame), NEW F \in Seq(Frame), Tracks(s, F), s # <<>>
  PROVE  F # <<>> /\ Tracks(Front(s), Front(F))
<1>1. Len(s) = Len(F) /\ \A j \in 1..Len(s) : table[s[j].code].id = F[j].node.id /\ s[j].next = F[j].next
  BY DEF Tracks
<1>2. /\ Len(Front(s)) = Len(s) - 1 /\ Len(s) \in Nat \ {0}
      /\ \A i \in 1..(Len(s) - 1) : Front(s)[i] = s[i]
  BY FrontFacts
<1>3. F # <<>>
  <2>1. Len(<<>>) = 0
    OBVIOUS
  <2> QED BY <1>1, <1>2, <2>1
<1>4. Len(Front(F)) = Len(F) - 1 /\ \A i \in 1..(Len(F) - 1) : Front(F)[i] = F[i]
  BY <1>3, FrontFacts
<1> QED BY <1>1, <1>2, <1>3, <1>4 DEF Tracks

-----------------------------------------------------------------------------
\* Where a node stands does not change any more.
LEMMA RowKept ==
  ASSUME UNCHANGED <<lines, folded>>, NEW F, NEW l, NEW s, RowUnderWay(F, l, s)
  PROVE  RowUnderWay(F, l, s)'
<1>1. BlockNodes' = BlockNodes
  BY DEF BlockNodes
<1>2. \A n : Specialised(n)' = Specialised(n)
  BY DEF Specialised, IsFolded
<1>3. \A id, k : (IsFolded(id, k)' <=> IsFolded(id, k)) /\ CompactSlot(id, k)' = CompactSlot(id, k)
  BY DEF CompactSlot, IsFolded
<1>4. \A n, lo, hi : Rooted(n, l, lo, hi)' <=> Rooted(n, l, lo, hi)
  BY <1>1 DEF Rooted
<1>5. \A n, lo, hi, bt : Placed(n, l, lo, hi, bt)' <=> Placed(n, l, lo, hi, bt)
  <2> SUFFICES ASSUME NEW n, NEW lo, NEW hi, NEW bt
               PROVE  Placed(n, l, lo, hi, bt)' <=> Placed(n, l, lo, hi, bt)
    OBVIOUS
  <2>1. PICK T : T = Specialised(n)
    OBVIOUS
  <2>2. T = Specialised(n)'
    BY <1>2, <2>1
  <2>3. ASSUME NEW M \in 1..Len(T)
        PROVE  (\E k \in DOMAIN n.params :
                  /\ ~IsFolded(n.id, k) /\ CompactSlot(n.id, k) = Slots(T, M)
                  /\ ~IsNode(n.params[k]) => n.params[k].value = SubSeq(l, bt[M-1] + 1, bt[M])
                  /\ IsNode(n.params[k]) => Rooted(n.params[k], l, bt[M-1], bt[M]))' <=>
               (\E k \in DOMAIN n.params :
                  /\ ~IsFolded(n.id, k) /\ CompactSlot(n.id, k) = Slots(T, M)
                  /\ ~IsNode(n.params[k]) => n.params[k].value = SubSeq(l, bt[M-1] + 1, bt[M])
                  /\ IsNode(n.params[k]) => Rooted(n.params[k], l, bt[M-1], bt[M]))
    BY <1>3, <1>4
  <2>4. CompactSlot(n.id, Len(n.params))' = CompactSlot(n.id, Len(n.params))
    BY <1>3
  <2> QED BY <1>1, <2>1, <2>2, <2>3, <2>4, Zenon DEF Placed
<1>6. \A n, lo, hi, bt : Standing(n, l, lo, hi, bt)' <=> Standing(n, l, lo, hi, bt)
  BY <1>5 DEF Standing
<1>7. PICK w, P : Writes(F, l, w, P) /\ s = SubSeq(l, 1, P)
  BY DEF RowUnderWay
<1>8. \A f, b : StandsAt(f, l, b)' <=> StandsAt(f, l, b)
  BY <1>6 DEF StandsAt
<1>9. \A f, a, b : Linked(f, a, b)' <=> Linked(f, a, b)
  BY <1>2 DEF Linked
<1>10. \A f, b : Reached(f, b, P)' <=> Reached(f, b, P)
  BY <1>2 DEF Reached
<1>11. Frame' = Frame
  BY <1>1 DEF Frame
<1>12. Writes(F, l, w, P)'
  BY <1>7, <1>8, <1>9, <1>10, <1>11 DEF Writes
<1> QED BY <1>7, <1>12 DEF RowUnderWay

\* The block, its fold and the column stay: what makes the next point aligned.
LEMMA AlignedNext ==
  ASSUME UNCHANGED <<lines, folded, column>>, NEW d,
         Len(rows') = d.row, d.row \in Nat, d.row <= Len(rowIDs), CursorIs(read', d),
         Tracks(stack', d.frames),
         \A i \in 1..d.row : i # d.row \/ stack' = <<>> => rows'[i] = lines[i],
         stack' # <<>> => /\ d.row \in 1..Len(lines)
                          /\ RowUnderWay(d.frames, lines[d.row], rows'[d.row])
  PROVE  Aligned(d)'
<1>1. UNCHANGED <<lines, folded, rowIDs, table, subIDs, buckets, unmatched>>
  BY DEF column
<1>2. CursorIs(read, d)'
  BY <1>1 DEF CursorIs, SamePos
<1>3. Tracks(stack, d.frames)'
  BY <1>1 DEF Tracks
<1>4. ASSUME stack' # <<>>
      PROVE  RowUnderWay(d.frames, lines[d.row], rows[d.row])'
  <2> DEFINE l == lines[d.row]
             s == rows'[d.row]
  <2>1. PICK L, S : L = l /\ S = s
    OBVIOUS
  <2>2. RowUnderWay(d.frames, L, S)
    BY <1>4, <2>1
  <2>3. RowUnderWay(d.frames, L, S)'
    BY <1>1, <2>2, RowKept
  <2>4. L = lines'[d.row] /\ S = rows'[d.row]
    BY <1>1, <2>1
  <2> QED BY <2>3, <2>4
<1> QED BY <1>1, <1>2, <1>3, <1>4 DEF Aligned

Rendered(d, code, n, above, r, callers, written) ==
    /\ code \in DOMAIN table /\ table[code].id = n.id
    /\ n \in BlockNodes /\ FoldedRight(n)
    /\ stack' = Append(callers, [code |-> code, next |-> 1])
    /\ d.frames = Append(above, [node |-> n, next |-> 1])
    /\ read'.sub = r.sub /\ read'.unm = r.unm
    /\ SamePos(read'.pos, d.pos)
    /\ rows' = Emitted(written, PrefixOf(n) \o Part(Specialised(n), 0))

HasRows(r) == r \in Seq(Seq(Char)) /\ r # <<>>

\* The start of render does what the start of encodeNode did.
LEMMA RenderAligns ==
  ASSUME TypeInv, pc = "decode", ReadAsWritten, OneFormPerID, NEW c, ConfigOK(c), NEW d,
         NEW code, NEW n, NEW above, Starts(c, d, code, n, above),
         NEW r, CursorAt(r), r.pos = read.pos, SamePos(read.pos, c.pos),
         NEW callers, NEW written, HasRows(written),
         Render(code, callers, written, r)
  PROVE  Rendered(d, code, n, above, r, callers, written)
<1>1. /\ code \in DOMAIN table /\ table[code].id = n.id /\ n \in BlockNodes
      /\ d.frames = Append(above, [node |-> n, next |-> 1])
  BY DEF Starts
<1>2. Reread(table[code].text) = Specialised(n) /\ table[code].suffix = n.suffix
  BY <1>1, EntryOf
<1>3. /\ stack' = Append(callers, [code |-> code, next |-> 1])
      /\ \E prefix \in Seq(Char) :
            /\ Takes(<<code, 0>>, table[code].suffix, r, read', prefix)
            /\ rows' = Emitted(written, prefix \o Part(Reread(table[code].text), 0))
  BY <1>1, RenderFacts DEF HasRows
<1>4. PICK prefix \in Seq(Char) :
            /\ Takes(<<code, 0>>, n.suffix, r, read', prefix)
            /\ rows' = Emitted(written, prefix \o Part(Specialised(n), 0))
  BY <1>2, <1>3
<1>5. BucketsOK /\ FoldedRight(n)
  BY <1>1, TypedDecoding
<1>6. PICK e : e = read'
  OBVIOUS
<1>7. PICK k : k = <<code, 0>>
  OBVIOUS
<1>8. SamePos(r.pos, c.pos)
  OBVIOUS
<1>8a. Takes(k, n.suffix, r, e, prefix)
  BY <1>4, <1>6, <1>7
<1>9. /\ prefix = PrefixOf(n) /\ e.sub = r.sub /\ e.unm = r.unm
      /\ SamePos(e.pos, d.pos)
  BY <1>5, <1>7, <1>8, <1>8a, TakesGets
<1>9a. /\ prefix = PrefixOf(n) /\ read'.sub = r.sub /\ read'.unm = r.unm
      /\ SamePos(read'.pos, d.pos)
  BY <1>6, <1>9
<1> QED BY <1>1, <1>3, <1>4, <1>5, <1>9a DEF Rendered

\* The row under way, one piece longer.
RowGrown(r, q, l, Q) ==
    /\ Len(q) = Len(r) /\ \A i \in 1..(Len(r) - 1) : q[i] = r[i]
    /\ q[Len(r)] = SubSeq(l, 1, Q)

LEMMA RowGoesOn ==
  ASSUME NEW r, HasRows(r), NEW l \in Seq(Char), NEW P \in 0..Len(l),
         NEW Q \in P..Len(l), r[Len(r)] = SubSeq(l, 1, P), NEW s, s = SubSeq(l, P + 1, Q)
  PROVE  RowGrown(r, Emitted(r, s), l, Q)
<1>1. Len(l) \in Nat /\ 0 \in 0..Len(l) /\ P \in 0..Len(l)
  OBVIOUS
<1>2. s \in Seq(Char)
  BY <1>1, Window
<1>3. PICK z : z = 0 + 1
  OBVIOUS
<1>4. SubSeq(l, z, P) \o SubSeq(l, P + 1, Q) = SubSeq(l, z, Q)
  BY <1>1, <1>3, Glue
<1>5. z = 1
  BY <1>3
<1>6. r[Len(r)] \o s = SubSeq(l, 1, Q)
  BY <1>4, <1>5, Zenon
<1> QED BY <1>2, <1>6, EmittedFacts DEF HasRows, RowGrown

\* The rows read before the one that comes are the lines.
LEMMA NewRow ==
  ASSUME TypeInv, pc = "decode", NEW C, Charted(C), Len(rows) < Len(rowIDs)
  PROVE  /\ Len(rows) \in Nat /\ Len(rows) + 1 \in 1..Len(lines) /\ Len(rows) + 1 \in 1..Len(rowIDs)
         /\ lines[Len(rows) + 1] \in ToSet(lines) /\ lines[Len(rows) + 1] \in Seq(Char)
<1>1. /\ BlockOK /\ rows \in Seq(Seq(Char)) /\ StreamsOK
  BY TypedDecoding
<1>2. Len(rowIDs) = Len(lines) /\ Len(rowIDs) \in Nat
  BY StreamTypes DEF Charted, RowsCharted
<1>3. Len(rows) \in Nat
  <2> DEFINE D == Seq(Char)
  <2>1. rows \in Seq(D)
    BY <1>1
  <2> HIDE DEF D
  <2> QED BY <2>1
<1>4. Len(rows) + 1 \in 1..Len(lines)
  BY <1>2, <1>3
<1>5. lines[Len(rows) + 1] \in ToSet(lines)
  <2> DEFINE D == Seq(Char)
  <2>1. lines \in Seq(D)
    BY <1>1 DEF BlockOK
  <2> HIDE DEF D
  <2> QED BY <1>4, <2>1 DEF ToSet
<1> QED BY <1>1, <1>2, <1>3, <1>4, <1>5, LinesOfBlock

LEMMA AlignedMatched ==
  ASSUME NEW C, Charted(C), TypeInv, ReadAsWritten, OneFormPerID, NEW c \in C, Aligned(c),
         DecodeMatched
  PROVE  \E d \in C : Aligned(d)'
<1>1. PICK code, K : code = rowIDs[Len(rows) + 1] /\ K = Len(rows) + 1
  OBVIOUS
<1>2. /\ pc = "decode" /\ stack = <<>> /\ code # 0 /\ Len(rows) < Len(rowIDs)
      /\ UNCHANGED <<lines, folded, column>>
      /\ Render(code, <<>>, Append(rows, <<>>), read)
  BY <1>1 DEF DecodeMatched, DecodingRow
<1>3. ConfigOK(c) /\ \E d \in C : Follows(c, d)
  BY <1>2, NextPoint
<1>4. PICK d \in C : Follows(c, d)
  BY <1>3
<1>5. c.frames = <<>> /\ c.row = Len(rows) /\ c.row + 1 = K
  BY <1>1, <1>2, <1>3, EmptyFrames DEF Aligned
<1>6. RowMatched(c, d)
  BY <1>1, <1>2, <1>4, <1>5 DEF Follows, RowUnmatched, SlotLeaf, SlotNode, Returns
<1>7. PICK l : l = lines[K]
  OBVIOUS
<1>8. PICK n \in Resolved[l] : Starts(c, d, code, n, <<>>)
  BY <1>1, <1>5, <1>6, <1>7 DEF RowMatched
<1>9. d.row = K /\ d.sub = c.sub /\ d.unm = c.unm
  BY <1>5, <1>6 DEF RowMatched
<1>10. /\ CursorAt(read) /\ rows \in Seq(Seq(Char)) /\ BlockOK
  BY <1>2, TypedDecoding
<1>11. /\ Len(rows) \in Nat /\ K \in 1..Len(lines) /\ K \in 1..Len(rowIDs)
       /\ l \in ToSet(lines) /\ l \in Seq(Char)
  BY <1>1, <1>2, <1>7, NewRow
<1> DEFINE written == Append(rows, <<>>)
           above == <<>>
<1>12. /\ HasRows(written) /\ Len(written) = K
       /\ \A i \in 1..(K - 1) : written[i] = rows[i]
       /\ written[K] = <<>>
  <2> DEFINE D == Seq(Char)
  <2>1. rows \in Seq(D) /\ <<>> \in D
    BY <1>10
  <2> HIDE DEF D
  <2>2. /\ written \in Seq(D) /\ Len(written) = Len(rows) + 1 /\ Len(rows) \in Nat
        /\ written[Len(rows) + 1] = <<>> /\ \A i \in 1..Len(rows) : written[i] = rows[i]
    BY <2>1
  <2>3. written # <<>>
    <3> HIDE DEF written
    <3> QED BY <2>2
  <2> HIDE DEF written
  <2> QED BY <1>1, <2>2, <2>3 DEF D, HasRows
<1>13. /\ read.sub = c.sub /\ read.unm = c.unm /\ SamePos(read.pos, c.pos)
       /\ \A i \in 1..Len(rows) : rows[i] = lines[i]
  BY <1>2 DEF Aligned, CursorIs
<1>14. Starts(c, d, code, n, above) /\ Render(code, above, written, read)
  BY <1>2, <1>8
<1>14a. above \in Seq(RenderFrame) /\ above \in Seq(Frame) /\ Len(above) = 0
  OBVIOUS
<1>14b. Tracks(above, above)
  BY <1>14a DEF Tracks
<1> HIDE DEF written
<1>14c. Rendered(d, code, n, above, read, above, written)
  <2> HIDE DEF above
  <2> QED BY <1>2, <1>3, <1>10, <1>12, <1>13, <1>14, RenderAligns
<1>15. /\ code \in DOMAIN table /\ table[code].id = n.id
       /\ n \in BlockNodes /\ FoldedRight(n)
       /\ stack' = Append(above, [code |-> code, next |-> 1])
       /\ d.frames = Append(above, [node |-> n, next |-> 1])
       /\ read'.sub = read.sub /\ read'.unm = read.unm
       /\ SamePos(read'.pos, d.pos)
       /\ rows' = Emitted(written, PrefixOf(n) \o Part(Specialised(n), 0))
  BY <1>14c DEF Rendered
<1>16. Tracks(stack', d.frames)
  <2> HIDE DEF above
  <2> QED BY <1>14a, <1>14b, <1>15, TracksPush
<1>17. PICK F : F = d.frames
  OBVIOUS
<1>18. PICK w : \E Q \in 0..Len(l) :
          Writes(F, l, w, Q) /\ PrefixOf(n) \o Part(Specialised(n), 0) = SubSeq(l, 1, Q)
  BY <1>10, <1>11, <1>15, <1>17, WritesRow
<1>19. PICK Q \in 0..Len(l) :
          Writes(F, l, w, Q) /\ PrefixOf(n) \o Part(Specialised(n), 0) = SubSeq(l, 1, Q)
  BY <1>18
<1>20. PICK s : s = PrefixOf(n) \o Part(Specialised(n), 0)
  OBVIOUS
<1>21. /\ Len(rows') = K /\ \A i \in 1..(K - 1) : rows'[i] = rows[i]
       /\ rows'[K] = SubSeq(l, 1, Q)
  <2>0. PICK P : P = 0
    OBVIOUS
  <2>1. P \in 0..Len(l) /\ Q \in P..Len(l) /\ SubSeq(l, 1, P) = <<>> /\ s = SubSeq(l, P + 1, Q)
    BY <1>11, <1>19, <1>20, <2>0
  <2>2. written[Len(written)] = SubSeq(l, 1, P)
    BY <1>12, <2>1
  <2>3. rows' = Emitted(written, s)
    BY <1>15, <1>20
  <2>4. RowGrown(written, Emitted(written, s), l, Q)
    BY <1>11, <1>12, <2>1, <2>2, RowGoesOn
  <2> QED BY <1>12, <2>3, <2>4 DEF RowGrown
<1>22. RowUnderWay(d.frames, lines[d.row], rows'[d.row])
  BY <1>7, <1>9, <1>17, <1>19, <1>21 DEF RowUnderWay
<1>23. CursorIs(read', d)
  BY <1>9, <1>13, <1>15 DEF CursorIs
<1>24. stack' # <<>>
  <2>1. stack' = <<[code |-> code, next |-> 1]>>
    BY <1>15
  <2> QED BY <2>1
<1>25. \A i \in 1..d.row : i # d.row \/ stack' = <<>> => rows'[i] = lines[i]
  <2>1. \A i \in 1..(K - 1) : rows'[i] = lines[i]
    BY <1>1, <1>11, <1>13, <1>21
  <2> QED BY <1>9, <1>11, <1>24, <2>1
<1>26. Len(rows') = d.row /\ d.row \in Nat /\ d.row <= Len(rowIDs) /\ d.row \in 1..Len(lines)
  <2>1. Len(rowIDs) \in Nat
    BY StreamTypes
  <2> QED BY <1>9, <1>11, <1>21, <2>1
<1>27. Aligned(d)'
  BY <1>2, <1>16, <1>22, <1>23, <1>25, <1>26, AlignedNext
<1> QED BY <1>27

LEMMA AlignedUnmatched ==
  ASSUME NEW C, Charted(C), TypeInv, NEW c \in C, Aligned(c), DecodeUnmatched
  PROVE  \E d \in C : Aligned(d)'
<1>1. PICK K : K = Len(rows) + 1
  OBVIOUS
<1>2. /\ pc = "decode" /\ stack = <<>> /\ rowIDs[K] = 0 /\ Len(rows) < Len(rowIDs)
      /\ rows' = Append(rows, unmatched[read.unm + 1])
      /\ read' = [read EXCEPT !.unm = @ + 1] /\ read.unm < Len(unmatched)
      /\ UNCHANGED <<lines, folded, column, stack>>
  BY <1>1 DEF DecodeUnmatched, DecodingRow
<1>3. ConfigOK(c) /\ \E d \in C : Follows(c, d)
  BY <1>2, NextPoint
<1>4. PICK d \in C : Follows(c, d)
  BY <1>3
<1>5. c.frames = <<>> /\ c.row = Len(rows) /\ c.row + 1 = K
  BY <1>1, <1>2, <1>3, EmptyFrames DEF Aligned
<1>6. /\ unmatched[c.unm + 1] = lines[K] /\ d.row = K /\ d.frames = <<>>
      /\ d.sub = c.sub /\ d.unm = c.unm + 1 /\ d.pos = c.pos
  BY <1>1, <1>2, <1>4, <1>5 DEF Follows, RowMatched, RowUnmatched, SlotLeaf, SlotNode, Returns
<1>7. /\ CursorAt(read) /\ rows \in Seq(Seq(Char)) /\ Len(unmatched) \in Nat
  BY <1>2, TypedDecoding
<1>8. Len(rows) \in Nat /\ K \in 1..Len(lines) /\ K \in 1..Len(rowIDs)
  BY <1>1, <1>2, NewRow
<1>9. /\ read.sub = c.sub /\ read.unm = c.unm /\ SamePos(read.pos, c.pos)
      /\ \A i \in 1..Len(rows) : rows[i] = lines[i]
  BY <1>2 DEF Aligned, CursorIs
<1>10. read'.sub = read.sub /\ read'.unm = read.unm + 1 /\ read'.pos = read.pos
  BY <1>2, <1>7, TakeUnmatched
<1>11. CursorIs(read', d)
  BY <1>6, <1>9, <1>10 DEF CursorIs, SamePos
<1>12. Tracks(stack', d.frames)
  <2>1. stack' = <<>> /\ d.frames = <<>> /\ Len(<<>>) = 0
    BY <1>2, <1>6
  <2> QED BY <2>1 DEF Tracks
<1>13. Len(rows') = K /\ rows'[K] = lines[K] /\ \A i \in 1..Len(rows) : rows'[i] = rows[i]
  <2> DEFINE D == Seq(Char)
  <2>1. PICK v : v = unmatched[read.unm + 1]
    OBVIOUS
  <2>2. v = lines[K] /\ rows' = Append(rows, v) /\ rows \in Seq(D)
    BY <1>2, <1>6, <1>7, <1>9, <2>1
  <2> HIDE DEF D
  <2> QED BY <1>1, <2>2
<1>14. Len(rows') = d.row /\ d.row \in Nat /\ d.row <= Len(rowIDs)
  <2>1. Len(rowIDs) \in Nat
    BY StreamTypes
  <2> QED BY <1>6, <1>8, <1>13, <2>1
<1>15. \A i \in 1..d.row : i # d.row \/ stack' = <<>> => rows'[i] = lines[i]
  <2>1. \A i \in 1..d.row : i = K \/ i \in 1..Len(rows)
    BY <1>1, <1>6, <1>8
  <2> QED BY <1>9, <1>13, <2>1
<1>16. stack' = <<>>
  BY <1>2
<1>17. Aligned(d)'
  BY <1>2, <1>11, <1>12, <1>14, <1>15, <1>16, AlignedNext
<1> QED BY <1>17

-----------------------------------------------------------------------------
\* The row under way, at the point c.
Going(c, l, w, P) ==
    /\ l = lines[c.row] /\ l \in Seq(Char) /\ P \in 0..Len(l) /\ c.row \in 1..Len(lines)
    /\ Writes(c.frames, l, w, P) /\ HasRows(rows) /\ Len(rows) = c.row
    /\ rows[Len(rows)] = SubSeq(l, 1, P)

LEMMA UnderWay ==
  ASSUME TypeInv, pc = "decode", NEW c, ConfigOK(c), Aligned(c), stack # <<>>
  PROVE  \E l, w, P : Going(c, l, w, P)
<1>1. Len(rows) = c.row /\ c.row \in 1..Len(lines) /\ RowUnderWay(c.frames, lines[c.row], rows[c.row])
  BY DEF Aligned
<1>2. PICK l, s : l = lines[c.row] /\ s = rows[c.row]
  OBVIOUS
<1>3. PICK w, P : Writes(c.frames, l, w, P) /\ s = SubSeq(l, 1, P)
  BY <1>1, <1>2 DEF RowUnderWay
<1>4. P \in 0..Len(l) /\ l \in Seq(Char)
  BY <1>3, WritesFacts
<1>5. HasRows(rows)
  BY TypedDecoding, DecTop DEF HasRows
<1>6. Going(c, l, w, P)
  BY <1>1, <1>2, <1>3, <1>4, <1>5 DEF Going
<1> QED BY <1>6

\* One piece more of the row under way, and the same row goes on.
LEMMA RowAligned ==
  ASSUME TypeInv, pc = "decode", NEW c, ConfigOK(c), Aligned(c), stack # <<>>, stack' # <<>>,
         UNCHANGED <<lines, folded, column>>, NEW d, d.row = c.row,
         CursorIs(read', d), Tracks(stack', d.frames),
         NEW l, NEW w, NEW P, Going(c, l, w, P), NEW Q, NEW v,
         RowGrown(rows, rows', l, Q), Writes(d.frames, l, v, Q)
  PROVE  Aligned(d)'
<1>1. Len(rows) = d.row /\ d.row \in 1..Len(lines) /\ l = lines[d.row]
  BY DEF Going
<1>2. /\ Len(rows') = d.row /\ rows'[d.row] = SubSeq(l, 1, Q)
      /\ \A i \in 1..(d.row - 1) : rows'[i] = rows[i]
  BY <1>1 DEF RowGrown
<1>3. d.row \in Nat /\ d.row <= Len(rowIDs) /\ \A i \in 1..(d.row - 1) : rows[i] = lines[i]
  <2>1. c.row \in Nat /\ c.row <= Len(rowIDs)
    BY DEF ConfigOK, Aligned
  <2>2. \A i \in 1..Len(rows) : i # Len(rows) => rows[i] = lines[i]
    BY DEF Aligned
  <2> QED BY <1>1, <2>1, <2>2
<1>4. \A i \in 1..d.row : i # d.row \/ stack' = <<>> => rows'[i] = lines[i]
  <2>1. \A i \in 1..d.row : i # d.row => i \in 1..(d.row - 1)
    BY <1>3
  <2> QED BY <1>2, <1>3, <2>1
<1>5. RowUnderWay(d.frames, lines[d.row], rows'[d.row])
  BY <1>1, <1>2 DEF RowUnderWay
<1> QED BY <1>1, <1>2, <1>3, <1>4, <1>5, AlignedNext

LEMMA AlignedNode ==
  ASSUME NEW C, Charted(C), TypeInv, ReadAsWritten, OneFormPerID, NEW c \in C, Aligned(c),
         DecodeNode
  PROVE  \E d \in C : Aligned(d)'
<1>1. /\ pc = "decode" /\ stack # <<>> /\ Top.next <= Len(Holes(TopText))
      /\ UNCHANGED <<lines, folded, column>>
  BY DEF DecodeNode, DecodingSlot
<1>2. PICK r : r = [read EXCEPT !.sub = @ + 1]
  OBVIOUS
<1>3. PICK code \in NextSub \ {0} : Render(code, stack, rows, r)
  BY <1>2 DEF DecodeNode
<1>4. /\ code = subIDs[read.sub + 1] /\ code # 0 /\ read.sub + 1 \in DOMAIN subIDs
  BY <1>1, <1>3, CodeInTable
<1>5. ConfigOK(c) /\ \E d \in C : Follows(c, d)
  BY <1>1, NextPoint
<1>6. PICK d \in C : Follows(c, d)
  BY <1>5
<1>7. PICK f : f = TopOf(c)
  OBVIOUS
<1>8. /\ c.frames # <<>> /\ f.node \in BlockNodes /\ Top.next = f.next
      /\ TopText = Specialised(f.node)
      /\ Len(Holes(TopText)) = CompactSlot(f.node.id, Len(f.node.params)) /\ f \in Frame
  BY <1>1, <1>5, <1>7, TopOfBoth
<1>9. Len(Holes(TopText)) \in Nat /\ Top.next \in Nat
  BY <1>1, DecTop
<1>10. read.sub = c.sub /\ read.unm = c.unm /\ SamePos(read.pos, c.pos) /\ Tracks(stack, c.frames)
  BY DEF Aligned, CursorIs
<1>11. ~Returns(c, d)
  BY <1>1, <1>7, <1>8, <1>9 DEF Returns
<1>12. SlotNode(c, d)
  BY <1>4, <1>6, <1>8, <1>10, <1>11 DEF Follows, RowMatched, RowUnmatched, SlotLeaf
<1>13. /\ d.row = c.row /\ d.sub = c.sub + 1 /\ d.unm = c.unm
       /\ \E k : /\ IsSlot(f.node, k, f.next) /\ IsNode(f.node.params[k])
                 /\ Starts(c, d, code, f.node.params[k], c.frames)
  BY <1>4, <1>7, <1>10, <1>12 DEF SlotNode
<1>14. PICK k : /\ IsSlot(f.node, k, f.next) /\ IsNode(f.node.params[k])
                /\ Starts(c, d, code, f.node.params[k], c.frames)
  BY <1>13
<1>15. PICK n : n = f.node.params[k]
  OBVIOUS
<1>16. PICK F, callers, written : F = c.frames /\ callers = stack /\ written = rows
  OBVIOUS
<1>17. /\ CursorAt(read) /\ rows \in Seq(Seq(Char)) /\ BlockOK /\ StreamsOK /\ DecStack
  BY <1>1, TypedDecoding
<1>18. CursorAt(r) /\ r.sub = read.sub + 1 /\ r.unm = read.unm /\ r.pos = read.pos
  BY <1>2, <1>4, <1>17, TakeSub
<1>19. HasRows(written)
  BY <1>1, <1>16, <1>17, DecTop DEF HasRows
<1>20. Rendered(d, code, n, F, r, callers, written)
  <2>1. Starts(c, d, code, n, F) /\ Render(code, callers, written, r)
    BY <1>3, <1>14, <1>15, <1>16
  <2> QED BY <1>1, <1>5, <1>10, <1>18, <1>19, <2>1, RenderAligns
<1>21. /\ code \in DOMAIN table /\ table[code].id = n.id
       /\ n \in BlockNodes /\ FoldedRight(n)
       /\ stack' = Append(callers, [code |-> code, next |-> 1])
       /\ d.frames = Append(F, [node |-> n, next |-> 1])
       /\ read'.sub = r.sub /\ read'.unm = r.unm
       /\ SamePos(read'.pos, d.pos)
       /\ rows' = Emitted(written, PrefixOf(n) \o Part(Specialised(n), 0))
  BY <1>20 DEF Rendered
<1>22. callers \in Seq(RenderFrame) /\ F \in Seq(Frame) /\ Tracks(callers, F)
  BY <1>5, <1>10, <1>16, <1>17 DEF DecStack, ConfigOK, Frame
<1>23. Tracks(stack', d.frames)
  BY <1>21, <1>22, TracksPush
<1>24. CursorIs(read', d)
  BY <1>10, <1>13, <1>18, <1>21 DEF CursorIs
<1>25. PICK l, w, P : Going(c, l, w, P)
  BY <1>1, <1>5, UnderWay
<1>26. l \in Seq(Char) /\ P \in 0..Len(l) /\ Writes(F, l, w, P) /\ rows[Len(rows)] = SubSeq(l, 1, P)
  BY <1>16, <1>25 DEF Going
<1>27. PICK T : T = Specialised(f.node)
  OBVIOUS
<1>28. f = F[Len(F)] /\ f.next <= Len(Holes(T))
  BY <1>1, <1>7, <1>8, <1>16, <1>27 DEF TopOf
<1>29. PICK s : s = PrefixOf(n) \o Part(Specialised(n), 0)
  OBVIOUS
<1>30. Further(d.frames, l, P, s)
  <2>1. IsSlot(f.node, k, f.next) /\ IsNode(n) /\ FoldedRight(n) /\ BlockOK
    BY <1>14, <1>15, <1>17, <1>21
  <2>2. Further(Append(F, [node |-> n, next |-> 1]), l, P, s)
    BY <1>15, <1>26, <1>27, <1>28, <1>29, <2>1, WritesNode DEF Joined
  <2> QED BY <1>21, <2>2
<1>31. PICK v : \E Q \in P..Len(l) : Writes(d.frames, l, v, Q) /\ s = SubSeq(l, P + 1, Q)
  BY <1>30 DEF Further
<1>31a. PICK Q \in P..Len(l) : Writes(d.frames, l, v, Q) /\ s = SubSeq(l, P + 1, Q)
  BY <1>31
<1>32. RowGrown(written, Emitted(written, s), l, Q)
  BY <1>16, <1>19, <1>26, <1>31a, RowGoesOn
<1>33. RowGrown(rows, rows', l, Q)
  BY <1>16, <1>21, <1>29, <1>32
<1>34. stack' # <<>>
  <2>1. Len(stack') = Len(callers) + 1 /\ Len(callers) \in Nat
    BY <1>21, <1>22
  <2>2. Len(<<>>) = 0
    OBVIOUS
  <2> QED BY <2>1, <2>2
<1>35. Aligned(d)'
  BY <1>1, <1>5, <1>13, <1>23, <1>24, <1>25, <1>31a, <1>33, <1>34, RowAligned
<1> QED BY <1>35

LEMMA AlignedLeaf ==
  ASSUME NEW C, Charted(C), TypeInv, ReadAsWritten, OneFormPerID, NEW c \in C, Aligned(c),
         DecodeLeaf
  PROVE  \E d \in C : Aligned(d)'
<1>1. PICK k : k = <<Top.code, Top.next>>
  OBVIOUS
<1>2. /\ pc = "decode" /\ stack # <<>> /\ Top.next <= Len(Holes(TopText))
      /\ 0 \in NextSub /\ stack' = Stepped(stack)
      /\ read' = [read EXCEPT !.sub = @ + 1, !.pos[k] = @ + 1]
      /\ UNCHANGED <<lines, folded, column>>
  BY <1>1 DEF DecodeLeaf, DecodingSlot, Advanced, Stepped
<1>3. PICK v \in NextLeaf(k) : rows' = Emitted(rows, v \o Part(TopText, Top.next))
  BY <1>1 DEF DecodeLeaf, Emit, Emitted
<1>4. subIDs[read.sub + 1] = 0 /\ read.sub + 1 \in DOMAIN subIDs
  BY <1>2, CodeInTable
<1>5. ConfigOK(c) /\ \E d \in C : Follows(c, d)
  BY <1>2, NextPoint
<1>6. PICK d \in C : Follows(c, d)
  BY <1>5
<1>7. PICK f : f = TopOf(c)
  OBVIOUS
<1>8. /\ c.frames # <<>> /\ f.node \in BlockNodes /\ Top.next = f.next
      /\ TopText = Specialised(f.node) /\ Top.code \in DOMAIN table
      /\ table[Top.code].id = f.node.id
      /\ Len(Holes(TopText)) = CompactSlot(f.node.id, Len(f.node.params)) /\ f \in Frame
  BY <1>2, <1>5, <1>7, TopOfBoth
<1>9. Len(Holes(TopText)) \in Nat /\ Top.next \in Nat
  BY <1>2, DecTop
<1>10. read.sub = c.sub /\ read.unm = c.unm /\ SamePos(read.pos, c.pos) /\ Tracks(stack, c.frames)
  BY DEF Aligned, CursorIs
<1>11. ~Returns(c, d)
  BY <1>2, <1>7, <1>8, <1>9 DEF Returns
<1>12. ~SlotNode(c, d)
  <2>1. 0 \notin DOMAIN table
    BY <1>2, TypedDecoding
  <2> QED BY <1>4, <1>10, <2>1 DEF SlotNode, Starts
<1>13. SlotLeaf(c, d)
  BY <1>6, <1>8, <1>11, <1>12 DEF Follows, RowMatched, RowUnmatched
<1>14. /\ d.row = c.row /\ d.sub = c.sub + 1 /\ d.unm = c.unm /\ d.frames = Stepped(c.frames)
       /\ \E i : /\ IsSlot(f.node, i, f.next) /\ ~IsNode(f.node.params[i])
                 /\ \E code \in DOMAIN table :
                       /\ table[code].id = f.node.id
                       /\ Gets(c, d, <<code, f.next>>, f.node.params[i].value)
  BY <1>7, <1>13 DEF SlotLeaf
<1>15. PICK i : /\ IsSlot(f.node, i, f.next) /\ ~IsNode(f.node.params[i])
                /\ \E code \in DOMAIN table :
                       /\ table[code].id = f.node.id
                       /\ Gets(c, d, <<code, f.next>>, f.node.params[i].value)
  BY <1>14
<1>16. PICK value : value = f.node.params[i].value
  OBVIOUS
<1>17. Gets(c, d, k, value)
  <2>1. PICK code \in DOMAIN table :
           table[code].id = f.node.id /\ Gets(c, d, <<code, f.next>>, value)
    BY <1>15, <1>16
  <2>2. code = Top.code
    BY <1>2, <1>8, <2>1, OneCode, TypedDecoding
  <2> QED BY <1>1, <1>8, <2>1, <2>2
<1>18. /\ k \in DOMAIN buckets /\ buckets[k][c.pos[k] + 1] = value
       /\ d.pos = [c.pos EXCEPT ![k] = @ + 1]
  BY <1>17 DEF Gets
<1>19. read.pos[k] < Len(buckets[k]) /\ v = buckets[k][read.pos[k] + 1]
  BY <1>3, NextLeafFacts
<1>20. v = value /\ read.pos[k] = c.pos[k]
  BY <1>10, <1>18, <1>19 DEF SamePos
<1>21. /\ BlockOK /\ rows \in Seq(Seq(Char)) /\ DecStack /\ BucketsOK
  BY <1>2, TypedDecoding
<1>22. /\ read'.sub = read.sub + 1 /\ read'.unm = read.unm /\ read'.pos[k] = read.pos[k] + 1
       /\ \A j \in DOMAIN buckets : j # k => read'.pos[j] = read.pos[j]
  BY <1>2, <1>4, <1>18, <1>19, LeafCursor
<1>23. SamePos(read'.pos, d.pos)
  <2>1. DOMAIN buckets \subseteq Nat \X Nat /\ c.pos \in [Nat \X Nat -> Nat]
    BY <1>5, <1>21 DEF BucketsOK, ConfigOK
  <2>2. ASSUME NEW j \in DOMAIN buckets PROVE read'.pos[j] = d.pos[j]
    <3>1. j \in Nat \X Nat
      BY <2>1
    <3>2. d.pos[j] = IF j = k THEN c.pos[j] + 1 ELSE c.pos[j]
      BY <1>18, <2>1, <3>1
    <3>3. read.pos[j] = c.pos[j]
      BY <1>10 DEF SamePos
    <3> QED BY <1>22, <3>2, <3>3
  <2> QED BY <2>2 DEF SamePos
<1>24. CursorIs(read', d)
  BY <1>10, <1>14, <1>22, <1>23 DEF CursorIs
<1>25. PICK F, s, r : F = c.frames /\ s = stack /\ r = rows
  OBVIOUS
<1>26. s \in Seq(RenderFrame) /\ F \in Seq(Frame) /\ Tracks(s, F) /\ s # <<>>
  BY <1>2, <1>5, <1>10, <1>21, <1>25 DEF DecStack, ConfigOK, Frame
<1>27. Tracks(stack', d.frames)
  BY <1>2, <1>14, <1>25, <1>26, TracksStep
<1>28. stack' # <<>>
  <2>1. Len(Stepped(s)) = Len(s) /\ Len(s) \in Nat \ {0}
    BY <1>26, SteppedFacts
  <2>2. Len(<<>>) = 0
    OBVIOUS
  <2> QED BY <1>2, <1>25, <2>1, <2>2
<1>29. PICK l, w, P : Going(c, l, w, P)
  BY <1>2, <1>5, UnderWay
<1>30. /\ l \in Seq(Char) /\ P \in 0..Len(l) /\ Writes(F, l, w, P) /\ r[Len(r)] = SubSeq(l, 1, P)
       /\ HasRows(r)
  BY <1>25, <1>29 DEF Going
<1>31. PICK T : T = Specialised(f.node)
  OBVIOUS
<1>32. f = F[Len(F)] /\ f.next <= Len(Holes(T))
  BY <1>2, <1>7, <1>8, <1>25, <1>31 DEF TopOf
<1>33. PICK p : p = f.node.params[i].value \o Part(T, f.next)
  OBVIOUS
<1>34. Further(d.frames, l, P, p)
  <2>1. IsSlot(f.node, i, f.next) /\ ~IsNode(f.node.params[i])
    BY <1>15
  <2>2. Further(Stepped(F), l, P, p)
    BY <1>21, <1>30, <1>31, <1>32, <1>33, <2>1, WritesLeaf DEF Joined
  <2> QED BY <1>14, <1>25, <2>2
<1>35. PICK u : \E Q \in P..Len(l) : Writes(d.frames, l, u, Q) /\ p = SubSeq(l, P + 1, Q)
  BY <1>34 DEF Further
<1>36. PICK Q \in P..Len(l) : Writes(d.frames, l, u, Q) /\ p = SubSeq(l, P + 1, Q)
  BY <1>35
<1>37. RowGrown(r, Emitted(r, p), l, Q)
  BY <1>30, <1>36, RowGoesOn
<1>38. rows' = Emitted(r, p)
  BY <1>3, <1>8, <1>16, <1>20, <1>25, <1>31, <1>33
<1>39. RowGrown(rows, rows', l, Q)
  BY <1>25, <1>37, <1>38
<1>40. Aligned(d)'
  BY <1>2, <1>5, <1>14, <1>24, <1>27, <1>28, <1>29, <1>36, <1>39, RowAligned
<1> QED BY <1>40

\* No slot is behind a placeholder that the text does not have.
LEMMA SlotWithin ==
  ASSUME BlockOK, NEW n \in BlockNodes, NEW k, NEW M, IsSlot(n, k, M)
  PROVE  M <= CompactSlot(n.id, Len(n.params))
<1>1. Len(n.params) \in Nat /\ k \in 1..Len(n.params)
  BY ParamsLen DEF IsSlot
<1>2. CompactSlot(n.id, k) <= CompactSlot(n.id, Len(n.params))
  BY <1>1, CompactMonotone
<1> QED BY <1>2 DEF IsSlot

LEMMA AlignedReturn ==
  ASSUME NEW C, Charted(C), TypeInv, ReadAsWritten, OneFormPerID, NEW c \in C, Aligned(c),
         DecodeReturn
  PROVE  \E d \in C : Aligned(d)'
<1>1. PICK s : s = stack
  OBVIOUS
<1>2. /\ pc = "decode" /\ s # <<>> /\ Top.next > Len(Holes(TopText))
      /\ UNCHANGED <<lines, folded, column, read>>
      /\ IF Front(s) = <<>> THEN stack' = <<>> /\ rows' = rows
         ELSE /\ stack' = Stepped(Front(s))
              /\ rows' = Emitted(rows, Part(Reread(table[Last(Front(s)).code].text),
                                            Last(Front(s)).next))
  BY <1>1 DEF DecodeReturn, Emit, Emitted, Stepped
<1>3. ConfigOK(c) /\ \E d \in C : Follows(c, d)
  BY <1>1, <1>2, NextPoint
<1>4. PICK d \in C : Follows(c, d)
  BY <1>3
<1>5. PICK f : f = TopOf(c)
  OBVIOUS
<1>6. /\ c.frames # <<>> /\ f.node \in BlockNodes /\ Top.next = f.next
      /\ TopText = Specialised(f.node) /\ TopText \in Text
      /\ Len(Holes(TopText)) = CompactSlot(f.node.id, Len(f.node.params)) /\ f \in Frame
      /\ Len(c.frames) = Len(s) /\ Len(s) \in Nat \ {0}
  BY <1>1, <1>2, <1>3, <1>5, TopOfBoth
<1>7. /\ Len(Holes(TopText)) \in Nat /\ Top.next \in Nat /\ BlockOK /\ DecStack
      /\ rows \in Seq(Seq(Char))
  BY <1>1, <1>2, DecTop, TypedDecoding
<1>8. read.sub = c.sub /\ read.unm = c.unm /\ SamePos(read.pos, c.pos) /\ Tracks(s, c.frames)
  BY <1>1 DEF Aligned, CursorIs
<1>9. \A k : ~IsSlot(f.node, k, f.next)
  BY <1>2, <1>6, <1>7, SlotWithin
<1>10. Returns(c, d)
  BY <1>4, <1>5, <1>6, <1>9 DEF Follows, RowMatched, RowUnmatched, SlotLeaf, SlotNode
<1>11. /\ d.row = c.row /\ d.sub = c.sub /\ d.unm = c.unm /\ d.pos = c.pos
       /\ d.frames = Popped(c.frames)
  BY <1>10 DEF Returns
<1>12. CursorIs(read', d)
  BY <1>2, <1>8, <1>11 DEF CursorIs
<1>13. PICK F : F = c.frames
  OBVIOUS
<1>14. s \in Seq(RenderFrame) /\ F \in Seq(Frame) /\ Tracks(s, F) /\ F # <<>>
  BY <1>1, <1>3, <1>6, <1>7, <1>8, <1>13 DEF DecStack, ConfigOK, Frame
<1>15. PICK l, w, P : Going(c, l, w, P)
  BY <1>1, <1>2, <1>3, UnderWay
<1>16. /\ l \in Seq(Char) /\ P \in 0..Len(l) /\ Writes(F, l, w, P) /\ HasRows(rows)
       /\ rows[Len(rows)] = SubSeq(l, 1, P) /\ Len(rows) = c.row /\ l = lines[c.row]
  BY <1>13, <1>15 DEF Going
<1>17. PICK T : T = Specialised(f.node)
  OBVIOUS
<1>18. f = F[Len(F)] /\ f.next > Len(Holes(T)) /\ T \in Text
  BY <1>2, <1>5, <1>6, <1>13, <1>17 DEF TopOf
<1>19. PICK E, t : E = Front(F) /\ t = Front(s)
  OBVIOUS
<1>20. /\ t \in Seq(RenderFrame) /\ Len(t) = Len(s) - 1 /\ \A i \in 1..(Len(s) - 1) : t[i] = s[i]
       /\ E \in Seq(Frame) /\ Len(E) = Len(s) - 1 /\ \A i \in 1..(Len(s) - 1) : E[i] = F[i]
       /\ Tracks(t, E)
  BY <1>2, <1>6, <1>13, <1>14, <1>19, FrontFacts, TracksFront
<1>21. CASE Len(s) = 1
  <2>1. t = <<>>
    BY <1>20, <1>21, EmptySeq
  <2>2. stack' = <<>> /\ rows' = rows /\ d.frames = <<>>
    BY <1>2, <1>6, <1>11, <1>19, <1>21, <2>1 DEF Popped
  <2>3. P = Len(l)
    <3>1. PICK b : b = w[Len(F)]
      OBVIOUS
    <3>2. P = b.hi
      BY <1>16, <1>17, <1>18, <3>1, WritesEnd
    <3>3. b = w[1]
      BY <1>6, <1>13, <1>21, <3>1
    <3>4. w[1].hi = Len(l)
      BY <1>16 DEF Writes
    <3> QED BY <3>2, <3>3, <3>4
  <2>4. rows[Len(rows)] = l
    BY <1>16, <2>3
  <2>5. \A i \in 1..d.row : rows'[i] = lines[i]
    <3>1. \A i \in 1..Len(rows) : i # Len(rows) => rows[i] = lines[i]
      BY DEF Aligned
    <3> QED BY <1>11, <1>16, <2>2, <2>4, <3>1
  <2>6. Len(rows') = d.row /\ d.row \in Nat /\ d.row <= Len(rowIDs)
    BY <1>3, <1>11, <1>16, <2>2 DEF ConfigOK, Aligned
  <2>7. Tracks(stack', d.frames)
    <3>1. Len(<<>>) = 0
      OBVIOUS
    <3> QED BY <2>2, <3>1 DEF Tracks
  <2>8. UNCHANGED <<lines, folded, column>>
    BY <1>2
  <2>9. Aligned(d)'
    BY <1>12, <2>2, <2>5, <2>6, <2>7, <2>8, AlignedNext
  <2> QED BY <2>9
<1>22. CASE Len(s) # 1
  <2>1. t # <<>> /\ Len(t) \in Nat \ {0}
    <3>1. Len(<<>>) = 0
      OBVIOUS
    <3> QED BY <1>6, <1>20, <1>22, <3>1
  <2>2. PICK b, g, K : b = Last(t) /\ g = F[Len(F) - 1] /\ K = Len(s) - 1
    OBVIOUS
  <2>3. K \in 1..Len(t) /\ K = Len(t) /\ Len(F) - 1 = K /\ Len(F) = Len(s) /\ K \in 1..Len(E)
    BY <1>6, <1>13, <1>20, <1>22, <2>2
  <2>4. b = t[K] /\ b \in RenderFrame
    BY <1>20, <2>1, <2>2, <2>3, FrontFacts
  <2>5. g = E[K] /\ g \in Frame /\ g.node \in BlockNodes
    <3>1. g = F[K] /\ K \in 1..(Len(s) - 1)
      BY <1>20, <2>2, <2>3
    <3>2. g = E[K]
      BY <1>20, <3>1
    <3>3. g \in Frame
      BY <1>20, <2>3, <3>2
    <3> QED BY <3>2, <3>3 DEF Frame
  <2>6. b.code \in DOMAIN table /\ table[b.code].id = g.node.id /\ b.next = g.next
    BY <1>20, <2>3, <2>4, <2>5 DEF Tracks, RenderFrame
  <2>7. PICK U : U = Specialised(g.node)
    OBVIOUS
  <2>8. Reread(table[b.code].text) = U
    BY <1>2, <2>5, <2>6, <2>7, EntryOf
  <2>9. PICK p : p = Part(U, g.next)
    OBVIOUS
  <2>10. stack' = Stepped(t) /\ rows' = Emitted(rows, p) /\ d.frames = Stepped(E)
    BY <1>2, <1>6, <1>11, <1>13, <1>19, <1>22, <2>1, <2>2, <2>6, <2>8, <2>9 DEF Popped
  <2>11. Further(d.frames, l, P, p)
    <3>1. Len(F) # 1
      BY <1>22, <2>3
    <3>2. Further(Stepped(Front(F)), l, P, p)
      BY <1>16, <1>17, <1>18, <2>2, <2>7, <2>9, <3>1, WritesReturn
    <3> QED BY <1>19, <2>10, <3>2
  <2>12. PICK u : \E Q \in P..Len(l) : Writes(d.frames, l, u, Q) /\ p = SubSeq(l, P + 1, Q)
    BY <2>11 DEF Further
  <2>13. PICK Q \in P..Len(l) : Writes(d.frames, l, u, Q) /\ p = SubSeq(l, P + 1, Q)
    BY <2>12
  <2>14. PICK r : r = rows
    OBVIOUS
  <2>15. RowGrown(r, Emitted(r, p), l, Q)
    BY <1>16, <2>13, <2>14, RowGoesOn
  <2>16. RowGrown(rows, rows', l, Q)
    BY <2>10, <2>14, <2>15
  <2>17. Tracks(stack', d.frames)
    BY <1>20, <2>1, <2>10, TracksStep
  <2>18. stack' # <<>>
    <3>1. Len(Stepped(t)) = Len(t)
      BY <1>20, <2>1, SteppedFacts
    <3>2. Len(<<>>) = 0
      OBVIOUS
    <3> QED BY <2>1, <2>10, <3>1, <3>2
  <2>19. UNCHANGED <<lines, folded, column>> /\ stack # <<>>
    BY <1>1, <1>2
  <2>20. Aligned(d)'
    BY <1>2, <1>3, <1>11, <1>12, <1>15, <2>13, <2>16, <2>17, <2>18, <2>19, RowAligned
  <2> QED BY <2>20
<1> QED BY <1>21, <1>22

LEMMA WayStutter ==
  ASSUME NEW C, Charted(C), TypeInv, UNCHANGED vars
  PROVE  Charted(C)'
<1>1. UNCHANGED <<lines, folded, rowIDs, table, subIDs, buckets, unmatched, stack, marks, pc>>
  BY DEF vars, column
<1>2. /\ pc \in {"profile", "encode"} \/ pc \in {"transfer", "decode", "done"}
      /\ RowsCharted
  BY DEF TypeInv, PhaseOK, Charted
<1>3. Now' = Now
  <2>1. CASE pc = "encode"
    <3>1. Here(stack)' = Here(stack)
      BY <1>1 DEF Here, View, CompactSlot, IsFolded, Lengths, Bucket
    <3> QED BY <1>1, <2>1, <3>1 DEF Now
  <2>2. CASE pc # "encode"
    <3>1. Here(<<>>)' = Here(<<>>)
      BY <1>1 DEF Here, View, CompactSlot, IsFolded, Lengths, Bucket
    <3> QED BY <1>1, <2>2, <3>1 DEF Now
  <2> QED BY <2>1, <2>2
<1>4. RowsCharted'
  BY <1>1, <1>2 DEF RowsCharted
<1>5. CASE pc = "profile"
  <2>1. C = {Start} /\ Now = Start /\ ConfigOK(Start)
    BY <1>5 DEF Charted
  <2>2. ConfigOK(Start)'
    BY <1>1, <2>1 DEF ConfigOK, BlockNodes
  <2> QED BY <1>1, <1>3, <1>4, <1>5, <2>1, <2>2 DEF Charted
<1>6. CASE pc # "profile"
  <2>1. \A c \in C : c.frames = <<>> => Marked(c)' \/ (c = Now' /\ pc' = "encode")
    <3> TAKE c \in C
    <3> HAVE c.frames = <<>>
    <3>1. Marked(c) \/ (c = Now /\ pc = "encode")
      BY <1>6 DEF Charted
    <3>2. Marked(c)' = Marked(c)
      BY <1>1 DEF Marked
    <3> QED BY <1>1, <1>3, <3>1, <3>2
  <2> QED BY <1>1, <1>3, <1>4, <1>6, <2>1, ChartedSame
<1> QED BY <1>5, <1>6

\* Before the first row the decoder is at the start.
LEMMA StartAligned ==
  ASSUME NEW C, Charted(C), TypeInv, Transfer, rows = <<>>
  PROVE  Aligned(Start)'
<1>1. /\ pc = "transfer" /\ pc' = "decode" /\ read' = [read EXCEPT !.pos = [k \in DOMAIN buckets |-> 0]]
      /\ UNCHANGED <<lines, folded, rowIDs, table, subIDs, unmatched, stack, rows, marks>>
  BY DEF Transfer
<1>2. buckets' = buckets /\ DOMAIN buckets \subseteq Nat \X Nat
  BY TransferSame DEF TypeInv, BucketsOK
<1>3. stack = <<>> /\ read = [sub |-> 0, unm |-> 0, pos |-> [k \in {} |-> 0]]
  BY <1>1 DEF TypeInv, StackOK, CursorOK
<1>4. read' = [sub |-> 0, unm |-> 0, pos |-> [k \in DOMAIN buckets |-> 0]]
  BY <1>1, <1>3
<1>5. /\ Start.row = 0 /\ Start.frames = <<>> /\ Start.sub = 0 /\ Start.unm = 0
      /\ Start.pos = [k \in Nat \X Nat |-> 0]
  BY DEF Start
<1>6. read'.sub = 0 /\ read'.unm = 0 /\ \A k \in DOMAIN buckets : read'.pos[k] = 0
  BY <1>4
<1>7. \A k \in DOMAIN buckets : Start.pos[k] = 0
  BY <1>2, <1>5
<1>8. UNCHANGED <<lines, folded, column>>
  BY <1>1, <1>2 DEF column
<1>9. CursorIs(read', Start)
  BY <1>5, <1>6, <1>7 DEF CursorIs, SamePos
<1>10. Len(<<>>) = 0 /\ stack' = <<>> /\ rows' = <<>>
  BY <1>1, <1>3
<1>11. Tracks(stack', Start.frames)
  BY <1>5, <1>10 DEF Tracks
<1>12. Len(rowIDs) \in Nat
  BY StreamTypes
<1>13. PICK d : d = Start
  OBVIOUS
<1>14. /\ Len(rows') = d.row /\ d.row \in Nat /\ d.row <= Len(rowIDs)
       /\ CursorIs(read', d) /\ Tracks(stack', d.frames) /\ d.row = 0
  BY <1>5, <1>9, <1>10, <1>11, <1>12, <1>13
<1>15. Aligned(d)'
  BY <1>8, <1>10, <1>14, AlignedNext
<1> QED BY <1>13, <1>15

\* What does not touch the decoder's state.
LEMMA AlignedKept ==
  ASSUME UNCHANGED <<lines, folded, column, stack, read, rows>>, NEW c, ConfigOK(c), Aligned(c)
  PROVE  Aligned(c)'
<1>1. /\ Len(rows') = c.row /\ c.row \in Nat /\ c.row <= Len(rowIDs) /\ CursorIs(read', c)
      /\ Tracks(stack', c.frames)
      /\ \A i \in 1..c.row : i # c.row \/ stack' = <<>> => rows'[i] = lines[i]
      /\ stack' # <<>> => /\ c.row \in 1..Len(lines)
                          /\ RowUnderWay(c.frames, lines[c.row], rows'[c.row])
  BY DEF Aligned, ConfigOK
<1> QED BY <1>1, AlignedNext

-----------------------------------------------------------------------------
\* The inductive invariant: the encoder writes a way, the decoder is on it.
Reading == pc \in {"decode", "done"}

OnTheWay(C) == Charted(C) /\ (Reading => \E c \in C : Aligned(c))

Way ==
    /\ \E C : OnTheWay(C)
    /\ ~Reading => rows = <<>>
    /\ pc = "done" => Len(rows) = Len(rowIDs)

LEMMA WayInitially == Init => Way
<1> SUFFICES ASSUME Init PROVE Way
  OBVIOUS
<1>1. Charted({Start}) /\ pc = "profile" /\ rows = <<>>
  BY WayInit DEF Init
<1>2. OnTheWay({Start})
  BY <1>1 DEF OnTheWay, Reading
<1> QED BY <1>1, <1>2 DEF Way, Reading

\* One step of the decoder on its way.
LEMMA WayDecode ==
  ASSUME NEW C, Charted(C), TypeInv, ReadAsWritten, OneFormPerID, NEW c \in C, Aligned(c),
         DecodeMatched \/ DecodeUnmatched \/ DecodeLeaf \/ DecodeNode \/ DecodeReturn
  PROVE  OnTheWay(C)' /\ pc' = "decode"
<1>1. \E d \in C : Aligned(d)'
  BY AlignedMatched, AlignedUnmatched, AlignedLeaf, AlignedNode, AlignedReturn
<1>2. pc = "decode" /\ pc' = "decode" /\ UNCHANGED <<lines, folded, column, marks>>
  BY DEF DecodeMatched, DecodeUnmatched, DecodeLeaf, DecodeNode, DecodeReturn, DecodingRow,
         DecodingSlot
<1>3. Charted(C)'
  <2>1. UNCHANGED <<lines, folded, rowIDs, table, subIDs, buckets, unmatched, marks>>
    BY <1>2 DEF column
  <2> QED BY <1>2, <2>1, WayRead
<1> QED BY <1>1, <1>2, <1>3 DEF OnTheWay

LEMMA WayInductive ==
  ASSUME Way, TypeInv, ViewOK', ReadAsWritten, OneFormPerID, [Next]_vars
  PROVE  Way'
<1>1. PICK C : OnTheWay(C)
  BY DEF Way
<1>2. Charted(C) /\ (Reading => \E c \in C : Aligned(c))
  BY <1>1 DEF OnTheWay
<1>3. CASE ProfileBlock
  <2>1. Charted(C)' /\ pc = "profile" /\ pc' = "encode" /\ rows' = rows
    BY <1>2, <1>3, WayProfile DEF ProfileBlock
  <2> QED BY <2>1 DEF Way, OnTheWay, Reading
<1>4. CASE EncodeMatched \/ EncodeUnmatched \/ EncodeNode \/ EncodeLeaf \/ EncodeReturn
  <2>1. PICK g : Charted(C \cup {g})'
    BY <1>2, <1>4, WayEncode
  <2>2. pc = "encode" /\ pc' = "encode" /\ rows' = rows
    BY <1>4 DEF EncodeMatched, EncodeUnmatched, EncodeNode, EncodeLeaf, EncodeReturn, EncodingRow,
                EncodingParam
  <2>3. OnTheWay(C \cup {g})'
    BY <2>1, <2>2 DEF OnTheWay, Reading
  <2> QED BY <2>2, <2>3 DEF Way, Reading
<1>5. CASE EncodeFolded
  <2>1. Charted(C)' /\ pc = "encode" /\ pc' = "encode" /\ rows' = rows
    BY <1>2, <1>5, WayFolded DEF EncodeFolded, EncodingParam
  <2> QED BY <2>1 DEF Way, OnTheWay, Reading
<1>6. CASE EncodeDone
  <2>1. Charted(C)' /\ pc = "encode" /\ pc' = "transfer" /\ rows' = rows
    BY <1>2, <1>6, WayDone DEF EncodeDone
  <2> QED BY <2>1 DEF Way, OnTheWay, Reading
<1>7. CASE Transfer
  <2>1. /\ pc = "transfer" /\ pc' = "decode" /\ rows = <<>> /\ Start \in C
    BY <1>2, <1>7 DEF Transfer, Way, Reading, Charted
  <2>2. UNCHANGED <<lines, folded, rowIDs, table, subIDs, buckets, unmatched, marks>>
    <3>1. buckets' = buckets
      BY <1>7, TransferSame DEF TypeInv
    <3> QED BY <1>7, <3>1 DEF Transfer
  <2>3. Charted(C)'
    BY <1>2, <2>1, <2>2, WayRead
  <2>4. Aligned(Start)'
    BY <1>2, <1>7, <2>1, StartAligned
  <2>5. OnTheWay(C)'
    BY <2>1, <2>3, <2>4 DEF OnTheWay
  <2> QED BY <2>1, <2>5 DEF Way, Reading
<1>8. CASE DecodeMatched \/ DecodeUnmatched \/ DecodeLeaf \/ DecodeNode \/ DecodeReturn
  <2>1. Reading
    BY <1>8 DEF DecodeMatched, DecodeUnmatched, DecodeLeaf, DecodeNode, DecodeReturn, DecodingRow,
                DecodingSlot, Reading
  <2>2. PICK c \in C : Aligned(c)
    BY <1>2, <2>1
  <2>3. OnTheWay(C)' /\ pc' = "decode"
    BY <1>2, <1>8, <2>2, WayDecode
  <2> QED BY <2>3 DEF Way, Reading
<1>9. CASE DecodeDone
  <2>1. /\ pc = "decode" /\ pc' = "done" /\ Len(rows) = Len(rowIDs)
        /\ UNCHANGED <<lines, folded, column, stack, read, rows, marks>>
    BY <1>9 DEF DecodeDone
  <2>2. PICK c \in C : Aligned(c)
    BY <1>2, <2>1 DEF Reading
  <2>3. ConfigOK(c)
    BY <1>2 DEF Charted
  <2>4. Aligned(c)'
    BY <2>1, <2>2, <2>3, AlignedKept
  <2>5. UNCHANGED <<lines, folded, rowIDs, table, subIDs, buckets, unmatched, marks>>
    BY <2>1 DEF column
  <2>6. Charted(C)'
    BY <1>2, <2>1, <2>5, WayRead
  <2>7. OnTheWay(C)'
    BY <2>4, <2>6 DEF OnTheWay
  <2> QED BY <2>1, <2>5, <2>7 DEF Way, Reading
<1>10. CASE UNCHANGED vars
  <2>1. Charted(C)'
    BY <1>2, <1>10, WayStutter
  <2>2. UNCHANGED <<lines, folded, column, stack, read, rows>> /\ pc' = pc /\ rowIDs' = rowIDs
    BY <1>10 DEF vars, column
  <2>3. ASSUME Reading PROVE \E c \in C : Aligned(c)'
    <3>1. PICK c \in C : Aligned(c)
      BY <1>2, <2>3
    <3>2. ConfigOK(c)
      BY <1>2 DEF Charted
    <3> QED BY <2>2, <3>1, <3>2, AlignedKept
  <2>4. OnTheWay(C)'
    BY <2>1, <2>2, <2>3 DEF OnTheWay, Reading
  <2> QED BY <2>2, <2>4 DEF Way, Reading
<1>11. \/ ProfileBlock
       \/ EncodeMatched \/ EncodeUnmatched \/ EncodeNode \/ EncodeLeaf \/ EncodeReturn
       \/ EncodeFolded \/ EncodeDone \/ Transfer
       \/ DecodeMatched \/ DecodeUnmatched \/ DecodeLeaf \/ DecodeNode \/ DecodeReturn
       \/ DecodeDone \/ UNCHANGED vars
  BY DEF Next
<1> QED BY <1>3, <1>4, <1>5, <1>6, <1>7, <1>8, <1>9, <1>10, <1>11

LEMMA LeafThere ==
  ASSUME NEW k \in DOMAIN buckets, read.pos[k] < Len(buckets[k])
  PROVE  NextLeaf(k) # {}
<1>1. buckets[k][read.pos[k] + 1] \in NextLeaf(k)
  BY DEF NextLeaf
<1> QED BY <1>1

\* Where encodeNode put a prefix, render finds one.
LEMMA PrefixThere ==
  ASSUME TypeInv, pc = "decode", ReadAsWritten, OneFormPerID, NEW c, SamePos(read.pos, c.pos),
         NEW d, NEW code, NEW n, NEW above, Starts(c, d, code, n, above)
  PROVE  ~NoPrefix(code)
<1>1. code \in DOMAIN table /\ table[code].id = n.id /\ n \in BlockNodes
  BY DEF Starts
<1>2. table[code].suffix = n.suffix
  BY <1>1, EntryOf
<1>3. CASE n.suffix
  <2>1. PICK k : k = <<code, 0>>
    OBVIOUS
  <2>2. k \in DOMAIN buckets /\ c.pos[k] < Len(buckets[k])
    BY <1>3, <2>1 DEF Starts, Gets
  <2>3. read.pos[k] < Len(buckets[k])
    BY <2>2 DEF SamePos
  <2>4. NextLeaf(k) # {}
    BY <2>2, <2>3, LeafThere
  <2> QED BY <2>1, <2>4 DEF NoPrefix
<1>4. CASE ~n.suffix
  BY <1>2, <1>4 DEF NoPrefix
<1> QED BY <1>3, <1>4

LEMMA RowThere ==
  ASSUME NEW C, Charted(C), TypeInv, ReadAsWritten, OneFormPerID, NEW c \in C, Aligned(c)
  PROVE  ~RowFails
<1> SUFFICES ASSUME RowFails PROVE FALSE
  OBVIOUS
<1>1. PICK code : code = rowIDs[Len(rows) + 1]
  OBVIOUS
<1>2. /\ pc = "decode" /\ stack = <<>> /\ Len(rows) < Len(rowIDs)
      /\ code = 0 => read.unm >= Len(unmatched)
      /\ code # 0 => NoPrefix(code)
  BY <1>1 DEF RowFails, DecodingRow
<1>3. ConfigOK(c) /\ \E d \in C : Follows(c, d)
  BY <1>2, NextPoint
<1>4. PICK d \in C : Follows(c, d)
  BY <1>3
<1>5. c.frames = <<>> /\ c.row = Len(rows) /\ read.unm = c.unm /\ SamePos(read.pos, c.pos)
  BY <1>2, <1>3, EmptyFrames DEF Aligned, CursorIs
<1>6. CASE code = 0
  <2>1. c.unm < Len(unmatched)
    BY <1>1, <1>4, <1>5, <1>6 DEF Follows, RowMatched, RowUnmatched, SlotLeaf, SlotNode, Returns
  <2>2. Len(unmatched) \in Nat /\ c.unm \in Nat
    BY <1>3, StreamTypes DEF ConfigOK
  <2> QED BY <1>2, <1>5, <1>6, <2>1, <2>2
<1>7. CASE code # 0
  <2>1. RowMatched(c, d)
    BY <1>1, <1>4, <1>5, <1>7 DEF Follows, RowUnmatched, SlotLeaf, SlotNode, Returns
  <2>2. PICK n, none : Starts(c, d, code, n, none)
    BY <1>1, <1>5, <2>1 DEF RowMatched
  <2> QED BY <1>2, <1>5, <1>7, <2>2, PrefixThere
<1> QED BY <1>6, <1>7

LEMMA SlotThere ==
  ASSUME NEW C, Charted(C), TypeInv, ReadAsWritten, OneFormPerID, NEW c \in C, Aligned(c)
  PROVE  ~SlotFails
<1> SUFFICES ASSUME SlotFails PROVE FALSE
  OBVIOUS
<1>1. PICK k : k = <<Top.code, Top.next>>
  OBVIOUS
<1>2. /\ pc = "decode" /\ stack # <<>> /\ Top.next <= Len(Holes(TopText))
      /\ \/ NextSub = {}
         \/ 0 \in NextSub /\ NextLeaf(k) = {}
         \/ \E code \in NextSub \ {0} : NoPrefix(code)
  BY <1>1 DEF SlotFails, DecodingSlot
<1>3. ConfigOK(c) /\ \E d \in C : Follows(c, d)
  BY <1>2, NextPoint
<1>4. PICK d \in C : Follows(c, d)
  BY <1>3
<1>5. PICK f : f = TopOf(c)
  OBVIOUS
<1>6. /\ c.frames # <<>> /\ Top.next = f.next /\ Top.code \in DOMAIN table
      /\ table[Top.code].id = f.node.id
      /\ Len(Holes(TopText)) = CompactSlot(f.node.id, Len(f.node.params))
  BY <1>2, <1>3, <1>5, TopOfBoth
<1>7. Len(Holes(TopText)) \in Nat /\ Top.next \in Nat
  BY <1>2, DecTop
<1>8. read.sub = c.sub /\ SamePos(read.pos, c.pos) /\ c.sub \in Nat
  BY <1>3 DEF Aligned, CursorIs, ConfigOK
<1>9. ~Returns(c, d)
  BY <1>2, <1>5, <1>6, <1>7 DEF Returns
<1>10. SlotLeaf(c, d) \/ SlotNode(c, d)
  BY <1>4, <1>6, <1>9 DEF Follows, RowMatched, RowUnmatched
<1>11. PICK code : code = subIDs[c.sub + 1]
  OBVIOUS
<1>12. NextSub = {code}
  <2>1. c.sub < Len(subIDs)
    BY <1>10 DEF SlotLeaf, SlotNode
  <2>2. subIDs \in Seq(Nat) /\ Len(subIDs) \in Nat
    BY StreamTypes
  <2>3. c.sub + 1 \in DOMAIN subIDs
    BY <1>8, <2>1, <2>2
  <2> QED BY <1>8, <1>11, <2>3 DEF NextSub
<1>13. CASE SlotLeaf(c, d)
  <2>1. PICK a, v : a \in DOMAIN table /\
           table[a].id = f.node.id /\ Gets(c, d, <<a, f.next>>, v)
    BY <1>5, <1>13 DEF SlotLeaf
  <2>2. a = Top.code
    BY <1>2, <1>6, <2>1, OneCode, TypedDecoding
  <2>3. k \in DOMAIN buckets /\ c.pos[k] < Len(buckets[k])
    BY <1>1, <1>6, <2>1, <2>2 DEF Gets
  <2>4. NextLeaf(k) # {}
    BY <1>8, <2>3, LeafThere DEF SamePos
  <2>5. code = 0
    BY <1>11, <1>13 DEF SlotLeaf
  <2> QED BY <1>2, <1>12, <2>4, <2>5
<1>14. CASE SlotNode(c, d)
  <2>1. PICK n, above : Starts(c, d, code, n, above)
    BY <1>11, <1>14 DEF SlotNode
  <2>2. ~NoPrefix(code)
    BY <1>2, <1>8, <2>1, PrefixThere
  <2>3. code # 0
    <3>1. 0 \notin DOMAIN table
      BY <1>2, TypedDecoding
    <3> QED BY <2>1, <3>1 DEF Starts
  <2> QED BY <1>2, <1>12, <2>2, <2>3
<1> QED BY <1>10, <1>13, <1>14

LEMMA CodesFit == TypeInv => ~CodeRefused
BY DEF TypeInv, IInv, StreamsOK, ToSet, CodeRefused

LEMMA AllRead ==
  ASSUME NEW C, Charted(C), TypeInv, pc = "done", Len(rows) = Len(rowIDs),
         NEW c \in C, Aligned(c)
  PROVE  rows = lines
<1> DEFINE D == Seq(Char)
<1>1. stack = <<>> /\ rows \in Seq(D) /\ BlockOK
  BY BlockFacts DEF TypeInv, StackOK, PhaseOK
<1>2. lines \in Seq(D)
  BY <1>1 DEF BlockOK
<1>3. Len(rows) = Len(lines)
  BY DEF Charted, RowsCharted
<1>4. \A i \in 1..Len(rows) : rows[i] = lines[i]
  BY <1>1 DEF Aligned
<1> HIDE DEF D
<1> QED BY <1>1, <1>2, <1>3, <1>4, SameSeq

LEMMA WayReconstructs ==
  Way /\ TypeInv /\ ReadAsWritten /\ OneFormPerID => RowsReconstructed
<1> SUFFICES ASSUME Way, TypeInv, ReadAsWritten, OneFormPerID
             PROVE  RowsReconstructed
  OBVIOUS
<1>1. PICK C : OnTheWay(C)
  BY DEF Way
<1>2. Charted(C) /\ (Reading => \E c \in C : Aligned(c))
  BY <1>1 DEF OnTheWay
<1>3. ~Fails
  <2>1. ASSUME RowFails \/ SlotFails PROVE FALSE
    <3>1. Reading
      BY <2>1 DEF RowFails, SlotFails, DecodingRow, DecodingSlot, Reading
    <3>2. PICK c \in C : Aligned(c)
      BY <1>2, <3>1
    <3> QED BY <1>2, <2>1, <3>2, RowThere, SlotThere
  <2> QED BY <2>1, CodesFit DEF Fails
<1>4. ASSUME pc = "done" PROVE rows = lines
  <2>1. PICK c \in C : Aligned(c)
    BY <1>2, <1>4 DEF Reading
  <2>2. Len(rows) = Len(rowIDs)
    BY <1>4 DEF Way
  <2> QED BY <1>2, <1>4, <2>1, <2>2, AllRead
<1> QED BY <1>3, <1>4 DEF RowsReconstructed

\* Between two rows the point is one that was marked.
LEMMA WayInStep == Way /\ TypeInv => StreamsInStep
<1> SUFFICES ASSUME Way, TypeInv, pc \in {"decode", "done"}, stack = <<>>,
                    NEW mark, mark = marks[Len(rows) + 1]
             PROVE  /\ read.sub = mark.sub /\ read.unm = mark.unm
                    /\ \A k \in DOMAIN buckets :
                          read.pos[k] = IF k \in DOMAIN mark.pos THEN mark.pos[k] ELSE 0
  BY DEF StreamsInStep
<1>1. PICK C : OnTheWay(C)
  BY DEF Way
<1>2. Charted(C)
  BY <1>1 DEF OnTheWay
<1>3. PICK c \in C : Aligned(c)
  BY <1>1 DEF OnTheWay, Reading
<1>4. ConfigOK(c)
  BY <1>2 DEF Charted
<1>5. c.frames = <<>>
  BY <1>3, <1>4, EmptyFrames
<1>6. Marked(c) /\ Len(rows) = c.row
  BY <1>2, <1>3, <1>5 DEF Charted, Aligned
<1>7. MarkAt(c, mark)
  BY <1>6 DEF Marked
<1>8. read.sub = c.sub /\ read.unm = c.unm /\ \A k \in DOMAIN buckets : read.pos[k] = c.pos[k]
  BY <1>3 DEF Aligned, CursorIs, SamePos
<1>9. DOMAIN buckets \subseteq Nat \X Nat
  BY DEF TypeInv, BucketsOK
<1> QED BY <1>7, <1>8, <1>9 DEF MarkAt

LEMMA WayBounds == Way /\ TypeInv => NestingBounded
<1> SUFFICES ASSUME Way, TypeInv PROVE NestingBounded
  OBVIOUS
<1>1. CASE pc = "encode"
  BY <1>1 DEF TypeInv, StackOK, EncStack, NestingBounded
<1>2. CASE pc = "decode"
  <2>1. PICK C : OnTheWay(C)
    BY DEF Way
  <2>2. Charted(C)
    BY <2>1 DEF OnTheWay
  <2>3. PICK c \in C : Aligned(c)
    BY <1>2, <2>1 DEF OnTheWay, Reading
  <2>4. Len(c.frames) <= MaxCascadeDepth + 1 /\ Len(stack) = Len(c.frames)
    BY <2>2, <2>3 DEF Charted, ConfigOK, Aligned, Tracks
  <2> QED BY <2>4 DEF NestingBounded
<1>3. CASE pc # "encode" /\ pc # "decode"
  <2>1. stack = <<>> /\ Len(<<>>) = 0
    BY <1>3 DEF TypeInv, StackOK
  <2> QED BY <2>1, CascadeAssumption DEF NestingBounded
<1> QED BY <1>1, <1>2, <1>3

LEMMA WayStays ==
  Way /\ TypeInv /\ ViewOK' /\ ReadAsWritten /\ OneFormPerID /\ [Next]_vars => Way'
BY WayInductive

-----------------------------------------------------------------------------
(***************************************************************************)
(* The round trip, for every catalog, dictionary, depth cap, dictionary    *)
(* threshold and block in which the two findings about column.go do not    *)
(* occur: reading the column back never fails and gives the lines.         *)
(***************************************************************************)
THEOREM BlockComesBack == Spec /\ []ReadAsWritten /\ []OneFormPerID => []RowsReconstructed
<1> QED
  BY WayInitially, WayStays, WayReconstructs, ViewConfig, TypeInitially, TypeInductive, PTL DEF Spec

(***************************************************************************)
(* Under the same conditions the decoder stands, between any two rows, in  *)
(* each of the shared streams where the encoder stood.                     *)
(***************************************************************************)
THEOREM StreamsStayInStep == Spec /\ []ReadAsWritten /\ []OneFormPerID => []StreamsInStep
<1> QED BY WayInitially, WayStays, WayInStep, ViewConfig, TypeInitially, TypeInductive, PTL DEF Spec

(***************************************************************************)
(* Under the same conditions neither encodeNode nor render nests deeper    *)
(* than the depth cap, whatever the chain of wrapped errors.               *)
(***************************************************************************)
THEOREM NestingIsBounded == Spec /\ []ReadAsWritten /\ []OneFormPerID => []NestingBounded
<1> QED BY WayInitially, WayStays, WayBounds, ViewConfig, TypeInitially, TypeInductive, PTL DEF Spec

\* The two conditions, met by the lines and the templates alone: no line spells
\* a placeholder, and no template of the dictionary has the ID of a line template.
PlainLines == \A b \in Blocks : \A l \in ToSet(b) : Plain(l)

IDsApart == IDsOf(TRUE) \cap IDsOf(FALSE) = {}

\* What stands in a plain line is plain.
LEMMA PlainPlaced ==
  ASSUME NEW l \in Seq(Char), Plain(l), NEW lo \in 0..Len(l), NEW hi \in lo..Len(l),
         NEW n, NEW bt, Placed(n, l, lo, hi, bt)
  PROVE  Reread(Specialised(n)) = Specialised(n)
<1> DEFINE T == Specialised(n)
<1> HIDE DEF T
<1>1. T \in Text /\ bt \in [0..Len(T) -> lo..hi] /\ Spans(bt, T, l, 0)
  BY DEF Placed, T
<1>2. Len(T) \in Nat /\ Len(l) \in Nat /\ Lt # Placeholder /\ Star # Placeholder /\ Gt # Placeholder
  BY <1>1, ColumnAssumption, CharAssumption DEF Text
<1>3. ASSUME NEW i \in 1..(Len(T) - 2), T[i] = Lt, T[i+1] = Star, T[i+2] = Gt PROVE FALSE
  <2>1. /\ i \in (0+1)..Len(T) /\ i + 1 \in (0+1)..Len(T) /\ i + 2 \in (0+1)..Len(T)
        /\ i - 1 \in 0..Len(T) /\ (i + 1) - 1 = i /\ (i + 2) - 1 = i + 1
        /\ i \in 0..Len(T) /\ i + 2 \in 0..Len(T)
    BY <1>2
  <2>2. /\ bt[i] = bt[i-1] + 1 /\ l[bt[i]] = Lt
        /\ bt[i+1] = bt[i] + 1 /\ l[bt[i+1]] = Star
        /\ bt[i+2] = bt[i+1] + 1 /\ l[bt[i+2]] = Gt
    BY <1>1, <1>2, <1>3, <2>1 DEF Spans
  <2>3. bt[i-1] \in lo..hi /\ bt[i+2] \in lo..hi
    BY <1>1, <2>1
  <2>4. PICK a : a = bt[i-1]
    OBVIOUS
  <2>5. a \in 0..Len(l) /\ bt[i] = a + 1 /\ bt[i+1] = (a + 1) + 1 /\ bt[i+2] = ((a + 1) + 1) + 1
    BY <2>2, <2>3, <2>4
  <2>6. ((a + 1) + 1) + 1 \in 0..Len(l)
    BY <2>3, <2>5
  <2>7. /\ a + 1 \in 1..(Len(l) - 2)
        /\ ((a + 1) + 1) + 1 = (a + 1) + 2
    BY <1>2, <2>5, <2>6
  <2>8. l[a + 1] = Lt /\ l[(a + 1) + 1] = Star /\ l[(a + 1) + 2] = Gt
    BY <2>2, <2>5, <2>7
  <2> QED BY <2>7, <2>8 DEF Plain
<1>4. Plain(T)
  BY <1>3 DEF Plain
<1>5. Reread(T) = T
  BY <1>1, <1>4, RereadPlain
<1> QED BY <1>5 DEF T

LEMMA PlainIsReadAsWritten ==
  ASSUME PlainLines, TypeInv PROVE ReadAsWritten
<1> SUFFICES ASSUME pc # "profile", NEW n \in BlockNodes
             PROVE  Reread(Specialised(n)) = Specialised(n)
  BY DEF ReadAsWritten
<1>1. lines \in Blocks /\ FoldedRight(n)
  BY FoldIsRight DEF TypeInv, PhaseOK
<1>2. BlockOK
  BY <1>1, BlockFacts
<1>3. PICK l, lo, hi, at, e : StandsIn(n, l, lo, hi, at, e)
  BY <1>2, NodeStands
<1>8. Rooted(n, l, lo, hi)
  BY <1>3 DEF Rooted, StandsIn
<1>9. l \in Seq(Char) /\ Plain(l) /\ lo \in 0..Len(l) /\ hi \in lo..Len(l)
  BY <1>1, <1>3 DEF PlainLines, StandsIn
<1>10. PICK bt : Placed(n, l, lo, hi, bt)
  BY <1>1, <1>2, <1>8, <1>9, RootedPlaced
<1> QED BY <1>9, <1>10, PlainPlaced

LEMMA ApartIsOneForm ==
  ASSUME IDsApart, TypeInv PROVE OneFormPerID
<1> SUFFICES ASSUME NEW n \in BlockNodes, NEW m \in BlockNodes, n.id = m.id
             PROVE  n.suffix = m.suffix
  BY DEF OneFormPerID
<1>1. BlockOK
  BY BlockFacts DEF TypeInv, PhaseOK
<1>2. n.suffix \in BOOLEAN /\ n.id \in IDsOf(n.suffix) /\ m.suffix \in BOOLEAN /\ m.id \in IDsOf(m.suffix)
  BY <1>1, NodeFacts
<1>3. CASE n.suffix /\ ~m.suffix
  <2>1. n.suffix = TRUE /\ m.suffix = FALSE
    BY <1>2, <1>3
  <2> QED BY <1>2, <2>1 DEF IDsApart
<1>4. CASE ~n.suffix /\ m.suffix
  <2>1. n.suffix = FALSE /\ m.suffix = TRUE
    BY <1>2, <1>4
  <2> QED BY <1>2, <2>1 DEF IDsApart
<1> QED BY <1>2, <1>3, <1>4

(***************************************************************************)
(* Rows gives back every line of every block (column.go:207), whatever the *)
(* templates, the depth of the cascade and the way buckets are carried, as *)
(* long as no line spells "<*>" and no dictionary template has the ID of a *)
(* line template.  Both conditions are needed: without them column_fold    *)
(* and column_shared are counterexamples.                                  *)
(***************************************************************************)
THEOREM PlainBlocksComeBack ==
  ASSUME PlainLines, IDsApart
  PROVE  Spec => []RowsReconstructed
<1>1. TypeInv => ReadAsWritten /\ OneFormPerID
  BY PlainIsReadAsWritten, ApartIsOneForm
<1>2. Spec => []TypeInv
  BY TypeInitially, TypeInductive, PTL DEF Spec
<1>3. Spec /\ []ReadAsWritten /\ []OneFormPerID => []RowsReconstructed
  BY BlockComesBack
<1> QED BY <1>1, <1>2, <1>3, PTL

\* A line has one tree at most: the set operators of the matchers have no
\* two answers.
LEMMA OneCapture ==
  ASSUME NEW text \in Text, NEW s \in Seq(Char), NEW c \in Captures(text, s),
         NEW d \in Captures(text, s)
  PROVE  c = d
<1> DEFINE L == Len(text)
           N == Len(s)
<1>1. L \in Nat /\ N \in Nat
  BY DEF Text
<1>2. PICK R : /\ Captures(text, s) = R[0][0]
               /\ \A j \in 0..N : R[L][j] = {x \in {<<>>} : j = N}
               /\ \A i \in 0..(L-1) : R[i] = CaptureRow(text, s, i, R[i+1])
  BY CapturesRest
<1> DEFINE U == {i \in 0..L : \A j \in 0..N : \A x, y \in R[i][j] : x = y}
<1>3. L \in U
  BY <1>1, <1>2
<1>4. ASSUME NEW i \in 0..(L-1), i + 1 \in U PROVE i \in U
  <2> SUFFICES ASSUME NEW j \in 0..N, NEW x \in R[i][j], NEW y \in R[i][j] PROVE x = y
    BY <1>1
  <2>1. \A k \in 0..N : \A v, w \in R[i+1][k] : v = w
    BY <1>4
  <2>2. x \in CaptureRow(text, s, i, R[i+1])[j] /\ y \in CaptureRow(text, s, i, R[i+1])[j]
    BY <1>2
  <2>3. CASE text[i+1] = Placeholder
    <3> DEFINE K == Least({m \in j..Len(s) : R[i+1][m] # {}})
               V(k) == {<<SubSeq(s, j + 1, k)>> \o e : e \in R[i+1][k]}
    <3>1. x \in UNION {V(k) : k \in K} /\ y \in UNION {V(k) : k \in K}
      BY <2>2, <2>3 DEF CaptureRow
    <3>2. \A k, m \in K : k = m /\ k \in 0..N
      BY <1>1 DEF Least
    <3> HIDE DEF K
    <3>3. PICK k \in K : x \in V(k) /\ y \in V(k)
      <4> HIDE DEF V
      <4> QED BY <3>1, <3>2
    <3>4. \A v, w \in R[i+1][k] : v = w
      BY <2>1, <3>2
    <3> QED BY <3>3, <3>4
  <2>4. CASE text[i+1] # Placeholder
    <3>1. /\ x \in UNION {R[i+1][k] : k \in {m \in {j + 1} : m <= N /\ s[m] = text[i+1]}}
          /\ y \in UNION {R[i+1][k] : k \in {m \in {j + 1} : m <= N /\ s[m] = text[i+1]}}
      BY <2>2, <2>4 DEF CaptureRow
    <3>2. x \in R[i+1][j+1] /\ y \in R[i+1][j+1] /\ j + 1 <= N
      BY <3>1
    <3> QED BY <2>1, <3>2, <1>1
  <2> QED BY <2>3, <2>4
<1>5. 0 \in U
  <2> HIDE DEF U
  <2>1. 0..L \subseteq U
    BY <1>1, <1>3, <1>4, Downwards
  <2> QED BY <2>1, <1>1
<1>6. 0 \in 0..N
  BY <1>1
<1> QED BY <1>2, <1>5, <1>6

LEMMA LiteralsCounted == \A t \in Text : LiteralLen(t) \in Nat
<1> SUFFICES ASSUME NEW t \in Text PROVE LiteralLen(t) \in Nat
  OBVIOUS
<1>1. Len(t) \in Nat /\ DOMAIN t = 1..Len(t)
  BY DEF Text
<1>2. IsFiniteSet(1..Len(t))
  BY <1>1, FS_Interval
<1>3. IsFiniteSet({i \in DOMAIN t : t[i] # Placeholder})
  BY <1>1, <1>2, FS_Subset
<1> QED BY <1>3, FS_CardinalityType DEF LiteralLen

LEMMA OneFirst ==
  ASSUME NEW templates, NEW hits, NEW indexed, hits \subseteq Nat,
         \A i \in hits : templates[i].text \in Text,
         NEW i \in First(templates, hits, indexed), NEW j \in First(templates, hits, indexed)
  PROVE  i = j
<1> SUFFICES ASSUME i # j PROVE FALSE
  OBVIOUS
<1>1. i \in hits /\ j \in hits /\ Sooner(templates, i, j, indexed) /\ Sooner(templates, j, i, indexed)
  BY DEF First
<1>2. /\ i \in Nat /\ j \in Nat
      /\ LiteralLen(templates[i].text) \in Nat /\ LiteralLen(templates[j].text) \in Nat
  BY <1>1, LiteralsCounted
<1> QED BY <1>1, <1>2 DEF Sooner

LEMMA TemplatesAt == DOMAIN Primary \subseteq Nat /\ DOMAIN Dict \subseteq Nat
<1>1. \A S : \A s \in Seq(S) : DOMAIN s \subseteq Nat
  OBVIOUS
<1> QED BY <1>1, CascadeAssumption

LEMMA OneLineMatch ==
  ASSUME NEW s \in Seq(Char), NEW x \in LineMatch(s), NEW y \in LineMatch(s)
  PROVE  x = y
<1> DEFINE fuzzy(i) == HasPlaceholder(Primary[i].text)
           exact    == {i \in DOMAIN Primary : ~fuzzy(i) /\ Primary[i].text = s}
           hits     == {i \in DOMAIN Primary :
                        fuzzy(i) /\ Captures(Primary[i].text, s) # {}}
           last     == {i \in exact : \A j \in exact : j <= i}
           idx      == {i \in hits : FirstLiteralToken(Primary[i].text) # <<>>}
           best     == IF exact # {} THEN last ELSE First(Primary, hits, idx)
           of(i)    == {Match(Primary[i], <<>>, FALSE, c) : c \in Captures(Primary[i].text, s)}
<1>1. x \in UNION {of(i) : i \in best} /\ y \in UNION {of(i) : i \in best}
  BY DEF LineMatch
<1>2. \A i, j \in best : i = j
  <2>1. CASE exact # {}
    BY <2>1, TemplatesAt
  <2>2. CASE exact = {}
    <3>1. hits \subseteq Nat /\ \A i \in hits : Primary[i].text \in Text
      BY TemplatesAt, TextsAreText
    <3>2. best = First(Primary, hits, idx)
      BY <2>2
    <3> HIDE DEF hits, idx, best
    <3> QED BY <3>1, <3>2, OneFirst
  <2> QED BY <2>1, <2>2
<1>3. best \subseteq DOMAIN Primary
  BY DEF First
<1> HIDE DEF best
<1>4. PICK i \in best : x \in of(i) /\ y \in of(i)
  <2> HIDE DEF of
  <2> QED BY <1>1, <1>2
<1>5. \A c, d \in Captures(Primary[i].text, s) : c = d
  BY <1>3, TextsAreText, OneCapture
<1> QED BY <1>4, <1>5

LEMMA OneDictMatch ==
  ASSUME NEW s \in Seq(Char), NEW x \in DictMatch(s), NEW y \in DictMatch(s)
  PROVE  x = y
<1> DEFINE hits == {i \in DOMAIN Dict : Cut(Dict[i].text, s) # {}}
           best == First(Dict, hits, {})
           at(i, k) == {Match(Dict[i], SubSeq(s, 1, k), TRUE, c) :
                        c \in Captures(Dict[i].text, From(s, k))}
           of(i) == UNION {at(i, k) : k \in Cut(Dict[i].text, s)}
<1>1. x \in UNION {of(i) : i \in best} /\ y \in UNION {of(i) : i \in best}
  BY DEF DictMatch
<1>2. \A i, j \in best : i = j
  <2>1. hits \subseteq Nat /\ \A i \in hits : Dict[i].text \in Text
    BY TemplatesAt, TextsAreText
  <2> HIDE DEF hits
  <2> QED BY <2>1, OneFirst
<1>3. best \subseteq DOMAIN Dict
  BY DEF First
<1> HIDE DEF best
<1>4. PICK i \in best : x \in of(i) /\ y \in of(i)
  <2> HIDE DEF of
  <2> QED BY <1>1, <1>2
<1>5. \A k, m \in Cut(Dict[i].text, s) : k = m /\ k \in 0..Len(s)
  BY DEF Cut, Least, Boundaries
<1>6. PICK k \in Cut(Dict[i].text, s) : x \in at(i, k) /\ y \in at(i, k)
  <2> HIDE DEF at
  <2> QED BY <1>4, <1>5
<1>7. From(s, k) \in Seq(Char)
  BY <1>5 DEF From
<1>8. \A c, d \in Captures(Dict[i].text, From(s, k)) : c = d
  BY <1>3, <1>7, TextsAreText, OneCapture
<1> QED BY <1>6, <1>8

LEMMA OneRoot ==
  ASSUME NEW s \in Seq(Char), NEW n \in Resolve(s), NEW m \in Resolve(s)
  PROVE  n = m
<1> DEFINE found == IF LineMatch(s) # {} THEN LineMatch(s) ELSE DictMatch(s)
           root(x) == Node(x, <<>>, [i \in DOMAIN x.params |-> Param[MaxCascadeDepth][x.params[i]]])
<1>1. \A x, y \in found : x = y
  BY OneLineMatch, OneDictMatch
<1>2. n \in {root(x) : x \in found} /\ m \in {root(x) : x \in found}
  BY DEF Resolve
<1> HIDE DEF found, root
<1> QED BY <1>1, <1>2

\* Every leaf is written: a value that no bucket holds would be one that
\* pass one saw and pass two left out.  A param of a node is settled when
\* it is folded, when its bucket holds it, or when it is a node of H, of
\* which all params are settled.
Kept(n, i) ==
    \E c \in DOMAIN table :
        table[c].id = n.id /\ n.params[i].value \in ToSet(Bucket(<<c, CompactSlot(n.id, i)>>))

Settled(n, i, H) ==
    IF IsNode(n.params[i]) THEN n.params[i] \in H ELSE IsFolded(n.id, i) \/ Kept(n, i)

AllSettled(n, H) == \A i \in DOMAIN n.params : Settled(n, i, H)

\* The params a call of encodeNode has passed, the one of the next call excepted.
Passed(s, H) ==
    \A j \in 1..Len(s) : \A i \in DOMAIN s[j].node.params :
        i < s[j].next => \/ Settled(s[j].node, i, H)
                         \/ (j < Len(s) /\ s[j+1].node = s[j].node.params[i])

RowsPassed(H) ==
    \A j \in 1..Len(rowIDs) : \A n \in Resolved[lines[j]] :
        n \in H \/ (stack # <<>> /\ stack[1].node = n)

Progress(H) == (\A n \in H : AllSettled(n, H)) /\ Passed(stack, H) /\ RowsPassed(H)

Source(n, i, k) ==
    /\ i \in DOMAIN n.params /\ n.id = table[k[1]].id /\ CompactSlot(n.id, i) = k[2]
    /\ ~IsNode(n.params[i]) /\ ~IsFolded(n.id, i)

Sourced == \A k \in DOMAIN buckets : k[2] # 0 => \E n \in BlockNodes : \E i : Source(n, i, k)

FoldInv ==
    /\ TypeInv /\ Sourced
    /\ pc = "profile" => rowIDs = <<>> /\ DOMAIN buckets = {}
    /\ pc = "encode" => \E H : Progress(H)
    /\ pc \notin {"profile", "encode"} => \A n \in BlockNodes : AllSettled(n, BlockNodes)

-----------------------------------------------------------------------------
\* What stays settled: the table and the buckets only grow.
Widened ==
    /\ UNCHANGED <<lines, folded>> /\ SameTables
    /\ \A k : ToSet(Bucket(k)) \subseteq ToSet(Bucket(k)')

LEMMA SettledKept ==
  ASSUME Widened, NEW n, NEW i, NEW H, NEW G, H \subseteq G, Settled(n, i, H)
  PROVE  Settled(n, i, G)'
<1>1. \A j : IsFolded(n.id, j)' = IsFolded(n.id, j)
  BY DEF IsFolded, Widened
<1>2. CompactSlot(n.id, i)' = CompactSlot(n.id, i)
  BY <1>1 DEF CompactSlot
<1>3. CASE IsNode(n.params[i])
  BY <1>3 DEF Settled
<1>4. CASE ~IsNode(n.params[i]) /\ IsFolded(n.id, i)
  BY <1>1, <1>4 DEF Settled
<1>5. CASE ~IsNode(n.params[i]) /\ ~IsFolded(n.id, i)
  <2> DEFINE k(c) == <<c, CompactSlot(n.id, i)>>
  <2>1. PICK c \in DOMAIN table : /\ table[c].id = n.id
                                  /\ n.params[i].value \in ToSet(Bucket(k(c)))
    BY <1>5 DEF Settled, Kept
  <2>2. ToSet(Bucket(k(c))) \subseteq ToSet(Bucket(k(c))') /\ k(c)' = k(c)
    BY <1>2 DEF Widened
  <2>3. c \in DOMAIN table' /\ table'[c].id = n.id
    BY <2>1 DEF Widened, SameTables
  <2>4. n.params[i].value \in ToSet(Bucket(<<c, CompactSlot(n.id, i)>>)')
    BY <2>1, <2>2
  <2> QED BY <1>5, <2>3, <2>4 DEF Settled, Kept
<1> QED BY <1>3, <1>4, <1>5

LEMMA AllSettledKept ==
  ASSUME Widened, NEW n, NEW H, NEW G, H \subseteq G, AllSettled(n, H)
  PROVE  AllSettled(n, G)'
BY SettledKept DEF AllSettled

LEMMA PutWidens ==
  ASSUME BucketsOK, NEW k, NEW v, buckets' = Put(k, v)
  PROVE  /\ \A j : ToSet(Bucket(j)) \subseteq ToSet(Bucket(j)')
         /\ v \in Seq(Char) => v \in ToSet(Bucket(k)')
<1>1. /\ DOMAIN buckets' = DOMAIN buckets \cup {k}
      /\ buckets'[k] = Append(Bucket(k), v)
      /\ \A j : j # k => Bucket(j)' = Bucket(j)
  BY PutFacts
<1>2. Bucket(k)' = Append(Bucket(k), v)
  BY <1>1 DEF Bucket
<1>3. Bucket(k) \in Seq(Seq(Char))
  BY DEF Bucket, BucketsOK, BucketOK
<1>4. \A S : \A s \in Seq(S) : \A w :
         ToSet(s) \subseteq ToSet(Append(s, w)) /\ w \in ToSet(Append(s, w))
  <2> SUFFICES ASSUME NEW S, NEW s \in Seq(S), NEW w
               PROVE  ToSet(s) \subseteq ToSet(Append(s, w)) /\ w \in ToSet(Append(s, w))
    OBVIOUS
  <2>1. /\ DOMAIN s = 1..Len(s) /\ Len(s) \in Nat
        /\ DOMAIN Append(s, w) = 1..(Len(s) + 1)
        /\ \A i \in 1..Len(s) : Append(s, w)[i] = s[i]
        /\ Append(s, w)[Len(s) + 1] = w
    OBVIOUS
  <2>2. \A i \in 1..Len(s) : i \in 1..(Len(s) + 1)
    BY <2>1
  <2>3. Len(s) + 1 \in 1..(Len(s) + 1)
    BY <2>1
  <2> QED BY <2>1, <2>2, <2>3 DEF ToSet
<1> QED BY <1>1, <1>2, <1>3, <1>4

LEMMA EnterWidens ==
  ASSUME TypeInv, pc = "encode", NEW n \in BlockNodes, NEW callers, Enter(n, callers),
         UNCHANGED <<lines, folded>>
  PROVE  /\ Widened /\ (Sourced => Sourced')
         /\ stack' = Append(callers, [code |-> CodeFor(n), node |-> n, next |-> 1])
<1>1. BlockOK /\ TableOK /\ EntriesOK /\ BucketsOK
  BY TypedEncoding
<1>2. SameTables
  BY <1>1, CodedEntries DEF Enter
<1> DEFINE k0 == <<CodeFor(n), 0>>
<1>3. buckets' = buckets \/ buckets' = Put(k0, n.prefix)
  BY DEF Enter
<1>4. k0[2] = 0
  OBVIOUS
<1> HIDE DEF k0
<1>5. \A k : ToSet(Bucket(k)) \subseteq ToSet(Bucket(k)')
  BY <1>1, <1>3, PutWidens DEF Bucket
<1>6. ASSUME Sourced PROVE Sourced'
  <2> SUFFICES ASSUME NEW k \in DOMAIN buckets', k[2] # 0
               PROVE  \E m \in BlockNodes' : \E i : Source(m, i, k)'
    BY DEF Sourced
  <2>1. k \in DOMAIN buckets
    BY <1>3, <1>4 DEF Put
  <2>2. PICK m \in BlockNodes : \E i : Source(m, i, k)
    BY <1>6, <2>1 DEF Sourced
  <2>3. k[1] \in DOMAIN table
    BY <1>1, <2>1 DEF BucketsOK, BucketOK
  <2>4. table'[k[1]].id = table[k[1]].id
    BY <1>2, <2>3 DEF SameTables
  <2>5. \A id, i : IsFolded(id, i)' = IsFolded(id, i) /\ CompactSlot(id, i)' = CompactSlot(id, i)
    BY DEF IsFolded, CompactSlot
  <2>6. BlockNodes' = BlockNodes
    BY DEF BlockNodes
  <2> QED BY <2>2, <2>4, <2>5, <2>6 DEF Source
<1> QED BY <1>2, <1>5, <1>6 DEF Widened, Enter

\* Nothing but what the codes and the buckets say.
LEMMA SourcedKept ==
  ASSUME Sourced, UNCHANGED <<lines, folded, table, buckets>>
  PROVE  Sourced' /\ Widened
<1>1. \A id, i : IsFolded(id, i)' = IsFolded(id, i) /\ CompactSlot(id, i)' = CompactSlot(id, i)
  BY DEF IsFolded, CompactSlot
<1>2. BlockNodes' = BlockNodes
  BY DEF BlockNodes
<1> QED BY <1>1, <1>2 DEF Sourced, Source, Widened, SameTables, Bucket

LEMMA ParamsAt ==
  ASSUME TypeInv, pc = "encode", NEW j \in 1..Len(stack), NEW i \in DOMAIN stack[j].node.params
  PROVE  i \in Nat \ {0}
<1>1. EncStack(stack) /\ BlockOK
  BY TypedEncoding
<1>2. stack[j] \in NodeFrame
  BY <1>1 DEF EncStack
<1>3. stack[j].node \in BlockNodes
  BY <1>2 DEF NodeFrame
<1> QED BY <1>1, <1>3, ParamsLen

LEMMA FoldMatched ==
  ASSUME FoldInv, EncodeMatched, TypeInv'
  PROVE  FoldInv'
<1>1. /\ pc = "encode" /\ pc' = "encode" /\ stack = <<>> /\ Len(rowIDs) < Len(lines) /\ TypeInv
      /\ UNCHANGED <<lines, folded>> /\ Sourced
  BY DEF EncodeMatched, EncodingRow, FoldInv
<1> DEFINE now == Len(rowIDs) + 1
<1>2. PICK n \in Resolved[lines[now]] : rowIDs' = Append(rowIDs, CodeFor(n)) /\ Enter(n, <<>>)
  BY DEF EncodeMatched
<1>3. BlockOK /\ lines[now] \in ToSet(lines) /\ n \in BlockNodes
  BY <1>1, RowResolved, TypedEncoding
<1> DEFINE nobody == <<>>
           f == [code |-> CodeFor(n), node |-> n, next |-> 1]
<1>4. Widened /\ Sourced' /\ stack' = Append(nobody, f)
  <2>1. Enter(n, nobody)
    BY <1>2
  <2> HIDE DEF nobody, f
  <2> QED BY <1>1, <1>3, <2>1, EnterWidens DEF f
<1>5. PICK H : Progress(H)
  BY <1>1 DEF FoldInv
<1>6. Len(stack') = 1 /\ stack'[1] = f /\ stack' # <<>> /\ f.node = n /\ f.next = 1
  <2> HIDE DEF f
  <2>1. stack' = <<f>>
    BY <1>4
  <2>2. Len(stack') = 1 /\ stack'[1] = f /\ stack' # <<>>
    BY <2>1
  <2> QED BY <2>2 DEF f
<1> HIDE DEF f
<1>7. \A m \in H : AllSettled(m, H)'
  BY <1>4, <1>5, AllSettledKept DEF Progress
<1>8. Passed(stack, H)'
  <2> SUFFICES ASSUME NEW j \in 1..Len(stack'), NEW i \in DOMAIN stack'[j].node.params,
                      i < stack'[j].next
               PROVE  FALSE
    BY DEF Passed
  <2>1. i \in Nat \ {0}
    BY <1>1, <1>6, <1>3, ParamsLen
  <2> QED BY <1>6, <2>1
<1>9. RowsPassed(H)'
  <2> SUFFICES ASSUME NEW j \in 1..Len(rowIDs'), NEW m \in Resolved[lines'[j]]
               PROVE  m \in H \/ (stack' # <<>> /\ stack'[1].node = m)
    BY DEF RowsPassed
  <2>1. Len(rowIDs) \in Nat /\ Len(rowIDs') = now
    BY <1>1, <1>2 DEF TypeInv, IInv, StreamsOK
  <2>2. CASE j \in 1..Len(rowIDs)
    BY <1>1, <1>5, <2>2 DEF Progress, RowsPassed
  <2>3. CASE j = now
    <3>1. lines[now] \in Seq(Char) /\ Resolved[lines[now]] = Resolve(lines[now])
      BY <1>3, LinesOfBlock DEF BlockOK
    <3>2. m = n
      BY <1>1, <1>2, <2>3, <3>1, OneRoot
    <3> QED BY <1>6, <3>2
  <2> QED BY <2>1, <2>2, <2>3
<1> QED BY <1>1, <1>4, <1>7, <1>8, <1>9 DEF FoldInv, Progress

LEMMA FoldUnmatched ==
  ASSUME FoldInv, EncodeUnmatched, TypeInv'
  PROVE  FoldInv'
<1> DEFINE now == Len(rowIDs) + 1
<1>1. /\ pc = "encode" /\ pc' = "encode" /\ TypeInv /\ Sourced
      /\ UNCHANGED <<lines, folded, table, buckets, stack>>
      /\ Resolved[lines[now]] = {} /\ rowIDs' = Append(rowIDs, 0)
  BY DEF EncodeUnmatched, EncodingRow, FoldInv
<1>2. Sourced' /\ Widened
  BY <1>1, SourcedKept
<1>3. PICK H : Progress(H)
  BY <1>1 DEF FoldInv
<1>4. \A m \in H : AllSettled(m, H)'
  BY <1>2, <1>3, AllSettledKept DEF Progress
<1>5. Passed(stack, H)'
  BY <1>1, <1>2, <1>3, SettledKept DEF Progress, Passed
<1>6. RowsPassed(H)'
  <2> SUFFICES ASSUME NEW j \in 1..Len(rowIDs'), NEW m \in Resolved[lines'[j]]
               PROVE  m \in H \/ (stack' # <<>> /\ stack'[1].node = m)
    BY DEF RowsPassed
  <2>1. Len(rowIDs) \in Nat /\ Len(rowIDs') = now
    BY <1>1 DEF TypeInv, IInv, StreamsOK
  <2>2. j \in 1..Len(rowIDs)
    BY <1>1, <2>1
  <2> QED BY <1>1, <1>3, <2>2 DEF Progress, RowsPassed
<1> QED BY <1>1, <1>2, <1>4, <1>5, <1>6 DEF FoldInv, Progress

LEMMA FoldEncodeNode ==
  ASSUME FoldInv, EncodeNode, TypeInv'
  PROVE  FoldInv'
<1>1. /\ pc = "encode" /\ pc' = "encode" /\ EncodingParam /\ IsNode(Slot) /\ TypeInv /\ Sourced
      /\ UNCHANGED <<lines, folded, rowIDs>> /\ Enter(Slot, Advanced) /\ stack # <<>>
  BY DEF EncodeNode, EncodingParam, FoldInv
<1>2. BlockOK /\ EncStack(stack) /\ Slot \in BlockNodes
  BY <1>1, TypedEncoding, SlotFacts
<1> DEFINE f == [code |-> CodeFor(Slot), node |-> Slot, next |-> 1]
           D == Len(stack)
<1>3. Widened /\ Sourced' /\ stack' = Append(Advanced, f)
  <2> DEFINE n == Slot
             callers == Advanced
  <2>1. n \in BlockNodes /\ Enter(n, callers)
    BY <1>1, <1>2
  <2>2. f = [code |-> CodeFor(n), node |-> n, next |-> 1]
    OBVIOUS
  <2> HIDE DEF n, callers, f
  <2>3. Widened /\ Sourced' /\ stack' = Append(callers, f)
    BY <1>1, <2>1, <2>2, EnterWidens
  <2> QED BY <2>3 DEF callers
<1>4. PICK H : Progress(H)
  BY <1>1 DEF FoldInv
<1>5. f.node = Slot /\ f.next = 1
  OBVIOUS
<1> HIDE DEF f
<1>6. /\ Len(stack') = D + 1 /\ D \in Nat \ {0} /\ stack' # <<>>
      /\ \A j \in 1..(D - 1) : stack'[j] = stack[j]
      /\ stack'[D].node = Top.node /\ stack'[D].next = Top.next + 1 /\ stack'[D + 1] = f
      /\ stack[D] = Top /\ Top.next \in Nat
  <2>1. /\ EncStack(Advanced) /\ Len(Advanced) = D
        /\ \A j \in 1..(D - 1) : Advanced[j] = stack[j]
        /\ Advanced[D] = [code |-> Top.code, node |-> Top.node, next |-> Top.next + 1]
    BY <1>1, <1>2, AdvancedFacts
  <2>2. D \in Nat \ {0} /\ Top.next \in Nat
    BY <1>1, <1>2, TopFacts
  <2>3. Advanced \in Seq(NodeFrame)
    BY <2>1 DEF EncStack
  <2>4. /\ Len(stack') = D + 1 /\ stack'[D + 1] = f
        /\ \A j \in 1..D : stack'[j] = Advanced[j]
    BY <1>3, <2>1, <2>3
  <2>5. D \in 1..D /\ \A j \in 1..(D - 1) : j \in 1..D
    BY <2>2
  <2>6. stack'[D].node = Top.node /\ stack'[D].next = Top.next + 1
    BY <2>1, <2>4, <2>5
  <2>7. stack' # <<>>
    BY <2>2, <2>4
  <2> QED BY <2>1, <2>2, <2>4, <2>5, <2>6, <2>7 DEF Top
<1>7. \A m \in H : AllSettled(m, H)'
  BY <1>3, <1>4, AllSettledKept DEF Progress
<1>8. Passed(stack, H)'
  <2> SUFFICES ASSUME NEW j \in 1..Len(stack'), NEW i \in DOMAIN stack'[j].node.params,
                      i < stack'[j].next
               PROVE  \/ Settled(stack[j].node, i, H)'
                      \/ j < Len(stack') /\ stack'[j+1].node = stack'[j].node.params[i]
    BY DEF Passed
  <2>1. CASE j \in 1..(D - 1)
    <3>1. stack'[j] = stack[j] /\ j \in 1..Len(stack) /\ j + 1 \in 1..D /\ j < Len(stack')
      BY <1>6, <2>1
    <3>2. stack'[j+1].node = stack[j+1].node
      <4>1. CASE j + 1 \in 1..(D - 1)
        BY <4>1, <1>6
      <4>2. CASE j + 1 = D
        BY <4>2, <1>6
      <4> QED BY <3>1, <1>6, <4>1, <4>2
    <3>3. \/ Settled(stack[j].node, i, H)
          \/ stack[j+1].node = stack[j].node.params[i]
      BY <3>1, <1>4 DEF Progress, Passed
    <3> QED BY <1>3, <3>1, <3>2, <3>3, SettledKept
  <2>2. CASE j = D
    <3>1. D \in 1..Len(stack) /\ i \in DOMAIN stack[D].node.params /\ i \in Nat
      <4>1. D \in 1..Len(stack) /\ i \in DOMAIN stack[D].node.params
        BY <1>6, <2>2
      <4> QED BY <1>1, <4>1, ParamsAt
    <3>2. CASE i = Top.next
      BY <1>5, <1>6, <2>2, <3>2 DEF Slot
    <3>3. CASE i # Top.next
      <4>1. i < Top.next
        BY <1>6, <2>2, <3>1, <3>3
      <4>2. Settled(Top.node, i, H)
        BY <1>4, <1>6, <3>1, <4>1 DEF Progress, Passed
      <4> QED BY <1>3, <1>6, <2>2, <4>2, SettledKept
    <3> QED BY <3>2, <3>3
  <2>3. CASE j = D + 1
    <3>1. i \in Nat \ {0}
      BY <1>2, <1>5, <1>6, <2>3, ParamsLen
    <3> QED BY <1>5, <1>6, <2>3, <3>1
  <2> QED BY <1>6, <2>1, <2>2, <2>3
<1>9. RowsPassed(H)'
  <2>1. stack'[1].node = stack[1].node
    <3>1. CASE D = 1
      BY <3>1, <1>6
    <3>2. CASE D # 1
      <4>0. D \in Nat \ {0}
        BY <1>6
      <4> HIDE DEF D
      <4>1. D \in Nat /\ D > 1
        BY <3>2, <4>0
      <4>2. 1 \in 1..(D - 1)
        BY <4>1
      <4> QED BY <4>2, <1>6
    <3> QED BY <3>1, <3>2
  <2> QED BY <1>1, <1>4, <1>6, <2>1 DEF Progress, RowsPassed
<1> QED BY <1>1, <1>3, <1>7, <1>8, <1>9 DEF FoldInv, Progress

\* The innermost call has settled its slot and goes on to the next one.
LEMMA SlotPassed ==
  ASSUME TypeInv, EncodingParam, Widened, stack' = Advanced, UNCHANGED rowIDs,
         NEW H, Progress(H), NEW n, NEW k, n = Top.node, k = Top.next, Settled(n, k, H)'
  PROVE  Progress(H)'
<1> DEFINE D == Len(stack)
<1>1. pc = "encode" /\ stack # <<>> /\ UNCHANGED <<lines, folded>>
  BY DEF EncodingParam, Widened
<1>2. EncStack(stack)
  BY <1>1, TypedEncoding
<1>3. /\ Len(stack') = D /\ D \in Nat \ {0}
      /\ \A j \in 1..(D - 1) : stack'[j] = stack[j]
      /\ stack'[D].node = Top.node /\ stack'[D].next = Top.next + 1
      /\ stack[D] = Top /\ Top.next \in Nat
  <2>1. /\ Len(Advanced) = D
        /\ \A j \in 1..(D - 1) : Advanced[j] = stack[j]
        /\ Advanced[D] = [code |-> Top.code, node |-> Top.node, next |-> Top.next + 1]
    BY <1>1, <1>2, AdvancedFacts
  <2>2. D \in Nat \ {0} /\ Top.next \in Nat
    BY <1>1, <1>2, TopFacts
  <2> QED BY <2>1, <2>2 DEF Top
<1>4. \A m \in H : AllSettled(m, H)'
  BY AllSettledKept DEF Progress
<1>5. \A j \in 1..D : stack'[j].node = stack[j].node
  <2> SUFFICES ASSUME NEW j \in 1..D PROVE stack'[j].node = stack[j].node
    OBVIOUS
  <2>1. j \in 1..(D - 1) \/ j = D
    BY <1>3
  <2> QED BY <1>3, <2>1
<1>6. Passed(stack, H)'
  <2> SUFFICES ASSUME NEW j \in 1..Len(stack'), NEW i \in DOMAIN stack'[j].node.params,
                      i < stack'[j].next
               PROVE  \/ Settled(stack[j].node, i, H)'
                      \/ j < Len(stack') /\ stack'[j+1].node = stack'[j].node.params[i]
    BY DEF Passed
  <2>0. j \in 1..Len(stack) /\ i \in DOMAIN stack[j].node.params /\ stack'[j].node = stack[j].node
    BY <1>3, <1>5
  <2>1. CASE j \in 1..(D - 1)
    <3>1. stack'[j] = stack[j] /\ j < Len(stack') /\ j + 1 \in 1..D /\ j < Len(stack)
      BY <1>3, <2>1
    <3>2. \/ Settled(stack[j].node, i, H)
          \/ stack[j+1].node = stack[j].node.params[i]
      BY <2>0, <3>1 DEF Progress, Passed
    <3> QED BY <1>5, <2>0, <3>1, <3>2, SettledKept
  <2>2. CASE j = D
    <3>1. i \in Nat
      BY <1>1, <2>0, ParamsAt
    <3>2. CASE i = Top.next
      BY <1>3, <2>2, <3>2
    <3>3. CASE i # Top.next
      <4>1. i < Top.next
        BY <1>3, <2>2, <3>1, <3>3
      <4>2. Settled(Top.node, i, H)
        BY <1>3, <2>0, <2>2, <4>1 DEF Progress, Passed
      <4> QED BY <1>3, <2>2, <4>2, SettledKept
    <3> QED BY <3>2, <3>3
  <2>3. j \in 1..(D - 1) \/ j = D
    BY <1>3
  <2> QED BY <2>1, <2>2, <2>3
<1>7. RowsPassed(H)'
  <2>1. 1 \in 1..D /\ stack' # <<>>
    BY <1>3
  <2>2. stack'[1].node = stack[1].node
    BY <1>5, <2>1
  <2> QED BY <1>1, <2>1, <2>2 DEF Progress, RowsPassed
<1> QED BY <1>4, <1>6, <1>7 DEF Progress

LEMMA FoldEncodeFolded ==
  ASSUME FoldInv, EncodeFolded, TypeInv'
  PROVE  FoldInv'
<1>1. /\ pc = "encode" /\ pc' = "encode" /\ EncodingParam /\ TypeInv /\ Sourced
      /\ UNCHANGED <<lines, folded, table, buckets, rowIDs>> /\ stack' = Advanced
      /\ ~IsNode(Slot) /\ IsFolded(Top.node.id, Top.next)
  BY DEF EncodeFolded, EncodingParam, FoldInv, column
<1>2. Sourced' /\ Widened
  BY <1>1, SourcedKept
<1>3. PICK H : Progress(H)
  BY <1>1 DEF FoldInv
<1>4. PICK n, i : n = Top.node /\ i = Top.next /\ Settled(n, i, H)
  BY <1>1 DEF Settled, Slot
<1>5. Settled(n, i, H)'
  BY <1>2, <1>4, SettledKept
<1>6. Progress(H)'
  BY <1>1, <1>2, <1>3, <1>4, <1>5, SlotPassed
<1> QED BY <1>1, <1>2, <1>6 DEF FoldInv

LEMMA FoldEncodeLeaf ==
  ASSUME FoldInv, EncodeLeaf, TypeInv'
  PROVE  FoldInv'
<1>1. /\ pc = "encode" /\ pc' = "encode" /\ EncodingParam /\ TypeInv /\ Sourced
      /\ UNCHANGED <<lines, folded, table, rowIDs>> /\ stack' = Advanced /\ stack # <<>>
      /\ ~IsNode(Slot) /\ ~IsFolded(Top.node.id, Top.next)
      /\ buckets' = Put(<<Top.code, CompactSlot(Top.node.id, Top.next)>>, Slot.value)
  BY DEF EncodeLeaf, EncodingParam, FoldInv
<1>2. PICK n, i, c, v : n = Top.node /\ i = Top.next /\ c = Top.code /\ v = Slot.value
  OBVIOUS
<1>3. BlockOK /\ EncStack(stack) /\ TableOK /\ EntriesOK /\ BucketsOK
  BY <1>1, TypedEncoding
<1>4. /\ n \in BlockNodes /\ i \in DOMAIN n.params /\ v \in Seq(Char) /\ v = n.params[i].value
      /\ c \in DOMAIN table /\ table[c].id = n.id /\ ~IsNode(n.params[i]) /\ ~IsFolded(n.id, i)
  BY <1>1, <1>2, <1>3, TopFacts, SlotFacts DEF Slot
<1>5. PICK k : k = <<c, CompactSlot(n.id, i)>> /\ buckets' = Put(k, v)
  BY <1>1, <1>2
<1>6. SameTables
  BY <1>1, <1>3, TableKept
<1>7. /\ \A j : ToSet(Bucket(j)) \subseteq ToSet(Bucket(j)')
      /\ v \in ToSet(Bucket(k)')
  BY <1>3, <1>4, <1>5, PutWidens
<1>8. Widened
  BY <1>1, <1>6, <1>7 DEF Widened
<1>9. \A id, j : IsFolded(id, j)' = IsFolded(id, j) /\ CompactSlot(id, j)' = CompactSlot(id, j)
  BY <1>1 DEF IsFolded, CompactSlot
<1>10. PICK H : Progress(H)
  BY <1>1 DEF FoldInv
<1>11. Settled(n, i, H)'
  <2>1. k = <<c, CompactSlot(n.id, i)'>>
    BY <1>5, <1>9
  <2>2. Kept(n, i)'
    BY <1>1, <1>4, <1>7, <2>1 DEF Kept, Bucket
  <2> QED BY <1>4, <2>2 DEF Settled
<1>12. Progress(H)'
  BY <1>1, <1>2, <1>8, <1>10, <1>11, SlotPassed
<1>13. Sourced'
  <2> SUFFICES ASSUME NEW j \in DOMAIN buckets', j[2] # 0
               PROVE  \E m \in BlockNodes' : \E q : Source(m, q, j)'
    BY DEF Sourced
  <2>1. BlockNodes' = BlockNodes
    BY <1>1 DEF BlockNodes
  <2>2. CASE j = k
    <3>1. Source(n, i, k)'
      BY <1>1, <1>4, <1>5, <1>9 DEF Source
    <3> QED BY <1>4, <2>1, <2>2, <3>1
  <2>3. CASE j # k
    <3>1. j \in DOMAIN buckets
      BY <1>5, <2>3 DEF Put
    <3>2. PICK m \in BlockNodes : \E q : Source(m, q, j)
      BY <1>1, <3>1 DEF Sourced
    <3> QED BY <1>1, <1>9, <2>1, <3>2 DEF Source
  <2> QED BY <2>2, <2>3
<1> QED BY <1>1, <1>12, <1>13 DEF FoldInv

LEMMA FoldReturn ==
  ASSUME FoldInv, EncodeReturn, TypeInv'
  PROVE  FoldInv'
<1> DEFINE D == Len(stack)
<1>1. /\ pc = "encode" /\ pc' = "encode" /\ TypeInv /\ Sourced
      /\ UNCHANGED <<lines, folded, table, buckets, rowIDs>> /\ stack' = Front(stack)
      /\ stack # <<>> /\ Top.next > Len(Top.node.params)
  BY DEF EncodeReturn, FoldInv, column
<1>2. Sourced' /\ Widened
  BY <1>1, SourcedKept
<1>3. PICK H : Progress(H)
  BY <1>1 DEF FoldInv
<1>4. BlockOK /\ EncStack(stack)
  BY <1>1, TypedEncoding
<1>5. PICK n : n = Top.node
  OBVIOUS
<1>6. /\ Len(stack') = D - 1 /\ D \in Nat \ {0} /\ stack[D] = Top
      /\ \A j \in 1..(D - 1) : stack'[j] = stack[j]
      /\ n \in BlockNodes /\ Top.next \in Nat
  BY <1>1, <1>4, <1>5, EncFront, TopFacts DEF Top
<1>7. AllSettled(n, H)
  <2> SUFFICES ASSUME NEW i \in DOMAIN n.params PROVE Settled(n, i, H)
    BY DEF AllSettled
  <2>1. i < Top.next
    BY <1>1, <1>4, <1>5, <1>6, ParamsLen
  <2>2. D \in 1..D
    BY <1>6
  <2> QED BY <1>3, <1>5, <1>6, <2>1, <2>2 DEF Progress, Passed
<1> DEFINE G == H \cup {n}
<1>8. \A m \in G : AllSettled(m, G)'
  <2>1. H \subseteq G
    OBVIOUS
  <2>2. \A m \in G : AllSettled(m, H)
    BY <1>3, <1>7 DEF Progress
  <2> HIDE DEF G
  <2> QED BY <1>2, <2>1, <2>2, AllSettledKept
<1>9. Passed(stack, G)'
  <2> SUFFICES ASSUME NEW j \in 1..Len(stack'), NEW i \in DOMAIN stack'[j].node.params,
                      i < stack'[j].next
               PROVE  \/ Settled(stack[j].node, i, G)'
                      \/ j < Len(stack') /\ stack'[j+1].node = stack'[j].node.params[i]
    BY DEF Passed
  <2>1. stack'[j] = stack[j] /\ j \in 1..D /\ j < D /\ j + 1 \in 1..D
    BY <1>6
  <2>2. CASE Settled(stack[j].node, i, H)
    <3>1. H \subseteq G
      OBVIOUS
    <3> HIDE DEF G
    <3> QED BY <1>2, <2>1, <2>2, <3>1, SettledKept
  <2>3. CASE ~Settled(stack[j].node, i, H)
    <3>1. stack[j+1].node = stack[j].node.params[i]
      BY <1>3, <2>1, <2>3 DEF Progress, Passed
    <3>2. CASE j + 1 = D
      <4>1. n = stack[j].node.params[i]
        BY <1>5, <1>6, <3>1, <3>2
      <4>2. IsNode(n) /\ n \in G
        BY <1>4, <1>6, NodeFacts
      <4> QED BY <2>1, <4>1, <4>2 DEF Settled
    <3>3. CASE j + 1 # D
      <4>1. j + 1 \in 1..(D - 1)
        BY <1>6, <2>1, <3>3
      <4> QED BY <1>6, <2>1, <3>1, <4>1
    <3> QED BY <3>2, <3>3
  <2> QED BY <2>2, <2>3
<1>10. RowsPassed(G)'
  <2> SUFFICES ASSUME NEW j \in 1..Len(rowIDs'), NEW m \in Resolved[lines'[j]]
               PROVE  m \in G \/ (stack' # <<>> /\ stack'[1].node = m)
    BY DEF RowsPassed
  <2>1. m \in H \/ stack[1].node = m
    BY <1>1, <1>3 DEF Progress, RowsPassed
  <2>2. CASE D = 1
    BY <1>5, <1>6, <2>1, <2>2
  <2>3. CASE D # 1
    <3>1. D \in Nat /\ D # 0 /\ D # 1
      BY <1>6, <2>3
    <3> HIDE DEF D
    <3>2. 1 \in 1..(D - 1) /\ D - 1 # 0
      BY <3>1
    <3> QED BY <1>6, <2>1, <3>2
  <2> QED BY <2>2, <2>3
<1>11. \E K : Progress(K)'
  <2> HIDE DEF G
  <2> QED BY <1>8, <1>9, <1>10 DEF Progress
<1> QED BY <1>1, <1>2, <1>11 DEF FoldInv

LEMMA BlockPassed ==
  ASSUME BlockOK, stack = <<>>, Len(rowIDs) = Len(lines), NEW H, Progress(H)
  PROVE  BlockNodes \subseteq H
<1> DEFINE U == {d \in 0..MaxCascadeDepth : \A m : AtLevel(m, d) => m \in H}
<1>0. MaxCascadeDepth \in Nat
  BY CascadeAssumption
<1>1. 0 \in U
  <2> SUFFICES ASSUME NEW m, AtLevel(m, 0) PROVE m \in H
    BY <1>0
  <2>1. PICK l \in ToSet(lines) : \E root \in Resolve(l) : m \in Levels(root)[0]
    BY DEF AtLevel
  <2>2. m \in Resolve(l)
    BY <2>1, LevelsFacts DEF AreLevels
  <2>3. PICK j \in 1..Len(lines) : l = lines[j]
    BY DEF ToSet, BlockOK
  <2>4. m \in Resolved[lines[j]]
    BY <2>2, <2>3 DEF BlockOK
  <2> QED BY <2>4 DEF Progress, RowsPassed
<1>2. ASSUME NEW d \in 0..(MaxCascadeDepth - 1), d \in U PROVE d + 1 \in U
  <2> SUFFICES ASSUME NEW m, AtLevel(m, d + 1) PROVE m \in H
    BY <1>0
  <2>1. PICK l \in ToSet(lines) : \E root \in Resolve(l) : m \in Levels(root)[d + 1]
    BY DEF AtLevel
  <2>2. PICK root \in Resolve(l) : m \in Levels(root)[d + 1]
    BY <2>1
  <2>3. d + 1 \in 1..MaxCascadeDepth /\ (d + 1) - 1 = d
    BY <1>0
  <2>4. m \in NextLevel(Levels(root)[d])
    BY <2>2, <2>3, LevelsFacts DEF AreLevels
  <2>5. PICK p \in Levels(root)[d] : m \in ToSet(p.params) /\ IsNode(m)
    BY <2>4 DEF NextLevel
  <2>6. PICK i \in DOMAIN p.params : m = p.params[i]
    BY <2>5 DEF ToSet
  <2>7. AtLevel(p, d)
    BY <2>5 DEF AtLevel
  <2>8. AllSettled(p, H)
    BY <1>2, <2>7 DEF Progress
  <2> QED BY <2>5, <2>6, <2>8 DEF AllSettled, Settled
<1>3. 0..MaxCascadeDepth \subseteq U
  <2> HIDE DEF U
  <2> QED BY <1>0, <1>1, <1>2, Upwards
<1> QED BY <1>3, NodesAreAtLevels

LEMMA FoldDone ==
  ASSUME FoldInv, EncodeDone, TypeInv'
  PROVE  FoldInv'
<1>1. /\ pc = "encode" /\ pc' = "transfer" /\ stack = <<>> /\ Len(rowIDs) = Len(lines) /\ TypeInv
      /\ UNCHANGED <<lines, folded, table, buckets>> /\ Sourced
  BY DEF EncodeDone, FoldInv, column
<1>2. Sourced' /\ Widened
  BY <1>1, SourcedKept
<1>3. PICK H : Progress(H)
  BY <1>1 DEF FoldInv
<1>4. BlockOK
  BY <1>1, TypedEncoding
<1>5. BlockNodes \subseteq H
  BY <1>1, <1>3, <1>4, BlockPassed
<1>6. \A n \in BlockNodes : AllSettled(n, BlockNodes)
  <2> SUFFICES ASSUME NEW n \in BlockNodes, NEW i \in DOMAIN n.params
               PROVE  Settled(n, i, BlockNodes)
    BY DEF AllSettled
  <2>1. Settled(n, i, H)
    BY <1>3, <1>5 DEF Progress, AllSettled
  <2>2. IsNode(n.params[i]) => n.params[i] \in BlockNodes
    BY <1>4, NodeFacts
  <2> QED BY <2>1, <2>2 DEF Settled
<1>7. PICK B : B = BlockNodes
  OBVIOUS
<1>8. BlockNodes' = B
  BY <1>1, <1>7 DEF BlockNodes
<1>9. \A n \in B : AllSettled(n, B)'
  BY <1>2, <1>6, <1>7, AllSettledKept
<1>10. \A n \in BlockNodes' : AllSettled(n, BlockNodes)'
  BY <1>8, <1>9 DEF AllSettled, Settled
<1> QED BY <1>1, <1>2, <1>10 DEF FoldInv

\* Reading changes nothing of it.
LEMMA FoldRead ==
  ASSUME FoldInv, TypeInv', pc \notin {"profile", "encode"}, pc' \notin {"profile", "encode"},
         UNCHANGED <<lines, folded, table, buckets>>
  PROVE  FoldInv'
<1>1. Sourced' /\ Widened
  BY SourcedKept DEF FoldInv
<1>2. PICK B : B = BlockNodes
  OBVIOUS
<1>3. BlockNodes' = B
  BY <1>2 DEF BlockNodes
<1>4. \A n \in B : AllSettled(n, B)'
  BY <1>1, <1>2, AllSettledKept DEF FoldInv
<1>5. \A n \in BlockNodes' : AllSettled(n, BlockNodes)'
  BY <1>3, <1>4 DEF AllSettled, Settled
<1> QED BY <1>1, <1>5 DEF FoldInv

LEMMA FoldProfile ==
  ASSUME FoldInv, ProfileBlock, TypeInv'
  PROVE  FoldInv'
<1>1. /\ pc = "profile" /\ pc' = "encode" /\ rowIDs = <<>> /\ DOMAIN buckets = {}
      /\ UNCHANGED <<buckets, rowIDs, stack>> /\ TypeInv
  BY DEF ProfileBlock, column, FoldInv
<1>2. stack' = <<>> /\ Len(rowIDs') = 0 /\ DOMAIN buckets' = {}
  BY <1>1 DEF TypeInv, StackOK
<1>3. Progress({})'
  <2>1. Len(stack') = 0
    BY <1>2
  <2> QED BY <1>2, <2>1 DEF Progress, Passed, RowsPassed
<1> QED BY <1>1, <1>2, <1>3 DEF FoldInv, Sourced

LEMMA FoldInitially == Init => FoldInv
<1> SUFFICES ASSUME Init PROVE FoldInv
  OBVIOUS
<1>1. DOMAIN buckets = {} /\ pc = "profile" /\ rowIDs = <<>>
  BY DEF Init
<1> QED BY <1>1, TypeInitially DEF FoldInv, Sourced

LEMMA FoldInductive == FoldInv /\ [Next]_vars => FoldInv'
<1> SUFFICES ASSUME FoldInv, [Next]_vars PROVE FoldInv'
  OBVIOUS
<1>1. TypeInv /\ TypeInv'
  BY TypeInductive DEF FoldInv
<1>2. CASE ProfileBlock
  BY <1>1, <1>2, FoldProfile
<1>3. CASE EncodeMatched
  BY <1>1, <1>3, FoldMatched
<1>4. CASE EncodeUnmatched
  BY <1>1, <1>4, FoldUnmatched
<1>5. CASE EncodeNode
  BY <1>1, <1>5, FoldEncodeNode
<1>6. CASE EncodeFolded
  BY <1>1, <1>6, FoldEncodeFolded
<1>7. CASE EncodeLeaf
  BY <1>1, <1>7, FoldEncodeLeaf
<1>8. CASE EncodeReturn
  BY <1>1, <1>8, FoldReturn
<1>9. CASE EncodeDone
  BY <1>1, <1>9, FoldDone
<1>10. CASE Transfer
  <2>1. /\ pc \notin {"profile", "encode"} /\ pc' \notin {"profile", "encode"}
        /\ UNCHANGED <<lines, folded, table>>
    BY <1>10 DEF Transfer
  <2>2. buckets' = buckets
    BY <1>1, <1>10, TransferSame DEF TypeInv
  <2> QED BY <1>1, <2>1, <2>2, FoldRead
<1>11. CASE DecodeMatched \/ DecodeUnmatched \/ DecodeLeaf \/ DecodeNode \/ DecodeReturn \/ DecodeDone
  <2>1. /\ pc \notin {"profile", "encode"} /\ pc' \notin {"profile", "encode"}
        /\ UNCHANGED <<lines, folded, table, buckets>>
    BY <1>11 DEF DecodeMatched, DecodeUnmatched, DecodeLeaf, DecodeNode, DecodeReturn, DecodeDone,
                 DecodingRow, DecodingSlot, column
  <2> QED BY <1>1, <2>1, FoldRead
<1>12. CASE UNCHANGED vars
  <2>1. UNCHANGED <<lines, folded, table, buckets, stack, rowIDs, pc>>
    BY <1>12 DEF vars, column
  <2>2. CASE pc \notin {"profile", "encode"}
    BY <1>1, <2>1, <2>2, FoldRead
  <2>3. CASE pc \in {"profile", "encode"}
    <3>1. Sourced' /\ Widened
      BY <2>1, SourcedKept DEF FoldInv
    <3>2. ASSUME NEW H, Progress(H) PROVE Progress(H)'
      <4>1. \A m \in H : AllSettled(m, H)'
        BY <3>1, <3>2, AllSettledKept DEF Progress
      <4>2. Passed(stack, H)'
        BY <2>1, <3>1, <3>2, SettledKept DEF Progress, Passed
      <4>3. RowsPassed(H)'
        BY <2>1, <3>2 DEF Progress, RowsPassed
      <4> QED BY <4>1, <4>2, <4>3 DEF Progress
    <3> QED BY <1>1, <2>1, <2>3, <3>1, <3>2 DEF FoldInv
  <2> QED BY <2>2, <2>3
<1> QED BY <1>2, <1>3, <1>4, <1>5, <1>6, <1>7, <1>8, <1>9, <1>10, <1>11, <1>12 DEF Next

LEMMA LeafParams ==
  ASSUME BlockOK, NEW n \in BlockNodes, NEW k \in DOMAIN n.params, ~IsNode(n.params[k])
  PROVE  n.params[k] = Leaf(n.params[k].value)
<1>1. PICK l, lo, hi, at, e : StandsIn(n, l, lo, hi, at, e)
  BY NodeStands
<1>6. /\ Stands(n, l, lo, hi, at, e) /\ e \in 0..MaxCascadeDepth
      /\ l \in Seq(Char) /\ lo \in 0..Len(l) /\ hi \in lo..Len(l)
  BY <1>1 DEF StandsIn
<1>8. PICK m \in 1..Len(n.text) : n.text[m] = Placeholder /\ Slots(n.text, m) = k
  BY <1>6, SlotOf
<1>9. n.params[k] = Leaf(SubSeq(l, at[m-1] + 1, at[m]))
  BY <1>6, <1>8, ParamOf
<1> QED BY <1>9, KindOfLeaf

\* A sequence of one value.
LEMMA OneValue ==
  ASSUME NEW S, NEW s \in Seq(S), ~(Cardinality(ToSet(s)) > 1), NEW v \in ToSet(s), NEW w \in ToSet(s)
  PROVE  v = w
<1> SUFFICES ASSUME v # w PROVE FALSE
  OBVIOUS
<1>1. DOMAIN s = 1..Len(s) /\ Len(s) \in Nat
  OBVIOUS
<1>2. IsFiniteSet(1..Len(s))
  BY <1>1, FS_Interval
<1> DEFINE T == ToSet(s)
           f == [i \in 1..Len(s) |-> s[i]]
<1>3. IsFiniteSet(T)
  <2>1. f \in Surjection(1..Len(s), T)
    BY <1>1 DEF ToSet, Surjection
  <2> HIDE DEF T, f
  <2> QED BY <1>2, <2>1, FS_Surjection
<1>4. ~(Cardinality(T) > 1) /\ v \in T /\ w \in T
  OBVIOUS
<1> HIDE DEF T
<1>5. PICK V : V = {v}
  OBVIOUS
<1>6. Cardinality(V) = 1 /\ IsFiniteSet(V) /\ w \notin V
  BY <1>5, FS_Singleton
<1>7. Cardinality(V \cup {w}) = Cardinality(V) + 1
  BY <1>6, FS_AddElement
<1>8. V \cup {w} \in SUBSET T
  BY <1>4, <1>5
<1>9. Cardinality(V \cup {w}) <= Cardinality(T) /\ Cardinality(T) \in Nat
  BY <1>3, <1>8, FS_Subset, FS_CardinalityType
<1> QED BY <1>4, <1>6, <1>7, <1>9

\* What pass one folds: a slot that holds one leaf.
LEMMA FoldedIfOne ==
  ASSUME folded = Fold(Profile(lines)), NEW n \in BlockNodes, NEW i \in DOMAIN n.params,
         \A m \in BlockNodes : m.id = n.id /\ i \in DOMAIN m.params => m.params[i] = n.params[i],
         ~IsNode(n.params[i]), ~HasMarker(n.params[i].value)
  PROVE  IsFolded(n.id, i)
<1> DEFINE P == Profile(lines)
           held(x) == {q[3] : q \in {r \in P : <<r[1], r[2]>> = x}}
           slots == {<<q[1], q[2]>> : q \in P}
           x0 == <<n.id, i>>
           p == n.params[i]
           q0 == <<n.id, i, p>>
<1>1. DOMAIN folded = {s \in slots : Folds(held(s))}
  BY DEF Fold
<1>2. q0 \in P
  <2>1. n \in UNION {NodesIn(r) : r \in UNION {Resolved[l] : l \in ToSet(lines)}}
    BY DEF BlockNodes
  <2>2. q0 \in {<<n.id, k, n.params[k]>> : k \in DOMAIN n.params}
    OBVIOUS
  <2> HIDE DEF q0
  <2> QED BY <2>1, <2>2 DEF Profile
<1>3. \A q \in P : \E m \in BlockNodes : \E k \in DOMAIN m.params : q = <<m.id, k, m.params[k]>>
  BY DEF Profile, BlockNodes
<1>4. q0[1] = n.id /\ q0[2] = i /\ q0[3] = p
  OBVIOUS
<1>5. x0 \in slots
  <2> HIDE DEF P, q0
  <2> QED BY <1>2, <1>4
<1>6. held(x0) = {p}
  <2>1. p \in held(x0)
    <3> HIDE DEF P, q0, p
    <3> QED BY <1>2, <1>4
  <2>2. ASSUME NEW q \in P, <<q[1], q[2]>> = x0 PROVE q[3] = p
    <3>1. PICK m \in BlockNodes : \E k \in DOMAIN m.params : q = <<m.id, k, m.params[k]>>
      BY <1>3
    <3>2. PICK k \in DOMAIN m.params : q = <<m.id, k, m.params[k]>>
      BY <3>1
    <3>3. m.id = n.id /\ k = i /\ q[3] = m.params[k]
      BY <2>2, <3>2
    <3> QED BY <3>2, <3>3
  <2> HIDE DEF P, p, x0
  <2> QED BY <2>1, <2>2
<1>7. Folds(held(x0))
  <2> HIDE DEF held, x0
  <2> QED BY <1>6 DEF Folds
<1>8. x0 \in DOMAIN folded
  <2> HIDE DEF held, slots, x0
  <2> QED BY <1>1, <1>5, <1>7
<1> QED BY <1>8 DEF IsFolded

LEMMA NothingLeft == FoldInv => NothingLeftToFold
<1> SUFFICES ASSUME FoldInv, pc = "done", NEW k \in DOMAIN buckets, k[2] # 0,
                    ~(Cardinality(ToSet(buckets[k])) > 1), ~HasMarker(buckets[k][1]),
                    ~SharesSlot(k)
             PROVE  FALSE
  BY DEF NothingLeftToFold
<1>1. TypeInv /\ Sourced /\ \A m \in BlockNodes : AllSettled(m, BlockNodes)
  BY DEF FoldInv
<1>2. /\ lines \in Blocks /\ folded = Fold(Profile(lines)) /\ BlockOK
      /\ buckets[k] \in Seq(Seq(Char)) /\ TableOK
      /\ k \in Nat \X Nat /\ k[1] \in DOMAIN table
  BY <1>1, BlockFacts DEF TypeInv, PhaseOK, BucketsOK, BucketOK, IInv
<1>3. PICK n \in BlockNodes : \E i : Source(n, i, k)
  BY <1>1 DEF Sourced
<1>4. PICK i : Source(n, i, k)
  BY <1>3
<1>5. /\ i \in DOMAIN n.params /\ n.id = table[k[1]].id /\ CompactSlot(n.id, i) = k[2]
      /\ ~IsNode(n.params[i]) /\ ~IsFolded(n.id, i)
  BY <1>4 DEF Source
<1>6. ASSUME NEW m \in BlockNodes, m.id = n.id, i \in DOMAIN m.params
      PROVE  ~IsNode(m.params[i]) /\ m.params[i].value \in ToSet(buckets[k])
  <2>1. ~IsNode(m.params[i])
    <3> DEFINE q == <<m.id, i, m.params[i]>>
    <3>1. q \in Profile(lines)
      <4>1. m \in UNION {NodesIn(r) : r \in UNION {Resolved[l] : l \in ToSet(lines)}}
        BY DEF BlockNodes
      <4>2. q \in {<<m.id, x, m.params[x]>> : x \in DOMAIN m.params}
        BY <1>6
      <4> HIDE DEF q
      <4> QED BY <4>1, <4>2 DEF Profile
    <3>2. q[1] = n.id /\ q[2] = i /\ q[3] = m.params[i]
      BY <1>6
    <3> HIDE DEF q
    <3> QED BY <1>5, <3>1, <3>2 DEF SharesSlot
  <2>2. Kept(m, i)
    BY <1>1, <1>5, <1>6, <2>1 DEF AllSettled, Settled
  <2>3. PICK c \in DOMAIN table : /\ table[c].id = m.id
                                  /\ m.params[i].value \in ToSet(Bucket(<<c, CompactSlot(m.id, i)>>))
    BY <2>2 DEF Kept
  <2>4. c = k[1]
    BY <1>2, <1>5, <1>6, <2>3 DEF TableOK
  <2>5. <<c, CompactSlot(m.id, i)>> = k
    BY <1>2, <1>5, <1>6, <2>4
  <2> QED BY <2>1, <2>3, <2>5 DEF Bucket
<1>7. \A m \in BlockNodes : m.id = n.id /\ i \in DOMAIN m.params => m.params[i] = n.params[i]
  <2> SUFFICES ASSUME NEW m \in BlockNodes, m.id = n.id, i \in DOMAIN m.params
               PROVE  m.params[i] = n.params[i]
    OBVIOUS
  <2>1. m.params[i].value = n.params[i].value
    BY <1>2, <1>5, <1>6, OneValue
  <2>2. m.params[i] = Leaf(m.params[i].value) /\ n.params[i] = Leaf(n.params[i].value)
    BY <1>2, <1>5, <1>6, LeafParams
  <2> QED BY <2>1, <2>2
<1>8. ~HasMarker(n.params[i].value)
  <2>1. n.params[i].value \in ToSet(buckets[k])
    BY <1>5, <1>6
  <2>2. buckets[k][1] \in ToSet(buckets[k])
    BY <1>2, <2>1 DEF ToSet
  <2>3. n.params[i].value = buckets[k][1]
    BY <1>2, <2>1, <2>2, OneValue
  <2> QED BY <2>3
<1> QED BY <1>2, <1>5, <1>7, <1>8, FoldedIfOne

(***************************************************************************)
(* For every catalog, dictionary and block: a param stream that is still   *)
(* there varies, shares its slot with sub-templates or holds the           *)
(* placeholder.                                                            *)
(***************************************************************************)
THEOREM FoldedSlotsAreErased == Spec => []NothingLeftToFold
<1> QED BY FoldInitially, FoldInductive, NothingLeft, PTL DEF Spec

=============================================================================
