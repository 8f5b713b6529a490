--------------------------- MODULE CatalogProofs ---------------------------
(***************************************************************************)
(* Catalog's invariants for every set of texts, levels, seeds and          *)
(* candidates and every number of them.                                    *)
(*                                                                         *)
(* First what the gate's test is worth: it asks whether an entry takes the *)
(* candidate's probe, and for an opaque entry that is to cover the         *)
(* candidate (SubsumptionSound).                                           *)
(*                                                                         *)
(* The inductive invariant adds two facts to the invariants of Catalog:    *)
(* IDs are unique, without which a retired ID could be a scanned entry's   *)
(* too, and an alias that leads to a mined entry leads to one that takes   *)
(* its probe.  The second is what AliasKeepsShape needs when that entry is *)
(* retired: it is then the witness for every alias it hands over.          *)
(*                                                                         *)
(* From there: Catalog implements References, and the loop of mining and   *)
(* promotion (Pipeline), whose invariant joins the catalog's to that of    *)
(* the miner, learns what it mined and unlearns nothing.                   *)
(***************************************************************************)
EXTENDS Pipeline, TemplateTheorems, SequenceTheorems

-----------------------------------------------------------------------------
(***************************************************************************)
(* What the gate's test is worth.  at[j] below is how much of the probe of *)
(* y the first j symbols of y became.                                      *)
(***************************************************************************)
ProbeEnds(at, y) ==
    /\ at \in [0..Len(y) -> Nat]
    /\ at[0] = 0 /\ at[Len(y)] = Len(Probe(y))
    /\ \A j \in 1..Len(y) :
          IF y[j] = Placeholder
          THEN /\ at[j] = at[j-1] + Len(Sentinel)
               /\ \A k \in 1..Len(Sentinel) : Probe(y)[at[j-1] + k] = Sentinel[k]
          ELSE /\ at[j] = at[j-1] + 1
               /\ Probe(y)[at[j]] = y[j]

LEMMA SentinelFacts ==
  /\ Sentinel \in Text
  /\ Len(Sentinel) \in Nat \ {0}
  /\ \A k \in 1..Len(Sentinel) : Sentinel[k] \in Char
<1>1. Sentinel \in Seq(Char) \ {<<>>}
  BY GateAssumption
<1> QED
  BY <1>1, EmptySeq DEF Text

LEMMA ProbeFacts ==
  ASSUME NEW y \in Text
  PROVE  Probe(y) \in Text /\ \E at : ProbeEnds(at, y)
<1> DEFINE n == Len(y)
           A == Char \cup {Placeholder}
           s == [i \in DOMAIN y |-> IF y[i] = Placeholder THEN Sentinel ELSE <<y[i]>>]
<1>1. n \in Nat /\ DOMAIN y = 1..n /\ \A i \in 1..n : y[i] \in A
  BY DEF Text
<1>2. \A i \in 1..n : s[i] = IF y[i] = Placeholder THEN Sentinel ELSE <<y[i]>>
  BY <1>1
<1>3. s \in Seq(Seq(A)) /\ Len(s) = n
  <2>1. Sentinel \in Seq(A)
    BY SentinelFacts DEF Text
  <2> HIDE DEF A
  <2>2. \A i \in 1..n : s[i] \in Seq(A)
    BY <1>1, <1>2, <2>1
  <2>3. DOMAIN s = 1..n
    BY <1>1
  <2>4. s = [i \in 1..n |-> s[i]]
    BY <1>1
  <2> HIDE DEF s, n
  <2> QED
    BY <1>1, <2>2, <2>3, <2>4
<1>4. Probe(y) = FlattenSeq(s)
  BY DEF Probe
<1> HIDE DEF s, n, A
<1>5. FlattenSeq(s) \in Seq(A)
  BY <1>3, FlattenEndsFacts
<1>6. PICK at : FlattenEnds(at, s)
  BY <1>3, FlattenEndsFacts
<1>7. /\ at \in [0..n -> Nat]
      /\ at[0] = 0 /\ at[n] = Len(Probe(y))
      /\ \A j \in 1..n : /\ at[j] = at[j-1] + Len(s[j])
                         /\ \A k \in 1..Len(s[j]) : Probe(y)[at[j-1] + k] = s[j][k]
  BY <1>3, <1>4, <1>6 DEF FlattenEnds
<1>8. ASSUME NEW j \in 1..n, y[j] = Placeholder
      PROVE  /\ at[j] = at[j-1] + Len(Sentinel)
             /\ \A k \in 1..Len(Sentinel) : Probe(y)[at[j-1] + k] = Sentinel[k]
  <2>1. s[j] = Sentinel
    BY <1>2, <1>8
  <2> QED
    BY <1>7, <2>1
<1>9. ASSUME NEW j \in 1..n, y[j] # Placeholder
      PROVE  at[j] = at[j-1] + 1 /\ Probe(y)[at[j]] = y[j]
  <2>1. s[j] = <<y[j]>>
    BY <1>2, <1>9
  <2>2. Len(s[j]) = 1 /\ s[j][1] = y[j] /\ 1 \in 1..Len(s[j])
    BY <2>1
  <2> QED
    BY <1>7, <2>2
<1>10. ProbeEnds(at, y)
  BY <1>7, <1>8, <1>9 DEF ProbeEnds, n
<1> QED
  BY <1>4, <1>5, <1>10 DEF Text, A

\* The ends follow one another.
LEMMA EndsIncrease ==
  ASSUME NEW y \in Text, NEW at, ProbeEnds(at, y)
  PROVE  \A i, j \in 0..Len(y) : i < j => at[i] < at[j]
<1> DEFINE n == Len(y)
<1>1. n \in Nat /\ at \in [0..n -> Nat]
  BY LenNat DEF ProbeEnds
<1>2. \A j \in 1..n : at[j-1] < at[j]
  <2> TAKE j \in 1..n
  <2>1. j-1 \in 0..n /\ at[j-1] \in Nat /\ Len(Sentinel) \in Nat \ {0}
    BY <1>1, SentinelFacts
  <2> QED
    BY <2>1 DEF ProbeEnds
<1> HIDE DEF n
<1>3. ASSUME NEW i \in 0..n, NEW j \in 0..n, i < j PROVE at[i] < at[j]
  <2> DEFINE Odd == {h \in (i+1)..n : ~(at[i] < at[h])}
  <2>1. Odd = {}
    <3> SUFFICES ASSUME Odd # {} PROVE FALSE
      OBVIOUS
    <3>1. PICK h \in Odd : \A g \in Odd : h <= g
      <4>1. Odd \subseteq Nat
        BY <1>1
      <4> HIDE DEF Odd
      <4> QED
        BY <4>1, LeastNat
    <3>2. h \in 1..n /\ at[h-1] < at[h] /\ at[i] \in Nat /\ at[h-1] \in Nat /\ at[h] \in Nat
      BY <1>1, <1>2, <3>1
    <3>3. h # i+1
      BY <3>1, <3>2
    <3>4. h-1 \in (i+1)..n /\ ~(h <= h-1)
      BY <1>1, <3>1, <3>3
    <3> QED
      BY <3>1, <3>2, <3>4
  <2> QED
    BY <1>1, <1>3, <2>1
<1> QED
  BY <1>3 DEF n

\* A template takes its own probe: each placeholder takes a sentinel.
LEMMA OwnProbe == ASSUME NEW y \in Text PROVE Matches(y, Probe(y))
<1>1. PICK at : ProbeEnds(at, y)
  BY ProbeFacts
<1> DEFINE n == Len(y)
<1>2. n \in Nat /\ at \in [0..n -> Nat]
  BY <1>1, LenNat DEF ProbeEnds
<1>3. \A i, j \in 0..n : i <= j => at[i] <= at[j]
  <2> TAKE i, j \in 0..n
  <2>1. at[i] \in Nat /\ at[j] \in Nat
    BY <1>2
  <2>2. i < j => at[i] < at[j]
    BY <1>1, EndsIncrease
  <2> QED
    BY <1>2, <2>1, <2>2
<1>4. at \in [0..n -> 0..Len(Probe(y))]
  <2>1. at[n] = Len(Probe(y)) /\ at[n] \in Nat
    BY <1>1, <1>2 DEF ProbeEnds
  <2>2. \A i \in 0..n : at[i] \in 0..at[n]
    BY <1>2, <1>3
  <2> HIDE DEF n
  <2> QED
    BY <1>2, <2>1, <2>2
<1>5. IsAlignment(at, y, Probe(y))
  BY <1>1, <1>3 DEF ProbeEnds, IsAlignment
<1> QED
  BY <1>4, <1>5 DEF Matches

(***************************************************************************)
(* On the probe of another, the literals of an opaque text take literals.  *)
(* If one took a character of a sentinel, so would all between the two     *)
(* placeholders next to it, for none of them is an end of the sentinel.    *)
(***************************************************************************)
LEMMA OpaqueLiterals ==
  ASSUME NEW x \in Text, Opaque(x),
         NEW y \in Text, NEW pos, ProbeEnds(pos, y),
         NEW e \in [0..Len(x) -> 0..Len(Probe(y))], IsAlignment(e, x, Probe(y)),
         NEW i \in 1..Len(x), x[i] # Placeholder
  PROVE  \E j \in 1..Len(y) : y[j] # Placeholder /\ pos[j] = e[i] /\ pos[j-1] = e[i-1]
<1> DEFINE m == Len(x)
           n == Len(y)
           P == Probe(y)
           L == Len(Sentinel)
<1>1. /\ m \in Nat /\ n \in Nat /\ DOMAIN x = 1..m
      /\ L \in Nat \ {0} /\ Len(P) \in Nat
  BY LenNat, SentinelFacts, ProbeFacts DEF Text
<1>2. /\ pos \in [0..n -> Nat] /\ pos[0] = 0 /\ pos[n] = Len(P)
      /\ \A j \in 1..n :
            /\ y[j] = Placeholder => /\ pos[j] = pos[j-1] + L
                                     /\ \A k \in 1..L : P[pos[j-1] + k] = Sentinel[k]
            /\ y[j] # Placeholder => pos[j] = pos[j-1] + 1
  BY DEF ProbeEnds
<1>3. /\ e \in [0..m -> 0..Len(P)] /\ e[0] = 0 /\ e[m] = Len(P)
      /\ \A h \in 1..m : x[h] # Placeholder => e[h] = e[h-1] + 1 /\ P[e[h]] = x[h]
  BY DEF IsAlignment
<1>4. /\ \A h \in 1..m : x[h] \notin {Sentinel[1], Sentinel[L]}
      /\ \A a, b \in 1..m : Gap(x, a, b) => ~Inside(x, a, b)
  BY <1>1 DEF Opaque
<1>5. /\ i \in 1..m /\ i-1 \in 0..m /\ e[i-1] \in Nat /\ e[i] = e[i-1] + 1
      /\ e[i] \in 1..Len(P)
  <2>1. i \in 1..m /\ i-1 \in 0..m /\ i \in 0..m
    BY <1>1
  <2>2. e[i-1] \in 0..Len(P) /\ e[i] \in 0..Len(P) /\ e[i] = e[i-1] + 1
    BY <1>3, <2>1
  <2> QED
    BY <1>1, <2>1, <2>2
<1>6. \A h, j \in 0..n : h < j => pos[h] < pos[j]
  BY EndsIncrease
<1> HIDE DEF m, n, P, L
<1>7. PICK j \in 1..n : pos[j-1] < e[i] /\ e[i] <= pos[j]
  <2> DEFINE T == {j \in 0..n : e[i] <= pos[j]}
  <2>1. T \subseteq Nat /\ n \in T
    BY <1>1, <1>2, <1>5
  <2>2. PICK j \in T : \A h \in T : j <= h
    <3> HIDE DEF T
    <3> QED
      BY <2>1, LeastNat
  <2>3. j \in 0..n /\ e[i] <= pos[j] /\ j # 0
    BY <1>2, <1>5, <2>2
  <2>4. j \in 1..n /\ j-1 \in 0..n /\ ~(j <= j-1)
    BY <1>1, <2>3
  <2>5. ~(e[i] <= pos[j-1]) /\ pos[j-1] \in Nat /\ e[i] \in Nat
    BY <1>1, <1>2, <1>5, <2>2, <2>4
  <2> HIDE DEF T
  <2> QED
    BY <2>3, <2>4, <2>5
<1>8. j-1 \in 0..n /\ j \in 0..n /\ pos[j-1] \in Nat /\ pos[j] \in Nat
  BY <1>1, <1>2
<1>9. CASE y[j] # Placeholder
  <2>1. pos[j] = pos[j-1] + 1
    BY <1>2, <1>9
  <2>2. pos[j] = e[i] /\ pos[j-1] = e[i-1]
    BY <1>5, <1>7, <1>8, <2>1
  <2> QED
    BY <1>9, <2>2 DEF n
<1>10. ASSUME y[j] = Placeholder PROVE FALSE
  <2>1. pos[j] = pos[j-1] + L /\ \A k \in 1..L : P[pos[j-1] + k] = Sentinel[k]
    BY <1>2, <1>10
  \* The placeholders before and after i, or the ends of x.
  <2>2. PICK a \in 0..i-1 : /\ a = 0 \/ x[a] = Placeholder
                            /\ \A h \in a+1..i-1 : x[h] # Placeholder
    <3> DEFINE T == {h \in 0..i-1 : h = 0 \/ x[h] = Placeholder}
    <3>1. T \subseteq 0..i-1 /\ 0 \in T /\ i-1 \in Nat
      BY <1>5
    <3>2. PICK a \in T : \A h \in T : h <= a
      <4> HIDE DEF T
      <4> QED
        BY <3>1, GreatestNat
    <3>3. \A h \in a+1..i-1 : h \in 0..i-1 /\ h # 0 /\ ~(h <= a)
      BY <1>5, <3>2
    <3> QED
      BY <3>2, <3>3
  <2>3. PICK b \in i+1..m+1 : /\ b = m+1 \/ x[b] = Placeholder
                              /\ \A h \in i+1..b-1 : x[h] # Placeholder
    <3> DEFINE T == {h \in i+1..m+1 : h = m+1 \/ x[h] = Placeholder}
    <3>1. T \subseteq Nat /\ m+1 \in T
      BY <1>1, <1>5
    <3>2. PICK b \in T : \A h \in T : b <= h
      <4> HIDE DEF T
      <4> QED
        BY <3>1, LeastNat
    <3>3. \A h \in i+1..b-1 : h \in i+1..m+1 /\ h # m+1 /\ ~(b <= h)
      BY <1>1, <1>5, <3>2
    <3> QED
      BY <3>2, <3>3
  <2>4. \A h \in a+1..b-1 : h \in 1..m /\ h-1 \in 0..m /\ x[h] # Placeholder
    <3> TAKE h \in a+1..b-1
    <3>1. h \in 1..m /\ h-1 \in 0..m
      BY <1>1, <1>5, <2>2, <2>3
    <3>2. h \in a+1..i-1 \/ h = i \/ h \in i+1..b-1
      BY <1>5, <2>2, <2>3, <3>1
    <3> QED
      BY <2>2, <2>3, <3>1, <3>2
  \* Between them x is literal, and taken in one stretch.
  <2>5. a \in 0..m /\ e[a] \in Nat
    BY <1>1, <1>3, <1>5, <2>2
  <2>6. \A h \in a..b-1 : e[h] = e[a] + (h - a)
    <3> DEFINE Odd == {h \in a..b-1 : e[h] # e[a] + (h - a)}
    <3>1. SUFFICES ASSUME Odd # {} PROVE FALSE
      OBVIOUS
    <3>2. Odd \subseteq Nat
      BY <2>2
    <3>3. PICK h \in Odd : \A g \in Odd : h <= g
      <4> HIDE DEF Odd
      <4> QED
        BY <3>1, <3>2, LeastNat
    <3>4. h \in a..b-1 /\ e[h] # e[a] + (h - a)
      BY <3>3
    <3>5. h # a
      BY <2>5, <3>4
    <3>6. h \in a+1..b-1 /\ h-1 \in a..b-1 /\ ~(h <= h-1)
      BY <2>2, <2>3, <3>4, <3>5
    <3>7. e[h-1] = e[a] + ((h-1) - a)
      BY <3>3, <3>6
    <3>8. e[h] = e[h-1] + 1
      BY <1>3, <2>4, <3>6
    <3>9. h \in Nat /\ a \in Nat
      BY <2>2, <3>4
    <3> HIDE DEF Odd
    <3> QED
      BY <2>5, <3>4, <3>7, <3>8, <3>9
  <2> DEFINE k == e[a] - pos[j-1]
  <2>7. k \in Int /\ \A h \in a+1..b-1 : e[h] = pos[j-1] + (k + h - a)
    <3>1. k \in Int /\ a \in Nat /\ e[a] = pos[j-1] + k
      BY <1>8, <2>2, <2>5
    <3> HIDE DEF k
    <3>2. ASSUME NEW h \in a+1..b-1 PROVE e[h] = pos[j-1] + (k + h - a)
      <4>1. h \in a..b-1 /\ h \in Nat
        BY <3>1
      <4>2. e[h] = e[a] + (h - a)
        BY <2>6, <4>1
      <4> QED
        BY <1>8, <3>1, <4>1, <4>2
    <3> QED
      BY <3>1, <3>2
  <2> HIDE DEF k
  <2>8. i \in a+1..b-1 /\ k + i - a \in 1..L
    <3>1. i \in a+1..b-1
      BY <1>5, <2>2, <2>3
    <3>2. e[i] = pos[j-1] + (k + i - a)
      BY <2>7, <3>1
    <3> QED
      BY <1>1, <1>5, <1>7, <1>8, <2>1, <2>2, <2>7, <3>1, <3>2
  <2>9. \A h \in a+1..b-1 : k + h - a \in 1..L => x[h] = Sentinel[k + h - a]
    BY <1>3, <2>1, <2>4, <2>7
  <2>10. k >= 1
    <3> SUFFICES ASSUME k <= 0 PROVE FALSE
      BY <2>7
    <3> DEFINE h == a + (1 - k)
    <3>1. h \in a+1..b-1 /\ k + h - a = 1 /\ 1 \in 1..L
      BY <1>1, <1>5, <2>2, <2>3, <2>7, <2>8
    <3> HIDE DEF h
    <3>2. x[h] = Sentinel[1] /\ h \in 1..m
      BY <2>4, <2>9, <3>1
    <3> QED
      BY <1>4, <3>2
  <2>11. k + (b-1) - a < L
    <3> SUFFICES ASSUME k + (b-1) - a >= L PROVE FALSE
      BY <1>1, <2>2, <2>3, <2>7
    <3> DEFINE h == a + (L - k)
    <3>1. h \in a+1..b-1 /\ k + h - a = L /\ L \in 1..L
      BY <1>1, <1>5, <2>2, <2>3, <2>7, <2>8
    <3> HIDE DEF h
    <3>2. x[h] = Sentinel[L] /\ h \in 1..m
      BY <2>4, <2>9, <3>1
    <3> QED
      BY <1>4, <3>2
  <2>12. a # 0
    BY <1>3, <1>8, <2>10 DEF k
  <2>13. b # m+1
    <3> SUFFICES ASSUME b = m+1 PROVE FALSE
      OBVIOUS
    <3>1. m \in a+1..b-1 /\ e[m] = pos[j-1] + (k + m - a)
      BY <1>1, <1>5, <2>2, <2>7
    <3>2. e[m] < pos[j]
      BY <1>1, <1>8, <2>1, <2>2, <2>7, <2>11, <3>1
    <3>3. pos[j] <= pos[n] /\ pos[n] \in Nat
      BY <1>1, <1>2, <1>6, <1>8
    <3> QED
      BY <1>2, <1>3, <1>8, <3>2, <3>3
  <2>14. a \in 1..m /\ b \in 1..m /\ Gap(x, a, b)
    <3>1. a \in 1..m /\ b \in 1..m /\ a < b - 1
      BY <1>1, <1>5, <2>2, <2>3, <2>12, <2>13
    <3> QED
      BY <2>2, <2>3, <2>4, <2>12, <2>13, <3>1 DEF Gap
  <2>15. Inside(x, a, b)
    <3>1. k \in 0..L /\ \A h \in a+1..b-1 : k + h - a \in 1..L
      BY <1>1, <1>5, <2>2, <2>3, <2>7, <2>10, <2>11
    <3>2. \A h \in a+1..b-1 : k + h - a <= L /\ Sentinel[k + h - a] = x[h]
      <4> TAKE h \in a+1..b-1
      <4>1. k + h - a \in 1..L
        BY <3>1
      <4> QED
        BY <2>9, <4>1
    <3> QED
      BY <3>1, <3>2 DEF Inside, L
  <2> QED
    BY <1>4, <2>14, <2>15
<1> QED
  BY <1>9, <1>10

(***************************************************************************)
(* So an opaque text that takes the probe of another takes the other: what *)
(* took part of a sentinel may take the placeholder, or nothing of it.     *)
(***************************************************************************)
LEMMA ExactWhenOpaque ==
  ASSUME NEW x \in Text, Opaque(x), NEW y \in Text, Matches(x, Probe(y))
  PROVE  Matches(x, y)
<1> DEFINE m == Len(x)
           n == Len(y)
           P == Probe(y)
<1>1. m \in Nat /\ n \in Nat /\ P \in Text /\ Len(P) \in Nat
  BY LenNat, ProbeFacts
<1>2. PICK pos : ProbeEnds(pos, y)
  BY ProbeFacts
<1>3. PICK e \in [0..Len(x) -> 0..Len(Probe(y))] : IsAlignment(e, x, Probe(y))
  BY DEF Matches
<1>4. /\ pos \in [0..n -> Nat] /\ pos[0] = 0 /\ pos[n] = Len(P)
      /\ \A h, j \in 0..n : h < j => pos[h] < pos[j]
      /\ \A j \in 1..n : y[j] # Placeholder => P[pos[j]] = y[j]
  BY <1>2, EndsIncrease DEF ProbeEnds
<1>5. /\ e \in [0..m -> 0..Len(P)] /\ e[0] = 0 /\ e[m] = Len(P)
      /\ \A h, i \in 0..m : h <= i => e[h] <= e[i]
      /\ \A i \in 1..m : x[i] # Placeholder => P[e[i]] = x[i]
  BY <1>3 DEF IsAlignment
<1>6. \A i \in 1..m : x[i] # Placeholder =>
         \E j \in 1..n : y[j] # Placeholder /\ pos[j] = e[i] /\ pos[j-1] = e[i-1]
  BY <1>2, <1>3, OpaqueLiterals
<1> HIDE DEF m, n, P
\* How many symbols of y have ended within the first p of its probe.
<1> DEFINE Floor(p, j) == /\ j \in 0..n /\ pos[j] <= p
                          /\ \A h \in 0..n : pos[h] <= p => h <= j
           at == [i \in 0..m |-> CHOOSE j : Floor(e[i], j)]
<1>7. ASSUME NEW p \in 0..Len(P) PROVE \E j : Floor(p, j)
  <2> DEFINE T == {j \in 0..n : pos[j] <= p}
  <2>1. T \subseteq 0..n /\ 0 \in T
    BY <1>1, <1>4
  <2>2. PICK j \in T : \A h \in T : h <= j
    <3> HIDE DEF T
    <3> QED
      BY <1>1, <2>1, GreatestNat
  <2> QED
    BY <2>2
<1>8. ASSUME NEW p \in 0..Len(P), NEW q \in 0..Len(P), p <= q,
             NEW h, Floor(p, h), NEW j, Floor(q, j)
      PROVE  h <= j
  <2>1. pos[h] \in Nat /\ pos[h] <= q
    BY <1>1, <1>4, <1>8
  <2> QED
    BY <1>8, <2>1
<1>9. ASSUME NEW j \in 0..n, NEW h, Floor(pos[j], h) PROVE h = j
  <2>1. h \in 0..n /\ j <= h /\ pos[h] <= pos[j] /\ pos[h] \in Nat /\ pos[j] \in Nat
    BY <1>4, <1>9
  <2>2. ~(j < h)
    BY <1>4, <2>1
  <2> QED
    BY <1>1, <2>1, <2>2
<1> HIDE DEF Floor
<1>10. \A i \in 0..m : e[i] \in 0..Len(P) /\ Floor(e[i], at[i])
  <2> TAKE i \in 0..m
  <2>1. e[i] \in 0..Len(P)
    BY <1>5
  <2> QED
    BY <1>7, <2>1
<1> HIDE DEF at
<1>11. at \in [0..m -> 0..n]
  <2>1. at = [i \in 0..m |-> at[i]]
    BY DEF at
  <2>2. \A i \in 0..m : at[i] \in 0..n
    BY <1>10 DEF Floor
  <2> QED
    BY <2>1, <2>2
<1>12. at[0] = 0 /\ at[m] = n
  <2>1. 0 \in 0..m /\ m \in 0..m /\ 0 \in 0..n /\ n \in 0..n
    BY <1>1
  <2>2. e[0] = pos[0] /\ e[m] = pos[n]
    BY <1>4, <1>5
  <2> QED
    BY <1>9, <1>10, <2>1, <2>2
<1>13. \A h, i \in 0..m : h <= i => at[h] <= at[i]
  BY <1>5, <1>8, <1>10
<1>14. ASSUME NEW i \in 1..m, x[i] # Placeholder
       PROVE  at[i] = at[i-1] + 1 /\ y[at[i]] = x[i]
  <2>1. PICK j \in 1..n : y[j] # Placeholder /\ pos[j] = e[i] /\ pos[j-1] = e[i-1]
    BY <1>6, <1>14
  <2>2. i \in 0..m /\ i-1 \in 0..m /\ j \in 0..n /\ j-1 \in 0..n
    BY <1>1
  <2>3. at[i] = j /\ at[i-1] = j-1
    BY <1>9, <1>10, <2>1, <2>2
  <2>4. y[j] = x[i]
    BY <1>4, <1>5, <1>14, <2>1
  <2> QED
    BY <2>3, <2>4
<1>15. IsAlignment(at, x, y)
  BY <1>12, <1>13, <1>14 DEF IsAlignment, m, n
<1> QED
  BY <1>11, <1>15 DEF Matches, m, n

(***************************************************************************)
(* What the gate calls subsumption is: a template with no literal text     *)
(* that occurs in the sentinel, and whose pattern takes another's probe,   *)
(* matches every line the other matches.                                   *)
(***************************************************************************)
THEOREM SubsumptionSound ==
  ASSUME NEW x \in Text, NEW y \in Text, Opaque(x), Matches(x, Probe(y))
  PROVE  \A line \in Text : Matches(y, line) => Matches(x, line)
BY ExactWhenOpaque, MatchesTransitive

-----------------------------------------------------------------------------
UniqueIDs ==
    \A i, j \in DOMAIN templates :
        TemplateID(templates[i]) = TemplateID(templates[j]) => i = j

MinedTargetsTake ==
    \A id \in DOMAIN aliases : \A i \in Entry(aliases[id]) :
        templates[i].lib = Mined => <<templates[i].text, ProbeOf[id[2]]>> \in Accepts

\* AliasKeepsShape in the gate's own terms.
ProbesKeepShape ==
    \A id \in DOMAIN aliases :
        \E i \in DOMAIN templates :
            \A text \in {id[2], aliases[id][2]} :
                <<templates[i].text, ProbeOf[text]>> \in Accepts

IInv == /\ TypeOK
        /\ UniqueIDs
        /\ GateSeesCatalog
        /\ AliasesResolve
        /\ OnlyMinedRetired
        /\ MinedTargetsTake
        /\ ProbesKeepShape
        /\ DecisionsRemembered

-----------------------------------------------------------------------------
(* What appending an entry, and matching a candidate, give.                *)

LEMMA AppendFacts ==
  ASSUME NEW ts \in Seq(Template), NEW c \in Template
  PROVE  LET new == Append(ts, c)
             n   == Len(ts) + 1
         IN  /\ new \in Seq(Template)
             /\ DOMAIN new = DOMAIN ts \cup {n}
             /\ n \notin DOMAIN ts
             /\ n \in Nat
             /\ new[n] = c
             /\ \A i \in DOMAIN ts : new[i] = ts[i]
             /\ EntryIDs(new) = EntryIDs(ts) \cup {TemplateID(c)}
<1> DEFINE new == Append(ts, c)
           n   == Len(ts) + 1
<1>1. /\ new \in Seq(Template)
      /\ DOMAIN new = DOMAIN ts \cup {n}
      /\ n \notin DOMAIN ts
      /\ n \in Nat
      /\ new[n] = c
      /\ \A i \in DOMAIN ts : new[i] = ts[i]
  OBVIOUS
<1>2. EntryIDs(new) = EntryIDs(ts) \cup {TemplateID(c)}
  BY <1>1 DEF EntryIDs
<1> QED
  BY <1>1, <1>2

LEMMA ProbeOfFacts ==
  ASSUME NEW y \in Texts
  PROVE  y \in Text /\ ProbeOf[y] = Probe(y) /\ ProbeOf[y] \in Lines
BY GateAssumption, MatcherAssumption DEF ProbeOf

LEMMA OpaqueAccepts ==
  ASSUME NEW x \in Texts, NEW y \in Texts, Opaque(x), <<x, ProbeOf[y]>> \in Accepts
  PROVE  <<x, y>> \in Accepts
<1>1. x \in Text /\ y \in Text /\ y \in Lines
  BY GateAssumption, MatcherAssumption
<1>2. Matches(x, Probe(y))
  BY ProbeOfFacts, AcceptsFacts
<1> QED
  BY <1>1, <1>2, ExactWhenOpaque, AcceptsFacts

LEMMA TemplateFacts ==
  ASSUME NEW t \in Template
  PROVE  /\ t.text \in Texts /\ t.text \in Text
         /\ TemplateID(t) \in IDs
         /\ TemplateID(t)[2] = t.text
         /\ <<t.text, t.text>> \in Accepts
         /\ <<t.text, ProbeOf[t.text]>> \in Accepts
<1>1. t.text \in Texts /\ t.level \in Level /\ t.text \in Text /\ t.text \in Lines
  BY MatcherAssumption, GateAssumption DEF Template
<1>2. TemplateID(t) \in IDs /\ TemplateID(t)[2] = t.text
  BY <1>1 DEF TemplateID, IDs
<1>3. Matches(t.text, t.text)
  BY <1>1, CoversReflexive DEF Covers
<1>4. <<t.text, t.text>> \in Accepts
  BY <1>1, <1>3, AcceptsFacts
<1>5. <<t.text, ProbeOf[t.text]>> \in Accepts
  BY <1>1, ProbeOfFacts, OwnProbe, AcceptsFacts
<1> QED
  BY <1>1, <1>2, <1>4, <1>5

\* The entry the gate finds is one the matcher holds, and takes the
\* candidate's probe.
LEMMA SubsumingFacts ==
  ASSUME NEW ts \in Seq(Template), NEW m \in SUBSET DOMAIN ts,
         NEW c \in Template, NEW i \in Subsuming(ts, m, c)
  PROVE  /\ i \in m
         /\ ts[i] \in Template
         /\ <<ts[i].text, ProbeOf[c.text]>> \in Accepts
<1>1. ProbeOf[c.text] \in Lines
  BY ProbeOfFacts DEF Template
<1>2. i \in m /\ <<ts[i].text, ProbeOf[c.text]>> \in Accepts
  BY <1>1, BestMatches DEF Subsuming
<1> QED
  BY <1>2

\* What Decide's guard means: the candidate's ID is fresh, and the matcher
\* consulted holds the live entries.
LEMMA DecideFacts ==
  ASSUME IInv, NEW c \in Template, Decide(c)
  PROVE  /\ c \in Template
         /\ TemplateID(c) \in IDs
         /\ TemplateID(c) \notin EntryIDs(templates)
         /\ TemplateID(c) \notin DOMAIN aliases
         /\ Current = Live(templates, aliases)
         /\ Live(templates, aliases) \in SUBSET DOMAIN templates
         /\ templates \in Seq(Template)
<1>1. c \in Template
  BY CatalogAssumption
<1>2. pc = "gating" /\ ~Known(c)
  BY DEF Decide, New, Take
<1>3. TemplateID(c) \notin EntryIDs(templates) /\ TemplateID(c) \notin DOMAIN aliases
  BY <1>2 DEF Known, IInv, GateSeesCatalog
<1>4. Current = Live(templates, aliases)
  BY <1>2 DEF Current, IInv, GateSeesCatalog, TypeOK
<1>5. Live(templates, aliases) \in SUBSET DOMAIN templates
  BY DEF Live
<1>6. templates \in Seq(Template)
  BY DEF IInv, TypeOK
<1> QED
  BY <1>1, <1>3, <1>4, <1>5, <1>6, TemplateFacts

-----------------------------------------------------------------------------
(* The initial catalog, and the steps that leave the catalog alone.        *)

LEMMA InitIInv == Init => IInv
<1> SUFFICES ASSUME Init PROVE IInv
  OBVIOUS
<1>1. TypeOK
  <2>1. aliases = [id \in {} |-> id]
    BY DEF Init, NoAliases
  <2>2. DOMAIN aliases = {} /\ aliases \in [DOMAIN aliases -> IDs]
    BY <2>1
  <2>3. templates \in Seq(Template)
    BY CatalogAssumption DEF Init
  <2>4. dirty \in BOOLEAN
    BY DEF Init
  <2>5. count \in 0..MaxOffered
    BY CatalogAssumption DEF Init
  <2>6. byID \subseteq IDs /\ matcher \subseteq DOMAIN templates
    BY DEF Init
  <2>7. pc \in {"idle", "gating", "failed"} /\ offered \subseteq IDs
    BY DEF Init
  <2> QED
    BY <2>2, <2>3, <2>4, <2>5, <2>6, <2>7 DEF TypeOK
<1>2. UniqueIDs
  BY CatalogAssumption DEF Init, UniqueIDs
<1>3. DOMAIN aliases = {} /\ offered = {} /\ pc = "idle"
  BY DEF Init, NoAliases
<1> QED
  BY <1>1, <1>2, <1>3 DEF IInv, GateSeesCatalog, AliasesResolve,
     OnlyMinedRetired, MinedTargetsTake, ProbesKeepShape, DecisionsRemembered

\* The invariants of the catalog alone depend on templates and aliases only.
LEMMA CatalogUnchanged ==
  ASSUME IInv, UNCHANGED <<templates, aliases>>,
         TypeOK', GateSeesCatalog', DecisionsRemembered'
  PROVE  IInv'
<1>1. UniqueIDs'
  BY DEF IInv, UniqueIDs
<1>2. AliasesResolve'
  BY DEF IInv, AliasesResolve
<1>3. OnlyMinedRetired'
  BY DEF IInv, OnlyMinedRetired, Entry
<1>4. MinedTargetsTake'
  BY DEF IInv, MinedTargetsTake, Entry
<1>5. ProbesKeepShape'
  BY DEF IInv, ProbesKeepShape
<1> QED
  BY <1>1, <1>2, <1>3, <1>4, <1>5 DEF IInv

-----------------------------------------------------------------------------
(* The three decisions.                                                    *)

\* What admitting an entry does, with or without a retirement.
LEMMA AddEntryFacts ==
  ASSUME IInv, NEW c \in Template, Decide(c), AddEntry(c),
         DOMAIN aliases' \subseteq IDs, aliases' \in [DOMAIN aliases' -> IDs]
  PROVE  LET n == Len(templates) + 1
         IN  /\ DOMAIN templates' = DOMAIN templates \cup {n}
             /\ n \notin DOMAIN templates
             /\ templates'[n] = c
             /\ \A i \in DOMAIN templates : templates'[i] = templates[i]
             /\ EntryIDs(templates)' = EntryIDs(templates) \cup {TemplateID(c)}
             /\ TypeOK' /\ UniqueIDs' /\ GateSeesCatalog'
<1> DEFINE n == Len(templates) + 1
<1>1. /\ c \in Template /\ TemplateID(c) \in IDs
      /\ TemplateID(c) \notin EntryIDs(templates)
      /\ Current \in SUBSET DOMAIN templates
      /\ templates \in Seq(Template)
  BY DecideFacts
<1>2. /\ templates' \in Seq(Template)
      /\ DOMAIN templates' = DOMAIN templates \cup {n}
      /\ n \notin DOMAIN templates
      /\ templates'[n] = c
      /\ \A i \in DOMAIN templates : templates'[i] = templates[i]
      /\ EntryIDs(templates)' = EntryIDs(templates) \cup {TemplateID(c)}
  <2>1. templates' = Append(templates, c)
    BY DEF AddEntry
  <2>2. EntryIDs(templates)' = EntryIDs(templates')
    BY DEF EntryIDs
  <2> QED
    BY <1>1, <2>1, <2>2, AppendFacts
<1>3. TypeOK'
  <2>1. byID' \subseteq IDs /\ offered' \subseteq IDs
    BY <1>1 DEF IInv, TypeOK, AddEntry, Decide
  <2>2. matcher' \subseteq DOMAIN templates'
    BY <1>1, <1>2 DEF Decide
  <2>3. dirty' \in BOOLEAN /\ pc' \in {"idle", "gating", "failed"}
    BY DEF AddEntry, Decide, IInv, TypeOK
  <2>4. count' \in 0..MaxOffered
    BY CatalogAssumption DEF Decide, New, Take, IInv, TypeOK
  <2> QED
    BY <1>2, <2>1, <2>2, <2>3, <2>4 DEF TypeOK
<1>4. UniqueIDs'
  BY <1>1, <1>2 DEF IInv, UniqueIDs, EntryIDs
<1>5. GateSeesCatalog'
  <2>1. dirty' = TRUE
    BY DEF AddEntry
  <2>2. byID' = EntryIDs(templates)'
    BY <1>2 DEF AddEntry, Decide, New, Take, IInv, GateSeesCatalog
  <2> QED
    BY <2>1, <2>2 DEF GateSeesCatalog
<1> QED
  BY <1>2, <1>3, <1>4, <1>5

\* An alias leads to an entry of the catalog, which the new entry is not.
LEMMA TargetsKept ==
  ASSUME IInv, NEW c \in Template, Decide(c), AddEntry(c),
         DOMAIN aliases' \subseteq IDs, aliases' \in [DOMAIN aliases' -> IDs],
         NEW id \in DOMAIN aliases
  PROVE  /\ aliases[id] # TemplateID(c)
         /\ \A j \in DOMAIN templates' :
               TemplateID(templates'[j]) = aliases[id] => j \in Entry(aliases[id])
<1>1. aliases[id] \in EntryIDs(templates) /\ TemplateID(c) \notin EntryIDs(templates)
  BY DecideFacts DEF IInv, AliasesResolve
<1> QED
  BY <1>1, AddEntryFacts DEF Entry

LEMMA AdmitIInv == ASSUME IInv, NEW c \in Template, Admit(c) PROVE IInv'
<1>1. Decide(c) /\ AddEntry(c) /\ aliases' = aliases
  BY DEF Admit
<1>2. aliases' \in [DOMAIN aliases' -> IDs] /\ DOMAIN aliases' \subseteq IDs
  BY <1>1 DEF IInv, TypeOK
<1>3. TemplateID(c) \notin DOMAIN aliases
  BY <1>1, DecideFacts
<1>4. AliasesResolve'
  BY <1>1, <1>2, AddEntryFacts DEF IInv, AliasesResolve
<1>5. OnlyMinedRetired'
  BY <1>1, <1>2, <1>3, AddEntryFacts, TargetsKept DEF IInv, OnlyMinedRetired, Entry
<1>6. MinedTargetsTake'
  BY <1>1, <1>2, AddEntryFacts, TargetsKept DEF IInv, MinedTargetsTake, Entry
<1>7. ProbesKeepShape'
  BY <1>1, <1>2, AddEntryFacts DEF IInv, ProbesKeepShape
<1>8. DecisionsRemembered'
  BY <1>1, <1>2, AddEntryFacts DEF IInv, DecisionsRemembered, Decide
<1> QED
  BY <1>1, <1>2, AddEntryFacts, <1>4, <1>5, <1>6, <1>7, <1>8 DEF IInv

LEMMA SupersedeIInv == ASSUME IInv, NEW c \in Template, Supersede(c) PROVE IInv'
<1>1. Decide(c) /\ AddEntry(c)
  BY DEF Supersede
<1>2. PICK i \in Subsuming(templates, Current, c) :
         /\ Supersedes(c, templates[i])
         /\ aliases' = Repoint(aliases, TemplateID(templates[i]), TemplateID(c))
  BY DEF Supersede
<1> DEFINE retired == TemplateID(templates[i])
           new     == TemplateID(c)
<1>3. /\ c \in Template /\ new \in IDs
      /\ new \notin EntryIDs(templates) /\ new \notin DOMAIN aliases
  BY <1>1, DecideFacts
<1>4. /\ i \in DOMAIN templates /\ templates[i] \in Template
      /\ <<templates[i].text, ProbeOf[c.text]>> \in Accepts
      /\ retired \in EntryIDs(templates) /\ retired \in IDs
  BY <1>1, <1>2, DecideFacts, SubsumingFacts, TemplateFacts DEF EntryIDs
<1>5. /\ DOMAIN aliases' = DOMAIN aliases \cup {retired}
      /\ \A id \in DOMAIN aliases' :
            \/ aliases'[id] = new /\ (id = retired \/ aliases[id] = retired)
            \/ /\ id \in DOMAIN aliases /\ aliases[id] # retired
               /\ aliases'[id] = aliases[id]
  BY <1>2 DEF Repoint
<1>6. aliases' \in [DOMAIN aliases' -> IDs] /\ DOMAIN aliases' \subseteq IDs
  <2>1. aliases' \in [DOMAIN aliases \cup {retired} -> IDs]
    BY <1>2, <1>3 DEF Repoint, IInv, TypeOK
  <2> QED
    BY <2>1, <1>4, <1>5 DEF IInv, TypeOK
<1>7. AliasesResolve'
  BY <1>1, <1>3, <1>4, <1>5, <1>6, AddEntryFacts DEF IInv, AliasesResolve
<1>8. OnlyMinedRetired'
  <2> SUFFICES ASSUME NEW k \in DOMAIN templates',
                      TemplateID(templates'[k]) \in DOMAIN aliases'
               PROVE  /\ templates'[k].lib = Mined
                      /\ \A j \in DOMAIN templates' :
                            TemplateID(templates'[j]) = aliases'[TemplateID(templates'[k])]
                               => templates'[j].lib # Mined
    BY DEF OnlyMinedRetired, Entry
  <2> DEFINE id == TemplateID(templates'[k])
  <2>1. k \in DOMAIN templates /\ templates'[k] = templates[k]
    <3>1. new \notin DOMAIN aliases'
      BY <1>3, <1>4, <1>5
    <3> QED
      BY <3>1, <1>1, <1>6, AddEntryFacts
  <2>2. templates[k].lib = Mined
    <3>1. CASE id \in DOMAIN aliases
      BY <3>1, <2>1 DEF IInv, OnlyMinedRetired
    <3>2. CASE id = retired
      BY <3>2, <2>1, <1>2, <1>4 DEF IInv, UniqueIDs, Supersedes
    <3> QED
      BY <3>1, <3>2, <1>5
  <2>3. ASSUME NEW j \in DOMAIN templates', TemplateID(templates'[j]) = aliases'[id]
        PROVE  templates'[j].lib # Mined
    <3>1. CASE aliases'[id] = new
      <4>1. j \notin DOMAIN templates
        BY <3>1, <2>3, <1>1, <1>3, <1>6, AddEntryFacts DEF EntryIDs
      <4>2. templates'[j] = c
        BY <4>1, <1>1, <1>6, AddEntryFacts
      <4> QED
        BY <4>2, <1>2 DEF Supersedes
    <3>2. CASE id \in DOMAIN aliases /\ aliases'[id] = aliases[id]
      <4>1. j \in Entry(aliases[id])
        BY <3>2, <2>3, <1>1, <1>6, TargetsKept
      <4>2. templates[j].lib # Mined
        BY <4>1, <3>2, <2>1 DEF IInv, OnlyMinedRetired
      <4>3. templates'[j] = templates[j]
        BY <4>1, <1>1, <1>6, AddEntryFacts DEF Entry
      <4> QED
        BY <4>2, <4>3
    <3> QED
      BY <3>1, <3>2, <1>5
  <2> QED
    BY <2>1, <2>2, <2>3
<1>9. MinedTargetsTake'
  <2> SUFFICES ASSUME NEW id \in DOMAIN aliases', NEW j \in DOMAIN templates',
                      TemplateID(templates'[j]) = aliases'[id],
                      templates'[j].lib = Mined
               PROVE  <<templates'[j].text, ProbeOf[id[2]]>> \in Accepts
    BY DEF MinedTargetsTake, Entry
  <2>1. aliases'[id] # new
    <3>1. SUFFICES ASSUME aliases'[id] = new PROVE FALSE
      OBVIOUS
    <3>2. j \notin DOMAIN templates
      BY <3>1, <1>1, <1>3, <1>6, AddEntryFacts DEF EntryIDs
    <3>3. templates'[j] = c
      BY <3>2, <1>1, <1>6, AddEntryFacts
    <3> QED
      BY <3>3, <1>2 DEF Supersedes
  <2>2. id \in DOMAIN aliases /\ aliases'[id] = aliases[id]
    BY <2>1, <1>5
  <2>3. j \in Entry(aliases[id])
    BY <2>2, <1>1, <1>6, TargetsKept
  <2>4. templates'[j] = templates[j]
    BY <2>3, <1>1, <1>6, AddEntryFacts DEF Entry
  <2> QED
    BY <2>2, <2>3, <2>4 DEF IInv, MinedTargetsTake
<1>10. ProbesKeepShape'
  <2> SUFFICES ASSUME NEW id \in DOMAIN aliases'
               PROVE  \E k \in DOMAIN templates' :
                         /\ <<templates'[k].text, ProbeOf[id[2]]>> \in Accepts
                         /\ <<templates'[k].text, ProbeOf[aliases'[id][2]]>> \in Accepts
    BY DEF ProbesKeepShape
  <2>1. i \in DOMAIN templates' /\ templates'[i] = templates[i]
    BY <1>1, <1>4, <1>6, AddEntryFacts
  <2>2. new[2] = c.text
    BY <1>3, TemplateFacts
  <2>3. CASE aliases'[id] = new /\ id = retired
    <3>1. <<templates[i].text, ProbeOf[id[2]]>> \in Accepts
      BY <2>3, <1>4, TemplateFacts
    <3> QED
      BY <3>1, <2>1, <2>2, <2>3, <1>4
  <2>4. CASE aliases'[id] = new /\ id \in DOMAIN aliases /\ aliases[id] = retired
    <3>1. <<templates[i].text, ProbeOf[id[2]]>> \in Accepts
      BY <2>4, <1>2, <1>4 DEF IInv, MinedTargetsTake, Entry, Supersedes
    <3> QED
      BY <3>1, <2>1, <2>2, <2>4, <1>4
  <2>5. CASE id \in DOMAIN aliases /\ aliases'[id] = aliases[id]
    BY <2>5, <1>1, <1>6, AddEntryFacts DEF IInv, ProbesKeepShape
  <2> QED
    BY <2>3, <2>4, <2>5, <1>5
<1>11. DecisionsRemembered'
  BY <1>1, <1>5, <1>6, AddEntryFacts DEF IInv, DecisionsRemembered, Decide
<1> QED
  BY <1>1, <1>6, AddEntryFacts, <1>7, <1>8, <1>9, <1>10, <1>11 DEF IInv

LEMMA AliasIInv == ASSUME IInv, NEW c \in Template, Alias(c) PROVE IInv'
<1>1. Decide(c) /\ UNCHANGED <<templates, byID>> /\ dirty' = FALSE
  BY DEF Alias
<1>2. PICK i \in Subsuming(templates, Current, c) :
         aliases' = AliasTo(aliases, TemplateID(c), TemplateID(templates[i]))
  BY DEF Alias
<1> DEFINE new       == TemplateID(c)
           canonical == TemplateID(templates[i])
<1>3. /\ c \in Template /\ new \in IDs /\ new[2] = c.text
      /\ new \notin EntryIDs(templates) /\ new \notin DOMAIN aliases
      /\ Current = Live(templates, aliases)
  BY <1>1, DecideFacts, TemplateFacts
<1>4. /\ i \in DOMAIN templates /\ templates[i] \in Template
      /\ <<templates[i].text, ProbeOf[c.text]>> \in Accepts
      /\ <<templates[i].text, ProbeOf[templates[i].text]>> \in Accepts
      /\ canonical \in EntryIDs(templates) /\ canonical \in IDs
      /\ canonical[2] = templates[i].text
      /\ canonical \notin DOMAIN aliases
  <2>1. i \in Live(templates, aliases) /\ templates[i] \in Template
        /\ <<templates[i].text, ProbeOf[c.text]>> \in Accepts
    BY <1>1, <1>2, <1>3, DecideFacts, SubsumingFacts
  <2> QED
    BY <2>1, TemplateFacts DEF Live, EntryIDs
<1>5. /\ DOMAIN aliases' = DOMAIN aliases \cup {new}
      /\ aliases'[new] = canonical
      /\ \A id \in DOMAIN aliases : aliases'[id] = aliases[id]
  BY <1>2, <1>3 DEF AliasTo
<1>6. TypeOK'
  <2>1. aliases' \in [DOMAIN aliases \cup {new} -> IDs]
    BY <1>2, <1>3, <1>4 DEF AliasTo, IInv, TypeOK
  <2>2. aliases' \in [DOMAIN aliases' -> IDs] /\ DOMAIN aliases' \subseteq IDs
    BY <2>1, <1>3, <1>5 DEF IInv, TypeOK
  <2>3. matcher' \subseteq DOMAIN templates' /\ offered' \subseteq IDs
    BY <1>1, <1>3 DEF Decide, Live, IInv, TypeOK
  <2>4. dirty' \in BOOLEAN /\ pc' \in {"idle", "gating", "failed"}
    BY <1>1 DEF Decide, IInv, TypeOK
  <2>5. count' \in 0..MaxOffered
    BY <1>1, CatalogAssumption DEF Decide, New, Take, IInv, TypeOK
  <2>6. templates' \in Seq(Template) /\ byID' \subseteq IDs
    BY <1>1 DEF IInv, TypeOK
  <2> QED
    BY <2>2, <2>3, <2>4, <2>5, <2>6 DEF TypeOK
<1>7. UniqueIDs'
  BY <1>1 DEF IInv, UniqueIDs
<1>8. EntryIDs(templates)' = EntryIDs(templates)
  BY <1>1 DEF EntryIDs
<1>9. GateSeesCatalog'
  <2>1. matcher' = Live(templates, aliases)
    BY <1>1, <1>3 DEF Decide
  <2>2. Live(templates, aliases)' = Live(templates, aliases)
    BY <1>1, <1>3, <1>5 DEF Live, EntryIDs
  <2>3. byID' = EntryIDs(templates)'
    BY <1>1, <1>8 DEF Decide, New, Take, IInv, GateSeesCatalog
  <2> QED
    BY <2>1, <2>2, <2>3 DEF GateSeesCatalog
<1>10. AliasesResolve'
  BY <1>3, <1>4, <1>5, <1>8 DEF IInv, AliasesResolve
<1>11. OnlyMinedRetired'
  BY <1>1, <1>3, <1>5 DEF IInv, OnlyMinedRetired, Entry, EntryIDs
<1>12. MinedTargetsTake'
  <2> SUFFICES ASSUME NEW id \in DOMAIN aliases', NEW j \in DOMAIN templates,
                      TemplateID(templates[j]) = aliases'[id],
                      templates[j].lib = Mined
               PROVE  <<templates[j].text, ProbeOf[id[2]]>> \in Accepts
    BY <1>1 DEF MinedTargetsTake, Entry
  <2>1. CASE id = new
    BY <2>1, <1>3, <1>4, <1>5 DEF IInv, UniqueIDs
  <2>2. CASE id \in DOMAIN aliases
    BY <2>2, <1>5 DEF IInv, MinedTargetsTake, Entry
  <2> QED
    BY <2>1, <2>2, <1>5
<1>13. ProbesKeepShape'
  BY <1>1, <1>3, <1>4, <1>5 DEF IInv, ProbesKeepShape
<1>14. DecisionsRemembered'
  BY <1>1, <1>5, <1>8 DEF IInv, DecisionsRemembered, Decide
<1> QED
  BY <1>6, <1>7, <1>9, <1>10, <1>11, <1>12, <1>13, <1>14 DEF IInv

-----------------------------------------------------------------------------

\* One step of the gate, on candidates from anywhere.
GateStep ==
    \/ Begin \/ Refuse \/ Return
    \/ \E c \in Template :
          \/ SkipUnusable(c) \/ SkipKnown(c) \/ RebuildFails(c)
          \/ Admit(c) \/ Supersede(c) \/ Alias(c)

LEMMA StepIInv == ASSUME IInv, [GateStep]_vars PROVE IInv'
<1> USE DEF IInv
<1>1. CASE Begin
  <2>1. TypeOK'
    <3>1. EntryIDs(templates) \subseteq IDs
      <4>1. \A i \in DOMAIN templates : templates[i] \in Template
        BY DEF TypeOK
      <4>2. \A i \in DOMAIN templates : TemplateID(templates[i]) \in IDs
        BY <4>1, TemplateFacts
      <4> QED
        BY <4>2 DEF EntryIDs
    <3>2. Live(templates, aliases) \subseteq DOMAIN templates
      BY DEF Live
    <3> QED
      BY <3>1, <3>2, <1>1 DEF Begin, TypeOK
  <2>2. GateSeesCatalog' /\ DecisionsRemembered'
    BY <1>1 DEF Begin, GateSeesCatalog, DecisionsRemembered, Live, EntryIDs
  <2> QED
    BY <2>1, <2>2, <1>1, CatalogUnchanged DEF Begin
<1>2. CASE Refuse
  BY <1>2, CatalogUnchanged
     DEF Refuse, TypeOK, GateSeesCatalog, DecisionsRemembered, EntryIDs
<1>3. CASE Return
  BY <1>3, CatalogUnchanged
     DEF Return, TypeOK, GateSeesCatalog, DecisionsRemembered, EntryIDs
<1>4. ASSUME NEW c \in Template, SkipUnusable(c) PROVE IInv'
  <2>1. TypeOK'
    BY <1>4, CatalogAssumption DEF SkipUnusable, Take, TypeOK
  <2> QED
    BY <2>1, <1>4, CatalogUnchanged
       DEF SkipUnusable, GateSeesCatalog, DecisionsRemembered, EntryIDs, Live
<1>5. ASSUME NEW c \in Template, SkipKnown(c) PROVE IInv'
  <2>1. TypeOK'
    <3>1. TemplateID(c) \in IDs
      BY CatalogAssumption, TemplateFacts
    <3>2. count' \in 0..MaxOffered
      BY <1>5, CatalogAssumption DEF SkipKnown, Take, TypeOK
    <3> QED
      BY <3>1, <3>2, <1>5 DEF SkipKnown, TypeOK
  <2>2. DecisionsRemembered'
    BY <1>5 DEF SkipKnown, Take, Known, GateSeesCatalog, DecisionsRemembered, EntryIDs
  <2> QED
    BY <2>1, <2>2, <1>5, CatalogUnchanged
       DEF SkipKnown, GateSeesCatalog, EntryIDs, Live
<1>6. ASSUME NEW c \in Template, RebuildFails(c) PROVE IInv'
  <2>1. TypeOK'
    BY <1>6, CatalogAssumption DEF RebuildFails, New, Take, TypeOK
  <2> QED
    BY <2>1, <1>6, CatalogUnchanged
       DEF RebuildFails, GateSeesCatalog, DecisionsRemembered, EntryIDs
<1>7. CASE UNCHANGED vars
  BY <1>7, CatalogUnchanged
     DEF vars, TypeOK, GateSeesCatalog, DecisionsRemembered, EntryIDs, Live
<1> QED
  BY <1>1, <1>2, <1>3, <1>4, <1>5, <1>6, <1>7, AdmitIInv, SupersedeIInv, AliasIInv
     DEF GateStep

LEMMA NextIInv == IInv /\ [Next]_vars => IInv'
<1>1. Candidates \subseteq Template
  BY CatalogAssumption
<1>2. Next => GateStep
  BY <1>1 DEF Next, GateStep
<1> QED
  BY <1>2, StepIInv

LEMMA IInvHolds == Spec => []IInv
BY InitIInv, NextIInv, PTL DEF Spec

(***************************************************************************)
(* The catalog and the gate's bookkeeping keep their shape.                *)
(***************************************************************************)
THEOREM CatalogTyped == Spec => []TypeOK
<1>1. IInv => TypeOK
  BY DEF IInv
<1> QED
  BY <1>1, IInvHolds, PTL

(***************************************************************************)
(* template.go's promise, "old references keep resolving": every alias     *)
(* leads in one hop to a live entry.                                       *)
(***************************************************************************)
THEOREM OldReferencesResolve == Spec => []AliasesResolve
<1>1. IInv => AliasesResolve
  BY DEF IInv
<1> QED
  BY <1>1, IInvHolds, PTL

(***************************************************************************)
(* The gate decides every candidate on the catalog as it stands, within a  *)
(* batch too.                                                              *)
(***************************************************************************)
THEOREM GateNeverStale == Spec => []GateSeesCatalog
<1>1. IInv => GateSeesCatalog
  BY DEF IInv
<1> QED
  BY <1>1, IInvHolds, PTL

(***************************************************************************)
(* Only mined entries retire, and only in favour of scanned ones.          *)
(***************************************************************************)
THEOREM ScannedNeverRetired == Spec => []OnlyMinedRetired
<1>1. IInv => OnlyMinedRetired
  BY DEF IInv
<1> QED
  BY <1>1, IInvHolds, PTL

(***************************************************************************)
(* Promoting again what was promoted before changes nothing (README).      *)
(***************************************************************************)
THEOREM PromotionIdempotent == Spec => []DecisionsRemembered
<1>1. IInv => DecisionsRemembered
  BY DEF IInv
<1> QED
  BY <1>1, IInvHolds, PTL

(***************************************************************************)
(* An alias and its canonical template have an entry in common that takes  *)
(* the probes of both, and covers both if it is opaque.                    *)
(***************************************************************************)
LEMMA ShapeFacts ==
  ASSUME IInv, NEW id \in DOMAIN aliases
  PROVE  \E i \in DOMAIN templates :
            /\ templates[i].text \in Texts
            /\ \A text \in {id[2], aliases[id][2]} :
                  text \in Texts /\ <<templates[i].text, ProbeOf[text]>> \in Accepts
<1>1. PICK i \in DOMAIN templates : \A text \in {id[2], aliases[id][2]} :
         <<templates[i].text, ProbeOf[text]>> \in Accepts
  BY DEF IInv, ProbesKeepShape
<1>2. id \in IDs /\ aliases[id] \in IDs /\ templates[i] \in Template
  BY DEF IInv, TypeOK
<1>3. id[2] \in Texts /\ aliases[id][2] \in Texts /\ templates[i].text \in Texts
  BY <1>2, TemplateFacts DEF IDs
<1> QED
  BY <1>1, <1>3

THEOREM AliasesKeepShape == Spec => []AliasKeepsShape
<1>1. IInv => AliasKeepsShape
  BY ShapeFacts, OpaqueAccepts DEF AliasKeepsShape
<1> QED
  BY <1>1, IInvHolds, PTL

(***************************************************************************)
(* The same in terms of lines of any length: for every alias the catalog   *)
(* has an entry whose pattern takes what the gate makes of either side,    *)
(* and if it is opaque it matches every line that the aliased template or  *)
(* the canonical one matches.                                              *)
(***************************************************************************)
OneEntryForBoth ==
    \A id \in DOMAIN aliases : \E i \in DOMAIN templates :
        \A text \in {id[2], aliases[id][2]} :
            /\ Matches(templates[i].text, Probe(text))
            /\ Opaque(templates[i].text) =>
                  \A l \in Text : Matches(text, l) => Matches(templates[i].text, l)

THEOREM AliasedLinesStayInOneShape == Spec => []OneEntryForBoth
<1>1. IInv => OneEntryForBoth
  <2> SUFFICES ASSUME IInv, NEW id \in DOMAIN aliases
               PROVE  \E i \in DOMAIN templates :
                         \A text \in {id[2], aliases[id][2]} :
                            /\ Matches(templates[i].text, Probe(text))
                            /\ Opaque(templates[i].text) =>
                                  \A l \in Text : Matches(text, l) => Matches(templates[i].text, l)
    BY DEF OneEntryForBoth
  <2>1. PICK i \in DOMAIN templates :
          /\ templates[i].text \in Texts
          /\ \A text \in {id[2], aliases[id][2]} :
                text \in Texts /\ <<templates[i].text, ProbeOf[text]>> \in Accepts
    BY ShapeFacts
  <2>2. ASSUME NEW text \in {id[2], aliases[id][2]}
        PROVE  /\ text \in Text /\ templates[i].text \in Text
               /\ Matches(templates[i].text, Probe(text))
    BY <2>1, ProbeOfFacts, AcceptsFacts
  <2> QED
    BY <2>2, SubsumptionSound
<1> QED
  BY <1>1, IInvHolds, PTL

(***************************************************************************)
(* "Candidates that duplicate or are subsumed by existing entries don't    *)
(* get in" (README), as a property of every step: by MatchComplete a gate  *)
(* that finds nothing has missed nothing, and what the gate admits over an *)
(* entry that takes its probe is a scanned template, for which that entry  *)
(* retires.                                                                *)
(***************************************************************************)
LEMMA NothingFoundNothingTakes ==
  ASSUME IInv, NEW c \in Template, Decide(c)
  PROVE  Subsuming(templates, Current, c) = {} =>
            \A i \in Live(templates, aliases) :
               <<templates[i].text, ProbeOf[c.text]>> \notin Accepts
<1>1. ProbeOf[c.text] \in Lines
  BY ProbeOfFacts DEF Template
<1> QED
  BY <1>1, DecideFacts, MatchComplete DEF Subsuming

THEOREM CoveredStaysOut == Spec => NothingCoveredGetsIn
<1> DEFINE Out ==
      \A n \in DOMAIN templates' \ DOMAIN templates :
         LET taking == {i \in Live(templates, aliases) :
                           <<templates[i].text, ProbeOf[templates'[n].text]>> \in Accepts}
         IN  taking # {} =>
                /\ templates'[n].lib # Mined
                /\ \E i \in taking : /\ templates[i].lib = Mined
                                     /\ i \notin Live(templates', aliases')
<1>1. ASSUME IInv, NEW c \in Template, Admit(c) PROVE Out
  <2>1. Decide(c) /\ AddEntry(c) /\ aliases' = aliases
    BY <1>1 DEF Admit
  <2>2. aliases' \in [DOMAIN aliases' -> IDs] /\ DOMAIN aliases' \subseteq IDs
    BY <1>1, <2>1 DEF IInv, TypeOK
  <2>3. \A i \in Live(templates, aliases) :
           <<templates[i].text, ProbeOf[c.text]>> \notin Accepts
    BY <1>1, <2>1, NothingFoundNothingTakes DEF Admit
  <2>4. \A n \in DOMAIN templates' \ DOMAIN templates : templates'[n] = c
    BY <1>1, <2>1, <2>2, AddEntryFacts
  <2> QED
    BY <2>3, <2>4
<1>2. ASSUME IInv, NEW c \in Template, Supersede(c) PROVE Out
  <2>1. Decide(c) /\ AddEntry(c)
    BY <1>2 DEF Supersede
  <2>2. PICK i \in Subsuming(templates, Current, c) :
           /\ Supersedes(c, templates[i])
           /\ aliases' = Repoint(aliases, TemplateID(templates[i]), TemplateID(c))
    BY <1>2 DEF Supersede
  <2>3. /\ c \in Template /\ templates \in Seq(Template)
        /\ i \in Live(templates, aliases) /\ i \in DOMAIN templates
        /\ <<templates[i].text, ProbeOf[c.text]>> \in Accepts
    BY <1>2, <2>1, <2>2, DecideFacts, SubsumingFacts DEF Live
  <2>4. templates' = Append(templates, c)
    BY <2>1 DEF AddEntry
  <2>5. /\ \A n \in DOMAIN templates' \ DOMAIN templates : templates'[n] = c
        /\ templates'[i] = templates[i]
    BY <2>3, <2>4, AppendFacts
  <2>6. i \notin Live(templates', aliases')
    BY <2>2, <2>5 DEF Live, Repoint
  <2> QED
    BY <2>2, <2>3, <2>5, <2>6 DEF Supersedes
<1>3. ASSUME templates' = templates PROVE Out
  BY <1>3
<1>4. IInv /\ [Next]_vars => [Out]_vars
  <2> SUFFICES ASSUME IInv, Next PROVE Out
    OBVIOUS
  <2> HIDE DEF Out
  <2>1. Candidates \subseteq Template
    BY CatalogAssumption
  <2> QED
    BY <1>1, <1>2, <1>3, <2>1 DEF Next, Begin, Refuse, Return, SkipUnusable, SkipKnown,
       RebuildFails, Alias
<1> QED
  BY <1>4, IInvHolds, PTL DEF Spec, NothingCoveredGetsIn

(***************************************************************************)
(* The catalog implements the table of references: admitting enters an     *)
(* entry, aliasing joins an ID to one, superseding takes one over.         *)
(***************************************************************************)
LEMMA TableOf ==
  ASSUME NEW ts \in Seq(Template)
  PROVE  /\ [i \in DOMAIN ts |-> TableEntry(ts[i])] \in Seq(Table!Entries)
         /\ \A i \in DOMAIN ts : TableEntry(ts[i]).id = TemplateID(ts[i])
         /\ \A i \in DOMAIN ts : TableEntry(ts[i]).final = (ts[i].lib # Mined)
<1>1. ASSUME NEW i \in DOMAIN ts PROVE TableEntry(ts[i]) \in Table!Entries
  <2>1. ts[i] \in Template
    OBVIOUS
  <2>2. TemplateID(ts[i]) \in IDs
    BY <2>1, TemplateFacts
  <2> QED
    BY <2>2 DEF TableEntry, Table!Entries
<1>2. DOMAIN ts = 1..Len(ts) /\ Len(ts) \in Nat
  OBVIOUS
<1>3. [i \in DOMAIN ts |-> TableEntry(ts[i])] \in [1..Len(ts) -> Table!Entries]
  BY <1>1, <1>2
<1>4. [i \in DOMAIN ts |-> TableEntry(ts[i])] \in Seq(Table!Entries)
  BY <1>2, <1>3
<1> QED
  BY <1>4 DEF TableEntry

LEMMA InitMaps == Init => Table!Init
<1> SUFFICES ASSUME Init PROVE Table!Init
  OBVIOUS
<1>1. templates \in Seq(Template) /\ aliases = NoAliases
  BY CatalogAssumption DEF Init
<1>2. DOMAIN TableEntries = DOMAIN templates
  BY DEF TableEntries
<1>3. \A i \in DOMAIN templates : TableEntries[i].id = TemplateID(templates[i])
  BY <1>1, TableOf DEF TableEntries
<1>4. TableEntries \in Seq(Table!Entries)
  BY <1>1, TableOf DEF TableEntries
<1>5. \A i, j \in DOMAIN TableEntries : TableEntries[i].id = TableEntries[j].id => i = j
  BY <1>2, <1>3, CatalogAssumption DEF Init
<1>6. Table!IdsOf(TableEntries) = EntryIDs(templates)
  BY <1>2, <1>3 DEF Table!IdsOf, EntryIDs
<1>7. DOMAIN aliases = {}
  BY <1>1 DEF NoAliases
<1>8. Resolution = Table!OwnID(TableEntries)
  BY <1>6, <1>7 DEF Resolution, Table!OwnID, Resolve
<1> QED
  BY <1>4, <1>5, <1>8 DEF Table!Init

\* A new entry makes the table of entries longer by one.
LEMMA AppendMaps ==
  ASSUME IInv, NEW c \in Template, AddEntry(c)
  PROVE  TableEntries' = Append(TableEntries, TableEntry(c))
<1>1. templates \in Seq(Template) /\ templates' = Append(templates, c)
  BY DEF IInv, TypeOK, AddEntry
<1>2. /\ DOMAIN templates' = 1..(Len(templates) + 1)
      /\ DOMAIN templates = 1..Len(templates)
      /\ Len(templates) \in Nat
      /\ \A i \in 1..Len(templates) : templates'[i] = templates[i]
      /\ templates'[Len(templates) + 1] = c
  BY <1>1
<1>3. TableEntries \in Seq(Table!Entries) /\ TableEntry(c) \in Table!Entries
  BY <1>1, TableOf, TemplateFacts DEF TableEntries, TableEntry, Table!Entries
<1>4. DOMAIN TableEntries = 1..Len(templates) /\ Len(TableEntries) = Len(templates)
  BY <1>2, <1>3 DEF TableEntries
<1>5. TableEntries' = [i \in 1..(Len(templates) + 1) |-> TableEntry(templates'[i])]
  BY <1>2 DEF TableEntries, TableEntry
<1>6. \A i \in 1..Len(templates) : TableEntries[i] = TableEntry(templates[i])
  BY <1>2 DEF TableEntries
<1>7. /\ Append(TableEntries, TableEntry(c)) \in
            [1..(Len(templates) + 1) -> Table!Entries]
      /\ \A i \in 1..(Len(templates) + 1) :
            Append(TableEntries, TableEntry(c))[i] =
              IF i = Len(templates) + 1 THEN TableEntry(c) ELSE TableEntries[i]
  <2> DEFINE a == Append(TableEntries, TableEntry(c))
  <2>1. /\ a \in Seq(Table!Entries) /\ Len(a) = Len(TableEntries) + 1
        /\ \A i \in 1..Len(TableEntries) : a[i] = TableEntries[i]
        /\ a[Len(TableEntries) + 1] = TableEntry(c)
    BY <1>3, AppendProperties
  <2>2. a \in [1..Len(a) -> Table!Entries]
    <3> HIDE DEF a
    <3> QED
      BY <2>1
  <2>3. Len(a) = Len(templates) + 1
    BY <1>4, <2>1
  <2> QED
    BY <1>2, <1>4, <2>1, <2>2, <2>3
<1>8. \A i \in 1..(Len(templates) + 1) :
        TableEntry(templates'[i]) =
          IF i = Len(templates) + 1 THEN TableEntry(c) ELSE TableEntries[i]
  BY <1>2, <1>6
<1> QED
  BY <1>5, <1>7, <1>8

\* A live entry stands in the table, under its own ID.
LEMMA LiveStands ==
  ASSUME IInv, NEW i \in Live(templates, aliases)
  PROVE  /\ i \in DOMAIN TableEntries
         /\ TableEntries[i].id = TemplateID(templates[i])
         /\ TableEntries[i].final = (templates[i].lib # Mined)
         /\ Table!Standing(i)
<1>1. i \in DOMAIN templates /\ TemplateID(templates[i]) \notin DOMAIN aliases
  BY DEF Live
<1>2. /\ DOMAIN TableEntries = DOMAIN templates
      /\ TableEntries[i].id = TemplateID(templates[i])
      /\ TableEntries[i].final = (templates[i].lib # Mined)
  BY <1>1, TableOf DEF TableEntries, IInv, TypeOK
<1>3. Resolution[TemplateID(templates[i])] = TemplateID(templates[i])
  BY <1>1 DEF Resolution, EntryIDs, Resolve
<1> QED
  BY <1>1, <1>2, <1>3 DEF Table!Standing

LEMMA AdmitMaps ==
  ASSUME IInv, NEW c \in Template, Admit(c) PROVE Table!Enter(TableEntry(c))
<1>1. c \in Template /\ Decide(c) /\ AddEntry(c) /\ aliases' = aliases
  BY DecideFacts DEF Admit
<1>2. /\ TemplateID(c) \notin EntryIDs(templates)
      /\ TemplateID(c) \notin DOMAIN aliases
  BY <1>1, DecideFacts
<1>3. EntryIDs(templates') = EntryIDs(templates) \cup {TemplateID(c)}
  BY <1>1, AppendFacts DEF AddEntry, IInv, TypeOK
<1>4. Resolution' =
        [k \in EntryIDs(templates) \cup {TemplateID(c)} \cup DOMAIN aliases |->
           Resolve(aliases, k)]
  BY <1>1, <1>3 DEF Resolution, Resolve
<1>5. Resolution' = [k \in DOMAIN Resolution \cup {TemplateID(c)} |->
                       IF k = TemplateID(c) THEN TemplateID(c) ELSE Resolution[k]]
  BY <1>2, <1>4 DEF Resolution, Resolve
<1>6. TableEntry(c).id = TemplateID(c) /\ TemplateID(c) \notin DOMAIN Resolution
  BY <1>2 DEF TableEntry, Resolution
<1> QED
  BY <1>1, <1>5, <1>6, AppendMaps DEF Table!Enter, Table!Fresh

LEMMA AliasMaps ==
  ASSUME IInv, NEW c \in Template, Alias(c)
  PROVE  \E i \in DOMAIN TableEntries : Table!Join(TemplateID(c), i)
<1>1. c \in Template /\ Decide(c) /\ templates' = templates
  BY DecideFacts DEF Alias
<1>2. /\ TemplateID(c) \notin EntryIDs(templates)
      /\ TemplateID(c) \notin DOMAIN aliases
  BY <1>1, DecideFacts
<1>3. PICK i \in Subsuming(templates, Current, c) :
         aliases' = AliasTo(aliases, TemplateID(c), TemplateID(templates[i]))
  BY DEF Alias
<1>4. i \in Live(templates, aliases)
  BY <1>1, <1>3, DecideFacts, SubsumingFacts
<1>5. Resolution' = [k \in EntryIDs(templates) \cup (DOMAIN aliases \cup {TemplateID(c)}) |->
                       Resolve(aliases', k)]
  BY <1>1, <1>3 DEF Resolution, Resolve, AliasTo
<1>6. \A k : Resolve(aliases', k) = IF k = TemplateID(c) THEN TemplateID(templates[i])
                                    ELSE Resolve(aliases, k)
  BY <1>2, <1>3 DEF Resolve, AliasTo
<1>7. Resolution' = [k \in DOMAIN Resolution \cup {TemplateID(c)} |->
                       IF k = TemplateID(c) THEN TemplateID(templates[i])
                       ELSE Resolution[k]]
  BY <1>2, <1>5, <1>6 DEF Resolution
<1>8. TemplateID(c) \notin DOMAIN Resolution
  BY <1>2 DEF Resolution
<1>9. TableEntries' = TableEntries
  BY <1>1 DEF TableEntries, TableEntry
<1> QED
  BY <1>4, <1>7, <1>8, <1>9, LiveStands DEF Table!Join, Table!Fresh

LEMMA SupersedeMaps ==
  ASSUME IInv, NEW c \in Template, Supersede(c)
  PROVE  \E i \in DOMAIN TableEntries : Table!TakeOver(TableEntry(c), i)
<1>1. c \in Template /\ Decide(c) /\ AddEntry(c)
  BY DecideFacts DEF Supersede
<1>2. /\ TemplateID(c) \notin EntryIDs(templates)
      /\ TemplateID(c) \notin DOMAIN aliases
  BY <1>1, DecideFacts
<1>3. PICK i \in Subsuming(templates, Current, c) :
         /\ Supersedes(c, templates[i])
         /\ aliases' = Repoint(aliases, TemplateID(templates[i]), TemplateID(c))
  BY DEF Supersede
<1> DEFINE old == TemplateID(templates[i])
           new == TemplateID(c)
<1>4. i \in Live(templates, aliases)
  BY <1>1, <1>3, DecideFacts, SubsumingFacts
<1>5. old \in EntryIDs(templates) /\ old \notin DOMAIN aliases /\ old # new
  BY <1>2, <1>4 DEF Live, EntryIDs
<1>6. EntryIDs(templates') = EntryIDs(templates) \cup {new}
  BY <1>1, AppendFacts DEF AddEntry, IInv, TypeOK
<1>7. DOMAIN Resolution' = DOMAIN Resolution \cup {new}
  BY <1>3, <1>5, <1>6 DEF Resolution, Repoint
<1>8. ASSUME NEW k \in DOMAIN Resolution \cup {new}
      PROVE  Resolution'[k] = IF k = new \/ Resolution[k] = old THEN new ELSE Resolution[k]
  <2>1. Resolution'[k] = Resolve(aliases', k)
    BY <1>7 DEF Resolution, Resolve
  <2>2. CASE k = new
    <3>1. new \notin DOMAIN aliases'
      BY <1>2, <1>3, <1>5 DEF Repoint
    <3> QED
      BY <2>1, <2>2, <3>1 DEF Resolve
  <2>3. CASE k # new
    <3>1. k \in DOMAIN Resolution /\ Resolution[k] = Resolve(aliases, k)
      BY <2>3 DEF Resolution
    <3>2. CASE k = old
      BY <1>3, <1>5, <2>1, <3>1, <3>2 DEF Resolve, Repoint
    <3>3. CASE k # old /\ k \in DOMAIN aliases
      BY <1>3, <2>1, <2>3, <3>1, <3>3 DEF Resolve, Repoint
    <3>4. CASE k # old /\ k \notin DOMAIN aliases
      BY <1>3, <2>1, <2>3, <3>1, <3>4 DEF Resolve, Repoint
    <3> QED
      BY <3>2, <3>3, <3>4
  <2> QED
    BY <2>2, <2>3
<1>9. Resolution' = [k \in DOMAIN Resolution \cup {new} |->
                       IF k = new \/ Resolution[k] = old THEN new ELSE Resolution[k]]
  BY <1>7, <1>8 DEF Resolution
<1>10. TableEntry(c).id = new /\ TableEntry(c).final /\ new \notin DOMAIN Resolution
  BY <1>2, <1>3 DEF TableEntry, Resolution, Supersedes
<1>11. /\ i \in DOMAIN TableEntries
       /\ TableEntries[i].id = old
       /\ ~TableEntries[i].final
       /\ Table!Standing(i)
  BY <1>3, <1>4, LiveStands DEF Supersedes
<1> QED
  BY <1>1, <1>9, <1>10, <1>11, AppendMaps DEF Table!TakeOver, Table!Fresh

LEMMA StepMaps == IInv /\ [Next]_vars => [Table!Next]_(Table!vars)
<1> SUFFICES ASSUME IInv, [Next]_vars PROVE Table!Next \/ UNCHANGED Table!vars
  OBVIOUS
<1>1. CASE UNCHANGED <<templates, aliases>>
  BY <1>1 DEF Table!vars, TableEntries, TableEntry, Resolution, Resolve
<1>2. CASE ~UNCHANGED <<templates, aliases>>
  <2>1. PICK c \in Candidates : Admit(c) \/ Supersede(c) \/ Alias(c)
    BY <1>2 DEF Next, vars, Begin, Refuse, Return, SkipUnusable, SkipKnown, RebuildFails
  <2>2. c \in Template /\ TemplateID(c) \in IDs /\ TableEntry(c) \in Table!Entries
    BY CatalogAssumption, TemplateFacts DEF TableEntry, Table!Entries
  <2>3. CASE Admit(c)
    BY <2>2, <2>3, AdmitMaps DEF Table!Next
  <2>4. CASE Supersede(c)
    BY <2>2, <2>4, SupersedeMaps DEF Table!Next
  <2>5. CASE Alias(c)
    BY <2>2, <2>5, AliasMaps DEF Table!Next
  <2> QED
    BY <2>1, <2>3, <2>4, <2>5
<1> QED
  BY <1>1, <1>2

THEOREM CatalogIsReferenceTable == Spec => ImplementsReferences
<1> QED
  BY InitMaps, StepMaps, IInvHolds, PTL DEF Spec, ImplementsReferences, Table!Spec

-----------------------------------------------------------------------------
(***************************************************************************)
(* What the table of references guarantees, and so the catalog: proved of  *)
(* any behaviour of Table!Spec.  An ID moves only when a provisional entry *)
(* is taken over, and an entry known to be final is not that one because   *)
(* no two entries share an ID.                                             *)
(***************************************************************************)
UniqueTableIDs ==
    \A i, j \in DOMAIN TableEntries : TableEntries[i].id = TableEntries[j].id => i = j

TableInv ==
    /\ TableEntries \in Seq(Table!Entries)
    /\ UniqueTableIDs
    /\ \A i \in DOMAIN TableEntries : TableEntries[i].id \in DOMAIN Resolution

LEMMA AppendedTableEntry ==
  ASSUME NEW e \in Table!Entries, TableInv, Table!Fresh(e.id),
         TableEntries' = Append(TableEntries, e)
  PROVE  /\ TableEntries' \in Seq(Table!Entries)
         /\ DOMAIN TableEntries' = DOMAIN TableEntries \cup {Len(TableEntries) + 1}
         /\ \A i \in DOMAIN TableEntries : TableEntries'[i] = TableEntries[i]
         /\ TableEntries'[Len(TableEntries) + 1] = e
         /\ UniqueTableIDs'
<1>1. /\ TableEntries' \in Seq(Table!Entries)
      /\ DOMAIN TableEntries' = DOMAIN TableEntries \cup {Len(TableEntries) + 1}
      /\ \A i \in DOMAIN TableEntries : TableEntries'[i] = TableEntries[i]
      /\ TableEntries'[Len(TableEntries) + 1] = e
  BY DEF TableInv
<1>2. \A i \in DOMAIN TableEntries : TableEntries[i].id # e.id
  BY DEF TableInv, Table!Fresh
<1> QED
  BY <1>1, <1>2 DEF TableInv, UniqueTableIDs

LEMMA TableInit == Table!Init => TableInv
  BY DEF Table!Init, TableInv, UniqueTableIDs, Table!OwnID, Table!IdsOf

LEMMA TableStep == TableInv /\ [Table!Next]_(Table!vars) => TableInv'
<1> SUFFICES ASSUME TableInv, [Table!Next]_(Table!vars) PROVE TableInv'
  OBVIOUS
<1>1. ASSUME NEW e \in Table!Entries, Table!Enter(e) PROVE TableInv'
  BY <1>1, AppendedTableEntry DEF Table!Enter, TableInv
<1>2. ASSUME NEW id \in IDs, NEW i \in DOMAIN TableEntries, Table!Join(id, i) PROVE TableInv'
  BY <1>2 DEF Table!Join, TableInv, UniqueTableIDs
<1>3. ASSUME NEW e \in Table!Entries, NEW i \in DOMAIN TableEntries, Table!TakeOver(e, i)
      PROVE  TableInv'
  BY <1>3, AppendedTableEntry DEF Table!TakeOver, TableInv
<1>4. CASE UNCHANGED Table!vars
  BY <1>4 DEF Table!vars, TableInv, UniqueTableIDs
<1> QED
  BY <1>1, <1>2, <1>3, <1>4 DEF Table!Next

LEMMA TableInvHolds == Table!Spec => []TableInv
  BY TableInit, TableStep, PTL DEF Table!Spec

LEMMA TableStable == Table!Spec => Table!Stable
<1> DEFINE Kept ==
      /\ \A i \in DOMAIN TableEntries :
            i \in DOMAIN TableEntries' /\ TableEntries'[i] = TableEntries[i]
      /\ DOMAIN Resolution \subseteq DOMAIN Resolution'
      /\ \A id \in DOMAIN Resolution : Table!Settled(id) => Resolution'[id] = Resolution[id]
      /\ \A a, b \in DOMAIN Resolution :
            Resolution[a] = Resolution[b] => Resolution'[a] = Resolution'[b]
<1>1. ASSUME TableInv, NEW e \in Table!Entries, Table!Enter(e) PROVE Kept
  BY <1>1, AppendedTableEntry DEF Table!Enter, Table!Fresh
<1>2. ASSUME TableInv, NEW id \in IDs, NEW i \in DOMAIN TableEntries, Table!Join(id, i)
      PROVE  Kept
  BY <1>2 DEF Table!Join, Table!Fresh
<1>3. ASSUME TableInv, NEW e \in Table!Entries, NEW i \in DOMAIN TableEntries,
             Table!TakeOver(e, i)
      PROVE  Kept
  <2>1. ASSUME NEW id \in DOMAIN Resolution, Table!Settled(id)
        PROVE  Resolution[id] # TableEntries[i].id
    BY <1>3, <2>1 DEF Table!Settled, Table!TakeOver, TableInv, UniqueTableIDs
  <2>2. /\ DOMAIN Resolution \subseteq DOMAIN Resolution'
        /\ \A id \in DOMAIN Resolution :
              Resolution'[id] = IF Resolution[id] = TableEntries[i].id THEN e.id
                                ELSE Resolution[id]
    BY <1>3 DEF Table!TakeOver, Table!Fresh
  <2>3. \A k \in DOMAIN TableEntries :
           k \in DOMAIN TableEntries' /\ TableEntries'[k] = TableEntries[k]
    BY <1>3, AppendedTableEntry DEF Table!TakeOver
  <2> QED
    BY <2>1, <2>2, <2>3
<1>4. ASSUME UNCHANGED Table!vars PROVE Kept
  BY <1>4 DEF Table!vars
<1>5. TableInv /\ [Table!Next]_(Table!vars) => [Kept]_(Table!vars)
  BY <1>1, <1>2, <1>3, <1>4 DEF Table!Next
<1> QED
  BY <1>5, TableInvHolds, PTL DEF Table!Spec, Table!Stable

(***************************************************************************)
(* "Append-only", "old references keep resolving" (catalog.go): of the     *)
(* catalog, entries are only appended, no accepted ID is forgotten, what   *)
(* resolves to a scanned entry stays there, and IDs that resolve alike     *)
(* move together.                                                          *)
(***************************************************************************)
THEOREM ReferencesStable == Spec => Table!Stable
  BY CatalogIsReferenceTable, TableStable, PTL DEF ImplementsReferences

-----------------------------------------------------------------------------
(***************************************************************************)
(* The loop of miner and gate (Pipeline).  PipelineAssumption is used from *)
(* here on and nowhere above.                                              *)
(*                                                                         *)
(* The inductive invariant joins the catalog's and the miner's.  No mined  *)
(* candidate retires an entry, so every ID the gate ever recorded is       *)
(* covered by a live entry, for good; a candidate that is not in the batch *)
(* any more has been recorded; and the lines promised are covered by live  *)
(* entries, since an entry that covers a candidate covers the lines the    *)
(* candidate was mined from.                                               *)
(***************************************************************************)
MP == INSTANCE MinerProofs WITH Lines <- Words, count <- mined

LEMMA SameMiner ==
  /\ M!Kept = MP!Kept
  /\ \A kb : M!At(kb) = MP!At(kb)
  /\ M!Init <=> MP!Init
BY DEF M!Kept, MP!Kept, M!At, MP!At, M!Init, MP!Init, M!Key, MP!Key, M!Token, MP!Token

LEMMA MinerFinite == MP!IsFiniteSet(Words)
<1>1. IsFiniteSet(Words)
  BY PipelineAssumption, Zenon
<1> QED
  BY <1>1 DEF IsFiniteSet, MP!IsFiniteSet

LEMMA SameMinerSteps ==
  ASSUME NEW line
  PROVE  /\ M!AddCluster(line) <=> MP!AddCluster(line)
         /\ M!Merge(line) <=> MP!Merge(line)
         /\ M!Drop(line) <=> MP!Drop(line)
BY DEF M!AddCluster, MP!AddCluster, M!Merge, MP!Merge, M!Drop, MP!Drop,
       M!Feed, MP!Feed, M!Joins, MP!Joins, M!HasRoom, MP!HasRoom,
       M!Best, MP!Best, M!Similar, MP!Similar, M!Agreement, MP!Agreement,
       M!KeyOf, MP!KeyOf, M!LooksVariable, MP!LooksVariable,
       M!Generalise, MP!Generalise, M!Cardinality, MP!Cardinality

LEMMA MinerHolds ==
  ASSUME MP!IInv,
         \/ \E line \in Words : M!AddCluster(line) \/ M!Merge(line) \/ M!Drop(line)
         \/ UNCHANGED minerVars
  PROVE  MP!IInv'
<1>1. MP!Next \/ UNCHANGED MP!vars
  BY SameMinerSteps DEF MP!Next, MP!vars, minerVars
<1> QED
  BY <1>1, MP!NextIInv, MinerFinite, PipelineAssumption

LEMMA SpellingFacts ==
  /\ Spelling \in [Word \cup {Blank, Placeholder} -> Text]
  /\ Spelling[Blank] = <<Blank>> /\ Spelling[Placeholder] = <<Placeholder>>
BY PipelineAssumption, Zenon

\* What a word is spelled with and the blanks between words, in order.
Pieces(tokens) == [i \in DOMAIN Joined(tokens) |-> Spelling[Joined(tokens)[i]]]

Tokens == Seq(Word \cup {Placeholder}) \ {<<>>}

LEMMA PiecesFacts ==
  ASSUME NEW tokens \in Tokens
  PROVE  /\ Pieces(tokens) \in Seq(Text)
         /\ Len(Pieces(tokens)) = 2 * Len(tokens) - 1
         /\ \A i \in DOMAIN Pieces(tokens) :
               IF i % 2 = 1
               THEN /\ (i+1) \div 2 \in DOMAIN tokens
                    /\ Pieces(tokens)[i] = Spelling[tokens[(i+1) \div 2]]
               ELSE Pieces(tokens)[i] = <<Blank>>
         /\ SpelledTokens(tokens) = FlattenSeq(Pieces(tokens))
<1> DEFINE n == Len(tokens)
           m == 2 * n - 1
<1>1. n \in Nat \ {0} /\ DOMAIN tokens = 1..n /\ m \in Nat
  BY EmptySeq DEF Tokens
<1>2. \A i \in 1..n : Spelling[tokens[i]] \in Text
  BY <1>1, SpellingFacts DEF Tokens
<1>3. Spelling[Blank] = <<Blank>> /\ <<Blank>> \in Text
  BY SpellingFacts, CharAssumption DEF Text
<1>4. DOMAIN Joined(tokens) = 1..m
  BY <1>1 DEF Joined
<1>5. ASSUME NEW i \in 1..m
      PROVE  /\ i % 2 = 1 => (i+1) \div 2 \in 1..n
             /\ Pieces(tokens)[i] = IF i % 2 = 1 THEN Spelling[tokens[(i+1) \div 2]]
                                    ELSE <<Blank>>
  <2>1. i % 2 = 1 => (i+1) \div 2 \in 1..n
    BY <1>1
  <2>2. Pieces(tokens)[i] = Spelling[Joined(tokens)[i]]
    BY <1>4 DEF Pieces
  <2>3. Joined(tokens)[i] = IF i % 2 = 1 THEN tokens[(i+1) \div 2] ELSE Blank
    BY DEF Joined
  <2> QED
    BY <1>3, <2>1, <2>2, <2>3
<1>6. DOMAIN Pieces(tokens) = 1..m /\ \A i \in 1..m : Pieces(tokens)[i] \in Text
  BY <1>2, <1>3, <1>4, <1>5 DEF Pieces
<1>7. Pieces(tokens) \in [1..m -> Text]
  <2>1. Pieces(tokens) = [i \in 1..m |-> Spelling[Joined(tokens)[i]]]
    BY <1>4 DEF Pieces
  <2>2. \A i \in 1..m : Spelling[Joined(tokens)[i]] \in Text
    BY <1>6, <2>1
  <2> QED
    BY <2>1, <2>2
<1>8. Pieces(tokens) \in Seq(Text) /\ Len(Pieces(tokens)) = m
  BY <1>1, <1>7
<1>9. SpelledTokens(tokens) = FlattenSeq(Pieces(tokens))
  BY DEF SpelledTokens, Spelled, Pieces
<1> QED
  BY <1>1, <1>5, <1>6, <1>8, <1>9

\* To the miner a template explains a line; to the matcher it matches it.
LEMMA ExplainsMatches ==
  ASSUME NEW tokens \in Tokens, NEW line \in Tokens, MP!Explains(tokens, line)
  PROVE  /\ SpelledTokens(tokens) \in Text /\ SpelledTokens(line) \in Text
         /\ Matches(SpelledTokens(tokens), SpelledTokens(line))
<1> DEFINE s == Pieces(tokens)
           t == Pieces(line)
<1>1. Len(tokens) = Len(line) /\ \A i \in DOMAIN line : tokens[i] \in {line[i], Placeholder}
  BY DEF MP!Explains
<1>2. /\ s \in Seq(Text) /\ t \in Seq(Text) /\ Len(s) = Len(t)
      /\ SpelledTokens(tokens) = FlattenSeq(s) /\ SpelledTokens(line) = FlattenSeq(t)
  BY <1>1, PiecesFacts
<1>3. ASSUME NEW i \in DOMAIN s PROVE Matches(s[i], t[i])
  <2>1. s[i] \in Text /\ t[i] \in Text /\ i \in DOMAIN t
    BY <1>2
  <2>2. CASE i % 2 = 1
    <3>1. /\ s[i] = Spelling[tokens[(i+1) \div 2]] /\ t[i] = Spelling[line[(i+1) \div 2]]
          /\ (i+1) \div 2 \in DOMAIN line
      BY <2>1, <2>2, PiecesFacts
    <3>2. s[i] = t[i] \/ s[i] = <<Placeholder>>
      BY <1>1, <3>1, SpellingFacts
    <3> QED
      BY <2>1, <3>2, CoversReflexive, PlaceholderMatches DEF Covers
  <2>3. CASE i % 2 # 1
    <3>1. s[i] = t[i]
      BY <2>1, <2>3, PiecesFacts
    <3> QED
      BY <2>1, <3>1, CoversReflexive DEF Covers
  <2> QED
    BY <2>2, <2>3
<1> HIDE DEF s, t
<1> QED
  BY <1>2, <1>3, MatchesPiecewise

Recorded == EntryIDs(templates) \cup DOMAIN aliases

NoneRetired == EntryIDs(templates) \cap DOMAIN aliases = {}

Covered(line) ==
    \E i \in Live(templates, aliases) : <<templates[i].text, line>> \in Accepts

LoopInv ==
    /\ IInv /\ MP!IInv
    /\ NoneRetired /\ CanonicalCoversAlias
    /\ pc = "gating" => /\ batch \subseteq Proposed
                        /\ \A kb \in Proposed \ batch : TemplateID(Candidate(kb)) \in Recorded
    /\ promised \subseteq Words
    /\ \A line \in promised : /\ SpelledTokens(line) \in Lines
                              /\ Covered(SpelledTokens(line)) \/ Misled(SpelledTokens(line))

LEMMA ExplainedIsCovered ==
  ASSUME IInv, NEW line \in Lines
  PROVE  Explained(line) <=> Covered(line)
<1>1. templates \in Seq(Template) /\ Live(templates, aliases) \in SUBSET DOMAIN templates
  BY DEF IInv, TypeOK, Live
<1> QED
  BY <1>1, BestMatches, MatchComplete DEF Explained, Covered

LEMMA ExplainedIsCoveredNext ==
  IInv' => (\A line \in Lines : Explained(line) <=> Covered(line))'
<1>1. IInv => \A line \in Lines : Explained(line) <=> Covered(line)
  BY ExplainedIsCovered
<1> QED
  BY <1>1, PTL

\* Whatever the gate recorded is covered by a live entry, or aliased to one
\* that is not opaque.
LEMMA RecordedIsCovered ==
  ASSUME IInv, NoneRetired, CanonicalCoversAlias, NEW id \in Recorded
  PROVE  Covered(id[2]) \/ (id \in DOMAIN aliases /\ ~Opaque(aliases[id][2]))
<1>1. templates \in Seq(Template) /\ Live(templates, aliases) = DOMAIN templates
  BY DEF IInv, TypeOK, Live, NoneRetired, EntryIDs
<1>2. CASE id \in EntryIDs(templates)
  <2>1. PICK i \in DOMAIN templates : id = TemplateID(templates[i])
    BY <1>2 DEF EntryIDs
  <2>2. templates[i] \in Template /\ id[2] = templates[i].text
        /\ <<templates[i].text, templates[i].text>> \in Accepts
    <3>1. templates[i] \in Template
      BY <1>1, <2>1
    <3> QED
      BY <2>1, <3>1, TemplateFacts
  <2> QED
    BY <1>1, <2>2 DEF Covered
<1>3. CASE id \in DOMAIN aliases
  <2>1. PICK i \in DOMAIN templates : aliases[id] = TemplateID(templates[i])
    BY <1>3 DEF IInv, AliasesResolve, EntryIDs
  <2>2. templates[i] \in Template /\ id \in IDs
    BY <1>1, <1>3 DEF IInv, TypeOK
  <2>3. /\ aliases[id][2] = templates[i].text
        /\ templates[i].text \in Texts /\ id[2] \in Texts
    BY <2>1, <2>2, TemplateFacts DEF IDs
  <2>4. <<templates[i].text, ProbeOf[id[2]]>> \in Accepts
    BY <1>3, <2>3 DEF CanonicalCoversAlias
  <2>5. Opaque(templates[i].text) => <<templates[i].text, id[2]>> \in Accepts
    BY <2>3, <2>4, OpaqueAccepts
  <2> QED
    BY <1>1, <1>3, <2>3, <2>5 DEF Covered
<1> QED
  BY <1>2, <1>3 DEF Recorded

\* What the miner makes of lines is a template that matches them.
LEMMA CandidateFacts ==
  ASSUME MP!IInv, NEW kb \in M!Kept
  PROVE  /\ Candidate(kb) \in Template
         /\ \A line \in M!At(kb).lines :
               /\ line \in Words
               /\ SpelledTokens(line) \in Lines
               /\ <<Candidate(kb).text, SpelledTokens(line)>> \in Accepts
<1> DEFINE tokens == M!At(kb).tokens
           took   == M!At(kb).lines
<1>1. PICK k \in MP!Key : MP!ClusterOK(k, M!At(kb))
  BY SameMiner DEF MP!IInv, MP!Kept, M!At
<1>2. /\ tokens \in Seq(MP!Token) /\ took \subseteq Words /\ took # {}
      /\ Len(tokens) # 0
      /\ \A line \in took : MP!Explains(tokens, line)
  BY <1>1 DEF MP!ClusterOK, MP!Cluster
<1>3. Words \subseteq Seq(Word \cup {Placeholder}) /\ "" \in Level
  BY PipelineAssumption, Zenon
<1>4. tokens \in Tokens
  BY <1>2 DEF MP!Token, Tokens
<1> HIDE DEF tokens, took
<1>5. ASSUME NEW line \in took
      PROVE  /\ line \in Words /\ line \in Tokens
             /\ SpelledTokens(line) \in Texts /\ SpelledTokens(line) \in Lines
             /\ SpelledTokens(tokens) \in Texts
             /\ Matches(SpelledTokens(tokens), SpelledTokens(line))
  <2>1. line \in Words /\ line \in Seq(Word \cup {Placeholder}) /\ Len(line) = Len(tokens)
    BY <1>2, <1>3 DEF MP!Explains
  <2>2. line \in Tokens
    BY <1>2, <2>1 DEF Tokens
  <2>3. ASSUME NEW S \in SUBSET DOMAIN line
        PROVE  SpelledTokens([i \in DOMAIN line |->
                                IF i \in S THEN Placeholder ELSE line[i]]) \in Texts
    BY <2>1, PipelineAssumption, Zenon
  <2>4. line = [i \in DOMAIN line |-> IF i \in {} THEN Placeholder ELSE line[i]]
    BY <2>1
  <2> DEFINE S == {i \in DOMAIN line : tokens[i] = Placeholder}
  <2>5. tokens = [i \in DOMAIN line |-> IF i \in S THEN Placeholder ELSE line[i]]
    <3>1. DOMAIN tokens = DOMAIN line
      BY <1>2, <2>1
    <3>2. \A i \in DOMAIN line : tokens[i] \in {line[i], Placeholder}
      BY <1>2 DEF MP!Explains
    <3>3. tokens = [i \in DOMAIN line |-> tokens[i]]
      BY <1>2, <3>1
    <3> QED
      BY <3>2, <3>3
  <2>6. SpelledTokens(line) \in Texts
    <3>1. {} \in SUBSET DOMAIN line
      OBVIOUS
    <3> QED
      BY <2>3, <2>4, <3>1
  <2>7. SpelledTokens(tokens) \in Texts
    <3>1. S \in SUBSET DOMAIN line
      OBVIOUS
    <3> HIDE DEF S
    <3> QED
      BY <2>3, <2>5, <3>1
  <2>8. Matches(SpelledTokens(tokens), SpelledTokens(line))
    BY <1>2, <1>4, <2>2, ExplainsMatches
  <2> QED
    BY <2>1, <2>2, <2>6, <2>7, <2>8, GateAssumption
<1>6. \A t \in Texts : LET c == [level |-> "", text |-> t, lib |-> Mined]
                       IN  c \in Template /\ c.text = t
  <2>1. \A level \in Level, t \in Texts, lib \in Lib :
           LET c == [level |-> level, text |-> t, lib |-> lib]
           IN  c \in Template /\ c.text = t
    BY DEF Template
  <2> QED
    BY <1>3, <2>1, MatcherAssumption, Zenon
<1>7. Candidate(kb) \in Template /\ Candidate(kb).text = SpelledTokens(tokens)
  <2>1. SpelledTokens(tokens) \in Texts
    BY <1>2, <1>5
  <2> QED
    BY <1>6, <2>1, Zenon DEF Candidate, tokens
<1>8. ASSUME NEW line \in took
      PROVE  <<Candidate(kb).text, SpelledTokens(line)>> \in Accepts
  <2>1. <<SpelledTokens(tokens), SpelledTokens(line)>> \in Accepts
    BY <1>5, AcceptsFacts
  <2> QED
    BY <1>7, <2>1
<1> QED
  BY <1>5, <1>7, <1>8 DEF took

\* What gating a mined candidate does to the catalog: live entries stay live,
\* and aliases stay as they are.
LEMMA GatedGrows ==
  ASSUME IInv, NoneRetired, CanonicalCoversAlias,
         NEW c \in Template, SkipKnown(c) \/ Admit(c) \/ Alias(c)
  PROVE  /\ IInv' /\ NoneRetired' /\ CanonicalCoversAlias'
         /\ Recorded \subseteq Recorded' /\ TemplateID(c) \in Recorded'
         /\ \A line : Covered(line) => Covered(line)'
         /\ \A line : Misled(line) => Misled(line)'
<1>1. IInv'
  BY StepIInv DEF GateStep
<1>2. CASE SkipKnown(c)
  <2>1. UNCHANGED <<templates, aliases>> /\ pc = "gating" /\ Known(c)
    BY <1>2 DEF SkipKnown, Take
  <2>2. TemplateID(c) \in Recorded
    BY <2>1 DEF Known, Recorded, IInv, GateSeesCatalog
  <2> QED
    BY <1>1, <2>1, <2>2
       DEF NoneRetired, Recorded, Covered, Live, EntryIDs, CanonicalCoversAlias, Misled
<1>3. CASE Admit(c)
  <2>1. Decide(c) /\ AddEntry(c) /\ aliases' = aliases
    BY <1>3 DEF Admit
  <2>2. TemplateID(c) \notin DOMAIN aliases /\ templates \in Seq(Template)
    BY <2>1, DecideFacts
  <2>3. /\ \A i \in DOMAIN templates : i \in DOMAIN templates' /\ templates'[i] = templates[i]
        /\ EntryIDs(templates') = EntryIDs(templates) \cup {TemplateID(c)}
    BY <2>1, <2>2, AppendFacts DEF AddEntry
  <2>4. \A line : Covered(line) => Covered(line)'
    BY <2>1, <2>3 DEF Covered, Live
  <2> QED
    BY <1>1, <2>1, <2>2, <2>3, <2>4
       DEF NoneRetired, Recorded, EntryIDs, CanonicalCoversAlias, Misled
<1>4. CASE Alias(c)
  <2>1. Decide(c) /\ templates' = templates
    BY <1>4 DEF Alias
  <2>2. TemplateID(c) \notin EntryIDs(templates) /\ TemplateID(c) \notin DOMAIN aliases
    BY <2>1, DecideFacts
  <2>3. DOMAIN aliases' = DOMAIN aliases \cup {TemplateID(c)}
    BY <1>4 DEF Alias, AliasTo
  <2>5. \A id \in DOMAIN aliases : id \in DOMAIN aliases' /\ aliases'[id] = aliases[id]
    BY <1>4, <2>2 DEF Alias, AliasTo
  <2>6. CanonicalCoversAlias'
    <3>1. PICK i \in Subsuming(templates, Current, c) :
             aliases' = AliasTo(aliases, TemplateID(c), TemplateID(templates[i]))
      BY <1>4 DEF Alias
    <3>2. templates[i] \in Template /\ <<templates[i].text, ProbeOf[c.text]>> \in Accepts
      BY <2>1, <3>1, DecideFacts, SubsumingFacts
    <3>3. aliases'[TemplateID(c)] = TemplateID(templates[i])
      BY <3>1 DEF AliasTo
    <3>4. <<aliases'[TemplateID(c)][2], ProbeOf[TemplateID(c)[2]]>> \in Accepts
      BY <3>2, <3>3, TemplateFacts
    <3> QED
      BY <2>3, <2>5, <3>4 DEF CanonicalCoversAlias
  <2>7. \A line : Misled(line) => Misled(line)'
    BY <2>5 DEF Misled
  <2>4. Live(templates, aliases)' = Live(templates, aliases)
    BY <2>1, <2>2, <2>3 DEF Live, EntryIDs
  <2> QED
    BY <1>1, <2>1, <2>2, <2>3, <2>4, <2>6, <2>7 DEF NoneRetired, Recorded, EntryIDs, Covered
<1> QED
  BY <1>2, <1>3, <1>4

LEMMA LoopInit == PipeInit => LoopInv
<1> SUFFICES ASSUME PipeInit PROVE LoopInv
  OBVIOUS
<1>1. IInv
  BY InitIInv DEF PipeInit
<1>2. MP!IInv
  BY SameMiner, MP!InitIInv, MinerFinite, PipelineAssumption DEF PipeInit
<1>3. NoneRetired /\ CanonicalCoversAlias
  BY DEF PipeInit, Init, NoAliases, NoneRetired, CanonicalCoversAlias
<1> QED
  BY <1>1, <1>2, <1>3 DEF PipeInit, Init, LoopInv

LEMMA MinerRestarts == (MP!Init)' => MP!IInv'
<1>1. MP!Init => MP!IInv
  BY MP!InitIInv, MinerFinite, PipelineAssumption
<1> QED
  BY <1>1, PTL

\* A step leaves live entries live and aliases as they are.
LEMMA LoopGrows ==
  ASSUME LoopInv, [PipeNext]_pipeVars
  PROVE  /\ \A line : Covered(line) => Covered(line)'
         /\ \A line : Misled(line) => Misled(line)'
<1>1. CASE UNCHANGED <<templates, aliases>>
  BY <1>1 DEF Covered, Live, Misled
<1>2. CASE \E kb \in batch : Decided(kb)
  <2>1. PICK kb \in batch : Decided(kb)
    BY <1>2
  <2>2. SkipKnown(Candidate(kb)) \/ Admit(Candidate(kb)) \/ Alias(Candidate(kb))
    BY <2>1 DEF Decided
  <2>3. pc = "gating"
    BY <2>2 DEF SkipKnown, Admit, Alias, Decide, New, Take
  <2>4. kb \in M!Kept
    BY <2>3 DEF LoopInv, Proposed
  <2> QED
    BY <2>2, <2>4, CandidateFacts, GatedGrows DEF LoopInv
<1> QED
  BY <1>1, <1>2 DEF PipeNext, SkipExplained, MineLine, Mining, Propose, Begin, NextRound,
     Return, vars, pipeVars

LEMMA LoopStep == LoopInv /\ [PipeNext]_pipeVars => LoopInv'
<1> SUFFICES ASSUME LoopInv, [PipeNext]_pipeVars PROVE LoopInv'
  OBVIOUS
<1> USE DEF LoopInv
<1>1. ASSUME promised' = promised
      PROVE  /\ promised' \subseteq Words
             /\ \A line \in promised' :
                   /\ SpelledTokens(line) \in Lines
                   /\ Covered(SpelledTokens(line))' \/ Misled(SpelledTokens(line))'
  BY <1>1, LoopGrows
<1>2. ASSUME UNCHANGED vars
      PROVE  IInv' /\ NoneRetired' /\ CanonicalCoversAlias'
  <2>1. IInv'
    BY <1>2, StepIInv
  <2> QED
    BY <1>2, <2>1 DEF vars, NoneRetired, CanonicalCoversAlias, EntryIDs
<1>3. ASSUME NEW r \in Raw, SkipExplained(r) \/ MineLine(r) PROVE LoopInv'
  <2>1. pc = "idle" /\ UNCHANGED <<vars, against, batch, promised, round>>
    BY <1>3 DEF SkipExplained, MineLine, Mining
  <2>2. MP!IInv'
    <3>1. Fields(r) \in Words
      BY DEF Words
    <3> QED
      BY <1>3, <3>1, MinerHolds DEF SkipExplained, MineLine
  <2>3. pc' = "idle"
    BY <2>1 DEF vars
  <2> QED
    BY <1>1, <1>2, <2>1, <2>2, <2>3
<1>4. CASE Propose
  <2>1. /\ Begin /\ batch' = Proposed /\ UNCHANGED <<minerVars, promised>>
        /\ UNCHANGED <<templates, aliases>>
    BY <1>4 DEF Propose, Begin
  <2>2. IInv' /\ NoneRetired' /\ CanonicalCoversAlias' /\ MP!IInv'
    <3>1. IInv'
      BY <2>1, StepIInv DEF GateStep
    <3>2. MP!IInv'
      BY <2>1, MinerHolds
    <3> QED
      BY <2>1, <3>1, <3>2 DEF NoneRetired, CanonicalCoversAlias, EntryIDs
  <2>3. Proposed' = Proposed
    BY <2>1 DEF minerVars, Proposed, M!Kept, M!At
  <2> QED
    BY <1>1, <2>1, <2>2, <2>3
<1>5. ASSUME NEW kb \in batch, Decided(kb) PROVE LoopInv'
  <2> DEFINE c == Candidate(kb)
  <2>1. /\ SkipKnown(c) \/ Admit(c) \/ Alias(c)
        /\ batch' = batch \ {kb} /\ UNCHANGED <<minerVars, promised>>
    BY <1>5 DEF Decided
  <2>2. pc = "gating" /\ kb \in M!Kept
    <3>1. pc = "gating"
      BY <2>1 DEF SkipKnown, Admit, Alias, Decide, New, Take
    <3> QED
      BY <3>1 DEF Proposed
  <2>3. c \in Template
    BY <2>2, CandidateFacts
  <2>4. /\ IInv' /\ NoneRetired' /\ CanonicalCoversAlias'
        /\ Recorded \subseteq Recorded' /\ TemplateID(c) \in Recorded'
    <3> HIDE DEF c
    <3> QED
      BY <2>1, <2>3, GatedGrows
  <2>5. MP!IInv'
    BY <2>1, MinerHolds
  <2>6. Proposed' = Proposed /\ \A k : Candidate(k)' = Candidate(k)
    BY <2>1 DEF minerVars, Proposed, M!Kept, M!At, Candidate
  <2>7. /\ batch' \subseteq Proposed'
        /\ \A k \in Proposed' \ batch' : TemplateID(Candidate(k))' \in Recorded'
    BY <2>1, <2>2, <2>4, <2>6 DEF TemplateID
  <2> QED
    BY <1>1, <2>1, <2>4, <2>5, <2>7
<1>6. CASE NextRound
  <2>1. /\ Return /\ pc = "gating" /\ batch = {} /\ UNCHANGED <<templates, aliases>>
        /\ promised' = promised \cup UNION {M!At(kb).lines : kb \in Proposed}
    BY <1>6 DEF NextRound, Return
  <2>2. IInv' /\ NoneRetired' /\ CanonicalCoversAlias' /\ pc' = "idle"
    <3>1. IInv'
      BY <2>1, StepIInv DEF GateStep
    <3> QED
      BY <2>1, <3>1 DEF Return, NoneRetired, CanonicalCoversAlias, EntryIDs
  <2>3. MP!IInv'
    <3>1. (MP!Init)'
      BY <1>6 DEF NextRound, MP!Init, M!Key, MP!Key, M!Token, MP!Token
    <3> QED
      BY <3>1, MinerRestarts
  <2>4. ASSUME NEW kb \in Proposed, NEW line \in M!At(kb).lines
        PROVE  /\ line \in Words /\ SpelledTokens(line) \in Lines
               /\ Covered(SpelledTokens(line)) \/ Misled(SpelledTokens(line))
    <3> DEFINE c == Candidate(kb)
               l == SpelledTokens(line)
    <3>1. /\ c \in Template /\ line \in Words /\ l \in Lines
          /\ <<c.text, l>> \in Accepts
      BY CandidateFacts DEF Proposed
    <3>2. TemplateID(c) \in Recorded /\ TemplateID(c)[2] = c.text
      BY <2>1, <3>1, TemplateFacts
    <3>3. CASE TemplateID(c) \in DOMAIN aliases /\ ~Opaque(aliases[TemplateID(c)][2])
      <4>1. Misled(l)
        BY <3>1, <3>2, <3>3 DEF Misled
      <4> QED
        BY <3>1, <4>1
    <3>4. CASE Covered(c.text)
      <4>1. PICK i \in Live(templates, aliases) : <<templates[i].text, c.text>> \in Accepts
        BY <3>4 DEF Covered
      <4>2. templates[i] \in Template
        BY <4>1 DEF Live, IInv, TypeOK
      <4> HIDE DEF c, l
      <4>3. /\ templates[i].text \in Text /\ c.text \in Text /\ l \in Text
            /\ templates[i].text \in Texts /\ c.text \in Texts /\ c.text \in Lines
        BY <3>1, <4>2, TemplateFacts, MatcherAssumption, GateAssumption
      <4>4. Matches(templates[i].text, c.text) /\ Matches(c.text, l)
        BY <3>1, <4>1, <4>3, AcceptsFacts
      <4>5. Matches(templates[i].text, l)
        BY <4>3, <4>4, MatchesTransitive
      <4>6. <<templates[i].text, l>> \in Accepts
        BY <3>1, <4>3, <4>5, AcceptsFacts
      <4>7. Covered(l)
        BY <4>1, <4>6 DEF Covered
      <4> QED
        BY <3>1, <4>7 DEF l
    <3> QED
      BY <3>2, <3>3, <3>4, RecordedIsCovered
  <2>5. \A line : Covered(line) \/ Misled(line) => Covered(line)' \/ Misled(line)'
    BY LoopGrows
  <2>6. \A line \in promised' :
           /\ line \in Words /\ SpelledTokens(line) \in Lines
           /\ Covered(SpelledTokens(line))' \/ Misled(SpelledTokens(line))'
    BY <2>1, <2>4, <2>5
  <2> QED
    BY <2>2, <2>3, <2>6
<1>7. CASE UNCHANGED pipeVars
  <2>1. UNCHANGED <<vars, minerVars, batch, promised>>
    BY <1>7 DEF pipeVars
  <2>2. MP!IInv' /\ IInv' /\ NoneRetired' /\ CanonicalCoversAlias'
    BY <1>2, <2>1, MinerHolds
  <2>3. UNCHANGED <<Proposed, Recorded, pc>> /\ \A k : Candidate(k)' = Candidate(k)
    BY <2>1 DEF vars, minerVars, Proposed, Recorded, EntryIDs, M!Kept, M!At, Candidate
  <2>4. pc = "gating" =>
          /\ batch' \subseteq Proposed'
          /\ \A k \in Proposed' \ batch' : TemplateID(Candidate(k))' \in Recorded'
    BY <2>1, <2>3 DEF TemplateID
  <2> QED
    BY <1>1, <2>1, <2>2, <2>3, <2>4
<1> QED
  BY <1>3, <1>4, <1>5, <1>6, <1>7 DEF PipeNext

LEMMA LoopInvHolds == PipeSpec => []LoopInv
BY LoopInit, LoopStep, PTL DEF PipeSpec

(***************************************************************************)
(* What a mining run learned and a promote run was offered is explained by *)
(* the catalog from then on, whatever was mined and promoted in between    *)
(* and whichever entries were there to begin with, unless its candidate    *)
(* was aliased to an entry that is not opaque.                             *)
(***************************************************************************)
THEOREM LoopLearns == PipeSpec => []CandidateLinesExplained
<1>1. LoopInv => CandidateLinesExplained
  BY ExplainedIsCovered DEF LoopInv, CandidateLinesExplained
<1> QED
  BY <1>1, LoopInvHolds, PTL

(***************************************************************************)
(* A mined candidate never costs the catalog a line it explains.           *)
(***************************************************************************)
THEOREM LoopNeverUnlearns == PipeSpec => NothingUnlearned
<1> DEFINE Kept == \A r \in Raw : Explained(Spelled(r)) => Explained(Spelled(r))'
<1>1. LoopInv /\ [PipeNext]_pipeVars => Kept
  <2> SUFFICES ASSUME LoopInv, [PipeNext]_pipeVars, NEW r \in Raw, Explained(Spelled(r))
               PROVE  Explained(Spelled(r))'
    OBVIOUS
  <2>1. Spelled(r) \in Lines
    BY PipelineAssumption, Zenon
  <2>2. IInv /\ IInv'
    BY LoopStep DEF LoopInv
  <2>3. Covered(Spelled(r))'
    BY <2>1, <2>2, LoopGrows, ExplainedIsCovered
  <2> QED
    BY <2>1, <2>2, <2>3, ExplainedIsCoveredNext
<1> QED
  BY <1>1, LoopInvHolds, PTL DEF PipeSpec, NothingUnlearned
=============================================================================
