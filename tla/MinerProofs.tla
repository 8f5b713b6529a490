---------------------------- MODULE MinerProofs ----------------------------
(***************************************************************************)
(* The miner for any words, any lines and any caps: clusters are the least *)
(* generalisations of their lines, buckets named by a word keep it, the    *)
(* caps hold where the code enforces them, and every line is counted once: *)
(* in a cluster that explains it or among the dropped ones.                *)
(***************************************************************************)
EXTENDS Miner, FiniteSetTheorems, SequenceTheorems, WellFoundedInduction, TLAPS

-----------------------------------------------------------------------------
(***************************************************************************)
(* A non-empty set of naturals has a least element.                        *)
(***************************************************************************)
LEMMA LeastNat ==
    ASSUME NEW T, T \subseteq Nat, T # {}
    PROVE  \E x \in T : \A y \in T : x <= y
<1> DEFINE R == {ss \in Nat \X Nat : ss[1] < ss[2]}
<1>1. IsWellFoundedOn(R, Nat)
  BY NatLessThanWellFounded DEF OpToRel
<1>2. \A x, y \in Nat : y < x => <<y, x>> \in R
  OBVIOUS
<1> HIDE DEF R
<1>3. PICK x \in T : \A y \in T : ~ (<<y, x>> \in R)
  BY <1>1, WFMin
<1>4. \A y \in T : x <= y
  <2> TAKE y \in T
  <2>1. x \in Nat /\ y \in Nat
    OBVIOUS
  <2>2. ~(y < x)
    BY <1>2, <1>3, <2>1
  <2> QED
    BY <2>1, <2>2
<1> QED
  BY <1>4

-----------------------------------------------------------------------------
\* Of any subsets of a finite set, one is such that none is an element smaller.
LEMMA SmallestSubset ==
  ASSUME NEW S, IsFiniteSet(S), NEW Odd, Odd \subseteq SUBSET S, Odd # {}
  PROVE  \E U \in Odd : \A x \in U : U \ {x} \notin Odd
<1> DEFINE Sizes == {Cardinality(U) : U \in Odd}
<1>1. \A U \in Odd : /\ Cardinality(U) \in Nat
                     /\ \A x \in U : Cardinality(U \ {x}) = Cardinality(U) - 1
  BY FS_Subset, FS_CardinalityType, FS_RemoveElement
<1>2. PICK n \in Sizes : \A m \in Sizes : n <= m
  <2>1. Sizes \subseteq Nat /\ Sizes # {}
    BY <1>1
  <2> HIDE DEF Sizes
  <2> QED
    BY <2>1, LeastNat
<1>3. PICK U \in Odd : n = Cardinality(U)
  BY <1>2
<1>4. \A V \in Odd : Cardinality(U) <= Cardinality(V)
  BY <1>2, <1>3
<1>5. \A x \in U : U \ {x} \notin Odd
  BY <1>1, <1>4
<1> QED
  BY <1>5

(***************************************************************************)
(* SumFunctionOnSet takes one element after the other in an order of       *)
(* CHOOSE's, and its recursive function has to be shown to exist; what it  *)
(* computes does not depend on the order.                                  *)
(***************************************************************************)
Some(T) == CHOOSE x \in T : TRUE

\* What SumFunctionOnSet makes of g.
SumsUp(h, g, S) ==
    h = [T \in SUBSET S |-> IF T = {} THEN 0 ELSE g[Some(T)] + h[T \ {Some(T)}]]

\* h has the sums of g over all subsets of S, taken in any order.
Sums(h, g, S) ==
    /\ h \in [SUBSET S -> Nat]
    /\ h[{}] = 0
    /\ \A T \in SUBSET S : \A x \in T : h[T] = g[x] + h[T \ {x}]

\* With one element more, the sums of the subsets that have it follow.
LEMMA SumsExist ==
  ASSUME NEW S, IsFiniteSet(S), NEW g, \A x \in S : g[x] \in Nat
  PROVE  \E h : Sums(h, g, S)
<1> DEFINE Odd == {T \in SUBSET S : ~ \E h : Sums(h, g, T)}
<1>1. Odd = {}
  <2> SUFFICES ASSUME Odd # {} PROVE FALSE
    OBVIOUS
  <2>1. PICK U \in Odd : \A x \in U : U \ {x} \notin Odd
    <3>1. Odd \subseteq SUBSET S
      OBVIOUS
    <3> HIDE DEF Odd
    <3> QED
      BY <3>1, SmallestSubset
  <2>2. U \in SUBSET S /\ ~ \E h : Sums(h, g, U)
    BY <2>1
  <2>3. U # {}
    <3> DEFINE h == [T \in {{}} |-> 0]
    <3>1. Sums(h, g, {})
      BY DEF Sums
    <3> QED
      BY <2>2, <3>1
  <2>4. PICK x \in U : TRUE
    BY <2>3
  <2>5. PICK k : Sums(k, g, U \ {x})
    BY <2>1, <2>2, <2>4
  <2> DEFINE h == [T \in SUBSET U |-> IF x \in T THEN g[x] + k[T \ {x}] ELSE k[T]]
  <2>6. \A T \in SUBSET U : /\ T \ {x} \in SUBSET (U \ {x})
                            /\ x \notin T => T \in SUBSET (U \ {x})
    OBVIOUS
  <2>7. g[x] \in Nat /\ \A T \in SUBSET (U \ {x}) : k[T] \in Nat
    BY <2>2, <2>4, <2>5 DEF Sums
  <2>8. h \in [SUBSET U -> Nat] /\ h[{}] = 0
    BY <2>5, <2>6, <2>7 DEF Sums
  <2>9. ASSUME NEW T \in SUBSET U, NEW y \in T PROVE h[T] = g[y] + h[T \ {y}]
    <3>1. T \ {y} \in SUBSET U /\ g[y] \in Nat
      BY <2>2
    <3>2. CASE y = x
      <4>1. h[T] = g[x] + k[T \ {x}] /\ h[T \ {x}] = k[T \ {x}]
        BY <3>1, <3>2
      <4> QED
        BY <3>2, <4>1
    <3>3. CASE y # x /\ x \notin T
      <4>1. T \in SUBSET (U \ {x})
        BY <3>3
      <4>2. k[T] = g[y] + k[T \ {y}]
        BY <2>5, <4>1 DEF Sums
      <4> QED
        BY <3>1, <3>3, <4>2
    <3>4. CASE y # x /\ x \in T
      <4> DEFINE V == T \ {x}
      <4>1. V \in SUBSET (U \ {x}) /\ y \in V /\ V \ {y} \in SUBSET (U \ {x})
            /\ (T \ {y}) \ {x} = V \ {y}
        BY <3>4
      <4>2. k[V] = g[y] + k[V \ {y}]
        <5> HIDE DEF V
        <5> QED
          BY <2>5, <4>1 DEF Sums
      <4>3. h[T] = g[x] + k[V] /\ h[T \ {y}] = g[x] + k[V \ {y}]
        BY <3>1, <3>4, <4>1
      <4> HIDE DEF V
      <4> QED
        BY <2>7, <3>1, <4>1, <4>2, <4>3
    <3> QED
      BY <3>2, <3>3, <3>4
  <2> HIDE DEF h
  <2>10. Sums(h, g, U)
    BY <2>8, <2>9 DEF Sums
  <2> QED
    BY <2>2, <2>10
<1>2. S \notin Odd
  BY <1>1
<1> QED
  BY <1>2

\* Two that add up the same values agree, whatever sets they are taken from.
BothSum(h, k, g, T) ==
    /\ h[{}] = k[{}]
    /\ \A U \in SUBSET T : U # {} =>
          \E x \in U : h[U] = g[x] + h[U \ {x}] /\ k[U] = g[x] + k[U \ {x}]

LEMMA SumsUnique ==
  ASSUME NEW T, IsFiniteSet(T), NEW g, NEW h, NEW k, BothSum(h, k, g, T)
  PROVE  h[T] = k[T]
<1> DEFINE Odd == {U \in SUBSET T : h[U] # k[U]}
<1> SUFFICES ASSUME Odd # {} PROVE FALSE
  OBVIOUS
<1>1. PICK U \in Odd : \A x \in U : U \ {x} \notin Odd
  <2>1. Odd \subseteq SUBSET T
    OBVIOUS
  <2> HIDE DEF Odd
  <2> QED
    BY <2>1, SmallestSubset
<1>2. U \in SUBSET T /\ h[U] # k[U] /\ U # {}
  BY <1>1 DEF BothSum
<1>3. PICK x \in U : h[U] = g[x] + h[U \ {x}] /\ k[U] = g[x] + k[U \ {x}]
  BY <1>2 DEF BothSum
<1>4. h[U \ {x}] = k[U \ {x}]
  BY <1>1, <1>2
<1> QED
  BY <1>2, <1>3, <1>4

LEMMA SumIsSums ==
  ASSUME NEW S, IsFiniteSet(S), NEW g, \A x \in S : g[x] \in Nat
  PROVE  \E h : Sums(h, g, S) /\ SumFunctionOnSet(g, S) = h[S]
<1> DEFINE it == CHOOSE h : SumsUp(h, g, S)
<1>1. PICK h : Sums(h, g, S)
  BY SumsExist
<1>2. \A T \in SUBSET S : T # {} => Some(T) \in T
  BY DEF Some
<1>3. SumsUp(h, g, S)
  <2>1. \A T \in SUBSET S : h[T] = IF T = {} THEN 0 ELSE g[Some(T)] + h[T \ {Some(T)}]
    BY <1>1, <1>2 DEF Sums
  <2>2. h = [T \in SUBSET S |-> h[T]]
    BY <1>1 DEF Sums
  <2> QED
    BY <2>1, <2>2 DEF SumsUp
<1>4. SumsUp(it, g, S)
  BY <1>3
<1>5. SumFunctionOnSet(g, S) = it[S]
  BY DEF SumFunctionOnSet, FoldFunctionOnSet, MapThenFoldSet, Some, SumsUp
<1> HIDE DEF it
<1>6. /\ it[{}] = 0
      /\ \A T \in SUBSET S : T # {} => it[T] = g[Some(T)] + it[T \ {Some(T)}]
  BY <1>4 DEF SumsUp
<1>7. BothSum(h, it, g, S)
  BY <1>1, <1>2, <1>6 DEF Sums, BothSum
<1>8. h[S] = it[S]
  BY <1>7, SumsUnique
<1> QED
  BY <1>1, <1>5, <1>8

LEMMA SumNat ==
  ASSUME NEW S, IsFiniteSet(S), NEW g, \A x \in S : g[x] \in Nat
  PROVE  SumFunctionOnSet(g, S) \in Nat
<1>1. PICK h : Sums(h, g, S) /\ SumFunctionOnSet(g, S) = h[S]
  BY SumIsSums
<1> QED
  BY <1>1 DEF Sums

LEMMA SumEmpty ==
  ASSUME NEW g
  PROVE  SumFunctionOnSet(g, {}) = 0
<1>1. IsFiniteSet({}) /\ \A x \in {} : g[x] \in Nat
  BY FS_EmptySet
<1> QED
  BY <1>1, SumIsSums DEF Sums

LEMMA SumSame ==
  ASSUME NEW S, IsFiniteSet(S), NEW g, NEW f,
         \A x \in S : g[x] \in Nat /\ f[x] = g[x]
  PROVE  SumFunctionOnSet(f, S) = SumFunctionOnSet(g, S)
<1>1. PICK h : Sums(h, g, S) /\ SumFunctionOnSet(g, S) = h[S]
  BY SumIsSums
<1>2. PICK k : Sums(k, f, S) /\ SumFunctionOnSet(f, S) = k[S]
  BY SumIsSums
<1>3. \A U \in SUBSET S : \A x \in U : h[U] = g[x] + h[U \ {x}] /\ k[U] = g[x] + k[U \ {x}]
  BY <1>1, <1>2 DEF Sums
<1>4. BothSum(h, k, g, S)
  BY <1>1, <1>2, <1>3 DEF Sums, BothSum
<1>5. h[S] = k[S]
  BY <1>4, SumsUnique
<1> QED
  BY <1>1, <1>2, <1>5

LEMMA SumRemove ==
  ASSUME NEW S, IsFiniteSet(S), NEW g, \A x \in S : g[x] \in Nat, NEW x \in S
  PROVE  SumFunctionOnSet(g, S) = g[x] + SumFunctionOnSet(g, S \ {x})
<1> DEFINE R == S \ {x}
<1>1. IsFiniteSet(R) /\ R \in SUBSET S /\ \A y \in R : g[y] \in Nat
  BY FS_Subset
<1>2. PICK h : Sums(h, g, S) /\ SumFunctionOnSet(g, S) = h[S]
  BY SumIsSums
<1>3. PICK k : Sums(k, g, R) /\ SumFunctionOnSet(g, R) = k[R]
  BY <1>1, SumIsSums
<1>4. h[S] = g[x] + h[R]
  BY <1>2 DEF Sums
<1> HIDE DEF R
<1>5. \A U \in SUBSET R : \A y \in U : h[U] = g[y] + h[U \ {y}] /\ k[U] = g[y] + k[U \ {y}]
  BY <1>1, <1>2, <1>3 DEF Sums
<1>6. BothSum(h, k, g, R)
  BY <1>2, <1>3, <1>5 DEF Sums, BothSum
<1>7. h[R] = k[R]
  BY <1>1, <1>6, SumsUnique
<1> QED
  BY <1>2, <1>3, <1>4, <1>7 DEF R

LEMMA SumRaised ==
  ASSUME NEW S, IsFiniteSet(S), NEW g, \A x \in S : g[x] \in Nat,
         NEW x \in S, NEW d \in Nat,
         NEW f, \A y \in S \ {x} : f[y] = g[y], f[x] = g[x] + d
  PROVE  SumFunctionOnSet(f, S) = SumFunctionOnSet(g, S) + d
<1>1. IsFiniteSet(S \ {x})
  BY FS_Subset
<1>2. /\ SumFunctionOnSet(f, S \ {x}) = SumFunctionOnSet(g, S \ {x})
      /\ SumFunctionOnSet(g, S \ {x}) \in Nat
  BY <1>1, SumSame, SumNat
<1>3. g[x] \in Nat /\ \A y \in S : f[y] \in Nat
  OBVIOUS
<1>4. /\ SumFunctionOnSet(g, S) = g[x] + SumFunctionOnSet(g, S \ {x})
      /\ SumFunctionOnSet(f, S) = f[x] + SumFunctionOnSet(f, S \ {x})
  BY <1>3, SumRemove
<1> QED
  BY <1>2, <1>3, <1>4

LEMMA SumMonotone ==
  ASSUME NEW S, IsFiniteSet(S), NEW g, \A x \in S : g[x] \in Nat, NEW T \in SUBSET S
  PROVE  SumFunctionOnSet(g, T) <= SumFunctionOnSet(g, S)
<1> DEFINE Odd == {U \in SUBSET S : T \subseteq U
                      /\ ~(SumFunctionOnSet(g, T) <= SumFunctionOnSet(g, U))}
<1>1. \A U \in SUBSET S : IsFiniteSet(U) /\ SumFunctionOnSet(g, U) \in Nat
  BY FS_Subset, SumNat
<1>2. Odd = {}
  <2> SUFFICES ASSUME Odd # {} PROVE FALSE
    OBVIOUS
  <2>1. PICK U \in Odd : \A x \in U : U \ {x} \notin Odd
    <3>1. Odd \subseteq SUBSET S
      OBVIOUS
    <3> HIDE DEF Odd
    <3> QED
      BY <3>1, SmallestSubset
  <2>2. /\ U \in SUBSET S /\ T \subseteq U /\ U # T
        /\ ~(SumFunctionOnSet(g, T) <= SumFunctionOnSet(g, U))
    BY <2>1, <1>1
  <2>3. PICK x \in U : x \notin T
    BY <2>2
  <2>4. U \ {x} \in SUBSET S /\ T \subseteq U \ {x}
    BY <2>2, <2>3
  <2>5. SumFunctionOnSet(g, T) <= SumFunctionOnSet(g, U \ {x})
    BY <2>1, <2>4
  <2>6. g[x] \in Nat /\ SumFunctionOnSet(g, U) = g[x] + SumFunctionOnSet(g, U \ {x})
    BY <1>1, <2>2, SumRemove
  <2>7. /\ SumFunctionOnSet(g, U \ {x}) \in Nat /\ SumFunctionOnSet(g, U) \in Nat
        /\ SumFunctionOnSet(g, T) \in Nat
    BY <1>1, <2>2, <2>4
  <2> HIDE DEF Odd
  <2> QED
    BY <2>2, <2>5, <2>6, <2>7
<1>3. S \notin Odd /\ S \in SUBSET S /\ T \subseteq S
  BY <1>2
<1> QED
  BY <1>3

-----------------------------------------------------------------------------
LEMMA LineFacts ==
    ASSUME NEW line \in Lines, line # <<>>
    PROVE  /\ line \in Seq(Token)
           /\ Len(line) \in Nat \ {0}
           /\ DOMAIN line = 1..Len(line)
           /\ 1 \in DOMAIN line
           /\ line[1] \in Token
<1>1. line \in Seq(Token)
  BY MinerAssumption DEF Token
<1>2. Len(line) \in Nat \ {0} /\ DOMAIN line = 1..Len(line)
  BY <1>1, EmptySeq, LenProperties
<1>3. 1 \in DOMAIN line
  BY <1>2
<1> QED
  BY <1>1, <1>2, <1>3

LEMMA KeyFacts ==
    ASSUME NEW line \in Lines, line # <<>>, total \in Nat
    PROVE  /\ KeyOf(line) \in Key
           /\ KeyOf(line)[1] = Len(line)
           /\ KeyOf(line)[2] \in {line[1], Placeholder}
           /\ KeyOf(line)[2] # Placeholder => total < MaxTotal
  BY LineFacts, MinerAssumption DEF KeyOf, Key, Token

(***************************************************************************)
(* Agreement counts positions of the line; it is positive exactly when     *)
(* there is one that agrees.                                               *)
(***************************************************************************)
LEMMA AgreementFacts ==
    ASSUME NEW line \in Lines, line # <<>>, NEW tokens
    PROVE  /\ Agreement(tokens, line) \in 0..Len(line)
           /\ \A i \in DOMAIN line :
                 tokens[i] \in {line[i], Placeholder} => Agreement(tokens, line) > 0
<1> DEFINE S == {i \in DOMAIN line : tokens[i] \in {line[i], Placeholder}}
<1>1. Len(line) \in Nat /\ DOMAIN line = 1..Len(line)
  BY LineFacts
<1>2. IsFiniteSet(1..Len(line)) /\ Cardinality(1..Len(line)) = Len(line)
  BY <1>1, FS_Interval
<1>3. S \in SUBSET (1..Len(line))
  BY <1>1
<1>4. IsFiniteSet(S) /\ Cardinality(S) <= Len(line)
  BY <1>2, <1>3, FS_Subset
<1>5. Cardinality(S) \in Nat
  BY <1>4, FS_CardinalityType
<1>6. \A i \in S : Cardinality(S) # 0
  BY <1>4, FS_EmptySet
<1>7. Agreement(tokens, line) = Cardinality(S)
  BY DEF Agreement
<1>8. \A i \in DOMAIN line : tokens[i] \in {line[i], Placeholder} => i \in S
  OBVIOUS
<1> HIDE DEF S
<1>9. Agreement(tokens, line) \in 0..Len(line)
  BY <1>1, <1>4, <1>5, <1>7
<1>10. \A i \in DOMAIN line :
          tokens[i] \in {line[i], Placeholder} => Agreement(tokens, line) > 0
  BY <1>5, <1>6, <1>7, <1>8
<1> QED
  BY <1>9, <1>10

(***************************************************************************)
(* When some cluster of a bucket agrees with a line anywhere, there is a   *)
(* closest one.                                                            *)
(***************************************************************************)
LEMMA BestExists ==
    ASSUME NEW bucket \in Seq(Cluster), NEW line \in Lines, line # <<>>,
           NEW b0 \in DOMAIN bucket, Agreement(bucket[b0].tokens, line) > 0
    PROVE  Best(bucket, line) # {}
<1> DEFINE A(b) == Agreement(bucket[b].tokens, line)
<1>1. Len(line) \in Nat /\ \A b \in DOMAIN bucket : A(b) \in 0..Len(line)
  BY LineFacts, AgreementFacts
<1>2. DOMAIN bucket = 1..Len(bucket) /\ Len(bucket) \in Nat
  BY LenProperties
<1>a. A(b0) > 0
  OBVIOUS
<1> HIDE DEF A
<1>3. PICK b1 \in DOMAIN bucket : \A b \in DOMAIN bucket : A(b) <= A(b1)
  <2> DEFINE T == {Len(line) - A(b) : b \in DOMAIN bucket}
  <2>1. T \subseteq Nat /\ T # {}
    BY <1>1
  <2>2. PICK x \in T : \A y \in T : x <= y
    BY <2>1, LeastNat
  <2>3. PICK b1 \in DOMAIN bucket : x = Len(line) - A(b1)
    BY <2>2
  <2>4. \A b \in DOMAIN bucket : Len(line) - A(b1) <= Len(line) - A(b)
    BY <2>2, <2>3
  <2> QED
    BY <2>4, <1>1
<1>4. PICK b2 \in {b \in DOMAIN bucket : A(b) = A(b1)} :
         \A b \in {b \in DOMAIN bucket : A(b) = A(b1)} : b2 <= b
  <2> DEFINE T == {b \in DOMAIN bucket : A(b) = A(b1)}
  <2>1. T \subseteq Nat /\ T # {}
    BY <1>2
  <2> QED
    BY <2>1, LeastNat
<1>5. A(b2) > 0
  BY <1>a, <1>1, <1>3, <1>4
<1>6. \A o \in DOMAIN bucket : A(o) < A(b2) \/ (A(o) = A(b2) /\ b2 <= o)
  BY <1>1, <1>3, <1>4
<1> QED
  BY <1>4, <1>5, <1>6 DEF Best, A
-----------------------------------------------------------------------------
(***************************************************************************)
(* A cluster of the bucket with key k, as every history leaves it.         *)
(***************************************************************************)
Placeholders(c) ==
    \A i \in DOMAIN c.tokens :
       c.tokens[i] = Placeholder =>
          \E l, m \in c.lines : l[i] # m[i] \/ l[i] = Placeholder

ClusterOK(k, c) ==
    /\ c \in Cluster
    /\ c.lines # {}
    /\ Len(c.tokens) = k[1] /\ k[1] \in Nat \ {0}
    /\ \A l \in c.lines : Explains(c.tokens, l)
    /\ Placeholders(c)
    /\ k[2] # Placeholder => c.tokens[1] = k[2]

\* k is the key the line goes to.
Fits(k, line) == k[1] = Len(line) /\ k[2] \in {line[1], Placeholder}

LEMMA NewClusterOK ==
    ASSUME NEW line \in Lines, line # <<>>, NEW k, Fits(k, line)
    PROVE  ClusterOK(k, [tokens |-> line, seen |-> 1, lines |-> {line}])
  BY LineFacts DEF ClusterOK, Cluster, Explains, Placeholders, Fits

MergedWith(c, line) ==
    [tokens |-> Generalise(c.tokens, line), seen |-> c.seen + 1,
     lines |-> c.lines \cup {line}]

LEMMA MergedOK ==
    ASSUME NEW k, NEW c, ClusterOK(k, c),
           NEW line \in Lines, line # <<>>, Fits(k, line)
    PROVE  ClusterOK(k, MergedWith(c, line))
<1> DEFINE new == MergedWith(c, line)
           g == Generalise(c.tokens, line)
<1>1. /\ c.tokens \in Seq(Token) /\ c.seen \in Nat /\ c.lines \in SUBSET Lines
      /\ Len(c.tokens) = Len(line) /\ Len(line) \in Nat \ {0}
      /\ DOMAIN c.tokens = 1..Len(line) /\ DOMAIN line = 1..Len(line)
      /\ line \in Seq(Token)
  BY LineFacts, LenProperties DEF ClusterOK, Cluster, Fits
<1>2. /\ new.tokens = g /\ new.seen = c.seen + 1 /\ new.lines = c.lines \cup {line}
      /\ new = [tokens |-> g, seen |-> c.seen + 1, lines |-> c.lines \cup {line}]
  BY DEF MergedWith
<1>3. \A i \in 1..Len(line) :
         g[i] = IF c.tokens[i] = line[i] THEN line[i] ELSE Placeholder
  BY <1>1 DEF Generalise
<1>4. g \in Seq(Token) /\ Len(g) = Len(line) /\ DOMAIN g = 1..Len(line)
  <2>1. \A i \in 1..Len(line) : line[i] \in Token /\ Placeholder \in Token
    BY <1>1, ElementOfSeq DEF Token
  <2>2. g = [i \in 1..Len(line) |->
               IF c.tokens[i] = line[i] THEN line[i] ELSE Placeholder]
    BY <1>1 DEF Generalise
  <2>3. g \in [1..Len(line) -> Token]
    BY <2>1, <2>2
  <2> QED
    BY <1>1, <2>3
<1> HIDE DEF new, g
<1>5. new \in Cluster
  BY <1>1, <1>2, <1>4 DEF Cluster
<1>6. \A l \in c.lines : Explains(c.tokens, l)
  BY DEF ClusterOK
<1>7. \A l \in new.lines : Explains(g, l)
  <2> SUFFICES ASSUME NEW l \in new.lines PROVE Explains(g, l)
    OBVIOUS
  <2>1. CASE l = line
    BY <2>1, <1>1, <1>3, <1>4 DEF Explains
  <2>2. CASE l \in c.lines
    <3>1. l \in Lines /\ Len(l) = Len(line)
      BY <2>2, <1>1, <1>6 DEF Explains
    <3>2. DOMAIN l = 1..Len(line)
      BY <3>1, <1>1, LineFacts, EmptySeq
    <3>3. \A i \in 1..Len(line) : c.tokens[i] \in {l[i], Placeholder}
      BY <2>2, <3>2, <1>6 DEF Explains
    <3> QED
      BY <3>1, <3>2, <3>3, <1>3, <1>4 DEF Explains
  <2> QED
    BY <2>1, <2>2, <1>2
<1>8. Placeholders(new)
  <2> SUFFICES ASSUME NEW i \in 1..Len(line), g[i] = Placeholder
               PROVE  \E l, m \in new.lines : l[i] # m[i] \/ l[i] = Placeholder
    BY <1>2, <1>4 DEF Placeholders
  <2>1. line \in new.lines /\ c.lines \subseteq new.lines
    BY <1>2
  <2>2. CASE c.tokens[i] = line[i]
    BY <2>1, <2>2, <1>3
  <2>3. CASE c.tokens[i] = Placeholder
    <3>1. \E l, m \in c.lines : l[i] # m[i] \/ l[i] = Placeholder
      BY <2>3, <1>1 DEF ClusterOK, Placeholders
    <3> QED
      BY <2>1, <3>1
  <2>4. CASE c.tokens[i] # line[i] /\ c.tokens[i] # Placeholder
    <3>1. PICK l \in c.lines : TRUE
      BY DEF ClusterOK
    <3>2. DOMAIN l = 1..Len(line)
      <4>1. l \in Lines /\ Len(l) = Len(line)
        BY <3>1, <1>1, <1>6 DEF Explains
      <4> QED
        BY <4>1, <1>1, LineFacts, EmptySeq
    <3>3. c.tokens[i] \in {l[i], Placeholder}
      BY <3>1, <3>2, <1>6 DEF Explains
    <3>4. l[i] # line[i]
      BY <2>4, <3>3
    <3> QED
      BY <2>1, <3>1, <3>4
  <2> QED
    BY <2>2, <2>3, <2>4
<1>9. k[2] # Placeholder => g[1] = k[2]
  <2>1. k[2] # Placeholder => c.tokens[1] = k[2] /\ k[2] = line[1]
    BY DEF ClusterOK, Fits
  <2> QED
    BY <2>1, <1>1, <1>3
<1>10. Len(g) = k[1] /\ k[1] \in Nat \ {0} /\ new.lines # {}
  BY <1>1, <1>2, <1>4 DEF Fits
<1> QED
  BY <1>2, <1>5, <1>7, <1>8, <1>9, <1>10 DEF ClusterOK, new
-----------------------------------------------------------------------------
(***************************************************************************)
(* The inductive invariant.  The cap on buckets named by a word needs that *)
(* total counts every cluster there is; that nothing of such a bucket is   *)
(* ever dropped needs that its clusters keep the word.                     *)
(***************************************************************************)
Named == {kb \in Kept : kb[1][2] # Placeholder}

IInv ==
    /\ TypeOK
    /\ \A k \in Key : Len(clusters[k]) <= MaxPerBucket
    /\ \A k \in Key : \A b \in DOMAIN clusters[k] : ClusterOK(k, clusters[k][b])
    /\ \A d \in DOMAIN dropped : dropped[d][2] = Placeholder
    /\ IsFiniteSet(Kept) /\ total = Cardinality(Kept)
    /\ Cardinality(Named) <= MaxTotal

LEMMA KeptFacts ==
    \A kb : kb \in Kept <=> \E k \in Key : \E b \in DOMAIN clusters[k] : kb = <<k, b>>
  BY DEF Kept

LEMMA InitIInv == Init => IInv
<1> SUFFICES ASSUME Init PROVE IInv
  OBVIOUS
<1>1. Kept = {}
  BY KeptFacts DEF Init
<1>2. Named = {}
  BY <1>1 DEF Named
<1>3. TypeOK
  BY MinerAssumption DEF Init, TypeOK
<1>4. Cardinality({}) = 0 /\ IsFiniteSet({})
  BY FS_EmptySet
<1> QED
  BY <1>1, <1>2, <1>3, <1>4, MinerAssumption DEF Init, IInv

\* What Feed does, and what is known of the bucket the line goes to.
LEMMA FeedFacts ==
    ASSUME IInv, NEW line \in Lines, Feed(line)
    PROVE  /\ line # <<>>
           /\ KeyOf(line) \in Key
           /\ Fits(KeyOf(line), line)
           /\ clusters[KeyOf(line)] \in Seq(Cluster)
           /\ KeyOf(line)[2] # Placeholder => total < MaxTotal
           /\ count' \in 0..MaxLines
           /\ fed' \in [Lines -> Nat]
<1>1. line # <<>> /\ total \in Nat /\ clusters \in [Key -> Seq(Cluster)]
  BY DEF Feed, IInv, TypeOK
<1>2. count' \in 0..MaxLines /\ fed' \in [Lines -> Nat]
  BY MinerAssumption DEF Feed, IInv, TypeOK
<1> QED
  BY <1>1, <1>2, KeyFacts DEF Fits

(***************************************************************************)
(* A new cluster is the last of its bucket, so total grows with Kept; one  *)
(* in a bucket named by a word is made only below the total cap.           *)
(***************************************************************************)
LEMMA AddFacts ==
    ASSUME IInv, NEW line \in Lines, AddCluster(line)
    PROVE  \E new, at :
              /\ new = [tokens |-> line, seen |-> 1, lines |-> {line}]
              /\ ClusterOK(KeyOf(line), new)
              /\ at = <<KeyOf(line), Len(clusters[KeyOf(line)]) + 1>>
              /\ clusters' \in [Key -> Seq(Cluster)]
              /\ clusters'[KeyOf(line)] = Append(clusters[KeyOf(line)], new)
              /\ \A k \in Key \ {KeyOf(line)} : clusters'[k] = clusters[k]
              /\ \A b \in DOMAIN clusters[KeyOf(line)] :
                    clusters'[KeyOf(line)][b] = clusters[KeyOf(line)][b]
              /\ DOMAIN clusters'[KeyOf(line)] =
                    DOMAIN clusters[KeyOf(line)] \cup {Len(clusters[KeyOf(line)]) + 1}
              /\ clusters'[KeyOf(line)][Len(clusters[KeyOf(line)]) + 1] = new
              /\ Kept' = Kept \cup {at} /\ at \notin Kept
<1> DEFINE key == KeyOf(line)
           new == [tokens |-> line, seen |-> 1, lines |-> {line}]
           at == <<key, Len(clusters[key]) + 1>>
<1>1. /\ line # <<>> /\ key \in Key /\ Fits(key, line)
      /\ clusters[key] \in Seq(Cluster)
      /\ key[2] # Placeholder => total < MaxTotal
      /\ count' \in 0..MaxLines /\ fed' \in [Lines -> Nat]
  BY FeedFacts DEF AddCluster
<1>2. /\ Len(clusters[key]) < MaxPerBucket
      /\ clusters' = [clusters EXCEPT ![key] = Append(@, new)]
      /\ total' = total + 1 /\ dropped' = dropped
  BY DEF AddCluster, HasRoom
<1>3. ClusterOK(key, new)
  BY <1>1, NewClusterOK
<1>4. new \in Cluster
  BY <1>3 DEF ClusterOK
<1> HIDE DEF key, new
<1>5. /\ clusters \in [Key -> Seq(Cluster)] /\ total \in Nat
      /\ MaxPerBucket \in Nat /\ MaxTotal \in Nat
  BY MinerAssumption DEF IInv, TypeOK
<1>6. /\ Len(clusters[key]) \in Nat
      /\ Append(clusters[key], new) \in Seq(Cluster)
      /\ Len(Append(clusters[key], new)) = Len(clusters[key]) + 1
      /\ DOMAIN clusters[key] = 1..Len(clusters[key])
      /\ DOMAIN Append(clusters[key], new) = 1..(Len(clusters[key]) + 1)
      /\ \A b \in 1..Len(clusters[key]) : Append(clusters[key], new)[b] = clusters[key][b]
      /\ Append(clusters[key], new)[Len(clusters[key]) + 1] = new
  BY <1>1, <1>4
<1>7. /\ clusters' \in [Key -> Seq(Cluster)]
      /\ clusters'[key] = Append(clusters[key], new)
      /\ \A k \in Key \ {key} : clusters'[k] = clusters[k]
  BY <1>1, <1>2, <1>5, <1>6
<1>8. Kept' = Kept \cup {at} /\ at \notin Kept
  <2>1. \A kb : kb \in Kept' <=> \E k \in Key : \E b \in DOMAIN clusters'[k] : kb = <<k, b>>
    BY DEF Kept
  <2>2. DOMAIN clusters'[key] = DOMAIN clusters[key] \cup {Len(clusters[key]) + 1}
    BY <1>6, <1>7
  <2>3. Len(clusters[key]) + 1 \notin DOMAIN clusters[key]
    BY <1>6
  <2>4. \A k \in Key \ {key} : DOMAIN clusters'[k] = DOMAIN clusters[k]
    BY <1>7
  <2>5. at \notin Kept
    BY <2>3, KeptFacts
  <2>6. ASSUME NEW kb \in Kept' PROVE kb \in Kept \cup {at}
    <3>1. PICK k \in Key : \E b \in DOMAIN clusters'[k] : kb = <<k, b>>
      BY <2>1, <2>6
    <3>2. CASE k = key
      BY <2>2, <3>1, <3>2, KeptFacts
    <3>3. CASE k # key
      BY <2>4, <3>1, <3>3, KeptFacts
    <3> QED
      BY <3>2, <3>3
  <2>7. ASSUME NEW kb \in Kept PROVE kb \in Kept'
    <3>1. PICK k \in Key : \E b \in DOMAIN clusters[k] : kb = <<k, b>>
      BY KeptFacts
    <3>2. \E b \in DOMAIN clusters'[k] : kb = <<k, b>>
      BY <2>2, <2>4, <3>1
    <3> QED
      BY <2>1, <3>2
  <2>8. at \in Kept'
    BY <2>1, <2>2, <1>1
  <2> QED
    BY <2>5, <2>6, <2>7, <2>8
<1>9. /\ DOMAIN clusters'[key] = DOMAIN clusters[key] \cup {Len(clusters[key]) + 1}
      /\ \A b \in DOMAIN clusters[key] : clusters'[key][b] = clusters[key][b]
      /\ clusters'[key][Len(clusters[key]) + 1] = new
  BY <1>6, <1>7
<1> QED
  BY <1>3, <1>7, <1>8, <1>9 DEF key, new

LEMMA AddClusterIInv == ASSUME IInv, NEW line \in Lines, AddCluster(line) PROVE IInv'
<1> DEFINE key == KeyOf(line)
<1>1. /\ line # <<>> /\ key \in Key /\ Fits(key, line)
      /\ clusters[key] \in Seq(Cluster)
      /\ key[2] # Placeholder => total < MaxTotal
      /\ count' \in 0..MaxLines /\ fed' \in [Lines -> Nat]
  BY FeedFacts DEF AddCluster
<1>2. /\ Len(clusters[key]) < MaxPerBucket
      /\ total' = total + 1 /\ dropped' = dropped
  BY DEF AddCluster, HasRoom
<1>3. PICK new, at :
         /\ ClusterOK(key, new)
         /\ at = <<key, Len(clusters[key]) + 1>>
         /\ clusters' \in [Key -> Seq(Cluster)]
         /\ clusters'[key] = Append(clusters[key], new)
         /\ \A k \in Key \ {key} : clusters'[k] = clusters[k]
         /\ \A b \in DOMAIN clusters[key] : clusters'[key][b] = clusters[key][b]
         /\ DOMAIN clusters'[key] = DOMAIN clusters[key] \cup {Len(clusters[key]) + 1}
         /\ clusters'[key][Len(clusters[key]) + 1] = new
         /\ Kept' = Kept \cup {at} /\ at \notin Kept
  BY AddFacts
<1> HIDE DEF key
<1>5. /\ clusters \in [Key -> Seq(Cluster)] /\ total \in Nat
      /\ MaxPerBucket \in Nat /\ MaxTotal \in Nat
  BY MinerAssumption DEF IInv, TypeOK
<1>6. /\ Len(clusters[key]) \in Nat
      /\ Len(Append(clusters[key], new)) = Len(clusters[key]) + 1
  BY <1>1, <1>3 DEF ClusterOK
<1>8. TypeOK'
  BY <1>1, <1>2, <1>3, <1>5 DEF TypeOK, IInv
<1>9. \A k \in Key : Len(clusters'[k]) <= MaxPerBucket
  BY <1>2, <1>3, <1>5, <1>6 DEF IInv
<1>10. \A k \in Key : \A b \in DOMAIN clusters'[k] : ClusterOK(k, clusters'[k][b])
  <2> SUFFICES ASSUME NEW k \in Key, NEW b \in DOMAIN clusters'[k]
               PROVE  ClusterOK(k, clusters'[k][b])
    OBVIOUS
  <2>1. CASE k # key
    BY <2>1, <1>3 DEF IInv
  <2>2. CASE k = key /\ b \in DOMAIN clusters[key]
    <3>1. clusters'[k][b] = clusters[k][b]
      BY <2>2, <1>3
    <3> QED
      BY <2>2, <3>1 DEF IInv
  <2>3. CASE k = key /\ b \notin DOMAIN clusters[key]
    BY <2>3, <1>3
  <2> QED
    BY <2>1, <2>2, <2>3
<1>12. IsFiniteSet(Kept') /\ Cardinality(Kept') = total'
  BY <1>2, <1>3, FS_AddElement DEF IInv
<1>13. Cardinality(Named') <= MaxTotal
  <2>1. IsFiniteSet(Kept) /\ Cardinality(Kept) = total /\ Named \in SUBSET Kept
        /\ Cardinality(Named) <= MaxTotal
    BY DEF IInv, Named
  <2>2. IsFiniteSet(Named) /\ Cardinality(Named) <= total
    BY <2>1, FS_Subset
  <2>3. CASE key[2] = Placeholder
    <3>1. Named' = Named
      BY <2>3, <1>3 DEF Named
    <3> QED
      BY <2>1, <3>1
  <2>4. CASE key[2] # Placeholder
    <3>1. Named' = Named \cup {at} /\ at \notin Named
      BY <2>4, <1>3 DEF Named
    <3>2. Cardinality(Named') = Cardinality(Named) + 1
      BY <2>2, <3>1, FS_AddElement
    <3>3. total < MaxTotal /\ Cardinality(Named) \in Nat
      BY <2>2, <2>4, <1>1, FS_CardinalityType
    <3> QED
      BY <2>2, <3>2, <3>3, <1>5
  <2> QED
    BY <2>3, <2>4
<1>14. \A d \in DOMAIN dropped' : dropped'[d][2] = Placeholder
  BY <1>2 DEF IInv
<1> QED
  BY <1>8, <1>9, <1>10, <1>12, <1>13, <1>14 DEF IInv, ClusterOK, Placeholders, Explains

(***************************************************************************)
(* A merge changes one cluster in place: Kept and total stay.              *)
(***************************************************************************)
LEMMA MergeFacts ==
    ASSUME IInv, NEW line \in Lines, Merge(line)
    PROVE  \E b \in DOMAIN clusters[KeyOf(line)] :
              /\ ClusterOK(KeyOf(line), clusters[KeyOf(line)][b])
              /\ ClusterOK(KeyOf(line), MergedWith(clusters[KeyOf(line)][b], line))
              /\ clusters' \in [Key -> Seq(Cluster)]
              /\ \A k \in Key : DOMAIN clusters'[k] = DOMAIN clusters[k]
              /\ \A k \in Key : Len(clusters'[k]) = Len(clusters[k])
              /\ \A k \in Key : \A o \in DOMAIN clusters[k] :
                    clusters'[k][o] =
                       IF k = KeyOf(line) /\ o = b THEN MergedWith(clusters[k][b], line)
                       ELSE clusters[k][o]
<1> DEFINE key == KeyOf(line)
<1>1. /\ line # <<>> /\ key \in Key /\ Fits(key, line)
      /\ clusters[key] \in Seq(Cluster)
  BY FeedFacts DEF Merge
<1>2. clusters \in [Key -> Seq(Cluster)]
  BY DEF IInv, TypeOK
<1> HIDE DEF key
<1>3. PICK b \in Best(clusters[key], line) :
         clusters' = [clusters EXCEPT ![key][b] =
                         [tokens |-> Generalise(@.tokens, line),
                          seen   |-> @.seen + 1,
                          lines  |-> @.lines \cup {line}]]
  BY DEF Merge, key
<1>4. b \in DOMAIN clusters[key] /\ DOMAIN clusters[key] = 1..Len(clusters[key])
      /\ Len(clusters[key]) \in Nat
  BY <1>1, <1>3, LenProperties DEF Best
<1>5. ClusterOK(key, clusters[key][b])
  BY <1>1, <1>4 DEF IInv
<1>6. ClusterOK(key, MergedWith(clusters[key][b], line))
  BY <1>1, <1>5, MergedOK
<1> DEFINE new == MergedWith(clusters[key][b], line)
<1>7. clusters' = [clusters EXCEPT ![key] = [clusters[key] EXCEPT ![b] = new]]
  BY <1>3 DEF MergedWith
<1>8. new \in Cluster
  BY <1>6 DEF ClusterOK
<1> HIDE DEF new
<1>9. /\ [clusters[key] EXCEPT ![b] = new] \in Seq(Cluster)
      /\ Len([clusters[key] EXCEPT ![b] = new]) = Len(clusters[key])
      /\ DOMAIN [clusters[key] EXCEPT ![b] = new] = DOMAIN clusters[key]
      /\ \A o \in DOMAIN clusters[key] :
            [clusters[key] EXCEPT ![b] = new][o] = IF o = b THEN new ELSE clusters[key][o]
  BY <1>1, <1>4, <1>8, ExceptSeq
<1>10. /\ clusters' \in [Key -> Seq(Cluster)]
       /\ clusters'[key] = [clusters[key] EXCEPT ![b] = new]
       /\ \A k \in Key \ {key} : clusters'[k] = clusters[k]
  BY <1>1, <1>2, <1>7, <1>9
<1>11. /\ \A k \in Key : DOMAIN clusters'[k] = DOMAIN clusters[k]
       /\ \A k \in Key : Len(clusters'[k]) = Len(clusters[k])
  BY <1>9, <1>10
<1>12. \A k \in Key : \A o \in DOMAIN clusters[k] :
          clusters'[k][o] =
             IF k = key /\ o = b THEN MergedWith(clusters[k][b], line) ELSE clusters[k][o]
  BY <1>9, <1>10 DEF new
<1> QED
  BY <1>4, <1>5, <1>6, <1>10, <1>11, <1>12 DEF key

LEMMA MergeIInv == ASSUME IInv, NEW line \in Lines, Merge(line) PROVE IInv'
<1>1. PICK b \in DOMAIN clusters[KeyOf(line)] :
              /\ ClusterOK(KeyOf(line), MergedWith(clusters[KeyOf(line)][b], line))
              /\ clusters' \in [Key -> Seq(Cluster)]
              /\ \A k \in Key : DOMAIN clusters'[k] = DOMAIN clusters[k]
              /\ \A k \in Key : Len(clusters'[k]) = Len(clusters[k])
              /\ \A k \in Key : \A o \in DOMAIN clusters[k] :
                    clusters'[k][o] =
                       IF k = KeyOf(line) /\ o = b THEN MergedWith(clusters[k][b], line)
                       ELSE clusters[k][o]
  BY MergeFacts
<1>2. count' \in 0..MaxLines /\ fed' \in [Lines -> Nat]
  BY FeedFacts DEF Merge
<1>3. total' = total /\ dropped' = dropped
  BY DEF Merge
<1>4. TypeOK'
  BY <1>1, <1>2, <1>3 DEF TypeOK, IInv
<1>5. \A k \in Key : \A o \in DOMAIN clusters'[k] : ClusterOK(k, clusters'[k][o])
  <2> SUFFICES ASSUME NEW k \in Key, NEW o \in DOMAIN clusters[k]
               PROVE  ClusterOK(k, clusters'[k][o])
    BY <1>1
  <2>1. ClusterOK(k, clusters[k][o])
    BY DEF IInv
  <2> QED
    BY <1>1, <2>1
<1>6. Kept' = Kept
  BY <1>1 DEF Kept
<1>7. Named' = Named
  BY <1>6 DEF Named
<1>8. \A k \in Key : Len(clusters'[k]) <= MaxPerBucket
  BY <1>1 DEF IInv
<1> QED
  BY <1>3, <1>4, <1>5, <1>6, <1>7, <1>8
     DEF IInv, ClusterOK, Placeholders, Explains

(***************************************************************************)
(* A full bucket named by a word always has a closest cluster: its first   *)
(* one begins with the word, and so does the line.                         *)
(***************************************************************************)
LEMMA DropIInv == ASSUME IInv, NEW line \in Lines, Drop(line) PROVE IInv'
<1> DEFINE key == KeyOf(line)
<1>1. /\ line # <<>> /\ key \in Key /\ Fits(key, line)
      /\ clusters[key] \in Seq(Cluster)
      /\ count' \in 0..MaxLines /\ fed' \in [Lines -> Nat]
  BY FeedFacts DEF Drop
<1>2. /\ ~(Len(clusters[key]) < MaxPerBucket) /\ Best(clusters[key], line) = {}
      /\ dropped' = Append(dropped, key) /\ clusters' = clusters /\ total' = total
  BY DEF Drop, HasRoom
<1> HIDE DEF key
<1>3. key[2] = Placeholder
  <2> SUFFICES ASSUME key[2] # Placeholder PROVE FALSE
    OBVIOUS
  <2>1. 1 \in DOMAIN clusters[key]
    BY <1>1, <1>2, LenProperties, MinerAssumption
  <2>2. clusters[key][1].tokens[1] = line[1]
    BY <1>1, <2>1 DEF IInv, ClusterOK, Fits
  <2>3. 1 \in DOMAIN line
    BY <1>1, LineFacts
  <2>4. Agreement(clusters[key][1].tokens, line) > 0
    BY <1>1, <2>2, <2>3, AgreementFacts
  <2> QED
    BY <1>1, <1>2, <2>1, <2>4, BestExists
<1>4. /\ dropped' \in Seq(Key)
      /\ \A d \in DOMAIN dropped' : dropped'[d][2] = Placeholder
  BY <1>1, <1>2, <1>3 DEF IInv, TypeOK
<1>5. TypeOK'
  BY <1>1, <1>2, <1>4 DEF IInv, TypeOK
<1>6. Kept' = Kept /\ Named' = Named
  BY <1>2 DEF Kept, Named
<1> QED
  BY <1>2, <1>4, <1>5, <1>6 DEF IInv, ClusterOK, Placeholders, Explains

LEMMA NextIInv == IInv /\ [Next]_vars => IInv'
<1> SUFFICES ASSUME IInv, [Next]_vars PROVE IInv'
  OBVIOUS
<1>1. CASE UNCHANGED vars
  BY <1>1 DEF vars, IInv, TypeOK, Kept, Named, ClusterOK, Placeholders, Explains
<1>2. ASSUME NEW line \in Lines, AddBlank(line) PROVE IInv'
  BY <1>1, <1>2 DEF AddBlank
<1> QED
  BY <1>1, <1>2, AddClusterIInv, MergeIInv, DropIInv DEF Next

LEMMA IInvHolds == Spec => []IInv
  BY InitIInv, NextIInv, PTL DEF Spec

-----------------------------------------------------------------------------
(***************************************************************************)
(* TypeOK for all values of the constants.                                 *)
(***************************************************************************)
THEOREM MinerTyped == Spec => []TypeOK
<1>1. IInv => TypeOK
  BY DEF IInv
<1> QED
  BY <1>1, IInvHolds, PTL

(***************************************************************************)
(* Whatever the order of the lines, a cluster explains all it took, and    *)
(* has a placeholder only where two of them differ: LeastGeneralisation.   *)
(***************************************************************************)
THEOREM ClustersLeastGeneral == Spec => []LeastGeneralisation
<1>1. IInv => LeastGeneralisation
  <2> SUFFICES ASSUME IInv, NEW kb \in Kept
               PROVE  /\ \A l \in At(kb).lines : Explains(At(kb).tokens, l)
                      /\ Placeholders(At(kb))
    BY DEF LeastGeneralisation, Placeholders
  <2>1. PICK k \in Key : \E b \in DOMAIN clusters[k] : kb = <<k, b>>
    BY KeptFacts
  <2>2. ClusterOK(k, At(kb))
    BY <2>1 DEF At, IInv
  <2> QED
    BY <2>2 DEF ClusterOK
<1> QED
  BY <1>1, IInvHolds, PTL

(***************************************************************************)
(* BucketsBounded for all caps: a bucket never exceeds its own, and the    *)
(* buckets named by a word never exceed the total cap between them.        *)
(***************************************************************************)
THEOREM CapsHold == Spec => []BucketsBounded
<1>1. IInv => BucketsBounded
  BY DEF IInv, BucketsBounded, Named
<1> QED
  BY <1>1, IInvHolds, PTL

(***************************************************************************)
(* The word a bucket is named after survives in all its clusters, so no    *)
(* line with a constant first word is dropped below the total cap.         *)
(***************************************************************************)
THEOREM LeadingWordSurvives == Spec => []LeadingWordKept
<1>1. IInv => LeadingWordKept
  <2> SUFFICES ASSUME IInv, NEW kb \in Kept, kb[1][2] # Placeholder
               PROVE  At(kb).tokens[1] = kb[1][2]
    BY DEF LeadingWordKept, IInv
  <2>1. PICK k \in Key : \E b \in DOMAIN clusters[k] : kb = <<k, b>>
    BY KeptFacts
  <2>2. ClusterOK(k, At(kb))
    BY <2>1 DEF At, IInv
  <2> QED
    BY <2>1, <2>2 DEF ClusterOK
<1> QED
  BY <1>1, IInvHolds, PTL

LEMMA MergedExplains ==
    ASSUME NEW k, NEW c, ClusterOK(k, c), NEW line \in Lines, line # <<>>,
           Fits(k, line), NEW l \in Lines, Explains(c.tokens, l)
    PROVE  Explains(MergedWith(c, line).tokens, l)
<1>1. /\ c.tokens \in Seq(Token) /\ l \in Seq(Token)
      /\ Len(c.tokens) = Len(l) /\ Len(c.tokens) = Len(line)
  BY MinerAssumption DEF ClusterOK, Cluster, Explains, Fits, Token
<1>2. /\ DOMAIN c.tokens = 1..Len(l) /\ DOMAIN l = 1..Len(l) /\ Len(l) \in Nat
      /\ line \in Seq(Token)
  BY <1>1, LineFacts, LenProperties
<1>3. MergedWith(c, line).tokens =
         [i \in 1..Len(l) |-> IF c.tokens[i] = line[i] THEN line[i] ELSE Placeholder]
  BY <1>2 DEF MergedWith, Generalise
<1>4. \A i \in 1..Len(l) : line[i] \in Token
  BY <1>1, <1>2, ElementOfSeq
<1>5. MergedWith(c, line).tokens \in [1..Len(l) -> Token]
  BY <1>3, <1>4 DEF Token
<1>6. Len(MergedWith(c, line).tokens) = Len(l)
  BY <1>2, <1>5
<1>7. \A i \in 1..Len(l) : c.tokens[i] \in {l[i], Placeholder}
  BY <1>2 DEF Explains
<1> QED
  BY <1>2, <1>3, <1>6, <1>7 DEF Explains

(***************************************************************************)
(* OnlyGeneralises: no cluster goes away, and none ever explains less.     *)
(***************************************************************************)
THEOREM ClustersOnlyGeneralise == Spec => OnlyGeneralises
<1> DEFINE Step == \A kb \in Kept :
          /\ kb \in Kept'
          /\ \A l \in Lines : Explains(At(kb).tokens, l) => Explains(At(kb)'.tokens, l)
<1>1. IInv /\ [Next]_vars => [Step]_vars
  <2> SUFFICES ASSUME IInv, [Next]_vars PROVE Step \/ UNCHANGED vars
    OBVIOUS
  <2>1. ASSUME NEW line \in Lines, AddCluster(line) PROVE Step
    <3>1. /\ KeyOf(line) \in Key /\ clusters[KeyOf(line)] \in Seq(Cluster)
          /\ clusters \in [Key -> Seq(Cluster)]
          /\ line # <<>> /\ Fits(KeyOf(line), line)
      BY <2>1, FeedFacts DEF AddCluster, IInv, TypeOK
    <3> DEFINE new == [tokens |-> line, seen |-> 1, lines |-> {line}]
    <3>2. new \in Cluster
      BY <3>1, NewClusterOK DEF ClusterOK
    <3>3. clusters' = [clusters EXCEPT ![KeyOf(line)] = Append(@, new)]
      BY <2>1 DEF AddCluster
    <3> HIDE DEF new
    <3>4. \A k \in Key : \A b \in DOMAIN clusters[k] :
             b \in DOMAIN clusters'[k] /\ clusters'[k][b] = clusters[k][b]
      BY <3>1, <3>2, <3>3
    <3>5. \A kb \in Kept : kb \in Kept' /\ At(kb)' = At(kb)
      BY <3>4, KeptFacts DEF Kept, At
    <3> QED
      BY <3>5
  <2>2. ASSUME NEW line \in Lines, Merge(line) PROVE Step
    <3>1. line # <<>> /\ Fits(KeyOf(line), line) /\ KeyOf(line) \in Key
      BY <2>2, FeedFacts DEF Merge
    <3>2. PICK b \in DOMAIN clusters[KeyOf(line)] :
              /\ ClusterOK(KeyOf(line), clusters[KeyOf(line)][b])
              /\ \A k \in Key : DOMAIN clusters'[k] = DOMAIN clusters[k]
              /\ \A k \in Key : \A o \in DOMAIN clusters[k] :
                    clusters'[k][o] =
                       IF k = KeyOf(line) /\ o = b THEN MergedWith(clusters[k][b], line)
                       ELSE clusters[k][o]
      BY <2>2, MergeFacts
    <3>3. Kept' = Kept
      BY <3>2 DEF Kept
    <3> SUFFICES ASSUME NEW kb \in Kept, NEW l \in Lines, Explains(At(kb).tokens, l)
                 PROVE  Explains(At(kb)'.tokens, l)
      BY <3>3
    <3>4. PICK k \in Key : \E o \in DOMAIN clusters[k] : kb = <<k, o>>
      BY KeptFacts
    <3>5. PICK o \in DOMAIN clusters[k] : kb = <<k, o>>
      BY <3>4
    <3>6. At(kb) = clusters[k][o] /\ At(kb)' = clusters'[k][o]
      BY <3>5 DEF At
    <3>7. CASE k = KeyOf(line) /\ o = b
      <4>1. At(kb)' = MergedWith(At(kb), line) /\ ClusterOK(KeyOf(line), At(kb))
        BY <3>2, <3>6, <3>7
      <4> QED
        BY <3>1, <4>1, MergedExplains
    <3>8. CASE ~(k = KeyOf(line) /\ o = b)
      BY <3>2, <3>6, <3>8
    <3> QED
      BY <3>7, <3>8
  <2>3. ASSUME NEW line \in Lines, Drop(line) PROVE Step
    BY <2>3 DEF Drop, Kept, At
  <2>4. ASSUME NEW line \in Lines, AddBlank(line) PROVE UNCHANGED vars
    BY <2>4 DEF AddBlank
  <2> QED
    BY <2>1, <2>2, <2>3, <2>4 DEF Next
<1>2. Spec => [][Step]_vars
  BY <1>1, IInvHolds, PTL DEF Spec
<1> QED
  BY <1>2 DEF OnlyGeneralises

-----------------------------------------------------------------------------
(***************************************************************************)
(* The counting invariant: every line counted was seen by a cluster or     *)
(* dropped, and no cluster has seen more lines than were added of those it *)
(* took.  The second says of sums over different sets what each addition   *)
(* of a line does to both.                                                 *)
(***************************************************************************)
Seen == [kb \in Kept |-> At(kb).seen]

CountInv ==
    /\ count = SumFunctionOnSet(Seen, Kept) + Len(dropped)
    /\ \A k \in Key : \A b \in DOMAIN clusters[k] :
          clusters[k][b].seen <= SumFunctionOnSet(fed, clusters[k][b].lines)

LEMMA AtKept ==
    ASSUME IInv
    PROVE  /\ IsFiniteSet(Kept)
           /\ \A kb \in Kept : Seen[kb] \in Nat
<1>1. \A kb \in Kept : At(kb).seen \in Nat
  <2> SUFFICES ASSUME NEW kb \in Kept PROVE At(kb).seen \in Nat
    OBVIOUS
  <2>1. PICK k \in Key : \E b \in DOMAIN clusters[k] : kb = <<k, b>>
    BY KeptFacts
  <2>2. ClusterOK(k, At(kb))
    BY <2>1 DEF At, IInv
  <2> QED
    BY <2>2 DEF ClusterOK, Cluster
<1> QED
  BY <1>1 DEF Seen, IInv

\* The sums over fed: they never shrink, and grow with a line they count.
LEMMA FedGrows ==
    ASSUME IInv, NEW line \in Lines, Feed(line), NEW S \in SUBSET Lines
    PROVE  /\ SumFunctionOnSet(fed, S) \in Nat /\ SumFunctionOnSet(fed', S) \in Nat
           /\ SumFunctionOnSet(fed, S) <= SumFunctionOnSet(fed', S)
           /\ line \in S => SumFunctionOnSet(fed', S) = SumFunctionOnSet(fed, S) + 1
<1>1. IsFiniteSet(S)
  BY MinerAssumption, FS_Subset
<1>2. fed \in [Lines -> Nat] /\ fed' = [fed EXCEPT ![line] = @ + 1]
  BY DEF IInv, TypeOK, Feed
<1>3. /\ fed' \in [Lines -> Nat]
      /\ fed'[line] = fed[line] + 1
      /\ \A l \in Lines \ {line} : fed'[l] = fed[l]
  BY <1>2
<1>4. SumFunctionOnSet(fed, S) \in Nat /\ SumFunctionOnSet(fed', S) \in Nat
  BY <1>1, <1>2, <1>3, SumNat
<1>5. CASE line \in S
  <2>1. SumFunctionOnSet(fed', S) = SumFunctionOnSet(fed, S) + 1
    <3>1. /\ \A l \in S : fed[l] \in Nat /\ 1 \in Nat
          /\ \A l \in S \ {line} : fed'[l] = fed[l]
      BY <1>2, <1>3
    <3> QED
      BY <1>1, <1>3, <1>5, <3>1, SumRaised
  <2> QED
    BY <1>4, <2>1
<1>6. CASE line \notin S
  <2>1. SumFunctionOnSet(fed', S) = SumFunctionOnSet(fed, S)
    BY <1>1, <1>2, <1>3, <1>6, SumSame
  <2> QED
    BY <1>4, <1>6, <2>1
<1> QED
  BY <1>5, <1>6

LEMMA InitCount == Init => CountInv
<1> SUFFICES ASSUME Init PROVE CountInv
  OBVIOUS
<1>1. Kept = {}
  BY KeptFacts DEF Init
<1>2. SumFunctionOnSet(Seen, Kept) = 0
  BY <1>1, SumEmpty
<1> QED
  BY <1>2 DEF Init, CountInv

LEMMA AddClusterCount ==
    ASSUME IInv, CountInv, NEW line \in Lines, AddCluster(line)
    PROVE  CountInv'
<1> DEFINE key == KeyOf(line)
<1>1. /\ Feed(line) /\ key \in Key /\ clusters[key] \in Seq(Cluster)
      /\ count' = count + 1 /\ dropped' = dropped
  BY FeedFacts DEF AddCluster, Feed
<1>2. PICK new, at :
         /\ new = [tokens |-> line, seen |-> 1, lines |-> {line}]
         /\ at = <<key, Len(clusters[key]) + 1>>
         /\ \A k \in Key \ {key} : clusters'[k] = clusters[k]
         /\ \A b \in DOMAIN clusters[key] : clusters'[key][b] = clusters[key][b]
         /\ DOMAIN clusters'[key] = DOMAIN clusters[key] \cup {Len(clusters[key]) + 1}
         /\ clusters'[key][Len(clusters[key]) + 1] = new
         /\ Kept' = Kept \cup {at} /\ at \notin Kept
  BY AddFacts
<1> HIDE DEF key
<1>3. IsFiniteSet(Kept) /\ \A kb \in Kept : Seen[kb] \in Nat
  BY AtKept
<1>4. Seen'[at] = 1
  BY <1>2 DEF Seen, At
<1>5. \A kb \in Kept : Seen'[kb] = Seen[kb]
  <2> SUFFICES ASSUME NEW kb \in Kept PROVE Seen'[kb] = Seen[kb]
    OBVIOUS
  <2>1. PICK k \in Key : \E b \in DOMAIN clusters[k] : kb = <<k, b>>
    BY KeptFacts
  <2>2. At(kb)' = At(kb)
    BY <1>2, <2>1 DEF At
  <2>3. kb \in Kept'
    BY <1>2
  <2> QED
    BY <2>2, <2>3 DEF Seen
<1>6. SumFunctionOnSet(Seen', Kept') = SumFunctionOnSet(Seen, Kept) + 1
  <2>1. IsFiniteSet(Kept')
    BY <1>2, <1>3, FS_AddElement
  <2>2. at \in Kept' /\ Kept' \ {at} = Kept /\ \A kb \in Kept' : Seen'[kb] \in Nat
    BY <1>2, <1>3, <1>4, <1>5
  <2>3. SumFunctionOnSet(Seen', Kept') = Seen'[at] + SumFunctionOnSet(Seen', Kept' \ {at})
    BY <2>1, <2>2, SumRemove
  <2>4. /\ SumFunctionOnSet(Seen', Kept) = SumFunctionOnSet(Seen, Kept)
        /\ SumFunctionOnSet(Seen, Kept) \in Nat
    BY <1>3, <1>5, SumSame, SumNat
  <2> QED
    BY <1>4, <2>2, <2>3, <2>4
<1>7. count' = SumFunctionOnSet(Seen', Kept') + Len(dropped')
  <2>1. SumFunctionOnSet(Seen, Kept) \in Nat /\ Len(dropped) \in Nat
    BY <1>3, SumNat, LenProperties DEF IInv, TypeOK
  <2> QED
    BY <1>1, <1>6, <2>1 DEF CountInv
<1>8. \A k \in Key : \A b \in DOMAIN clusters'[k] :
         clusters'[k][b].seen <= SumFunctionOnSet(fed', clusters'[k][b].lines)
  <2> SUFFICES ASSUME NEW k \in Key, NEW b \in DOMAIN clusters'[k]
               PROVE  clusters'[k][b].seen <= SumFunctionOnSet(fed', clusters'[k][b].lines)
    OBVIOUS
  <2>1. CASE b \in DOMAIN clusters[k] /\ clusters'[k][b] = clusters[k][b]
    <3>1. ClusterOK(k, clusters[k][b])
      BY <2>1 DEF IInv
    <3>2. clusters[k][b].lines \in SUBSET Lines /\ clusters[k][b].seen \in Nat
      BY <3>1 DEF ClusterOK, Cluster
    <3>3. clusters[k][b].seen <= SumFunctionOnSet(fed, clusters[k][b].lines)
      BY <2>1 DEF CountInv
    <3> QED
      BY <1>1, <2>1, <3>2, <3>3, FedGrows
  <2>2. CASE clusters'[k][b] = new
    <3>1. /\ SumFunctionOnSet(fed', {line}) = SumFunctionOnSet(fed, {line}) + 1
          /\ SumFunctionOnSet(fed, {line}) \in Nat
      BY <1>1, FedGrows
    <3> QED
      BY <1>2, <2>2, <3>1
  <2> QED
    BY <1>2, <2>1, <2>2
<1> QED
  BY <1>7, <1>8 DEF CountInv

LEMMA MergeCount ==
    ASSUME IInv, CountInv, NEW line \in Lines, Merge(line)
    PROVE  CountInv'
<1> DEFINE key == KeyOf(line)
<1>1. /\ Feed(line) /\ key \in Key
      /\ count' = count + 1 /\ dropped' = dropped
  BY FeedFacts DEF Merge, Feed
<1>2. PICK b \in DOMAIN clusters[key] :
         /\ ClusterOK(key, clusters[key][b])
         /\ \A k \in Key : DOMAIN clusters'[k] = DOMAIN clusters[k]
         /\ \A k \in Key : \A o \in DOMAIN clusters[k] :
               clusters'[k][o] =
                  IF k = key /\ o = b THEN MergedWith(clusters[k][b], line)
                  ELSE clusters[k][o]
  BY MergeFacts
<1> HIDE DEF key
<1> DEFINE c == clusters[key][b]
<1>3. /\ c.seen \in Nat /\ c.lines \in SUBSET Lines
      /\ clusters'[key][b].seen = c.seen + 1
      /\ clusters'[key][b].lines = c.lines \cup {line}
  <2>1. clusters'[key][b] = MergedWith(c, line)
    BY <1>1, <1>2
  <2>2. ClusterOK(key, c)
    BY <1>2
  <2> HIDE DEF c
  <2> QED
    BY <2>1, <2>2 DEF MergedWith, ClusterOK, Cluster
<1>4. IsFiniteSet(Kept) /\ \A kb \in Kept : Seen[kb] \in Nat
  BY AtKept
<1>5. Kept' = Kept /\ <<key, b>> \in Kept
  BY <1>1, <1>2 DEF Kept
<1>6. Seen'[<<key, b>>] = Seen[<<key, b>>] + 1
  BY <1>3, <1>5 DEF Seen, At
<1>7. \A kb \in Kept \ {<<key, b>>} : Seen'[kb] = Seen[kb]
  <2> SUFFICES ASSUME NEW kb \in Kept \ {<<key, b>>} PROVE Seen'[kb] = Seen[kb]
    OBVIOUS
  <2>1. PICK k \in Key : \E o \in DOMAIN clusters[k] : kb = <<k, o>>
    BY KeptFacts
  <2>2. At(kb)' = At(kb)
    BY <1>2, <2>1 DEF At
  <2> QED
    BY <1>5, <2>2 DEF Seen
<1>8. SumFunctionOnSet(Seen', Kept') = SumFunctionOnSet(Seen, Kept) + 1
  BY <1>4, <1>5, <1>6, <1>7, SumRaised
<1>9. count' = SumFunctionOnSet(Seen', Kept') + Len(dropped')
  <2>1. SumFunctionOnSet(Seen, Kept) \in Nat /\ Len(dropped) \in Nat
    BY <1>4, SumNat, LenProperties DEF IInv, TypeOK
  <2> QED
    BY <1>1, <1>8, <2>1 DEF CountInv
<1>10. \A k \in Key : \A o \in DOMAIN clusters'[k] :
          clusters'[k][o].seen <= SumFunctionOnSet(fed', clusters'[k][o].lines)
  <2> SUFFICES ASSUME NEW k \in Key, NEW o \in DOMAIN clusters[k]
               PROVE  clusters'[k][o].seen <= SumFunctionOnSet(fed', clusters'[k][o].lines)
    BY <1>2
  <2>1. /\ clusters[k][o].lines \in SUBSET Lines /\ clusters[k][o].seen \in Nat
        /\ clusters[k][o].seen <= SumFunctionOnSet(fed, clusters[k][o].lines)
    <3>1. ClusterOK(k, clusters[k][o])
      BY DEF IInv
    <3> QED
      BY <3>1 DEF CountInv, ClusterOK, Cluster
  <2>2. CASE k = key /\ o = b
    <3> DEFINE all == c.lines \cup {line}
    <3>1. all \in SUBSET Lines /\ c.lines \in SUBSET all
      BY <1>3
    <3>2. IsFiniteSet(all)
      BY <3>1, MinerAssumption, FS_Subset
    <3>3. \A l \in all : fed[l] \in Nat
      BY <3>1 DEF IInv, TypeOK
    <3>4. SumFunctionOnSet(fed, c.lines) <= SumFunctionOnSet(fed, all)
      BY <3>1, <3>2, <3>3, SumMonotone
    <3>5. SumFunctionOnSet(fed, c.lines) \in Nat
      BY <1>1, <1>3, FedGrows
    <3>6. /\ SumFunctionOnSet(fed, all) \in Nat
          /\ SumFunctionOnSet(fed', all) = SumFunctionOnSet(fed, all) + 1
      BY <1>1, <3>1, FedGrows
    <3>7. c.seen <= SumFunctionOnSet(fed, c.lines)
      BY <2>1, <2>2
    <3>8. c.seen + 1 <= SumFunctionOnSet(fed', all)
      <4> HIDE DEF c, all
      <4> QED
        BY <1>3, <3>4, <3>5, <3>6, <3>7
    <3>9. clusters'[k][o].seen = c.seen + 1 /\ clusters'[k][o].lines = all
      BY <1>3, <2>2
    <3> HIDE DEF c, all
    <3> QED
      BY <3>8, <3>9
  <2>3. CASE ~(k = key /\ o = b)
    <3>1. clusters'[k][o] = clusters[k][o]
      BY <1>2, <2>3
    <3>2. SumFunctionOnSet(fed, clusters[k][o].lines) \in Nat
          /\ SumFunctionOnSet(fed', clusters[k][o].lines) \in Nat
          /\ SumFunctionOnSet(fed, clusters[k][o].lines)
                <= SumFunctionOnSet(fed', clusters[k][o].lines)
      BY <1>1, <2>1, FedGrows
    <3> QED
      BY <2>1, <3>1, <3>2
  <2> QED
    BY <2>2, <2>3
<1> QED
  BY <1>9, <1>10 DEF CountInv

LEMMA DropCount ==
    ASSUME IInv, CountInv, NEW line \in Lines, Drop(line)
    PROVE  CountInv'
<1>1. /\ Feed(line) /\ KeyOf(line) \in Key
      /\ count' = count + 1 /\ clusters' = clusters
      /\ dropped' = Append(dropped, KeyOf(line)) /\ dropped \in Seq(Key)
  BY FeedFacts DEF Drop, Feed, IInv, TypeOK
<1>2. Len(dropped') = Len(dropped) + 1 /\ Len(dropped) \in Nat
  BY <1>1
<1>3. Kept' = Kept /\ Seen' = Seen
  BY <1>1 DEF Seen, Kept, At
<1>4. SumFunctionOnSet(Seen, Kept) \in Nat
  BY AtKept, SumNat
<1>5. count' = SumFunctionOnSet(Seen', Kept') + Len(dropped')
  BY <1>1, <1>2, <1>3, <1>4 DEF CountInv
<1>6. ASSUME NEW k \in Key, NEW b \in DOMAIN clusters[k]
      PROVE  clusters[k][b].seen <= SumFunctionOnSet(fed', clusters[k][b].lines)
  <2>1. ClusterOK(k, clusters[k][b])
    BY DEF IInv
  <2>2. /\ clusters[k][b].lines \in SUBSET Lines /\ clusters[k][b].seen \in Nat
        /\ clusters[k][b].seen <= SumFunctionOnSet(fed, clusters[k][b].lines)
    BY <2>1 DEF CountInv, ClusterOK, Cluster
  <2> QED
    BY <1>1, <2>2, FedGrows
<1> QED
  BY <1>1, <1>5, <1>6 DEF CountInv

LEMMA CountHolds == Spec => [](IInv /\ CountInv)
<1>1. Init => IInv /\ CountInv
  BY InitIInv, InitCount
<1>2. IInv /\ CountInv /\ [Next]_vars => (IInv /\ CountInv)'
  <2> SUFFICES ASSUME IInv, CountInv, [Next]_vars PROVE CountInv'
    BY NextIInv
  <2>1. CASE UNCHANGED vars
    BY <2>1 DEF vars, CountInv, Seen, Kept, At
  <2>2. ASSUME NEW line \in Lines, AddBlank(line) PROVE CountInv'
    BY <2>1, <2>2 DEF AddBlank
  <2> QED
    BY <2>1, <2>2, AddClusterCount, MergeCount, DropCount DEF Next
<1> QED
  BY <1>1, <1>2, PTL DEF Spec

(***************************************************************************)
(* EveryLineAccounted for all caps and lines: addTokens counts a line      *)
(* before it decides, and whatever it then decides the line is in exactly  *)
(* one cluster's count or was dropped, and total is the clusters there are.*)
(***************************************************************************)
THEOREM LinesAccounted == Spec => []EveryLineAccounted
<1>1. IInv /\ CountInv => EveryLineAccounted
  BY DEF IInv, CountInv, EveryLineAccounted, Seen, SumFunction
<1> QED
  BY <1>1, CountHolds, PTL

(***************************************************************************)
(* CandidatesFrequent for all thresholds: what Candidates proposes explains*)
(* at least MinSeen of the lines added, though the cluster it comes from   *)
(* has long since been generalised and lines that would fit it may have    *)
(* gone to another.                                                        *)
(***************************************************************************)
THEOREM ProposalsFrequent == Spec => []CandidatesFrequent
<1>1. IInv /\ CountInv => CandidatesFrequent
  <2> SUFFICES ASSUME IInv, CountInv, NEW t \in Proposals
               PROVE  SumFunctionOnSet(fed, {l \in Lines : Explains(t, l)}) >= MinSeen
    BY DEF CandidatesFrequent
  <2> DEFINE S == {l \in Lines : Explains(t, l)}
  <2>1. PICK kb \in Kept : At(kb).seen >= MinSeen /\ t = At(kb).tokens
    BY DEF Proposals
  <2>2. PICK k \in Key : \E b \in DOMAIN clusters[k] : kb = <<k, b>>
    BY KeptFacts
  <2>3. PICK b \in DOMAIN clusters[k] : kb = <<k, b>>
    BY <2>2
  <2>4. At(kb) = clusters[k][b]
    BY <2>3 DEF At
  <2>5. ClusterOK(k, At(kb)) /\ At(kb).seen <= SumFunctionOnSet(fed, At(kb).lines)
    BY <2>4 DEF IInv, CountInv
  <2>6. /\ At(kb).lines \in SUBSET S /\ S \in SUBSET Lines
        /\ At(kb).seen \in Nat /\ At(kb).lines \in SUBSET Lines
    BY <2>1, <2>5 DEF ClusterOK, Cluster
  <2> HIDE DEF S
  <2>7. IsFiniteSet(S) /\ IsFiniteSet(At(kb).lines)
    BY <2>6, MinerAssumption, FS_Subset
  <2>8. \A l \in S : fed[l] \in Nat
    BY <2>6 DEF IInv, TypeOK
  <2>9. SumFunctionOnSet(fed, At(kb).lines) <= SumFunctionOnSet(fed, S)
    BY <2>6, <2>7, <2>8, SumMonotone
  <2>10. SumFunctionOnSet(fed, At(kb).lines) \in Nat /\ SumFunctionOnSet(fed, S) \in Nat
    BY <2>6, <2>7, <2>8, SumNat
  <2> QED
    BY <2>1, <2>5, <2>6, <2>9, <2>10, MinerAssumption DEF S
<1> QED
  BY <1>1, CountHolds, PTL
=============================================================================
