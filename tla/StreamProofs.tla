--------------------------- MODULE StreamProofs ---------------------------
(***************************************************************************)
(* What a stream of log lines goes through, for every set of values and of *)
(* trees, every limit, every input and every size of a buffer.             *)
(*                                                                         *)
(* The enum tracker: its memory is bounded, and for all that what it       *)
(* reports is exact.  The latter needs an invariant over sums: what was    *)
(* recorded and what the calls under way are still to visit make what the  *)
(* lines had in all.                                                       *)
(*                                                                         *)
(* The line reader implements the line feed.  The inductive invariant says *)
(* what readLine has in hand between two buffers: the first MaxLine bytes  *)
(* of those handed out since it was called, none of them a newline, and    *)
(* the flag exactly when there were more.                                  *)
(***************************************************************************)
EXTENDS EnumTracker, LineReader, FiniteSetTheorems, SequenceTheorems,
        WellFoundedInduction, TLAPS

(***************************************************************************)
(* A non-empty set of naturals has a least element.                        *)
(***************************************************************************)
LEMMA LeastNat ==
  ASSUME NEW T, T \subseteq Nat, T # {}
  PROVE  \E x \in T : \A y \in T : x <= y
<1> DEFINE R == {ss \in Nat \X Nat : ss[1] < ss[2]}
<1>1. IsWellFoundedOn(R, Nat)
  BY NatLessThanWellFounded DEF OpToRel
<1>2. \A x, y \in Nat : y < x => <<y, x>> \in R
  OBVIOUS
<1> HIDE DEF R
<1>3. PICK x \in T : \A y \in T : ~(<<y, x>> \in R)
  BY <1>1, WFMin
<1>4. \A y \in T : ~(y < x) /\ x \in Nat /\ y \in Nat
  BY <1>2, <1>3
<1> QED
  BY <1>4

\* Of any subsets of a finite set, one is such that none is an element smaller.
LEMMA SmallestSubset ==
  ASSUME NEW S, IsFiniteSet(S), NEW Odd, Odd \subseteq SUBSET S, Odd # {}
  PROVE  \E U \in Odd : \A x \in U : U \ {x} \notin Odd
<1> DEFINE Sizes == {Cardinality(U) : U \in Odd}
<1>1. \A U \in Odd : /\ Cardinality(U) \in Nat
                     /\ \A x \in U : Cardinality(U \ {x}) = Cardinality(U) - 1
  BY FS_Subset, FS_CardinalityType, FS_RemoveElement
<1>2. PICK n \in Sizes : \A m \in Sizes : n <= m
  <2>1. Sizes \subseteq Nat /\ Sizes # {}
    BY <1>1
  <2> HIDE DEF Sizes
  <2> QED
    BY <2>1, LeastNat
<1>3. PICK U \in Odd : n = Cardinality(U)
  BY <1>2
<1>4. \A V \in Odd : Cardinality(U) <= Cardinality(V)
  BY <1>2, <1>3
<1>5. \A x \in U : U \ {x} \notin Odd
  BY <1>1, <1>4
<1> QED
  BY <1>5

(***************************************************************************)
(* SumFunctionOnSet takes one element after the other in an order of       *)
(* CHOOSE's, and its recursive function has to be shown to exist; what it  *)
(* computes does not depend on the order.                                  *)
(***************************************************************************)
Some(T) == CHOOSE x \in T : TRUE

\* What SumFunctionOnSet makes of g.
SumsUp(h, g, S) ==
    h = [T \in SUBSET S |-> IF T = {} THEN 0 ELSE g[Some(T)] + h[T \ {Some(T)}]]

\* h has the sums of g over all subsets of S, taken in any order.
Sums(h, g, S) ==
    /\ h \in [SUBSET S -> Nat]
    /\ h[{}] = 0
    /\ \A T \in SUBSET S : \A x \in T : h[T] = g[x] + h[T \ {x}]

\* With one element more, the sums of the subsets that have it follow.
LEMMA SumsExist ==
  ASSUME NEW S, IsFiniteSet(S), NEW g, \A x \in S : g[x] \in Nat
  PROVE  \E h : Sums(h, g, S)
<1> DEFINE Odd == {T \in SUBSET S : ~ \E h : Sums(h, g, T)}
<1>1. Odd = {}
  <2> SUFFICES ASSUME Odd # {} PROVE FALSE
    OBVIOUS
  <2>1. PICK U \in Odd : \A x \in U : U \ {x} \notin Odd
    <3>1. Odd \subseteq SUBSET S
      OBVIOUS
    <3> HIDE DEF Odd
    <3> QED
      BY <3>1, SmallestSubset
  <2>2. U \in SUBSET S /\ ~ \E h : Sums(h, g, U)
    BY <2>1
  <2>3. U # {}
    <3> DEFINE h == [T \in {{}} |-> 0]
    <3>1. Sums(h, g, {})
      BY DEF Sums
    <3> QED
      BY <2>2, <3>1
  <2>4. PICK x \in U : TRUE
    BY <2>3
  <2>5. PICK k : Sums(k, g, U \ {x})
    BY <2>1, <2>2, <2>4
  <2> DEFINE h == [T \in SUBSET U |-> IF x \in T THEN g[x] + k[T \ {x}] ELSE k[T]]
  <2>6. \A T \in SUBSET U : /\ T \ {x} \in SUBSET (U \ {x})
                            /\ x \notin T => T \in SUBSET (U \ {x})
    OBVIOUS
  <2>7. g[x] \in Nat /\ \A T \in SUBSET (U \ {x}) : k[T] \in Nat
    BY <2>2, <2>4, <2>5 DEF Sums
  <2>8. h \in [SUBSET U -> Nat] /\ h[{}] = 0
    BY <2>5, <2>6, <2>7 DEF Sums
  <2>9. ASSUME NEW T \in SUBSET U, NEW y \in T PROVE h[T] = g[y] + h[T \ {y}]
    <3>1. T \ {y} \in SUBSET U /\ g[y] \in Nat
      BY <2>2
    <3>2. CASE y = x
      <4>1. h[T] = g[x] + k[T \ {x}] /\ h[T \ {x}] = k[T \ {x}]
        BY <3>1, <3>2
      <4> QED
        BY <3>2, <4>1
    <3>3. CASE y # x /\ x \notin T
      <4>1. T \in SUBSET (U \ {x})
        BY <3>3
      <4>2. k[T] = g[y] + k[T \ {y}]
        BY <2>5, <4>1 DEF Sums
      <4> QED
        BY <3>1, <3>3, <4>2
    <3>4. CASE y # x /\ x \in T
      <4> DEFINE V == T \ {x}
      <4>1. V \in SUBSET (U \ {x}) /\ y \in V /\ V \ {y} \in SUBSET (U \ {x})
            /\ (T \ {y}) \ {x} = V \ {y}
        BY <3>4
      <4>2. k[V] = g[y] + k[V \ {y}]
        <5> HIDE DEF V
        <5> QED
          BY <2>5, <4>1 DEF Sums
      <4>3. h[T] = g[x] + k[V] /\ h[T \ {y}] = g[x] + k[V \ {y}]
        BY <3>1, <3>4, <4>1
      <4> HIDE DEF V
      <4> QED
        BY <2>7, <3>1, <4>1, <4>2, <4>3
    <3> QED
      BY <3>2, <3>3, <3>4
  <2> HIDE DEF h
  <2>10. Sums(h, g, U)
    BY <2>8, <2>9 DEF Sums
  <2> QED
    BY <2>2, <2>10
<1>2. S \notin Odd
  BY <1>1
<1> QED
  BY <1>2

\* Two that add up the same values agree, whatever sets they are taken from.
BothSum(h, k, g, T) ==
    /\ h[{}] = k[{}]
    /\ \A U \in SUBSET T : U # {} =>
          \E x \in U : h[U] = g[x] + h[U \ {x}] /\ k[U] = g[x] + k[U \ {x}]

LEMMA SumsUnique ==
  ASSUME NEW T, IsFiniteSet(T), NEW g, NEW h, NEW k, BothSum(h, k, g, T)
  PROVE  h[T] = k[T]
<1> DEFINE Odd == {U \in SUBSET T : h[U] # k[U]}
<1> SUFFICES ASSUME Odd # {} PROVE FALSE
  OBVIOUS
<1>1. PICK U \in Odd : \A x \in U : U \ {x} \notin Odd
  <2>1. Odd \subseteq SUBSET T
    OBVIOUS
  <2> HIDE DEF Odd
  <2> QED
    BY <2>1, SmallestSubset
<1>2. U \in SUBSET T /\ h[U] # k[U] /\ U # {}
  BY <1>1 DEF BothSum
<1>3. PICK x \in U : h[U] = g[x] + h[U \ {x}] /\ k[U] = g[x] + k[U \ {x}]
  BY <1>2 DEF BothSum
<1>4. h[U \ {x}] = k[U \ {x}]
  BY <1>1, <1>2
<1> QED
  BY <1>2, <1>3, <1>4

LEMMA SumIsSums ==
  ASSUME NEW S, IsFiniteSet(S), NEW g, \A x \in S : g[x] \in Nat
  PROVE  \E h : Sums(h, g, S) /\ SumFunctionOnSet(g, S) = h[S]
<1> DEFINE it == CHOOSE h : SumsUp(h, g, S)
<1>1. PICK h : Sums(h, g, S)
  BY SumsExist
<1>2. \A T \in SUBSET S : T # {} => Some(T) \in T
  BY DEF Some
<1>3. SumsUp(h, g, S)
  <2>1. \A T \in SUBSET S : h[T] = IF T = {} THEN 0 ELSE g[Some(T)] + h[T \ {Some(T)}]
    BY <1>1, <1>2 DEF Sums
  <2>2. h = [T \in SUBSET S |-> h[T]]
    BY <1>1 DEF Sums
  <2> QED
    BY <2>1, <2>2 DEF SumsUp
<1>4. SumsUp(it, g, S)
  BY <1>3
<1>5. SumFunctionOnSet(g, S) = it[S]
  BY DEF SumFunctionOnSet, FoldFunctionOnSet, MapThenFoldSet, Some, SumsUp
<1> HIDE DEF it
<1>6. /\ it[{}] = 0
      /\ \A T \in SUBSET S : T # {} => it[T] = g[Some(T)] + it[T \ {Some(T)}]
  BY <1>4 DEF SumsUp
<1>7. BothSum(h, it, g, S)
  BY <1>1, <1>2, <1>6 DEF Sums, BothSum
<1>8. h[S] = it[S]
  BY <1>7, SumsUnique
<1> QED
  BY <1>1, <1>5, <1>8

LEMMA SumNat ==
  ASSUME NEW S, IsFiniteSet(S), NEW g, \A x \in S : g[x] \in Nat
  PROVE  SumFunctionOnSet(g, S) \in Nat
<1>1. PICK h : Sums(h, g, S) /\ SumFunctionOnSet(g, S) = h[S]
  BY SumIsSums
<1> QED
  BY <1>1 DEF Sums

LEMMA SumEmpty ==
  ASSUME NEW g
  PROVE  SumFunctionOnSet(g, {}) = 0
<1>1. IsFiniteSet({}) /\ \A x \in {} : g[x] \in Nat
  BY FS_EmptySet
<1> QED
  BY <1>1, SumIsSums DEF Sums

LEMMA SumSame ==
  ASSUME NEW S, IsFiniteSet(S), NEW g, NEW f,
         \A x \in S : g[x] \in Nat /\ f[x] = g[x]
  PROVE  SumFunctionOnSet(f, S) = SumFunctionOnSet(g, S)
<1>1. PICK h : Sums(h, g, S) /\ SumFunctionOnSet(g, S) = h[S]
  BY SumIsSums
<1>2. PICK k : Sums(k, f, S) /\ SumFunctionOnSet(f, S) = k[S]
  BY SumIsSums
<1>3. \A U \in SUBSET S : \A x \in U : h[U] = g[x] + h[U \ {x}] /\ k[U] = g[x] + k[U \ {x}]
  BY <1>1, <1>2 DEF Sums
<1>4. BothSum(h, k, g, S)
  BY <1>1, <1>2, <1>3 DEF Sums, BothSum
<1>5. h[S] = k[S]
  BY <1>4, SumsUnique
<1> QED
  BY <1>1, <1>2, <1>5

LEMMA SumRemove ==
  ASSUME NEW S, IsFiniteSet(S), NEW g, \A x \in S : g[x] \in Nat, NEW x \in S
  PROVE  SumFunctionOnSet(g, S) = g[x] + SumFunctionOnSet(g, S \ {x})
<1> DEFINE R == S \ {x}
<1>1. IsFiniteSet(R) /\ R \in SUBSET S /\ \A y \in R : g[y] \in Nat
  BY FS_Subset
<1>2. PICK h : Sums(h, g, S) /\ SumFunctionOnSet(g, S) = h[S]
  BY SumIsSums
<1>3. PICK k : Sums(k, g, R) /\ SumFunctionOnSet(g, R) = k[R]
  BY <1>1, SumIsSums
<1>4. h[S] = g[x] + h[R]
  BY <1>2 DEF Sums
<1> HIDE DEF R
<1>5. \A U \in SUBSET R : \A y \in U : h[U] = g[y] + h[U \ {y}] /\ k[U] = g[y] + k[U \ {y}]
  BY <1>1, <1>2, <1>3 DEF Sums
<1>6. BothSum(h, k, g, R)
  BY <1>2, <1>3, <1>5 DEF Sums, BothSum
<1>7. h[R] = k[R]
  BY <1>1, <1>6, SumsUnique
<1> QED
  BY <1>2, <1>3, <1>4, <1>7 DEF R

LEMMA SumZero ==
  ASSUME NEW S, IsFiniteSet(S), NEW g, \A x \in S : g[x] = 0
  PROVE  SumFunctionOnSet(g, S) = 0
<1> DEFINE Odd == {U \in SUBSET S : SumFunctionOnSet(g, U) # 0}
<1>1. Odd = {}
  <2> SUFFICES ASSUME Odd # {} PROVE FALSE
    OBVIOUS
  <2>1. PICK U \in Odd : \A x \in U : U \ {x} \notin Odd
    <3>1. Odd \subseteq SUBSET S
      OBVIOUS
    <3> HIDE DEF Odd
    <3> QED
      BY <3>1, SmallestSubset
  <2>2. U # {} /\ U \in SUBSET S /\ IsFiniteSet(U)
    BY <2>1, SumEmpty, FS_Subset
  <2>3. PICK x \in U : TRUE
    BY <2>2
  <2>4. SumFunctionOnSet(g, U \ {x}) = 0
    BY <2>1, <2>2, <2>3
  <2>5. SumFunctionOnSet(g, U) = g[x] + SumFunctionOnSet(g, U \ {x})
    <3>1. \A y \in U : g[y] \in Nat
      BY <2>2
    <3> QED
      BY <2>2, <2>3, <3>1, SumRemove
  <2> QED
    BY <2>1, <2>2, <2>3, <2>4, <2>5
<1> QED
  BY <1>1

LEMMA SumRaised ==
  ASSUME NEW S, IsFiniteSet(S), NEW g, \A x \in S : g[x] \in Nat,
         NEW x \in S, NEW d \in Nat,
         NEW f, \A y \in S \ {x} : f[y] = g[y], f[x] = g[x] + d
  PROVE  SumFunctionOnSet(f, S) = SumFunctionOnSet(g, S) + d
<1>1. IsFiniteSet(S \ {x})
  BY FS_Subset
<1>2. /\ SumFunctionOnSet(f, S \ {x}) = SumFunctionOnSet(g, S \ {x})
      /\ SumFunctionOnSet(g, S \ {x}) \in Nat
  BY <1>1, SumSame, SumNat
<1>3. g[x] \in Nat /\ \A y \in S : f[y] \in Nat
  OBVIOUS
<1>4. /\ SumFunctionOnSet(g, S) = g[x] + SumFunctionOnSet(g, S \ {x})
      /\ SumFunctionOnSet(f, S) = f[x] + SumFunctionOnSet(f, S \ {x})
  BY <1>3, SumRemove
<1> QED
  BY <1>2, <1>3, <1>4

-----------------------------------------------------------------------------
(***************************************************************************)
(* Recording one leaf keeps a slot's statistics well formed and bounded:   *)
(* the set grows by one at most, and only while it is below the limit.     *)
(***************************************************************************)
Bounded(s) ==
    /\ s \in SlotStats
    /\ Cardinality(s.values) <= MaxDistinct
    /\ s.saturated => s.values = {}

LEMMA NewSlotBounded == Bounded(NewSlot)
  BY FS_EmptySet, EnumAssumption DEF Bounded, NewSlot, SlotStats

LEMMA RecordBounded ==
    ASSUME NEW s, Bounded(s), NEW v \in Value PROVE Bounded(Record(s, v))
<1> DEFINE over == Cardinality(s.values \cup {v}) > MaxDistinct
<1>1. s \in SlotStats /\ MaxDistinct \in Nat
  BY EnumAssumption DEF Bounded
<1>2. CASE s.saturated \/ v = Empty
  <2>1. Record(s, v) = [s EXCEPT !.seen = @ + 1]
    BY <1>2 DEF Record
  <2> QED
    BY <2>1, <1>1 DEF Bounded, SlotStats
<1>3. CASE ~(s.saturated \/ v = Empty)
  <2>1. Record(s, v) = [seen |-> s.seen + 1,
                        values |-> IF over THEN {} ELSE s.values \cup {v},
                        saturated |-> over]
    BY <1>3 DEF Record
  <2>2. IsFiniteSet(s.values \cup {v})
    BY <1>1, EnumAssumption, FS_Subset DEF SlotStats
  <2>3. Cardinality(s.values \cup {v}) \in Nat /\ Cardinality({}) = 0
    BY <2>2, FS_CardinalityType, FS_EmptySet
  <2>4. over \in BOOLEAN
    OBVIOUS
  <2>5. Record(s, v) \in SlotStats
    BY <2>1, <2>4, <1>1 DEF SlotStats
  <2>6. /\ Record(s, v).values = IF over THEN {} ELSE s.values \cup {v}
        /\ Record(s, v).saturated = over
    BY <2>1
  <2>7. CASE over
    <3>1. Record(s, v).values = {}
      BY <2>6, <2>7
    <3>2. Cardinality(Record(s, v).values) <= MaxDistinct
      BY <3>1, <2>3, <1>1
    <3> QED
      BY <3>1, <3>2, <2>5 DEF Bounded
  <2>8. CASE ~over
    <3>1. Record(s, v).values = s.values \cup {v} /\ ~Record(s, v).saturated
      BY <2>6, <2>8
    <3>2. Cardinality(Record(s, v).values) <= MaxDistinct
      BY <3>1, <2>3, <2>8, <1>1
    <3> QED
      BY <3>1, <3>2, <2>5 DEF Bounded
  <2> QED
    BY <2>7, <2>8
<1> QED
  BY <1>2, <1>3

-----------------------------------------------------------------------------
(***************************************************************************)
(* The inductive invariant: every slot tracked is well formed and bounded, *)
(* and the walk's frames are nodes.                                        *)
(***************************************************************************)
IInv ==
    /\ DOMAIN slots \subseteq Slot
    /\ \A k \in DOMAIN slots : Bounded(slots[k])
    /\ stack \in Seq(Frame)
    /\ lines \in [Root -> Nat]

LEMMA InitIInv == Init => IInv
  BY DEF Init, IInv

LEMMA TopFrame ==
    ASSUME IInv, stack # <<>>
    PROVE  /\ Len(stack) \in 1..Len(stack)
           /\ Top \in Frame
           /\ Advanced \in Seq(Frame)
<1>1. stack \in Seq(Frame) /\ Len(stack) \in Nat /\ Len(stack) # 0
  BY DEF IInv
<1>2. Len(stack) \in 1..Len(stack)
  BY <1>1
<1>3. Top \in Frame
  BY <1>1, <1>2 DEF Top
<1>4. [stack[Len(stack)] EXCEPT !.next = @ + 1] \in Frame
  BY <1>3 DEF Top, Frame
<1>5. Advanced \in Seq(Frame)
  BY <1>1, <1>2, <1>4, ExceptSeq DEF Advanced
<1> QED
  BY <1>2, <1>3, <1>5

LEMMA CallFrame == ASSUME NEW n \in Node PROVE Call(n) \in Frame
  BY DEF Call, Frame

LEMMA NextIInv == IInv /\ [Next]_vars => IInv'
<1> SUFFICES ASSUME IInv, [Next]_vars PROVE IInv'
  OBVIOUS
<1>1. ASSUME NEW n \in Root, Observe(n) PROVE IInv'
  <2>1. Call(n) \in Frame
    BY CallFrame, EnumAssumption
  <2>2. lines' \in [Root -> Nat]
    BY <1>1 DEF Observe, IInv
  <2> QED
    BY <1>1, <2>1, <2>2 DEF Observe, IInv, Bounded
<1>2. CASE Leaf
  <2> DEFINE k == <<TemplateOf[Top.node], Top.next>>
  <2>1. stack # <<>> /\ Param \in Value /\ Observed(k, Param) /\ stack' = Advanced
    BY <1>2 DEF Leaf, HasParam
  <2>2. Top \in Frame /\ Advanced \in Seq(Frame)
    BY <2>1, TopFrame
  <2>3. k \in Slot
    BY <2>2 DEF Frame, Slot
  <2>4. Bounded(Stats(k))
    BY NewSlotBounded DEF Stats, IInv
  <2>5. Bounded(Record(Stats(k), Param))
    BY <2>1, <2>4, RecordBounded
  <2>6. slots' = [j \in DOMAIN slots \cup {k} |->
                    IF j = k THEN Record(Stats(k), Param) ELSE slots[j]]
    BY <2>1 DEF Observed
  <2>7. \A j \in DOMAIN slots' : Bounded(slots'[j])
    BY <2>5, <2>6 DEF IInv
  <2>8. \A j \in DOMAIN slots' : Bounded(slots[j])'
    BY <2>7 DEF Bounded
  <2> QED
    BY <1>2, <2>1, <2>2, <2>3, <2>6, <2>8 DEF Leaf, IInv
<1>3. CASE Descend
  <2>1. stack # <<>> /\ Param \in Node /\ stack' = Append(Advanced, Call(Param))
    BY <1>3 DEF Descend, HasParam
  <2>2. Advanced \in Seq(Frame) /\ Call(Param) \in Frame
    BY <2>1, TopFrame, CallFrame
  <2> QED
    BY <1>3, <2>1, <2>2 DEF Descend, IInv, Bounded
<1>4. CASE Return
  <2>1. stack # <<>> /\ stack' = Front(stack) /\ stack \in Seq(Frame)
    BY <1>4 DEF Return, IInv
  <2>2. Front(stack) \in Seq(Frame)
    BY <2>1 DEF Front
  <2> QED
    BY <1>4, <2>1, <2>2 DEF Return, IInv, Bounded
<1>5. CASE UNCHANGED vars
  BY <1>5 DEF vars, IInv, Bounded
<1> QED
  BY <1>1, <1>2, <1>3, <1>4, <1>5 DEF Next

LEMMA IInvHolds == Spec => []IInv
  BY InitIInv, NextIInv, PTL DEF Spec

(***************************************************************************)
(* TypeOK for all values of the constants.                                 *)
(***************************************************************************)
THEOREM EnumTyped == Spec => []TypeOK
<1>1. IInv => TypeOK
  BY DEF IInv, TypeOK, Bounded
<1> QED
  BY <1>1, IInvHolds, PTL

(***************************************************************************)
(* Memory is bounded: TrackedBounded for every stream of lines.            *)
(***************************************************************************)
THEOREM EnumBounded == Spec => []TrackedBounded
<1>1. IInv => TrackedBounded
  BY DEF IInv, TrackedBounded, Bounded
<1> QED
  BY <1>1, IInvHolds, PTL

-----------------------------------------------------------------------------
(***************************************************************************)
(* The recursion of Occurs has a solution: one for a set of nodes that     *)
(* holds all that is below them can be extended by a node whose sub-nodes  *)
(* are in the set.                                                         *)
(***************************************************************************)
Counts(f, n) ==
    [k \in TreeSlots |-> [v \in Value |->
        SumFunction([i \in DOMAIN Params[n] |-> Below(f, n, i, k, v)])]]

Solved(f, C) ==
    /\ \A n \in C : \A i \in DOMAIN Params[n] : Params[n][i] \in Node => Params[n][i] \in C
    /\ \A n \in C : f[n] = Counts(f, n)

LEMMA SameCounts ==
    ASSUME NEW f, NEW g, NEW n \in Node,
           \A i \in DOMAIN Params[n] : Params[n][i] \in Node => g[Params[n][i]] = f[Params[n][i]]
    PROVE  Counts(g, n) = Counts(f, n)
<1>1. ASSUME NEW k \in TreeSlots, NEW v \in Value
      PROVE  [i \in DOMAIN Params[n] |-> Below(g, n, i, k, v)]
             = [i \in DOMAIN Params[n] |-> Below(f, n, i, k, v)]
  BY DEF Below
<1> QED
  BY <1>1 DEF Counts

LEMMA OccursIsCounts == \A n \in Node : Occurs[n] = Counts(Occurs, n)
<1> DEFINE Solves(f) == f = [n \in Node |-> Counts(f, n)]
           Open == {U \in SUBSET Node : \E f : Solved(f, Node \ U)}
<1>1. Node \in Open
  <2>1. Solved(<<>>, {})
    BY DEF Solved
  <2>2. Node \ Node = {} /\ Node \in SUBSET Node
    OBVIOUS
  <2> QED
    BY <2>1, <2>2
<1>2. PICK U \in Open : \A x \in U : U \ {x} \notin Open
  <2>1. IsFiniteSet(Node) /\ Open \subseteq SUBSET Node /\ Open # {}
    BY <1>1, EnumAssumption
  <2> HIDE DEF Open
  <2> QED
    BY <2>1, SmallestSubset
<1>3. U \in SUBSET Node
  BY <1>2
<1>4. PICK f : Solved(f, Node \ U)
  BY <1>2
<1>5. U = {}
  <2> SUFFICES ASSUME U # {} PROVE FALSE
    OBVIOUS
  <2>1. PICK n \in U : ToSet(Params[n]) \cap U = {}
    BY <1>3, EnumAssumption
  <2> DEFINE g == [m \in Node |-> IF m = n THEN Counts(f, n) ELSE f[m]]
             C == Node \ (U \ {n})
  <2>2. n \in Node /\ C = (Node \ U) \cup {n} /\ n \notin Node \ U
    BY <1>3
  <2>3. \A m \in C : \A i \in DOMAIN Params[m] :
           Params[m][i] \in Node => Params[m][i] \in Node \ U
    <3>1. \A i \in DOMAIN Params[n] : Params[n][i] \notin U
      BY <2>1, EnumAssumption DEF ToSet
    <3> QED
      BY <1>4, <2>2, <3>1 DEF Solved
  <2>4. \A m \in Node \ U : g[m] = f[m]
    BY <2>2
  <2>5. g[n] = Counts(f, n)
    BY <2>2
  <2> HIDE DEF g
  <2>6. ASSUME NEW m \in C PROVE g[m] = Counts(g, m)
    <3>1. m \in Node
      OBVIOUS
    <3>2. \A i \in DOMAIN Params[m] :
             Params[m][i] \in Node => g[Params[m][i]] = f[Params[m][i]]
      BY <2>3, <2>4
    <3>3. Counts(g, m) = Counts(f, m)
      BY <3>1, <3>2, SameCounts
    <3>4. g[m] = Counts(f, m)
      BY <1>4, <2>2, <2>4, <2>5 DEF Solved
    <3> QED
      BY <3>3, <3>4
  <2>7. Solved(g, C)
    BY <2>2, <2>3, <2>6 DEF Solved
  <2>8. U \ {n} \in Open
    BY <1>3, <2>7
  <2> QED
    BY <1>2, <2>8
<1>6. Solves([n \in Node |-> f[n]])
  <2> DEFINE g == [n \in Node |-> f[n]]
  <2>1. \A n \in Node : g[n] = Counts(g, n)
    <3> SUFFICES ASSUME NEW n \in Node PROVE g[n] = Counts(g, n)
      OBVIOUS
    <3>1. Node \ U = Node
      BY <1>5
    <3>2. f[n] = Counts(f, n) /\ Counts(g, n) = Counts(f, n)
      BY <1>4, <3>1, SameCounts DEF Solved
    <3> QED
      BY <3>2
  <2> QED
    BY <2>1
<1>7. Occurs = CHOOSE h : Solves(h)
  BY DEF Occurs, Counts
<1>8. Solves(Occurs)
  BY <1>6, <1>7
<1> QED
  BY <1>8

\* What stands in slot k with value v, param by param.
Terms(n, k, v) == [i \in DOMAIN Params[n] |-> Below(Occurs, n, i, k, v)]

LEMMA OccursFacts ==
    ASSUME NEW n \in Node, NEW k \in TreeSlots, NEW v \in Value
    PROVE  /\ Occurs[n][k][v] = SumFunctionOnSet(Terms(n, k, v), DOMAIN Params[n])
           /\ Occurs[n][k][v] \in Nat
           /\ \A i \in DOMAIN Params[n] : Terms(n, k, v)[i] \in Nat
           /\ IsFiniteSet(DOMAIN Params[n])
<1> DEFINE Odd == {m \in Node : Occurs[m][k][v] \notin Nat}
<1>1. \A m \in Node : Occurs[m][k][v] = SumFunctionOnSet(Terms(m, k, v), DOMAIN Params[m])
  <2> SUFFICES ASSUME NEW m \in Node
               PROVE  Occurs[m][k][v] = SumFunctionOnSet(Terms(m, k, v), DOMAIN Params[m])
    OBVIOUS
  <2>1. Counts(Occurs, m)[k][v] = SumFunction(Terms(m, k, v))
    BY DEF Counts, Terms
  <2>2. DOMAIN Terms(m, k, v) = DOMAIN Params[m]
    BY DEF Terms
  <2>3. Occurs[m] = Counts(Occurs, m)
    BY OccursIsCounts
  <2> QED
    BY <2>1, <2>2, <2>3 DEF SumFunction
<1>2. ASSUME NEW m \in Node,
             \A i \in DOMAIN Params[m] :
                Params[m][i] \in Node => Occurs[Params[m][i]][k][v] \in Nat
      PROVE  /\ \A i \in DOMAIN Params[m] : Terms(m, k, v)[i] \in Nat
             /\ IsFiniteSet(DOMAIN Params[m])
             /\ Occurs[m][k][v] \in Nat
  <2>1. \A i \in DOMAIN Params[m] : Terms(m, k, v)[i] \in Nat
    BY <1>2 DEF Terms, Below
  <2>2. IsFiniteSet(DOMAIN Params[m])
    <3>1. Params[m] \in Seq(Node \cup Value)
      BY EnumAssumption
    <3>2. DOMAIN Params[m] = 1..Len(Params[m]) /\ Len(Params[m]) \in Nat
      BY <3>1
    <3> QED
      BY <3>2, FS_Interval
  <2> QED
    BY <1>1, <2>1, <2>2, SumNat
<1>3. Odd = {}
  <2> SUFFICES ASSUME Odd # {} PROVE FALSE
    OBVIOUS
  <2>1. PICK m \in Odd : ToSet(Params[m]) \cap Odd = {}
    <3>1. Odd \in SUBSET Node
      OBVIOUS
    <3> HIDE DEF Odd
    <3> QED
      BY <3>1, EnumAssumption
  <2>2. \A i \in DOMAIN Params[m] : Params[m][i] \notin Odd
    <3>1. Params[m] \in Seq(Node \cup Value)
      BY EnumAssumption
    <3> HIDE DEF Odd
    <3> QED
      BY <2>1, <3>1 DEF ToSet
  <2> QED
    BY <1>2, <2>2
<1>4. \A i \in DOMAIN Params[n] : Params[n][i] \in Node => Occurs[Params[n][i]][k][v] \in Nat
  BY <1>3
<1> QED
  BY <1>1, <1>2, <1>4

(***************************************************************************)
(* What the calls of Observe under way have yet to visit.                  *)
(***************************************************************************)
Rest(f, k, v) == SumFunctionOnSet(Terms(f.node, k, v), f.next .. Len(Params[f.node]))

Pending(s, k, v) == SumFunctionOnSet([d \in DOMAIN s |-> Rest(s[d], k, v)], DOMAIN s)

LEMMA RestFacts ==
    ASSUME NEW f \in Frame, NEW k \in TreeSlots, NEW v \in Value
    PROVE  /\ Rest(f, k, v) \in Nat
           /\ f.next > Len(Params[f.node]) => Rest(f, k, v) = 0
           /\ f.next <= Len(Params[f.node]) =>
                 /\ f.next \in DOMAIN Params[f.node]
                 /\ Terms(f.node, k, v)[f.next] \in Nat
                 /\ Rest(f, k, v) = Terms(f.node, k, v)[f.next]
                                    + Rest([f EXCEPT !.next = @ + 1], k, v)
           /\ f.next = 1 => Rest(f, k, v) = Occurs[f.node][k][v]
<1> DEFINE n == f.node
           g == Terms(n, k, v)
           I == f.next .. Len(Params[n])
<1>1. n \in Node /\ f.next \in Nat \ {0}
  BY DEF Frame
<1>2. Params[n] \in Seq(Node \cup Value)
  BY <1>1, EnumAssumption
<1>3. Len(Params[n]) \in Nat /\ DOMAIN Params[n] = 1..Len(Params[n])
  BY <1>2
<1>4. IsFiniteSet(I)
  BY <1>1, <1>3, FS_Interval
<1>5. I \subseteq DOMAIN Params[n]
  BY <1>1, <1>3
<1>6. \A i \in DOMAIN Params[n] : g[i] \in Nat
  BY <1>1, OccursFacts
<1>7. Rest(f, k, v) = SumFunctionOnSet(g, I)
  BY DEF Rest
<1> HIDE DEF g
<1>8. Rest(f, k, v) \in Nat
  BY <1>4, <1>5, <1>6, <1>7, SumNat
<1>9. ASSUME f.next > Len(Params[n]) PROVE Rest(f, k, v) = 0
  <2>1. I = {}
    BY <1>1, <1>3, <1>9
  <2> QED
    BY <2>1, <1>7, SumEmpty
<1>10. ASSUME f.next <= Len(Params[n])
       PROVE  /\ f.next \in DOMAIN Params[n]
              /\ g[f.next] \in Nat
              /\ Rest(f, k, v) = g[f.next] + Rest([f EXCEPT !.next = @ + 1], k, v)
  <2>1. f.next \in I /\ f.next \in DOMAIN Params[n]
    BY <1>1, <1>3, <1>10
  <2>2. I \ {f.next} = (f.next + 1) .. Len(Params[n])
    BY <1>1, <1>3
  <2>3. SumFunctionOnSet(g, I) = g[f.next] + SumFunctionOnSet(g, I \ {f.next})
    BY <1>4, <1>5, <1>6, <2>1, SumRemove
  <2>4. /\ [f EXCEPT !.next = @ + 1].node = n
        /\ [f EXCEPT !.next = @ + 1].next = f.next + 1
    BY DEF Frame
  <2>5. Rest([f EXCEPT !.next = @ + 1], k, v) = SumFunctionOnSet(g, I \ {f.next})
    BY <2>2, <2>4 DEF Rest, g
  <2> QED
    BY <1>6, <1>7, <2>1, <2>3, <2>5
<1>11. ASSUME f.next = 1 PROVE Rest(f, k, v) = Occurs[n][k][v]
  <2>1. I = DOMAIN Params[n]
    BY <1>3, <1>11
  <2> QED
    BY <1>1, <1>7, <2>1, OccursFacts DEF g
<1> QED
  BY <1>8, <1>9, <1>10, <1>11 DEF g

LEMMA PendingFacts ==
    ASSUME NEW k \in TreeSlots, NEW v \in Value
    PROVE  /\ Pending(<<>>, k, v) = 0
           /\ \A s \in Seq(Frame) : Pending(s, k, v) \in Nat
           /\ \A s \in Seq(Frame) : \A f \in Frame :
                 Pending(Append(s, f), k, v) = Pending(s, k, v) + Rest(f, k, v)
<1>1. Pending(<<>>, k, v) = 0
  <2>1. DOMAIN <<>> = {}
    OBVIOUS
  <2> QED
    BY <2>1, SumEmpty DEF Pending
<1>2. ASSUME NEW s \in Seq(Frame)
      PROVE  /\ IsFiniteSet(DOMAIN s)
             /\ \A d \in DOMAIN s : [e \in DOMAIN s |-> Rest(s[e], k, v)][d] \in Nat
             /\ Pending(s, k, v) \in Nat
  <2>1. DOMAIN s = 1..Len(s) /\ Len(s) \in Nat /\ \A d \in DOMAIN s : s[d] \in Frame
    OBVIOUS
  <2>2. IsFiniteSet(DOMAIN s)
    BY <2>1, FS_Interval
  <2>3. \A d \in DOMAIN s : [e \in DOMAIN s |-> Rest(s[e], k, v)][d] \in Nat
    BY <2>1, RestFacts
  <2> QED
    BY <2>2, <2>3, SumNat DEF Pending
<1>3. ASSUME NEW s \in Seq(Frame), NEW f \in Frame
      PROVE  Pending(Append(s, f), k, v) = Pending(s, k, v) + Rest(f, k, v)
  <2> DEFINE t == Append(s, f)
             g == [e \in DOMAIN s |-> Rest(s[e], k, v)]
             h == [e \in DOMAIN t |-> Rest(t[e], k, v)]
             l == Len(s) + 1
  <2>1. /\ t \in Seq(Frame) /\ DOMAIN s = 1..Len(s) /\ Len(s) \in Nat
        /\ DOMAIN t = 1..l /\ t[l] = f /\ \A e \in 1..Len(s) : t[e] = s[e]
    OBVIOUS
  <2> HIDE DEF t
  <2>2. l \in DOMAIN t /\ DOMAIN t \ {l} = DOMAIN s
    BY <2>1
  <2>3. h[l] = Rest(f, k, v) /\ \A e \in DOMAIN s : h[e] = g[e]
    BY <2>1, <2>2
  <2>4. /\ IsFiniteSet(DOMAIN t) /\ \A e \in DOMAIN t : h[e] \in Nat
        /\ Pending(t, k, v) = SumFunctionOnSet(h, DOMAIN t)
    BY <1>2, <2>1 DEF Pending
  <2>5. /\ IsFiniteSet(DOMAIN s) /\ \A e \in DOMAIN s : g[e] \in Nat
        /\ Pending(s, k, v) = SumFunctionOnSet(g, DOMAIN s) /\ Pending(s, k, v) \in Nat
    BY <1>2 DEF Pending
  <2> HIDE DEF g, h, l
  <2>6. SumFunctionOnSet(h, DOMAIN t) = h[l] + SumFunctionOnSet(h, DOMAIN t \ {l})
    BY <2>2, <2>4, SumRemove
  <2>7. SumFunctionOnSet(h, DOMAIN s) = SumFunctionOnSet(g, DOMAIN s)
    BY <2>3, <2>5, SumSame
  <2>8. Rest(f, k, v) \in Nat
    BY RestFacts
  <2>9. Pending(t, k, v) = Rest(f, k, v) + Pending(s, k, v)
    BY <2>2, <2>3, <2>4, <2>5, <2>6, <2>7
  <2> QED
    BY <2>5, <2>8, <2>9 DEF t
<1> QED
  BY <1>1, <1>2, <1>3

\* One line more adds what its tree has.
LEMMA TotalFacts ==
    ASSUME lines \in [Root -> Nat], NEW k \in TreeSlots, NEW v \in Value
    PROVE  /\ Total(k, v) \in Nat
           /\ (\A n \in Root : lines[n] = 0) => Total(k, v) = 0
           /\ \A n \in Root : lines' = [lines EXCEPT ![n] = @ + 1] =>
                 Total(k, v)' = Total(k, v) + Occurs[n][k][v]
<1> DEFINE g == [n \in Root |-> lines[n] * Occurs[n][k][v]]
<1>1. Root \subseteq Node /\ IsFiniteSet(Root)
  BY EnumAssumption, FS_Subset
<1>2. \A n \in Root : Occurs[n][k][v] \in Nat /\ lines[n] \in Nat
  BY <1>1, OccursFacts
<1>3. \A x, y \in Nat : x * y \in Nat /\ (x + 1) * y = x * y + y /\ 0 * y = 0
  OBVIOUS
<1>4. \A n \in Root : g[n] \in Nat
  BY <1>2, <1>3
<1>5. Total(k, v) = SumFunctionOnSet(g, Root)
  BY DEF Total, SumFunction
<1>6. Total(k, v) \in Nat
  BY <1>1, <1>4, <1>5, SumNat
<1>7. ASSUME \A n \in Root : lines[n] = 0 PROVE Total(k, v) = 0
  <2>1. \A n \in Root : g[n] = 0
    BY <1>2, <1>3, <1>7
  <2> QED
    BY <1>1, <1>5, <2>1, SumZero
<1>8. ASSUME NEW n \in Root, lines' = [lines EXCEPT ![n] = @ + 1]
      PROVE  Total(k, v)' = Total(k, v) + Occurs[n][k][v]
  <2> DEFINE h == [m \in Root |-> lines'[m] * Occurs[m][k][v]]
  <2>1. Total(k, v)' = SumFunctionOnSet(h, Root)
    BY DEF Total, SumFunction
  <2>2. lines'[n] = lines[n] + 1 /\ \A m \in Root \ {n} : lines'[m] = lines[m]
    BY <1>8
  <2>3. h[n] = g[n] + Occurs[n][k][v]
    BY <1>2, <1>3, <2>2
  <2>4. \A m \in Root \ {n} : h[m] = g[m]
    BY <2>2
  <2> HIDE DEF g, h
  <2> QED
    BY <1>1, <1>2, <1>4, <1>5, <2>1, <2>3, <2>4, SumRaised
<1> QED
  BY <1>6, <1>7, <1>8

-----------------------------------------------------------------------------
(***************************************************************************)
(* What a slot's statistics are of all the values it ever held: r says how *)
(* often each was recorded.                                                *)
(***************************************************************************)
Varied(r) == {v \in Value \ {Empty} : r[v] > 0}

Tracks(s, r) ==
    /\ s.seen = SumFunctionOnSet(r, Value)
    /\ s.saturated <=> Cardinality(Varied(r)) > MaxDistinct
    /\ s.values = IF s.saturated THEN {} ELSE Varied(r)

LEMMA VariedFinite ==
    ASSUME NEW r
    PROVE  IsFiniteSet(Varied(r)) /\ Cardinality(Varied(r)) \in Nat
<1>1. Varied(r) \subseteq Value /\ IsFiniteSet(Value)
  BY EnumAssumption DEF Varied
<1> QED
  BY <1>1, FS_Subset, FS_CardinalityType

(***************************************************************************)
(* Record keeps it so.  That a saturated slot forgets its values does no   *)
(* harm: one more can only make the values too many again.                 *)
(***************************************************************************)
LEMMA RecordTracks ==
    ASSUME NEW s \in SlotStats, NEW r \in [Value -> Nat], Tracks(s, r), NEW v \in Value
    PROVE  Tracks(Record(s, v), [r EXCEPT ![v] = @ + 1])
<1> DEFINE q == [r EXCEPT ![v] = @ + 1]
<1>1. /\ q \in [Value -> Nat] /\ q[v] = r[v] + 1
      /\ \A u \in Value \ {v} : q[u] = r[u]
  OBVIOUS
<1> HIDE DEF q
<1>2. SumFunctionOnSet(q, Value) = SumFunctionOnSet(r, Value) + 1
  <2>1. IsFiniteSet(Value) /\ 1 \in Nat /\ \A u \in Value : r[u] \in Nat
    BY EnumAssumption
  <2> QED
    BY <1>1, <2>1, SumRaised
<1>3. Varied(q) = IF v = Empty THEN Varied(r) ELSE Varied(r) \cup {v}
  BY <1>1 DEF Varied
<1>4. /\ s.seen \in Nat /\ s.saturated \in BOOLEAN
      /\ s = [seen |-> s.seen, values |-> s.values, saturated |-> s.saturated]
  BY DEF SlotStats
<1>5. CASE s.saturated \/ v = Empty
  <2>1. Record(s, v) = [s EXCEPT !.seen = @ + 1]
    BY <1>5 DEF Record
  <2>2. /\ Record(s, v).seen = s.seen + 1
        /\ Record(s, v).values = s.values /\ Record(s, v).saturated = s.saturated
    BY <1>4, <2>1
  <2>3. CASE v = Empty
    BY <1>2, <1>3, <2>2, <2>3 DEF Tracks, q
  <2>4. CASE s.saturated
    <3>1. Cardinality(Varied(r)) > MaxDistinct
      BY <2>4 DEF Tracks
    <3>2. Cardinality(Varied(r)) <= Cardinality(Varied(q))
      BY <1>3, VariedFinite, FS_Subset
    <3>3. Cardinality(Varied(q)) > MaxDistinct
      BY <3>1, <3>2, VariedFinite, EnumAssumption
    <3> QED
      BY <1>2, <2>2, <2>4, <3>3 DEF Tracks, q
  <2> QED
    BY <1>5, <2>3, <2>4
<1>6. CASE ~(s.saturated \/ v = Empty)
  <2>1. s.values = Varied(r)
    BY <1>6 DEF Tracks
  <2>2. Record(s, v) = [seen |-> s.seen + 1,
           values |-> IF Cardinality(Varied(q)) > MaxDistinct THEN {} ELSE Varied(q),
           saturated |-> Cardinality(Varied(q)) > MaxDistinct]
    BY <1>3, <1>6, <2>1 DEF Record
  <2>3. /\ Record(s, v).seen = s.seen + 1
        /\ Record(s, v).values =
              IF Cardinality(Varied(q)) > MaxDistinct THEN {} ELSE Varied(q)
        /\ Record(s, v).saturated = (Cardinality(Varied(q)) > MaxDistinct)
    BY <2>2
  <2> QED
    BY <1>2, <2>3 DEF Tracks, q
<1> QED
  BY <1>5, <1>6

(***************************************************************************)
(* The invariant of the walk: the leaves recorded and those the calls have *)
(* yet to visit are the leaves of all lines observed, and every slot is    *)
(* what bounded memory leaves of those recorded in it.                     *)
(***************************************************************************)
ExactWith(rec) ==
    /\ \A k \in TreeSlots : \A v \in Value :
          rec[k][v] + Pending(stack, k, v) = Total(k, v)
    /\ \A k \in TreeSlots : Tracks(Stats(k), rec[k])

Exact ==
    /\ DOMAIN slots \subseteq TreeSlots
    /\ \E rec \in [TreeSlots -> [Value -> Nat]] : ExactWith(rec)

LEMMA InitExact == Init => Exact
<1> SUFFICES ASSUME Init PROVE Exact
  OBVIOUS
<1> DEFINE none == [v \in Value |-> 0]
           rec  == [k \in TreeSlots |-> none]
<1>1. lines \in [Root -> Nat] /\ (\A n \in Root : lines[n] = 0) /\ stack = <<>>
      /\ DOMAIN slots = {}
  BY DEF Init
<1>2. rec \in [TreeSlots -> [Value -> Nat]]
  OBVIOUS
<1>3. \A k \in TreeSlots : \A v \in Value :
         rec[k][v] = 0 /\ Pending(stack, k, v) = 0 /\ Total(k, v) = 0
  BY <1>1, PendingFacts, TotalFacts
<1>4. Tracks(NewSlot, none)
  <2>1. Varied(none) = {}
    BY DEF Varied
  <2>2. SumFunctionOnSet(none, Value) = 0
    <3>1. IsFiniteSet(Value) /\ \A v \in Value : none[v] = 0
      BY EnumAssumption
    <3> HIDE DEF none
    <3> QED
      BY <3>1, SumZero
  <2>3. Cardinality({}) = 0 /\ MaxDistinct \in Nat
    BY FS_EmptySet, EnumAssumption
  <2> HIDE DEF none
  <2> QED
    BY <2>1, <2>2, <2>3 DEF Tracks, NewSlot
<1>5. \A k \in TreeSlots : Stats(k) = NewSlot /\ rec[k] = none
  BY <1>1 DEF Stats
<1>6. ExactWith(rec)
  <2> HIDE DEF none, rec
  <2> QED
    BY <1>3, <1>4, <1>5 DEF ExactWith
<1> QED
  BY <1>1, <1>2, <1>6 DEF Exact

\* The innermost call has one param less to visit.
LEMMA AdvancedFacts ==
    ASSUME IInv, HasParam, NEW k \in TreeSlots, NEW v \in Value
    PROVE  /\ Top \in Frame /\ Top.next \in DOMAIN Params[Top.node]
           /\ Advanced \in Seq(Frame)
           /\ Pending(Advanced, k, v) \in Nat
           /\ Terms(Top.node, k, v)[Top.next] \in Nat
           /\ Pending(stack, k, v) = Pending(Advanced, k, v)
                                     + Terms(Top.node, k, v)[Top.next]
<1> DEFINE before == SubSeq(stack, 1, Len(stack) - 1)
           next   == [Top EXCEPT !.next = @ + 1]
<1>1. stack # <<>> /\ stack \in Seq(Frame) /\ Top.next <= Len(Params[Top.node])
  BY DEF HasParam, IInv
<1>2. Top \in Frame /\ Advanced \in Seq(Frame)
  BY <1>1, TopFrame
<1>3. next \in Frame
  BY <1>2 DEF Frame
<1>4. /\ before \in Seq(Frame) /\ Len(stack) \in Nat \ {0} /\ Len(before) = Len(stack) - 1
      /\ \A d \in 1..(Len(stack) - 1) : before[d] = stack[d]
  <2>1. Len(stack) \in Nat \ {0} /\ \A d \in 1..Len(stack) : stack[d] \in Frame
    BY <1>1, EmptySeq
  <2>2. /\ before \in Seq(Frame)
        /\ Len(before) = IF 1 <= Len(stack) - 1 THEN Len(stack) - 1 - 1 + 1 ELSE 0
        /\ \A d \in 1..(Len(stack) - 1 - 1 + 1) : before[d] = stack[1 + d - 1]
    <3>1. Len(stack) - 1 \in Int /\ \A d \in 1..(Len(stack) - 1) : stack[d] \in Frame
      BY <2>1
    <3> QED
      BY <3>1, SubSeqProperties
  <2> HIDE DEF before, next
  <2>3. Len(before) = Len(stack) - 1
    <3>1. PICK n \in Nat \ {0} : n = Len(stack)
      BY <2>1
    <3>2. Len(before) = IF 1 <= n - 1 THEN n - 1 - 1 + 1 ELSE 0
      BY <2>2, <3>1
    <3> QED
      BY <3>1, <3>2
  <2>4. ASSUME NEW d \in 1..(Len(stack) - 1) PROVE before[d] = stack[d]
    BY <2>1, <2>2
  <2> QED
    BY <2>1, <2>2, <2>3, <2>4
<1>5. stack = Append(before, Top)
  BY <1>1, <1>2, <1>4 DEF Top
<1>6. Advanced = Append(before, next)
  <2>1. Advanced = [stack EXCEPT ![Len(stack)] = next]
    BY DEF Advanced, Top
  <2>2. Len(Advanced) = Len(stack)
        /\ \A d \in 1..Len(stack) : Advanced[d] = IF d = Len(stack) THEN next ELSE stack[d]
    BY <1>1, <1>3, <2>1, ExceptSeq
  <2>3. Append(before, next) \in Seq(Frame) /\ Len(Append(before, next)) = Len(stack)
        /\ \A d \in 1..Len(stack) : Append(before, next)[d] = Advanced[d]
    <3> HIDE DEF before, next
    <3> QED
      BY <1>3, <1>4, <2>2
  <2> QED
    <3> HIDE DEF before, next
    <3> QED
      BY <1>2, <2>2, <2>3, SeqEqual
<1>7. /\ Top.next \in DOMAIN Params[Top.node]
      /\ Terms(Top.node, k, v)[Top.next] \in Nat
      /\ Rest(Top, k, v) = Terms(Top.node, k, v)[Top.next] + Rest(next, k, v)
      /\ Rest(next, k, v) \in Nat
  BY <1>1, <1>2, <1>3, RestFacts
<1> HIDE DEF before, next
<1>8. /\ Pending(before, k, v) \in Nat /\ Pending(Advanced, k, v) \in Nat
      /\ Pending(stack, k, v) = Pending(before, k, v) + Rest(Top, k, v)
      /\ Pending(Advanced, k, v) = Pending(before, k, v) + Rest(next, k, v)
  BY <1>2, <1>3, <1>4, <1>5, <1>6, PendingFacts
<1> QED
  BY <1>2, <1>7, <1>8

LEMMA ObserveExact ==
    ASSUME IInv, Exact, NEW n \in Root, Observe(n)
    PROVE  Exact'
<1>1. PICK rec \in [TreeSlots -> [Value -> Nat]] : ExactWith(rec)
  BY DEF Exact
<1>2. /\ stack = <<>> /\ stack' = <<Call(n)>> /\ slots' = slots
      /\ lines' = [lines EXCEPT ![n] = @ + 1] /\ lines \in [Root -> Nat]
  BY DEF Observe, IInv
<1>3. n \in Node /\ Call(n) \in Frame /\ Call(n).next = 1 /\ Call(n).node = n
  BY EnumAssumption, CallFrame DEF Call
<1>4. ASSUME NEW k \in TreeSlots, NEW v \in Value
      PROVE  rec[k][v] + Pending(stack', k, v) = Total(k, v)'
  <2>1. Pending(stack', k, v) = Occurs[n][k][v]
    <3>1. stack' = Append(<<>>, Call(n)) /\ <<>> \in Seq(Frame)
      BY <1>2
    <3>2. Pending(stack', k, v) = 0 + Rest(Call(n), k, v)
      BY <1>3, <3>1, PendingFacts
    <3>3. Rest(Call(n), k, v) = Occurs[n][k][v] /\ Rest(Call(n), k, v) \in Nat
      BY <1>3, RestFacts
    <3> QED
      BY <3>2, <3>3
  <2>2. Total(k, v)' = Total(k, v) + Occurs[n][k][v]
    BY <1>2, TotalFacts
  <2>3. rec[k][v] + 0 = Total(k, v)
    BY <1>1, <1>2, PendingFacts DEF ExactWith
  <2>4. rec[k][v] \in Nat /\ Occurs[n][k][v] \in Nat
    BY <1>3, OccursFacts
  <2> QED
    BY <2>1, <2>2, <2>3, <2>4
<1>5. \A k \in TreeSlots : Tracks(Stats(k), rec[k])'
  BY <1>1, <1>2 DEF ExactWith, Stats, Tracks, Varied
<1>6. ExactWith(rec)'
  BY <1>4, <1>5 DEF ExactWith
<1> QED
  BY <1>2, <1>6 DEF Exact

LEMMA LeafExact == ASSUME IInv, Exact, Leaf PROVE Exact'
<1>1. PICK rec \in [TreeSlots -> [Value -> Nat]] : ExactWith(rec)
  BY DEF Exact
<1> DEFINE key == <<TemplateOf[Top.node], Top.next>>
           val == Param
<1>2. /\ HasParam /\ val \in Value /\ stack' = Advanced /\ lines' = lines
      /\ slots' = [j \in DOMAIN slots \cup {key} |->
                     IF j = key THEN Record(Stats(key), val) ELSE slots[j]]
  BY DEF Leaf, Observed
<1>3. Top \in Frame /\ Top.next \in DOMAIN Params[Top.node]
  <2>1. stack # <<>> /\ stack \in Seq(Frame) /\ Top.next <= Len(Params[Top.node])
    BY <1>2 DEF HasParam, IInv
  <2>2. Top \in Frame
    BY <2>1, TopFrame
  <2>3. Params[Top.node] \in Seq(Node \cup Value) /\ Top.next \in Nat \ {0}
    BY <2>2, EnumAssumption DEF Frame
  <2> QED
    BY <2>1, <2>2, <2>3
<1>4. key \in TreeSlots
  BY <1>3 DEF TreeSlots, Frame
<1>5. PICK new \in [TreeSlots -> [Value -> Nat]] :
         /\ \A k \in TreeSlots : \A v \in Value :
               new[k][v] = rec[k][v] + IF k = key /\ v = val THEN 1 ELSE 0
         /\ new[key] = [rec[key] EXCEPT ![val] = @ + 1]
         /\ \A k \in TreeSlots \ {key} : new[k] = rec[k]
  <2> DEFINE one == [rec[key] EXCEPT ![val] = @ + 1]
             all == [rec EXCEPT ![key] = one]
  <2>1. rec[key] \in [Value -> Nat] /\ rec[key][val] + 1 \in Nat
    BY <1>2, <1>4
  <2> HIDE DEF key, val
  <2>2. one \in [Value -> Nat]
    BY <2>1
  <2>3. \A v \in Value : one[v] = rec[key][v] + IF v = val THEN 1 ELSE 0
    BY <2>1
  <2> HIDE DEF one
  <2>4. /\ all \in [TreeSlots -> [Value -> Nat]]
        /\ all[key] = one
        /\ \A k \in TreeSlots \ {key} : all[k] = rec[k]
    BY <1>4, <2>2
  <2> HIDE DEF all
  <2>5. ASSUME NEW k \in TreeSlots, NEW v \in Value
        PROVE  all[k][v] = rec[k][v] + IF k = key /\ v = val THEN 1 ELSE 0
    <3>1. rec[k][v] \in Nat
      OBVIOUS
    <3> QED
      BY <2>3, <2>4, <3>1
  <2> QED
    BY <2>4, <2>5 DEF one
<1>6. ASSUME NEW k \in TreeSlots, NEW v \in Value
      PROVE  new[k][v] + Pending(stack', k, v) = Total(k, v)'
  <2>1. Terms(Top.node, k, v)[Top.next] = IF k = key /\ v = val THEN 1 ELSE 0
    <3>1. Params[Top.node][Top.next] = val /\ val \notin Node
      BY <1>2, EnumAssumption DEF Param
    <3> QED
      BY <1>3, <3>1 DEF Terms, Below
  <2>2. /\ Pending(stack, k, v)
             = Pending(stack', k, v) + IF k = key /\ v = val THEN 1 ELSE 0
        /\ Pending(stack', k, v) \in Nat
    <3> HIDE DEF key, val
    <3> QED
      BY <1>2, <2>1, AdvancedFacts
  <2>3. rec[k][v] + Pending(stack, k, v) = Total(k, v) /\ rec[k][v] \in Nat
    BY <1>1 DEF ExactWith
  <2>4. Total(k, v)' = Total(k, v)
    BY <1>2 DEF Total
  <2> HIDE DEF key, val
  <2> QED
    BY <1>5, <2>2, <2>3, <2>4
<1>7. \A k \in TreeSlots : Tracks(Stats(k)', new[k])
  <2> SUFFICES ASSUME NEW k \in TreeSlots PROVE Tracks(Stats(k)', new[k])
    OBVIOUS
  <2>1. Tracks(Stats(k), rec[k])
    BY <1>1 DEF ExactWith
  <2>2. CASE k = key
    <3>1. Stats(key) \in SlotStats
      BY NewSlotBounded DEF Stats, IInv, Bounded
    <3>2. Stats(k)' = Record(Stats(key), val)
      BY <1>2, <2>2 DEF Stats
    <3>3. Tracks(Record(Stats(key), val), new[key])
      <4>1. key \in TreeSlots /\ val \in Value /\ Tracks(Stats(key), rec[key])
        BY <1>2, <1>4, <2>1, <2>2
      <4>2. new[key] = [rec[key] EXCEPT ![val] = @ + 1]
        BY <1>5
      <4> HIDE DEF key, val
      <4>3. rec[key] \in [Value -> Nat]
        BY <4>1
      <4>4. Tracks(Record(Stats(key), val), [rec[key] EXCEPT ![val] = @ + 1])
        BY <3>1, <4>1, <4>3, RecordTracks
      <4> QED
        BY <4>2, <4>4
    <3> QED
      BY <2>2, <3>2, <3>3
  <2>3. CASE k # key
    <3>1. Stats(k)' = Stats(k)
      BY <1>2, <2>3 DEF Stats
    <3>2. new[k] = rec[k]
      BY <1>5, <2>3
    <3> QED
      BY <2>1, <3>1, <3>2
  <2> QED
    BY <2>2, <2>3
<1>8. DOMAIN slots' \subseteq TreeSlots
  BY <1>2, <1>4 DEF Exact
<1> HIDE DEF key, val
<1>9. ExactWith(new)'
  BY <1>6, <1>7 DEF ExactWith
<1> QED
  BY <1>5, <1>8, <1>9 DEF Exact

LEMMA DescendExact == ASSUME IInv, Exact, Descend PROVE Exact'
<1>1. PICK rec \in [TreeSlots -> [Value -> Nat]] : ExactWith(rec)
  BY DEF Exact
<1>2. /\ HasParam /\ Param \in Node /\ stack' = Append(Advanced, Call(Param))
      /\ lines' = lines /\ slots' = slots
  BY DEF Descend
<1>3. Call(Param) \in Frame /\ Call(Param).next = 1 /\ Call(Param).node = Param
  BY <1>2, CallFrame DEF Call
<1>4. ASSUME NEW k \in TreeSlots, NEW v \in Value
      PROVE  Pending(stack', k, v) = Pending(stack, k, v)
  <2>1. /\ Top.next \in DOMAIN Params[Top.node] /\ Advanced \in Seq(Frame)
        /\ Pending(Advanced, k, v) \in Nat
        /\ Pending(stack, k, v) = Pending(Advanced, k, v)
                                  + Terms(Top.node, k, v)[Top.next]
    BY <1>2, AdvancedFacts
  <2>2. Terms(Top.node, k, v)[Top.next] = Occurs[Param][k][v]
    BY <1>2, <2>1 DEF Terms, Below, Param
  <2>3. Rest(Call(Param), k, v) = Occurs[Param][k][v]
    BY <1>3, RestFacts
  <2>4. Pending(stack', k, v) = Pending(Advanced, k, v) + Rest(Call(Param), k, v)
    BY <1>2, <1>3, <2>1, PendingFacts
  <2> QED
    BY <2>1, <2>2, <2>3, <2>4
<1>5. \A k \in TreeSlots : \A v \in Value :
         rec[k][v] + Pending(stack', k, v) = Total(k, v)'
  BY <1>1, <1>2, <1>4 DEF ExactWith, Total
<1>6. \A k \in TreeSlots : Tracks(Stats(k)', rec[k])
  BY <1>1, <1>2 DEF ExactWith, Stats
<1>7. ExactWith(rec)'
  BY <1>5, <1>6 DEF ExactWith
<1> QED
  BY <1>2, <1>7 DEF Exact

LEMMA ReturnExact == ASSUME IInv, Exact, Return PROVE Exact'
<1>1. PICK rec \in [TreeSlots -> [Value -> Nat]] : ExactWith(rec)
  BY DEF Exact
<1>2. /\ stack # <<>> /\ ~HasParam /\ stack' = Front(stack) /\ stack \in Seq(Frame)
      /\ lines' = lines /\ slots' = slots
  BY DEF Return, IInv
<1>3. Top \in Frame /\ Top.next > Len(Params[Top.node])
  <2>1. Top \in Frame
    BY <1>2, TopFrame
  <2>2. Params[Top.node] \in Seq(Node \cup Value) /\ Top.next \in Nat
    BY <2>1, EnumAssumption DEF Frame
  <2> QED
    BY <1>2, <2>1, <2>2 DEF HasParam
<1>4. stack' \in Seq(Frame) /\ stack = Append(stack', Top)
  BY <1>2, <1>3 DEF Front, Top
<1>5. ASSUME NEW k \in TreeSlots, NEW v \in Value
      PROVE  Pending(stack', k, v) = Pending(stack, k, v)
  <2>1. Rest(Top, k, v) = 0
    BY <1>3, RestFacts
  <2>2. /\ Pending(stack', k, v) \in Nat
        /\ Pending(stack, k, v) = Pending(stack', k, v) + Rest(Top, k, v)
    BY <1>3, <1>4, PendingFacts
  <2> QED
    BY <2>1, <2>2
<1>6. \A k \in TreeSlots : \A v \in Value :
         rec[k][v] + Pending(stack', k, v) = Total(k, v)'
  BY <1>1, <1>2, <1>5 DEF ExactWith, Total
<1>7. \A k \in TreeSlots : Tracks(Stats(k)', rec[k])
  BY <1>1, <1>2 DEF ExactWith, Stats
<1>8. ExactWith(rec)'
  BY <1>6, <1>7 DEF ExactWith
<1> QED
  BY <1>2, <1>8 DEF Exact

LEMMA ExactHolds == Spec => [](IInv /\ Exact)
<1>1. Init => IInv /\ Exact
  BY InitIInv, InitExact
<1>2. IInv /\ Exact /\ [Next]_vars => (IInv /\ Exact)'
  <2> SUFFICES ASSUME IInv, Exact, [Next]_vars PROVE Exact'
    BY NextIInv
  <2>1. CASE UNCHANGED vars
    BY <2>1 DEF vars, Exact, ExactWith, Stats, Total
  <2> QED
    BY <2>1, ObserveExact, LeafExact, DescendExact, ReturnExact DEF Next
<1> QED
  BY <1>1, <1>2, PTL DEF Spec

(***************************************************************************)
(* Between lines the reported enums are those that keeping every leaf of   *)
(* every line would give: the bounded memory loses nothing that Enums      *)
(* (enums.go) reports, for all trees, limits and orders of the lines.      *)
(***************************************************************************)
THEOREM EnumsAreExact == Spec => []EnumsExact
<1> SUFFICES ASSUME IInv, Exact PROVE EnumsExact
  BY ExactHolds, PTL
<1> DEFINE wanted == {j \in TreeSlots :
                         /\ Cardinality(Distinct(j)) \in 2..MaxDistinct
                         /\ TotalOf(j, Value) >= MinSeen
                         /\ TotalOf(j, Value) >= RepeatFactor * Cardinality(Distinct(j))}
           found  == {j \in DOMAIN slots : IsEnum(slots[j])}
           Kept(k) == [templateID |-> k[1], slot |-> k[2],
                       values |-> Distinct(k), seen |-> TotalOf(k, Value)]
<1> SUFFICES ASSUME stack = <<>>
             PROVE  {Enum(k, slots[k]) : k \in found} = {Kept(k) : k \in wanted}
  BY DEF EnumsExact, Enums
<1>1. PICK rec \in [TreeSlots -> [Value -> Nat]] : ExactWith(rec)
  BY DEF Exact
<1>2. ASSUME NEW k \in TreeSlots, NEW v \in Value
      PROVE  rec[k][v] = Total(k, v)
  <2>1. rec[k][v] \in Nat /\ rec[k][v] + 0 = Total(k, v)
    BY <1>1, PendingFacts DEF ExactWith
  <2> QED
    BY <2>1
<1>3. ASSUME NEW k \in TreeSlots
      PROVE  /\ Stats(k).seen = TotalOf(k, Value)
             /\ Stats(k).saturated <=> Cardinality(Distinct(k)) > MaxDistinct
             /\ Stats(k).values = IF Stats(k).saturated THEN {} ELSE Distinct(k)
             /\ Cardinality(Distinct(k)) \in Nat
  <2>1. rec[k] = [v \in Value |-> Total(k, v)]
    BY <1>2
  <2>2. TotalOf(k, Value) = SumFunctionOnSet(rec[k], Value)
    BY <2>1 DEF TotalOf, SumFunction
  <2>3. Distinct(k) = Varied(rec[k])
    BY <1>2 DEF Distinct, Varied
  <2>4. Tracks(Stats(k), rec[k]) /\ Cardinality(Varied(rec[k])) \in Nat
    BY <1>1, VariedFinite DEF ExactWith
  <2> QED
    BY <2>2, <2>3, <2>4 DEF Tracks
<1>4. ASSUME NEW k \in TreeSlots, k \in DOMAIN slots
      PROVE  /\ k \in found <=> k \in wanted
             /\ k \in found => Enum(k, slots[k]) = Kept(k)
  <2>1. Stats(k) = slots[k]
    BY <1>4 DEF Stats
  <2>2. MaxDistinct \in Nat
    BY EnumAssumption
  <2>3. CASE Stats(k).saturated
    BY <1>3, <1>4, <2>1, <2>2, <2>3 DEF IsEnum
  <2>4. CASE ~Stats(k).saturated
    <3>1. Stats(k).values = Distinct(k) /\ ~(Cardinality(Distinct(k)) > MaxDistinct)
      BY <1>3, <2>4
    <3>2. IsEnum(slots[k]) <=> k \in wanted
      BY <1>3, <2>1, <2>2, <2>4, <3>1 DEF IsEnum
    <3>3. Enum(k, slots[k]) = Kept(k)
      BY <1>3, <2>1, <3>1 DEF Enum
    <3> QED
      BY <1>4, <3>2, <3>3
  <2> QED
    BY <2>3, <2>4
<1>5. ASSUME NEW k \in TreeSlots, k \notin DOMAIN slots
      PROVE  k \notin wanted
  <2>1. Stats(k) = NewSlot
    BY <1>5 DEF Stats
  <2>2. Distinct(k) = {}
    BY <1>3, <2>1 DEF NewSlot
  <2>3. Cardinality(Distinct(k)) = 0
    BY <2>2, FS_EmptySet
  <2> QED
    BY <2>3
<1>6. DOMAIN slots \subseteq TreeSlots
  BY DEF Exact
<1>7. found = wanted /\ \A k \in found : Enum(k, slots[k]) = Kept(k)
  <2>1. found \subseteq DOMAIN slots /\ wanted \subseteq TreeSlots
    OBVIOUS
  <2> HIDE DEF found, wanted, Kept
  <2> QED
    BY <1>4, <1>5, <1>6, <2>1
<1> HIDE DEF found, wanted, Kept
<1> QED
  BY <1>7

-----------------------------------------------------------------------------
\* A non-empty set of numbers up to n has a largest element.
LEMMA HasLargest ==
  ASSUME NEW n \in Nat, NEW I, I \subseteq 0..n, I # {}
  PROVE  Max(I) \in I
<1> DEFINE T == {n - i : i \in I}
<1>0. PICK e \in I : TRUE
  OBVIOUS
<1>1. T \subseteq Nat /\ n - e \in T
  OBVIOUS
<1>2. PICK x \in T : \A y \in T : x <= y
  <2> HIDE DEF T
  <2> QED
    BY <1>1, LeastNat
<1>3. PICK i \in I : x = n - i
  OBVIOUS
<1>4. ASSUME NEW j \in I PROVE i >= j
  <2>1. n - j \in T
    OBVIOUS
  <2>2. n - i <= n - j
    BY <1>2, <1>3, <2>1
  <2>3. i \in 0..n /\ j \in 0..n
    OBVIOUS
  <2> QED
    BY ONLY n \in Nat, <2>2, <2>3
<1> QED
  BY <1>4 DEF Max

\* strings.TrimRight returns a prefix.
LEMMA TrimIsPrefix ==
  ASSUME NEW s \in Seq(Byte)
  PROVE  TrimRight(s) \in Seq(Byte)
<1> DEFINE I == {0} \cup {i \in DOMAIN s : s[i] \notin {CR, LF}}
<1>1. Len(s) \in Nat /\ DOMAIN s = 1..Len(s)
  OBVIOUS
<1>2. I \subseteq 0..Len(s) /\ I # {}
  BY <1>1
<1>3. Max(I) \in 0..Len(s)
  <2> HIDE DEF I
  <2> QED  BY <1>1, <1>2, HasLargest
<1>4. \A i \in 1..Max(I) : s[i] \in Byte
  BY <1>1, <1>3, ElementOfSeq
<1>5. SubSeq(s, 1, Max(I)) \in Seq(Byte)
  <2> HIDE DEF I
  <2> QED  BY <1>3, <1>4, SubSeqProperties
<1> QED
  BY <1>5 DEF TrimRight

-----------------------------------------------------------------------------
(***************************************************************************)
(* What readLine has in hand between two buffers.                          *)
(***************************************************************************)
Capped(n) == IF n > MaxLine THEN MaxLine ELSE n

InHand ==
    /\ \A i \in start+1..pos : input[i] # LF
    /\ truncated <=> pos - start > MaxLine
    /\ Len(b) = Capped(pos - start)
    /\ \A i \in 1..Len(b) : b[i] = input[start + i]

RInv == ReadTypeOK /\ InHand

USE InputAssumption, ReaderAssumption DEF InputAssumption, ReaderAssumption

\* The bytes of a line that are kept, by their places in the input.
LEMMA KeptBytes ==
  ASSUME RInv, NEW n \in start..Len(input)
  PROVE  /\ Feed!Kept(start, n) \in Seq(Byte)
         /\ Len(Feed!Kept(start, n)) = Capped(n - start)
         /\ \A i \in 1..Capped(n - start) : Feed!Kept(start, n)[i] = input[start + i]
<1> DEFINE line == Feed!Bytes(start, n)
           k == Capped(n - start)
<1>1. /\ input \in Seq(Byte) /\ Len(input) \in Nat
      /\ start \in Nat /\ n \in Nat /\ start <= n /\ n <= Len(input)
  BY DEF RInv, ReadTypeOK
<1>2. k \in Nat /\ k <= n - start
  BY <1>1 DEF RInv, Capped
<1>3. \A i \in start+1..n : input[i] \in Byte
  BY <1>1, ElementOfSeq
<1>4. /\ line \in Seq(Byte) /\ Len(line) = n - start
      /\ \A i \in 1..n - start : line[i] = input[start + i]
  <2>1. /\ SubSeq(input, start + 1, n) \in Seq(Byte)
        /\ Len(SubSeq(input, start + 1, n)) = IF start + 1 <= n THEN n - (start + 1) + 1 ELSE 0
        /\ \A i \in 1 .. n - (start + 1) + 1 :
              SubSeq(input, start + 1, n)[i] = input[(start + 1) + i - 1]
    BY <1>1, <1>3, SubSeqProperties
  <2> QED  BY <1>1, <2>1 DEF Feed!Bytes
<1>5. \A i \in 1..k : line[i] \in Byte
  BY <1>1, <1>2, <1>3, <1>4
<1>6. /\ SubSeq(line, 1, k) \in Seq(Byte) /\ Len(SubSeq(line, 1, k)) = k
      /\ \A i \in 1..k : SubSeq(line, 1, k)[i] = line[i]
  <2>1. /\ SubSeq(line, 1, k) \in Seq(Byte)
        /\ Len(SubSeq(line, 1, k)) = IF 1 <= k THEN k - 1 + 1 ELSE 0
        /\ \A i \in 1 .. k - 1 + 1 : SubSeq(line, 1, k)[i] = line[1 + i - 1]
    <3> HIDE DEF line, k
    <3> QED  BY <1>2, <1>5, SubSeqProperties
  <2> HIDE DEF line, k
  <2> QED  BY <1>2, <2>1
<1>7. Feed!Kept(start, n) = SubSeq(line, 1, k)
  BY DEF Feed!Kept, Capped
<1> HIDE DEF line, k
<1>8. \A i \in 1..k : SubSeq(line, 1, k)[i] = input[start + i]
  BY <1>1, <1>2, <1>4, <1>6
<1> QED
  BY <1>6, <1>7, <1>8 DEF k

(***************************************************************************)
(* readLine puts the pieces together to just those bytes.                  *)
(***************************************************************************)
LEMMA ExtendedIsKept ==
  ASSUME RInv, NEW n \in pos..Len(input)
  PROVE  /\ Extended(n) = Feed!Kept(start, n)
         /\ FlagAt(n) <=> n - start > MaxLine
<1> DEFINE more == SubSeq(Chunk(n), 1, IF Overflows(n) THEN MaxLine - Len(b) ELSE n - pos)
           k == IF Overflows(n) THEN MaxLine - Len(b) ELSE n - pos
<1>1. /\ input \in Seq(Byte) /\ Len(input) \in Nat
      /\ start \in Nat /\ pos \in Nat /\ n \in Nat
      /\ start <= pos /\ pos <= n /\ n <= Len(input)
      /\ b \in Seq(Byte) /\ Len(b) \in Nat /\ Len(b) <= MaxLine
      /\ MaxLine \in Nat
  BY LenProperties DEF RInv, ReadTypeOK
<1>2. Len(b) = IF pos - start > MaxLine THEN MaxLine ELSE pos - start
  BY DEF RInv, InHand, Capped
<1>3. k \in Nat /\ k <= n - pos /\ Len(b) + k = Capped(n - start)
  BY <1>1, <1>2 DEF Overflows, Capped
<1>4. \A i \in pos+1..n : input[i] \in Byte
  BY <1>1, ElementOfSeq
<1>5. /\ Chunk(n) \in Seq(Byte) /\ Len(Chunk(n)) = n - pos
      /\ \A i \in 1..n - pos : Chunk(n)[i] = input[pos + i]
  <2>1. /\ SubSeq(input, pos + 1, n) \in Seq(Byte)
        /\ Len(SubSeq(input, pos + 1, n)) = IF pos + 1 <= n THEN n - (pos + 1) + 1 ELSE 0
        /\ \A i \in 1 .. n - (pos + 1) + 1 :
              SubSeq(input, pos + 1, n)[i] = input[(pos + 1) + i - 1]
    BY <1>1, <1>4, SubSeqProperties
  <2> QED  BY <1>1, <2>1 DEF Chunk
<1>6. /\ more \in Seq(Byte) /\ Len(more) = k
      /\ \A i \in 1..k : more[i] = input[pos + i]
  <2>1. \A i \in 1..k : Chunk(n)[i] \in Byte
    BY <1>1, <1>3, <1>4, <1>5
  <2>2. /\ SubSeq(Chunk(n), 1, k) \in Seq(Byte)
        /\ Len(SubSeq(Chunk(n), 1, k)) = IF 1 <= k THEN k - 1 + 1 ELSE 0
        /\ \A i \in 1 .. k - 1 + 1 : SubSeq(Chunk(n), 1, k)[i] = Chunk(n)[1 + i - 1]
    <3> HIDE DEF k
    <3> QED  BY <1>3, <2>1, SubSeqProperties
  <2>3. more = SubSeq(Chunk(n), 1, k)
    OBVIOUS
  <2> HIDE DEF more, k
  <2> QED  BY <1>1, <1>3, <1>5, <2>2, <2>3
<1>7. Extended(n) = b \o more
  BY DEF Extended
<1> HIDE DEF more, k
<1>8. /\ b \o more \in Seq(Byte)
      /\ Len(b \o more) = Capped(n - start)
      /\ \A i \in 1..Capped(n - start) :
            (b \o more)[i] = IF i <= Len(b) THEN b[i] ELSE more[i - Len(b)]
  <2>1. /\ b \o more \in Seq(Byte)
        /\ Len(b \o more) = Len(b) + Len(more)
        /\ \A i \in 1..Len(b) + Len(more) :
              (b \o more)[i] = IF i <= Len(b) THEN b[i] ELSE more[i - Len(b)]
    BY <1>1, <1>6, ConcatProperties
  <2> QED  BY <1>3, <1>6, <2>1
<1>9. \A i \in 1..Capped(n - start) : (b \o more)[i] = input[start + i]
  <2>0. Capped(n - start) \in Nat
    BY <1>1, <1>3
  <2> TAKE i \in 1..Capped(n - start)
  <2>1. CASE i <= Len(b)
    BY <1>8, <2>1, <1>1 DEF RInv, InHand
  <2>2. CASE i > Len(b)
    <3>1. i - Len(b) \in 1..k /\ Len(b) = pos - start
      BY <1>1, <1>2, <1>3, <2>2 DEF Capped
    <3>2. more[i - Len(b)] = input[pos + (i - Len(b))]
      BY <1>6, <3>1
    <3> QED  BY <1>1, <1>8, <2>2, <3>1, <3>2
  <2>3. i <= Len(b) \/ i > Len(b)
    BY <1>1, <2>0
  <2> QED  BY <2>1, <2>2, <2>3
<1>10. Extended(n) = Feed!Kept(start, n)
  <2>1. /\ Feed!Kept(start, n) \in Seq(Byte)
        /\ Len(Feed!Kept(start, n)) = Capped(n - start)
        /\ \A i \in 1..Capped(n - start) : Feed!Kept(start, n)[i] = input[start + i]
    BY <1>1, KeptBytes
  <2> QED  BY <1>7, <1>8, <1>9, <2>1, SeqEqual
<1>11. FlagAt(n) <=> n - start > MaxLine
  <2>1. truncated <=> pos - start > MaxLine
    BY DEF RInv, InHand
  <2>2. n - start > MaxLine <=> (pos - start > MaxLine \/ Overflows(n))
    BY <1>1, <1>2 DEF Overflows
  <2> QED  BY <2>1, <2>2 DEF FlagAt
<1> QED
  BY <1>10, <1>11

-----------------------------------------------------------------------------
\* What a command has used stays a sequence of results.
LEMMA UseTyped ==
  ASSUME NEW o \in Seq([line : Seq(Byte), explained : BOOLEAN]),
         NEW c, NEW s \in Seq(Byte), NEW f \in BOOLEAN
  PROVE  Use(o, c, s, f) \in Seq([line : Seq(Byte), explained : BOOLEAN])
<1>1. Result(s, f) \in [line : Seq(Byte), explained : BOOLEAN]
  BY DEF Result, Explained
<1>2. CASE Uses(c, s, f)
  BY <1>1, <1>2, AppendProperties DEF Use
<1>3. CASE ~Uses(c, s, f)
  BY <1>3 DEF Use
<1> QED
  BY <1>2, <1>3

\* readLine returns with the reader at n, the end of the line.
LEMMA ReturnKeeps ==
  ASSUME RInv, NEW n \in pos..Len(input), Returns(n), status' \in {"reading", "done"}
  PROVE  RInv'
<1>1. /\ input \in Seq(Byte) /\ Len(input) \in Nat /\ n \in 0..Len(input)
      /\ MaxLine \in Nat
      /\ out \in Seq([line : Seq(Byte), explained : BOOLEAN])
  BY DEF RInv, ReadTypeOK
<1>2. Extended(n) \in Seq(Byte)
  <2>1. n \in start..Len(input)
    BY DEF RInv, ReadTypeOK
  <2> QED  BY <2>1, KeptBytes, ExtendedIsKept
<1>3. LineAt(n) \in Seq(Byte) /\ FlagAt(n) \in BOOLEAN
  <2>1. LineAt(n) \in Seq(Byte)
    BY <1>2, TrimIsPrefix DEF LineAt
  <2>2. FlagAt(n) \in BOOLEAN
    BY DEF FlagAt, Overflows, RInv, ReadTypeOK
  <2> QED  BY <2>1, <2>2
<1>4. out' \in Seq([line : Seq(Byte), explained : BOOLEAN])
  BY <1>1, <1>3, UseTyped DEF Returns
<1>5. /\ b' \in Seq(Byte) /\ Len(b') = 0
      /\ pos' = n /\ start' = n /\ ~truncated' /\ truncated' \in BOOLEAN
      /\ UNCHANGED <<input, end, command>>
  <2>1. b' = <<>>
    BY DEF Returns
  <2>2. b' \in Seq(Byte) /\ Len(b') = 0
    BY <2>1, EmptySeq
  <2> QED  BY <2>2 DEF Returns
<1>6. ReadTypeOK'
  BY <1>1, <1>4, <1>5 DEF RInv, ReadTypeOK
<1>7. Capped(pos' - start') = 0 /\ ~(pos' - start' > MaxLine)
  BY <1>1, <1>5 DEF Capped
<1>8. InHand'
  BY <1>1, <1>5, <1>7 DEF InHand
<1> QED
  BY <1>6, <1>8 DEF RInv

LEMMA InitInHand == ReadInit => RInv
<1> SUFFICES ASSUME ReadInit PROVE RInv
  OBVIOUS
<1>1. /\ input \in Seq(Byte) /\ Len(input) = 0 /\ b \in Seq(Byte) /\ Len(b) = 0
      /\ out \in Seq([line : Seq(Byte), explained : BOOLEAN])
  <2>1. input = <<>> /\ b = <<>> /\ out = <<>>
    BY DEF ReadInit
  <2> QED  BY <2>1, EmptySeq
<1>2. /\ pos = 0 /\ start = 0 /\ ~truncated /\ truncated \in BOOLEAN
      /\ end = "open"
      /\ command \in Command /\ status = "reading" /\ MaxLine \in Nat
  BY DEF ReadInit
<1>3. ReadTypeOK
  BY <1>1, <1>2 DEF ReadTypeOK
<1>4. InHand
  BY <1>1, <1>2 DEF InHand, Capped
<1> QED
  BY <1>3, <1>4 DEF RInv

\* The writer only adds to the input: what is in hand stays where it was.
LEMMA WriteKeeps == ASSUME RInv, NEW c \in Byte, Write(c) PROVE RInv'
<1>1. /\ input' \in Seq(Byte) /\ Len(input') = Len(input) + 1
      /\ \A i \in 1..Len(input) : input'[i] = input[i]
      /\ Len(input) \in Nat /\ pos \in Nat /\ start \in Nat
      /\ start <= pos /\ pos <= Len(input)
  BY DEF Write, RInv, ReadTypeOK
<1>2. ReadTypeOK'
  BY <1>1 DEF Write, RInv, ReadTypeOK
<1>3. InHand'
  <2>1. \A i \in start+1..pos : input'[i] # LF
    <3> TAKE i \in start+1..pos
    <3>1. i \in 1..Len(input)
      BY <1>1
    <3>2. input[i] # LF
      BY DEF RInv, InHand
    <3> QED  BY <1>1, <3>1, <3>2
  <2>2. /\ Len(b) \in Nat /\ Len(b) <= pos - start
    BY <1>1 DEF RInv, InHand, Capped
  <2>3. \A i \in 1..Len(b) : b[i] = input'[start + i]
    BY <1>1, <2>2 DEF RInv, InHand
  <2> QED  BY <2>1, <2>3 DEF Write, RInv, InHand
<1> QED
  BY <1>2, <1>3 DEF RInv

\* A full buffer is taken over into what is in hand.
LEMMA ContinueKeeps == ASSUME RInv, Continue PROVE RInv'
<1> DEFINE n == pos + BufSize
<1>1. /\ input \in Seq(Byte) /\ Len(input) \in Nat
      /\ pos \in Nat /\ start \in Nat /\ start <= pos
      /\ n \in pos..Len(input) /\ n \in start..Len(input)
      /\ BufSize \in Nat \ {0} /\ MaxLine \in Nat
  BY DEF RInv, ReadTypeOK, Continue, Full
<1>2. /\ b' = Feed!Kept(start, n)
      /\ truncated' \in BOOLEAN
      /\ truncated' <=> n - start > MaxLine
  <2>1. FlagAt(n) \in BOOLEAN
    BY <1>1 DEF FlagAt, Overflows, RInv, ReadTypeOK
  <2> QED  BY <1>1, <2>1, ExtendedIsKept DEF Continue
<1>3. /\ b' \in Seq(Byte) /\ Len(b') = Capped(n - start)
      /\ \A i \in 1..Capped(n - start) : b'[i] = input[start + i]
  BY <1>1, <1>2, KeptBytes
<1>4. ReadTypeOK'
  <2>1. Len(b') <= MaxLine /\ truncated' \in BOOLEAN
    BY <1>1, <1>2, <1>3 DEF Capped
  <2>2. UNCHANGED <<input, end, start, command, out, status>> /\ pos' = n
    BY DEF Continue
  <2>3. pos' \in 0..Len(input') /\ start' \in 0..pos'
    BY <1>1, <2>2
  <2> HIDE DEF n
  <2> QED  BY <1>3, <2>1, <2>2, <2>3 DEF RInv, ReadTypeOK
<1>5. \A i \in start+1..n : input[i] # LF
  BY <1>1 DEF RInv, InHand, Continue, Full, NoNewline
<1>6. InHand'
  BY <1>1, <1>2, <1>3, <1>5 DEF Continue, InHand
<1> QED
  BY <1>4, <1>6 DEF RInv

LEMMA NextInHand == RInv /\ [ReadNext]_readVars => RInv'
<1> SUFFICES ASSUME RInv, [ReadNext]_readVars PROVE RInv'
  OBVIOUS
<1>1. ASSUME NEW c \in Byte, Write(c) PROVE RInv'
  BY <1>1, WriteKeeps
<1>2. ASSUME NEW how \in {"eof", "error"}, Close(how) PROVE RInv'
  BY <1>2 DEF Close, RInv, ReadTypeOK, InHand
<1>3. CASE Continue
  BY <1>3, ContinueKeeps
<1>4. CASE Delimited
  <2>1. PICK n \in 1..Len(input) : Delimits(n) /\ Returns(n)
    BY <1>4 DEF Delimited
  <2>2. n \in pos..Len(input)
    BY <2>1 DEF Delimits, RInv, ReadTypeOK
  <2> QED  BY <1>4, <2>1, <2>2, ReturnKeeps DEF Delimited
<1>5. CASE EndOfInput
  <2>1. Len(input) \in pos..Len(input)
    BY DEF RInv, ReadTypeOK
  <2> QED  BY <1>5, <2>1, ReturnKeeps DEF EndOfInput
<1>6. CASE ReadFails \/ WriteFails
  BY <1>6 DEF ReadFails, WriteFails, RInv, ReadTypeOK, InHand
<1>7. CASE UNCHANGED readVars
  BY <1>7 DEF readVars, RInv, ReadTypeOK, InHand
<1> QED
  BY <1>1, <1>2, <1>3, <1>4, <1>5, <1>6, <1>7 DEF ReadNext, Step

LEMMA InHandHolds == ReadSpec => []RInv
  BY InitInHand, NextInHand, PTL DEF ReadSpec

(***************************************************************************)
(* The types, the bound on what is held of a line among them, for any      *)
(* buffer and any bound.                                                   *)
(***************************************************************************)
THEOREM ReaderTyped == ReadSpec => []ReadTypeOK
<1>1. RInv => ReadTypeOK
  BY DEF RInv
<1> QED
  BY <1>1, InHandHolds, PTL

-----------------------------------------------------------------------------
\* The two modules mean the same by using a line.
LEMMA SameUse ==
  /\ Feed!Command = Command
  /\ \A s : Feed!TrimRight(s) = TrimRight(s)
  /\ \A o, c, s, f : Feed!Use(o, c, s, f) = Use(o, c, s, f)
<1>1. Feed!Command = Command
  BY DEF Command, Feed!Command
<1>2. \A s : Feed!TrimRight(s) = TrimRight(s)
  BY Zenon DEF TrimRight, Feed!TrimRight, Max, Feed!Max
<1>3. \A o, c, s, f : Feed!Use(o, c, s, f) = Use(o, c, s, f)
  BY Zenon DEF Use, Uses, Explained, Result, Feed!Use, Feed!Uses, Feed!Explained, Feed!Result
<1> QED
  BY <1>1, <1>2, <1>3, Zenon

\* What readLine returns at n is the whole line from start to n, in one piece.
LEMMA ReturnHandles ==
  ASSUME RInv, NEW n \in pos..Len(input), NoNewline(n - 1), Returns(n)
  PROVE  Feed!Handle(n) /\ Feed!Unbroken(start, n - 1)
<1>1. /\ pos \in Nat /\ start \in Nat /\ n \in Nat /\ start <= pos /\ pos <= n
      /\ n \in start..Len(input)
  BY DEF RInv, ReadTypeOK
<1>2. Extended(n) = Feed!Kept(start, n)
  BY ExtendedIsKept
<1>3. FlagAt(n) = (n - start > MaxLine)
  <2>1. FlagAt(n) \in BOOLEAN
    BY DEF FlagAt, Overflows, RInv, ReadTypeOK
  <2>2. FlagAt(n) <=> n - start > MaxLine
    BY ExtendedIsKept
  <2> QED  BY <2>1, <2>2
<1>4. Feed!Handle(n)
  BY <1>2, <1>3, SameUse, Zenon DEF Returns, LineAt, Feed!Handle
<1>5. Feed!Unbroken(start, n - 1)
  BY <1>1 DEF RInv, InHand, NoNewline, Feed!Unbroken
<1> QED
  BY <1>4, <1>5

LEMMA InitMaps == ReadInit => Feed!Init
  BY SameUse DEF ReadInit, Feed!Init

\* A newline found is a line handled.
LEMMA DelimitedMaps == ASSUME RInv, Delimited PROVE Feed!Line
<1>1. PICK n \in 1..Len(input) : Delimits(n) /\ Returns(n)
  BY DEF Delimited
<1>2. n \in pos..Len(input) /\ n \in start+1..Len(input)
  BY <1>1 DEF Delimits, RInv, ReadTypeOK
<1>3. input[n] = LF /\ NoNewline(n - 1)
  BY <1>1 DEF Delimits
<1>4. Feed!Handle(n) /\ Feed!Unbroken(start, n - 1)
  BY <1>1, <1>2, <1>3, ReturnHandles
<1>5. start' = n /\ UNCHANGED <<input, end, command, status>>
  BY <1>1 DEF Returns, Delimited
<1>6. status = "reading"
  BY DEF Delimited
<1> QED
  BY <1>2, <1>3, <1>4, <1>5, <1>6, Zenon DEF Feed!Line

\* So is what the input ends with.
LEMMA EndMaps == ASSUME RInv, EndOfInput PROVE Feed!Finish
<1> DEFINE n == Len(input)
<1>1. n \in pos..Len(input) /\ n \in Nat /\ pos \in Nat /\ start \in Nat /\ start <= pos
  BY DEF RInv, ReadTypeOK
<1>2. NoNewline(n) /\ Returns(n)
  BY DEF EndOfInput, Drained
<1>3. NoNewline(n - 1)
  BY <1>1, <1>2 DEF NoNewline
<1>4. Feed!Handle(n)
  BY <1>1, <1>2, <1>3, ReturnHandles
<1>5. Feed!Unbroken(start, n)
  BY <1>1, <1>2 DEF RInv, InHand, NoNewline, Feed!Unbroken
<1> QED
  BY <1>4, <1>5 DEF EndOfInput, Returns, Feed!Finish

LEMMA StepMaps == RInv /\ [ReadNext]_readVars => [Feed!Next]_(Feed!vars)
<1> SUFFICES ASSUME RInv, [ReadNext]_readVars PROVE [Feed!Next]_(Feed!vars)
  OBVIOUS
<1>1. ASSUME NEW c \in Byte, Write(c) PROVE Feed!Next
  BY <1>1 DEF Write, Feed!Write, Feed!Next
<1>2. ASSUME NEW how \in {"eof", "error"}, Close(how) PROVE Feed!Next
  BY <1>2 DEF Close, Feed!Close, Feed!Next
<1>3. CASE Continue
  BY <1>3 DEF Continue, Feed!vars
<1>4. CASE Delimited
  BY <1>4, DelimitedMaps DEF Feed!Next
<1>5. CASE EndOfInput
  BY <1>5, EndMaps DEF Feed!Next
<1>6. CASE ReadFails \/ WriteFails
  BY <1>6 DEF ReadFails, WriteFails, Feed!Fail, Feed!Next
<1>7. CASE UNCHANGED readVars
  BY <1>7 DEF readVars, Feed!vars
<1> QED
  BY <1>1, <1>2, <1>3, <1>4, <1>5, <1>6, <1>7 DEF ReadNext, Step

(***************************************************************************)
(* For any buffer size and bound the commands handle the lines of their    *)
(* input as if each had come in one piece.                                 *)
(***************************************************************************)
THEOREM ReaderImplements == ReadSpec => ImplementsFeed
  BY InitMaps, StepMaps, InHandHolds, PTL DEF ReadSpec, ImplementsFeed, Feed!Spec
=============================================================================
