---------------------------- MODULE EnumTracker ----------------------------
(***************************************************************************)
(* Enum detection (enums.go): Observe walks the node tree of every matched *)
(* line and records string leaves under (template, slot), with bounded     *)
(* memory; Enums reports the slots whose values repeat.                    *)
(*                                                                         *)
(* The recursion of Observe is a stack of frames, a node and the next of   *)
(* its params.  Trees come from a small set of nodes, by name.             *)
(***************************************************************************)
EXTENDS Integers, Sequences, SequencesExt, FiniteSets, FiniteSetsExt

CONSTANTS Node,          \* resolved nodes, roots and sub-nodes
          Root,          \* those Resolve returns for a line
          Value,         \* captured text
          Empty,         \* the empty capture among it
          TemplateOf,    \* node -> its template's ID
          Params,        \* node -> its params, values and sub-nodes
          MaxDistinct,   \* the -max-distinct flag of srclog enums
          MinSeen,       \* its -min flag
          RepeatFactor,  \* repeatFactor, 4 in the code
          MaxLines       \* bound on the lines observed

\* Trees are finite: whatever nodes one takes, one has none of them below it.
ASSUME EnumAssumption ==
    /\ Node \cap Value = {} /\ Root \subseteq Node
    /\ IsFiniteSet(Node) /\ IsFiniteSet(Value) /\ Empty \in Value
    /\ DOMAIN TemplateOf = Node
    /\ Params \in [Node -> Seq(Node \cup Value)]
    /\ \A S \in SUBSET Node : S # {} => \E n \in S : ToSet(Params[n]) \cap S = {}
    /\ MaxDistinct \in Nat \ {0}
    /\ MinSeen \in Nat /\ RepeatFactor \in Nat \ {0} /\ MaxLines \in Nat

VARIABLES slots,   \* e.slots: (template, slot) -> what is tracked of it
          stack,   \* the calls of Observe under way, the innermost last
          lines    \* history: how often each root was observed

vars == <<slots, stack, lines>>

Slot == {TemplateOf[n] : n \in Node} \X (Nat \ {0})

Frame == [node : Node, next : Nat \ {0}]

SlotStats == [seen : Nat, values : SUBSET Value, saturated : BOOLEAN]

NewSlot == [seen |-> 0, values |-> {}, saturated |-> FALSE]

Stats(k) == IF k \in DOMAIN slots THEN slots[k] ELSE NewSlot

\* Defect: saturation does not free the values.
RecordKeeping(s, v) ==
    LET values == s.values \cup ({v} \ {Empty}) IN
    [seen |-> s.seen + 1,
     values |-> values,
     saturated |-> s.saturated \/ Cardinality(values) > MaxDistinct]

\* Defect: a value after saturation starts the set anew.
RecordAnew(s, v) ==
    LET values == s.values \cup ({v} \ {Empty})
        over   == Cardinality(values) > MaxDistinct
    IN  [seen |-> s.seen + 1, values |-> IF over THEN {} ELSE values, saturated |-> over]

(***************************************************************************)
(* One leaf in its slot: empty captures and saturated slots only count;    *)
(* one distinct value too many disqualifies the slot and frees its values. *)
(***************************************************************************)
Record(s, v) ==
    LET values == s.values \cup {v}
        over   == Cardinality(values) > MaxDistinct
    IN  IF s.saturated \/ v = Empty
        THEN [s EXCEPT !.seen = @ + 1]
        ELSE [seen |-> s.seen + 1,
              values |-> IF over THEN {} ELSE values,
              saturated |-> over]

-----------------------------------------------------------------------------
Init ==
    /\ slots = [k \in {} |-> NewSlot]
    /\ stack = <<>>
    /\ lines = [n \in Root |-> 0]

Call(n) == [node |-> n, next |-> 1]

Top == stack[Len(stack)]

HasParam == stack # <<>> /\ Top.next <= Len(Params[Top.node])

Param == Params[Top.node][Top.next]

Advanced == [stack EXCEPT ![Len(stack)].next = @ + 1]

MayObserve == SumFunction(lines) < MaxLines

\* Another line resolved: Observe(n) from the enums command.
Observe(n) ==
    /\ stack = <<>>
    /\ MayObserve
    /\ stack' = <<Call(n)>>
    /\ lines' = [lines EXCEPT ![n] = @ + 1]
    /\ UNCHANGED slots

Observed(k, v) ==
    slots' = [j \in DOMAIN slots \cup {k} |->
                IF j = k THEN Record(Stats(k), v) ELSE slots[j]]

\* Defect: a sub-node is recorded as a value of its parent's slot.
LeafAny ==
    /\ HasParam
    /\ Observed(<<TemplateOf[Top.node], Top.next>>, Param)
    /\ stack' = Advanced
    /\ UNCHANGED lines

Leaf ==
    /\ HasParam /\ Param \in Value
    /\ Observed(<<TemplateOf[Top.node], Top.next>>, Param)
    /\ stack' = Advanced
    /\ UNCHANGED lines

\* A sub-node's slots are its own.
Descend ==
    /\ HasParam /\ Param \in Node
    /\ stack' = Append(Advanced, Call(Param))
    /\ UNCHANGED <<slots, lines>>

Return ==
    /\ stack # <<>> /\ ~HasParam
    /\ stack' = Front(stack)
    /\ UNCHANGED <<slots, lines>>

Next == (\E n \in Root : Observe(n)) \/ Leaf \/ Descend \/ Return

Spec == Init /\ [][Next]_vars
-----------------------------------------------------------------------------
(***************************************************************************)
(* The slots that hold an enum.                                            *)
(***************************************************************************)
IsEnum(s) ==
    /\ ~s.saturated
    /\ s.seen >= MinSeen
    /\ Cardinality(s.values) >= 2
    /\ s.seen >= RepeatFactor * Cardinality(s.values)

Enum(k, s) == [templateID |-> k[1], slot |-> k[2], values |-> s.values, seen |-> s.seen]

Enums == {Enum(k, slots[k]) : k \in {j \in DOMAIN slots : IsEnum(slots[j])}}

-----------------------------------------------------------------------------
TypeOK ==
    /\ DOMAIN slots \subseteq Slot
    /\ \A k \in DOMAIN slots : slots[k] \in SlotStats
    /\ stack \in Seq(Frame)
    /\ lines \in [Root -> Nat]

\* The (template, slot) pairs there are.
TreeSlots == UNION {{<<TemplateOf[n], i>> : i \in DOMAIN Params[n]} : n \in Node}

(***************************************************************************)
(* How many leaves with value v a whole tree has in slot k: those in the   *)
(* i-th param of a node, given what its sub-nodes have, and all of them.   *)
(***************************************************************************)
Below(occurs, n, i, k, v) ==
    IF Params[n][i] \in Node THEN occurs[Params[n][i]][k][v]
    ELSE IF k = <<TemplateOf[n], i>> /\ Params[n][i] = v THEN 1 ELSE 0

Occurs[n \in Node] ==
    [k \in TreeSlots |-> [v \in Value |->
        SumFunction([i \in DOMAIN Params[n] |-> Below(Occurs, n, i, k, v)])]]

\* How many of them the lines observed so far had.
Total(k, v) == SumFunction([n \in Root |-> lines[n] * Occurs[n][k][v]])

TotalOf(k, values) == SumFunction([v \in values |-> Total(k, v)])

Distinct(k) == {v \in Value \ {Empty} : Total(k, v) > 0}

(***************************************************************************)
(* Tracking with bounded memory loses nothing that matters: between lines, *)
(* Enums answers as if every leaf of every line had been kept, whatever    *)
(* the order the lines came in.  A slot that once had too many values is   *)
(* out for good, and each leaf counts for its own template's slot.         *)
(***************************************************************************)
EnumsExact ==
    stack = <<>> =>
        Enums = {[templateID |-> k[1], slot |-> k[2],
                  values |-> Distinct(k), seen |-> TotalOf(k, Value)] :
                 k \in {j \in TreeSlots :
                         /\ Cardinality(Distinct(j)) \in 2..MaxDistinct
                         /\ TotalOf(j, Value) >= MinSeen
                         /\ TotalOf(j, Value) >= RepeatFactor * Cardinality(Distinct(j))}}

(***************************************************************************)
(* "Memory is bounded": no slot ever keeps more than MaxDistinct values,   *)
(* and a disqualified one keeps none, at any point of any stream.          *)
(***************************************************************************)
TrackedBounded ==
    \A k \in DOMAIN slots :
        /\ Cardinality(slots[k].values) <= MaxDistinct
        /\ slots[k].saturated => slots[k].values = {}

(***************************************************************************)
(* decisions.md:349 and enums.go:83 of a reported enum: its values, which  *)
(* empty captures are not, repeat RepeatFactor times on average.           *)
(***************************************************************************)
ValuesRepeat ==
    stack = <<>> =>
        \A e \in Enums :
            TotalOf(<<e.templateID, e.slot>>, e.values)
                >= RepeatFactor * Cardinality(e.values)
=============================================================================
