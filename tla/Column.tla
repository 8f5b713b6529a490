------------------------------- MODULE Column -------------------------------
(***************************************************************************)
(* Columnar storage (column.go): BuildColumn resolves every line of a      *)
(* block, folds the slots that never vary into the template text, and      *)
(* encodes the trees into streams; WriteTo and ReadColumn carry them; Rows *)
(* reads the lines back.  One behaviour is the way of one block.           *)
(*                                                                         *)
(* The recursions of encodeNode and render are a stack of frames.  Slots   *)
(* count from 1, and slot 0 is the prefix stream (0 and -1 in the code).   *)
(***************************************************************************)
EXTENDS Cascade

CONSTANTS Lt, Star, Gt,   \* the three bytes of the placeholder
          Blocks,         \* the sequences of lines to encode
          MinLeaves,      \* a bucket this long, 8 in the code,
          MaxWords        \* with at most this many values, 255, gets a dictionary

ASSUME ColumnAssumption ==
    /\ {Lt, Star, Gt} \subseteq Char \ {Blank, Colon}
    /\ Lt # Star /\ Lt # Gt /\ Star # Gt
    /\ Blocks \subseteq Seq(Seq(Char))
    /\ MinLeaves \in Nat /\ MaxWords \in Nat

VARIABLES
    lines,      \* the block
    folded,     \* pass one: (ID, slot) -> the one value it holds
    rowIDs, table, subIDs, buckets, unmatched,   \* the Column
    stack,      \* the calls of encodeNode or render under way
    read,       \* the cursor: how much of each stream has been read
    rows,       \* what Rows has reconstructed, the row under way included
    marks,      \* history: how long the streams were before each row
    pc          \* "profile", "encode", "transfer", "decode" or "done"

column == <<rowIDs, table, subIDs, buckets, unmatched>>
vars   == <<lines, folded, column, stack, read, rows, marks, pc>>

\* Resolve for every line that occurs, computed once.
Resolved == [l \in UNION {ToSet(b) : b \in Blocks} |-> Resolve(l)]

-----------------------------------------------------------------------------
(***************************************************************************)
(* Template text is written out and split at "<*>" again by whoever reads  *)
(* it: three characters that happen to meet are a placeholder then.        *)
(***************************************************************************)
Reread(text) ==
    LET Read(done, c) ==
          LET n == Len(done)
          IN  IF c = Gt /\ n >= 2 /\ SubSeq(done, n - 1, n) = <<Lt, Star>>
              THEN Append(SubSeq(done, 1, n - 2), Placeholder)
              ELSE Append(done, c)
        seen[i \in 0..Len(text)] == IF i = 0 THEN <<>> ELSE Read(seen[i-1], text[i])
    IN  seen[Len(text)]

HasMarker(value) == HasPlaceholder(Reread(value))

\* How many placeholders are among the first i symbols, where the k-th is,
\* and the i-th literal part, from 0.
Slots(text, i) == Cardinality({j \in 1..i : text[j] = Placeholder})

Holes(text) ==
    [k \in 1..Slots(text, Len(text)) |->
        CHOOSE i \in DOMAIN text : text[i] = Placeholder /\ Slots(text, i) = k]

Part(text, i) ==
    LET cuts == <<0>> \o Holes(text) \o <<Len(text) + 1>>
    IN  SubSeq(text, cuts[i+1] + 1, cuts[i+2] - 1)

(***************************************************************************)
(* Pass one.  What a slot of a template holds over the block, and whether  *)
(* it folds: leaves only, one value, no placeholder in it.                 *)
(***************************************************************************)
Profile(block) ==
    LET nodes == UNION {NodesIn(n) : n \in UNION {Resolved[l] : l \in ToSet(block)}}
    IN  UNION {{<<n.id, i, n.params[i]>> : i \in DOMAIN n.params} : n \in nodes}

\* Defect: a slot is taken to vary as soon as it is seen.
FoldsNever(params) == FALSE

Folds(params) ==
    \E p \in params : params = {p} /\ ~IsNode(p) /\ ~HasMarker(p.value)

Fold(profile) ==
    LET held(k) == {q[3] : q \in {r \in profile : <<r[1], r[2]>> = k}}
        slots   == {<<q[1], q[2]>> : q \in profile}
    IN  [k \in {s \in slots : Folds(held(s))} |-> (CHOOSE p \in held(k) : TRUE).value]

IsFolded(id, i) == <<id, i>> \in DOMAIN folded

(***************************************************************************)
(* Pass two: the block-specialised text of a template, and the slot of it  *)
(* that an unfolded slot becomes.                                          *)
(***************************************************************************)
Specialised(n) ==
    FlattenSeq([i \in DOMAIN n.text |->
        IF n.text[i] = Placeholder /\ IsFolded(n.id, Slots(n.text, i))
        THEN folded[<<n.id, Slots(n.text, i)>>] ELSE <<n.text[i]>>])

\* Defect: the slots of the original text.
OriginalSlot(id, i) == i

CompactSlot(id, i) == Cardinality({j \in 1..i : ~IsFolded(id, j)})

-----------------------------------------------------------------------------
Init ==
    /\ lines \in Blocks
    /\ folded = <<>>
    /\ rowIDs = <<>> /\ table = <<>> /\ subIDs = <<>> /\ unmatched = <<>>
    /\ buckets = [k \in {} |-> <<>>]
    /\ stack = <<>>
    /\ read = [sub |-> 0, unm |-> 0, pos |-> [k \in {} |-> 0]]
    /\ rows = <<>>
    /\ marks = <<>>
    /\ pc = "profile"

ProfileBlock ==
    /\ pc = "profile"
    /\ folded' = Fold(Profile(lines))
    /\ pc' = "encode"
    /\ UNCHANGED <<lines, column, stack, read, rows, marks>>

Top == stack[Len(stack)]

Bucket(k) == IF k \in DOMAIN buckets THEN buckets[k] ELSE <<>>

Put(k, value) ==
    [j \in DOMAIN buckets \cup {k} |-> IF j = k THEN Append(Bucket(k), value) ELSE buckets[j]]

\* The table code of an ID, as the set of the one code, empty before its first use.
CodeOf(id) == {k \in DOMAIN table : table[k].id = id}

Entry(n) == [id |-> n.id, text |-> Specialised(n), suffix |-> n.suffix, count |-> 1]

\* Defect: only the first use is counted.
CodedOnce(n) == IF CodeOf(n.id) = {} THEN Append(table, Entry(n)) ELSE table

\* code: the table after one more use of a node's template.
Coded(n) ==
    IF CodeOf(n.id) = {}
    THEN Append(table, Entry(n))
    ELSE [k \in DOMAIN table |-> IF k \in CodeOf(n.id)
                                 THEN [table[k] EXCEPT !.count = @ + 1] ELSE table[k]]

CodeFor(n) == IF CodeOf(n.id) = {} THEN Len(table) + 1
              ELSE CHOOSE k \in CodeOf(n.id) : TRUE

(***************************************************************************)
(* code and the start of encodeNode: a dictionary node's prefix goes into  *)
(* slot 0 of its bucket.                                                   *)
(***************************************************************************)
Enter(n, callers) ==
    /\ table' = Coded(n)
    /\ buckets' = IF n.suffix THEN Put(<<CodeFor(n), 0>>, n.prefix) ELSE buckets
    /\ stack' = Append(callers, [code |-> CodeFor(n), node |-> n, next |-> 1])

StreamLengths ==
    [sub |-> Len(subIDs), unm |-> Len(unmatched),
     pos |-> [k \in DOMAIN buckets |-> Len(buckets[k])]]

EncodingRow == pc = "encode" /\ stack = <<>> /\ Len(rowIDs) < Len(lines)

EncodeMatched ==
    /\ EncodingRow
    /\ \E n \in Resolved[lines[Len(rowIDs) + 1]] :
          /\ rowIDs' = Append(rowIDs, CodeFor(n))
          /\ Enter(n, <<>>)
    /\ marks' = Append(marks, StreamLengths)
    /\ UNCHANGED <<lines, folded, subIDs, unmatched, read, rows, pc>>

EncodeUnmatched ==
    /\ EncodingRow
    /\ Resolved[lines[Len(rowIDs) + 1]] = {}
    /\ rowIDs' = Append(rowIDs, 0)
    /\ unmatched' = Append(unmatched, lines[Len(rowIDs) + 1])
    /\ marks' = Append(marks, StreamLengths)
    /\ UNCHANGED <<lines, folded, table, subIDs, buckets, stack, read, rows, pc>>

EncodingParam == /\ pc = "encode" /\ stack # <<>>
                 /\ Top.next <= Len(Top.node.params)

Slot == Top.node.params[Top.next]

Advanced == [stack EXCEPT ![Len(stack)].next = @ + 1]

EncodeNode ==
    /\ EncodingParam /\ IsNode(Slot)
    /\ subIDs' = Append(subIDs, CodeFor(Slot))
    /\ Enter(Slot, Advanced)
    /\ UNCHANGED <<lines, folded, rowIDs, unmatched, read, rows, marks, pc>>

\* Defect: a folded slot still has its entry among the sub-IDs.
EncodeFoldedKept ==
    /\ EncodingParam /\ ~IsNode(Slot) /\ IsFolded(Top.node.id, Top.next)
    /\ subIDs' = Append(subIDs, 0)
    /\ stack' = Advanced
    /\ UNCHANGED <<lines, folded, rowIDs, table, buckets, unmatched, read, rows, marks, pc>>

\* The value is in the template text: nothing is written.
EncodeFolded ==
    /\ EncodingParam /\ ~IsNode(Slot) /\ IsFolded(Top.node.id, Top.next)
    /\ stack' = Advanced
    /\ UNCHANGED <<lines, folded, column, read, rows, marks, pc>>

EncodeLeaf ==
    /\ EncodingParam /\ ~IsNode(Slot) /\ ~IsFolded(Top.node.id, Top.next)
    /\ subIDs' = Append(subIDs, 0)
    /\ buckets' = Put(<<Top.code, CompactSlot(Top.node.id, Top.next)>>, Slot.value)
    /\ stack' = Advanced
    /\ UNCHANGED <<lines, folded, rowIDs, table, unmatched, read, rows, marks, pc>>

EncodeReturn ==
    /\ pc = "encode" /\ stack # <<>> /\ Top.next > Len(Top.node.params)
    /\ stack' = Front(stack)
    /\ UNCHANGED <<lines, folded, column, read, rows, marks, pc>>

EncodeDone ==
    /\ pc = "encode" /\ stack = <<>> /\ Len(rowIDs) = Len(lines)
    /\ marks' = Append(marks, StreamLengths)
    /\ pc' = "transfer"
    /\ UNCHANGED <<lines, folded, column, stack, read, rows>>

-----------------------------------------------------------------------------
(***************************************************************************)
(* writeBucket: a dictionary in order of first occurrence and an index per *)
(* leaf when the values repeat enough to pay for it.  readBucket undoes it.*)
(***************************************************************************)
Words(values) ==
    LET words[i \in 0..Len(values)] ==
          IF i = 0 THEN <<>>
          ELSE LET done == words[i-1]
               IN  IF values[i] \in ToSet(done) THEN done ELSE Append(done, values[i])
    IN  words[Len(values)]

Indexed(values) ==
    [words |-> Words(values),
     index |-> [i \in DOMAIN values |-> SelectInSeq(Words(values), LAMBDA w : w = values[i])]]

PaysForDictionary(values) ==
    LET n == Len(Words(values))
    IN  n <= MaxWords /\ Len(values) >= MinLeaves /\ 2 * n <= Len(values)

Carried(values) ==
    LET d == Indexed(values)
    IN  IF PaysForDictionary(values) THEN [i \in DOMAIN d.index |-> d.words[d.index[i]]]
        ELSE values

\* WriteTo and ReadColumn, which accepts no code outside the table.
Transfer ==
    /\ pc = "transfer"
    /\ ToSet(rowIDs) \cup ToSet(subIDs) \subseteq 0..Len(table)
    /\ buckets' = [k \in DOMAIN buckets |-> Carried(buckets[k])]
    /\ read' = [read EXCEPT !.pos = [k \in DOMAIN buckets |-> 0]]
    /\ pc' = "decode"
    /\ UNCHANGED <<lines, folded, rowIDs, table, subIDs, unmatched, stack, rows, marks>>

-----------------------------------------------------------------------------
(***************************************************************************)
(* Rows.  Where a stream has no next entry it returns an error (Fails);    *)
(* no step is possible then.                                               *)
(***************************************************************************)
NextLeaf(k) ==
    {buckets[j][read.pos[j] + 1] :
        j \in {i \in DOMAIN buckets : i = k /\ read.pos[i] < Len(buckets[i])}}

NextSub == {subIDs[i] : i \in DOMAIN subIDs \cap {read.sub + 1}}

Emit(s) == [rows EXCEPT ![Len(rows)] = @ \o s]

(***************************************************************************)
(* The start of render, given the callers, the rows so far and the cursor: *)
(* a dictionary entry's prefix and the text before the first placeholder.  *)
(***************************************************************************)
Render(code, callers, written, c) ==
    LET t == table[code]
        k == <<code, 0>>
    IN  /\ \E prefix \in IF t.suffix THEN NextLeaf(k) ELSE {<<>>} :
              rows' = [written EXCEPT ![Len(written)] =
                          @ \o prefix \o Part(Reread(t.text), 0)]
        /\ stack' = Append(callers, [code |-> code, next |-> 1])
        /\ read' = IF t.suffix THEN [c EXCEPT !.pos[k] = @ + 1] ELSE c

DecodingRow == pc = "decode" /\ stack = <<>> /\ Len(rows) < Len(rowIDs)

DecodeMatched ==
    /\ DecodingRow
    /\ rowIDs[Len(rows) + 1] # 0
    /\ Render(rowIDs[Len(rows) + 1], <<>>, Append(rows, <<>>), read)
    /\ UNCHANGED <<lines, folded, column, marks, pc>>

DecodeUnmatched ==
    /\ DecodingRow
    /\ rowIDs[Len(rows) + 1] = 0
    /\ read.unm < Len(unmatched)
    /\ rows' = Append(rows, unmatched[read.unm + 1])
    /\ read' = [read EXCEPT !.unm = @ + 1]
    /\ UNCHANGED <<lines, folded, column, stack, marks, pc>>

TopText == Reread(table[Top.code].text)

DecodingSlot == pc = "decode" /\ stack # <<>> /\ Top.next <= Len(Holes(TopText))

DecodeLeaf ==
    /\ DecodingSlot
    /\ 0 \in NextSub
    /\ \E v \in NextLeaf(<<Top.code, Top.next>>) :
          rows' = Emit(v \o Part(TopText, Top.next))
    /\ read' = [read EXCEPT !.sub = @ + 1, !.pos[<<Top.code, Top.next>>] = @ + 1]
    /\ stack' = Advanced
    /\ UNCHANGED <<lines, folded, column, marks, pc>>

DecodeNode ==
    /\ DecodingSlot
    /\ \E code \in NextSub \ {0} :
          Render(code, stack, rows, [read EXCEPT !.sub = @ + 1])
    /\ UNCHANGED <<lines, folded, column, marks, pc>>

\* render returns; its caller writes the part after the placeholder.
DecodeReturn ==
    /\ pc = "decode" /\ stack # <<>> /\ Top.next > Len(Holes(TopText))
    /\ LET callers == Front(stack)
           caller  == Last(callers)
       IN  IF callers = <<>>
           THEN stack' = <<>> /\ UNCHANGED rows
           ELSE /\ stack' = [callers EXCEPT ![Len(callers)].next = @ + 1]
                /\ rows' = Emit(Part(Reread(table[caller.code].text), caller.next))
    /\ UNCHANGED <<lines, folded, column, read, marks, pc>>

DecodeDone ==
    /\ pc = "decode" /\ stack = <<>> /\ Len(rows) = Len(rowIDs)
    /\ pc' = "done"
    /\ UNCHANGED <<lines, folded, column, stack, read, rows, marks>>

(***************************************************************************)
(* The errors: ReadColumn refuses a code outside the table, Rows a stream  *)
(* that has no next entry.                                                 *)
(***************************************************************************)
NoPrefix(code) == table[code].suffix /\ NextLeaf(<<code, 0>>) = {}

CodeRefused == /\ pc = "transfer"
               /\ ~(ToSet(rowIDs) \cup ToSet(subIDs) \subseteq 0..Len(table))

RowFails ==
    /\ DecodingRow
    /\ LET code == rowIDs[Len(rows) + 1]
       IN  IF code = 0 THEN read.unm >= Len(unmatched) ELSE NoPrefix(code)

SlotFails ==
    /\ DecodingSlot
    /\ \/ NextSub = {}
       \/ 0 \in NextSub /\ NextLeaf(<<Top.code, Top.next>>) = {}
       \/ \E code \in NextSub \ {0} : NoPrefix(code)

Fails == CodeRefused \/ RowFails \/ SlotFails

Next ==
    \/ ProfileBlock
    \/ EncodeMatched \/ EncodeUnmatched
    \/ EncodeNode \/ EncodeFolded \/ EncodeLeaf \/ EncodeReturn \/ EncodeDone
    \/ Transfer
    \/ DecodeMatched \/ DecodeUnmatched
    \/ DecodeLeaf \/ DecodeNode \/ DecodeReturn \/ DecodeDone

Spec == Init /\ [][Next]_vars
-----------------------------------------------------------------------------
BlockNodes == UNION {NodesIn(n) : n \in UNION {Resolved[l] : l \in ToSet(lines)}}

RenderFrame == [code : DOMAIN table, next : Nat \ {0}]
NodeFrame   == [code : DOMAIN table, node : BlockNodes, next : Nat \ {0}]

TypeOK ==
    /\ lines \in Blocks
    /\ rowIDs \in Seq(0..Len(table)) /\ subIDs \in Seq(0..Len(table))
    /\ unmatched \in Seq(ToSet(lines))
    /\ \A k \in DOMAIN buckets :
          /\ k[1] \in DOMAIN table
          /\ k[2] \in 0..Len(Holes(table[k[1]].text))
          /\ buckets[k] \in Seq(Seq(Char))
    /\ stack \in IF pc = "encode" THEN Seq(NodeFrame) ELSE Seq(RenderFrame)
    /\ read.sub \in 0..Len(subIDs) /\ read.unm \in 0..Len(unmatched)
    /\ \A k \in DOMAIN read.pos : read.pos[k] \in 0..Len(buckets[k])
    /\ rows \in Seq(Seq(Char))
    /\ pc \in {"profile", "encode", "transfer", "decode", "done"}

(***************************************************************************)
(* "Rows reconstructs every original line": whatever cascades, folds,      *)
(* repeats or matches nothing, reading a column back never runs out of a   *)
(* stream and gives the lines of the block, in order.                      *)
(***************************************************************************)
RowsReconstructed == ~Fails /\ (pc = "done" => rows = lines)

(***************************************************************************)
(* "Positions are derived at read time, never stored": before every row,   *)
(* and at the end, the decoder stands in each of the shared streams where  *)
(* the encoder stood, so no row reads another's leaves.                    *)
(***************************************************************************)
StreamsInStep ==
    pc \in {"decode", "done"} /\ stack = <<>> =>
        LET mark == marks[Len(rows) + 1] IN
        /\ read.sub = mark.sub /\ read.unm = mark.unm
        /\ \A k \in DOMAIN buckets :
              read.pos[k] = IF k \in DOMAIN mark.pos THEN mark.pos[k] ELSE 0

\* A sub-template was captured by the slot whose leaves are in bucket k.
SharesSlot(k) ==
    \E q \in Profile(lines) :
        /\ q[1] = table[k[1]].id /\ IsNode(q[3])
        /\ ~IsFolded(q[1], q[2]) /\ CompactSlot(q[1], q[2]) = k[2]

(***************************************************************************)
(* Folded slots are "erased from every stream", and all that can be are:   *)
(* a param stream that is still there varies, shares its slot with         *)
(* sub-templates, or holds the placeholder.                                *)
(***************************************************************************)
NothingLeftToFold ==
    pc = "done" =>
        \A k \in DOMAIN buckets :
            \/ k[2] = 0
            \/ Cardinality(ToSet(buckets[k])) > 1
            \/ HasMarker(buckets[k][1])
            \/ SharesSlot(k)

(***************************************************************************)
(* Count is the "rows + param slots that used this entry" (column.go:48),  *)
(* at every point of the encoding.                                         *)
(***************************************************************************)
CountsUses ==
    \A k \in DOMAIN table :
        table[k].count = Cardinality({i \in DOMAIN rowIDs : rowIDs[i] = k})
                         + Cardinality({i \in DOMAIN subIDs : subIDs[i] = k})

(***************************************************************************)
(* The depth cap is "a safety rail" (cascade.go:5): neither encoder nor    *)
(* decoder recurses deeper, however long the chain of wrapped errors.      *)
(***************************************************************************)
NestingBounded == Len(stack) <= MaxCascadeDepth + 1
=============================================================================
