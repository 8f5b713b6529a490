----------------------------- MODULE References -----------------------------
(***************************************************************************)
(* What a catalog promises whoever keeps a template ID (catalog.go:        *)
(* "append-only", "old references keep resolving"): a table that only      *)
(* grows and in which every ID that was ever accepted resolves, in one     *)
(* hop, to an entry that is still its own.  Such an ID moves at most once  *)
(* in its life, from a provisional entry, a mined one, to a final one that *)
(* takes over, and then moves together with all that resolved there.       *)
(***************************************************************************)
EXTENDS Sequences

CONSTANTS Ref   \* the IDs

VARIABLES entries,   \* [id, final], oldest first
          resolves   \* the IDs accepted, each with the entry it stands for

vars == <<entries, resolves>>

Entries == [id : Ref, final : BOOLEAN]

IdsOf(seq) == {seq[i].id : i \in DOMAIN seq}

OwnID(seq) == [id \in IdsOf(seq) |-> id]

Init ==
    /\ entries \in Seq(Entries)
    /\ \A i, j \in DOMAIN entries : entries[i].id = entries[j].id => i = j
    /\ resolves = OwnID(entries)

Fresh(id) == id \notin DOMAIN resolves

\* The entries that are still their own.
Standing(i) == i \in DOMAIN entries /\ resolves[entries[i].id] = entries[i].id

\* A new entry.
Enter(e) ==
    /\ Fresh(e.id)
    /\ entries' = Append(entries, e)
    /\ resolves' = [k \in DOMAIN resolves \cup {e.id} |->
                      IF k = e.id THEN e.id ELSE resolves[k]]

\* The ID stands for an entry there is.
Join(id, i) ==
    /\ Fresh(id)
    /\ Standing(i)
    /\ resolves' = [k \in DOMAIN resolves \cup {id} |->
                      IF k = id THEN entries[i].id ELSE resolves[k]]
    /\ UNCHANGED entries

\* A new final entry takes the place of a provisional one.
TakeOver(e, i) ==
    /\ Fresh(e.id) /\ e.final
    /\ Standing(i) /\ ~entries[i].final
    /\ entries' = Append(entries, e)
    /\ resolves' = [k \in DOMAIN resolves \cup {e.id} |->
                      IF k = e.id \/ resolves[k] = entries[i].id
                      THEN e.id ELSE resolves[k]]

Next ==
    \/ \E e \in Entries : Enter(e)
    \/ \E id \in Ref : \E i \in DOMAIN entries : Join(id, i)
    \/ \E e \in Entries : \E i \in DOMAIN entries : TakeOver(e, i)

Spec == Init /\ [][Next]_vars
-----------------------------------------------------------------------------
(***************************************************************************)
(* What the specification amounts to for a reader of IDs: entries are only *)
(* appended, an accepted ID is never forgotten, one that resolves to a     *)
(* final entry does so for good, and two IDs that resolve to one entry are *)
(* never told apart again.                                                 *)
(***************************************************************************)
Settled(id) == \E i \in DOMAIN entries : entries[i].id = resolves[id] /\ entries[i].final

Stable ==
    [][/\ \A i \in DOMAIN entries : i \in DOMAIN entries' /\ entries'[i] = entries[i]
       /\ DOMAIN resolves \subseteq DOMAIN resolves'
       /\ \A id \in DOMAIN resolves : Settled(id) => resolves'[id] = resolves[id]
       /\ \A a, b \in DOMAIN resolves :
             resolves[a] = resolves[b] => resolves'[a] = resolves'[b]]_vars
=============================================================================
