------------------------------- MODULE Miner -------------------------------
(***************************************************************************)
(* The miner (mine.go): lines no template matched are clustered, drain     *)
(* style, into candidate templates.  A line is the sequence of its white-  *)
(* space separated words; the word "<*>" is the placeholder itself, in a   *)
(* line too.  Each cluster also records, as history, the lines it took.    *)
(***************************************************************************)
EXTENDS Integers, Sequences, FiniteSets, FiniteSetsExt

CONSTANTS Word,           \* words of log lines
          Placeholder,    \* the word "<*>"
          Variable,       \* the words looksVariable takes for an id, an IP...
          AlNumOf,        \* letters and digits in a word
          Lines,          \* lines in play, as words; the blank line is <<>>
          MaxPerBucket,   \* maxClustersPerBucket, 64 in the code
          MaxTotal,       \* maxTotalClusters, 4096 in the code
          MinSeen,        \* the -min flag of srclog mine
          MaxLines        \* bound on the lines fed

ASSUME MinerAssumption ==
    /\ Placeholder \notin Word
    /\ Variable \subseteq Word
    /\ AlNumOf \in [Word -> Nat]
    /\ Lines \subseteq Seq(Word \cup {Placeholder}) /\ IsFiniteSet(Lines)
    /\ MaxPerBucket \in Nat \ {0} /\ MaxTotal \in Nat
    /\ MinSeen \in Nat /\ MaxLines \in Nat

VARIABLES clusters,   \* bucket key -> clusters, in the order they were made
          count,      \* mn.count, the lines added
          total,      \* mn.total, the clusters of all buckets
          dropped,    \* history: keys of the lines nothing was kept of
          fed         \* history: how often each line was added

vars == <<clusters, count, total, dropped, fed>>

Token == Word \cup {Placeholder}

\* strconv.Itoa(len(tokens)) + NUL + first
Key == {Len(l) : l \in Lines} \X Token

Cluster == [tokens : Seq(Token), seen : Nat, lines : SUBSET Lines]

(***************************************************************************)
(* A leading variable would shatter clusters, and past the total cap every *)
(* line goes to the placeholder's bucket for its length.  looksVariable    *)
(* holds of "<*>" itself.                                                  *)
(***************************************************************************)
LooksVariable(word) == word \in Variable \cup {Placeholder}

KeyOf(line) ==
    <<Len(line), IF LooksVariable(line[1]) \/ total >= MaxTotal
                 THEN Placeholder ELSE line[1]>>

\* similarity, as the number of agreeing positions instead of their share.
Agreement(tokens, line) ==
    Cardinality({i \in DOMAIN line : tokens[i] \in {line[i], Placeholder}})

\* The first of the most similar clusters, if any is similar at all.
Best(bucket, line) ==
    {b \in DOMAIN bucket :
        /\ Agreement(bucket[b].tokens, line) > 0
        /\ \A o \in DOMAIN bucket :
              LET ours   == Agreement(bucket[b].tokens, line)
                  theirs == Agreement(bucket[o].tokens, line)
              IN  theirs < ours \/ (theirs = ours /\ b <= o)}

\* simThreshold is one half.
Similar(cluster, line) == 2 * Agreement(cluster.tokens, line) >= Len(line)

\* Defect: a disagreeing position keeps the cluster's word.
KeepWord(tokens, line) == tokens

\* Defect: a disagreeing position takes the line's word.
TakeWord(tokens, line) == line

Generalise(tokens, line) ==
    [i \in DOMAIN tokens |-> IF tokens[i] = line[i] THEN line[i] ELSE Placeholder]

-----------------------------------------------------------------------------
Init ==
    /\ clusters = [k \in Key |-> <<>>]
    /\ count = 0 /\ total = 0
    /\ dropped = <<>>
    /\ fed = [l \in Lines |-> 0]

Feed(line) ==
    /\ line # <<>>
    /\ count < MaxLines /\ count' = count + 1
    /\ fed' = [fed EXCEPT ![line] = @ + 1]

Joins(line) ==
    \E b \in Best(clusters[KeyOf(line)], line) :
        Similar(clusters[KeyOf(line)][b], line)

\* Defect: the cap is checked one cluster late.
HasRoomAtCap(line) == Len(clusters[KeyOf(line)]) <= MaxPerBucket

HasRoom(line) == Len(clusters[KeyOf(line)]) < MaxPerBucket

\* strings.Fields of a blank line is empty: nothing is counted.
AddBlank(line) == line = <<>> /\ UNCHANGED vars

\* Defect: the new cluster is not counted.
AddClusterUncounted(line) ==
    /\ Feed(line)
    /\ ~Joins(line) /\ HasRoom(line)
    /\ clusters' = [clusters EXCEPT ![KeyOf(line)] =
                      Append(@, [tokens |-> line, seen |-> 1, lines |-> {line}])]
    /\ UNCHANGED <<total, dropped>>

\* Nothing similar enough and room left: a cluster of its own.
AddCluster(line) ==
    /\ Feed(line)
    /\ ~Joins(line) /\ HasRoom(line)
    /\ clusters' = [clusters EXCEPT ![KeyOf(line)] =
                      Append(@, [tokens |-> line, seen |-> 1, lines |-> {line}])]
    /\ total' = total + 1
    /\ UNCHANGED dropped

\* Defect: a merge is taken for one cluster less.
MergeUncounts(line) ==
    /\ Feed(line)
    /\ Joins(line) \/ ~HasRoom(line)
    /\ Best(clusters[KeyOf(line)], line) # {}
    /\ total' = total - 1
    /\ UNCHANGED <<clusters, dropped>>

(***************************************************************************)
(* The line joins the closest cluster, also when the bucket is full and    *)
(* the closest is not that close; disagreeing positions become             *)
(* placeholders.                                                           *)
(***************************************************************************)
Merge(line) ==
    /\ Feed(line)
    /\ Joins(line) \/ ~HasRoom(line)
    /\ \E b \in Best(clusters[KeyOf(line)], line) :
          clusters' = [clusters EXCEPT ![KeyOf(line)][b] =
                         [tokens |-> Generalise(@.tokens, line),
                          seen   |-> @.seen + 1,
                          lines  |-> @.lines \cup {line}]]
    /\ UNCHANGED <<total, dropped>>

\* Defect: a full bucket drops what it has nothing similar enough for.
DropDissimilar(line) ==
    /\ Feed(line)
    /\ ~HasRoom(line) /\ ~Joins(line)
    /\ dropped' = Append(dropped, KeyOf(line))
    /\ UNCHANGED <<clusters, total>>

\* The bucket is full and nothing in it is even remotely similar.
Drop(line) ==
    /\ Feed(line)
    /\ ~HasRoom(line)
    /\ Best(clusters[KeyOf(line)], line) = {}
    /\ dropped' = Append(dropped, KeyOf(line))
    /\ UNCHANGED <<clusters, total>>

Next == \E line \in Lines :
           AddBlank(line) \/ AddCluster(line) \/ Merge(line) \/ Drop(line)

Spec == Init /\ [][Next]_vars

-----------------------------------------------------------------------------
(***************************************************************************)
(* Candidates: the clusters seen often enough, as templates, those without *)
(* at least two letters or digits left out.  Their order is left out.      *)
(***************************************************************************)
IsZeroLiteral(tokens) ==
    MapThenSumSet(LAMBDA i : AlNumOf[tokens[i]],
                  {i \in DOMAIN tokens : tokens[i] # Placeholder}) < 2

\* The clusters there are, by bucket and place in it.
Kept == UNION {{k} \X DOMAIN clusters[k] : k \in Key}

At(kb) == clusters[kb[1]][kb[2]]

\* Defect: one occurrence too few suffices.
ProposalsEarly ==
    {At(kb).tokens : kb \in {x \in Kept : /\ At(x).seen + 1 >= MinSeen
                                          /\ ~IsZeroLiteral(At(x).tokens)}}

Proposals ==
    {At(kb).tokens : kb \in {x \in Kept : /\ At(x).seen >= MinSeen
                                          /\ ~IsZeroLiteral(At(x).tokens)}}

-----------------------------------------------------------------------------
TypeOK ==
    /\ clusters \in [Key -> Seq(Cluster)]
    /\ count \in 0..MaxLines
    /\ total \in Nat
    /\ dropped \in Seq(Key)
    /\ fed \in [Lines -> Nat]

\* A template of words explains a line that agrees with it everywhere.
Explains(tokens, line) ==
    /\ Len(tokens) = Len(line)
    /\ \A i \in DOMAIN line : tokens[i] \in {line[i], Placeholder}

(***************************************************************************)
(* A cluster is the least generalisation of the lines it took, whatever    *)
(* their order: it explains them all, and a placeholder stands only where  *)
(* two of them differ (or a line had one).                                 *)
(***************************************************************************)
LeastGeneralisation ==
    \A kb \in Kept : LET c == At(kb) IN
        /\ \A l \in c.lines : Explains(c.tokens, l)
        /\ \A i \in DOMAIN c.tokens :
              c.tokens[i] = Placeholder =>
                 \E l, m \in c.lines : l[i] # m[i] \/ l[i] = Placeholder

(***************************************************************************)
(* No line disappears unaccounted for: every line counted was taken by     *)
(* exactly one cluster or dropped, and total is the number of clusters.    *)
(***************************************************************************)
EveryLineAccounted ==
    /\ count = SumFunction([kb \in Kept |-> At(kb).seen]) + Len(dropped)
    /\ total = Cardinality(Kept)

(***************************************************************************)
(* "Bounded memory": no bucket outgrows its cap, and the buckets named by  *)
(* a constant first word hold at most MaxTotal clusters between them.      *)
(***************************************************************************)
BucketsBounded ==
    /\ \A k \in Key : Len(clusters[k]) <= MaxPerBucket
    /\ Cardinality({kb \in Kept : kb[1][2] # Placeholder}) <= MaxTotal

(***************************************************************************)
(* The first word a bucket is named after survives every generalisation,   *)
(* so two lines of one such bucket always agree somewhere and none is ever *)
(* dropped from it.                                                        *)
(***************************************************************************)
LeadingWordKept ==
    /\ \A kb \in Kept : kb[1][2] # Placeholder => At(kb).tokens[1] = kb[1][2]
    /\ \A d \in DOMAIN dropped : dropped[d][2] = Placeholder

(***************************************************************************)
(* A candidate is worth proposing: it explains at least MinSeen of the     *)
(* lines that were added, repetitions counted.                             *)
(***************************************************************************)
CandidatesFrequent ==
    \A t \in Proposals :
        SumFunctionOnSet(fed, {l \in Lines : Explains(t, l)}) >= MinSeen

(***************************************************************************)
(* Clusters only generalise: none is ever removed, and what a cluster once *)
(* explained it explains for good, whatever joins it later.                *)
(***************************************************************************)
OnlyGeneralises ==
    [][\A kb \in Kept :
          /\ kb \in Kept'
          /\ \A l \in Lines : Explains(At(kb).tokens, l) => Explains(At(kb)'.tokens, l)
      ]_vars

(***************************************************************************)
(* What mine.go:37-39 and mine_test.go:66 say of maxTotalClusters: past    *)
(* the cap lines land in existing buckets, so the clusters are at most the *)
(* cap and one full bucket.                                                *)
(***************************************************************************)
TotalCapped == total <= MaxTotal + MaxPerBucket
=============================================================================
