------------------------------ MODULE Pipeline ------------------------------
(***************************************************************************)
(* The feedback loop of the commands: srclog mine clusters the lines of a  *)
(* log that a manifest does not explain, srclog promote gates the          *)
(* candidates into the catalog, and the next log is mined, against the     *)
(* catalog or not.  Miner and Catalog are composed: to the miner a line is *)
(* its words, to a template it is text.                                    *)
(*                                                                         *)
(* A log holds valid UTF-8 and is promoted by one process at a time        *)
(* (CatalogFile has the processes), so every mined pattern compiles and    *)
(* what promote reads is what mine wrote.  Candidates are usable because   *)
(* the miner drops the others, and none is a scanned one: of the gate's    *)
(* decisions three are left.                                               *)
(***************************************************************************)
EXTENDS Catalog

CONSTANTS Word, Variable, AlNumOf,     \* Miner's
          MaxPerBucket, MaxTotal, MinSeen, MaxLines,
          Spelling,     \* a word's characters
          Raw,          \* log lines, as words and the blanks between them
          MaxRounds     \* bound on the logs mined

VARIABLES clusters, mined, total, dropped, fed,   \* Miner's
          against,      \* is the log mined against the catalog (-t)?
          batch,        \* clusters whose candidates are still to be gated
          promised,     \* history: lines of the candidates of finished rounds
          round

minerVars == <<clusters, mined, total, dropped, fed>>
pipeVars == <<vars, minerVars, against, batch, promised, round>>

\* strings.Fields
Fields(raw) == SelectSeq(raw, LAMBDA w : w # Blank)

\* strings.Join(tokens, " ")
Joined(tokens) ==
    [i \in 1..2*Len(tokens)-1 |-> IF i % 2 = 1 THEN tokens[(i+1) \div 2] ELSE Blank]

Spelled(raw) == FlattenSeq([i \in DOMAIN raw |-> Spelling[raw[i]]])

SpelledTokens(tokens) == Spelled(Joined(tokens))

Words == {Fields(r) : r \in Raw}

M == INSTANCE Miner WITH Lines <- Words, count <- mined

\* Miner's assumption holds of the words, and the texts in play are all that
\* the miner may make of a line.
ASSUME PipelineAssumption ==
    /\ Placeholder \notin Word /\ Variable \subseteq Word
    /\ Words \subseteq Seq(Word \cup {Placeholder}) /\ IsFiniteSet(Words)
    /\ MaxPerBucket \in Nat \ {0} /\ {MaxTotal, MinSeen, MaxLines, MaxRounds} \subseteq Nat
    /\ Spelling \in [Word \cup {Blank, Placeholder} -> Text]
    /\ Spelling[Blank] = <<Blank>> /\ Spelling[Placeholder] = <<Placeholder>>
    /\ AlNumOf \in [Word -> Nat]
    /\ \A w \in Word : AlNumOf[w] = Len(SelectSeq(Spelling[w], LAMBDA c : c \in AlNum))
    /\ {Spelled(r) : r \in Raw} \subseteq Lines
    /\ \A w \in Words : \A S \in SUBSET DOMAIN w :
          SpelledTokens([i \in DOMAIN w |-> IF i \in S THEN Placeholder ELSE w[i]]) \in Texts
    /\ "" \in Level

-----------------------------------------------------------------------------
PipeInit ==
    /\ Init
    /\ M!Init
    /\ against \in BOOLEAN
    /\ batch = {} /\ promised = {} /\ round = 1

\* Does the catalog explain the line?
Explained(line) == Best(templates, Live(templates, aliases), line) # {}

Mining == pc = "idle" /\ UNCHANGED <<vars, against, batch, promised, round>>

SkipExplained(raw) ==
    /\ Mining
    /\ against /\ Explained(Spelled(raw))
    /\ UNCHANGED minerVars

MineLine(raw) ==
    /\ Mining
    /\ against => ~Explained(Spelled(raw))
    /\ \E line \in {Fields(raw)} : M!AddCluster(line) \/ M!Merge(line) \/ M!Drop(line)

\* The clusters that become candidates.
Proposed ==
    {kb \in M!Kept : /\ M!At(kb).seen >= MinSeen
                     /\ ~M!IsZeroLiteral(M!At(kb).tokens)}

\* The log has been read; promote starts on the candidates.
Propose ==
    /\ Begin
    /\ batch' = Proposed
    /\ UNCHANGED <<minerVars, against, promised, round>>

Candidate(kb) ==
    [level |-> "", text |-> SpelledTokens(M!At(kb).tokens), lib |-> Mined]

\* The gate takes the candidates most seen first.
Decided(kb) ==
    /\ kb \in batch
    /\ \A other \in batch : M!At(other).seen <= M!At(kb).seen
    /\ \/ SkipKnown(Candidate(kb))
       \/ Admit(Candidate(kb))
       \/ Alias(Candidate(kb))
    /\ batch' = batch \ {kb}
    /\ UNCHANGED <<minerVars, against, promised, round>>

\* The catalog is saved, and another log is mined from nothing.
NextRound ==
    /\ batch = {} /\ round < MaxRounds
    /\ Return
    /\ promised' = promised \cup UNION {M!At(kb).lines : kb \in Proposed}
    /\ round' = round + 1
    /\ against' \in BOOLEAN
    /\ clusters' = [k \in M!Key |-> <<>>]
    /\ mined' = 0 /\ total' = 0
    /\ dropped' = <<>>
    /\ fed' = [l \in Words |-> 0]
    /\ UNCHANGED batch

PipeNext ==
    \/ \E r \in Raw : SkipExplained(r) \/ MineLine(r)
    \/ Propose
    \/ \E kb \in batch : Decided(kb)
    \/ NextRound

PipeSpec == PipeInit /\ [][PipeNext]_pipeVars
-----------------------------------------------------------------------------
(***************************************************************************)
(* The loop learns: once a round is over, the catalog explains every line  *)
(* of every candidate it was offered, whether that was admitted, aliased   *)
(* to a wider entry or skipped because another bucket or an earlier round  *)
(* had its text; so the same log mined against the catalog brings none of  *)
(* them back.  The one exception is a candidate aliased to an entry whose  *)
(* literals occur in the sentinel: that entry may have taken the probe for *)
(* the sentinel's sake.  Lines are meant here as the miner spells its      *)
(* templates, with single blanks: one with two is never explained by its   *)
(* own candidate.                                                          *)
(***************************************************************************)
Misled(line) ==
    \E id \in DOMAIN aliases : <<id[2], line>> \in Accepts /\ ~Opaque(aliases[id][2])

CandidateLinesExplained ==
    pc = "idle" => \A line \in promised :
        Explained(SpelledTokens(line)) \/ Misled(SpelledTokens(line))

(***************************************************************************)
(* And it does not unlearn: no mined candidate, whatever it is aliased to  *)
(* and whichever entry it takes over from in the matcher's order, makes    *)
(* the catalog lose a line it explains.                                    *)
(***************************************************************************)
NothingUnlearned ==
    [][\A r \in Raw : Explained(Spelled(r)) => Explained(Spelled(r))']_pipeVars
=============================================================================
