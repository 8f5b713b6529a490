----------------------------- MODULE MCPipeline -----------------------------
(***************************************************************************)
(* Values for Pipeline: lines of two words that agree in the first or the  *)
(* second, one of one word and one with two blanks; a cap on the clusters  *)
(* so low that one shape is split over two buckets, which then end with    *)
(* one text; catalogs with a scanned entry wider or narrower than what is  *)
(* mined, or with a literal that the sentinel, shortened to NUL c NUL,     *)
(* contains, which takes the probe of a mined template for its own.        *)
(***************************************************************************)
EXTENDS Pipeline

MCWord == {"ab", "c", "d", "1", "2"}
MCVariable == {"1", "2"}
MCChar == {"a", "b", "c", "d", "1", "2", "_", "NUL"}
MCAlNum == MCChar \ {"_", "NUL"}
MCSentinel == <<"NUL", "c", "NUL">>
MCSpelling == [w \in MCWord \cup {"_", "*"} |-> IF w = "ab" THEN <<"a", "b">> ELSE <<w>>]
MCAlNumOf == [w \in MCWord |-> Len(MCSpelling[w])]
MCRaw == { <<"ab","_","c">>, <<"ab","_","d">>, <<"ab","_","_","c">>,
           <<"1","_","ab">>, <<"2","_","ab">>, <<"ab">> }
Inner == <<"a","b","*","c","*">>
Shape(x, y) == SpelledTokens(<<x, y>>)
MCTexts == {Shape(x, y) : x \in {"ab", "1", "2", "*"}, y \in {"ab", "c", "d", "*"}}
           \cup {SpelledTokens(<<w>>) : w \in {"ab", "*"}}
           \cup {Inner}
MCLines == MCTexts \cup {Probe(t) : t \in MCTexts} \cup {Spelled(r) : r \in MCRaw}
Scanned(t) == [level |-> "info", text |-> t, lib |-> "log"]
MCSeeds == { <<>>, <<Scanned(Shape("ab", "c"))>>, <<Scanned(Shape("ab", "*"))>>,
             <<Scanned(Inner)>> }
=============================================================================
