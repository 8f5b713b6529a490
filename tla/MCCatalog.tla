----------------------------- MODULE MCCatalog -----------------------------
(***************************************************************************)
(* Values for Catalog: two families of texts, within which they cover one  *)
(* another in chains and are kept in different structures of the matcher,  *)
(* one text that says nothing and one that does not compile; mined and     *)
(* scanned candidates, the scanned ones with a level of their own or (an   *)
(* error dictionary's) with the empty level of the mined ones, so that two *)
(* sources share an ID; and in the catalog a text with a literal that the  *)
(* sentinel, shortened to NUL a NUL, contains, which takes the probe of a  *)
(* text it does not cover.                                                 *)
(***************************************************************************)
EXTENDS Catalog

MCChar == {"a", "b", "_", "NUL"}
MCAlNum == {"a", "b"}
Wide    == <<"*","a","b","*">>      \* covers Twin, Narrow, Exactly
Twin    == <<"*","*","a","b","*">>  \* Wide spelled so that it is too large
Narrow  == <<"a","b","_","*">>
Exactly == <<"a","b","_","b">>
Other   == <<"b","a","*">>          \* of the other family
OtherExactly == <<"b","a","_","a">>
Inner   == <<"b","a","*","a","*">>  \* takes Other's probe, and does not cover it
Empty   == <<"a","*">>              \* one letter: says nothing
MCSentinel == <<"NUL", "a", "NUL">>
MCTexts == {Wide, Twin, Narrow, Exactly, Other, OtherExactly, Inner, Empty}
MCLines == MCTexts \cup {Probe(t) : t \in MCTexts}
MCOversized == {Twin}
MCLevel == {"", "info"}
MCLib == {"mined", "log"}
MCCandidates ==
    {[level |-> "", text |-> t, lib |-> "mined"] : t \in MCTexts}
    \cup [level : MCLevel, text : MCTexts \ {Empty, Twin}, lib : {"log"}]
Scan(l, t) == [level |-> l, text |-> t, lib |-> "log"]
MCSeeds == { <<>>,
             <<Scan("info", Narrow), Scan("", Narrow)>>,
             <<Scan("info", Empty)>>,
             <<Scan("info", Inner)>>,
             <<Scan("info", Exactly), Scan("info", Wide)>> }
=============================================================================
