--------------------------- MODULE MCCatalogFile ---------------------------
(***************************************************************************)
(* Values for CatalogFile: candidates of which one is superseded by        *)
(* another, one says nothing and one does not compile, so that runs admit, *)
(* alias, skip, fail and save catalogs the next run refuses.               *)
(***************************************************************************)
EXTENDS CatalogFile

MCChar == {"a", "b", "_", "NUL"}
MCAlNum == {"a", "b"}
Wide   == <<"*","a","b","*">>
Narrow == <<"a","b","_","*">>
Other  == <<"b","a","*">>
Bare   == <<"a","*">>
MCTexts == {Wide, Narrow, Other, Bare}
MCSentinel == <<"NUL", "a", "NUL">>
MCLines == MCTexts \cup {Probe(t) : t \in MCTexts}
MCOversized == {Other}
MCLevel == {"", "info"}
MCLib == {"mined", "log"}
MCCandidates == { [level |-> "", text |-> Wide, lib |-> "mined"],
                  [level |-> "info", text |-> Narrow, lib |-> "log"],
                  [level |-> "", text |-> Narrow, lib |-> "mined"],
                  [level |-> "", text |-> Other, lib |-> "mined"],
                  [level |-> "", text |-> Bare, lib |-> "mined"] }
=============================================================================
