---------------------------- MODULE MCMatchScan ----------------------------
(***************************************************************************)
(* Values for MatchScan: seven texts whose literal lengths tie across the  *)
(* exact map, the index and the rest, and every manifest of up to three of *)
(* them, repetitions included.                                             *)
(***************************************************************************)
EXTENDS MatchScan

MCChar == {"a", "b", "_"}
MCAlNum == {"a", "b"}
MCTexts == { <<"a","b","*">>,         \* rest, 2 literal characters
             <<"*","a","b">>,         \* rest, 2
             <<"a","b","_","*">>,     \* indexed under ab, 3
             <<"a","b","*","a">>,     \* rest, 3: ties with the indexed one
             <<"*","_","*","a","b">>, \* rest, 3
             <<"_","a","b","_","*">>, \* indexed under ab, leading blank, 4
             <<"a","b","_","a">> }    \* exact, 4
MCLines == { <<"a","b","_">>, <<"a","b","_","a">>, <<"a","b","a">>,
             <<"a","b","_","a","b">>, <<"_","a","b","_","a">>,
             <<"b","_","a","b">>, <<"_">>, <<"a","_","b","a">>,
             <<"_","a","b","_","a","b">> }
MCEntry == [level : {"info"}, text : MCTexts, lib : {"log"}]
MCManifests == BoundedSeq(MCEntry, 3)
MCLevel == {"info"}
MCLib == {"mined", "log"}
=============================================================================
