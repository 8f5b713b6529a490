------------------------------ MODULE MCMiner ------------------------------
(***************************************************************************)
(* Values for Miner: three lines of one constant first word that agree on  *)
(* nothing else, one more close to the first, lines with variable first    *)
(* words of two lengths, a line that holds a literal "<*>", a blank line.  *)
(***************************************************************************)
EXTENDS Miner

MCWord == {"a", "b", "c", "d", "1", "2", "3"}
MCVariable == {"1", "2", "3"}
MCAlNumOf == [w \in MCWord |-> 1]
MCLines == { <<>>,
             <<"a","b","c">>, <<"a","c","b">>, <<"a","d","d">>, <<"a","b","d">>,
             <<"1">>, <<"2">>, <<"3">>,
             <<"1","b">>, <<"2","c">>, <<"*","c">> }
=============================================================================
