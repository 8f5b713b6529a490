------------------------------ MODULE MCColumn ------------------------------
(***************************************************************************)
(* Values for Column: four line templates, three dictionary entries, and   *)
(* blocks of up to three of eleven lines that cascade to the depth cap and *)
(* past it, repeat, vary, and match nothing.                               *)
(***************************************************************************)
EXTENDS Column

MCChar == {"a", "b", "e", "q", "z", "_", ":", "<", "*", ">"}
MCAlNum == {"a", "b", "e", "q", "z"}
Query  == [level |-> "error", text |-> <<"q","q",":","_","P">>]
Sprint == [level |-> "error", text |-> <<"a","b","P">>]
Pair   == [level |-> "info",  text |-> <<"b","b","P","b","P">>]
Ready  == [level |-> "info",  text |-> <<"a","a">>]
MCPrimary == <<Query, Sprint, Pair, Ready>>
Framed == [level |-> "", text |-> <<"e","e",":","_","P">>]
Dead   == [level |-> "", text |-> <<"e","e",":","_","a","b">>]
Gone   == [level |-> "", text |-> <<"z","z">>]
MCDict == <<Framed, Dead, Gone>>
MCLines == { <<"q","q",":","_","e","e",":","_","a","b">>,
             <<"q","q",":","_","a",":","_","e","e",":","_","e","e",":","_","z","z">>,
             <<"q","q",":","_","a">>,
             <<"q","q",":","_","<","*",">">>,
             <<"a","b","_","_","z","z">>,
             <<"a","b">>,
             <<"b","b","a","b","a">>,
             <<"b","b","a","b","z","z">>,
             <<"a","a">>,
             <<"a",":","_","z","z">>,
             <<"q","_","z">> }
MCBlocks == BoundedSeq(MCLines, 3)

\* A slot between brackets that always holds a star.
Bracketed == [level |-> "info", text |-> <<"a","b","<","P",">">>]
FoldPrimary == <<Bracketed>>
NoDict == << >>
FoldBlocks == BoundedSeq({<<"a","b","<","*",">">>, <<"a","b","<","a",">">>, <<"z","z">>}, 3)

\* A mined line template and a harvested error with one text, and so one ID.
Lost == [level |-> "", text |-> <<"z","z","P">>]
SharedPrimary == <<Query, Lost>>
SharedDict == <<Lost>>
SharedBlocks == BoundedSeq({<<"z","z","a">>, <<"q","q",":","_","b",":","_","z","z","b">>}, 3)
=============================================================================
