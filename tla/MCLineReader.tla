---------------------------- MODULE MCLineReader ----------------------------
(***************************************************************************)
(* Values for LineReader: every input of up to seven bytes, with a buffer  *)
(* of two and lines cut at three, so that a line ends within, at and past  *)
(* a buffer and its bound, and what is cut off is longer than a buffer.    *)
(* One known line has the length of the bound, one is shorter, and one is  *)
(* what is seen of longer ones.                                            *)
(***************************************************************************)
EXTENDS LineReader

MCByte == {"x", "r", "n"}
MCKnown == {<<"x">>, <<"x","x","x">>, <<"x","r","x">>}
=============================================================================
