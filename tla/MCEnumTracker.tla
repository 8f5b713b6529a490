--------------------------- MODULE MCEnumTracker ---------------------------
(***************************************************************************)
(* Values for EnumTracker: lines of one template with four captures in its *)
(* only slot, the empty one among them, and trees in which a dictionary    *)
(* template nests in itself and shares values with the slot it stands in.  *)
(***************************************************************************)
EXTENDS EnumTracker

MCNode == {"query x", "query y", "query z", "query empty",
           "query wrapped", "query grpc", "desc", "grpc"}
MCRoot == MCNode \ {"desc", "grpc"}
MCValue == {"x", "y", "z", ""}
MCTemplateOf == [n \in MCNode |-> IF n \in {"grpc", "desc"} THEN "grpc" ELSE "query"]
MCParams ==
    [n \in MCNode |->
       CASE n = "query x"       -> <<"x">>
         [] n = "query y"       -> <<"y">>
         [] n = "query z"       -> <<"z">>
         [] n = "query empty"   -> <<"">>
         [] n = "query wrapped" -> <<"grpc">>
         [] n = "query grpc"    -> <<"desc">>
         [] n = "grpc"          -> <<"x", "desc">>
         [] n = "desc"          -> <<"y", "x">>]
=============================================================================
