------------------------------- MODULE MCPool -------------------------------
(* A trace that asks for two identifiers in any order and again, while the    *)
(* pool counts up to 5: trees of six variables, the least that show every     *)
(* case of RB_REMOVE_COLOR.                                                   *)
EXTENDS VarPool

MCIds == 0 .. 5
MCTraceIds == {1, 3}
=============================================================================
