------------------------------ MODULE MCSession ------------------------------
(* MCPlay's target, where one name begins with another one. *)
EXTENDS MCPlay, Session

MCShorter == [f \in MCFunc |-> IF f = "new_from" THEN {"new"} ELSE {}]
=============================================================================
