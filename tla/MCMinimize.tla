----------------------------- MODULE MCMinimize -----------------------------
(* A target whose crash may or may not depend on the calls min removes. *)
EXTENDS Minimize

Arg(t, flags) == [type |-> t, flags |-> flags]

MCType == {"handle", "num"}
MCFunc == {"new", "use", "end"}
MCRetType == [f \in MCFunc |-> IF f = "new" THEN "handle" ELSE "num"]
MCArgs ==
    [f \in MCFunc |->
        CASE f = "new" -> <<>>
          [] f = "use" -> <<Arg("handle", {})>>
          [] f = "end" -> <<Arg("handle", {"DESTROY"})>>]
MCOutcomes ==
    [f \in MCFunc |->
        CASE f = "new" -> {"ok", "fail"}
          [] f = "use" -> {"ok", "crash"}
          [] f = "end" -> {"ok"}]
MCIters == {1, 3}
MCRounds == {1, NoLimit}
=============================================================================
