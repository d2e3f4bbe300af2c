------------------------------- MODULE MCFuzz -------------------------------
(* A small target: handles are made, used and destroyed. *)
EXTENDS FuzzRefinement

Arg(t, flags) == [type |-> t, flags |-> flags]

MCType == {"handle", "num"}
MCFunc == {"new", "use", "join", "pair", "mut"}
MCRetType == [f \in MCFunc |-> IF f \in {"new", "join"} THEN "handle" ELSE "num"]
MCArgs ==
    [f \in MCFunc |->
        CASE f = "new"  -> <<>>
          [] f = "use"  -> <<Arg("handle", {})>>
          [] f = "join" -> <<Arg("handle", {}), Arg("handle", {"UNIQUE", "DESTROY"})>>
          [] f = "pair" -> <<Arg("handle", {"UNIQUE", "DESTROY"}),
                             Arg("handle", {"UNIQUE", "DESTROY"})>>
          [] f = "mut"  -> <<Arg("handle", {"MUTATE"})>>]
MCOutcomes ==
    [f \in MCFunc |->
        CASE f = "new"  -> {"ok", "fail"}
          [] f = "use"  -> {"ok", "crash"}
          [] f = "join" -> {"ok", "fail"}
          [] f = "pair" -> {"ok"}
          [] f = "mut"  -> {"ok"}]
MCIters == {1, 3, Forever}
MCFinite == {1, 2}
=============================================================================
