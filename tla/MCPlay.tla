------------------------------- MODULE MCPlay -------------------------------
(* A smaller target than MCFuzz's: the play doubles the length of a run. *)
EXTENDS TracePlay

Arg(t, flags) == [type |-> t, flags |-> flags]

MCType == {"handle", "num"}
MCFunc == {"new", "use", "new_from", "mut"}
MCRetType == [f \in MCFunc |-> IF f \in {"use", "mut"} THEN "num" ELSE "handle"]
MCArgs ==
    [f \in MCFunc |->
        CASE f = "new" -> <<>>
          [] f = "use" -> <<Arg("handle", {})>>
          [] f = "new_from" -> <<Arg("handle", {"UNIQUE", "DESTROY"}), Arg("handle", {})>>
          [] f = "mut" -> <<Arg("handle", {"MUTATE"})>>]
MCOutcomes ==
    [f \in MCFunc |->
        CASE f = "new"  -> {"ok", "fail"}
          [] f = "use"  -> {"ok", "crash"}
          [] f \in {"new_from", "mut"} -> {"ok"}]
MCIters == {1, 3}
=============================================================================
