--------------------------- MODULE FuzzRefinement ---------------------------
(***************************************************************************)
(* Left alone by the user, the loop of FuzzLoop implements CallLog.  A     *)
(* call takes effect when minerva_call's verdict is in (CheckOk,           *)
(* CheckFails) or the target crashes; until then its result is not yet in  *)
(* the pool and the arguments it has destroyed still are.                  *)
(***************************************************************************)
EXTENDS FuzzLoop

InFlight == pc \in {"record", "run", "destroy", "unlink"}

\* The result of a call that has not taken effect, or has failed.
Pending(t) ==
    IF t = RetType[func] /\ (InFlight \/ pc \in {"dropcount", "dropunlink"})
    THEN {newId} ELSE {}

\* The arguments such a call has destroyed so far.
Gone(t) ==
    IF pc \in {"destroy", "unlink"}
    THEN {argv[i] : i \in {j \in DestroySlots(func) \ doomed : TypeOf(func, j) = t}}
    ELSE {}

LiveVars == [t \in Type |-> (tree[t] \ Pending(t)) \cup Gone(t)]

SettledLog ==
    [k \in {j \in DOMAIN calls : Settled(j)} |->
        [func |-> calls[k].func, result |-> calls[k].result,
         args |-> calls[k].args, outcome |-> fate[k]]]

Log == INSTANCE CallLog WITH live <- LiveVars, log <- SettledLog

\* The detailed loop, its counters, its step-by-step updates of the pool and
\* the order of its stores behave as the atomic calls of CallLog: results are
\* numbered by position, arguments are alive when the call takes effect, and
\* the pool is the one the trace explains.  (Checked with no ^C.)
ImplementsCallLog == Log!Spec
=============================================================================
