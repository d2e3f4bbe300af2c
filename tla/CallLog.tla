------------------------------- MODULE CallLog -------------------------------
(***************************************************************************)
(* What a fuzzing context promises, without its counters, its steps and    *)
(* its signals: a log of calls, each made at once on variables that exist, *)
(* and a pool that is always the one the log explains.  The identifier of  *)
(* a call's result is the call's position in the log.                      *)
(***************************************************************************)
EXTENDS FuncTable

VARIABLES
    live,   \* live[t]: the variables of type t a call may use
    log     \* the calls made, with their arguments, results and outcomes

Init ==
    /\ live = [t \in Type |-> {}]
    /\ log = <<>>

\* A slot may not reuse the variable of an earlier UNIQUE slot, a UNIQUE slot
\* not that of an earlier UNIQUE one.
Legal(f, args) ==
    /\ DOMAIN args = Slots(f)
    /\ \A i \in Slots(f) : args[i] \in live[TypeOf(f, i)]
    /\ \A i \in Slots(f) : \A j \in Reserved(f, i) : args[i] # args[j]

Destroyed(f, args, t) == {args[i] : i \in {j \in DestroySlots(f) : TypeOf(f, j) = t}}

\* After a crash nothing is destroyed, and the result stays in the pool
\* although the target never filled it in.
Effect(f, args, outcome, t) ==
    (live[t] \ (IF outcome = "crash" THEN {} ELSE Destroyed(f, args, t)))
        \cup (IF t = RetType[f] /\ outcome # "fail" THEN {Len(log)} ELSE {})

Call(f, args, outcome) ==
    /\ outcome \in Outcomes[f]
    /\ Legal(f, args)
    /\ live' = [t \in Type |-> Effect(f, args, outcome, t)]
    /\ log' = Append(log, [func |-> f, result |-> Len(log), args |-> args,
                           outcome |-> outcome])

ArgTuples(f) == [Slots(f) -> UNION {live[t] : t \in Type}]

Next ==
    \E f \in Func : \E args \in ArgTuples(f) : \E outcome \in Outcomes[f] :
        Call(f, args, outcome)

Spec == Init /\ [][Next]_<<live, log>>
=============================================================================
