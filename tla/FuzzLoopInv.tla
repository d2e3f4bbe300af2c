---------------------------- MODULE FuzzLoopInv ----------------------------
(***************************************************************************)
(* The inductive invariants behind the safety properties of FuzzLoop, by   *)
(* parts.  FuzzLoop_proofs proves them; each part says what the code has   *)
(* made sure of at each place of minerva_random_call and minerva_call.     *)
(***************************************************************************)
EXTENDS FuzzLoop

\* minerva_var_new has counted, or stored, the result of the call at hand.
Counted == pc \in {"insert", "record", "run", "destroy", "unlink", "dropcount"}
Stored == pc \in {"record", "run", "destroy", "unlink", "dropcount", "dropunlink"}
\* minerva_trace_record has run for the call at hand.
Recorded == pc \in {"run", "destroy", "unlink", "dropcount", "dropunlink"}

LastCall == calls[Len(calls)]

\* The locals of the call at hand.
Frame ==
    /\ pc \in InCall => DOMAIN argv = Slots(func) /\ left # 0
    /\ pc \in InCall \ {"args"} => \A i \in Slots(func) : argv[i] \in Nat
    /\ Stored => newId \in Nat
    /\ Recorded => /\ Len(calls) > 0
                   /\ LastCall.func = func
                   /\ LastCall.args = argv
                   /\ LastCall.result = newId
    /\ pc \in {"dropcount", "dropunlink"} => fate[Len(fate)] = "fail"
    /\ \A k \in DOMAIN calls : DOMAIN calls[k].args = Slots(calls[k].func)

-----------------------------------------------------------------------------
(* Counters *)

\* DESTROY arguments whose counter is still to be stepped.
ToCount ==
    CASE pc \in {"args", "insert", "record", "run"} -> DestroySlots(func)
      [] pc = "destroy" -> doomed
      [] pc = "unlink" -> {i \in doomed : ~FirstDoomed(i)}
      [] OTHER -> {}

Earlier(i) == {j \in ToCount : j < i /\ TypeOf(func, j) = TypeOf(func, i)}

\* The result's own unit, which minerva_var_destroy may yet take back.
Own(t) == IF Counted /\ t = RetType[func] THEN 1 ELSE 0

\* What qualify found in the counters covers every step down the call may yet
\* make, in the order in which it makes them.
LenCovers ==
    /\ \A t \in Type : len[t] >= Own(t)
    /\ \A i \in ToCount :
          len[TypeOf(func, i)] > Cardinality(Earlier(i)) + Own(TypeOf(func, i))

-----------------------------------------------------------------------------
(* Identifiers *)

\* Every identifier in use was issued, and the one at hand is the newest.
Issued ==
    /\ \A k \in DOMAIN calls :
          /\ calls[k].result < curId
          /\ \A i \in Slots(calls[k].func) : calls[k].args[i] < curId
    /\ Stored => newId < curId
    /\ pc = "record" => \A k \in DOMAIN calls : calls[k].result < newId

\* Destroyed arguments of the call at hand are out of the pool.
DestroyedSoFar ==
    pc \in {"destroy", "unlink"} =>
        \A i \in DestroySlots(func) \ doomed : argv[i] \notin tree[TypeOf(func, i)]

\* The UNIQUE arguments chosen so far do not share a variable.
ChosenApart ==
    pc \in InCall =>
        \A i, j \in Slots(func) :
            /\ i # j /\ TypeOf(func, i) = TypeOf(func, j)
            /\ Unique(func, i) /\ Unique(func, j)
            /\ argv[i] # Unset /\ argv[j] # Unset
            => argv[i] # argv[j]

\* Slots are filled in the order of Before.
FilledInOrder ==
    pc = "args" =>
        \A i, j \in Slots(func) :
            (Before(func, i, j) /\ argv[j] # Unset) => argv[i] # Unset

\* The parts that hold together: the arguments of the call at hand, the
\* identifiers in use, what has been destroyed.
Alive == FilledInOrder /\ ChosenApart /\ ArgsAlive
Ids == Issued /\ IdsIssuedOnce
Destruction == DestroyedSoFar /\ DestroyedNeverReused

-----------------------------------------------------------------------------
(* Counters and trees *)

\* The result of the call at hand is in the pool until the check rejects it, and
\* it is none of the arguments.
ResultLives ==
    Stored => newId \in tree[RetType[func]] /\ \A i \in Slots(func) : argv[i] # newId

\* The trees are finite and the counters are off by the ^C so far at most.
Drifts == \A t \in Type : IsFiniteSet(tree[t]) /\ Drift(t) <= sigints

\* What minerva_func_qualify has found still holds when arguments are chosen.
Qualified == pc = "args" => Qualify(func, len, mutate)

\* Without ^C, a crash ends the loop and leaves the crashed call at the end.
CrashEnds ==
    (sigints = 0 /\ crash) =>
        /\ pc \in {"out", "idle"} \cup Dead
        /\ calls # <<>> /\ fate[Len(fate)] = "crash"

-----------------------------------------------------------------------------
(* The log *)

\* An argument avoids the variables of the slots it may not share with.
Apart ==
    pc \in InCall =>
        \A i \in Slots(func) : \A j \in Reserved(func, i) :
            argv[i] # Unset /\ argv[j] # Unset => argv[i] # argv[j]

\* Without ^C, the result of a call is its position in the trace, and only the
\* call at hand is not settled.
Positions ==
    sigints = 0 =>
        /\ curId = IF pc = "record" THEN Len(calls) + 1 ELSE Len(calls)
        /\ pc = "record" => newId = Len(calls)
        /\ \A k \in DOMAIN calls :
              /\ calls[k].result = k - 1
              /\ Settled(k) <=> (k # Len(calls) \/ pc \notin {"run", "destroy", "unlink"})
=============================================================================
