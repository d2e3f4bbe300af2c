------------------------------ MODULE FuncTable ------------------------------
(***************************************************************************)
(* The table of target functions (core/minerva_func.c) and the rules by    *)
(* which a call is put together from it (the two passes over the arguments *)
(* in core/minerva_call.c).  The target compiler fills the table once;     *)
(* here it is a set of constants.                                          *)
(***************************************************************************)
EXTENDS Integers, Sequences, FiniteSets

CONSTANTS
    Type,      \* minerva_type_t: the types of the target's values
    Func,      \* the registered functions
    RetType,   \* RetType[f]: the type of the value f returns
    Args,      \* Args[f]: the sequence of f's formal arguments
    Outcomes   \* Outcomes[f]: what the target may do when f is called

\* minerva_arg_flag_t, without F_VAR_ALLOC: who owns the memory behind a value
\* does not change which variables exist.
Flag == {"DESTROY", "UNIQUE", "MUTATE"}

\* A call of the target returns a value the check function accepts, returns
\* one it rejects, or raises SIGSEGV or SIGABRT.
Outcome == {"ok", "fail", "crash"}

ASSUME TableType ==
    /\ Func # {}
    /\ RetType \in [Func -> Type]
    /\ Args \in [Func -> Seq([type : Type, flags : SUBSET Flag])]
    /\ Outcomes \in [Func -> SUBSET Outcome]

Slots(f) == 1 .. Len(Args[f])
TypeOf(f, i) == Args[f][i].type
Unique(f, i) == "UNIQUE" \in Args[f][i].flags
DestroySlots(f) == {i \in Slots(f) : "DESTROY" \in Args[f][i].flags}

\* No target of the repository marks two arguments of one function DESTROY.  A
\* function that did, for one type, would have to mark them UNIQUE as well:
\* otherwise one variable can fill both and is freed twice.
ASSUME DestroyIsUnique ==
    \A f \in Func : \A i, j \in DestroySlots(f) :
        (i # j /\ TypeOf(f, i) = TypeOf(f, j)) => Unique(f, i)

\* F_FUN_MUTATE is set on a function that has a MUTATE argument.
Mutator(f) == \E i \in Slots(f) : "MUTATE" \in Args[f][i].flags

\* Of the arguments before i, those whose variable slot i cannot reuse.
Reserved(f, i) ==
    {j \in 1 .. i - 1 : Unique(f, j) /\ TypeOf(f, j) = TypeOf(f, i)}

\* Mutant of Qualify: a UNIQUE argument does not use up a variable.
QualifyIgnoresUnique(f, len, mutate) ==
    /\ mutate = Mutator(f)
    /\ \A i \in Slots(f) : len[TypeOf(f, i)] > 0

\* Mutant of Qualify: the test for an empty type is off by one.
QualifyOffByOne(f, len, mutate) ==
    /\ mutate = Mutator(f)
    /\ \A i \in Slots(f) : len[TypeOf(f, i)] >= Cardinality(Reserved(f, i))

(***************************************************************************)
(* minerva_func_qualify: does the pool hold enough variables to call f?    *)
(* It consults the counters len, never the variables themselves.           *)
(***************************************************************************)
Qualify(f, len, mutate) ==
    /\ mutate = Mutator(f)
    /\ \A i \in Slots(f) : len[TypeOf(f, i)] > Cardinality(Reserved(f, i))

Candidates(len, mutate) == {f \in Func : Qualify(f, len, mutate)}

(***************************************************************************)
(* The selection of arguments.  argv[i] is the identifier of the variable  *)
(* chosen for slot i, or Unset.                                            *)
(***************************************************************************)
Unset == -1

Unfilled(f, argv) == {i \in Slots(f) : argv[i] = Unset}

\* UNIQUE slots are filled first, in order; the others afterwards, in order.
Before(f, i, j) ==
    \/ Unique(f, i) /\ ~Unique(f, j)
    \/ (Unique(f, i) <=> Unique(f, j)) /\ i < j

NextSlot(f, argv, i) ==
    /\ i \in Unfilled(f, argv)
    /\ \A j \in Unfilled(f, argv) \ {i} : Before(f, i, j)

\* Mutant of Acceptable: every draw is kept.
AcceptAll(f, argv, i, v) == TRUE

\* A draw v for slot i is kept unless it hits an earlier slot: any earlier
\* one when i is UNIQUE, an earlier UNIQUE one when it is not.
Acceptable(f, argv, i, v) ==
    \A j \in 1 .. i - 1 :
        (TypeOf(f, j) = TypeOf(f, i) /\ (Unique(f, i) \/ Unique(f, j)))
            => argv[j] # v

=============================================================================
