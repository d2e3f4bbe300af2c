------------------------------ MODULE FuzzLoop ------------------------------
(***************************************************************************)
(* One fuzzing context (a pool of variables, a trace, the function table)  *)
(* and the loop that drives it: core/minerva_loop.c, minerva_call.c,       *)
(* minerva_var.c, minerva_func.c, the recording half of minerva_trace.c    *)
(* and the signal handlers of minerva_signal.c.                            *)
(*                                                                         *)
(* A ^C may land between any two steps of the loop; the handler leaves     *)
(* through longjmp, so the statement it interrupted is never finished.     *)
(* The pool's counter and its tree are therefore updated in steps of their *)
(* own.  Storing the identifier and inserting the variable in the tree is  *)
(* one step, and so is minerva_trace_record.                               *)
(***************************************************************************)
EXTENDS FuncTable

CONSTANTS
    Iters,      \* the iteration counts a user may ask for; Forever is 0 in C
    Modes,      \* the loop's "mutate" argument: a subset of BOOLEAN
    SavesMask,  \* does setjmp save the signal mask?  TRUE on BSD, FALSE on Linux
    MaxStarts,  \* bound: how often the loop is entered
    MaxCalls,   \* bound: how many calls the trace may hold
    MaxSigint   \* bound: how often the user presses ^C

Forever == -1

ASSUME LoopConstants ==
    /\ Iters \subseteq Nat \cup {Forever}
    /\ Modes \subseteq BOOLEAN
    /\ SavesMask \in BOOLEAN
    /\ MaxStarts \in Nat /\ MaxCalls \in Nat /\ MaxSigint \in Nat

VARIABLES
    \* minerva_vars_t
    tree,      \* tree[t]: identifiers of the variables in t's red-black tree
    len,       \* len[t]: the counter minerva_func_qualify reads
    curId,     \* cur_id: the next identifier
    \* minerva_trace_t
    calls,     \* the recorded calls: function, result_id, arg_ids
    fate,      \* what became of each recorded call (history)
    \* the frames of minerva_loop, minerva_random_call and minerva_call
    pc, left, mutate, func, argv, newId, doomed,
    \* minerva_signal.c, and minerva_loop's return value
    segv, exitLoop, blocked, crash,
    \* what the bounds count
    starts, sigints

poolVars == <<tree, len, curId>>
traceVars == <<calls, fate>>
loopVars == <<left, mutate, starts>>
frameVars == <<func, argv, newId, doomed>>
sigVars == <<segv, exitLoop, blocked, crash, sigints>>
vars == <<poolVars, traceVars, pc, loopVars, frameVars, sigVars>>

\* Where the loop may be when a signal arrives and its handlers are installed.
InCall == {"args", "insert", "record", "run", "destroy", "unlink",
           "dropcount", "dropunlink"}
InLoop == InCall \cup {"pick", "out"}
\* Process exits: SIGFPE, the handler's panic, exit().
Dead == {"sigfpe", "panic", "exit"}

Init ==
    /\ tree = [t \in Type |-> {}]
    /\ len = [t \in Type |-> 0]
    /\ curId = 0
    /\ calls = <<>> /\ fate = <<>>
    /\ pc = "idle" /\ left = 0 /\ mutate = FALSE
    /\ func = CHOOSE f \in Func : TRUE
    /\ argv = <<>> /\ newId = Unset /\ doomed = {}
    /\ segv = 0 /\ exitLoop = 0 /\ blocked = FALSE /\ crash = FALSE
    /\ starts = 0 /\ sigints = 0

-----------------------------------------------------------------------------
(* minerva_loop and minerva_func_get *)

\* Mutant of Start: crash keeps the value the last loop gave it.
StartKeepsCrash(iter, mode) ==
    /\ pc = "idle"
    /\ starts < MaxStarts
    /\ Len(calls) + (IF iter = Forever THEN 0 ELSE iter) <= MaxCalls
    /\ pc' = "pick" /\ left' = iter /\ mutate' = mode
    /\ starts' = starts + 1
    /\ segv' = 0 /\ exitLoop' = 0 /\ crash' = crash
    /\ UNCHANGED <<poolVars, traceVars, frameVars, blocked, sigints>>

\* fuzz and var_mut in the shell, or main: install the handlers, enter the loop.
Start(iter, mode) ==
    /\ pc = "idle"
    /\ starts < MaxStarts
    /\ Len(calls) + (IF iter = Forever THEN 0 ELSE iter) <= MaxCalls
    /\ pc' = "pick" /\ left' = iter /\ mutate' = mode
    /\ starts' = starts + 1
    /\ segv' = 0 /\ exitLoop' = 0 /\ crash' = FALSE
    /\ UNCHANGED <<poolVars, traceVars, frameVars, blocked, sigints>>

PickFunc(f) ==
    /\ pc = "pick"
    /\ left # 0
    /\ Len(calls) < MaxCalls
    /\ f \in Candidates(len, mutate)
    /\ func' = f
    /\ argv' = [i \in Slots(f) |-> Unset]
    /\ newId' = Unset /\ doomed' = {}
    /\ pc' = "args"
    /\ UNCHANGED <<poolVars, traceVars, loopVars, sigVars>>

\* minerva_func_get computes __rand() % n with n = 0.
NoCandidate ==
    /\ pc = "pick"
    /\ left # 0
    /\ Candidates(len, mutate) = {}
    /\ pc' = "sigfpe"
    /\ UNCHANGED <<poolVars, traceVars, loopVars, frameVars, sigVars>>

LoopDone ==
    /\ pc = "pick"
    /\ left = 0
    /\ pc' = "out"
    /\ UNCHANGED <<poolVars, traceVars, loopVars, frameVars, sigVars>>

\* Mutant of NextIter: "for ever" is counted down as well.
NextIterCountsForever ==
    /\ pc' = "pick"
    /\ left' = left - 1
    /\ UNCHANGED <<mutate, starts>>

NextIter ==
    /\ pc' = "pick"
    /\ left' = IF left = Forever THEN Forever ELSE left - 1
    /\ UNCHANGED <<mutate, starts>>

\* minerva_signal_revert; minerva_loop returns crash.
Revert ==
    /\ pc = "out"
    /\ pc' = "idle"
    /\ segv' = 0 /\ exitLoop' = 0
    /\ UNCHANGED <<poolVars, traceVars, loopVars, frameVars, blocked, crash, sigints>>

\* main returns, or the user leaves the shell.
Quit ==
    /\ pc = "idle"
    /\ pc' = "exit"
    /\ UNCHANGED <<poolVars, traceVars, loopVars, frameVars, sigVars>>

-----------------------------------------------------------------------------
(* Signals *)

\* longjmp back to minerva_loop, which looks at segv.
Longjmp(sv) ==
    /\ pc' = "out"
    /\ crash' = (crash \/ sv # 0)

\* sigsegv_minerva_loop, for SIGSEGV and SIGABRT
Segfault ==
    /\ segv' = 1
    /\ IF segv = 1 THEN pc' = "panic" /\ UNCHANGED crash ELSE Longjmp(1)
    /\ UNCHANGED <<exitLoop, blocked, sigints>>

\* sigint_minerva_loop.  The kernel blocks SIGINT while the handler runs; only
\* a longjmp that restores the mask unblocks it.
Sigint ==
    /\ pc \in InLoop
    /\ ~blocked
    /\ sigints < MaxSigint
    /\ sigints' = sigints + 1
    /\ IF exitLoop # 0
       THEN pc' = "panic" /\ UNCHANGED <<exitLoop, blocked, crash>>
       ELSE /\ exitLoop' = 1
            /\ blocked' = ~SavesMask
            /\ Longjmp(segv)
    /\ UNCHANGED <<poolVars, traceVars, loopVars, frameVars, segv>>

\* sigint_handler of main.c, in force outside the loop
SigintIdle ==
    /\ pc = "idle"
    /\ ~blocked
    /\ sigints < MaxSigint
    /\ sigints' = sigints + 1
    /\ pc' = "exit"
    /\ UNCHANGED <<poolVars, traceVars, loopVars, frameVars, segv, exitLoop, blocked,
                   crash>>

-----------------------------------------------------------------------------
(* minerva_random_call *)

\* minerva_var_get draws variables until one is acceptable.
PickArg(i, v) ==
    /\ pc = "args"
    /\ NextSlot(func, argv, i)
    /\ v \in tree[TypeOf(func, i)]
    /\ Acceptable(func, argv, i, v)
    /\ argv' = [argv EXCEPT ![i] = v]
    /\ UNCHANGED <<poolVars, traceVars, pc, loopVars, func, newId, doomed, sigVars>>

\* RB_MAX of an empty tree is NULL and minerva_var_get reads its id.
EmptyTree ==
    /\ pc = "args"
    /\ \E i \in Slots(func) :
          NextSlot(func, argv, i) /\ tree[TypeOf(func, i)] = {}
    /\ Segfault
    /\ UNCHANGED <<poolVars, traceVars, loopVars, frameVars>>

\* Every variable of the type is already taken: the draw is repeated for ever.
Stuck ==
    \E i \in Slots(func) :
        /\ NextSlot(func, argv, i)
        /\ tree[TypeOf(func, i)] # {}
        /\ \A v \in tree[TypeOf(func, i)] : ~Acceptable(func, argv, i, v)

Redraw ==
    /\ pc = "args"
    /\ Stuck
    /\ UNCHANGED vars

\* minerva_var_new, first the counter, ...
CountNew ==
    /\ pc = "args"
    /\ Unfilled(func, argv) = {}
    /\ len' = [len EXCEPT ![RetType[func]] = @ + 1]
    /\ pc' = "insert"
    /\ UNCHANGED <<tree, curId, traceVars, loopVars, frameVars, sigVars>>

\* ... then the identifier and the tree.
InsertNew ==
    /\ pc = "insert"
    /\ newId' = curId
    /\ curId' = curId + 1
    /\ tree' = [tree EXCEPT ![RetType[func]] = @ \cup {curId}]
    /\ pc' = "record"
    /\ UNCHANGED <<len, traceVars, loopVars, func, argv, doomed, sigVars>>

\* minerva_trace_record
Record ==
    /\ pc = "record"
    /\ calls' = Append(calls, [func |-> func, result |-> newId, args |-> argv])
    /\ fate' = Append(fate, "recorded")
    /\ pc' = "run"
    /\ UNCHANGED <<poolVars, loopVars, frameVars, sigVars>>

-----------------------------------------------------------------------------
(* minerva_call *)

SetFate(x) == fate' = [fate EXCEPT ![Len(fate)] = x]

\* The target's wrapper returns.
TargetReturns ==
    /\ pc = "run"
    /\ Outcomes[func] \cap {"ok", "fail"} # {}
    /\ SetFate("returned")
    /\ doomed' = DestroySlots(func)
    /\ pc' = "destroy"
    /\ UNCHANGED <<poolVars, calls, loopVars, func, argv, newId, sigVars>>

TargetCrashes ==
    /\ pc = "run"
    /\ "crash" \in Outcomes[func]
    /\ SetFate("crash")
    /\ Segfault
    /\ UNCHANGED <<poolVars, calls, loopVars, frameVars>>

FirstDoomed(i) == i \in doomed /\ \A j \in doomed : i <= j

\* minerva_var_destroy of an argument: the counter, ...
CountDestroyed(i) ==
    /\ pc = "destroy"
    /\ FirstDoomed(i)
    /\ len' = [len EXCEPT ![TypeOf(func, i)] = @ - 1]
    /\ pc' = "unlink"
    /\ UNCHANGED <<tree, curId, traceVars, loopVars, frameVars, sigVars>>

\* Mutant of UnlinkDestroyed: the variable is freed and stays in the tree.
FreeDestroyed(i) ==
    /\ pc = "unlink"
    /\ FirstDoomed(i)
    /\ doomed' = doomed \ {i}
    /\ pc' = "destroy"
    /\ UNCHANGED <<poolVars, traceVars, loopVars, func, argv, newId, sigVars>>

\* ... then the tree.
UnlinkDestroyed(i) ==
    /\ pc = "unlink"
    /\ FirstDoomed(i)
    /\ tree' = [tree EXCEPT ![TypeOf(func, i)] = @ \ {argv[i]}]
    /\ doomed' = doomed \ {i}
    /\ pc' = "destroy"
    /\ UNCHANGED <<len, curId, traceVars, loopVars, func, argv, newId, sigVars>>

\* The check function (none counts as success) accepts the result ...
CheckOk ==
    /\ pc = "destroy" /\ doomed = {}
    /\ "ok" \in Outcomes[func]
    /\ SetFate("ok")
    /\ NextIter
    /\ UNCHANGED <<poolVars, calls, frameVars, sigVars>>

\* ... or rejects it, and the new variable is destroyed: the counter, ...
CheckFails ==
    /\ pc = "destroy" /\ doomed = {}
    /\ "fail" \in Outcomes[func]
    /\ SetFate("fail")
    /\ pc' = "dropcount"
    /\ UNCHANGED <<poolVars, calls, loopVars, frameVars, sigVars>>

\* Mutant of CountDropped: the counter is forgotten.
DropUncounted ==
    /\ pc = "dropcount"
    /\ pc' = "dropunlink"
    /\ UNCHANGED <<poolVars, traceVars, loopVars, frameVars, sigVars>>

CountDropped ==
    /\ pc = "dropcount"
    /\ len' = [len EXCEPT ![RetType[func]] = @ - 1]
    /\ pc' = "dropunlink"
    /\ UNCHANGED <<tree, curId, traceVars, loopVars, frameVars, sigVars>>

\* Mutant of UnlinkDropped: the rejected result stays in the tree.
FreeDropped ==
    /\ pc = "dropunlink"
    /\ NextIter
    /\ UNCHANGED <<poolVars, traceVars, frameVars, sigVars>>

\* Mutant of UnlinkDropped: the identifier of the rejected result is taken back.
UnlinkDroppedReusesId ==
    /\ pc = "dropunlink"
    /\ tree' = [tree EXCEPT ![RetType[func]] = @ \ {newId}]
    /\ curId' = newId
    /\ NextIter
    /\ UNCHANGED <<len, traceVars, frameVars, sigVars>>

\* ... then the tree.
UnlinkDropped ==
    /\ pc = "dropunlink"
    /\ tree' = [tree EXCEPT ![RetType[func]] = @ \ {newId}]
    /\ NextIter
    /\ UNCHANGED <<len, curId, traceVars, frameVars, sigVars>>

-----------------------------------------------------------------------------
\* A dead process, or a loop that runs into MaxCalls, does nothing more.
Halted ==
    /\ pc \in Dead \/ (pc = "pick" /\ left # 0 /\ Len(calls) >= MaxCalls)
    /\ UNCHANGED vars

RandomCall ==
    \/ \E i \in Slots(func) : \E v \in tree[TypeOf(func, i)] : PickArg(i, v)
    \/ EmptyTree
    \/ Redraw
    \/ CountNew
    \/ InsertNew
    \/ Record

Call ==
    \/ TargetReturns
    \/ TargetCrashes
    \/ \E i \in doomed : CountDestroyed(i)
    \/ \E i \in doomed : UnlinkDestroyed(i)
    \/ CheckOk
    \/ CheckFails
    \/ CountDropped
    \/ UnlinkDropped

\* What the program does of itself, between two commands of the user.
LoopStep ==
    \/ \E f \in Func : PickFunc(f)
    \/ NoCandidate
    \/ LoopDone
    \/ RandomCall
    \/ Call
    \/ Revert

UserStep ==
    \/ \E iter \in Iters, mode \in Modes : Start(iter, mode)
    \/ Sigint
    \/ SigintIdle
    \/ Quit

Next == LoopStep \/ UserStep \/ Halted

Spec == Init /\ [][Next]_vars

\* The program keeps running, and a call of the target returns or crashes.
FairSpec == Spec /\ WF_vars(LoopStep)

-----------------------------------------------------------------------------
(* Properties *)

Fates == {"recorded", "returned", "ok", "fail", "crash"}
RecordedCall == [func : Func, result : Nat, args : Seq(Nat)]

PoolType ==
    tree \in [Type -> SUBSET Nat] /\ len \in [Type -> Int] /\ curId \in Nat

TraceType ==
    calls \in Seq(RecordedCall) /\ fate \in Seq(Fates) /\ Len(fate) = Len(calls)

ControlType ==
    /\ pc \in InLoop \cup Dead \cup {"idle"}
    /\ left \in Nat \cup {Forever} /\ starts \in Nat
    /\ func \in Func
    /\ argv \in Seq(Nat \cup {Unset}) /\ newId \in Nat \cup {Unset}
    /\ doomed \subseteq DestroySlots(func)

SignalType == segv \in {0, 1} /\ exitLoop \in {0, 1} /\ sigints \in 0 .. MaxSigint

FlagType == mutate \in BOOLEAN /\ blocked \in BOOLEAN /\ crash \in BOOLEAN

TypeOK == PoolType /\ TraceType /\ ControlType /\ SignalType /\ FlagType

\* Calls whose fate is settled: minerva_call ran to its end, or the target
\* crashed in it.
Settled(k) == fate[k] \in {"ok", "fail", "crash"}

\* The counter a step has already moved, ahead of the tree it describes.
Ahead(t) ==
    CASE pc = "insert" /\ t = RetType[func] -> 1
      [] pc = "dropunlink" /\ t = RetType[func] -> -1
      [] pc = "unlink" /\ (\E i \in doomed : FirstDoomed(i) /\ TypeOf(func, i) = t) -> -1
      [] OTHER -> 0

Distance(m, n) == IF m <= n THEN n - m ELSE m - n

Drift(t) == Distance(len[t], Cardinality(tree[t]) + Ahead(t))

\* Each ^C can push at most one pool counter off the number of variables in
\* its tree by one, and nothing else can: without ^C the counters
\* minerva_func_qualify trusts are exact (minerva_var.c:75-84, 98-100).
DriftBoundedBySigints == \A t \in Type : Drift(t) <= sigints

\* The unsigned counter never wraps below zero, however often ^C has torn it
\* off its tree: a wrapped counter would qualify functions nothing can feed.
LenNeverWraps == \A t \in Type : len[t] >= 0

\* While a call is put together and made, each argument chosen is a variable
\* in the pool, and no variable is destroyed twice by the pass over the
\* DESTROY arguments (minerva_call.c:54-61 frees through these pointers).
ArgsAlive ==
    /\ pc \in {"args", "insert", "record", "run"} =>
          \A i \in Slots(func) \ Unfilled(func, argv) : argv[i] \in tree[TypeOf(func, i)]
    /\ pc \in {"destroy", "unlink"} =>
          /\ \A i \in doomed : argv[i] \in tree[TypeOf(func, i)]
          /\ \A i, j \in doomed :
                (i # j /\ TypeOf(func, i) = TypeOf(func, j)) => argv[i] # argv[j]

\* A result identifier is issued once in the life of a pool: results grow along
\* the trace and no two trees share an identifier, ^C or not.
IdsIssuedOnce ==
    /\ \A j, k \in DOMAIN calls : j < k => calls[j].result < calls[k].result
    /\ \A s, t \in Type : s # t => tree[s] \cap tree[t] = {}
    /\ \A t \in Type : \A v \in tree[t] : v < curId

UsedBy(k, t, v) ==
    \E i \in Slots(calls[k].func) :
        TypeOf(calls[k].func, i) = t /\ calls[k].args[i] = v

\* Once a call has run to its end its DESTROY arguments are out of the pool,
\* and no later call of the trace is given one of them (README.md:74), however
\* the loop was interrupted and entered again.
DestroyedNeverReused ==
    \A j \in DOMAIN calls : fate[j] \in {"ok", "fail"} =>
        \A i \in DestroySlots(calls[j].func) :
            LET t == TypeOf(calls[j].func, i)
                v == calls[j].args[i]
            IN  /\ v \notin tree[t]
                /\ \A k \in DOMAIN calls : k > j => ~UsedBy(k, t, v)

\* What minerva_func_qualify promises is enough for both passes of
\* minerva_random_call, although it reads counters and the passes read trees: a
\* draw is made from an empty tree, or repeated for ever, only for a type whose
\* counter a ^C has left above its tree; whatever else ^C has torn does no harm.
SelectionSucceeds ==
    pc = "args" =>
        \A i \in Slots(func) :
            LET t == TypeOf(func, i) IN
            /\ NextSlot(func, argv, i)
            /\ sigints = 0 \/ len[t] <= Cardinality(tree[t])
            => \E v \in tree[t] : Acceptable(func, argv, i, v)

\* Without ^C, a loop that reports a crash leaves the call that crashed at the
\* end of the trace, where play and min look for it.
CrashIsLastCall ==
    (sigints = 0 /\ crash /\ pc \in {"out", "idle"}) =>
        calls # <<>> /\ fate[Len(fate)] = "crash"

\* A loop with an iteration count ends: it gives the prompt back, or the
\* process dies.
LoopEnds == (pc = "pick" /\ left # Forever) ~> (pc \in {"idle"} \cup Dead)

-----------------------------------------------------------------------------
(* Statements of the repository that the code does not keep *)

\* "get variables for other args (and ensure that they don't collide with
\* UNIQUE ones)", minerva_call.c:110.
UniqueArgsUnique ==
    \A k \in DOMAIN calls :
        LET f == calls[k].func IN
        \A i, j \in Slots(f) :
            (i # j /\ Unique(f, i) /\ TypeOf(f, i) = TypeOf(f, j))
                => calls[k].args[i] # calls[k].args[j]

\* "setup handlers for SIGSEGV and SIGINT during fuzzing", minerva_signal.c:45.
SigintHandledInLoop == pc \in InLoop \ {"out"} => ~blocked
=============================================================================
