-------------------------------- MODULE Repl --------------------------------
(***************************************************************************)
(* The shell (core/minerva_repl.c): names, the values bound to them, and   *)
(* the contexts the values share by reference counts (core/dict.c,         *)
(* core/minerva_dict.c, include/minerva_refs.h).  A line is evaluated in   *)
(* the steps of minerva_repl_eval_line: look up the arguments, call the    *)
(* command, bind its result, clean up.                                     *)
(*                                                                         *)
(* Of a context the model keeps whether it has a pool, the next identifier *)
(* of that pool, and the result identifiers in its trace; what happens in  *)
(* the loop, the play and the minimization is the other modules' matter.   *)
(***************************************************************************)
EXTENDS Dict, FiniteSets

CONSTANTS
    Name,       \* identifiers a user types; "_" gets the results not assigned
    Typed,      \* the lines a user types
    MaxCtx,     \* bound: how many contexts are made
    MaxValue,   \* bound: how many values are made
    MaxCall,    \* bound: how many calls one fuzz or var_mut records
    MaxLen      \* bound: how many calls a trace holds

\* The commands, with the kinds of their arguments and how many repl_funcs asks
\* for.  play stands for show as well, which reads the trace too.
Kinds ==
    [fuzz |-> <<"num", "ctx">>, var_mut |-> <<"num", "ctx">>,
     min |-> <<"ctx", "num">>, restore |-> <<"str">>, save |-> <<"ctx", "str">>,
     play |-> <<"ctx">>, func_stat |-> <<"ctx">>, var_stat |-> <<"ctx">>,
     str |-> <<"ctx", "num">>, verbose |-> <<"num">>, help |-> <<>>]
Needed ==
    [c \in DOMAIN Kinds |->
        CASE c \in {"fuzz", "help"} -> 0
          [] c \in {"min", "restore", "save", "play", "func_stat", "var_stat", "verbose"} -> 1
          [] c \in {"var_mut", "str"} -> 2]

\* The lines the parser lets through
Line ==
    [var : Name \cup {""}, cmd : DOMAIN Kinds,
     args : UNION {[1 .. k -> {"num", "str"} \cup Name] : k \in 0 .. 2}]

ASSUME ReplConstants ==
    /\ "_" \in Name /\ Typed \subseteq Line
    /\ {MaxCtx, MaxValue, MaxCall, MaxLen} \subseteq Nat

VARIABLES
    phase,     \* where minerva_repl_eval_line is
    line,      \* the line: target name or None, command, arguments
    argv,      \* the arguments' values
    result,    \* the value the command returns, or None
    dict,      \* the names and the values they are bound to
    value,     \* value[v]: the context v holds and whether v is allocated
    ctx,       \* ctx[c]: refs, whether c is allocated, pool, trace
    file       \* the trace in the file, or NoFile

replVars == <<phase, line, argv, result, dict, value, ctx, file>>

NoPool == -1
NoFile == <<-1>>
NoLine == [var |-> "", cmd |-> "help", args |-> <<>>]

ReplInit ==
    /\ phase = "prompt" /\ line = NoLine /\ argv = <<>> /\ result = None
    /\ dict = <<>>
    /\ value = <<>> /\ ctx = <<>> /\ file = NoFile

\* What the bounds leave room for
Room(l) ==
    /\ l.cmd \in {"fuzz", "min", "restore"} => Len(value) < MaxValue
    /\ l.cmd \in {"min", "restore"} \/ (l.cmd = "fuzz" /\ Len(l.args) < 2)
          => Len(ctx) < MaxCtx

ReadLine(l) ==
    /\ phase = "prompt" /\ Room(l)
    /\ line' = l
    /\ phase' = "lookup"
    /\ UNCHANGED <<argv, result, dict, value, ctx, file>>

\* repl_arg -> dict_var
Lookup ==
    /\ phase = "lookup"
    /\ \A i \in DOMAIN line.args : line.args[i] \in Name => line.args[i] \in Keys(dict)
    /\ argv' = [i \in DOMAIN line.args |->
                  IF line.args[i] \in Name THEN [kind |-> "ctx", v |-> DictGet(dict, line.args[i])]
                                           ELSE [kind |-> line.args[i], v |-> None]]
    /\ phase' = "call"
    /\ UNCHANGED <<line, result, dict, value, ctx, file>>

\* minerva_repl_line_destroy frees what the parser has made.
LineDestroy == line' = NoLine

\* "no such var": only what stands before it is cleaned up.
LookupFails ==
    /\ phase = "lookup"
    /\ \E i \in DOMAIN line.args : line.args[i] \in Name \ Keys(dict)
    /\ argv' = <<>> /\ LineDestroy
    /\ phase' = "prompt"
    /\ UNCHANGED <<result, dict, value, ctx, file>>

Accepted(cmd) ==
    /\ line.cmd = cmd
    /\ Len(argv) >= Needed[cmd]
    /\ \A i \in DOMAIN argv \cap DOMAIN Kinds[cmd] : argv[i].kind = Kinds[cmd][i]

\* "type mismatch", "args no mismatch": no result.
Mismatch ==
    /\ phase = "call" /\ ~Accepted(line.cmd)
    /\ result' = None
    /\ phase' = "bind"
    /\ UNCHANGED <<line, argv, dict, value, ctx, file>>

CtxOf(i) == value[argv[i].v].ctx

NewValue(c) == Append(value, [ctx |-> c, alloc |-> TRUE])

NewCtx(pool, trace) == [refs |-> 1, alloc |-> TRUE, pool |-> pool, trace |-> trace]

\* The identifiers n calls get from a pool.
Issue(pool, n) == [k \in 1 .. n |-> pool + k - 1]

Returned ==
    /\ result' = Len(value) + 1
    /\ phase' = "bind"
    /\ UNCHANGED <<line, argv, dict, file>>

\* fuzz(iter): a context of its own; ^C may end the loop after n calls.
FuzzNew(n) ==
    /\ phase = "call" /\ Accepted("fuzz") /\ Len(argv) < 2
    /\ ctx' = Append(ctx, NewCtx(n, Issue(0, n)))
    /\ value' = NewValue(Len(ctx) + 1)
    /\ Returned

\* The loop creates a pool where there is none.
Pool(c) == IF ctx[c].pool = NoPool THEN 0 ELSE ctx[c].pool

\* Mutant of FuzzOn: the reference is not counted.
FuzzOnUncounted(n) ==
    /\ phase = "call" /\ Accepted("fuzz") /\ Len(argv) = 2
    /\ LET c == CtxOf(2) IN
       /\ Len(ctx[c].trace) + n <= MaxLen
       /\ ctx' = [ctx EXCEPT ![c].pool = Pool(c) + n,
                             ![c].trace = @ \o Issue(Pool(c), n)]
       /\ value' = NewValue(c)
    /\ Returned

\* fuzz(iter, ctx): the result shares the context.
FuzzOn(n) ==
    /\ phase = "call" /\ Accepted("fuzz") /\ Len(argv) = 2
    /\ LET c == CtxOf(2) IN
       /\ Len(ctx[c].trace) + n <= MaxLen
       /\ ctx' = [ctx EXCEPT ![c].refs = @ + 1, ![c].pool = Pool(c) + n,
                             ![c].trace = @ \o Issue(Pool(c), n)]
       /\ value' = NewValue(c)
    /\ Returned

NoResult ==
    /\ result' = None /\ phase' = "bind"
    /\ UNCHANGED <<line, argv, dict, value>>

\* var_mut(iter, ctx)
VarMut(n) ==
    /\ phase = "call" /\ Accepted("var_mut")
    /\ LET c == CtxOf(2) IN
       /\ ctx[c].pool # NoPool
       /\ Len(ctx[c].trace) + n <= MaxLen
       /\ ctx' = [ctx EXCEPT ![c].pool = @ + n, ![c].trace = @ \o Issue(ctx[c].pool, n)]
    /\ NoResult
    /\ UNCHANGED file

\* The shell is gone: a loop, a play or a minimization may end the process;
\* nothing can be mutated in the pool var_mut makes for a context without one
\* (SIGFPE); var_stat and str follow a NULL pool, min the last call of an empty
\* trace, str leaves the value to the target; save reads an argument that is not there.
Dies ==
    /\ phase = "call"
    /\ \/ \E cmd \in {"fuzz", "var_mut", "play", "min", "str"} : Accepted(cmd)
       \/ Accepted("var_stat") /\ ctx[CtxOf(1)].pool = NoPool
       \/ Accepted("save") /\ Len(argv) < 2
    /\ phase' = "dead"
    /\ UNCHANGED <<line, argv, result, dict, value, ctx, file>>

Rising(kept) == \A i, j \in DOMAIN kept : i < j => kept[i] < kept[j]

\* min(trace): the calls it keeps, in a context without a pool.  The crash of a
\* call in the middle, or a ^C, may leave any part of the trace.
Minimized(kept) ==
    /\ phase = "call" /\ Accepted("min")
    /\ LET t == ctx[CtxOf(1)].trace IN
       /\ t # <<>> /\ \A k \in DOMAIN kept : kept[k] \in DOMAIN t
       /\ Rising(kept)
       /\ ctx' = Append(ctx, NewCtx(NoPool, [k \in DOMAIN kept |-> t[kept[k]]]))
    /\ value' = NewValue(Len(ctx) + 1)
    /\ Returned

\* restore("file"); a file that cannot be opened gives an empty trace.
Restore ==
    /\ phase = "call" /\ Accepted("restore")
    /\ ctx' = Append(ctx, NewCtx(NoPool, IF file = NoFile THEN <<>> ELSE file))
    /\ value' = NewValue(Len(ctx) + 1)
    /\ Returned

\* A file that cannot be opened stays as it is.  Identifiers are written and read
\* back in decimal: a trace comes back as it was, given that its functions are in
\* the table (names below 128, arguments of a call below 512 characters).
Save ==
    /\ phase = "call" /\ Accepted("save") /\ Len(argv) >= 2
    /\ file' \in {file, ctx[CtxOf(1)].trace}
    /\ NoResult
    /\ UNCHANGED ctx

\* play, show
ReadTrace ==
    /\ phase = "call" /\ Accepted("play")
    /\ NoResult /\ UNCHANGED <<ctx, file>>

\* func_stat: every context has its functions.
ReadFuncs ==
    /\ phase = "call" /\ Accepted("func_stat")
    /\ NoResult /\ UNCHANGED <<ctx, file>>

\* str looks the number up under every type, and finds a variable or not.
ReadPool ==
    /\ phase = "call"
    /\ Accepted("var_stat") \/ Accepted("str")
    /\ ctx[CtxOf(1)].pool # NoPool
    /\ NoResult /\ UNCHANGED <<ctx, file>>

\* verbose, help
NoContext ==
    /\ phase = "call"
    /\ Accepted("verbose") \/ Accepted("help")
    /\ NoResult /\ UNCHANGED <<ctx, file>>

-----------------------------------------------------------------------------
(* Binding the result *)

\* Mutant of Release: a context goes with the first value that held it.
ReleaseAll(cs, c) ==
    [cs EXCEPT ![c].refs = @ - 1, ![c].alloc = FALSE]

\* MINERVA_REFS_DEC, and the end of a context whose last reference it was
Release(cs, c) ==
    [cs EXCEPT ![c].refs = @ - 1, ![c].alloc = cs[c].refs > 1]

Target == IF line.var = "" THEN "_" ELSE line.var

\* minerva_dict_var_destroy, for the value v, if there is one
DestroyVal(v) ==
    IF v = None THEN UNCHANGED <<value, ctx>>
    ELSE /\ value' = [value EXCEPT ![v].alloc = FALSE]
         /\ ctx' = Release(ctx, value[v].ctx)

\* minerva_dict_set; list_node_destroy takes the value with it that had the name.
Bind ==
    /\ phase = "bind" /\ result # None
    /\ dict' = DictInsert(dict, Target, result)
    /\ DestroyVal(DictGet(dict, Target))
    /\ phase' = "clean"
    /\ UNCHANGED <<line, argv, result, file>>

NothingToBind ==
    /\ phase = "bind" /\ result = None
    /\ phase' = "clean"
    /\ UNCHANGED <<line, argv, result, dict, value, ctx, file>>

FreedArg == \E i \in DOMAIN argv : argv[i].kind = "ctx" /\ ~value[argv[i].v].alloc

\* The strings and numbers of argv are freed; the type of each is read.
Cleanup ==
    /\ phase = "clean"
    /\ argv' = <<>> /\ LineDestroy /\ result' = None
    /\ phase' = "prompt"
    /\ UNCHANGED <<dict, value, ctx, file>>

\* What is read where a value has been freed may pass for a string's type.
CleanupAstray ==
    /\ phase = "clean" /\ FreedArg
    /\ phase' = "undefined"
    /\ UNCHANGED <<line, argv, result, dict, value, ctx, file>>

\* exit leaves everything as it is; at the end of input the names go first.
Quit ==
    /\ phase = "prompt"
    /\ phase' = "exit"
    /\ UNCHANGED <<line, argv, result, dict, value, ctx, file>>

\* One step of dict_destroy
EndOfInput ==
    /\ phase \in {"prompt", "eof"} /\ dict # <<>>
    /\ phase' = "eof"
    /\ dict' = Tail(dict)
    /\ DestroyVal(dict[1].val)
    /\ UNCHANGED <<line, argv, result, file>>

Gone == {"dead", "undefined", "exit", "eof"}

ReplHalted == phase \in Gone /\ UNCHANGED replVars

Command ==
    \/ \E n \in 0 .. MaxCall : FuzzNew(n) \/ FuzzOn(n) \/ VarMut(n)
    \/ Dies
    \/ \E n \in 0 .. MaxLen : \E kept \in [1 .. n -> 1 .. MaxLen] : Minimized(kept)
    \/ Restore \/ Save \/ Mismatch
    \/ ReadTrace \/ ReadFuncs \/ ReadPool \/ NoContext

ReplNext ==
    \/ \E l \in Typed : ReadLine(l)
    \/ Lookup \/ LookupFails
    \/ Command
    \/ Bind \/ NothingToBind \/ Cleanup \/ CleanupAstray
    \/ Quit \/ EndOfInput
    \/ ReplHalted

ReplSpec == ReplInit /\ [][ReplNext]_replVars

-----------------------------------------------------------------------------
(* Properties *)

Held == {v \in DOMAIN value : value[v].alloc}

ReplTypeOK ==
    /\ phase \in {"prompt", "lookup", "call", "bind", "clean"} \cup Gone
    /\ line.cmd \in DOMAIN Kinds /\ line.var \in Name \cup {""}
    /\ dict \in Seq([key : Name, val : DOMAIN value]) /\ result \in 0 .. Len(value)
    /\ value \in Seq([ctx : 1 .. Len(ctx), alloc : BOOLEAN])
    /\ ctx \in Seq([refs : Nat, alloc : BOOLEAN, pool : Nat \cup {NoPool}, trace : Seq(Nat)])
    /\ \A i \in DOMAIN argv : argv[i].kind = "ctx" => argv[i].v \in DOMAIN value

\* A context's reference count is the number of values that hold it, and it is
\* allocated exactly as long as there is one: no result of fuzz is freed while
\* a name still leads to it, and none is left over when the last name is bound
\* to something else, although fuzz(n, x) shares x's context and rebinding a
\* name destroys a value in the middle of a line (minerva_dict.c:41-69).
RefsCountValues ==
    \A c \in DOMAIN ctx :
        /\ ctx[c].refs = Cardinality({v \in Held : value[v].ctx = c})
        /\ ctx[c].alloc <=> ctx[c].refs > 0

\* Every value that is allocated is bound to one name, or is the result of the
\* line at hand: none is lost, no node of the dictionary is shadowed by a newer
\* one, and no name is bound to a freed value (dict.c:184-209).
ValuesBoundOnce ==
    /\ Held = Vals(dict) \cup (IF phase = "bind" /\ result # None THEN {result} ELSE {})
    /\ \A i, j \in DOMAIN dict :
          i # j => dict[i].key # dict[j].key /\ dict[i].val # dict[j].val

\* A command is only ever given contexts that are allocated, and the clean-up
\* after it reads a freed value only where the line binds its result to a name
\* it also takes as an argument, as in x = fuzz(5, x) (minerva_repl.c:493-505).
ArgsOutliveLine ==
    /\ phase = "call" =>
          \A i \in DOMAIN argv : argv[i].kind = "ctx" =>
              value[argv[i].v].alloc /\ ctx[CtxOf(i)].alloc
    /\ phase = "clean" /\ FreedArg =>
          \E i \in DOMAIN line.args : line.args[i] = Target

-----------------------------------------------------------------------------
(* What the names promise *)

ContextOf(n) == value[DictGet(dict, n)].ctx

Promise == INSTANCE Sharing WITH
    env <- [n \in Keys(dict) |-> ContextOf(n)],
    pending <- IF phase = "bind" /\ result # None THEN {value[result].ctx} ELSE {},
    made <- Len(ctx),
    log <- [c \in {d \in DOMAIN ctx : ctx[d].alloc} |-> ctx[c].trace]

\* With values of their own, reference counts that share their contexts, and the
\* names' values replaced in the middle of a line, the commands do what Sharing
\* says: a context is freed in the very step that takes the last name away that
\* led to it, its trace is only ever added to, and by nothing but a fuzz or a
\* var_mut that was given a name of it (minerva_repl.c:75-122, minerva_dict.c:41-69).
ImplementsSharing == Promise!Spec
=============================================================================
