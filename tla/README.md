# A verification project for minerva_lib

minerva_lib builds fuzzers for C libraries. A target is described by a `.mi`
file, the function table; the target compiler turns it into C; the core calls
random functions of the table with random variables of the right types, keeps
what they return in a pool, records every call in a trace, and can play,
save, restore and minimize that trace. This directory holds TLA+ modules that
model the core, TLC runs that check them on small targets, and proofs, checked
by TLAPS, for every target and every bound.

## 1. The parts of the system

| part | source | state | operations | modelled in |
|---|---|---|---|---|
| function table | `core/minerva_func.c`, `include/minerva_func.h` | the list of functions: return type, argument types and flags, check function; counters of successes and failures | add, qualify, get (a random one that qualifies), find by name | `FuncTable` |
| variable pool | `core/minerva_var.c` | per type a red-black tree of variables and a counter `len`; `cur_id` | new, destroy, get (random), find by identifier, destroy all | `FuzzLoop`, `TracePlay`; `VarPool` down to the pointers |
| a call | `core/minerva_call.c` | the frames of `minerva_random_call` and `minerva_call` | choose arguments (UNIQUE ones first), create the result, record, call the target, destroy the DESTROY arguments, check the result | `FuzzLoop` |
| the loop | `core/minerva_loop.c` | iteration counter, `crash` | create vars, funcs and trace on first use; make `iter` calls or go on for ever; leave through `longjmp` | `FuzzLoop` |
| signals | `core/minerva_signal.c` | `segv`, `exit_loop`, the jump buffer, the old handlers | set up, revert, the handlers of SIGSEGV/SIGABRT and of SIGINT | `FuzzLoop`, `TracePlay` |
| trace | `core/minerva_trace.c` | a list of calls (function, `result_id`, `arg_ids`) and `calls_num` | record, play, save, restore, copy, minimize, destroy | `FuzzLoop` (record), `TracePlay` (play), `Minimize`, `Session` (save and restore) |
| shell | `core/minerva_repl.c`, `minerva_lexer.l`, `minerva_parser.y` | named results | fuzz, var_mut, play, min, save, restore, show, quit, ... | `Repl` |
| dictionary and reference counts | `core/dict.c`, `core/minerva_dict.c`, `include/minerva_refs.h` | name -> value; `refs` of a result | insert (replaces), get, remove, destroy | `Dict`, `Repl` |
| driver | `core/main.c` | options | one loop, or fuzz and mutate in turn, or play; save, clean up | `Session` |
| random numbers | `core/rand.c`, `core/random.c` | the additive feedback table and its two pointers | seed, setstate, next | not modelled: FreeBSD's, vendored |
| checks, strings, allocation | `core/minerva_generic.c`, `minerva_concat.c`, `xmalloc.c` | none | pure helpers | not modelled |
| red-black trees | `include/tree.h` (from BSD) | a root; per element left, right, parent, color | insert, remove, find, nfind, min, max, next, foreach | `RBTree`, `VarPool` |
| target compiler | `compiler/*.py` | the tables a `.mi` file declares | parse, check includes and reachability, generate C | `MiCompile` |
| grammar compiler | `utils/abnf/*.py` | an ABNF grammar | parse, generate C generators | not modelled |
| task queue | `utils/queue/*` | tasks, directories to compare, results | hand out tasks, collect results, hand out comparisons | `TaskQueue` |
| targets | `target/*` | `.mi` files and wrappers | the code under test | the constants of `FuncTable` |

How they interact. The shell (or `main`) calls the loop; the loop installs the
signal handlers, saves a jump buffer and calls `minerva_random_call` again and
again. That function reads the pool's counters through the function table,
picks arguments from the pool's trees, creates the result in the pool, records
the call in the trace and calls the target's wrapper. A crash of the target and
a ^C of the user both arrive as signals; both handlers leave the interrupted
code with `longjmp`, whatever it was doing, and the loop goes on behind its
`setjmp`. The context (pool, table, trace) survives, and the user may fuzz on
with it, play its trace or minimize it. A play runs the calls of a trace on a
pool of its own, with the same handlers. The task queue is a system of its own:
a server and its workers are processes that exchange messages, and a worker runs
a fuzzer as a child process.

### What is hard

The fuzzer has one thread; its concurrency is that of signals. A ^C may fall
between any two statements: between `len++` and the insertion in the tree,
between the creation of a variable and its recording in the trace, between the
target's freeing of a value and the removal of the variable that holds it,
between two stores of a rotation, in the middle of a line of the saved trace.
Nothing is rolled back. What follows was asked of each component.

* Pool: the counter that decides which functions can be called agrees with the
  tree the arguments are drawn from; it is unsigned and must not wrap;
  identifiers are not issued twice.
* Trees: without ^C, a red-black tree that holds the variables made and not
  destroyed; with one, at least a search that ends and finds.
* Selection: what `minerva_func_qualify` promises on counters is enough for the
  two passes, which draw from trees by rejection and could draw for ever.
* Call: arguments are alive; nothing is freed twice; what was destroyed is not
  used again.
* Trace: replaying it reproduces what happened; a reported crash is its last
  call, where play and min look for it.
* Loop and signals: a counted loop ends; ^C works in every run of the loop.
* Save and restore: a second process gets back what the first one saved, as far as
  the file goes.
* Minimization: the trace it returns is a part of the trace it was given, and
  still crashes; its arrays, indexed by identifier, are large enough.
* Shell: a context is freed when, and only when, the last name for it is gone.
* Target compiler: headers come out in an order C can read; what passes the
  reachability check can be called; it ends, and a cycle of includes yields no table.
* Task queue: every task is run once, its result stored if its target ends, and
  every target is compared when, and only when, its results are there.

`PROJECT.json` lists each hazard at its line, with the properties that cover
it or the reason why none does yet.

## 2. The modules

`FuncTable` holds the target as constants: `Type`, `Func`, `RetType`, `Args`
(type and flags of each argument) and `Outcomes` (what a function may do: the
check accepts, the check rejects, a crash). Its operators are
`minerva_func_qualify` (`Qualify`, `Candidates`) and the rules of the two
selection passes (`NextSlot`: UNIQUE slots first; `Acceptable`: which draws are
kept). `Qualify` is written without the C code's working copy of the counters:
a slot needs more variables of its type than there are UNIQUE slots of that
type before it.

`FuzzLoop` is the core: the pool (`tree`, `len`, `curId`), the trace (`calls`,
and the history `fate` of each call), the frames of the loop and of the call
(`left`, `mutate`, `func`, `argv`, `newId`, `doomed`), the signals (`segv`,
`exitLoop`, `blocked`, `crash`) and a program counter. One action is the part of
a function between two points where a ^C makes a difference:

| pc | actions | code |
|---|---|---|
| `idle` | `Start`, `Quit`, `SigintIdle` | the prompt: fuzz and var_mut enter the loop |
| `pick` | `PickFunc`, `NoCandidate`, `LoopDone` | the head of the loop, `minerva_func_get` |
| `args` | `PickArg`, `EmptyTree`, `Redraw`, `CountNew` | the two passes; `len++` of `minerva_var_new` |
| `insert` | `InsertNew` | the identifier and `RB_INSERT` |
| `record` | `Record` | `minerva_trace_record` |
| `run` | `TargetReturns`, `TargetCrashes` | the target's wrapper |
| `destroy` / `unlink` | `CountDestroyed` / `UnlinkDestroyed` | `minerva_var_destroy` of each DESTROY argument |
| `destroy` | `CheckOk`, `CheckFails` | the check function |
| `dropcount` / `dropunlink` | `CountDropped` / `UnlinkDropped` | `minerva_var_destroy` of a rejected result |
| `out` | `Revert` | behind the `setjmp`: `minerva_signal_revert` |
| `panic`, `sigfpe`, `exit` | `Halted` | the process is gone |

`Sigint` is enabled at every one of these points inside the loop. The pool,
the trace and the table are those of one context, entered again and again, as
the shell's `fuzz(n, ctx)` and `var_mut(n, ctx)` do.

`CallLog` is what a context promises: a log of calls, each made at once on
variables that exist, and a pool the log explains. `FuzzRefinement` maps
`FuzzLoop` to it: a call takes effect when its verdict is in or the target has
crashed; until then its result is not in the abstract pool and what it has
destroyed still is. `ImplementsCallLog` is the abstract specification under
that mapping.

`TracePlay` composes the loop with `minerva_trace_play`: in an idle moment the
trace, whatever runs and signals have made of it, is played on a fresh pool,
with a ^C possible during the play. The target is deterministic: a call whose
predecessors all ran to their end, as it did, does what it did before
(`Replayed`); any other call may do anything its function may do.

`Session` composes `TracePlay` with the driver and with a file: a first process
fuzzes, from the shell (`ShellLoop`), from `main` or with `-M`, where fuzzing and
mutation take turns on one context until a loop reports a crash (`MainLoop`), and
saves its trace (`Save`); a second one restores the file (`Restore`), plays it, and may save
it again. A file is a sequence of lines, and a line its pieces: the identifier, the
name in two pieces, the arguments. Outside the loop ^C is `exit(0)`, so that while the
file is written it may end behind any piece (`SaveCut`). Reading is modelled as the
two `sscanf` of `minerva_trace_restore` do it: what a cut line does not have keeps
the value the buffers had from the line before (`ReadLine`, `ReadArgs`).

`RBTree` is `include/tree.h` as `minerva_var.c` instantiates it. A heap is a root and the
four fields of each element. What a macro writes is a sequence of stores in the
order the macro makes them, so that a caller can make them all or only the first
few; left and right, written out twice in C, are a parameter. `VarPool` is the pool
of one type on such a heap: `New`, `Insert`, the rounds of `RB_INSERT_COLOR`
(`InsertRound`, `InsertDone`), `Destroy`, `RemoveVar`, the rounds of `RB_REMOVE_COLOR`
(`RemoveRedSibling`, `RemoveRound`, `RemoveDone`), `Free`, and the end of the pool (`Leave`,
`LeaveDone`). A ^C cuts any of these steps short (`Cut`); a NULL that is followed
is a `Fault`, which the loop takes for a crash of the target. `FuzzLoop` and the
others take a tree for a set of identifiers: `TreeHoldsIds` says when they may.

`Minimize` composes the loop with `minerva_trace_minimize`. It is given the trace
of the context, or one that `min` has returned before. The walk over the list of
irrelevant calls is `todo`, the identifiers that are still ahead (the list has them in the
order of the trace, in which they grow), with `AfterRemoval` for what `LIST_FOREACH` finds
behind an element that has been taken out; a round is `TryElem`, one step for
each call of the trace (`SkipCall`, `ReplayReturns`, `ReplayCrashes`,
`ReplayKilled`), and `RoundEnds` or the jump (`Crashed`). The target is
deterministic here too: a call's outcome is a function of the calls before it,
and `known` is the part of that function the session and the rounds have shown.
A ^C is taken for a crash (`SigintAsCrash`), or jumps where no round is in
progress (`SigintAstray`: undefined behaviour, where the model stops).

`Dict` is the dictionary, a list of nodes with the newest first. `Repl` is the shell: a line is read, its arguments are looked up, the command is
called, its result bound to a name, and the line cleaned up, each a step of
`minerva_repl_eval_line`. Values are bound to names in a dictionary whose insertion
destroys what the name was bound to, and share contexts by reference counts. A
context is here a pool's next identifier and the identifiers of a trace; what the
loop, a play or a minimization may do is taken from the other modules: any number
of calls, any part of a trace, the end of the process (`Dies`). `Sharing` is what the
shell promises its user, without values, nodes and counts: names for contexts that
they may share, contexts that exist as long as a name or a result at hand leads to
them, traces that only get longer. `ImplementsSharing` is this specification with a
name's context read off its value (`Promise` in `Repl`).

`TaskQueue` is the server (`server.py`, `TaskServer`) and its workers (`TaskWorker`,
`worker.py`, `compare-worker.py`), with the sockets in between. The server is a
loop: look whether the list of tasks is empty (`CheckTasks`), serve one request
(`HandOutTask`, `HandOutCompare`, `QueueEmpty`, `TakeResult`), store the result if it
was one (`Store`). A worker asks, waits, works, sends its result, waits for the
acknowledgement; a compare worker lists the directories of a target and then
reads them one by one, while further results may be stored. ZeroMQ is external: a
REQ socket sends one request and waits for its reply, a REP socket answers the
request it has taken.

`MiCompile` is the target compiler: the stack of files still to read (`ReadFile`,
`ReadFails`, `AllRead`), the reachability check with a step for each turn of its for
loop (`CheckFunction`) and of the while loop around it (`CheckRound`), and the
headers and the table that are written (`Compile`). Its input, the project's files, is
chosen in the initial state; its output is what the constants of `FuncTable` stand
for. Properties compare the result with reference definitions: the text expanded
in place (`Expanded`); sets of inputs each of which includes another one of the set or
cannot be read (`Traps`), or among which nothing is missing (`Circles`); and sets
of functions that block each other (`Uncallable`).

`FuzzLoopInv` holds the inductive invariants of the loop. The proofs are in
`FuzzLoop_proofs` (the loop and its refinement of `CallLog`), `Trace_proofs`
(`TracePlay`, `Session` and `Minimize`, which build on the loop's proofs),
`Repl_proofs`, `TaskQueue_proofs`, `MiCompile_proofs`, `RBTree_proofs` (what walks and
stores do to a tree) and `VarPool_proofs`, which builds on it. Except for
`FuzzLoopInv`, they also hold the invariants they are about. `SeqLemmas` has the
lemmas on sequences and iterations that several of them use.
`MCFuzz`, `MCPlay`, `MCSession`, `MCPool`, `MCMinimize`, `MCRepl`, `MCQueue` and
`MCMiCompile` are the small instances TLC uses.

### What the model abstracts

* In `RBTree` an element is its identifier, and a loop that follows links is a function
  iterated to its end (`Iterate`); a loop that would not end has no value.
* Outside `VarPool` the trees are sets of identifiers, and a draw by rejection is the choice of an acceptable variable, or `Redraw` for ever
  when there is none.
* Outside `VarPool`, storing the new identifier and inserting the variable are one
  step, and so is `minerva_trace_record`; a ^C inside the insertion of a list, or
  inside `malloc`, is not modelled.
* In `VarPool` a copy of an element's four fields is four stores. After a ^C that has
  left links and parents in disagreement, searches and walks are looked at, but
  the next insertion or removal is not (`Astray`); after the first variable that
  is in no tree and in no hand, nothing new is made (`InBounds`).
* The splay trees of `tree.h` are never instantiated and not modelled.
* The counters of successes and failures are derivable from `fate`.
* Values, their memory (`F_VAR_ALLOC`) and what the target computes are
  abstracted to `Outcomes`.
* Locals read after `longjmp` have the values they had in memory: the build is
  `-O0` (`mk/config.mk:20`). Integer division by zero raises SIGFPE, as on x86.
* Identifiers are unbounded naturals, not `unsigned int`.
* A ^C in `fuzz` may lose an identifier (it was issued and not recorded);
  `Repl`, for which a trace is its identifiers, does not track it.
* A minimization of a trace whose identifiers do not fit its arrays, or which has
  no call at all, has undefined behaviour: `MinUndefined` and, in `Repl`, `Dies`.
  `minerva_trace_minimize_naive` is called nowhere and not modelled.
* Identifiers are written and read in decimal, so that a number is one piece of a
  line. Names of 128 and argument lists of 512 characters and more, which `sscanf`
  would cut, are left out, as are files edited by hand, and a first line that was
  cut, whose buffers nothing was ever written to (`ReadsGarbage`). A ^C in the
  middle of a number is taken for one behind it or before it. `sscanf` from a
  buffer into itself does what glibc does: it reads ahead of what it writes.
  In `Repl` a trace comes back as it was saved.
* In `MiCompile` a file is a sequence of declarations and a type a sequence of
  words. A syntax error, from which the parser generator recovers by dropping
  tokens, is left out, except for the empty file; so is the text of the wrappers,
  of the type enumeration and of the stringify table.
* In `TaskQueue`, a message is what it says: malformed ones, which no worker sends,
  and the contents of result files are left out; so is the pause before a worker
  asks again. A restart of the server is not modelled: with `RUN_TS` constant it
  would store into the directories of the run before.
* No target marks two arguments of a function DESTROY, so `DestroyIsUnique`
  (two DESTROY arguments of one type are UNIQUE) is assumed of the table.

## 3. The runs

The target of `MCFuzz` makes handles (`new`, `join`), uses them (`use`, which may
crash), and destroys them (`join` with a plain argument before a UNIQUE DESTROY
one; `pair` with two UNIQUE DESTROY ones); `mut` is a mutator. The target of
`MCPlay` and `MCSession` is a smaller one of the same kind, with a mutator and a
function whose name begins with another's, and so is that of `MCMinimize`: a
handle is made, used by a call that may crash, and destroyed. `MCRepl` has two
names, one of them the `_` that results get when none is given, and for each
command the lines its types allow and one they do not. `MCQueue` has four tasks of
two targets, one worker of each of two systems, and two compare workers; two
results of one target have the same seed, and so share a directory. `MCMiCompile`
has every project in which a main file includes up to two times one of two
others, one of them in two directories, and these may be missing, empty, or
include each other; and every file of three functions on two types, one of them
also `const`.

| run | what it asks | bounds |
|---|---|---|
| `fuzz_sigint` | with ^C at any step: `TypeOK`, `DriftBoundedBySigints`, `LenNeverWraps`, `SelectionSucceeds`, `ArgsAlive`, `IdsIssuedOnce`, `DestroyedNeverReused` | 3 runs of the loop, 3 calls, 2 ^C |
| `fuzz_clean` | without ^C: `CrashIsLastCall`, the refinement `ImplementsCallLog`, and `LoopEnds` | 3 runs, 4 calls |
| `session` | two processes and a file, ^C in the loop, in the play and while the file is written: `SessionTypeOK`, `ReplayReproduces`, `CleanSessionIsIntact`, `ReplayRebuildsPool`, `RestoreGivesBack` | 2 runs, 4 calls, 2 ^C, 1 play; `-M` shares 2 to 1 |
| `pool` | the pointers of one tree: `PoolTypeOK`, `TreeStaysRedBlack`, `TreeHoldsIds`, `SearchesAgree`, `GetFinds`, `LeavesNothing` | 6 identifiers, 2 of them asked for by a trace again and again, 1 ^C |
| `minimize` | `MinTypeOK`, `MinReproducible`, `MinShrinks`, `MinEnds`, under `FairMinSpec` | 2 runs, 4 calls; 1 minimization, with a limit of one round or none, 2 ^C in it |
| `repl` | `RefsCountValues`, `ValuesBoundOnce`, `ArgsOutliveLine`, and the refinement `ImplementsSharing` | 3 contexts, 4 values, 1 call per command, 2 calls per trace |
| `queue` | `QueueTypeOK`, `TasksAccounted`, `ComparisonMissesFew`, `ComparedOnce`, `ResultsArrive`, `TargetsCompared`, under `FairQueueSpec` | 4 tasks, 4 workers, 1 death (besides the exceptions of compare workers) |
| `micompile` | `MiTypeOK`, `OutputIsComplete`, `IncludedComeFirst`, `UnreachableFound`, `MiEnds`, under `FairMiSpec` | projects of up to 4 files, files of 3 functions, 8 files read |
| `v_unique` | a comment the code does not keep: `UniqueArgsUnique` | violated |
| `v_sigint_blocked` | "setup handlers ... during fuzzing": `SigintHandledInLoop` | violated |
| `v_play_find` | the assertion of the replay: `ReplayFindsArgs` | violated |
| `v_min_ids` | "assuming all var ids to be ... less then calls_num": `IdsBelowCallsNum` | violated |

Why the bounds are enough. Three calls make a handle, use it and destroy it, or
leave a variable to a later run; a fourth makes two handles meet in `join` and
lets the session go on after a crash. Two ^C are needed for a counter to be
torn twice, in the same or in opposite directions, or for the second ^C to hit
the handler's panic; three entries of the loop let the state a ^C left behind
be used, torn again and used again. The proofs of section 4 remove the bounds
for the invariants they cover. A minimization of four calls has two calls that may
be irrelevant to a crash, one of which may depend on the other, and a crash that
may move to an earlier call when one is removed; two ^C hit two rounds, or the
panic. Six variables are
the least in which every case of `RB_REMOVE_COLOR`, on both sides, occurs, and the
upper half of a tree has a grandparent to fix; two identifiers that a trace repeats
collide with each other and with those the pool issues. One line that is cut needs
one line before it, and a function with two arguments; iterations of 1 and 3 with
a share of 2 are the two cases of `iter/128`, no iteration (for ever) and some. In the shell, three contexts and four values let a context be shared by
values under two names, both rebound in either order, while a third is made. In
the queue one task has the system of one worker and three that of the other, so
that a worker is given a task from behind the head of the list; the target with one task is the
one that a comparison can overtake. A target that runs for ever holds the worker of
its system, and the other system goes on; that a second worker of the same system would
go on, too, is part of `ResultsArrive`, and takes more workers than this run has. Eight files read are more than any project
without a cycle has to read; three functions are a chain of two passes in the
wrong order, or two that block each other beside a third.

What the passing runs show. A ^C moves a counter off its tree by at most one,
nothing else does, and however often that happens the counter never goes below
zero: each step down was counted when the call was selected. The choice of
arguments meets an empty tree, or draws for ever, only for a type whose counter a
^C has left above its tree: whatever else a ^C has torn, `minerva_func_qualify` is
enough. Without ^C the counters are exact, and the whole loop behaves as a log of
atomic calls. A trace which no ^C has damaged
replays exactly, to the same verdict and the same pool, although the replay
numbers its first variable by the "0 means next" convention of `minerva_var_new`
and creates a call's result before looking up its arguments.

A pool whose tree refuses a variable, because a trace asks for an identifier twice,
counts it all the same. If the call then fails, `RB_REMOVE` is given an element
without a parent: it empties the root, and all variables of the type are forgotten
(`TreeHoldsIds` names this one exception; the shell gets there by `fuzz` on a context
that `restore` or `min` has made, which appends to the old trace from identifier 0,
and a play of it). Otherwise, without ^C, the tree is a red-black tree whenever an
operation is over. With one ^C behind any store, going down the tree stays in
order, because the macros cut an element off before they link it elsewhere: variables
may be lost, but if there is a root, `minerva_var_get` finds one whatever it draws. Parents may be
wrong, and then `RB_FOREACH` may miss variables or not end (`SearchesAgree` is about
trees with right parents); colors may be wrong, and then a later insertion or
removal may follow a NULL, as the first insertion after a ^C that left the root red
does. What a second process restores is what the first one saved, up to the line
a ^C has cut; that line comes back with its identifier, and with whatever function
and arguments were left over from the line before it, or ends the process. With
`-M`, fewer than 128 iterations (`Share` in the model) make the mutating loop one
without end, which only ^C or a crash leaves.

`min` edits the list it walks and jumps out of its rounds, and still ends, only
ever shortens the trace, and returns, if no ^C disturbs it, the trace it was
given or one that plays to a crash at its end. With a target that aborts, the
second crashing round ends the process (`ReplayKilled`): `MinEnds` counts that as an
end. The shell's contexts are counted rightly whatever is typed: the only value
that is read after it was freed is that of a line which binds its result to a
name it also takes as an argument; and to its user a name is a context, whoever
shares it. In the queue no task is in two places, a
worker that dies takes at most one with it, no target is compared twice, and a
comparison lacks at most one result for each worker that can have a task of its
system at the time. While no worker dies, a result arrives unless its own target
runs for ever, or all workers of its system are held by targets that do
(`ResultsArrive`). A compare worker
that asks too early ends with an exception and takes the comparison with it:
`TargetsCompared` says that no more targets than that are lost, as long as each
system keeps a worker whose targets end; without one, tasks stay in the list and
no comparison starts. The compiler's test
for a cycle of includes never holds (it compares a name with pairs): it then reads
on for ever, but writes nothing. The reachability check finds exactly the
functions that cannot be called by the types as declared. The table drops `const`,
so what passes can be called; the check is stricter than it would have to be, and
stops a target in which an argument is `const` and no function returns the type
with the `const`.

The four violated statements are described under "findings" in `PROJECT.json`:

1. a plain argument that stands before a UNIQUE one can be the same variable;
2. on Linux the first ^C of a session leaves SIGINT blocked, so later loops
   cannot be interrupted (`SavesMask` is FALSE there, TRUE on the BSDs);
3. ^C between the creation of a variable and its recording makes a trace whose
   replay fails an assertion;
4. what `min` returns keeps its identifiers and has fewer calls, so `min` of it
   writes beyond its arrays.

Fairness. `FairSpec` assumes weak fairness of `LoopStep` only: the process is
scheduled, and a call of the target returns or crashes. The user's steps, ^C
among them, are never assumed to happen. `LoopEnds` is for loops with an
iteration count and without ^C; a loop without a count is not meant to end.
`FairMinSpec` assumes the same of the steps of a minimization (`MinStep`), ^C
excepted, and `FairMiSpec` of the compiler. `FairQueueSpec` assumes weak fairness of the server's own steps and of
each worker's, except the end of a target (`RunTask`): `worker.py` starts it without
`-i`, so that its loop has no bound (`main.c:74`, `minerva_loop.c:37`), and waits for it
without a timeout. That a target ends is never assumed by the specification; where a
property needs it, it is a premise of the property (`TargetsEnd`). It also assumes strong
fairness of serving each worker: the server waits in
`recv`, where any of several requests may be taken, and a REP socket takes those of
its peers in turn (`zmq` fair-queues them). Neither a death nor the stop of the
server is assumed to happen. Deadlock is checked in every run; a process that has exited stutters (`Halted`),
and so does a loop that has reached `MaxCalls`.

## 4. The proofs

Each theorem holds for every value of the constants that satisfies the assumptions
of the module it is about: for `FuzzLoop`, every target table that satisfies
`TableType` and `DestroyIsUnique`; for `Repl`, every set of names, every set of lines
and every bound; for `TaskQueue`, every list of tasks, any number of workers and
any number of deaths (`QueueConstants`: no task is listed twice); for `MiCompile`, every
set of projects, of finitely many files each, and every include path; for
`VarPool`, every finite set of identifiers, those a trace asks for among them, and
any number of ^C up to the first that loses a variable for good (`InBounds`); an element
that nothing leads to any more has no influence on the tree. `TracePlay`, `Session` and `Minimize` add bounds on how often there is
a play, a save or a min, which may be any number.

| module | theorem | property |
|---|---|---|
| `FuzzLoop_proofs` | `TypeCorrect` | `TypeOK` |
| | `CountersNeverWrap` | `LenNeverWraps` |
| | `CallArgsAlive` | `ArgsAlive` |
| | `IdentifiersIssuedOnce` | `IdsIssuedOnce` |
| | `DestroyedStaysDestroyed` | `DestroyedNeverReused` |
| | `CountersFollowTrees` | `DriftBoundedBySigints` |
| | `SelectionAlwaysSucceeds` | `SelectionSucceeds` |
| | `CrashedCallIsLast` | `CrashIsLastCall` |
| | `LoopImplementsLog` | `ImplementsCallLog`, in behaviours without ^C |
| `Trace_proofs` | `CleanTraceIsIntact` | `CleanSessionIsIntact` |
| | `PlayReproduces` | `ReplayReproduces` |
| | `PlayRebuildsPool` | `ReplayRebuildsPool` |
| | `SessionTypeCorrect` | `SessionTypeOK` |
| | `RestoredIsSaved` | `RestoreGivesBack` |
| | `SessionTraceIsIntact` | `CleanSessionIsIntact` |
| | `SessionReproduces` | `ReplayReproduces` |
| | `SessionRebuildsPool` | `ReplayRebuildsPool` |
| | `MinTypeCorrect` | `MinTypeOK` |
| | `MinimizedTracePlays` | `MinReproducible` |
| | `MinOnlyShrinks` | `MinShrinks`, an action property |
| `Repl_proofs` | `ReplTypeCorrect` | `ReplTypeOK`, which the run leaves to the proof |
| | `ReferencesCounted` | `RefsCountValues` |
| | `ValuesHaveOneName` | `ValuesBoundOnce` |
| | `ArgumentsOutliveTheLine` | `ArgsOutliveLine` |
| | `ShellImplementsSharing` | `ImplementsSharing` |
| `TaskQueue_proofs` | `QueueTypeCorrect` | `QueueTypeOK` |
| | `TasksAreAccounted` | `TasksAccounted` |
| | `TargetsComparedOnce` | `ComparedOnce` |
| | `ComparisonsMissFew` | `ComparisonMissesFew` |
| `MiCompile_proofs` | `MiTypeCorrect` | `MiTypeOK` |
| | `OutputComplete` | `OutputIsComplete` |
| | `CheckIsExact` | `UnreachableFound` |
| | `OrderKept` | `IncludedComeFirst` |
| `VarPool_proofs` | `PoolTypeCorrect` | `PoolTypeOK` |
| | `PoolIsTidy` | what holds with a ^C at any store (`PoolInv`) |
| | `StaysRedBlack` | `TreeStaysRedBlack` |
| | `HoldsIds` | `TreeHoldsIds` |
| | `SearchesAreRight` | `SearchesAgree` |
| | `GetAlwaysFinds` | `GetFinds` |
| | `NothingIsLeft` | `LeavesNothing` |

`SeqLemmas` has what these proofs need of sequences and their element sets:
appending, taking an element out, changing one, the least of a set of positions,
reversing, flattening a sequence of sequences; and induction as the library's set
theorems leave it within reach: a set of numbers that has 0, and with each number below n
the next, has all of them up to n (`UpTo`).

### The loop

None of the properties of `FuzzLoop` is inductive as it stands. The argument, in the order of
the invariants in `FuzzLoopInv`:

* `LenCovers` for the counters. It speaks of the counters alone, not of the trees:
  qualification found enough variables counted, so the counter covers each step
  down that the call may still make, which are the DESTROY arguments not yet counted
  (`ToCount`, with `Earlier` for the slots before them) and the result, once it
  is counted (`Own`). A ^C abandons such steps and never adds one. Equality with
  the tree is what ^C breaks, and is not needed.
* `Alive` for the arguments: slots are filled in the order of the two passes
  (`FilledInOrder`), so that when all are filled, UNIQUE slots differ from those
  before them, and the DESTROY slots, UNIQUE by `DestroyIsUnique`, from each
  other (`ChosenApart`).
* `Ids` for the identifiers (`Issued`): what is in a tree, in the frame or in the
  trace is below `curId`; results grow along the trace and trees are disjoint.
* `Destruction`: what a call has destroyed so far
  (`DestroyedSoFar`) is out of the pool, and by `Ids` an identifier that has left
  the pool never comes back, so that no later call can be given it.
* `Drifts` and `ResultLives` for the agreement of counters and trees. The two halves of
  `minerva_var_new` and of `minerva_var_destroy` are apart, so that the difference
  depends on the program counter (`Drift` allows for the half under way); each half
  moves it as the other expects because the result is in its tree until the check
  rejects it, and is none of the arguments. A ^C between the halves moves the
  difference by one, and `sigints` by one.
* `Qualified` for the selection: while arguments are chosen, the counters are what
  qualification saw. Where a counter is not above its tree, the tree of a slot has more variables
  than there are UNIQUE slots of its type before it, whose variables are all that a
  draw can collide with: by cardinality one is left.
* `CrashEnds` for the crash: the flag is set by the loop when the target has died, and
  nothing but a new entry of the loop, which resets it, records another call.

### The refinement

`LoopImplementsLog` takes the steps of `FuzzLoop` one by one. Under the mapping, all
are stutters but two: the verdict of a call (`CheckOk`, `CheckFails`), and the crash
of its target. What makes these a legal call of the log is kept from the selection
to the verdict: the arguments avoid the variables of the slots they may not share
with (`Apart`), and are in the abstract pool, which the mapping keeps as it was when
the call began, although the concrete one has lost the DESTROY arguments and
gained the result (`ArgsStay`). The log numbers its calls by position, so that
`Positions` relates a call's identifier, its place in the trace and whether it is
settled; this is where ^C, which loses identifiers, is excluded.

### The play

`PlayInv` has three parts: what the loop keeps (`LoopInv`), what a play leaves alone
(`PlayTyped`), and what a play rebuilds (`Reproduces`).

* What the loop writes is sound (`Sound`, from `TraceInv`): an argument is older
  than the result of its call, has the type of the call that made it, and was not destroyed by
  a call in between; two DESTROY arguments of a call differ.
* Without ^C, the trace explains the pool (`LogTells`): the variables in the trees are
  those that some call has made, its check accepted, and no call destroyed. The step
  from one call to the next is the refinement step of `LoopImplementsLog`, read as a
  statement about the trace.
* A play of an intact trace has, behind each call, the variables the first so many
  calls have left (`Holds`, with `Keeps` for one variable). The result is there
  before the arguments are looked up, which is harmless because arguments are older; each argument
  is found because the trace is sound (`ArgsAreFound`), the target does what it did
  (`Replayed`), and so the next call has its variables too (`KeepsNext`). The
  counters follow by cardinality (`TakenOut`). The verdict is then that of the first call that
  crashed, and at the end `Holds` and `LogTells` describe one and the same pool.

`Sound` is what a ^C cannot break, and `Intact` what it can. This is why `PlayReproduces`
asks for an intact trace and not for a session without ^C, while
`PlayRebuildsPool` needs the latter.

### The session

`SessionInv` has the play's invariants at its core, weakened where the trace is no
longer the loop's: from the moment it is saved only `Sound`, typing and, without ^C, `Kept`
are left. `FileInv` says that the file holds the first lines of the trace that was saved, the last of them
perhaps cut. Reading is proved line by line: a whole line gives back its call whatever
the buffers held before (`ReadLine`), a cut one at least its identifier. A call of which the
restored trace says how it ended is one that came back as it was made (`FileTrace`), so that
the restored trace is sound again and `ReproducesVerdict` holds of it.

The proof corrected the model in one place: `SessionTypeOK` used to bound the place of a cut by
the length of the trace, which TLC could not refute with the arguments of its small target.
It is now bounded by the pieces of the line that is being written.

### The minimization

The outcomes a minimization has seen (`known`) are a function of the calls made (`Settles`).
`RoundPlays` says what a round has replayed is a beginning of a trace that plays: its
calls have returned, their arguments were there (`AvailableIn`), and the round's pool
holds nothing that is not there behind them, so that a call whose arguments are found
can follow (`ArgsAppend`, `SurvivorAvailable`). Only the converse is not needed:
that a variable is there and the pool lacks it would do no harm. When the call crashes,
the round and this call are a trace that plays (`CrashPlays`). `RoundPart` says that a
round takes its calls from the trace in their order, which with growing identifiers
(`Grows`, from the loop's `Ids`) makes the new trace a part of the old. `Plays` and `Grows` speak of
the trace after each round, whichever elements the walk over the edited list comes to: what it
tries decides how short the result is, not whether it plays.

### The shell

`ReplInv` says that the dictionary is distinct in keys and in values (`Distinct`), that
the allocated values are those in it and the one about to be bound (`Binding`), and
that from the look-up to the binding an argument is what its name stands for
(`Arguments`). `RefsCountValues`, an equality of a counter with a cardinality, then
follows step by step: a new value on a new context is the only one that holds it,
a result that shares its argument's context adds one, a rebinding that frees a
value takes one away, and a context whose count drops to zero is held by no
allocated value, and so by none with a name. A line can meet a freed value only in
its clean-up (`CleanArgs`), and only where the name it binds is one of its arguments.

`ShellImplementsSharing` rests on one equation, `LiveIsLed`: by the counts and `Binding`, the
contexts that are allocated are those a name or the pending result leads to. It holds
before and after every step, so that a step that frees a value collects just what
`Sharing` collects (`CollectMaps`). A command maps to `Make`, `Share` or `Extend`, by
whether it has a result and whose context that is; a binding, with the destruction of
the value the name had, to `Bind`; and clearing a name to `Drop`. All other
steps, the release of a line's arguments among them, are stutters.

### The task queue

`QueueInv` begins with the protocol: each node has exactly one of a job, a request and
a reply, fitting its state (`WorkerStep`, `ComparerStep`), and the server holds a
result only while it stores it (`ServerStep`). `TaskInv` counts the lost tasks without
counting: there is an injection from the tasks that are out to workers of their
system (`Takers`), the holder of a task being its worker, and a task that nobody
holds having a worker that is gone. `Misses` carries the same injection into a
comparison: when a compare worker lists the directories, the list of tasks is empty, so
that every result that is missing was taken by a worker of its own; results that
arrive later only shrink the set. `Comparisons` follows a target from the list to the
one worker that has it.

### The target compiler

`OutputComplete` is about what never happens, and needs only `StackLeads`: if the main
file is in a trap, a file of that trap is on the stack, since a file of it that is read
puts another one there. The stack is then never empty, whatever is read,
and one that cannot be read ends the compiler.

`CheckIsExact` has two directions. `NoneUnblocked`: a type that has been reached is made
outside of every set of functions that block each other, so that none of these is
marked, by the types as declared or as compiled (dropping qualifiers makes types
equal, never different). `PassSettles`: as long as a pass has changed nothing, the
functions it has passed are marked or lack an argument; at its end that is all of
them (`VerdictTrue`), and those not marked then block each other
(`LeftOverBlocks`). A change behind a function unsettles it, but also sets the flag.

`OrderKept` needs what a file contributes to be a value, although `Expanded` computes
it in as many rounds as there are inputs. A solution gives each input its text
behind the solution of its includes (`Tells`). As long as files are on the stack,
for every solution: the main file's declarations, without comments, are those of the
files on the stack, from its bottom, followed by those read so far, turned round
(`TextKept`). A round of `Expanded` makes at least one more input stable: if none of those
that are not were to become so, each would include another one, which is a trap, and
the main file is in none once a table is written (`RoundStabilizes`). After as many rounds
as there are inputs `Expanded` is therefore a solution (`ExpandedSolves`), and what is left
is that picking the declarations of a kind commutes with turning round, joining
and flattening.

### The pool

`PoolInv` is what holds with a ^C at any store, `Uncut` what holds until the first one.

Shape. What a walk returns is the value of an `Iterate`, which is there because each step
goes from an element to one of its subtree, whose elements are fewer (`Below`). A tree is
a search tree if each element has a set of keys that bounds what stands below it, such
that the sets fit each other link by link (`Certified`). That turns a statement on
paths into one on links, and a store changes one link: for every prefix of the
stores of a rotation, of linking an element, of taking one with at most one child out
and of putting one in another's place, there is a certificate (`RotatedBy`, `LinkedBy`,
`UnlinkedBy`, `ReplacedBy` say what the whole comes to). Hence `Tidy`: wherever the stores are
cut off, the tree is a search tree and leads to no freed element. That the links up answer
the links down is right only at the end of the stores, and so it is kept for the
operations at work and lost by a ^C (`Working`).

Colors. A tree is colored rightly if there is a function that gives each element its
black height, such that each link is right by itself (`Edge`). In the loops there is an
exception to it: one red element below a red one in `RB_INSERT_COLOR`, one link that is a black
element short in `RB_REMOVE_COLOR` (`Colored`). A round, taken with its
rotations, moves the exception up or removes it (`InsertCorner`, `UncleTurn`; `Lacking`,
`BlackSibling`, `FarTurn`), each case for both sides at once; a short link has a
sibling, so that no NULL is followed. `Even` says where the exception is at each
point of an operation, and `DepthIs` ties the heights to those the property counts.

Contents. `Held` says which keys are in the tree at each point and `Counted` what `len`
counts. The walk of `SearchesAgree` goes from an element to the next larger one: what is
outside of an element's subtree is below or above all of it (`OutsideOrder`), and
going up ends (`UpEnds`). It rises, so it meets nobody twice, and as it ends only behind
the largest it misses nobody.

The proof of `TreeHoldsIds` keeps the exception of section 3 explicit: an element without a
parent that is removed empties the tree, and `hurt` records it.

TLC checked the properties on the runs' instances before they were proved, and, up to the
task queue, the invariants too. Those of the last two components speak in part of
every function of a set too large to enumerate (`TextKept`, `Colored`, `Certified`).

### Only model-checked

Liveness under fairness, which TLAPS does not prove here: `LoopEnds`, `MinEnds`,
`ResultsArrive`, `TargetsCompared`, `MiEnds`. Every invariant and every action
property of the passing runs, and both refinements (`ImplementsCallLog` in behaviours
without ^C), are proved.

The provers cannot instantiate an induction theorem that takes an operator as a
parameter. The loops over a tree or a file are therefore modelled as recursive functions and
iterations, and induction over them is induction over a set of numbers or over the
cardinality of a finite set.

## 5. The plan

What is left, in this order:

1. An abstract specification of `TaskQueue`: a bag of tasks each of which is done once
   or lost with its worker, and a proof that the server and its workers implement it.
2. `MiCompile` composed with `FuzzLoop`: every function the check lets through is
   called in some session, with UNIQUE and DESTROY arguments.
3. A refinement from `VarPool` to the set of identifiers that `FuzzLoop` takes a tree
   for, in place of the invariants that now relate the two.

Built so far, in this order: `FuncTable`, `FuzzLoop`, `CallLog` and `FuzzRefinement`,
`TracePlay`, `FuzzLoopInv` and `FuzzLoop_proofs`, `Minimize`, `Repl`, `TaskQueue`,
`MiCompile`, `RBTree` and `VarPool`, `Session`, `Dict`, `Sharing`; and the proofs,
`Repl_proofs`, `TaskQueue_proofs`, `Trace_proofs`, `MiCompile_proofs`,
`RBTree_proofs` and `VarPool_proofs`.
