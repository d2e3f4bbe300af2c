------------------------------ MODULE Session ------------------------------
(***************************************************************************)
(* Two processes and a file between them (core/main.c and the saving and   *)
(* restoring half of core/minerva_trace.c).  The first one fuzzes, driven  *)
(* by main or from the shell, and saves its trace (-T, trace_save); the    *)
(* second one restores the file and plays it (-p), and may save it again.  *)
(* A ^C may end the first one while it writes the file.                    *)
(*                                                                         *)
(* The second process has no loop.  The loop's pool keeps what it held in  *)
(* the first process, for comparison.                                      *)
(***************************************************************************)
EXTENDS TracePlay, SequencesExt

CONSTANTS
    Kinds,    \* what the first process may be: "shell", "main", or "mutate" (-M)
    Share,    \* the loop gets so many iterations for one of mutation
    Shorter   \* Shorter[f]: the functions whose names f's name begins with

ASSUME SessionConstants ==
    /\ Kinds \subseteq {"shell", "main", "mutate"}
    /\ Share \in Nat \ {0}
    /\ Shorter \in [Func -> SUBSET Func]

VARIABLES
    kind, asked,   \* the command line: -r or -M, and -i
    proc,          \* what the processes are at
    file,          \* the calls in the file, and how many pieces the last line has
    made           \* the trace that was saved (history)

cmdline == <<kind, asked>>
sessionVars == <<allVars, cmdline, proc, file, made>>

\* A line is the identifier, the name of the function in two pieces, and the
\* arguments.
Pieces(call) == 3 + Len(call.args)
Whole(lines) == [lines |-> lines, last |-> IF lines = <<>> THEN 0 ELSE Pieces(Last(lines))]
IsWhole(f) == f = Whole(f.lines)

SessionInit ==
    /\ PlayInit
    /\ kind \in Kinds /\ asked \in IF kind = "shell" THEN {0} ELSE Iters
    /\ proc = "fuzz" /\ file = Whole(<<>>) /\ made = <<>>

-----------------------------------------------------------------------------
(* main *)

\* 0 iterations, in C, are as many as it takes.
Shared(n) == IF n < Share THEN Forever ELSE n \div Share

\* One loop, or with -M fuzzing and mutation in turn until a loop reports a crash
MainLoop ==
    /\ proc = "fuzz" /\ kind # "shell" /\ ppc = "off"
    /\ starts = 0 \/ (kind = "mutate" /\ ~crash)
    /\ LET mode == starts > 0 /\ ~mutate
       IN  Start(IF mode THEN Shared(asked) ELSE asked, mode)
    /\ UNCHANGED <<playVars, cmdline, proc, file, made>>

ShellLoop(iter, mode) ==
    /\ proc = "fuzz" /\ kind = "shell" /\ ppc = "off"
    /\ Start(iter, mode)
    /\ UNCHANGED <<playVars, cmdline, proc, file, made>>

Loop ==
    /\ proc = "fuzz"
    /\ LoopStep \/ Sigint \/ SigintIdle \/ (kind = "shell" /\ Quit) \/ Halted
    /\ UNCHANGED <<playVars, cmdline, proc, file, made>>

\* main is at "out", or the user gives the command.
AtSave ==
    \/ /\ proc = "fuzz" /\ pc = "idle" /\ starts > 0
       /\ kind # "mutate" \/ crash
    \/ proc = "play" /\ pc = "idle" /\ ppc = "off" /\ (pidx > 0 \/ calls = <<>>)

-----------------------------------------------------------------------------
(* minerva_trace_save *)

Save ==
    /\ AtSave
    /\ file' = Whole(calls) /\ made' = calls
    /\ proc' = "saved"
    /\ UNCHANGED <<allVars, cmdline>>

\* sigint_handler of main.c: exit writes out what the file's buffer holds.
SaveCut(n) ==
    /\ AtSave /\ ~blocked /\ sigints < MaxSigint
    /\ sigints' = sigints + 1
    /\ \E m \in 1 .. Pieces(calls[n]) : file' = [lines |-> SubSeq(calls, 1, n), last |-> m]
    /\ made' = calls
    /\ proc' = "saved"
    /\ UNCHANGED <<loopOnly, pc, segv, exitLoop, blocked, playVars, cmdline>>


\* The file cannot be opened: "nothing saved".
SaveFails ==
    /\ AtSave
    /\ proc' = "saved"
    /\ UNCHANGED <<allVars, cmdline, file, made>>

-----------------------------------------------------------------------------
(* minerva_trace_restore *)

\* Mutant of ReadArgs: args_string is not moved on.
ReadArgsInPlace(f, text, stale) ==
    [i \in Slots(f) |-> IF text # <<>> THEN Head(text) ELSE stale]

\* The second sscanf takes a number off args_string and moves the rest of it to
\* its front.  Behind the last number nothing is moved, so that it is read again;
\* stale is what the line before has left there.
ReadArgs(f, text, stale) ==
    [i \in Slots(f) |-> IF i <= Len(text) THEN text[i]
                        ELSE IF text # <<>> THEN Last(text) ELSE stale]

\* What is left behind a line: its last number, or none, and then the identifiers
\* stay the zeros they were allocated with.
LeftBehind(call) == IF call.args = <<>> THEN 0 ELSE Last(call.args)

\* The calls a line of so many pieces may be read as, behind the line before; none
\* where no function has the name.  What sscanf does not find keeps the value it
\* had for the line before.
ReadLine(prev, call, m) ==
    LET f == CASE m = 1 -> {prev.func}
               [] m = 2 -> Shorter[call.func]
               [] OTHER -> {call.func}
    IN  {[func |-> g, result |-> call.result,
          args |-> ReadArgs(g, SubSeq(call.args, 1, m - 3), LeftBehind(prev))] : g \in f}

\* A first line that was cut leaves buffers that nothing was ever written to.
ReadsGarbage == ~IsWhole(file) /\ Len(file.lines) = 1

Restored ==
    LET lines == file.lines
        read(k) == ReadLine(lines[IF k = 1 THEN 1 ELSE k - 1], lines[k],
                            IF k = Len(lines) THEN file.last ELSE Pieces(lines[k]))
    IN  {trace \in [DOMAIN lines -> UNION {read(k) : k \in DOMAIN lines}] :
            \A k \in DOMAIN lines : trace[k] \in read(k)}

\* The second process.  What became of a call that the file has whole is known.
Restore ==
    /\ proc = "saved" /\ ~ReadsGarbage
    /\ calls' \in Restored
    /\ fate' = [k \in DOMAIN calls' |-> IF calls'[k] = made[k] THEN fate[k] ELSE "recorded"]
    /\ pidx' = 0 /\ pnew' = Unset /\ verdict' = "none"
    /\ left' = 0 /\ mutate' = FALSE /\ starts' = 0
    /\ func' = CHOOSE f \in Func : TRUE
    /\ argv' = <<>> /\ newId' = Unset /\ doomed' = {}
    /\ blocked' = FALSE /\ crash' = FALSE
    /\ proc' = "play"
    /\ UNCHANGED <<poolVars, pc, segv, exitLoop, sigints, ppc, poolP, plays, cmdline, file,
                   made>>

\* minerva_func_find gives NULL, and its arg_num is read.
RestoreDies ==
    /\ proc = "saved" /\ (ReadsGarbage \/ Restored = {})
    /\ proc' = "dead"
    /\ UNCHANGED <<allVars, cmdline, file, made>>

Play ==
    /\ proc = "play"
    /\ \/ pidx = 0 /\ PlayStart
       \/ PlayNew \/ PlayFind \/ PlayAbort
       \/ \E outcome \in Outcome : PlayReturns(outcome)
       \/ PlayCrashes \/ PlayDone \/ PlayRevert \/ PlaySigint
    /\ UNCHANGED <<cmdline, proc, file, made>>

\* Both processes have ended, or a bound is reached.
Stopped ==
    /\ \/ proc = "dead" \/ pc \in Dead
       \/ proc = "play" /\ pidx = 0 /\ plays = MaxPlays
       \/ proc = "fuzz" /\ kind = "mutate" /\ pc = "idle"
    /\ UNCHANGED sessionVars

SessionNext ==
    \/ MainLoop
    \/ \E iter \in Iters, mode \in Modes : ShellLoop(iter, mode)
    \/ Loop
    \/ Save
    \/ \E n \in DOMAIN calls : SaveCut(n)
    \/ SaveFails
    \/ Restore \/ RestoreDies
    \/ Play
    \/ Stopped

SessionSpec == SessionInit /\ [][SessionNext]_sessionVars

-----------------------------------------------------------------------------
(* Properties *)

SessionTypeOK ==
    /\ PlayTypeOK
    /\ proc \in {"fuzz", "saved", "play", "dead"} /\ kind \in Kinds /\ asked \in Iters \cup {0}
    /\ Len(file.lines) <= Len(made)
    /\ file.last \in IF file.lines = <<>> THEN {0} ELSE 1 .. Pieces(Last(file.lines))

\* What a process restores is what another one saved, call by call, up to where a
\* ^C cut the file; the call that was cut keeps at least its identifier, though
\* not always its function and arguments (minerva_trace.c:176-189).
RestoreGivesBack ==
    proc = "play" =>
        /\ Len(calls) = Len(file.lines)
        /\ \A k \in DOMAIN calls :
              /\ calls[k].result = made[k].result
              /\ k < Len(calls) \/ IsWhole(file) => calls[k] = made[k]
        /\ sigints = 0 => calls = made
=============================================================================
