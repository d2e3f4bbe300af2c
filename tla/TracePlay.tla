----------------------------- MODULE TracePlay -----------------------------
(***************************************************************************)
(* minerva_trace_play: the trace of a context, whatever runs and ^C made   *)
(* it, is played on a fresh pool (core/minerva_trace.c:62-123, called from *)
(* play in the shell and from main -p).  Playing takes place while the     *)
(* loop is idle and shares its signal handlers.                            *)
(*                                                                         *)
(* The build is -O0 (mk/config.mk:20), so the local "call" that is read   *)
(* after longjmp holds the value it had when the signal came.              *)
(***************************************************************************)
EXTENDS FuzzLoop

CONSTANT MaxPlays   \* bound: how often a trace is played

ASSUME PlayConstants == MaxPlays \in Nat

VARIABLES
    ppc,       \* where minerva_trace_play is; "off" outside it
    ptree, plen, pcurId,   \* the pool it plays on
    pidx,      \* the position of "call" in the trace
    pnew,      \* the identifier of new_var
    verdict,   \* r
    plays

poolP == <<ptree, plen, pcurId>>
playVars == <<ppc, poolP, pidx, pnew, verdict, plays>>
allVars == <<vars, playVars>>
\* Of the loop's variables a play touches only those of the signal handlers.
loopOnly == <<poolVars, traceVars, loopVars, frameVars, crash>>

PlayInit ==
    /\ Init
    /\ ppc = "off" /\ pidx = 0 /\ pnew = Unset /\ verdict = "none" /\ plays = 0
    /\ ptree = [t \in Type |-> {}] /\ plen = [t \in Type |-> 0] /\ pcurId = 0

PlayStart ==
    /\ pc = "idle" /\ ppc = "off"
    /\ calls # <<>>
    /\ plays < MaxPlays
    /\ plays' = plays + 1
    /\ ptree' = [t \in Type |-> {}] /\ plen' = [t \in Type |-> 0] /\ pcurId' = 0
    /\ pidx' = 1 /\ pnew' = Unset /\ verdict' = "none"
    /\ segv' = 0 /\ exitLoop' = 0
    /\ ppc' = "new"
    /\ UNCHANGED <<loopOnly, pc, blocked, sigints>>

Current == calls[pidx]

\* Mutant of PlayNew: the identifier is taken before the counter is stepped.
PlayNewPreStep ==
    /\ ppc = "new" /\ pidx <= Len(calls)
    /\ LET t == RetType[Current.func]
           id == IF Current.result = 0 THEN pcurId - 1 ELSE Current.result
       IN  /\ pnew' = id
           /\ pcurId' = IF Current.result = 0 THEN pcurId + 1 ELSE pcurId
           /\ plen' = [plen EXCEPT ![t] = @ + 1]
           /\ ptree' = [ptree EXCEPT ![t] = @ \cup {id}]
    /\ ppc' = "find"
    /\ UNCHANGED <<vars, pidx, verdict, plays>>

\* minerva_var_new before the arguments are looked up; identifier 0 means
\* "the next one".  An identifier already in the tree is not inserted again.
PlayNew ==
    /\ ppc = "new" /\ pidx <= Len(calls)
    /\ LET t == RetType[Current.func]
           id == IF Current.result = 0 THEN pcurId ELSE Current.result
       IN  /\ pnew' = id
           /\ pcurId' = IF Current.result = 0 THEN pcurId + 1 ELSE pcurId
           /\ plen' = [plen EXCEPT ![t] = @ + 1]
           /\ ptree' = [ptree EXCEPT ![t] = @ \cup {id}]
    /\ ppc' = "find"
    /\ UNCHANGED <<vars, pidx, verdict, plays>>

ArgsFound ==
    \A i \in Slots(Current.func) :
        Current.args[i] \in ptree[TypeOf(Current.func, i)]

PlayFind ==
    /\ ppc = "find" /\ ArgsFound
    /\ ppc' = "run"
    /\ UNCHANGED <<vars, poolP, pidx, pnew, verdict, plays>>

\* Mutant of PlayLongjmp: the last call is taken to be one earlier.
PlayLongjmpOffByOne ==
    /\ ppc' = "over"
    /\ verdict' = IF pidx = Len(calls) - 1 THEN "last" ELSE "middle"

\* longjmp to minerva_trace_play, from either handler: no test of segv.
PlayLongjmp ==
    /\ ppc' = "over"
    /\ verdict' = IF pidx = Len(calls) THEN "last" ELSE "middle"

\* assert(args[i] != NULL): abort raises SIGABRT, whose handler is the loop's.
PlayAbort ==
    /\ ppc = "find" /\ ~ArgsFound
    /\ segv' = 1 /\ PlayLongjmp
    /\ UNCHANGED <<loopOnly, pc, exitLoop, blocked, sigints, poolP, pidx, pnew, plays>>

\* The target is taken to be deterministic: a call all of whose predecessors
\* ran to their end, as it did itself, does on replay what it did then.
Replayed(k) ==
    IF (\A j \in 1 .. k - 1 : fate[j] \in {"ok", "fail"}) /\ Settled(k)
    THEN {fate[k]} ELSE Outcomes[calls[k].func]

\* Mutant of PlayReturns: a rejected result is kept.
PlayReturnsKeepsResult(outcome) ==
    /\ ppc = "run"
    /\ outcome \in Replayed(pidx) \cap {"ok", "fail"}
    /\ LET Dying(t) == {i \in DestroySlots(Current.func) : TypeOf(Current.func, i) = t}
       IN  /\ ptree' = [t \in Type |-> ptree[t] \ {Current.args[i] : i \in Dying(t)}]
           /\ plen' = [t \in Type |-> plen[t] - Cardinality(Dying(t))]
    /\ pidx' = pidx + 1
    /\ ppc' = "new"
    /\ UNCHANGED <<vars, pcurId, pnew, verdict, plays>>

\* minerva_call: the target returns, arguments are destroyed, and the result
\* too when the check function rejects it.
PlayReturns(outcome) ==
    /\ ppc = "run"
    /\ outcome \in Replayed(pidx) \cap {"ok", "fail"}
    /\ LET f == Current.func
           Dying(t) == {i \in DestroySlots(f) : TypeOf(f, i) = t}
           fails(t) == outcome = "fail" /\ t = RetType[f]
       IN  /\ ptree' = [t \in Type |-> ptree[t]
                           \ ({Current.args[i] : i \in Dying(t)}
                              \cup IF fails(t) THEN {pnew} ELSE {})]
           /\ plen' = [t \in Type |-> plen[t] - Cardinality(Dying(t))
                                       - IF fails(t) THEN 1 ELSE 0]
    /\ pidx' = pidx + 1
    /\ ppc' = "new"
    /\ UNCHANGED <<vars, pcurId, pnew, verdict, plays>>

PlayCrashes ==
    /\ ppc = "run"
    /\ "crash" \in Replayed(pidx)
    /\ segv' = 1 /\ PlayLongjmp
    /\ UNCHANGED <<loopOnly, pc, exitLoop, blocked, sigints, poolP, pidx, pnew, plays>>

PlayDone ==
    /\ ppc = "new" /\ pidx > Len(calls)
    /\ ppc' = "over"
    /\ UNCHANGED <<vars, poolP, pidx, pnew, verdict, plays>>

\* minerva_signal_revert, and the end of the pool the play was made on.
PlayRevert ==
    /\ ppc = "over"
    /\ segv' = 0 /\ exitLoop' = 0
    /\ ppc' = "off"
    /\ UNCHANGED <<loopOnly, pc, blocked, sigints, poolP, pidx, pnew, verdict, plays>>

\* sigint_minerva_loop
PlaySigint ==
    /\ ppc # "off"
    /\ pc = "idle"
    /\ ~blocked
    /\ sigints < MaxSigint
    /\ sigints' = sigints + 1
    /\ IF exitLoop # 0
       THEN pc' = "panic" /\ ppc' = "off" /\ UNCHANGED <<exitLoop, blocked, verdict>>
       ELSE /\ exitLoop' = 1 /\ blocked' = ~SavesMask
            /\ PlayLongjmp
            /\ UNCHANGED pc
    /\ UNCHANGED <<loopOnly, segv, poolP, pidx, pnew, plays>>

PlayNext ==
    \/ (ppc = "off" /\ Next /\ UNCHANGED playVars)
    \/ PlayStart \/ PlayNew \/ PlayFind \/ PlayAbort
    \/ (\E outcome \in Outcome : PlayReturns(outcome))
    \/ PlayCrashes \/ PlayDone \/ PlayRevert \/ PlaySigint

PlaySpec == PlayInit /\ [][PlayNext]_allVars

-----------------------------------------------------------------------------
(* Properties *)

PlayTypeOK ==
    /\ ppc \in {"off", "new", "find", "run", "over"}
    /\ ptree \in [Type -> SUBSET Nat] /\ plen \in [Type -> Int] /\ pcurId \in Nat
    /\ pidx \in 0 .. Len(calls) + 1 /\ pnew \in Nat \cup {Unset}
    /\ verdict \in {"none", "last", "middle"} /\ plays \in 0 .. MaxPlays

FirstCrash == {k \in DOMAIN fate : fate[k] = "crash" /\
                    \A j \in 1 .. k - 1 : fate[j] # "crash"}

\* No identifier was issued to a call that is not in the trace, every call of
\* the trace ran to its end or crashed, and none was given the result of a call
\* that failed.  A ^C may break each of these; a session without one, none.
Intact ==
    /\ \A k \in DOMAIN calls :
          /\ calls[k].result = k - 1
          /\ Settled(k)
          /\ \A i \in Slots(calls[k].func) : fate[calls[k].args[i] + 1] # "fail"

\* Playing a trace replays what happened: play says "crashed" when the last
\* call crashed, "crashed in the middle" when the user had gone on after a
\* crash, "not crashed" when nothing did (README.md:176, "in order to reproduce
\* particular execution").  It holds for the trace of any session, with or
\* without ^C, that left the trace intact, if no ^C disturbs the play.
ReplayReproduces ==
    (Intact /\ exitLoop = 0 /\ ppc = "over") =>
        verdict = IF FirstCrash = {} THEN "none"
                  ELSE IF Len(calls) \in FirstCrash THEN "last" ELSE "middle"

\* A session without ^C keeps the trace intact, whatever crashes.
CleanSessionIsIntact == (sigints = 0 /\ pc = "idle") => Intact

\* Unless it stopped in the middle, a play in a session without ^C leaves its
\* own pool with the variables and the counters of the context's pool, though
\* it numbers them from the trace and creates a call's result before looking up
\* its arguments (minerva_trace.c:92-106).
ReplayRebuildsPool ==
    (sigints = 0 /\ ppc = "over" /\ verdict # "middle") =>
        ptree = tree /\ plen = len

\* assert(args[i] != NULL), minerva_trace.c:103
ReplayFindsArgs == ppc = "find" => ArgsFound
=============================================================================
