------------------------------ MODULE Minimize ------------------------------
(***************************************************************************)
(* minerva_trace_minimize (core/minerva_trace.c:251-372): calls that the   *)
(* crash does not depend on are removed one after the other, with what     *)
(* depends on them, and what is left is replayed on a fresh pool; if it    *)
(* still crashes, the calls replayed are the new trace.  It is given the   *)
(* trace of a context while the loop is idle, or a trace it has returned.  *)
(*                                                                         *)
(* The target is deterministic: what a call does is a function of the      *)
(* calls made before it.  The part of that function seen so far is known.  *)
(***************************************************************************)
EXTENDS FuzzLoop, SequencesExt

CONSTANTS
    Rounds,         \* the round limits a user may give
    MaxMins,        \* bound: how often min is called
    MaxMinSigint    \* bound: how often ^C interrupts min

\* UINT_MAX, for min without a limit: more rounds than any trace can take
NoLimit == -1

ASSUME MinConstants ==
    Rounds \subseteq Nat \cup {NoLimit} /\ MaxMins \in Nat /\ MaxMinSigint \in Nat

VARIABLES
    mpc,        \* where minerva_trace_minimize is; "off" outside it
    given,      \* the trace it was given
    minTrace,   \* min_trace; after the end, what min has returned
    todo,       \* the identifiers in irrelevant from e on
    rounds, removed,
    cur,        \* current: the calls replayed in this round
    mtree,      \* the pool of this round
    idx,        \* the position of call in min_trace
    jumpSet,    \* setjmp(segv_env) has been reached in this call
    aborts,     \* the target crashes with SIGABRT (ASAN), not with SIGSEGV
    abrtReset,  \* SA_RESETHAND has put SIGABRT back to its default
    known,
    interrupts, mins   \* how often ^C has interrupted min; what the bounds count

roundVars == <<removed, cur, mtree, idx>>
minVars == <<mpc, given, minTrace, todo, rounds, roundVars, jumpSet, aborts,
             abrtReset, known, interrupts, mins>>
minAllVars == <<vars, minVars>>
\* Of the loop's variables a minimization touches only those of the signals.
notSignals == <<poolVars, traceVars, loopVars, frameVars, crash>>

MinInit ==
    /\ Init
    /\ mpc = "off" /\ given = <<>> /\ minTrace = <<>> /\ todo = {} /\ rounds = 0
    /\ removed = {} /\ cur = <<>> /\ mtree = [t \in Type |-> {}] /\ idx = 0
    /\ jumpSet = FALSE /\ aborts \in BOOLEAN /\ abrtReset = FALSE
    /\ known = {} /\ interrupts = 0 /\ mins = 0

ArgIds(c) == {c.args[i] : i \in DOMAIN c.args}

\* relevant, when the walk from the end of the trace has come to call k.
RelevantFrom(trace) ==
    LET n == Len(trace)
        rel[k \in 1 .. n] ==
            IF k = n THEN {trace[n].result} \cup ArgIds(trace[n])
            ELSE rel[k + 1] \cup IF trace[k].result \in rel[k + 1]
                                 THEN ArgIds(trace[k]) ELSE {}
    IN  rel

\* The results of the calls not marked.  irrelevant has them in the order of the
\* trace, in which they grow (MinShrinks): e is the least of them.
Irrelevant(trace) == {trace[k].result : k \in DOMAIN trace} \ RelevantFrom(trace)[1]

\* relevant and removed have calls_num entries and are indexed by identifiers.
InBounds(trace) ==
    \A k \in DOMAIN trace :
        \A id \in {trace[k].result} \cup ArgIds(trace[k]) : id < Len(trace)

\* A call whose predecessors all ran to their end, as far as the session shows.
Seen ==
    {[calls |-> SubSeq(calls, 1, k), outcome |-> fate[k]] :
        k \in {n \in DOMAIN calls :
                  Settled(n) /\ \A j \in 1 .. n - 1 : fate[j] \in {"ok", "fail"}}}

\* min(trace, limit), for a trace its arrays are large enough for
MinStart(trace, limit) ==
    /\ pc = "idle" /\ mpc = "off"
    /\ mins < MaxMins
    /\ trace # <<>> /\ InBounds(trace)
    /\ mins' = mins + 1 /\ interrupts' = 0
    /\ given' = trace /\ minTrace' = trace
    /\ todo' = Irrelevant(trace)
    /\ rounds' = limit
    /\ jumpSet' = FALSE /\ abrtReset' = FALSE
    /\ known' = known \cup Seen
    /\ segv' = 0 /\ exitLoop' = 0
    /\ mpc' = "rounds"
    /\ UNCHANGED <<notSignals, pc, blocked, sigints, roundVars, aborts>>

\* TAILQ_LAST of an empty trace is NULL; and beyond their last entry the
\* arrays overlap other memory: nothing is said of what follows.
MinUndefined(trace) ==
    /\ pc = "idle" /\ mpc = "off"
    /\ mins < MaxMins
    /\ trace = <<>> \/ ~InBounds(trace)
    /\ mins' = mins + 1 /\ given' = trace
    /\ mpc' = "undefined"
    /\ UNCHANGED <<vars, minTrace, todo, rounds, roundVars, jumpSet, aborts,
                   abrtReset, known, interrupts>>

\* The coin falls on 0: this element is left alone.
PassElem ==
    /\ mpc = "rounds" /\ todo # {} /\ rounds # 0
    /\ todo' = todo \ {Min(todo)}
    /\ UNCHANGED <<vars, mpc, given, minTrace, rounds, roundVars, jumpSet, aborts,
                   abrtReset, known, interrupts, mins>>

\* The coin falls on 1: replay without the call that made this result.
TryElem ==
    /\ mpc = "rounds" /\ todo # {} /\ rounds # 0
    /\ removed' = {Min(todo)}
    /\ cur' = <<>> /\ mtree' = [t \in Type |-> {}] /\ idx' = 1
    /\ mpc' = "replay"
    /\ UNCHANGED <<vars, given, minTrace, todo, rounds, jumpSet, aborts, abrtReset,
                   known, interrupts, mins>>

Here == minTrace[idx]
Replaying == mpc = "replay" /\ idx <= Len(minTrace)
HereMade == Append(cur, Here)

HereFound == \A i \in Slots(Here.func) : Here.args[i] \in mtree[TypeOf(Here.func, i)]

\* Mutant of SkipCall: the call behind the one skipped is skipped as well.
SkipCallAndNext ==
    /\ Replaying
    /\ Here.result \in removed \/ ~HereFound
    /\ removed' = removed \cup {Here.result}
    /\ idx' = idx + 2
    /\ UNCHANGED <<vars, mpc, given, minTrace, todo, rounds, cur, mtree, jumpSet,
                   aborts, abrtReset, known, interrupts, mins>>

\* A removed call, and one that has lost an argument with it.
SkipCall ==
    /\ Replaying
    /\ Here.result \in removed \/ ~HereFound
    /\ removed' = removed \cup {Here.result}
    /\ idx' = idx + 1
    /\ UNCHANGED <<vars, mpc, given, minTrace, todo, rounds, cur, mtree, jumpSet,
                   aborts, abrtReset, known, interrupts, mins>>

Does(outcome) ==
    /\ outcome \in Outcomes[Here.func]
    /\ \A s \in known : s.calls = HereMade => s.outcome = outcome
    /\ known' = known \cup {[calls |-> HereMade, outcome |-> outcome]}

Dying(c, t) == {c.args[i] : i \in {j \in DestroySlots(c.func) : TypeOf(c.func, j) = t}}

Survivors(c, outcome, t) ==
    (mtree[t] \cup IF t = RetType[c.func] THEN {c.result} ELSE {})
        \ (Dying(c, t) \cup IF outcome = "fail" /\ t = RetType[c.func]
                            THEN {c.result} ELSE {})

\* minerva_var_new, setjmp, minerva_trace_record and minerva_call.  Identifier 0
\* stands for cur_id, which is 0 whenever the call that had it is replayed.
ReplayReturns(outcome) ==
    /\ Replaying /\ Here.result \notin removed /\ HereFound
    /\ outcome # "crash" /\ Does(outcome)
    /\ mtree' = [t \in Type |-> Survivors(Here, outcome, t)]
    /\ cur' = HereMade
    /\ jumpSet' = TRUE
    /\ idx' = idx + 1
    /\ UNCHANGED <<vars, mpc, given, minTrace, todo, rounds, removed, aborts,
                   abrtReset, interrupts, mins>>

\* Mutant of AfterRemoval: the walk starts again from the element just removed.
AfterRemovalStays(gone) == todo

\* LIST_FOREACH goes on from e, although e has left the list: elements removed
\* with e that follow it at once are still found behind it, others are not.
AfterRemoval(gone) ==
    LET rest == todo \ {Min(todo)}
    IN  {id \in rest : id \notin gone \/ \A kept \in rest \ gone : id < kept}

RoundsLeft == IF rounds = NoLimit THEN NoLimit ELSE rounds - 1

\* The other return of setjmp: min_trace becomes what current holds.
Crashed(current) ==
    /\ minTrace' = current
    /\ todo' = AfterRemoval(removed)
    /\ rounds' = RoundsLeft
    /\ mpc' = "rounds"

\* Mutant of ReplayCrashes: the call is recorded once it has returned.
ReplayCrashesUnrecorded ==
    /\ Replaying /\ Here.result \notin removed /\ HereFound
    /\ Does("crash")
    /\ ~abrtReset
    /\ jumpSet' = TRUE
    /\ abrtReset' = aborts
    /\ Crashed(cur)
    /\ UNCHANGED <<vars, given, roundVars, aborts, interrupts, mins>>

\* segv is set by the handler and cleared again.
ReplayCrashes ==
    /\ Replaying /\ Here.result \notin removed /\ HereFound
    /\ Does("crash")
    /\ ~abrtReset
    /\ jumpSet' = TRUE
    /\ abrtReset' = aborts
    /\ Crashed(HereMade)
    /\ UNCHANGED <<vars, given, roundVars, aborts, interrupts, mins>>

\* The handler of SIGABRT was installed with SA_RESETHAND, once for all rounds.
ReplayKilled ==
    /\ Replaying /\ Here.result \notin removed /\ HereFound
    /\ Does("crash")
    /\ abrtReset
    /\ mpc' = "killed"
    /\ UNCHANGED <<vars, given, minTrace, todo, rounds, roundVars, jumpSet, aborts,
                   abrtReset, interrupts, mins>>

\* Mutant of RoundEnds: without a crash the trace given is put back.
RoundEndsRestores ==
    /\ mpc = "replay" /\ idx > Len(minTrace)
    /\ minTrace' = given
    /\ todo' = todo \ {Min(todo)}
    /\ rounds' = RoundsLeft
    /\ mpc' = "rounds"
    /\ UNCHANGED <<vars, given, roundVars, jumpSet, aborts, abrtReset, known,
                   interrupts, mins>>

\* No crash: the trace stays as it is.
RoundEnds ==
    /\ mpc = "replay" /\ idx > Len(minTrace)
    /\ todo' = todo \ {Min(todo)}
    /\ rounds' = RoundsLeft
    /\ mpc' = "rounds"
    /\ UNCHANGED <<vars, given, minTrace, roundVars, jumpSet, aborts, abrtReset,
                   known, interrupts, mins>>

Finish ==
    /\ mpc = "rounds" /\ (todo = {} \/ rounds = 0)
    /\ mpc' = "over"
    /\ UNCHANGED <<vars, given, minTrace, todo, rounds, roundVars, jumpSet, aborts,
                   abrtReset, known, interrupts, mins>>

\* minerva_signal_revert; what the call has allocated is given back.
MinReturn ==
    /\ mpc = "over"
    /\ segv' = 0 /\ exitLoop' = 0
    /\ mpc' = "off"
    /\ given' = <<>> /\ todo' = {} /\ rounds' = 0 /\ known' = {}
    /\ removed' = {} /\ cur' = <<>> /\ mtree' = [t \in Type |-> {}] /\ idx' = 0
    /\ UNCHANGED <<notSignals, pc, blocked, sigints, minTrace, jumpSet, aborts,
                   abrtReset, interrupts, mins>>

-----------------------------------------------------------------------------
(* ^C during a minimization *)

PressSigint ==
    /\ mpc \in {"rounds", "replay", "over"} /\ pc = "idle"
    /\ ~blocked
    /\ interrupts < MaxMinSigint
    /\ interrupts' = interrupts + 1

\* Taken for a crash, before or after the call at hand is recorded.
SigintAsCrash ==
    /\ PressSigint
    /\ exitLoop = 0 /\ mpc = "replay" /\ jumpSet
    /\ exitLoop' = 1 /\ blocked' = ~SavesMask
    /\ \/ Crashed(cur)
       \/ Replaying /\ Here.result \notin removed /\ HereFound /\ Crashed(HereMade)
    /\ UNCHANGED <<notSignals, pc, segv, sigints, given, roundVars, jumpSet, aborts,
                   abrtReset, known, mins>>

\* Before the first setjmp the buffer is that of an earlier call; between two
\* rounds the jump leads to a current that has been freed.
SigintAstray ==
    /\ PressSigint
    /\ exitLoop = 0 /\ (mpc # "replay" \/ ~jumpSet)
    /\ mpc' = "undefined"
    /\ UNCHANGED <<notSignals, pc, segv, exitLoop, blocked, sigints, given, minTrace,
                   todo, rounds, roundVars, jumpSet, aborts, abrtReset, known, mins>>

SigintTwice ==
    /\ PressSigint
    /\ exitLoop # 0
    /\ pc' = "panic" /\ mpc' = "off"
    /\ UNCHANGED <<notSignals, segv, exitLoop, blocked, sigints, given, minTrace, todo,
                   rounds, roundVars, jumpSet, aborts, abrtReset, known, mins>>

MinHalted == mpc \in {"undefined", "killed"} /\ UNCHANGED minAllVars

MinStep ==
    \/ PassElem \/ TryElem \/ SkipCall
    \/ \E outcome \in Outcome : ReplayReturns(outcome)
    \/ ReplayCrashes \/ ReplayKilled \/ RoundEnds \/ Finish \/ MinReturn

\* The traces min can be given: the context's, and what min has returned.
Traces == (IF starts > 0 THEN {calls} ELSE {}) \cup (IF mins > 0 THEN {minTrace} ELSE {})

MinNext ==
    \/ mpc = "off" /\ Next /\ UNCHANGED minVars
    \/ \E trace \in Traces : MinUndefined(trace) \/ \E limit \in Rounds : MinStart(trace, limit)
    \/ MinStep
    \/ SigintAsCrash \/ SigintAstray \/ SigintTwice
    \/ MinHalted

MinSpec == MinInit /\ [][MinNext]_minAllVars

\* The process keeps running, and a call of the target returns or crashes.
FairMinSpec == MinSpec /\ WF_minAllVars(MinStep)

-----------------------------------------------------------------------------
(* Properties *)

MinTypeOK ==
    /\ mpc \in {"off", "rounds", "replay", "over", "undefined", "killed"}
    /\ given \in Seq(RecordedCall) /\ minTrace \in Seq(RecordedCall)
    /\ cur \in Seq(RecordedCall)
    /\ todo \subseteq Nat /\ rounds \in Nat \cup {NoLimit} /\ removed \subseteq Nat
    /\ mtree \in [Type -> SUBSET Nat] /\ mins \in 0 .. MaxMins
    /\ idx \in Nat /\ (mpc = "replay" => idx \in 1 .. Len(minTrace) + 1)
    /\ {jumpSet, aborts, abrtReset} \subseteq BOOLEAN /\ interrupts \in 0 .. MaxMinSigint
    /\ \A s \in known : s.calls \in Seq(RecordedCall) /\ s.outcome \in Outcome

\* Some call before k has made the variable, its check has accepted it, and no
\* call in between has destroyed it.
OutcomeOf(trace, k) ==
    CHOOSE x \in Outcome \cup {"unseen"} :
        IF \E s \in known : s.calls = SubSeq(trace, 1, k)
        THEN [calls |-> SubSeq(trace, 1, k), outcome |-> x] \in known
        ELSE x = "unseen"

Available(trace, k, t, id) ==
    \E j \in 1 .. k - 1 :
        /\ trace[j].result = id /\ RetType[trace[j].func] = t
        /\ OutcomeOf(trace, j) = "ok"
        /\ \A l \in j + 1 .. k - 1 : id \notin Dying(trace[l], t)

Reproducible(trace) ==
    /\ trace # <<>>
    /\ \A k \in DOMAIN trace :
          /\ \A i \in Slots(trace[k].func) :
                Available(trace, k, TypeOf(trace[k].func, i), trace[k].args[i])
          /\ IF k = Len(trace) THEN OutcomeOf(trace, k) = "crash"
                               ELSE OutcomeOf(trace, k) \in {"ok", "fail"}

\* Unless ^C disturbs it, min returns the trace it was given, or one that
\* plays: each argument is found and only the last call crashes.  It holds of
\* any trace, also of one that crashed in the middle or not at all.
MinReproducible ==
    (mpc = "over" /\ interrupts = 0) => minTrace = given \/ Reproducible(minTrace)

\* results grow along a trace, so that a part of it is known by its calls.
PartOf(s, t) ==
    /\ ToSet(s) \subseteq ToSet(t)
    /\ \A j, k \in DOMAIN s : j < k => s[j].result < s[k].result

\* While min works, ^C or not, its trace only loses calls.
MinShrinks ==
    [][mpc # "off" /\ mpc' # "off" => PartOf(minTrace', minTrace)]_minAllVars

\* min comes to an end, with a limit or without, although it edits the list it
\* walks: it returns, or the process is gone (minerva_trace.c:294-359).
MinEnds == mpc \in {"rounds", "replay"} ~> mpc \notin {"rounds", "replay", "over"}

\* "assuming all var ids to be nonnegative and less then calls_num",
\* minerva_trace.c:229, of every trace min is given.
IdsBelowCallsNum == mpc # "off" => InBounds(given)
=============================================================================
