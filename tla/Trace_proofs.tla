---------------------------- MODULE Trace_proofs ----------------------------
(***************************************************************************)
(* Machine-checked proofs about what core/minerva_trace.c does with the    *)
(* trace of a loop that ^C may have interrupted anywhere, for every target *)
(* table and every bound: that it may be played (TracePlay), that a second *)
(* process gets it back from the file (Session), and what min makes of it  *)
(* (Minimize).                                                             *)
(***************************************************************************)
EXTENDS Session, Minimize, FuzzLoop_proofs

-----------------------------------------------------------------------------
(* What the loop writes into the trace *)

\* A variable has the type of the call that made it.
TreesTyped ==
    \A t \in Type : \A v \in tree[t] : \A k \in DOMAIN calls :
        calls[k].result = v => RetType[calls[k].func] = t

\* The arguments of call k are older than its result, each has the type of the
\* call that made it, and those it destroys are different ones.
ArgsSound(k) ==
    /\ \A i \in Slots(calls[k].func) :
          /\ calls[k].args[i] < calls[k].result
          /\ \A j \in DOMAIN calls :
                calls[j].result = calls[k].args[i] => RetType[calls[j].func] = TypeOf(calls[k].func, i)
    /\ \A i, j \in DestroySlots(calls[k].func) :
          i # j /\ TypeOf(calls[k].func, i) = TypeOf(calls[k].func, j)
              => calls[k].args[i] # calls[k].args[j]

TraceInv ==
    /\ TreesTyped
    /\ pc = "record" => \A i \in Slots(func) : argv[i] < newId
    /\ \A k \in DOMAIN calls : ArgsSound(k)

LEMMA TraceSame ==
    ASSUME TraceInv, calls' = calls, \A t \in Type : tree'[t] \subseteq tree[t],
           pc' # "record"
    PROVE  TraceInv'
  BY DEF TraceInv, TreesTyped, ArgsSound

\* The new variable is younger than the arguments and made by no call yet.
LEMMA TraceInsert ==
    ASSUME TypeFrame, Alive, Ids, TraceInv, InsertNew
    PROVE  TraceInv'
  <1>1. /\ pc = "insert" /\ newId' = curId /\ func' = func /\ argv' = argv /\ calls' = calls
        /\ tree' = [tree EXCEPT ![RetType[func]] = @ \cup {curId}]
    BY DEF InsertNew, traceVars
  <1>2. ASSUME NEW i \in Slots(func) PROVE argv[i] < curId
    <2>1. argv[i] \in Nat
      BY <1>1, CallTypes DEF InCall
    <2>2. argv[i] \in tree[TypeOf(func, i)] /\ TypeOf(func, i) \in Type
      BY <1>1, <2>1, CallTypes DEF Alive, ArgsAlive, Unfilled, Unset
    <2> QED BY <2>2 DEF Ids, IdsIssuedOnce
  <1>3. \A k \in DOMAIN calls : calls[k].result # curId
    BY TraceTypes DEF Ids, Issued
  <1>4. TreesTyped'
    BY <1>1, <1>3, CallTypes DEF TraceInv, TreesTyped
  <1> QED
    BY <1>1, <1>2, <1>4 DEF TraceInv, ArgsSound

\* The call recorded has arguments of the types of the trees they are in.
LEMMA TraceRecord ==
    ASSUME TypeFrame, Alive, Ids, ResultLives, TraceInv, Record
    PROVE  TraceInv'
  <1>0. PICK n : n = Len(calls) + 1
    OBVIOUS
  <1>1. pc = "record" /\ pc' = "run" /\ tree' = tree
    BY DEF Record, poolVars
  <1>2. /\ DOMAIN calls = 1 .. Len(calls) /\ Len(calls) \in Nat
        /\ DOMAIN calls' = 1 .. n /\ n \in DOMAIN calls'
        /\ \A k \in DOMAIN calls' : k \in DOMAIN calls \/ k = n
        /\ \A k \in DOMAIN calls : calls'[k] = calls[k]
        /\ calls'[n].func = func /\ calls'[n].result = newId /\ calls'[n].args = argv
    BY <1>0, Recording, TraceTypes
  <1>3. /\ func \in Func /\ RetType[func] \in Type /\ newId \in tree[RetType[func]]
        /\ DestroySlots(func) \subseteq Slots(func)
    BY <1>1, CallTypes DEF ResultLives, Stored
  <1>4. \A i \in Slots(func) :
            argv[i] \in Nat /\ argv[i] \in tree[TypeOf(func, i)] /\ TypeOf(func, i) \in Type
    <2>1. \A i \in Slots(func) : argv[i] \in Nat
      BY <1>1, CallTypes DEF InCall
    <2> QED BY <1>1, <2>1, CallTypes DEF Alive, ArgsAlive, Unfilled, Unset
  <1>5. \A i \in Slots(func) : argv[i] < newId
    BY <1>1 DEF TraceInv
  <1>6. \A k \in DOMAIN calls : calls[k].result < newId
    BY <1>1 DEF Ids, Issued
  <1>7. TreesTyped'
    <2>1. ASSUME NEW t \in Type, NEW v \in tree[t], NEW k \in DOMAIN calls', calls'[k].result = v
          PROVE  RetType[calls'[k].func] = t
      <3>1. CASE k \in DOMAIN calls
        BY <1>2, <2>1, <3>1 DEF TraceInv, TreesTyped
      <3>2. CASE k = n
        BY <1>2, <1>3, <2>1, <3>2 DEF Ids, IdsIssuedOnce
      <3> QED BY <1>2, <3>1, <3>2
    <2> QED BY <1>1, <2>1 DEF TreesTyped
  <1>8. ASSUME NEW k \in DOMAIN calls PROVE ArgsSound(k)'
    <2>1. ArgsSound(k) /\ calls'[k] = calls[k]
      BY <1>2 DEF TraceInv
    <2>2. ASSUME NEW i \in Slots(calls[k].func), NEW j \in DOMAIN calls',
                 calls'[j].result = calls[k].args[i]
          PROVE  RetType[calls'[j].func] = TypeOf(calls[k].func, i)
      <3>1. CASE j \in DOMAIN calls
        BY <1>2, <2>1, <2>2, <3>1 DEF ArgsSound
      <3>2. CASE j = n
        <4>1. calls[k].args[i] < calls[k].result /\ calls[k].args[i] \in Nat /\ calls[k].result \in Nat
          BY <2>1, TraceTypes DEF ArgsSound
        <4>2. calls[k].args[i] = newId /\ calls[k].result < newId
          BY <1>2, <1>6, <2>2, <3>2
        <4> QED BY <4>1, <4>2
      <3> QED BY <1>2, <3>1, <3>2
    <2> QED BY <2>1, <2>2 DEF ArgsSound
  <1>9. ArgsSound(n)'
    <2>1. ASSUME NEW i \in Slots(func), NEW j \in DOMAIN calls', calls'[j].result = argv[i]
          PROVE  RetType[calls'[j].func] = TypeOf(func, i)
      <3>1. TreesTyped'
        BY <1>7
      <3> QED BY <1>1, <1>4, <2>1, <3>1 DEF TreesTyped
    <2>2. ASSUME NEW i \in DestroySlots(func), NEW j \in DestroySlots(func), i # j,
                 TypeOf(func, i) = TypeOf(func, j)
          PROVE  argv[i] # argv[j]
      <3>1. Unique(func, i) /\ Unique(func, j)
        BY <1>3, <2>2, DestroyIsUnique
      <3>2. argv[i] # Unset /\ argv[j] # Unset
        BY <1>3, <1>4 DEF Unset
      <3> QED BY <1>1, <1>3, <2>2, <3>1, <3>2 DEF Alive, ChosenApart, InCall
    <2> QED BY <1>2, <1>5, <2>1, <2>2 DEF ArgsSound
  <1> QED
    BY <1>1, <1>2, <1>7, <1>8, <1>9 DEF TraceInv

\* Every step, ^C or not, keeps what is written sound.
LEMMA TraceStep ==
    TypeFrame /\ Alive /\ Ids /\ ResultLives /\ TraceInv /\ [Next]_vars => TraceInv'
  <1> SUFFICES ASSUME TypeFrame, Alive, Ids, ResultLives, TraceInv, [Next]_vars PROVE TraceInv'
    BY Zenon
  <1> USE DEF poolVars, traceVars, loopVars, frameVars, sigVars
  <1>1. ASSUME UNCHANGED <<tree, calls>>, pc' # "record" PROVE TraceInv'
    BY <1>1, TraceSame
  <1>2. ASSUME NEW iter \in Iters, NEW mode \in Modes, Start(iter, mode) PROVE TraceInv'
    BY <1>1, <1>2 DEF Start
  <1>3. CASE \/ (\E f \in Func : PickFunc(f)) \/ NoCandidate \/ LoopDone \/ Revert \/ Quit
             \/ Sigint \/ SigintIdle \/ EmptyTree \/ CountNew
    BY <1>1, <1>3
    DEF PickFunc, NoCandidate, LoopDone, Revert, Quit, Sigint, SigintIdle, EmptyTree, CountNew,
        Segfault, Longjmp
  <1>4. ASSUME NEW i, NEW v, PickArg(i, v) PROVE TraceInv'
    BY <1>1, <1>4 DEF PickArg
  <1>5. CASE TargetReturns \/ TargetCrashes \/ CheckOk \/ CheckFails \/ CountDropped
    BY <1>1, <1>5
    DEF TargetReturns, TargetCrashes, CheckOk, CheckFails, CountDropped, NextIter, Segfault, Longjmp
  <1>6. CASE InsertNew \/ Record
    BY <1>6, TraceInsert, TraceRecord
  <1>7. ASSUME NEW i \in doomed, CountDestroyed(i) PROVE TraceInv'
    BY <1>1, <1>7 DEF CountDestroyed
  <1>8. ASSUME NEW i \in doomed, UnlinkDestroyed(i) PROVE TraceInv'
    <2>1. \A t \in Type : tree'[t] \subseteq tree[t]
      BY <1>8, CallTypes DEF UnlinkDestroyed
    <2> QED BY <1>8, <2>1, TraceSame DEF UnlinkDestroyed
  <1>9. CASE UnlinkDropped
    <2>1. \A t \in Type : tree'[t] \subseteq tree[t]
      BY <1>9, CallTypes DEF UnlinkDropped
    <2> QED BY <1>9, <2>1, TraceSame DEF UnlinkDropped, NextIter
  <1>10. CASE Halted \/ Redraw \/ UNCHANGED vars
    <2>1. UNCHANGED vars
      BY <1>10, Zenon DEF Halted, Redraw
    <2> QED BY <2>1 DEF vars, TraceInv, TreesTyped, ArgsSound
  <1> QED
    BY <1>2, <1>3, <1>4, <1>5, <1>6, <1>7, <1>8, <1>9, <1>10, Zenon
    DEF Next, LoopStep, UserStep, RandomCall, Call

-----------------------------------------------------------------------------
(* What a log without ^C tells *)

\* The arguments in the log are results of earlier calls that did not fail, and
\* a variable is there if a call made it and none has destroyed it.
Tells(L, pool) ==
    /\ \A k \in DOMAIN L : \A i \in Slots(L[k].func) :
          \E j \in 1 .. k - 1 : L[k].args[i] = j - 1 /\ L[j].outcome # "fail"
    /\ \A t \in Type : \A v : v \in pool[t] <=>
          /\ \E k \in DOMAIN L : v = k - 1 /\ RetType[L[k].func] = t /\ L[k].outcome # "fail"
          /\ \A k \in DOMAIN L : L[k].outcome # "crash" =>
                \A i \in DestroySlots(L[k].func) :
                    TypeOf(L[k].func, i) = t => L[k].args[i] # v

\* One more call
LEMMA OneMoreCall ==
    ASSUME NEW S, NEW L \in Seq(S), NEW pool, NEW pool2, NEW f \in Func, NEW args, NEW x,
           Tells(L, pool),
           \A i \in Slots(f) : args[i] \in pool[TypeOf(f, i)],
           \A t \in Type : pool2[t] =
               (pool[t] \ (IF x = "crash" THEN {}
                           ELSE {args[i] : i \in {j \in DestroySlots(f) : TypeOf(f, j) = t}}))
                   \cup (IF t = RetType[f] /\ x # "fail" THEN {Len(L)} ELSE {}),
           NEW L2, L2 = Append(L, [func |-> f, result |-> Len(L), args |-> args, outcome |-> x])
    PROVE  Tells(L2, pool2)
  <1>0. PICK n : n = Len(L) + 1
    OBVIOUS
  <1>1. /\ Len(L) \in Nat /\ DOMAIN L = 1 .. Len(L) /\ DOMAIN L2 = 1 .. n
        /\ \A k \in DOMAIN L : L2[k] = L[k]
        /\ L2[n].func = f /\ L2[n].args = args /\ L2[n].outcome = x
    <2> DEFINE e == [func |-> f, result |-> Len(L), args |-> args, outcome |-> x]
    <2>1. /\ L \in Seq(S \cup {e}) /\ e \in S \cup {e} /\ Len(L) \in Nat /\ DOMAIN L = 1 .. Len(L)
      OBVIOUS
    <2> HIDE DEF e
    <2>2. /\ DOMAIN Append(L, e) = 1 .. Len(L) + 1 /\ Append(L, e)[Len(L) + 1] = e
          /\ \A k \in DOMAIN L : Append(L, e)[k] = L[k]
      BY <2>1
    <2>3. L2 = Append(L, e)
      BY DEF e
    <2>4. e.func = f /\ e.args = args /\ e.outcome = x
      BY DEF e
    <2> QED BY <1>0, <2>1, <2>2, <2>3, <2>4
  <1>2. \A k \in DOMAIN L2 : k \in DOMAIN L \/ k = n
    BY <1>0, <1>1
  <1>3. \A t \in Type : \A v \in pool[t] : \E j \in 1 .. n - 1 : v = j - 1 /\ L[j].outcome # "fail"
    BY <1>0, <1>1 DEF Tells
  <1>4. ASSUME NEW k \in DOMAIN L2, NEW i \in Slots(L2[k].func)
        PROVE  \E j \in 1 .. k - 1 : L2[k].args[i] = j - 1 /\ L2[j].outcome # "fail"
    <2>1. CASE k \in DOMAIN L
      <3>1. PICK j \in 1 .. k - 1 : L[k].args[i] = j - 1 /\ L[j].outcome # "fail"
        BY <1>1, <2>1 DEF Tells
      <3>2. j \in DOMAIN L
        BY <1>1, <2>1
      <3> QED BY <1>1, <2>1, <3>1, <3>2
    <2>2. CASE k = n
      <3>1. TypeOf(f, i) \in Type /\ args[i] \in pool[TypeOf(f, i)]
        BY <1>1, <2>2, Table
      <3>2. PICK j \in 1 .. n - 1 : args[i] = j - 1 /\ L[j].outcome # "fail"
        BY <1>3, <3>1
      <3>3. j \in DOMAIN L
        BY <1>0, <1>1
      <3> QED BY <1>1, <2>2, <3>2, <3>3
    <2> QED BY <1>2, <2>1, <2>2
  <1>5. ASSUME NEW t \in Type, NEW v
        PROVE  v \in pool2[t] <=>
                 /\ \E k \in DOMAIN L2 : v = k - 1 /\ RetType[L2[k].func] = t /\ L2[k].outcome # "fail"
                 /\ \A k \in DOMAIN L2 : L2[k].outcome # "crash" =>
                       \A i \in DestroySlots(L2[k].func) :
                           TypeOf(L2[k].func, i) = t => L2[k].args[i] # v
    <2> DEFINE MadeIn(M) == \E k \in DOMAIN M : v = k - 1 /\ RetType[M[k].func] = t /\ M[k].outcome # "fail"
               Spared(M, k) == M[k].outcome # "crash" => \A i \in DestroySlots(M[k].func) :
                                  TypeOf(M[k].func, i) = t => M[k].args[i] # v
               New == v = n - 1 /\ t = RetType[f] /\ x # "fail"
               Kills == x # "crash" /\ \E i \in DestroySlots(f) : TypeOf(f, i) = t /\ args[i] = v
    <2>1. v \in pool[t] <=> MadeIn(L) /\ \A k \in DOMAIN L : Spared(L, k)
      BY DEF Tells
    <2>2. v \in pool2[t] <=> (v \in pool[t] /\ ~Kills) \/ New
      BY <1>0, <1>1
    <2>3. MadeIn(L2) <=> MadeIn(L) \/ New
      BY <1>0, <1>1, <1>2
    <2>4. Spared(L2, n) <=> ~Kills
      BY <1>1
    <2>5. \A k \in DOMAIN L : Spared(L2, k) <=> Spared(L, k)
      BY <1>1
    <2>6. (\A k \in DOMAIN L2 : Spared(L2, k)) <=> (\A k \in DOMAIN L : Spared(L, k)) /\ ~Kills
      <3>1. n \in DOMAIN L2 /\ \A k \in DOMAIN L : k \in DOMAIN L2
        BY <1>0, <1>1
      <3> HIDE DEF Spared, Kills
      <3> QED BY <1>2, <2>4, <2>5, <3>1
    <2>7. New => (\A k \in DOMAIN L : Spared(L, k)) /\ ~Kills
      <3> SUFFICES ASSUME v = n - 1
                   PROVE  /\ \A k \in DOMAIN L : \A i \in DestroySlots(L[k].func) : L[k].args[i] # v
                          /\ \A i \in DestroySlots(f) : args[i] # v
        OBVIOUS
      <3>1. ASSUME NEW k \in DOMAIN L, NEW i \in DestroySlots(L[k].func) PROVE L[k].args[i] # n - 1
        <4>1. i \in Slots(L[k].func)
          BY DEF DestroySlots
        <4>2. PICK j \in 1 .. k - 1 : L[k].args[i] = j - 1
          BY <4>1 DEF Tells
        <4> QED BY <1>0, <1>1, <4>2
      <3>2. ASSUME NEW i \in DestroySlots(f) PROVE args[i] # n - 1
        <4>1. i \in Slots(f) /\ TypeOf(f, i) \in Type
          BY Table DEF DestroySlots
        <4>2. PICK j \in 1 .. n - 1 : args[i] = j - 1
          BY <1>3, <4>1
        <4> QED BY <1>0, <1>1, <4>2
      <3> QED BY <3>1, <3>2
    <2> HIDE DEF MadeIn, Spared, New, Kills
    <2>8. v \in pool2[t] <=> MadeIn(L2) /\ \A k \in DOMAIN L2 : Spared(L2, k)
      BY <2>1, <2>2, <2>3, <2>6, <2>7
    <2> QED BY <2>8 DEF MadeIn, Spared
  <1> QED
    BY <1>4, <1>5 DEF Tells

\* Only ^C is counted.
LEMMA SigintsGrow == [Next]_vars => sigints' \in {sigints, sigints + 1}
  <1> SUFFICES ASSUME [Next]_vars PROVE sigints' \in {sigints, sigints + 1}
    OBVIOUS
  <1> USE DEF sigVars
  <1>1. CASE LoopStep
    <2>1. CASE RandomCall
      BY <2>1 DEF RandomCall, PickArg, EmptyTree, Segfault, Redraw, vars, CountNew, InsertNew, Record
    <2>2. CASE Call
      BY <2>2 DEF Call, TargetReturns, TargetCrashes, Segfault, CountDestroyed, UnlinkDestroyed,
                  CheckOk, CheckFails, CountDropped, UnlinkDropped
    <2> QED BY <1>1, <2>1, <2>2 DEF LoopStep, PickFunc, NoCandidate, LoopDone, Revert
  <1>2. CASE UserStep
    BY <1>2 DEF UserStep, Start, Sigint, SigintIdle, Quit
  <1>3. CASE Halted \/ UNCHANGED vars
    BY <1>3 DEF Halted, vars
  <1> QED
    BY <1>1, <1>2, <1>3 DEF Next

LogTells == sigints = 0 => Tells(SettledLog, LiveVars)

\* The pool is the one the trace explains, as long as there is no ^C.
LEMMA TellsStep ==
    ASSUME LogInv, LogInv', LogTells, [Next]_vars
    PROVE  LogTells'
  <1> SUFFICES ASSUME sigints' = 0 PROVE Tells(SettledLog, LiveVars)'
    BY DEF LogTells
  <1>0. TypeFrame /\ Positions
    BY Zenon DEF LogInv, PoolInv
  <1>1. sigints = 0
    <2>1. sigints \in Nat /\ sigints' \in {sigints, sigints + 1}
      BY <1>0, SigintsGrow, LoopConstants DEF TypeFrame, TypeOK, SignalType
    <2> QED BY <2>1
  <1>2. Tells(SettledLog, LiveVars)
    BY <1>1 DEF LogTells
  <1>3. PICK L, pool : L = SettledLog /\ pool = LiveVars
    OBVIOUS
  <1>4. PICK L2, pool2 : L2 = SettledLog' /\ pool2 = LiveVars'
    OBVIOUS
  <1>5. CASE Log!Next
    <2>1. PICK f, args, x : f \in Func /\ Log!Call(f, args, x)
      BY <1>5 DEF Log!Next
    <2>2. /\ \A i \in Slots(f) : args[i] \in pool[TypeOf(f, i)]
          /\ pool2 = [t \in Type |-> Log!Effect(f, args, x, t)]
          /\ L2 = Append(L, [func |-> f, result |-> Len(L), args |-> args, outcome |-> x])
      BY <1>3, <1>4, <2>1 DEF Log!Call, Log!Legal, Log!Slots, Slots, Log!TypeOf, TypeOf
    <2>3. ASSUME NEW t \in Type
          PROVE  pool2[t] = (pool[t] \ (IF x = "crash" THEN {}
                           ELSE {args[i] : i \in {j \in DestroySlots(f) : TypeOf(f, j) = t}}))
                   \cup (IF t = RetType[f] /\ x # "fail" THEN {Len(L)} ELSE {})
      BY <1>3, <2>2 DEF Log!Effect, Log!Destroyed, Log!DestroySlots, DestroySlots, Log!Slots, Slots,
                        Log!TypeOf, TypeOf
    <2>4. PICK S : L \in Seq(S)
      BY <1>0, <1>1, <1>3, LogShape
    <2>5. Tells(L, pool)
      BY <1>2, <1>3
    <2>6. Tells(L2, pool2)
      BY <2>1, <2>2, <2>3, <2>4, <2>5, OneMoreCall, Zenon
    <2> QED BY <1>4, <2>6
  <1>6. CASE UNCHANGED <<LiveVars, SettledLog>>
    <2>1. L2 = L /\ pool2 = pool
      BY <1>3, <1>4, <1>6
    <2>2. Tells(L2, pool2)
      BY <1>2, <1>3, <2>1
    <2> QED BY <1>4, <2>2
  <1> QED
    BY <1>1, <1>5, <1>6, LogStep

-----------------------------------------------------------------------------
(* The trace and the pool of an idle context *)

\* After the first n calls of the trace a variable is there if one of them made
\* it and none has destroyed it.
Keeps(n, t, v) ==
    /\ \E j \in 1 .. n : calls[j].result = v /\ RetType[calls[j].func] = t /\ fate[j] # "fail"
    /\ \A j \in 1 .. n : fate[j] # "crash" =>
          \A i \in DestroySlots(calls[j].func) :
              TypeOf(calls[j].func, i) = t => calls[j].args[i] # v

Holds(pool, n) == \A t \in Type : \A v : v \in pool[t] <=> Keeps(n, t, v)
Counts(pool, number) ==
    \A t \in Type : IsFiniteSet(pool[t]) /\ number[t] = Cardinality(pool[t])

\* Without ^C, nothing is lost and everything is counted.
Clean == sigints = 0 => Intact /\ Holds(tree, Len(calls)) /\ Counts(tree, len)

TraceTyped == TraceType /\ \A k \in DOMAIN calls : DOMAIN calls[k].args = Slots(calls[k].func)

\* The arguments of a call that is settled are older than its result, have the
\* types of the calls that made them, and were not destroyed before it.
Sound ==
    \A k \in DOMAIN calls : Settled(k) =>
        /\ \A i \in Slots(calls[k].func) :
              LET f == calls[k].func
                  v == calls[k].args[i]
              IN  /\ v < calls[k].result
                  /\ \A j \in DOMAIN calls :
                        Settled(j) /\ calls[j].result = v => RetType[calls[j].func] = TypeOf(f, i)
                  /\ \A j \in 1 .. k - 1 : fate[j] \in {"ok", "fail"} =>
                        \A d \in DestroySlots(calls[j].func) :
                            TypeOf(calls[j].func, d) = TypeOf(f, i) => calls[j].args[d] # v
        /\ \A i, j \in DestroySlots(calls[k].func) :
              i # j /\ TypeOf(calls[k].func, i) = TypeOf(calls[k].func, j)
                  => calls[k].args[i] # calls[k].args[j]

-----------------------------------------------------------------------------
(* The pool of a play *)

\* What a play leaves alone until it is over, or until the next one starts
PlayTyped ==
    /\ PlayTypeOK
    /\ ppc # "off" => pc = "idle" /\ calls # <<>>
    /\ ppc \in {"new", "find", "run"} => pidx > 0 /\ verdict = "none"
    /\ ppc \in {"find", "run"} => pidx <= Len(calls) /\ pnew \in Nat
    /\ ppc = "over" /\ exitLoop = 0 => pidx > 0
    /\ sigints \in Nat /\ (ppc # "off" /\ exitLoop # 0 => sigints > 0)

NoCrashBefore(n) == \A j \in 1 .. n - 1 : fate[j] # "crash"

\* While a call is replayed, its result is there before the arguments are found.
Rebuilds ==
    /\ ppc = "new" => /\ NoCrashBefore(pidx) /\ Holds(ptree, pidx - 1)
                      /\ pidx = 1 => pcurId = 0
    /\ ppc \in {"find", "run"} =>
          /\ NoCrashBefore(pidx) /\ pnew = pidx - 1
          /\ \A t \in Type : \A v : v \in ptree[t] <=>
                Keeps(pidx - 1, t, v) \/ (v = pnew /\ t = RetType[Current.func])

Ended ==
    ppc = "over" /\ exitLoop = 0 =>
        \/ /\ verdict = "none" /\ NoCrashBefore(Len(calls) + 1)
           /\ Holds(ptree, Len(calls))
        \/ /\ verdict = (IF pidx = Len(calls) THEN "last" ELSE "middle")
           /\ pidx \in DOMAIN calls /\ NoCrashBefore(pidx) /\ fate[pidx] = "crash"
           /\ Holds(ptree, pidx)

Reproduces == Intact => Rebuilds /\ Ended /\ (ppc # "off" /\ exitLoop = 0 => Counts(ptree, plen))

-----------------------------------------------------------------------------
(* What the loop leaves to a play *)

LEMMA TypedTrace ==
    ASSUME TraceTyped
    PROVE  /\ DOMAIN calls = 1 .. Len(calls) /\ Len(calls) \in Nat
           /\ DOMAIN fate = 1 .. Len(calls)
           /\ \A k \in DOMAIN calls :
                 /\ calls[k].func \in Func /\ calls[k].result \in Nat
                 /\ RetType[calls[k].func] \in Type /\ fate[k] \in Fates
                 /\ DestroySlots(calls[k].func) \subseteq Slots(calls[k].func)
                 /\ \A i \in Slots(calls[k].func) :
                       calls[k].args[i] \in Nat /\ TypeOf(calls[k].func, i) \in Type
  <1>1. calls \in Seq(RecordedCall) /\ fate \in Seq(Fates) /\ Len(fate) = Len(calls)
    BY DEF TraceTyped, TraceType
  <1>2. /\ DOMAIN calls = 1 .. Len(calls) /\ Len(calls) \in Nat /\ DOMAIN fate = 1 .. Len(calls)
        /\ \A k \in DOMAIN calls : calls[k] \in RecordedCall /\ fate[k] \in Fates
    BY <1>1, SeqIsFunction
  <1>3. ASSUME NEW k \in DOMAIN calls, NEW i \in Slots(calls[k].func)
        PROVE  calls[k].args[i] \in Nat
    <2>1. i \in DOMAIN calls[k].args
      BY <1>3 DEF TraceTyped
    <2>2. calls[k].args \in Seq(Nat)
      BY <1>2 DEF RecordedCall
    <2> QED BY <2>1, <2>2
  <1>4. \A k \in DOMAIN calls : calls[k].func \in Func /\ calls[k].result \in Nat
    BY <1>2 DEF RecordedCall
  <1> QED
    BY <1>2, <1>3, <1>4, Table

\* What the loop has written is typed and sound.
LEMMA LoopTrace ==
    ASSUME TypeFrame, Destruction, TraceInv
    PROVE  TraceTyped /\ Sound
  <1>1. TraceTyped
    BY DEF TypeFrame, TypeOK, Frame, TraceTyped
  <1>2. ASSUME NEW k \in DOMAIN calls, NEW i \in Slots(calls[k].func), NEW j \in 1 .. k - 1,
               fate[j] \in {"ok", "fail"}, NEW d \in DestroySlots(calls[j].func),
               TypeOf(calls[j].func, d) = TypeOf(calls[k].func, i)
        PROVE  calls[j].args[d] # calls[k].args[i]
    <2>1. j \in DOMAIN calls /\ k > j
      BY <1>1, TypedTrace
    <2>2. ~UsedBy(k, TypeOf(calls[j].func, d), calls[j].args[d])
      BY <1>2, <2>1 DEF Destruction, DestroyedNeverReused
    <2> QED BY <1>2, <2>2 DEF UsedBy
  <1>3. \A k \in DOMAIN calls : ArgsSound(k)
    BY DEF TraceInv
  <1> QED
    BY <1>1, <1>2, <1>3 DEF Sound, ArgsSound

\* Without ^C, between two runs of the loop the trace explains the pool.
LEMMA IdleClean ==
    ASSUME LogInv, LogTells, pc = "idle"
    PROVE  Clean
  <1> SUFFICES ASSUME sigints = 0 PROVE Intact /\ Holds(tree, Len(calls)) /\ Counts(tree, len)
    BY DEF Clean
  <1>0. TypeFrame /\ Positions /\ Drifts
    BY Zenon DEF LogInv, PoolInv
  <1>1. /\ DOMAIN calls = 1 .. Len(calls) /\ Len(calls) \in Nat
        /\ \A k \in DOMAIN calls : calls[k].result = k - 1 /\ Settled(k)
    BY <1>0, TraceTypes DEF Positions
  <1>2. PICK n : n = Len(calls)
    OBVIOUS
  <1>3. PICK L, pool : L = SettledLog /\ pool = LiveVars
    OBVIOUS
  <1>4. L = [k \in 1 .. n |-> EntryOf(k)]
    BY <1>0, <1>2, <1>3, LogShape DEF Unsettled
  <1>5. /\ DOMAIN L = DOMAIN calls
        /\ \A k \in DOMAIN calls : /\ L[k].func = calls[k].func /\ L[k].args = calls[k].args
                                   /\ L[k].outcome = fate[k]
    BY <1>1, <1>2, <1>4 DEF EntryOf
  <1>6. \A t \in Type : pool[t] = tree[t]
    <2>1. \A t \in Type : Pending(t) = {} /\ Gone(t) = {}
      BY LiveBetween DEF InCall
    <2> QED BY <1>3, <2>1 DEF LiveVars
  <1>7. Tells(L, pool)
    BY <1>3 DEF LogTells
  <1>8. Intact
    <2>1. ASSUME NEW k \in DOMAIN calls, NEW i \in Slots(calls[k].func)
          PROVE  fate[calls[k].args[i] + 1] # "fail"
      <3>1. PICK j \in 1 .. k - 1 : calls[k].args[i] = j - 1 /\ L[j].outcome # "fail"
        BY <1>5, <1>7 DEF Tells
      <3>2. j \in DOMAIN calls /\ j = calls[k].args[i] + 1
        BY <1>1, <3>1
      <3> QED BY <1>5, <3>1, <3>2
    <2> QED BY <1>1, <2>1 DEF Intact
  <1>9. Holds(tree, Len(calls))
    <2>1. ASSUME NEW t \in Type, NEW v PROVE v \in tree[t] <=> Keeps(Len(calls), t, v)
      <3>1. v \in tree[t] <=>
               /\ \E k \in DOMAIN L : v = k - 1 /\ RetType[L[k].func] = t /\ L[k].outcome # "fail"
               /\ \A k \in DOMAIN L : L[k].outcome # "crash" =>
                     \A i \in DestroySlots(L[k].func) :
                         TypeOf(L[k].func, i) = t => L[k].args[i] # v
        BY <1>6, <1>7 DEF Tells
      <3>2. (\E k \in DOMAIN L : v = k - 1 /\ RetType[L[k].func] = t /\ L[k].outcome # "fail")
            <=> \E j \in 1 .. Len(calls) :
                    calls[j].result = v /\ RetType[calls[j].func] = t /\ fate[j] # "fail"
        BY <1>1, <1>5
      <3>3. ASSUME NEW k \in DOMAIN calls
            PROVE  (L[k].outcome # "crash" => \A i \in DestroySlots(L[k].func) :
                        TypeOf(L[k].func, i) = t => L[k].args[i] # v)
                   <=> (fate[k] # "crash" => \A i \in DestroySlots(calls[k].func) :
                        TypeOf(calls[k].func, i) = t => calls[k].args[i] # v)
        BY <1>5
      <3>4. (\A k \in DOMAIN L : L[k].outcome # "crash" => \A i \in DestroySlots(L[k].func) :
                        TypeOf(L[k].func, i) = t => L[k].args[i] # v)
            <=> (\A k \in 1 .. Len(calls) : fate[k] # "crash" => \A i \in DestroySlots(calls[k].func) :
                        TypeOf(calls[k].func, i) = t => calls[k].args[i] # v)
        BY <1>1, <1>5, <3>3
      <3> QED BY <3>1, <3>2, <3>4 DEF Keeps
    <2> QED BY <2>1 DEF Holds
  <1>10. Counts(tree, len)
    <2>1. ASSUME NEW t \in Type PROVE IsFiniteSet(tree[t]) /\ len[t] = Cardinality(tree[t])
      <3>1. /\ len[t] \in Int /\ IsFiniteSet(tree[t]) /\ Cardinality(tree[t]) \in Nat
            /\ Drift(t) <= 0
        BY <1>0, DriftTypes
      <3>2. Ahead(t) = 0
        BY DEF Ahead
      <3> QED BY <3>1, <3>2 DEF Drift, Distance
    <2> QED BY <2>1 DEF Counts
  <1> QED
    BY <1>8, <1>9, <1>10

-----------------------------------------------------------------------------
(* One call of a play *)

\* The first calls of an intact trace have arguments that were there before.
LEMMA EarlierArgs ==
    ASSUME TraceTyped, Sound, Intact, NEW k \in DOMAIN calls, NEW i \in Slots(calls[k].func)
    PROVE  /\ calls[k].args[i] \in Nat /\ calls[k].args[i] < k - 1
           /\ k \in Nat /\ calls[k].result = k - 1
  BY TypedTrace DEF Sound, Intact

\* What the n-th call adds to the variables kept, and what it takes away.
LEMMA KeepsNext ==
    ASSUME TraceTyped, Sound, Intact, NEW n \in DOMAIN calls, NEW t \in Type, NEW v
    PROVE  /\ fate[n] = "crash" =>
                 (Keeps(n, t, v) <=>
                     Keeps(n - 1, t, v) \/ (v = n - 1 /\ t = RetType[calls[n].func]))
           /\ fate[n] \in {"ok", "fail"} =>
                 (Keeps(n, t, v) <=>
                     /\ \/ Keeps(n - 1, t, v)
                        \/ v = n - 1 /\ t = RetType[calls[n].func] /\ fate[n] = "ok"
                     /\ \A i \in DestroySlots(calls[n].func) :
                           TypeOf(calls[n].func, i) = t => calls[n].args[i] # v)
  <1> DEFINE MadeBy(j) == calls[j].result = v /\ RetType[calls[j].func] = t /\ fate[j] # "fail"
             Spares(j) == \A i \in DestroySlots(calls[j].func) :
                             TypeOf(calls[j].func, i) = t => calls[j].args[i] # v
             New == v = n - 1 /\ t = RetType[calls[n].func] /\ fate[n] # "fail"
  <1>1. n \in Nat /\ n > 0 /\ 1 .. n = (1 .. n - 1) \cup {n} /\ 1 .. n \subseteq DOMAIN calls
    BY TypedTrace
  <1>2. calls[n].result = n - 1
    BY DEF Intact
  <1>3. Keeps(n, t, v) <=> (\E j \in 1 .. n : MadeBy(j))
                           /\ (\A j \in 1 .. n : fate[j] # "crash" => Spares(j))
    BY DEF Keeps
  <1>4. Keeps(n - 1, t, v) <=> (\E j \in 1 .. n - 1 : MadeBy(j))
                               /\ (\A j \in 1 .. n - 1 : fate[j] # "crash" => Spares(j))
    BY DEF Keeps
  <1>5. MadeBy(n) <=> New
    BY <1>2
  <1>6. New => \A j \in 1 .. n : Spares(j)
    <2> SUFFICES ASSUME NEW j \in 1 .. n, NEW i \in DestroySlots(calls[j].func)
                 PROVE  calls[j].args[i] # n - 1
      OBVIOUS
    <2>1. j \in DOMAIN calls /\ i \in Slots(calls[j].func)
      BY <1>1 DEF DestroySlots
    <2>2. calls[j].args[i] \in Nat /\ calls[j].args[i] < j - 1
      BY <2>1, EarlierArgs
    <2> QED BY <1>1, <2>2
  <1>7. fate[n] = "crash" \/ fate[n] = "ok" \/ fate[n] = "fail"
    BY DEF Intact, Settled
  <1> HIDE DEF MadeBy, Spares
  <1>8. (\E j \in 1 .. n : MadeBy(j)) <=> (\E j \in 1 .. n - 1 : MadeBy(j)) \/ New
    BY <1>1, <1>5
  <1>9. (\A j \in 1 .. n : fate[j] # "crash" => Spares(j))
            <=> (\A j \in 1 .. n - 1 : fate[j] # "crash" => Spares(j))
                /\ (fate[n] # "crash" => Spares(n))
    BY <1>1
  <1>10. New => (\A j \in 1 .. n - 1 : fate[j] # "crash" => Spares(j)) /\ Spares(n)
    BY <1>1, <1>6
  <1>11. Keeps(n, t, v) <=> (Keeps(n - 1, t, v) \/ New) /\ (fate[n] # "crash" => Spares(n))
    BY <1>3, <1>4, <1>8, <1>9, <1>10
  <1> QED
    BY <1>10, <1>11 DEF Spares

\* The arguments of the call at hand are found, and they are not its result.
LEMMA ArgsAreFound ==
    ASSUME TraceTyped, Sound, Intact, PlayTyped, Rebuilds, ppc \in {"find", "run"}
    PROVE  /\ ArgsFound /\ pidx \in DOMAIN calls
           /\ \A i \in Slots(Current.func) : Current.args[i] # pnew
  <1>1. /\ pidx \in DOMAIN calls /\ pnew = pidx - 1 /\ NoCrashBefore(pidx)
        /\ \A t \in Type : \A v : Keeps(pidx - 1, t, v) => v \in ptree[t]
    BY TypedTrace DEF PlayTyped, PlayTypeOK, Rebuilds
  <1>2. ASSUME NEW i \in Slots(Current.func)
        PROVE  /\ Keeps(pidx - 1, TypeOf(Current.func, i), Current.args[i])
               /\ TypeOf(Current.func, i) \in Type /\ Current.args[i] # pnew
    <2> DEFINE v == Current.args[i]
               t == TypeOf(Current.func, i)
    <2>1. v \in Nat /\ v < pidx - 1 /\ t \in Type /\ pidx \in Nat
      BY <1>1, TypedTrace, EarlierArgs DEF Current
    <2>2. PICK j \in 1 .. pidx - 1 : j = v + 1
      BY <2>1
    <2>3. j \in DOMAIN calls /\ calls[j].result = v /\ Settled(j)
      BY <1>1, <2>1, <2>2, TypedTrace DEF Intact
    <2>4. fate[j] # "fail"
      BY <1>1, <2>2 DEF Intact, Current
    <2>5. RetType[calls[j].func] = t
      BY <1>1, <2>3 DEF Sound, Current, Intact
    <2>6. ASSUME NEW l \in 1 .. pidx - 1, fate[l] # "crash", NEW d \in DestroySlots(calls[l].func),
                 TypeOf(calls[l].func, d) = t
          PROVE  calls[l].args[d] # v
      <3>1. l \in DOMAIN calls
        BY <1>1, TypedTrace
      <3>2. fate[l] \in {"ok", "fail"}
        BY <2>6, <3>1 DEF Intact, Settled
      <3> QED BY <1>1, <2>6, <3>2 DEF Sound, Current, Intact
    <2>7. Keeps(pidx - 1, t, v)
      BY <2>2, <2>3, <2>4, <2>5, <2>6 DEF Keeps
    <2> QED BY <1>1, <2>1, <2>7
  <1> QED
    BY <1>1, <1>2 DEF ArgsFound

-----------------------------------------------------------------------------
(* The steps of a play *)

PlayStep ==
    \/ PlayStart \/ PlayNew \/ PlayFind \/ PlayAbort
    \/ (\E outcome \in Outcome : PlayReturns(outcome))
    \/ PlayCrashes \/ PlayDone \/ PlayRevert \/ PlaySigint

\* A play reads the trace and leaves the loop alone.
LEMMA PlayLeaves ==
    PlayStep => /\ UNCHANGED <<poolVars, traceVars, loopVars, frameVars, crash>>
                /\ pc' = pc \/ pc' = "panic"
                /\ sigints' = sigints \/ sigints' = sigints + 1
  <1> SUFFICES ASSUME PlayStep
               PROVE  /\ UNCHANGED <<poolVars, traceVars, loopVars, frameVars, crash>>
                      /\ pc' = pc \/ pc' = "panic"
                      /\ sigints' = sigints \/ sigints' = sigints + 1
    OBVIOUS
  <1> USE DEF loopOnly, poolVars, traceVars, loopVars, frameVars, sigVars, vars
  <1>1. CASE PlayStart
    BY <1>1 DEF PlayStart
  <1>2. CASE PlayNew
    BY <1>2 DEF PlayNew
  <1>3. CASE PlayFind \/ PlayDone \/ PlayRevert
    BY <1>3 DEF PlayFind, PlayDone, PlayRevert
  <1>4. CASE PlayAbort \/ PlayCrashes
    BY <1>4 DEF PlayAbort, PlayCrashes
  <1>5. ASSUME NEW outcome \in Outcome, PlayReturns(outcome)
        PROVE  /\ UNCHANGED <<poolVars, traceVars, loopVars, frameVars, crash>>
               /\ pc' = pc \/ pc' = "panic"
               /\ sigints' = sigints \/ sigints' = sigints + 1
    BY <1>5 DEF PlayReturns
  <1>6. CASE PlaySigint
    BY <1>6 DEF PlaySigint
  <1> QED
    BY <1>1, <1>2, <1>3, <1>4, <1>5, <1>6, Zenon DEF PlayStep

\* What is said of the trace alone stays.
LEMMA TraceStays ==
    ASSUME UNCHANGED <<calls, fate>>
    PROVE  /\ Intact' <=> Intact
           /\ TraceTyped' <=> TraceTyped
           /\ Sound' <=> Sound
           /\ \A n : NoCrashBefore(n)' <=> NoCrashBefore(n)
           /\ \A n, t, v : Keeps(n, t, v)' <=> Keeps(n, t, v)
  <1>1. calls' = calls /\ fate' = fate
    OBVIOUS
  <1>2. Intact' <=> Intact
    BY <1>1 DEF Intact, Settled
  <1>3. TraceTyped' <=> TraceTyped
    BY <1>1 DEF TraceTyped, TraceType
  <1>4. Sound' <=> Sound
    BY <1>1 DEF Sound, Settled
  <1>5. \A n : NoCrashBefore(n)' <=> NoCrashBefore(n)
    BY <1>1 DEF NoCrashBefore
  <1>6. \A n, t, v : Keeps(n, t, v)' <=> Keeps(n, t, v)
    BY <1>1 DEF Keeps
  <1> QED
    BY <1>2, <1>3, <1>4, <1>5, <1>6, Zenon

\* The call at hand, and the slots it destroys.
LEMMA CallAtHand ==
    ASSUME TraceTyped, PlayTyped, ppc \in {"find", "run"} \/ (ppc = "new" /\ pidx <= Len(calls))
    PROVE  /\ pidx \in DOMAIN calls /\ pidx \in Nat /\ Len(calls) \in Nat
           /\ Current.func \in Func /\ Current.result \in Nat /\ RetType[Current.func] \in Type
           /\ \A t : LET D == {i \in DestroySlots(Current.func) : TypeOf(Current.func, i) = t}
                     IN  /\ D \subseteq Slots(Current.func)
                         /\ IsFiniteSet(D) /\ Cardinality(D) \in Nat
  <1>1. pidx \in DOMAIN calls /\ pidx \in Nat /\ Len(calls) \in Nat
    BY TypedTrace DEF PlayTyped, PlayTypeOK
  <1>2. Current.func \in Func /\ Current.result \in Nat /\ RetType[Current.func] \in Type
    BY <1>1, TypedTrace DEF Current
  <1>3. ASSUME NEW t, NEW D, D = {i \in DestroySlots(Current.func) : TypeOf(Current.func, i) = t}
        PROVE  /\ D \subseteq Slots(Current.func)
               /\ IsFiniteSet(D) /\ Cardinality(D) \in Nat
    <2>1. D \subseteq Slots(Current.func)
      BY <1>3 DEF DestroySlots
    <2>2. IsFiniteSet(Slots(Current.func))
      <3>1. Len(Args[Current.func]) \in Nat
        BY <1>2, Table
      <3> QED BY <3>1, FS_Interval DEF Slots
    <2>3. IsFiniteSet(D)
      BY <2>1, <2>2, FS_Subset, Zenon
    <2> QED BY <2>1, <2>3, FS_CardinalityType
  <1> QED
    BY <1>1, <1>2, <1>3

LEMMA PlayTypedStep ==
    TraceTyped /\ PlayTyped /\ PlayStep => PlayTyped'
  <1> SUFFICES ASSUME TraceTyped, PlayTyped, PlayStep PROVE PlayTyped'
    BY Zenon
  <1>0. calls' = calls /\ Len(calls) \in Nat
    BY PlayLeaves, TypedTrace DEF traceVars
  <1> USE PlayConstants DEF loopOnly, poolVars, poolP, traceVars, loopVars, frameVars, sigVars, vars,
          PlayTyped, PlayTypeOK
  <1>1. CASE PlayStart
    BY <1>0, <1>1 DEF PlayStart
  <1>2. CASE PlayNew
    <2>1. Current.result \in Nat /\ RetType[Current.func] \in Type
      BY <1>2, CallAtHand DEF PlayNew
    <2>2. pnew' \in Nat /\ pcurId' \in Nat
      BY <1>2, <2>1 DEF PlayNew
    <2>3. ptree' = [ptree EXCEPT ![RetType[Current.func]] = @ \cup {pnew'}]
      BY <1>2 DEF PlayNew
    <2>4. ptree' \in [Type -> SUBSET Nat]
      BY <2>1, <2>2, <2>3
    <2>5. plen' \in [Type -> Int]
      BY <1>2, <2>1 DEF PlayNew
    <2> QED BY <1>0, <1>2, <2>2, <2>4, <2>5 DEF PlayNew
  <1>3. CASE PlayFind \/ PlayDone \/ PlayRevert
    BY <1>0, <1>3 DEF PlayFind, PlayDone, PlayRevert
  <1>4. CASE PlayAbort \/ PlayCrashes
    BY <1>0, <1>4 DEF PlayAbort, PlayCrashes, PlayLongjmp
  <1>5. ASSUME NEW outcome \in Outcome, PlayReturns(outcome) PROVE PlayTyped'
    <2> DEFINE D(t) == {i \in DestroySlots(Current.func) : TypeOf(Current.func, i) = t}
               fails(t) == outcome = "fail" /\ t = RetType[Current.func]
    <2>1. /\ ppc = "run" /\ ppc' = "new" /\ pidx' = pidx + 1
          /\ UNCHANGED <<pc, exitLoop, pcurId, pnew, verdict, plays, sigints>>
          /\ ptree' = [t \in Type |-> ptree[t]
                          \ ({Current.args[i] : i \in D(t)} \cup IF fails(t) THEN {pnew} ELSE {})]
          /\ plen' = [t \in Type |-> plen[t] - Cardinality(D(t)) - IF fails(t) THEN 1 ELSE 0]
      BY <1>5 DEF PlayReturns
    <2>2. \A t \in Type : Cardinality(D(t)) \in Nat
      BY <2>1, CallAtHand
    <2> HIDE DEF D, fails
    <2>3. plen' \in [Type -> Int]
      BY <2>1, <2>2
    <2>4. ptree' \in [Type -> SUBSET Nat]
      BY <2>1
    <2> QED BY <1>0, <2>1, <2>3, <2>4
  <1>6. CASE PlaySigint
    BY <1>0, <1>6 DEF PlaySigint, PlayLongjmp
  <1> QED
    BY <1>1, <1>2, <1>3, <1>4, <1>5, <1>6, Zenon DEF PlayStep

-----------------------------------------------------------------------------
(* A play rebuilds the pool *)

\* The variables of some slots are in a tree, and no two slots share one.
ApartIn(a, D, S) == (\A i \in D : a[i] \in S) /\ \A i, j \in D : i # j => a[i] # a[j]
\* A is what they hold.
AreTaken(A, a, D) == \A v : v \in A <=> \E i \in D : v = a[i]

\* Taking one variable out for each of some slots takes out as many.
LEMMA TakenOut ==
    ASSUME NEW S, NEW D, NEW a, NEW A, IsFiniteSet(S), IsFiniteSet(D), ApartIn(a, D, S),
           AreTaken(A, a, D)
    PROVE  IsFiniteSet(S \ A) /\ Cardinality(S \ A) = Cardinality(S) - Cardinality(D)
  <1> DEFINE g == [i \in D |-> a[i]]
  <1>0. A = {a[i] : i \in D}
    BY DEF AreTaken
  <1>1. g \in Surjection(D, A) /\ g \in Injection(D, A)
    BY <1>0 DEF ApartIn, Surjection, Injection, IsInjective
  <1>2. IsFiniteSet(A) /\ Cardinality(A) = Cardinality(D)
    BY <1>1, FS_Surjection
  <1>3. S \cap A = A
    BY <1>0 DEF ApartIn
  <1> QED
    BY <1>2, <1>3, FS_Difference

\* The result of a call is not there before it.
LEMMA ResultIsNew ==
    ASSUME TraceTyped, Intact, NEW n \in DOMAIN calls, NEW t
    PROVE  ~Keeps(n - 1, t, n - 1)
  <1>1. n \in Nat /\ \A j \in 1 .. n - 1 : j \in DOMAIN calls
    BY TypedTrace
  <1>2. \A j \in 1 .. n - 1 : calls[j].result = j - 1
    BY <1>1 DEF Intact
  <1> QED
    BY <1>1, <1>2 DEF Keeps

\* An empty pool holds what no call makes.
LEMMA StartReproduces ==
    ASSUME PlayStart
    PROVE  Rebuilds' /\ Ended' /\ Counts(ptree, plen)'
  <1>1. /\ ppc' = "new" /\ pidx' = 1 /\ pcurId' = 0
        /\ ptree' = [t \in Type |-> {}] /\ plen' = [t \in Type |-> 0]
    BY DEF PlayStart
  <1>2. Rebuilds'
    BY <1>1 DEF Rebuilds, NoCrashBefore, Holds, Keeps
  <1>3. Counts(ptree, plen)'
    BY <1>1, FS_EmptySet DEF Counts
  <1> QED
    BY <1>1, <1>2, <1>3 DEF Ended

\* A result is put where the trace says, and it was not there.
LEMMA NewReproduces ==
    ASSUME TraceTyped, Intact, PlayTyped, Rebuilds, exitLoop = 0 => Counts(ptree, plen), PlayNew
    PROVE  Rebuilds' /\ Ended' /\ (exitLoop' = 0 => Counts(ptree, plen)')
  <1>1. /\ ppc = "new" /\ pidx <= Len(calls) /\ ppc' = "find" /\ pidx' = pidx
        /\ calls' = calls /\ fate' = fate /\ exitLoop' = exitLoop
    BY DEF PlayNew, vars, traceVars, sigVars
  <1>2. /\ pidx \in DOMAIN calls /\ pidx \in Nat
        /\ Current.result = pidx - 1 /\ RetType[Current.func] \in Type
    BY <1>1, CallAtHand DEF Intact, Current
  <1>3. pnew' = pidx - 1
    BY <1>1, <1>2 DEF PlayNew, Rebuilds
  <1>4. PICK id, r : id = pidx - 1 /\ r = RetType[Current.func]
    OBVIOUS
  <1>5. /\ ptree' = [ptree EXCEPT ![r] = @ \cup {id}]
        /\ plen' = [plen EXCEPT ![r] = @ + 1]
        /\ ptree \in [Type -> SUBSET Nat] /\ plen \in [Type -> Int] /\ r \in Type
    BY <1>2, <1>3, <1>4 DEF PlayNew, PlayTyped, PlayTypeOK
  <1>6. /\ NoCrashBefore(pidx) /\ Holds(ptree, pidx - 1)
    BY <1>1 DEF Rebuilds
  <1>7. Rebuilds'
    <2>1. NoCrashBefore(pidx)'
      BY <1>1, <1>6 DEF NoCrashBefore
    <2>2. ASSUME NEW t \in Type, NEW v
          PROVE  v \in ptree'[t] <=> Keeps(pidx - 1, t, v)' \/ (v = pnew' /\ t = RetType[Current.func]')
      <3>1. v \in ptree[t] <=> Keeps(pidx - 1, t, v)
        BY <1>6 DEF Holds
      <3>2. Keeps(pidx - 1, t, v)' <=> Keeps(pidx - 1, t, v)
        BY <1>1 DEF Keeps
      <3>3. RetType[Current.func]' = r
        BY <1>1, <1>4 DEF Current
      <3> QED BY <1>3, <1>4, <1>5, <3>1, <3>2, <3>3
    <2> QED BY <1>1, <1>3, <2>1, <2>2 DEF Rebuilds
  <1>8. ASSUME exitLoop = 0, NEW t \in Type
        PROVE  IsFiniteSet(ptree'[t]) /\ plen'[t] = Cardinality(ptree'[t])
    <2>1. IsFiniteSet(ptree[t]) /\ plen[t] = Cardinality(ptree[t])
      BY <1>8 DEF Counts
    <2>2. id \notin ptree[t]
      BY <1>2, <1>4, <1>6, ResultIsNew DEF Holds
    <2>3. CASE t = r
      <3>1. ptree'[t] = ptree[t] \cup {id} /\ plen'[t] = plen[t] + 1
        BY <1>5, <2>3
      <3> QED BY <2>1, <2>2, <3>1, FS_AddElement, SMTT(60)
    <2>4. CASE t # r
      BY <1>5, <2>1, <2>4
    <2> QED BY <2>3, <2>4
  <1>9. exitLoop' = 0 => Counts(ptree, plen)'
    BY <1>1, <1>8 DEF Counts
  <1> QED
    BY <1>1, <1>7, <1>9 DEF Ended

\* The calls before are settled as they were, so this one is replayed.
LEMMA ReplayedAsSettled ==
    ASSUME TraceTyped, Intact, PlayTyped, Rebuilds, ppc = "run"
    PROVE  Replayed(pidx) = {fate[pidx]} /\ pidx \in DOMAIN calls
  <1>1. pidx \in DOMAIN calls /\ pidx \in Nat /\ NoCrashBefore(pidx)
    BY CallAtHand DEF Rebuilds
  <1>2. ASSUME NEW j \in 1 .. pidx - 1 PROVE fate[j] \in {"ok", "fail"}
    <2>1. j \in DOMAIN calls
      BY <1>1, TypedTrace
    <2> QED BY <1>1, <2>1 DEF Intact, Settled, NoCrashBefore
  <1>3. Settled(pidx)
    BY <1>1 DEF Intact
  <1> QED
    BY <1>1, <1>2, <1>3 DEF Replayed

\* A call that returns takes out what it destroys, and its result if it failed.
LEMMA ReturnReproduces ==
    ASSUME TraceTyped, Sound, Intact, PlayTyped, Rebuilds,
           exitLoop = 0 => Counts(ptree, plen),
           NEW outcome, PlayReturns(outcome)
    PROVE  Rebuilds' /\ Ended' /\ (exitLoop' = 0 => Counts(ptree, plen)')
  <1> DEFINE D(t) == {i \in DestroySlots(Current.func) : TypeOf(Current.func, i) = t}
             fails(t) == outcome = "fail" /\ t = RetType[Current.func]
             Taken(t) == {Current.args[i] : i \in D(t)}
             Failed(t) == IF fails(t) THEN {pnew} ELSE {}
  <1>1. /\ ppc = "run" /\ ppc' = "new" /\ pidx' = pidx + 1
        /\ calls' = calls /\ fate' = fate /\ exitLoop' = exitLoop
        /\ outcome \in Replayed(pidx) \cap {"ok", "fail"}
        /\ ptree' = [t \in Type |-> ptree[t] \ (Taken(t) \cup Failed(t))]
        /\ plen' = [t \in Type |-> plen[t] - Cardinality(D(t)) - IF fails(t) THEN 1 ELSE 0]
    BY DEF PlayReturns, vars, traceVars, sigVars
  <1>2. /\ pidx \in DOMAIN calls /\ pidx \in Nat /\ pidx > 0
        /\ fate[pidx] = outcome /\ outcome \in {"ok", "fail"}
        /\ NoCrashBefore(pidx) /\ pnew = pidx - 1
        /\ \A t \in Type : \A v : v \in ptree[t] <=>
                Keeps(pidx - 1, t, v) \/ (v = pnew /\ t = RetType[Current.func])
    BY <1>1, ReplayedAsSettled, CallAtHand DEF Rebuilds, PlayTyped
  <1>3. PICK p : p = pidx + 1
    OBVIOUS
  <1>4. NoCrashBefore(p)'
    BY <1>1, <1>2, <1>3 DEF NoCrashBefore
  <1>5. ASSUME NEW t \in Type, NEW v PROVE v \in ptree'[t] <=> Keeps(p - 1, t, v)'
    <2>1. ~Keeps(pidx - 1, t, pidx - 1)
      BY <1>2, ResultIsNew
    <2>2. Keeps(pidx, t, v) <=>
              /\ \/ Keeps(pidx - 1, t, v)
                 \/ v = pnew /\ t = RetType[Current.func] /\ outcome = "ok"
              /\ v \notin Taken(t)
      BY <1>2, KeepsNext DEF Current
    <2>3. v \in ptree'[t] <=> v \in ptree[t] /\ v \notin Taken(t) /\ v \notin Failed(t)
      BY <1>1
    <2>4. v \notin Failed(t) <=> ~(outcome = "fail" /\ t = RetType[Current.func] /\ v = pnew)
      OBVIOUS
    <2>5. Keeps(p - 1, t, v)' <=> Keeps(pidx, t, v)
      BY <1>1, <1>2, <1>3 DEF Keeps
    <2> HIDE DEF Taken, Failed
    <2> QED BY <1>2, <2>1, <2>2, <2>3, <2>4, <2>5
  <1>6. Rebuilds'
    <2>1. Holds(ptree, p - 1)'
      BY <1>5 DEF Holds
    <2>2. p # 1
      BY <1>2, <1>3
    <2>3. pidx' = p
      BY <1>1, <1>3
    <2> QED BY <1>1, <1>4, <2>1, <2>2, <2>3 DEF Rebuilds, Holds, NoCrashBefore
  <1>7. ASSUME exitLoop = 0, NEW t \in Type
        PROVE  IsFiniteSet(ptree'[t]) /\ plen'[t] = Cardinality(ptree'[t])
    <2>1. IsFiniteSet(ptree[t]) /\ plen[t] = Cardinality(ptree[t])
      BY <1>7 DEF Counts
    <2>2. IsFiniteSet(D(t)) /\ Cardinality(D(t)) \in Nat
      BY <1>1, CallAtHand
    <2>3. \A i \in D(t) : Current.args[i] \in ptree[t] /\ Current.args[i] # pnew
      BY <1>1, ArgsAreFound DEF ArgsFound, DestroySlots
    <2>4. \A i, j \in D(t) : i # j => Current.args[i] # Current.args[j]
      BY <1>2 DEF Sound, Intact, Current
    <2> HIDE DEF D
    <2>5. /\ IsFiniteSet(ptree[t] \ Taken(t))
          /\ Cardinality(ptree[t] \ Taken(t)) = Cardinality(ptree[t]) - Cardinality(D(t))
      <3>1. PICK S, a, E, A : S = ptree[t] /\ a = Current.args /\ E = D(t) /\ A = Taken(t)
        OBVIOUS
      <3>2. AreTaken(A, a, E)
        BY <3>1 DEF AreTaken
      <3>3. IsFiniteSet(S) /\ IsFiniteSet(E)
        BY <2>1, <2>2, <3>1
      <3>4. ApartIn(a, E, S)
        BY <2>3, <2>4, <3>1 DEF ApartIn
      <3>5. IsFiniteSet(S \ A) /\ Cardinality(S \ A) = Cardinality(S) - Cardinality(E)
        BY <3>2, <3>3, <3>4, TakenOut, Zenon
      <3> QED BY <3>1, <3>5
    <2>6. Cardinality(ptree[t] \ Taken(t)) \in Nat /\ Cardinality(ptree[t]) \in Nat
      BY <2>1, <2>5, FS_CardinalityType
    <2>7. fails(t) => pnew \in ptree[t] \ Taken(t)
      BY <1>2, <2>3
    <2>8. ptree'[t] = (ptree[t] \ Taken(t)) \ Failed(t)
      BY <1>1
    <2>9. plen'[t] = plen[t] - Cardinality(D(t)) - IF fails(t) THEN 1 ELSE 0
      BY <1>1
    <2> HIDE DEF Taken
    <2>10. CASE fails(t)
      <3>1. ptree'[t] = (ptree[t] \ Taken(t)) \ {pnew}
        BY <2>8, <2>10
      <3>2. PICK S, x : S = ptree[t] \ Taken(t) /\ x = pnew
        OBVIOUS
      <3>3. IsFiniteSet(S) /\ x \in S
        BY <2>5, <2>7, <2>10, <3>2
      <3>4. IsFiniteSet(S \ {x}) /\ Cardinality(S \ {x}) = Cardinality(S) - 1
        BY ONLY <3>3, FS_RemoveElement
      <3>5. /\ IsFiniteSet(ptree'[t])
            /\ Cardinality(ptree'[t]) = Cardinality(ptree[t] \ Taken(t)) - 1
        BY <3>1, <3>2, <3>4
      <3> HIDE DEF fails
      <3> QED BY <2>1, <2>2, <2>5, <2>6, <2>9, <2>10, <3>5
    <2>11. CASE ~fails(t)
      <3>1. ptree'[t] = ptree[t] \ Taken(t)
        BY <2>8, <2>11
      <3> HIDE DEF fails
      <3> QED BY <2>1, <2>2, <2>5, <2>6, <2>9, <2>11, <3>1
    <2> QED BY <2>10, <2>11
  <1>8. exitLoop' = 0 => Counts(ptree, plen)'
    BY <1>1, <1>7 DEF Counts
  <1> QED
    BY <1>1, <1>6, <1>8 DEF Ended

\* A call that crashes leaves its result behind.
LEMMA CrashReproduces ==
    ASSUME TraceTyped, Sound, Intact, PlayTyped, Rebuilds,
           exitLoop = 0 => Counts(ptree, plen), PlayCrashes
    PROVE  Rebuilds' /\ Ended' /\ (exitLoop' = 0 => Counts(ptree, plen)')
  <1>1. /\ ppc = "run" /\ ppc' = "over" /\ pidx' = pidx /\ ptree' = ptree /\ plen' = plen
        /\ calls' = calls /\ fate' = fate /\ exitLoop' = exitLoop
        /\ "crash" \in Replayed(pidx)
        /\ verdict' = IF pidx = Len(calls) THEN "last" ELSE "middle"
    BY DEF PlayCrashes, PlayLongjmp, loopOnly, poolP, traceVars
  <1>2. /\ pidx \in DOMAIN calls /\ fate[pidx] = "crash"
        /\ NoCrashBefore(pidx) /\ pnew = pidx - 1
        /\ \A t \in Type : \A v : v \in ptree[t] <=>
                Keeps(pidx - 1, t, v) \/ (v = pnew /\ t = RetType[Current.func])
    BY <1>1, ReplayedAsSettled DEF Rebuilds
  <1>3. \A t \in Type : \A v : v \in ptree[t] <=> Keeps(pidx, t, v)
    BY <1>2, KeepsNext DEF Current
  <1>4. Holds(ptree, pidx)'
    BY <1>1, <1>3 DEF Holds, Keeps
  <1>5. NoCrashBefore(pidx)'
    BY <1>1, <1>2 DEF NoCrashBefore
  <1>6. exitLoop' = 0 => Counts(ptree, plen)'
    BY <1>1 DEF Counts
  <1> QED
    BY <1>1, <1>2, <1>4, <1>5, <1>6 DEF Ended, Rebuilds

\* Behind the last call nothing has crashed.
LEMMA DoneReproduces ==
    ASSUME TraceTyped, PlayTyped, Rebuilds,
           exitLoop = 0 => Counts(ptree, plen), PlayDone
    PROVE  Rebuilds' /\ Ended' /\ (exitLoop' = 0 => Counts(ptree, plen)')
  <1>1. /\ ppc = "new" /\ ppc' = "over" /\ pidx > Len(calls) /\ ptree' = ptree /\ plen' = plen
        /\ calls' = calls /\ fate' = fate /\ exitLoop' = exitLoop /\ verdict' = verdict
    BY DEF PlayDone, vars, poolP, traceVars, sigVars
  <1>2. pidx = Len(calls) + 1 /\ Len(calls) \in Nat
    BY <1>1, TypedTrace DEF PlayTyped, PlayTypeOK
  <1>3. NoCrashBefore(Len(calls) + 1) /\ Holds(ptree, Len(calls)) /\ verdict = "none"
    BY <1>1, <1>2 DEF Rebuilds, PlayTyped
  <1>4. NoCrashBefore(Len(calls) + 1)' /\ Holds(ptree, Len(calls))'
    BY <1>1, <1>3 DEF NoCrashBefore, Holds, Keeps
  <1>5. exitLoop' = 0 => Counts(ptree, plen)'
    BY <1>1 DEF Counts
  <1> QED
    BY <1>1, <1>3, <1>4, <1>5 DEF Ended, Rebuilds

\* Every step of a play
LEMMA ReproducesStep ==
    TraceTyped /\ Sound /\ PlayTyped /\ Reproduces /\ PlayStep => Reproduces'
  <1> SUFFICES ASSUME TraceTyped, Sound, PlayTyped, Reproduces, PlayStep PROVE Reproduces'
    BY Zenon
  <1> SUFFICES ASSUME Intact
               PROVE  /\ Rebuilds' /\ Ended'
                      /\ ppc' # "off" /\ exitLoop' = 0 => Counts(ptree, plen)'
    <2>1. UNCHANGED <<calls, fate>>
      BY PlayLeaves DEF poolVars, traceVars, loopVars, frameVars
    <2>2. Intact' <=> Intact
      BY <2>1 DEF Intact, Settled
    <2> QED BY <2>2, Zenon DEF Reproduces
  <1>0. Rebuilds /\ Ended /\ (ppc # "off" /\ exitLoop = 0 => Counts(ptree, plen))
    BY DEF Reproduces
  <1>1. CASE PlayStart
    BY <1>1, StartReproduces
  <1>2. CASE PlayNew
    <2>1. ppc # "off"
      BY <1>2 DEF PlayNew
    <2> QED BY <1>0, <1>2, <2>1, NewReproduces
  <1>3. CASE PlayFind
    <2>1. /\ ppc = "find" /\ ppc' = "run" /\ ptree' = ptree /\ plen' = plen /\ pnew' = pnew
          /\ calls' = calls /\ fate' = fate /\ exitLoop' = exitLoop /\ pidx' = pidx
      BY <1>3 DEF PlayFind, vars, poolP, traceVars, sigVars
    <2>2. Rebuilds' /\ Counts(ptree, plen)' = Counts(ptree, plen)
      BY <1>0, <2>1 DEF Rebuilds, NoCrashBefore, Keeps, Current, Counts
    <2> QED BY <1>0, <2>1, <2>2 DEF Ended
  <1>4. CASE PlayAbort
    <2>1. ppc = "find" /\ ~ArgsFound
      BY <1>4 DEF PlayAbort
    <2> QED BY <1>0, <2>1, ArgsAreFound
  <1>5. ASSUME NEW outcome \in Outcome, PlayReturns(outcome)
        PROVE  /\ Rebuilds' /\ Ended'
               /\ ppc' # "off" /\ exitLoop' = 0 => Counts(ptree, plen)'
    <2>1. ppc # "off"
      BY <1>5 DEF PlayReturns
    <2> QED BY <1>0, <1>5, <2>1, ReturnReproduces
  <1>6. CASE PlayCrashes
    <2>1. ppc # "off"
      BY <1>6 DEF PlayCrashes
    <2> QED BY <1>0, <1>6, <2>1, CrashReproduces
  <1>7. CASE PlayDone
    <2>1. ppc # "off"
      BY <1>7 DEF PlayDone
    <2> QED BY <1>0, <1>7, <2>1, DoneReproduces
  <1>8. CASE PlayRevert
    BY <1>8 DEF PlayRevert, Rebuilds, Ended
  <1>9. CASE PlaySigint
    <2>1. ppc' = "off" \/ (ppc' = "over" /\ exitLoop' = 1)
      BY <1>9 DEF PlaySigint, PlayLongjmp
    <2> QED BY <2>1 DEF Rebuilds, Ended
  <1> QED
    BY <1>1, <1>2, <1>3, <1>4, <1>5, <1>6, <1>7, <1>8, <1>9, Zenon DEF PlayStep

-----------------------------------------------------------------------------
(* The loop and the play *)

\* What holds of the loop, ^C or not
LoopInv == PoolInv /\ Qualified /\ Apart /\ ArgsStay /\ Positions /\ TraceInv /\ LogTells

\* The loop is left alone while it is idle, or it is entered.
Stands ==
    /\ UNCHANGED <<poolVars, traceVars, frameVars>>
    /\ pc = "idle" /\ pc' \in {"idle", "panic", "pick"}
    /\ left' \in Nat \cup {Forever} /\ starts' \in Nat
    /\ segv' \in {0, 1} /\ exitLoop' \in {0, 1}
    /\ sigints' \in {sigints, sigints + 1} /\ sigints' \in 0 .. MaxSigint
    /\ mutate' \in BOOLEAN /\ blocked' \in BOOLEAN /\ crash' \in BOOLEAN

LEMMA QualifiedSelects == PoolInv /\ Qualified => SelectionSucceeds
  BY SelectionHolds, Zenon DEF PoolInv

LEMMA LoopInvLog == LoopInv => LogInv
  BY QualifiedSelects, Zenon DEF LoopInv, LogInv

LEMMA LoopInvInit == Init => LoopInv
  <1> SUFFICES ASSUME Init PROVE LoopInv
    OBVIOUS
  <1>1. PoolInv
    <2>1. ResultLives
      BY DEF Init, ResultLives, Stored
    <2> QED
      BY <2>1, TypeInit, AliveInit, IdsInit, DestructionInit, DriftInit, Zenon DEF PoolInv
  <1>2. Qualified /\ Apart /\ ArgsStay /\ Positions
    BY DEF Init, Qualified, Apart, ArgsStay, Positions, InCall
  <1>3. TraceInv
    BY DEF Init, TraceInv, TreesTyped, ArgsSound
  <1>4. Tells(SettledLog, LiveVars)
    <2>1. SettledLog = <<>> /\ LiveVars = [t \in Type |-> {}]
      BY LogInit DEF Log!Init
    <2> QED BY <2>1 DEF Tells
  <1> QED
    BY <1>1, <1>2, <1>3, <1>4 DEF LoopInv, LogTells

\* Every step of the loop and its user
LEMMA LoopInvStep == LoopInv /\ [Next]_vars => LoopInv'
  <1> SUFFICES ASSUME LoopInv, [Next]_vars PROVE LoopInv'
    OBVIOUS
  <1>1. PoolInv /\ Qualified /\ Apart /\ ArgsStay /\ Positions /\ TraceInv /\ LogTells /\ LogInv
    BY LoopInvLog, Zenon DEF LoopInv
  <1>2. TypeFrame /\ Alive /\ Ids /\ Destruction /\ ResultLives /\ Drifts
    BY <1>1, Zenon DEF PoolInv
  <1>3. PoolInv'
    BY <1>2, TypeStep, AliveStep, IdsStep, DestructionStep, ResultStep, DriftStep, Zenon DEF PoolInv
  <1>4. Qualified' /\ Apart' /\ ArgsStay' /\ Positions' /\ TraceInv'
    BY <1>1, <1>2, QualifiedStep, ApartStep, ArgsStayStep, PositionsStep, TraceStep, Zenon
  <1>5. LogInv'
    <2>1. SelectionSucceeds'
      BY <1>3, <1>4, QualifiedSelects, PTL
    <2> QED BY <1>3, <1>4, <2>1, Zenon DEF LogInv
  <1>6. LogTells'
    BY <1>1, <1>5, TellsStep
  <1> QED
    BY <1>3, <1>4, <1>6, Zenon DEF LoopInv

\* An idle loop that is left alone keeps all of it.
LEMMA LoopStands == LoopInv /\ Stands => LoopInv'
  <1> SUFFICES ASSUME LoopInv, Stands PROVE LoopInv'
    OBVIOUS
  <1> USE DEF poolVars, traceVars, frameVars
  <1>0. /\ tree' = tree /\ len' = len /\ curId' = curId /\ calls' = calls /\ fate' = fate
        /\ func' = func /\ argv' = argv /\ newId' = newId /\ doomed' = doomed
        /\ pc = "idle" /\ pc' \in {"idle", "panic", "pick"}
    BY DEF Stands
  <1>1. PoolInv /\ Positions /\ TraceInv /\ LogTells
    BY Zenon DEF LoopInv
  <1>2. TypeFrame /\ Ids /\ Destruction /\ Drifts
    BY <1>1, Zenon DEF PoolInv
  <1>3. sigints \in Nat /\ sigints' \in {sigints, sigints + 1}
    BY <1>2, LoopConstants DEF TypeFrame, TypeOK, SignalType, Stands
  <1>4. TypeFrame'
    <2>1. PoolType' /\ TraceType' /\ ControlType' /\ SignalType'
      BY <1>0, <1>2
      DEF TypeFrame, TypeOK, PoolType, TraceType, ControlType, SignalType, Stands, InLoop, Dead
    <2>2. FlagType'
      BY Zenon DEF FlagType, Stands
    <2>3. Frame'
      BY <1>0, <1>2 DEF TypeFrame, Frame, InCall, Stored, Recorded
    <2> QED BY <2>1, <2>2, <2>3, Zenon DEF TypeFrame, TypeOK
  <1>5. Alive'
    BY <1>0, AliveNothing DEF Dead
  <1>6. Ids'
    BY <1>0, <1>2, IdsSame DEF Stored
  <1>7. Destruction'
    BY <1>0, <1>2, DestructionSame
  <1>8. ResultLives'
    BY <1>0 DEF ResultLives, Stored
  <1>9. Drifts'
    <2>1. ASSUME NEW t \in Type PROVE IsFiniteSet(tree'[t]) /\ Drift(t)' <= sigints'
      <3> DEFINE c == Cardinality(tree[t])
      <3>1. /\ len[t] \in Int /\ c \in Nat /\ Distance(len[t], c + Ahead(t)) <= sigints
            /\ IsFiniteSet(tree[t])
        BY <1>2, DriftTypes DEF Drift
      <3>2. Ahead(t) = 0 /\ Ahead(t)' = 0
        BY <1>0 DEF Ahead
      <3>3. Drift(t)' = Distance(len[t], c + 0)
        BY <1>0, <3>2 DEF Drift, Distance
      <3> HIDE DEF c
      <3> QED BY <1>0, <1>3, <3>1, <3>2, <3>3 DEF Distance
    <2> QED BY <2>1 DEF Drifts
  <1>10. Qualified' /\ Apart' /\ ArgsStay'
    BY <1>0 DEF Qualified, Apart, ArgsStay, InCall
  <1>11. Positions'
    BY <1>0, <1>1, <1>3, PositionsSame DEF Unsettled
  <1>12. TraceInv'
    BY <1>0, <1>1, TraceSame
  <1>13. LogTells'
    <2> SUFFICES ASSUME sigints' = 0 PROVE Tells(SettledLog, LiveVars)'
      BY DEF LogTells
    <2>1. Tells(SettledLog, LiveVars)
      BY <1>1, <1>3 DEF LogTells
    <2>2. SettledLog' = SettledLog
      BY <1>0 DEF SettledLog, Settled
    <2>3. LiveVars' = LiveVars
      BY <1>0 DEF LiveVars, Pending, Gone, InFlight
    <2>4. PICK L, pool : L = SettledLog /\ pool = LiveVars
      OBVIOUS
    <2>5. Tells(L, pool)
      BY <2>1, <2>4
    <2> QED BY <2>2, <2>3, <2>4, <2>5
  <1> QED
    BY <1>4, <1>5, <1>6, <1>7, <1>8, <1>9, <1>10, <1>11, <1>12, <1>13, Zenon DEF LoopInv, PoolInv

\* A play is such a step, and so is entering the loop.
LEMMA PlayStands == TypeFrame /\ PlayTyped /\ PlayStep => Stands
  <1> SUFFICES ASSUME TypeFrame, PlayTyped, PlayStep PROVE Stands
    OBVIOUS
  <1>1. /\ UNCHANGED <<poolVars, traceVars, loopVars, frameVars, crash>>
        /\ sigints' = sigints \/ sigints' = sigints + 1
    BY PlayLeaves
  <1>2. /\ left \in Nat \cup {Forever} /\ starts \in Nat /\ segv \in {0, 1} /\ exitLoop \in {0, 1}
        /\ sigints \in 0 .. MaxSigint /\ MaxSigint \in Nat
    BY LoopConstants DEF TypeFrame, TypeOK, ControlType, SignalType
  <1>3. mutate' = mutate /\ crash' = crash
    BY <1>1 DEF loopVars
  <1>4. mutate' \in BOOLEAN /\ crash' \in BOOLEAN
    BY <1>3, Zenon DEF TypeFrame, TypeOK, FlagType
  <1>5. blocked \in BOOLEAN /\ SavesMask \in BOOLEAN
    BY LoopConstants, Zenon DEF TypeFrame, TypeOK, FlagType
  <1> USE DEF loopOnly, poolVars, traceVars, loopVars, frameVars, sigVars, vars
  <1>6. /\ left' \in Nat \cup {Forever} /\ starts' \in Nat
    BY <1>1, <1>2
  <1>7. CASE PlayStart \/ PlayNew \/ PlayFind \/ PlayAbort
    <2>1. /\ pc = "idle" /\ pc' = "idle" /\ segv' \in {0, 1} /\ exitLoop' \in {0, 1}
          /\ sigints' = sigints /\ blocked' = blocked
      BY <1>2, <1>7 DEF PlayStart, PlayNew, PlayFind, PlayAbort, PlayTyped
    <2>2. blocked' \in BOOLEAN
      BY <1>5, <2>1, Zenon
    <2> QED BY <1>1, <1>2, <1>4, <1>6, <2>1, <2>2 DEF Stands
  <1>8. CASE \/ \E outcome \in Outcome : PlayReturns(outcome)
             \/ PlayCrashes \/ PlayDone \/ PlayRevert
    <2>1. /\ pc = "idle" /\ pc' = "idle" /\ segv' \in {0, 1} /\ exitLoop' \in {0, 1}
          /\ sigints' = sigints /\ blocked' = blocked
      BY <1>2, <1>8 DEF PlayReturns, PlayCrashes, PlayDone, PlayRevert, PlayTyped
    <2>2. blocked' \in BOOLEAN
      BY <1>5, <2>1, Zenon
    <2> QED BY <1>1, <1>2, <1>4, <1>6, <2>1, <2>2 DEF Stands
  <1>9. CASE PlaySigint
    <2>1. /\ pc = "idle" /\ pc' \in {"idle", "panic"} /\ segv' \in {0, 1} /\ exitLoop' \in {0, 1}
          /\ sigints' = sigints + 1 /\ sigints < MaxSigint
      BY <1>2, <1>9 DEF PlaySigint
    <2>2. blocked' \in BOOLEAN
      BY <1>5, <1>9, Zenon DEF PlaySigint
    <2> QED BY <1>1, <1>2, <1>4, <1>6, <2>1, <2>2 DEF Stands
  <1> QED
    BY <1>7, <1>8, <1>9, Zenon DEF PlayStep

-----------------------------------------------------------------------------
(* Every play of every session *)

\* The trace only grows.
LEMMA CallsGrow == TypeFrame /\ [Next]_vars => Len(calls') \in {Len(calls), Len(calls) + 1}
  <1> SUFFICES ASSUME TypeFrame, [Next]_vars PROVE Len(calls') \in {Len(calls), Len(calls) + 1}
    OBVIOUS
  <1> USE DEF traceVars
  <1>1. CASE calls' = calls
    BY <1>1
  <1>2. CASE Record
    BY <1>2, Recording
  <1>3. CASE RandomCall
    BY <1>1, <1>2, <1>3 DEF RandomCall, PickArg, EmptyTree, Redraw, vars, CountNew, InsertNew
  <1>4. CASE Call
    BY <1>1, <1>4 DEF Call, TargetReturns, TargetCrashes, CountDestroyed, UnlinkDestroyed,
                      CheckOk, CheckFails, CountDropped, UnlinkDropped
  <1>5. CASE LoopStep
    BY <1>1, <1>3, <1>4, <1>5 DEF LoopStep, PickFunc, NoCandidate, LoopDone, Revert
  <1>6. CASE UserStep
    BY <1>1, <1>6 DEF UserStep, Start, Sigint, SigintIdle, Quit
  <1>7. CASE Halted \/ UNCHANGED vars
    BY <1>1, <1>7 DEF Halted, vars
  <1> QED
    BY <1>5, <1>6, <1>7 DEF Next

\* What holds of a play follows from the loop and what the play keeps.
PlayInv == LoopInv /\ PlayTyped /\ Reproduces

LEMMA PlayInvTrace == PlayInv => TypeFrame /\ TraceTyped /\ Sound /\ LogInv
  <1>1. PlayInv => TypeFrame /\ Destruction /\ TraceInv /\ LogInv
    BY LoopInvLog, Zenon DEF PlayInv, LoopInv, PoolInv
  <1> QED
    BY <1>1, LoopTrace, Zenon

LEMMA NoPlay ==
    ASSUME TypeFrame, PlayTyped, ppc = "off", [Next]_vars, TypeFrame', UNCHANGED playVars
    PROVE  PlayTyped' /\ Reproduces'
  <1>1. /\ ppc' = "off" /\ ptree' = ptree /\ plen' = plen /\ pcurId' = pcurId /\ pidx' = pidx
        /\ pnew' = pnew /\ verdict' = verdict /\ plays' = plays
    BY DEF playVars, poolP
  <1>2. Len(calls) \in Nat /\ Len(calls') \in {Len(calls), Len(calls) + 1}
    BY CallsGrow, TraceTypes
  <1>3. sigints' \in Nat
    BY LoopConstants DEF TypeFrame, TypeOK, SignalType
  <1>4. PlayTyped'
    BY <1>1, <1>2, <1>3 DEF PlayTyped, PlayTypeOK
  <1>5. Reproduces'
    BY <1>1 DEF Reproduces, Rebuilds, Ended
  <1> QED
    BY <1>4, <1>5

\* It holds at the start and no step breaks it.
LEMMA PlayInvAlways == PlaySpec => []PlayInv
  <1>1. PlayInit => PlayInv
    <2> SUFFICES ASSUME PlayInit PROVE PlayInv
      OBVIOUS
    <2>1. LoopInv
      BY LoopInvInit DEF PlayInit
    <2>2. PlayTyped
      BY PlayConstants DEF PlayInit, Init, PlayTyped, PlayTypeOK
    <2>3. Reproduces
      BY DEF PlayInit, Reproduces, Rebuilds, Ended
    <2> QED BY <2>1, <2>2, <2>3, Zenon DEF PlayInv
  <1>2. PlayInv /\ [PlayNext]_allVars => PlayInv'
    <2> SUFFICES ASSUME PlayInv, [PlayNext]_allVars PROVE PlayInv'
      OBVIOUS
    <2>1. LoopInv /\ PlayTyped /\ Reproduces /\ TypeFrame /\ TraceTyped /\ Sound
      BY PlayInvTrace, Zenon DEF PlayInv
    <2>2. CASE PlayStep
      <3>1. LoopInv'
        BY <2>1, <2>2, PlayStands, LoopStands, Zenon
      <3> QED BY <2>1, <2>2, <3>1, PlayTypedStep, ReproducesStep, Zenon DEF PlayInv
    <2>3. CASE ppc = "off" /\ [Next]_vars /\ UNCHANGED playVars
      <3>1. LoopInv'
        BY <2>1, <2>3, LoopInvStep, Zenon
      <3>2. TypeFrame'
        BY <3>1, Zenon DEF LoopInv, PoolInv
      <3>3. PlayTyped' /\ Reproduces'
        BY <2>1, <2>3, <3>2, NoPlay, Zenon
      <3> QED BY <3>1, <3>3, Zenon DEF PlayInv
    <2>4. CASE UNCHANGED allVars
      <3>1. vars' = vars /\ playVars' = playVars
        BY <2>4 DEF allVars
      <3>2. LoopInv'
        BY <2>1, <3>1, LoopInvStep, Zenon
      <3>3. /\ calls' = calls /\ fate' = fate /\ pc' = pc /\ exitLoop' = exitLoop
            /\ sigints' = sigints /\ ppc' = ppc /\ ptree' = ptree /\ plen' = plen
            /\ pcurId' = pcurId /\ pidx' = pidx
            /\ pnew' = pnew /\ verdict' = verdict /\ plays' = plays
        BY <3>1 DEF vars, traceVars, sigVars, playVars, poolP
      <3>4. PlayTyped'
        BY <2>1, <3>3 DEF PlayTyped, PlayTypeOK
      <3>5. Reproduces'
        BY <2>1, <3>3 DEF Reproduces, Intact, Settled, Rebuilds, Ended, Holds, Counts, Keeps,
                          NoCrashBefore, Current
      <3> QED BY <3>2, <3>4, <3>5, Zenon DEF PlayInv
    <2> QED
      BY <2>2, <2>3, <2>4, Zenon DEF PlayNext, PlayStep
  <1> QED
    BY <1>1, <1>2, PTL DEF PlaySpec

-----------------------------------------------------------------------------

\* Where an intact trace first crashed, the play stopped, and nowhere else.
LEMMA ReproducesVerdict == TraceTyped /\ PlayTyped /\ Reproduces => ReplayReproduces
  <1> SUFFICES ASSUME TraceTyped, PlayTyped, Reproduces, Intact, exitLoop = 0, ppc = "over"
               PROVE  verdict = IF FirstCrash = {} THEN "none"
                                ELSE IF Len(calls) \in FirstCrash THEN "last" ELSE "middle"
    BY DEF ReplayReproduces
  <1>1. DOMAIN calls = 1 .. Len(calls) /\ DOMAIN fate = 1 .. Len(calls) /\ Len(calls) \in Nat
    BY TypedTrace
  <1>2. Ended
    BY DEF Reproduces
  <1>3. CASE verdict = "none" /\ NoCrashBefore(Len(calls) + 1)
    BY <1>1, <1>3 DEF NoCrashBefore, FirstCrash
  <1>4. CASE /\ verdict = (IF pidx = Len(calls) THEN "last" ELSE "middle")
             /\ pidx \in DOMAIN calls /\ NoCrashBefore(pidx) /\ fate[pidx] = "crash"
    <2>1. pidx \in FirstCrash
      BY <1>1, <1>4 DEF NoCrashBefore, FirstCrash
    <2>2. Len(calls) \in FirstCrash <=> pidx = Len(calls)
      BY <1>1, <1>4, <2>1 DEF FirstCrash
    <2> QED BY <1>4, <2>1, <2>2
  <1> QED
    BY <1>2, <1>3, <1>4 DEF Ended

\* Two pools that the trace explains are the same.
LEMMA ReproducesPool ==
    Clean /\ TraceTyped /\ PoolType /\ PlayTyped /\ Reproduces => ReplayRebuildsPool
  <1> SUFFICES ASSUME Clean, TraceTyped, PoolType, PlayTyped, Reproduces,
                      sigints = 0, ppc = "over", verdict # "middle"
               PROVE  ptree = tree /\ plen = len
    BY DEF ReplayRebuildsPool
  <1>1. Intact /\ Holds(tree, Len(calls)) /\ Counts(tree, len)
    BY DEF Clean
  <1>2. exitLoop = 0
    BY DEF PlayTyped
  <1>3. Ended /\ Counts(ptree, plen)
    BY <1>1, <1>2 DEF Reproduces
  <1>4. Holds(ptree, Len(calls))
    BY <1>2, <1>3 DEF Ended
  <1>5. \A t \in Type : ptree[t] = tree[t]
    BY <1>1, <1>4 DEF Holds
  <1>6. \A t \in Type : plen[t] = len[t]
    BY <1>1, <1>3, <1>5 DEF Counts
  <1> QED
    BY <1>5, <1>6 DEF PoolType, PlayTyped, PlayTypeOK

\* A session without ^C leaves a trace without a call that never happened and
\* without the result of a failed one as an argument (minerva_call.c:126-148).
THEOREM CleanTraceIsIntact == PlaySpec => []CleanSessionIsIntact
  <1>1. PlayInv => CleanSessionIsIntact
    BY PlayInvTrace, IdleClean, Zenon DEF PlayInv, LoopInv, Clean, CleanSessionIsIntact
  <1> QED
    BY <1>1, PlayInvAlways, PTL

\* play reports what happened to every trace that ^C has left intact, from
\* whatever session it comes (minerva_trace.c:62-123).
THEOREM PlayReproduces == PlaySpec => []ReplayReproduces
  <1>1. PlayInv => ReplayReproduces
    BY PlayInvTrace, ReproducesVerdict, Zenon DEF PlayInv
  <1> QED
    BY <1>1, PlayInvAlways, PTL

\* In a session without ^C it ends with the variables and the counters the
\* context has, unless it stopped in the middle (minerva_trace.c:88-106).
THEOREM PlayRebuildsPool == PlaySpec => []ReplayRebuildsPool
  <1>1. PlayInv => ReplayRebuildsPool
    <2> SUFFICES ASSUME PlayInv, ppc = "over" PROVE ReplayRebuildsPool
      BY DEF ReplayRebuildsPool
    <2>1. LogInv /\ LogTells /\ TraceTyped /\ TypeFrame /\ PlayTyped /\ Reproduces
      BY PlayInvTrace, Zenon DEF PlayInv, LoopInv
    <2>2. pc = "idle"
      BY <2>1 DEF PlayTyped
    <2>3. Clean
      BY <2>1, <2>2, IdleClean, Zenon
    <2> QED BY <2>1, <2>3, ReproducesPool, Zenon DEF TypeFrame, TypeOK
  <1> QED
    BY <1>1, PlayInvAlways, PTL

-----------------------------------------------------------------------------
(* What holds in every session *)

\* The calls of a sequence are typed, and have an argument for each slot.
CallsTyped(s) == s \in Seq(RecordedCall) /\ \A k \in DOMAIN s : DOMAIN s[k].args = Slots(s[k].func)

\* The file holds the first lines of the trace that was saved, the last of them
\* perhaps cut.
FileInv ==
    /\ CallsTyped(made) /\ file.lines \in Seq(RecordedCall) /\ Len(file.lines) <= Len(made)
    /\ \A k \in DOMAIN file.lines : file.lines[k] = made[k]
    /\ IF file.lines = <<>> THEN file.last = 0
       ELSE file.last \in 1 .. Pieces(file.lines[Len(file.lines)])

\* Which calls the second process may say something of: those it has from the
\* file as they were made.  Without ^C the file has all of them, or none.
FileTrace ==
    /\ Len(file.lines) <= Len(calls)
    /\ \A k \in DOMAIN file.lines : Settled(k) => calls[k] = made[k]
    /\ sigints = 0 => file = Whole(made) /\ (made = calls \/ made = <<>>)

\* The second process may have got no call at all; it then plays nothing.
Kept == sigints = 0 => /\ Intact
                       /\ calls # <<>> => Holds(tree, Len(calls)) /\ Counts(tree, len)

Processes ==
    /\ proc \in {"fuzz", "saved", "play", "dead"} /\ kind \in Kinds /\ asked \in Iters \cup {0}
    /\ proc = "fuzz" => LoopInv /\ ppc = "off" /\ pidx = 0 /\ file = Whole(<<>>) /\ made = <<>>
    /\ proc # "fuzz" => PoolType /\ Kept
    /\ proc = "saved" => pc = "idle" /\ ppc = "off" /\ FileTrace
    /\ proc = "play" => pc \in {"idle", "panic"} /\ FileTrace /\ RestoreGivesBack

SessionInv == TraceTyped /\ Sound /\ PlayTyped /\ Reproduces /\ FileInv /\ Processes

-----------------------------------------------------------------------------
(* Reading a line *)

\* So many pieces of a sequence of numbers
LEMMA Cut ==
    ASSUME NEW s \in Seq(Nat), NEW n \in Int, n <= Len(s)
    PROVE  /\ SubSeq(s, 1, n) \in Seq(Nat) /\ Len(s) \in Nat
           /\ Len(SubSeq(s, 1, n)) = IF n > 0 THEN n ELSE 0
           /\ \A i \in 1 .. n : SubSeq(s, 1, n)[i] = s[i]
  OBVIOUS

\* What is read in place of arguments are numbers, whatever there is to be read.
LEMMA ArgsRead ==
    ASSUME NEW f \in Func, NEW text \in Seq(Nat), NEW stale \in Nat
    PROVE  /\ ReadArgs(f, text, stale) \in Seq(Nat)
           /\ DOMAIN ReadArgs(f, text, stale) = Slots(f)
  <1> DEFINE r == ReadArgs(f, text, stale)
  <1>1. Len(Args[f]) \in Nat
    BY Table
  <1>2. DOMAIN r = 1 .. Len(Args[f])
    BY DEF ReadArgs, Slots
  <1>3. ASSUME NEW i \in Slots(f) PROVE r[i] \in Nat
    <2>1. r[i] = IF i <= Len(text) THEN text[i]
                 ELSE IF text # <<>> THEN Last(text) ELSE stale
      BY DEF ReadArgs
    <2>2. CASE i <= Len(text)
      <3>1. i \in 1 .. Len(text)
        BY <1>1, <2>2 DEF Slots
      <3> QED BY <2>1, <2>2, <3>1
    <2>3. CASE ~(i <= Len(text)) /\ text # <<>>
      <3>1. Len(text) \in 1 .. Len(text)
        BY <2>3
      <3> QED BY <2>1, <2>3, <3>1 DEF Last
    <2>4. CASE ~(i <= Len(text)) /\ text = <<>>
      BY <2>1, <2>4
    <2> QED BY <2>2, <2>3, <2>4
  <1>4. r = [i \in 1 .. Len(Args[f]) |-> r[i]]
    BY DEF ReadArgs, Slots
  <1> HIDE DEF r
  <1>5. r \in [1 .. Len(Args[f]) -> Nat]
    BY <1>3, <1>4 DEF Slots
  <1>6. r \in Seq(Nat)
    BY <1>1, <1>5
  <1> QED
    BY <1>2, <1>6 DEF r, Slots

\* A line, however far it goes, is read as a call with the line's identifier.
LEMMA LineRead ==
    ASSUME NEW prev \in RecordedCall, NEW call \in RecordedCall, NEW m \in 1 .. Pieces(call),
           NEW r \in ReadLine(prev, call, m)
    PROVE  r \in RecordedCall /\ DOMAIN r.args = Slots(r.func) /\ r.result = call.result
  <1>1. /\ prev.func \in Func /\ prev.args \in Seq(Nat)
        /\ call.func \in Func /\ call.result \in Nat /\ call.args \in Seq(Nat)
    BY DEF RecordedCall
  <1> DEFINE text == SubSeq(call.args, 1, m - 3)
             stale == LeftBehind(prev)
  <1>2. PICK g \in CASE m = 1 -> {prev.func}
                     [] m = 2 -> Shorter[call.func]
                     [] OTHER -> {call.func} :
             r = [func |-> g, result |-> call.result, args |-> ReadArgs(g, text, stale)]
    BY DEF ReadLine
  <1>3. g \in Func
    BY <1>1, <1>2, SessionConstants
  <1>4. text \in Seq(Nat)
    <2>1. m - 3 \in Int /\ m - 3 <= Len(call.args)
      BY <1>1 DEF Pieces
    <2> QED BY <1>1, <2>1, Cut
  <1>5. stale \in Nat
    BY <1>1 DEF LeftBehind, Last
  <1> HIDE DEF text, stale
  <1>6. ReadArgs(g, text, stale) \in Seq(Nat) /\ DOMAIN ReadArgs(g, text, stale) = Slots(g)
    BY <1>3, <1>4, <1>5, ArgsRead
  <1> QED
    BY <1>1, <1>2, <1>3, <1>6 DEF RecordedCall

\* A whole line is read as the call it was written from.
LEMMA LineWhole ==
    ASSUME NEW prev, NEW call \in RecordedCall, DOMAIN call.args = Slots(call.func),
           NEW r \in ReadLine(prev, call, Pieces(call))
    PROVE  r = call
  <1>1. call.func \in Func /\ call.args \in Seq(Nat) /\ Len(call.args) \in Nat
    BY DEF RecordedCall
  <1> DEFINE text == SubSeq(call.args, 1, Pieces(call) - 3)
  <1>2. r = [func |-> call.func, result |-> call.result,
             args |-> ReadArgs(call.func, text, LeftBehind(prev))]
    <2>1. Pieces(call) # 1 /\ Pieces(call) # 2
      BY <1>1 DEF Pieces
    <2> QED BY <2>1 DEF ReadLine
  <1>3. text = call.args
    BY <1>1 DEF Pieces
  <1>4. \A i \in Slots(call.func) : i <= Len(call.args)
    BY <1>1
  <1>5. ReadArgs(call.func, text, LeftBehind(prev)) = [i \in Slots(call.func) |-> call.args[i]]
    BY <1>3, <1>4 DEF ReadArgs
  <1>6. call.args = [i \in Slots(call.func) |-> call.args[i]]
    BY <1>1
  <1> QED
    BY <1>2, <1>5, <1>6 DEF RecordedCall

\* What is restored
LEMMA RestoredCalls ==
    ASSUME FileInv, NEW trace \in Restored
    PROVE  /\ CallsTyped(trace) /\ Len(trace) = Len(file.lines) /\ Len(trace) \in Nat
           /\ DOMAIN trace = 1 .. Len(trace) /\ DOMAIN file.lines = DOMAIN trace
           /\ \A k \in DOMAIN trace :
                 /\ trace[k].result = made[k].result
                 /\ k < Len(trace) \/ IsWhole(file) => trace[k] = made[k]
  <1> DEFINE lines == file.lines
             prev(k) == lines[IF k = 1 THEN 1 ELSE k - 1]
             pieces(k) == IF k = Len(lines) THEN file.last ELSE Pieces(lines[k])
             read(k) == ReadLine(prev(k), lines[k], pieces(k))
  <1>1. /\ lines \in Seq(RecordedCall) /\ Len(lines) \in Nat /\ DOMAIN lines = 1 .. Len(lines)
        /\ \A k \in DOMAIN lines : lines[k] \in RecordedCall /\ lines[k] = made[k]
                                   /\ DOMAIN lines[k].args = Slots(lines[k].func)
    <2>1. lines \in Seq(RecordedCall) /\ made \in Seq(RecordedCall) /\ Len(lines) <= Len(made)
      BY DEF FileInv, CallsTyped
    <2>2. /\ Len(lines) \in Nat /\ DOMAIN lines = 1 .. Len(lines) /\ DOMAIN made = 1 .. Len(made)
          /\ \A k \in DOMAIN lines : lines[k] \in RecordedCall
          /\ Len(made) \in Nat
      BY <2>1, SeqIsFunction
    <2>3. \A k \in DOMAIN lines : k \in DOMAIN made
      BY <2>1, <2>2
    <2> QED BY <2>1, <2>2, <2>3 DEF FileInv, CallsTyped
  <1>2. /\ DOMAIN trace = DOMAIN lines
        /\ trace = [k \in DOMAIN lines |-> trace[k]]
        /\ \A k \in DOMAIN lines : trace[k] \in read(k)
    BY DEF Restored
  <1>3. ASSUME NEW k \in DOMAIN lines
        PROVE  /\ trace[k] \in RecordedCall /\ DOMAIN trace[k].args = Slots(trace[k].func)
               /\ trace[k].result = made[k].result
               /\ k < Len(lines) \/ IsWhole(file) => trace[k] = made[k]
    <2>1. prev(k) \in RecordedCall
      BY <1>1
    <2>2. pieces(k) \in 1 .. Pieces(lines[k])
      <3>1. Pieces(lines[k]) \in Nat /\ Pieces(lines[k]) >= 3
        BY <1>1 DEF Pieces, RecordedCall
      <3>2. CASE k = Len(lines)
        <4>1. lines # <<>>
          BY <1>1
        <4> QED BY <3>2, <4>1 DEF FileInv
      <3>3. CASE k # Len(lines)
        BY <3>1, <3>3
      <3> QED BY <3>2, <3>3
    <2>3. PICK p, c, m : p = prev(k) /\ c = lines[k] /\ m = pieces(k)
      OBVIOUS
    <2>4. PICK r : r = trace[k]
      OBVIOUS
    <2>5. r \in ReadLine(p, c, m)
      BY <1>2, <2>3, <2>4
    <2>6. /\ p \in RecordedCall /\ c \in RecordedCall /\ m \in 1 .. Pieces(c)
          /\ DOMAIN c.args = Slots(c.func) /\ c = made[k]
      BY <1>1, <2>1, <2>2, <2>3
    <2>7. r \in RecordedCall /\ DOMAIN r.args = Slots(r.func) /\ r.result = c.result
      BY <2>5, <2>6, LineRead
    <2>8. k < Len(lines) \/ IsWhole(file) => m = Pieces(c)
      <3>1. CASE k < Len(lines)
        BY <1>1, <2>3, <3>1
      <3>2. CASE IsWhole(file) /\ k = Len(lines)
        <4>1. lines # <<>>
          BY <1>1
        <4>2. file.last = Pieces(lines[Len(lines)])
          BY <3>2, <4>1 DEF IsWhole, Whole, Last
        <4> QED BY <2>3, <3>2, <4>2
      <3>3. k < Len(lines) \/ k = Len(lines)
        BY <1>1
      <3> HIDE DEF pieces
      <3>4. CASE IsWhole(file) /\ k # Len(lines)
        BY <3>1, <3>3, <3>4
      <3> QED BY <3>1, <3>2, <3>3, <3>4
    <2>9. k < Len(lines) \/ IsWhole(file) => r = c
      BY <2>5, <2>6, <2>8, LineWhole, Zenon
    <2> QED BY <2>4, <2>6, <2>7, <2>9
  <1>4. trace \in Seq(RecordedCall) /\ Len(trace) = Len(lines)
    <2>1. trace \in [1 .. Len(lines) -> RecordedCall]
      BY <1>1, <1>2, <1>3
    <2> QED BY <1>1, <2>1
  <1> QED
    BY <1>1, <1>2, <1>3, <1>4 DEF CallsTyped

\* What became of a call is known only of calls that came back as they were made.
LEMMA SettledBack ==
    ASSUME TraceTyped, FileInv, FileTrace, Restore
    PROVE  /\ CallsTyped(calls') /\ Len(calls') = Len(file.lines)
           /\ DOMAIN calls' = DOMAIN file.lines /\ Len(calls') \in Nat
           /\ DOMAIN calls' = 1 .. Len(calls') /\ DOMAIN calls' \subseteq DOMAIN calls
           /\ fate' = [k \in DOMAIN calls' |-> IF calls'[k] = made[k] THEN fate[k] ELSE "recorded"]
           /\ \A k \in DOMAIN calls' :
                 /\ calls'[k].result = made[k].result
                 /\ k < Len(calls') \/ IsWhole(file) => calls'[k] = made[k]
                 /\ Settled(k)' => /\ calls'[k] = calls[k] /\ calls'[k] = made[k]
                                   /\ fate'[k] = fate[k] /\ Settled(k)
  <1>0. PICK trace : trace = calls'
    OBVIOUS
  <1>1. trace \in Restored
    BY <1>0 DEF Restore
  <1>2. /\ CallsTyped(trace) /\ Len(trace) = Len(file.lines) /\ Len(trace) \in Nat
        /\ DOMAIN trace = 1 .. Len(trace) /\ DOMAIN file.lines = DOMAIN trace
        /\ \A k \in DOMAIN trace :
              /\ trace[k].result = made[k].result
              /\ k < Len(trace) \/ IsWhole(file) => trace[k] = made[k]
    BY <1>1, RestoredCalls
  <1>3. DOMAIN calls = 1 .. Len(calls) /\ Len(calls) \in Nat /\ Len(file.lines) <= Len(calls)
    BY TypedTrace DEF FileTrace
  <1>4. fate' = [k \in DOMAIN calls' |-> IF calls'[k] = made[k] THEN fate[k] ELSE "recorded"]
    BY DEF Restore
  <1>5. ASSUME NEW k \in DOMAIN trace, Settled(k)'
        PROVE  trace[k] = calls[k] /\ trace[k] = made[k] /\ fate'[k] = fate[k] /\ Settled(k)
    <2>1. fate'[k] = IF trace[k] = made[k] THEN fate[k] ELSE "recorded"
      BY <1>0, <1>4
    <2>2. trace[k] = made[k] /\ fate'[k] = fate[k]
      BY <1>5, <2>1 DEF Settled
    <2>3. Settled(k)
      BY <1>5, <2>2 DEF Settled
    <2>4. calls[k] = made[k]
      BY <1>2, <2>3 DEF FileTrace
    <2> QED BY <2>2, <2>3, <2>4
  <1>6. DOMAIN trace \subseteq DOMAIN calls
    BY <1>2, <1>3
  <1>7. \A k \in DOMAIN trace : Settled(k)' =>
            trace[k] = calls[k] /\ trace[k] = made[k] /\ fate'[k] = fate[k] /\ Settled(k)
    BY <1>5
  <1> QED
    BY <1>0, <1>2, <1>4, <1>6, <1>7 DEF Settled

\* Without ^C the file is whole, and gives back all calls or none.
LEMMA WholeBack ==
    ASSUME TraceTyped, FileInv, FileTrace, Restore, sigints = 0
    PROVE  /\ file = Whole(made) /\ calls' = made
           /\ calls # <<>> /\ made = calls => fate' = fate
           /\ made = calls \/ made = <<>>
  <1>1. file = Whole(made) /\ (made = calls \/ made = <<>>)
    BY DEF FileTrace
  <1>2. file.lines = made /\ IsWhole(file)
    BY <1>1 DEF Whole, IsWhole
  <1>3. PICK trace : trace = calls'
    OBVIOUS
  <1>4. /\ trace \in Seq(RecordedCall) /\ made \in Seq(RecordedCall) /\ Len(trace) = Len(made)
        /\ DOMAIN trace = 1 .. Len(trace) /\ \A k \in DOMAIN trace : trace[k] = made[k]
    BY <1>2, <1>3, SettledBack DEF CallsTyped, FileInv
  <1>5. trace = made
    <2>1. trace = [k \in 1 .. Len(trace) |-> trace[k]] /\ made = [k \in 1 .. Len(made) |-> made[k]]
      BY <1>4, SeqEntries
    <2> QED BY <1>4, <2>1
  <1>6. ASSUME made = calls PROVE fate' = fate
    <2>1. fate' = [k \in DOMAIN calls |-> fate[k]]
      BY <1>3, <1>5, <1>6 DEF Restore
    <2>2. fate = [k \in 1 .. Len(fate) |-> fate[k]]
      BY SeqEntries DEF TraceTyped, TraceType
    <2>3. DOMAIN calls = 1 .. Len(fate)
      BY TypedTrace DEF TraceTyped, TraceType
    <2> QED BY <2>1, <2>2, <2>3
  <1> QED
    BY <1>1, <1>3, <1>5, <1>6

\* The second process gets a trace it may play.
LEMMA RestoreStep == SessionInv /\ Restore => SessionInv'
  <1> SUFFICES ASSUME SessionInv, Restore PROVE SessionInv'
    OBVIOUS
  <1>1. /\ TraceTyped /\ Sound /\ PlayTyped /\ FileInv /\ FileTrace /\ PoolType /\ Kept
        /\ pc = "idle" /\ ppc = "off" /\ kind \in Kinds /\ asked \in Iters \cup {0}
    BY DEF SessionInv, Processes, Restore
  <1>2. /\ pc' = pc /\ ppc' = "off" /\ proc' = "play" /\ kind' = kind /\ asked' = asked
        /\ file' = file /\ made' = made /\ sigints' = sigints /\ exitLoop' = exitLoop
        /\ tree' = tree /\ len' = len /\ curId' = curId
        /\ ptree' = ptree /\ plen' = plen /\ pcurId' = pcurId /\ plays' = plays
        /\ pidx' = 0 /\ pnew' = Unset /\ verdict' = "none"
    BY <1>1 DEF Restore, poolVars, poolP, cmdline
  <1>3. /\ CallsTyped(calls') /\ Len(calls') = Len(file.lines)
        /\ DOMAIN calls' = DOMAIN file.lines /\ Len(calls') \in Nat
        /\ DOMAIN calls' = 1 .. Len(calls') /\ DOMAIN calls' \subseteq DOMAIN calls
        /\ fate' = [k \in DOMAIN calls' |-> IF calls'[k] = made[k] THEN fate[k] ELSE "recorded"]
        /\ \A k \in DOMAIN calls' :
              /\ calls'[k].result = made[k].result
              /\ k < Len(calls') \/ IsWhole(file) => calls'[k] = made[k]
              /\ Settled(k)' => /\ calls'[k] = calls[k] /\ calls'[k] = made[k]
                                /\ fate'[k] = fate[k] /\ Settled(k)
    BY <1>1, SettledBack
  <1>4. TraceTyped'
    <2>1. \A k \in DOMAIN calls' : fate'[k] \in Fates
      <3>1. \A k \in DOMAIN calls : fate[k] \in Fates
        BY <1>1, TypedTrace
      <3> QED BY <1>3, <3>1 DEF Fates
    <2>2. PICK g, n : g = fate' /\ n = Len(calls')
      OBVIOUS
    <2>3. g \in [1 .. n -> Fates] /\ n \in Nat
      BY <1>3, <2>1, <2>2
    <2>4. g \in Seq(Fates) /\ Len(g) = n
      BY <2>3
    <2> QED BY <1>3, <2>2, <2>4 DEF TraceTyped, TraceType, CallsTyped
  <1>5. Sound'
    <2>1. ASSUME NEW k \in DOMAIN calls', Settled(k)'
          PROVE  /\ k \in DOMAIN calls /\ Settled(k) /\ calls'[k] = calls[k] /\ fate'[k] = fate[k]
      BY <1>3, <2>1
    <2>2. ASSUME NEW k \in DOMAIN calls', Settled(k)'
          PROVE  \A i \in Slots(calls[k].func) :
              LET f == calls[k].func
                  v == calls[k].args[i]
              IN  /\ v < calls[k].result
                  /\ \A j \in DOMAIN calls' :
                        Settled(j)' /\ calls'[j].result = v => RetType[calls'[j].func] = TypeOf(f, i)
                  /\ \A j \in 1 .. k - 1 : fate'[j] \in {"ok", "fail"} =>
                        \A d \in DestroySlots(calls'[j].func) :
                            TypeOf(calls'[j].func, d) = TypeOf(f, i) => calls'[j].args[d] # v
      <3> SUFFICES ASSUME NEW i \in Slots(calls[k].func)
                   PROVE  /\ calls[k].args[i] < calls[k].result
                          /\ \A j \in DOMAIN calls' :
                                Settled(j)' /\ calls'[j].result = calls[k].args[i]
                                    => RetType[calls'[j].func] = TypeOf(calls[k].func, i)
                          /\ \A j \in 1 .. k - 1 : fate'[j] \in {"ok", "fail"} =>
                                \A d \in DestroySlots(calls'[j].func) :
                                    TypeOf(calls'[j].func, d) = TypeOf(calls[k].func, i)
                                        => calls'[j].args[d] # calls[k].args[i]
        OBVIOUS
      <3>1. k \in DOMAIN calls /\ Settled(k)
        BY <2>1, <2>2
      <3>2. ASSUME NEW j \in DOMAIN calls', Settled(j)', calls'[j].result = calls[k].args[i]
            PROVE  RetType[calls'[j].func] = TypeOf(calls[k].func, i)
        <4>1. j \in DOMAIN calls /\ Settled(j) /\ calls'[j] = calls[j]
          BY <2>1, <3>2
        <4> QED BY <1>1, <3>1, <3>2, <4>1 DEF Sound
      <3>3. ASSUME NEW j \in 1 .. k - 1, fate'[j] \in {"ok", "fail"}, NEW d \in DestroySlots(calls'[j].func),
                   TypeOf(calls'[j].func, d) = TypeOf(calls[k].func, i)
            PROVE  calls'[j].args[d] # calls[k].args[i]
        <4>1. j \in DOMAIN calls'
          BY <1>3
        <4>2. Settled(j)'
          BY <3>3 DEF Settled
        <4>3. calls'[j] = calls[j] /\ fate[j] \in {"ok", "fail"}
          BY <2>1, <3>3, <4>1, <4>2
        <4> QED BY <1>1, <3>1, <3>3, <4>3 DEF Sound
      <3>4. calls[k].args[i] < calls[k].result
        BY <1>1, <3>1 DEF Sound
      <3> QED BY <3>2, <3>3, <3>4
    <2>3. ASSUME NEW k \in DOMAIN calls', Settled(k)'
          PROVE  \A i, j \in DestroySlots(calls[k].func) :
              i # j /\ TypeOf(calls[k].func, i) = TypeOf(calls[k].func, j)
                  => calls[k].args[i] # calls[k].args[j]
      BY <1>1, <2>1, <2>3 DEF Sound
    <2> QED BY <2>1, <2>2, <2>3 DEF Sound
  <1>6. PlayTyped'
    BY <1>1, <1>2, <1>3 DEF PlayTyped, PlayTypeOK
  <1>7. Reproduces'
    BY <1>2 DEF Reproduces, Rebuilds, Ended
  <1>8. FileInv'
    BY <1>1, <1>2 DEF FileInv, CallsTyped, Pieces
  <1>9. FileTrace'
    <2>1. sigints = 0 => file = Whole(made) /\ made = calls'
      BY <1>1, WholeBack
    <2> QED BY <1>2, <1>3, <2>1 DEF FileTrace, Whole, Pieces
  <1>10. RestoreGivesBack'
    <2>1. sigints = 0 => calls' = made
      BY <1>1, WholeBack
    <2> QED BY <1>2, <1>3, <2>1 DEF RestoreGivesBack, IsWhole, Whole, Pieces
  <1>11. Kept'
    <2> SUFFICES ASSUME sigints = 0
                 PROVE  Intact' /\ (calls' # <<>> => Holds(tree, Len(calls))' /\ Counts(tree, len)')
      BY <1>2 DEF Kept
    <2>1. calls' = made /\ (made = calls \/ made = <<>>)
      BY <1>1, WholeBack
    <2>2. CASE calls' # <<>>
      <3>1. calls' = calls /\ fate' = fate
        BY <1>1, <2>1, <2>2, WholeBack
      <3>2. Intact' /\ Counts(tree, len)'
        BY <1>1, <1>2, <2>2, <3>1 DEF Kept, Intact, Settled, Counts
      <3>3. Holds(tree, Len(calls))'
        BY <1>1, <1>2, <2>2, <3>1 DEF Kept, Holds, Keeps
      <3> QED BY <3>2, <3>3
    <2>3. CASE calls' = <<>>
      BY <1>3, <2>3 DEF Intact
    <2> QED BY <2>2, <2>3
  <1>12. PoolType'
    BY <1>1, <1>2 DEF PoolType
  <1>13. Processes'
    BY <1>1, <1>2, <1>9, <1>10, <1>11, <1>12 DEF Processes
  <1> QED
    BY <1>4, <1>5, <1>6, <1>7, <1>8, <1>13, Zenon DEF SessionInv

-----------------------------------------------------------------------------
(* The steps of the first process *)

\* Loops that main starts may run for numbers the user cannot ask for.
LEMMA StartStands ==
    ASSUME TypeFrame, NEW iter \in Nat \cup {Forever}, NEW mode \in BOOLEAN, Start(iter, mode)
    PROVE  Stands
  <1> USE DEF poolVars, traceVars, frameVars
  <1>1. /\ UNCHANGED <<poolVars, traceVars, frameVars>> /\ sigints' = sigints
        /\ pc = "idle" /\ pc' = "pick" /\ left' = iter /\ starts' = starts + 1
        /\ segv' = 0 /\ exitLoop' = 0 /\ blocked' = blocked
    BY DEF Start
  <1>2. starts \in Nat /\ sigints \in 0 .. MaxSigint
    BY DEF TypeFrame, TypeOK, ControlType, SignalType
  <1>3. mode \in BOOLEAN /\ blocked \in BOOLEAN /\ mutate' = mode /\ crash' = FALSE
    BY Zenon DEF TypeFrame, TypeOK, FlagType, Start
  <1>4. mutate' \in BOOLEAN /\ blocked' \in BOOLEAN /\ crash' \in BOOLEAN
    BY <1>1, <1>3, Zenon
  <1> QED
    BY <1>1, <1>2, <1>4 DEF Stands

\* A step of the loop, whoever makes it
LEMMA FuzzStep ==
    ASSUME SessionInv, proc = "fuzz", LoopInv',
           Len(calls') \in {Len(calls), Len(calls) + 1}, UNCHANGED <<playVars, cmdline, proc, file, made>>
    PROVE  SessionInv'
  <1>1. /\ PlayTyped /\ FileInv /\ ppc = "off" /\ pidx = 0
        /\ file = Whole(<<>>) /\ made = <<>> /\ kind \in Kinds /\ asked \in Iters \cup {0}
        /\ TraceTyped
    BY DEF SessionInv, Processes
  <1>2. /\ ppc' = "off" /\ ptree' = ptree /\ plen' = plen /\ pcurId' = pcurId /\ pidx' = pidx
        /\ pnew' = pnew /\ verdict' = verdict /\ plays' = plays
        /\ kind' = kind /\ asked' = asked /\ proc' = proc /\ file' = file /\ made' = made
    BY <1>1 DEF playVars, poolP, cmdline
  <1>3. TypeFrame' /\ Destruction' /\ TraceInv'
    BY Zenon DEF LoopInv, PoolInv
  <1>4. TraceTyped' /\ Sound'
    BY <1>3, LoopTrace, PTL
  <1>5. PlayTyped'
    <2>1. sigints' \in Nat /\ Len(calls) \in Nat
      BY <1>1, <1>3, TypedTrace, LoopConstants DEF TypeFrame, TypeOK, SignalType
    <2> QED BY <1>1, <1>2, <2>1 DEF PlayTyped, PlayTypeOK
  <1>6. Reproduces'
    BY <1>2 DEF Reproduces, Rebuilds, Ended
  <1>7. FileInv'
    BY <1>1, <1>2 DEF FileInv, CallsTyped, Pieces
  <1>8. Processes'
    BY <1>1, <1>2 DEF Processes, Whole, Pieces
  <1> QED
    BY <1>4, <1>5, <1>6, <1>7, <1>8, Zenon DEF SessionInv

LEMMA MainLoopStep == SessionInv /\ MainLoop => SessionInv'
  <1> SUFFICES ASSUME SessionInv, MainLoop PROVE SessionInv'
    OBVIOUS
  <1>1. proc = "fuzz" /\ LoopInv /\ asked \in Iters \cup {0}
    BY DEF SessionInv, Processes, MainLoop
  <1>2. TypeFrame
    BY <1>1, Zenon DEF LoopInv, PoolInv
  <1>3. PICK iter, mode : /\ iter = (IF mode THEN Shared(asked) ELSE asked)
                          /\ mode = (starts > 0 /\ ~mutate) /\ Start(iter, mode)
    BY DEF MainLoop
  <1>4. iter \in Nat \cup {Forever}
    <2>1. asked \in Nat \cup {Forever}
      BY <1>1, LoopConstants
    <2>2. Shared(asked) \in Nat \cup {Forever}
      BY <2>1, SessionConstants DEF Shared, Forever
    <2> QED BY <1>3, <2>1, <2>2
  <1>5. mode \in BOOLEAN
    BY <1>3
  <1>6. LoopInv'
    BY <1>1, <1>2, <1>3, <1>4, <1>5, StartStands, LoopStands, Zenon
  <1>7. calls' = calls
    BY <1>3 DEF Start, traceVars
  <1> QED
    BY <1>1, <1>6, <1>7, FuzzStep DEF MainLoop

LEMMA LoopSessionStep ==
    ASSUME SessionInv, proc = "fuzz", Next, UNCHANGED <<playVars, cmdline, proc, file, made>>
    PROVE  SessionInv'
  <1>1. LoopInv
    BY DEF SessionInv, Processes
  <1>2. TypeFrame
    BY <1>1, Zenon DEF LoopInv, PoolInv
  <1>3. LoopInv'
    BY <1>1, LoopInvStep, Zenon
  <1>4. Len(calls') \in {Len(calls), Len(calls) + 1}
    BY <1>2, CallsGrow, Zenon
  <1> QED
    BY <1>3, <1>4, FuzzStep

-----------------------------------------------------------------------------
(* The file and the second process *)

\* What is in memory when a process writes the file
LEMMA Saving ==
    ASSUME SessionInv, AtSave
    PROVE  /\ PoolType /\ Kept /\ pc = "idle" /\ ppc = "off" /\ CallsTyped(calls)
           /\ proc = "play" => FileTrace /\ RestoreGivesBack
           /\ proc = "fuzz" => file = Whole(<<>>) /\ made = <<>>
           /\ proc \in {"fuzz", "play"}
  <1>1. CASE proc = "fuzz" /\ pc = "idle"
    <2>1. LoopInv /\ ppc = "off" /\ file = Whole(<<>>) /\ made = <<>>
      BY <1>1 DEF SessionInv, Processes
    <2>2. LogInv /\ LogTells /\ TypeFrame
      BY <2>1, LoopInvLog, Zenon DEF LoopInv, PoolInv
    <2>3. Clean
      BY <1>1, <2>2, IdleClean
    <2>4. PoolType
      BY <2>2, Zenon DEF TypeFrame, TypeOK
    <2> QED
      BY <1>1, <2>1, <2>3, <2>4 DEF Clean, Kept, SessionInv, TraceTyped, TraceType, CallsTyped
  <1>2. CASE proc = "play" /\ pc = "idle" /\ ppc = "off"
    BY <1>2 DEF SessionInv, Processes, TraceTyped, TraceType, CallsTyped
  <1> QED
    BY <1>1, <1>2 DEF AtSave

\* What the processes have in memory stays as it is while the file is written.
LEMMA WritingStep ==
    ASSUME SessionInv, AtSave, UNCHANGED <<loopOnly, pc, exitLoop, playVars, cmdline>>,
           sigints' \in {sigints, sigints + 1}, proc' = "saved", FileInv', FileTrace'
    PROVE  SessionInv'
  <1> USE DEF loopOnly, poolVars, traceVars, loopVars, frameVars, playVars, poolP, cmdline
  <1>1. /\ PoolType /\ Kept /\ pc = "idle" /\ ppc = "off"
        /\ TraceTyped /\ Sound /\ PlayTyped /\ kind \in Kinds /\ asked \in Iters \cup {0}
    BY Saving DEF SessionInv, Processes
  <1>2. /\ tree' = tree /\ len' = len /\ curId' = curId /\ calls' = calls /\ fate' = fate
        /\ pc' = pc /\ exitLoop' = exitLoop /\ kind' = kind /\ asked' = asked
        /\ ppc' = "off" /\ ptree' = ptree /\ plen' = plen /\ pcurId' = pcurId /\ pidx' = pidx
        /\ pnew' = pnew /\ verdict' = verdict /\ plays' = plays
    BY <1>1
  <1>3. TraceTyped' /\ Sound'
    BY <1>1, <1>2 DEF TraceTyped, TraceType, Sound, Settled
  <1>4. PlayTyped'
    BY <1>1, <1>2 DEF PlayTyped, PlayTypeOK
  <1>5. Reproduces'
    BY <1>2 DEF Reproduces, Rebuilds, Ended
  <1>6. PoolType' /\ Kept'
    <2>1. sigints' = 0 => sigints = 0
      BY <1>1 DEF PlayTyped
    <2>2. (Intact' <=> Intact) /\ (Counts(tree, len)' <=> Counts(tree, len))
      BY <1>2 DEF Intact, Settled, Counts
    <2>3. Holds(tree, Len(calls))' <=> Holds(tree, Len(calls))
      BY <1>2 DEF Holds, Keeps
    <2> QED BY <1>1, <1>2, <2>1, <2>2, <2>3 DEF PoolType, Kept
  <1>7. Processes'
    BY <1>1, <1>2, <1>6 DEF Processes
  <1> QED
    BY <1>3, <1>4, <1>5, <1>7, Zenon DEF SessionInv

LEMMA SaveStep == SessionInv /\ Save => SessionInv'
  <1> SUFFICES ASSUME SessionInv, Save PROVE SessionInv'
    OBVIOUS
  <1> USE DEF allVars, vars, loopOnly, poolVars, traceVars, loopVars, frameVars, sigVars, playVars, poolP, cmdline
  <1>1. AtSave /\ file' = Whole(calls) /\ made' = calls /\ proc' = "saved" /\ UNCHANGED <<allVars, cmdline>>
    BY DEF Save
  <1>2. CallsTyped(calls)
    BY <1>1, Saving
  <1>3. /\ file'.lines = calls
        /\ file'.last = IF calls = <<>> THEN 0 ELSE Pieces(calls[Len(calls)])
    BY <1>1 DEF Whole, Last
  <1>4. calls # <<>> => Pieces(calls[Len(calls)]) \in Nat /\ Pieces(calls[Len(calls)]) >= 1
    <2> SUFFICES ASSUME calls # <<>>
                 PROVE  Pieces(calls[Len(calls)]) \in Nat /\ Pieces(calls[Len(calls)]) >= 1
      OBVIOUS
    <2>1. calls \in Seq(RecordedCall) /\ Len(calls) \in Nat /\ Len(calls) # 0
      BY <1>2 DEF CallsTyped
    <2>2. calls[Len(calls)] \in RecordedCall
      BY <2>1
    <2> QED BY <2>2 DEF RecordedCall, Pieces
  <1>5. FileInv'
    BY <1>1, <1>2, <1>3, <1>4 DEF FileInv, CallsTyped, Pieces
  <1>6. FileTrace'
    BY <1>1, <1>2, <1>3 DEF FileTrace, CallsTyped, Whole, Pieces
  <1> QED
    BY <1>1, <1>5, <1>6, WritingStep

LEMMA SaveFailsStep == SessionInv /\ SaveFails => SessionInv'
  <1> SUFFICES ASSUME SessionInv, SaveFails PROVE SessionInv'
    OBVIOUS
  <1> USE DEF allVars, vars, loopOnly, poolVars, traceVars, loopVars, frameVars, sigVars, playVars, poolP, cmdline
  <1>1. AtSave /\ proc' = "saved" /\ UNCHANGED <<allVars, cmdline, file, made>>
    BY DEF SaveFails
  <1>2. FileTrace
    <2>1. CASE proc = "fuzz"
      <3>1. file = Whole(<<>>) /\ made = <<>> /\ TraceTyped
        BY <1>1, <2>1, Saving DEF SessionInv
      <3>2. file.lines = <<>> /\ Len(calls) \in Nat
        BY <3>1, TypedTrace DEF Whole
      <3> QED BY <3>1, <3>2 DEF FileTrace
    <2> QED BY <1>1, <2>1, Saving
  <1>3. FileInv
    BY DEF SessionInv
  <1>4. FileInv' /\ FileTrace'
    BY <1>1, <1>2, <1>3 DEF FileInv, CallsTyped, FileTrace, Settled, Whole, Pieces
  <1> QED
    BY <1>1, <1>4, WritingStep

\* The file is cut behind some piece of some line.
LEMMA SaveCutStep ==
    ASSUME SessionInv, NEW n \in DOMAIN calls, SaveCut(n)
    PROVE  SessionInv'
  <1>1. /\ AtSave /\ made' = calls /\ proc' = "saved" /\ sigints' = sigints + 1
        /\ UNCHANGED <<loopOnly, pc, exitLoop, playVars, cmdline>>
    BY DEF SaveCut
  <1>2. PICK m \in 1 .. Pieces(calls[n]) : file' = [lines |-> SubSeq(calls, 1, n), last |-> m]
    BY DEF SaveCut
  <1>3. /\ CallsTyped(calls) /\ calls' = calls /\ fate' = fate
    BY <1>1, Saving DEF loopOnly, traceVars
  <1>4. n \in 1 .. Len(calls) /\ Len(calls) \in Nat /\ DOMAIN calls = 1 .. Len(calls)
    BY <1>3 DEF CallsTyped
  <1>5. PICK lines : lines = SubSeq(calls, 1, n)
    OBVIOUS
  <1>6. /\ lines \in Seq(RecordedCall) /\ Len(lines) = n /\ DOMAIN lines = 1 .. n
        /\ \A k \in DOMAIN lines : lines[k] = calls[k]
    <2>1. PICK S, s : S = RecordedCall /\ s = calls
      OBVIOUS
    <2>2. s \in Seq(S) /\ n \in 1 .. Len(s)
      BY <1>3, <1>4, <2>1 DEF CallsTyped
    <2>3. /\ SubSeq(s, 1, n) \in Seq(S) /\ Len(SubSeq(s, 1, n)) = n /\ DOMAIN SubSeq(s, 1, n) = 1 .. n
          /\ \A k \in 1 .. n : SubSeq(s, 1, n)[k] = s[k]
      BY <2>2
    <2> QED BY <1>5, <2>1, <2>3
  <1>7. file'.lines = lines /\ file'.last = m /\ lines # <<>> /\ lines[Len(lines)] = calls[n]
    BY <1>2, <1>4, <1>5, <1>6
  <1>8. FileInv'
    BY <1>1, <1>2, <1>3, <1>4, <1>6, <1>7 DEF FileInv, CallsTyped, Pieces
  <1>9. FileTrace'
    <2>1. sigints \in Nat
      BY DEF SessionInv, PlayTyped
    <2> QED BY <1>1, <1>3, <1>4, <1>6, <1>7, <2>1 DEF FileTrace
  <1> QED
    BY <1>1, <1>8, <1>9, WritingStep

\* The second process plays its trace.
LEMMA SecondPlayStep == SessionInv /\ Play => SessionInv'
  <1> SUFFICES ASSUME SessionInv, Play PROVE SessionInv'
    OBVIOUS
  <1>1. PlayStep /\ proc = "play" /\ UNCHANGED <<cmdline, proc, file, made>>
    BY Zenon DEF Play, PlayStep
  <1>2. /\ TraceTyped /\ Sound /\ PlayTyped /\ Reproduces /\ FileInv
        /\ PoolType /\ Kept /\ pc \in {"idle", "panic"} /\ FileTrace /\ RestoreGivesBack
        /\ kind \in Kinds /\ asked \in Iters \cup {0}
    BY <1>1 DEF SessionInv, Processes
  <1>3. /\ tree' = tree /\ len' = len /\ curId' = curId /\ calls' = calls /\ fate' = fate
        /\ pc' = pc \/ pc' = "panic"
        /\ sigints' = sigints \/ sigints' = sigints + 1
        /\ kind' = kind /\ asked' = asked /\ proc' = proc /\ file' = file /\ made' = made
    BY <1>1, PlayLeaves DEF poolVars, traceVars, loopVars, frameVars, cmdline
  <1>4. PlayTyped' /\ Reproduces'
    BY <1>1, <1>2, PlayTypedStep, ReproducesStep, Zenon
  <1>5. TraceTyped' /\ Sound'
    BY <1>2, <1>3 DEF TraceTyped, TraceType, Sound, Settled
  <1>6. FileInv'
    BY <1>2, <1>3 DEF FileInv, CallsTyped, Pieces
  <1>7. sigints' = 0 => sigints = 0
    BY <1>2, <1>3 DEF PlayTyped
  <1>8. FileTrace' /\ RestoreGivesBack'
    BY <1>2, <1>3, <1>7 DEF FileTrace, RestoreGivesBack, Settled, Whole, IsWhole, Pieces
  <1>9. PoolType' /\ Kept'
    <2>1. (Intact' <=> Intact) /\ (Counts(tree, len)' <=> Counts(tree, len))
      BY <1>3 DEF Intact, Settled, Counts
    <2>2. Holds(tree, Len(calls))' <=> Holds(tree, Len(calls))
      BY <1>3 DEF Holds, Keeps
    <2> QED BY <1>2, <1>3, <1>7, <2>1, <2>2 DEF PoolType, Kept
  <1>10. Processes'
    BY <1>1, <1>2, <1>3, <1>8, <1>9 DEF Processes
  <1> QED
    BY <1>4, <1>5, <1>6, <1>10, Zenon DEF SessionInv

\* A process that ends, and one that does nothing.
LEMMA EndStep == SessionInv /\ (RestoreDies \/ UNCHANGED sessionVars) => SessionInv'
  <1> SUFFICES ASSUME SessionInv, RestoreDies \/ UNCHANGED sessionVars PROVE SessionInv'
    OBVIOUS
  <1>1. UNCHANGED vars /\ UNCHANGED playVars /\ UNCHANGED <<cmdline, file, made>>
    BY DEF RestoreDies, sessionVars, allVars
  <1>2. proc' = proc \/ (proc = "saved" /\ proc' = "dead")
    BY DEF RestoreDies, sessionVars
  <1>3. /\ tree' = tree /\ len' = len /\ curId' = curId /\ calls' = calls /\ fate' = fate
        /\ pc' = pc /\ exitLoop' = exitLoop /\ sigints' = sigints
        /\ ppc' = ppc /\ ptree' = ptree /\ plen' = plen /\ pcurId' = pcurId /\ pidx' = pidx
        /\ pnew' = pnew /\ verdict' = verdict /\ plays' = plays
        /\ kind' = kind /\ asked' = asked /\ file' = file /\ made' = made
    BY <1>1 DEF vars, poolVars, traceVars, loopVars, frameVars, sigVars, playVars, poolP, cmdline
  <1>4. /\ TraceTyped /\ Sound /\ PlayTyped /\ Reproduces /\ FileInv /\ Processes
    BY DEF SessionInv
  <1>5. TraceTyped' /\ Sound' /\ PlayTyped' /\ FileInv'
    BY <1>3, <1>4
    DEF TraceTyped, TraceType, Sound, Settled, PlayTyped, PlayTypeOK, FileInv, CallsTyped, Pieces
  <1>6. Reproduces'
    BY <1>3, <1>4 DEF Reproduces, Intact, Settled, Rebuilds, Ended, Holds, Counts, Keeps,
                      NoCrashBefore, Current
  <1>7. LoopInv => LoopInv'
    BY <1>1, LoopInvStep, Zenon
  <1>8. PoolType /\ Kept => PoolType' /\ Kept'
    <2>1. (Intact' <=> Intact) /\ (Counts(tree, len)' <=> Counts(tree, len))
      BY <1>3 DEF Intact, Settled, Counts
    <2>2. Holds(tree, Len(calls))' <=> Holds(tree, Len(calls))
      BY <1>3 DEF Holds, Keeps
    <2> QED BY <1>3, <2>1, <2>2 DEF PoolType, Kept
  <1>9. FileTrace => FileTrace'
    BY <1>3 DEF FileTrace, Settled, Whole, Pieces
  <1>10. RestoreGivesBack /\ proc' = proc => RestoreGivesBack'
    BY <1>3 DEF RestoreGivesBack, Whole, IsWhole, Pieces
  <1>11. Processes'
    BY <1>2, <1>3, <1>4, <1>7, <1>8, <1>9, <1>10 DEF Processes, Whole, Pieces
  <1> QED
    BY <1>5, <1>6, <1>11, Zenon DEF SessionInv

-----------------------------------------------------------------------------
(* Every session *)

\* It holds at the start and no step breaks it.
LEMMA SessionInvAlways == SessionSpec => []SessionInv
  <1>1. SessionInit => SessionInv
    <2> SUFFICES ASSUME SessionInit PROVE SessionInv
      OBVIOUS
    <2>1. /\ PlayInit /\ Init /\ proc = "fuzz" /\ file = Whole(<<>>) /\ made = <<>>
          /\ kind \in Kinds /\ asked \in Iters \cup {0} /\ ppc = "off" /\ pidx = 0
      BY DEF SessionInit, PlayInit
    <2>2. LoopInv
      BY <2>1, LoopInvInit
    <2>3. TraceTyped /\ Sound
      BY <2>2, LoopTrace, Zenon DEF LoopInv, PoolInv
    <2>4. PlayTyped
      BY <2>1, PlayConstants DEF PlayInit, Init, PlayTyped, PlayTypeOK
    <2>5. Reproduces
      BY <2>1 DEF Reproduces, Rebuilds, Ended
    <2>6. FileInv
      BY <2>1 DEF FileInv, CallsTyped, Whole
    <2>7. Processes
      BY <2>1, <2>2 DEF Processes
    <2> QED BY <2>3, <2>4, <2>5, <2>6, <2>7, Zenon DEF SessionInv
  <1>2. SessionInv /\ [SessionNext]_sessionVars => SessionInv'
    <2> SUFFICES ASSUME SessionInv, [SessionNext]_sessionVars PROVE SessionInv'
      OBVIOUS
    <2>1. ASSUME NEW iter \in Iters, NEW mode \in Modes, ShellLoop(iter, mode) PROVE SessionInv'
      <3>1. Next
        BY <2>1, Zenon DEF ShellLoop, Next, UserStep
      <3> QED BY <2>1, <3>1, LoopSessionStep DEF ShellLoop
    <2>2. CASE Loop
      <3>1. Next
        BY <2>2, Zenon DEF Loop, Next, UserStep
      <3> QED BY <2>2, <3>1, LoopSessionStep DEF Loop
    <2>3. CASE MainLoop
      BY <2>3, MainLoopStep, Zenon
    <2>4. CASE Save \/ SaveFails
      BY <2>4, SaveStep, SaveFailsStep, Zenon
    <2>5. ASSUME NEW n \in DOMAIN calls, SaveCut(n) PROVE SessionInv'
      BY <2>5, SaveCutStep, Zenon
    <2>6. CASE Restore
      BY <2>6, RestoreStep, Zenon
    <2>7. CASE Play
      BY <2>7, SecondPlayStep, Zenon
    <2>8. CASE RestoreDies \/ Stopped \/ UNCHANGED sessionVars
      BY <2>8, EndStep, Zenon DEF Stopped
    <2> QED
      BY <2>1, <2>2, <2>3, <2>4, <2>5, <2>6, <2>7, <2>8, Zenon DEF SessionNext
  <1> QED
    BY <1>1, <1>2, PTL DEF SessionSpec

\* Between two runs of a loop, or outside it, what memory holds is accounted for.
LEMMA KeptWhileIdle ==
    ASSUME SessionInv, pc = "idle"
    PROVE  PoolType /\ Kept
  <1>1. CASE proc = "fuzz"
    <2>1. LoopInv
      BY <1>1 DEF SessionInv, Processes
    <2>2. LogInv /\ LogTells /\ TypeFrame
      BY <2>1, LoopInvLog, Zenon DEF LoopInv, PoolInv
    <2>3. Clean
      BY <2>2, IdleClean
    <2>4. PoolType
      BY <2>2, Zenon DEF TypeFrame, TypeOK
    <2> QED BY <2>3, <2>4 DEF Clean, Kept
  <1>2. CASE proc # "fuzz"
    BY <1>2 DEF SessionInv, Processes
  <1> QED
    BY <1>1, <1>2

\* Processes, file and trace keep their types, whatever is saved and restored
\* (core/main.c, minerva_trace.c:125-201).
THEOREM SessionTypeCorrect == SessionSpec => []SessionTypeOK
  <1>1. SessionInv => SessionTypeOK
    BY DEF SessionInv, PlayTyped, FileInv, Processes, SessionTypeOK, Last
  <1> QED
    BY <1>1, SessionInvAlways, PTL

\* What a process restores is what another one saved, call by call, up to where
\* a ^C cut the file (minerva_trace.c:142-153, 173-193).
THEOREM RestoredIsSaved == SessionSpec => []RestoreGivesBack
  <1>1. SessionInv => RestoreGivesBack
    BY DEF SessionInv, Processes, RestoreGivesBack
  <1> QED
    BY <1>1, SessionInvAlways, PTL

\* In either process a trace that no ^C disturbed is intact (main.c:131-186).
THEOREM SessionTraceIsIntact == SessionSpec => []CleanSessionIsIntact
  <1>1. SessionInv => CleanSessionIsIntact
    BY KeptWhileIdle DEF Kept, CleanSessionIsIntact
  <1> QED
    BY <1>1, SessionInvAlways, PTL

\* A play of a restored trace reports what happened in the first process
\* (minerva_trace.c:62-123, 156-201).
THEOREM SessionReproduces == SessionSpec => []ReplayReproduces
  <1>1. SessionInv => ReplayReproduces
    BY ReproducesVerdict, Zenon DEF SessionInv
  <1> QED
    BY <1>1, SessionInvAlways, PTL

\* It rebuilds the pool the first process had (minerva_trace.c:88-106).
THEOREM SessionRebuildsPool == SessionSpec => []ReplayRebuildsPool
  <1>1. SessionInv => ReplayRebuildsPool
    <2> SUFFICES ASSUME SessionInv, sigints = 0, ppc = "over", verdict # "middle"
                 PROVE  ReplayRebuildsPool
      BY DEF ReplayRebuildsPool
    <2>1. PlayTyped /\ TraceTyped /\ Reproduces
      BY DEF SessionInv
    <2>2. pc = "idle" /\ calls # <<>>
      BY <2>1 DEF PlayTyped
    <2>3. PoolType /\ Kept
      BY <2>2, KeptWhileIdle
    <2>4. Clean
      BY <2>2, <2>3 DEF Kept, Clean
    <2> QED BY <2>1, <2>3, <2>4, ReproducesPool, Zenon
  <1> QED
    BY <1>1, SessionInvAlways, PTL

-----------------------------------------------------------------------------
(* What is known of the target *)

\* K says that the last call of s does o, when the others have run before it.
Did(K, s, o) == [calls |-> s, outcome |-> o] \in K

\* A call does one thing only.
Settles(K) ==
    /\ \A s \in K : Did(K, s.calls, s.outcome) /\ s.outcome \in Outcome
    /\ \A s, r \in K : s.calls = r.calls => s.outcome = r.outcome

\* Available and Reproducible, by what K says instead of what OutcomeOf picks
AvailableIn(K, trace, k, t, id) ==
    \E j \in 1 .. k - 1 :
        /\ trace[j].result = id /\ RetType[trace[j].func] = t
        /\ Did(K, SubSeq(trace, 1, j), "ok")
        /\ \A l \in j + 1 .. k - 1 : id \notin Dying(trace[l], t)

ArgsAvailableIn(K, trace) ==
    \A k \in DOMAIN trace : \A i \in Slots(trace[k].func) :
        AvailableIn(K, trace, k, TypeOf(trace[k].func, i), trace[k].args[i])

ReturnsIn(K, trace, k) == Did(K, SubSeq(trace, 1, k), "ok") \/ Did(K, SubSeq(trace, 1, k), "fail")

PlaysIn(K, trace) ==
    /\ trace # <<>> /\ ArgsAvailableIn(K, trace)
    /\ \A k \in DOMAIN trace :
          IF k = Len(trace) THEN Did(K, SubSeq(trace, 1, k), "crash") ELSE ReturnsIn(K, trace, k)

\* The outcome OutcomeOf picks is the one that is known.
LEMMA OutcomeIsKnown ==
    ASSUME Settles(known), NEW trace, NEW k, NEW o \in Outcome
    PROVE  OutcomeOf(trace, k) = o <=> Did(known, SubSeq(trace, 1, k), o)
  <1> DEFINE s == SubSeq(trace, 1, k)
  <1> HIDE DEF s
  <1>1. OutcomeOf(trace, k) =
            CHOOSE x \in Outcome \cup {"unseen"} :
                IF \E r \in known : r.calls = s THEN Did(known, s, x) ELSE x = "unseen"
    BY DEF OutcomeOf, Did, s
  <1>2. CASE \E r \in known : r.calls = s
    <2>1. PICK r \in known : r.calls = s
      BY <1>2
    <2>2. Did(known, s, r.outcome) /\ r.outcome \in Outcome
      BY <2>1 DEF Settles
    <2>3. ASSUME NEW x, Did(known, s, x) PROVE x = r.outcome
      <3>1. [calls |-> s, outcome |-> x].calls = r.calls
        BY <2>1
      <3>2. [calls |-> s, outcome |-> x] \in known
        BY <2>3 DEF Did
      <3>3. [calls |-> s, outcome |-> x].outcome = r.outcome
        BY <2>1, <3>1, <3>2, Zenon DEF Settles
      <3> QED BY <3>3
    <2>4. OutcomeOf(trace, k) = r.outcome
      <3>1. OutcomeOf(trace, k) = CHOOSE x \in Outcome \cup {"unseen"} : Did(known, s, x)
        BY <1>1, <1>2, Zenon
      <3>2. \A x \in Outcome \cup {"unseen"} : Did(known, s, x) <=> x = r.outcome
        BY <2>2, <2>3
      <3> QED BY <2>2, <3>1, <3>2
    <2> QED BY <2>2, <2>3, <2>4 DEF s
  <1>3. CASE ~\E r \in known : r.calls = s
    <2>1. OutcomeOf(trace, k) = CHOOSE x \in Outcome \cup {"unseen"} : x = "unseen"
      BY <1>1, <1>3, Zenon
    <2>2. OutcomeOf(trace, k) = "unseen"
      BY <2>1
    <2>3. ~Did(known, s, o)
      <3>1. [calls |-> s, outcome |-> o].calls = s
        OBVIOUS
      <3> QED BY <1>3, <3>1 DEF Did
    <2> QED BY <2>2, <2>3 DEF s, Outcome
  <1> QED BY <1>2, <1>3

LEMMA PlaysAsKnown ==
    ASSUME Settles(known), NEW trace, PlaysIn(known, trace)
    PROVE  Reproducible(trace)
  <1>1. \A k : \A o \in Outcome : OutcomeOf(trace, k) = o <=> Did(known, SubSeq(trace, 1, k), o)
    BY OutcomeIsKnown
  <1>2. \A k, t, id : AvailableIn(known, trace, k, t, id) => Available(trace, k, t, id)
    BY <1>1 DEF AvailableIn, Available, Outcome
  <1>3. trace # <<>> /\ \A k \in DOMAIN trace : \A i \in Slots(trace[k].func) :
            Available(trace, k, TypeOf(trace[k].func, i), trace[k].args[i])
    BY <1>2, Zenon DEF PlaysIn, ArgsAvailableIn
  <1>4. \A k \in DOMAIN trace : IF k = Len(trace) THEN OutcomeOf(trace, k) = "crash"
                                 ELSE OutcomeOf(trace, k) \in {"ok", "fail"}
    BY <1>1 DEF PlaysIn, ReturnsIn, Outcome
  <1> QED
    BY <1>3, <1>4, Zenon DEF Reproducible

\* What is known stays known.
LEMMA MoreIsKnown ==
    ASSUME NEW K, NEW L, K \subseteq L, NEW trace
    PROVE  /\ \A k, t, id : AvailableIn(K, trace, k, t, id) => AvailableIn(L, trace, k, t, id)
           /\ ArgsAvailableIn(K, trace) => ArgsAvailableIn(L, trace)
           /\ \A k : ReturnsIn(K, trace, k) => ReturnsIn(L, trace, k)
           /\ PlaysIn(K, trace) => PlaysIn(L, trace)
  <1>1. \A s, o : Did(K, s, o) => Did(L, s, o)
    BY DEF Did
  <1>2. \A k, t, id : AvailableIn(K, trace, k, t, id) => AvailableIn(L, trace, k, t, id)
    BY <1>1, Zenon DEF AvailableIn
  <1>3. ArgsAvailableIn(K, trace) => ArgsAvailableIn(L, trace)
    BY <1>2, Zenon DEF ArgsAvailableIn
  <1>4. \A k : ReturnsIn(K, trace, k) => ReturnsIn(L, trace, k)
    BY <1>1, Zenon DEF ReturnsIn
  <1>5. PlaysIn(K, trace) => PlaysIn(L, trace)
    BY <1>1, <1>3, <1>4, Zenon DEF PlaysIn
  <1> QED
    BY <1>2, <1>3, <1>4, <1>5, Zenon

\* The calls before a call do not change when another one is appended.
LEMMA AppendPrefixes ==
    ASSUME NEW S, NEW s \in Seq(S), NEW x \in S
    PROVE  LET u == Append(s, x) IN
           /\ u \in Seq(S) /\ Len(s) \in Nat /\ Len(u) = Len(s) + 1
           /\ u[Len(s) + 1] = x /\ \A k \in 1 .. Len(s) : u[k] = s[k]
           /\ DOMAIN u = 1 .. Len(s) + 1 /\ DOMAIN s = 1 .. Len(s)
           /\ \A k \in 1 .. Len(s) : SubSeq(u, 1, k) = SubSeq(s, 1, k)
           /\ SubSeq(u, 1, Len(s) + 1) = u
  OBVIOUS

LEMMA AvailableAppend ==
    ASSUME NEW S, NEW s \in Seq(S), NEW x \in S, NEW K, NEW t, NEW id,
           NEW k \in 1 .. Len(s) + 1, AvailableIn(K, s, k, t, id)
    PROVE  AvailableIn(K, Append(s, x), k, t, id)
  <1>1. PICK u : u = Append(s, x)
    OBVIOUS
  <1>2. /\ Len(s) \in Nat /\ \A j \in 1 .. Len(s) : u[j] = s[j]
        /\ \A j \in 1 .. Len(s) : SubSeq(u, 1, j) = SubSeq(s, 1, j)
    BY <1>1, AppendPrefixes
  <1>3. PICK j \in 1 .. k - 1 :
            /\ s[j].result = id /\ RetType[s[j].func] = t
            /\ Did(K, SubSeq(s, 1, j), "ok")
            /\ \A l \in j + 1 .. k - 1 : id \notin Dying(s[l], t)
    BY DEF AvailableIn
  <1>4. j \in 1 .. Len(s) /\ \A l \in j + 1 .. k - 1 : l \in 1 .. Len(s)
    BY <1>2
  <1>5. /\ u[j].result = id /\ RetType[u[j].func] = t /\ Did(K, SubSeq(u, 1, j), "ok")
        /\ \A l \in j + 1 .. k - 1 : id \notin Dying(u[l], t)
    BY <1>2, <1>3, <1>4, Zenon
  <1> QED
    BY <1>1, <1>3, <1>5, Zenon DEF AvailableIn

\* A call whose arguments are there can follow the calls before it.
LEMMA ArgsAppend ==
    ASSUME NEW S, NEW s \in Seq(S), NEW x \in S, NEW K, ArgsAvailableIn(K, s),
           \A i \in Slots(x.func) :
               AvailableIn(K, s, Len(s) + 1, TypeOf(x.func, i), x.args[i])
    PROVE  ArgsAvailableIn(K, Append(s, x))
  <1>1. PICK u : u = Append(s, x)
    OBVIOUS
  <1>2. /\ Len(s) \in Nat /\ DOMAIN u = 1 .. Len(s) + 1 /\ DOMAIN s = 1 .. Len(s)
        /\ u[Len(s) + 1] = x /\ \A k \in 1 .. Len(s) : u[k] = s[k]
    BY <1>1, AppendPrefixes
  <1>3. ASSUME NEW k \in DOMAIN u, NEW i \in Slots(u[k].func)
        PROVE  AvailableIn(K, u, k, TypeOf(u[k].func, i), u[k].args[i])
    <2>1. k \in 1 .. Len(s) + 1
      BY <1>2
    <2>2. CASE k = Len(s) + 1
      <3>1. u[k] = x
        BY <1>2, <2>2
      <3>2. AvailableIn(K, s, k, TypeOf(u[k].func, i), u[k].args[i])
        BY <1>3, <2>2, <3>1
      <3> QED BY <1>1, <2>1, <3>2, AvailableAppend
    <2>3. CASE k # Len(s) + 1
      <3>1. k \in DOMAIN s /\ u[k] = s[k]
        BY <1>2, <2>1, <2>3
      <3>2. AvailableIn(K, s, k, TypeOf(u[k].func, i), u[k].args[i])
        BY <1>3, <3>1 DEF ArgsAvailableIn
      <3> QED BY <1>1, <2>1, <3>2, AvailableAppend
    <2> QED BY <2>2, <2>3
  <1> QED
    BY <1>1, <1>3 DEF ArgsAvailableIn

-----------------------------------------------------------------------------
(* What holds while min works *)

\* The identifiers of a trace grow.
Grows(trace) == \A j, k \in DOMAIN trace : j < k => trace[j].result < trace[k].result

\* The loop's own variables, which a minimization only borrows
LoopKept == TypeFrame /\ Alive /\ Ids

MinTyped ==
    /\ MinTypeOK
    /\ mpc # "off" => pc = "idle"
    /\ mpc = "off" => known = {} \/ pc = "panic"
    /\ mpc = "replay" => todo # {} /\ rounds # 0
    /\ Grows(minTrace)

\* A round's calls are calls of min_trace before the one at hand.
RoundPart ==
    mpc = "replay" =>
        /\ Grows(cur)
        /\ \A k \in DOMAIN cur : \E j \in DOMAIN minTrace : j < idx /\ cur[k] = minTrace[j]

\* They have returned, with arguments that were there, and the round's pool
\* holds what they have left.
RoundPlays ==
    mpc = "replay" =>
        /\ ArgsAvailableIn(known, cur)
        /\ \A k \in DOMAIN cur : ReturnsIn(known, cur, k)
        /\ \A t \in Type : \A id \in mtree[t] : AvailableIn(known, cur, Len(cur) + 1, t, id)

Plays ==
    (mpc \in {"rounds", "replay", "over"} /\ interrupts = 0) =>
        minTrace = given \/ PlaysIn(known, minTrace)

MinInv == LoopKept /\ MinTyped /\ Settles(known) /\ RoundPart /\ RoundPlays /\ Plays

-----------------------------------------------------------------------------
(* The loop's variables during a minimization *)

\* min touches only what belongs to the signals, and that while the loop idles.
LEMMA LoopSleeps ==
    ASSUME LoopKept, pc = "idle", pc' \in {"idle", "panic"}, UNCHANGED notSignals,
           sigints' = sigints, segv' \in {0, 1}, exitLoop' \in {0, 1}, blocked' \in BOOLEAN
    PROVE  LoopKept'
  <1>1. /\ tree' = tree /\ len' = len /\ curId' = curId /\ calls' = calls /\ fate' = fate
        /\ left' = left /\ mutate' = mutate /\ starts' = starts /\ func' = func
        /\ argv' = argv /\ newId' = newId /\ doomed' = doomed /\ crash' = crash
    BY DEF notSignals, poolVars, traceVars, loopVars, frameVars
  <1>2. TypeOK'
    <2>1. PoolType' /\ TraceType'
      BY <1>1, Zenon DEF LoopKept, TypeFrame, TypeOK, PoolType, TraceType
    <2>2. ControlType'
      BY <1>1 DEF LoopKept, TypeFrame, TypeOK, ControlType, Dead
    <2>3. SignalType' /\ FlagType'
      BY <1>1, Zenon DEF LoopKept, TypeFrame, TypeOK, SignalType, FlagType
    <2> QED BY <2>1, <2>2, <2>3 DEF TypeOK
  <1>3. Frame'
    BY <1>1 DEF LoopKept, TypeFrame, Frame, InCall, Stored, Recorded
  <1>4. Alive'
    BY AliveNothing DEF Dead
  <1>5. Ids'
    BY <1>1, IdsSame DEF LoopKept, Stored
  <1> QED
    BY <1>2, <1>3, <1>4, <1>5 DEF LoopKept, TypeFrame

LEMMA LoopKeptNext ==
    ASSUME LoopKept, [Next]_vars
    PROVE  LoopKept'
  BY TypeStep, AliveStep, IdsStep, Zenon DEF LoopKept

\* A process that has died stays dead.
LEMMA PanicIsLast ==
    ASSUME pc = "panic", Next
    PROVE  pc' = "panic"
  <1>1. ~RandomCall
    BY DEF RandomCall, PickArg, EmptyTree, Redraw, CountNew, InsertNew, Record
  <1>2. ~Call
    BY DEF Call, TargetReturns, TargetCrashes, CountDestroyed, UnlinkDestroyed, CheckOk,
       CheckFails, CountDropped, UnlinkDropped
  <1>3. ~LoopStep
    BY <1>1, <1>2 DEF LoopStep, PickFunc, NoCandidate, LoopDone, Revert
  <1>4. ~UserStep
    BY DEF UserStep, Start, Sigint, SigintIdle, Quit, InLoop, InCall
  <1>5. pc' = pc
    BY <1>3, <1>4 DEF Next, Halted, vars
  <1> QED
    BY <1>5

-----------------------------------------------------------------------------
(* The start *)

\* What a min is given: a trace of calls whose identifiers grow.
LEMMA GivenTraces ==
    ASSUME MinInv, NEW trace \in Traces
    PROVE  trace \in Seq(RecordedCall) /\ Grows(trace)
  <1>1. calls \in Seq(RecordedCall) /\ minTrace \in Seq(RecordedCall) /\ Grows(minTrace)
    BY DEF MinInv, LoopKept, TypeFrame, TypeOK, TraceType, MinTyped, MinTypeOK
  <1>2. Grows(calls)
    BY DEF MinInv, LoopKept, Ids, IdsIssuedOnce, Grows
  <1> QED
    BY <1>1, <1>2 DEF Traces

\* What the session shows of the target is settled.
LEMMA SeenSettles ==
    ASSUME LoopKept
    PROVE  Settles(Seen) /\ \A s \in Seen : s.calls \in Seq(RecordedCall)
  <1>1. calls \in Seq(RecordedCall) /\ DOMAIN calls = 1 .. Len(calls) /\ Len(calls) \in Nat
    BY DEF LoopKept, TypeFrame, TypeOK, TraceType
  <1>2. ASSUME NEW k \in DOMAIN calls
        PROVE  SubSeq(calls, 1, k) \in Seq(RecordedCall) /\ Len(SubSeq(calls, 1, k)) = k
    BY <1>1
  <1>3. \A s \in Seen : \E k \in DOMAIN calls :
            /\ s = [calls |-> SubSeq(calls, 1, k), outcome |-> fate[k]]
            /\ Settled(k)
    BY DEF Seen
  <1>4. ASSUME NEW s \in Seen
        PROVE  /\ s = [calls |-> s.calls, outcome |-> s.outcome] /\ s.outcome \in Outcome
               /\ s.calls \in Seq(RecordedCall)
    <2>1. PICK k \in DOMAIN calls :
              s = [calls |-> SubSeq(calls, 1, k), outcome |-> fate[k]] /\ Settled(k)
      BY <1>3
    <2>2. s.calls = SubSeq(calls, 1, k) /\ s.outcome = fate[k]
      BY <2>1
    <2> QED BY <1>2, <2>1, <2>2 DEF Settled, Outcome
  <1>5. ASSUME NEW s \in Seen, NEW r \in Seen, s.calls = r.calls
        PROVE  s.outcome = r.outcome
    <2>1. PICK k \in DOMAIN calls : s = [calls |-> SubSeq(calls, 1, k), outcome |-> fate[k]]
      BY <1>3
    <2>2. PICK l \in DOMAIN calls : r = [calls |-> SubSeq(calls, 1, l), outcome |-> fate[l]]
      BY <1>3
    <2>3. SubSeq(calls, 1, k) = SubSeq(calls, 1, l)
      BY <1>5, <2>1, <2>2
    <2>4. k = l
      BY <1>2, <2>3, Zenon
    <2> QED BY <2>1, <2>2, <2>4
  <1>6. \A s \in Seen : Did(Seen, s.calls, s.outcome)
    <2> SUFFICES ASSUME NEW s \in Seen PROVE [calls |-> s.calls, outcome |-> s.outcome] \in Seen
      BY DEF Did
    <2> QED BY <1>4
  <1> QED
    BY <1>4, <1>5, <1>6, Zenon DEF Settles

LEMMA MinInvInit == MinInit => MinInv
  <1> SUFFICES ASSUME MinInit PROVE MinInv
    OBVIOUS
  <1>1. LoopKept
    BY TypeInit, AliveInit, IdsInit, Zenon DEF MinInit, LoopKept
  <1>2. MinTyped
    <2>1. <<>> \in Seq(RecordedCall) /\ DOMAIN <<>> = {}
      OBVIOUS
    <2>2. jumpSet \in BOOLEAN /\ aborts \in BOOLEAN /\ abrtReset \in BOOLEAN
      BY Zenon DEF MinInit
    <2>3. MinTypeOK
      <3>1. {jumpSet, aborts, abrtReset} \subseteq BOOLEAN
        BY <2>2, Zenon
      <3> QED BY <2>1, <3>1, MinConstants DEF MinInit, MinTypeOK
    <2> QED BY <2>1, <2>3 DEF MinInit, MinTyped, Grows
  <1>3. Settles(known)
    BY DEF MinInit, Settles
  <1> QED
    BY <1>1, <1>2, <1>3 DEF MinInit, MinInv, RoundPart, RoundPlays, Plays

\* While min is off, only the loop runs.
LEMMA LoopRuns ==
    ASSUME MinInv, mpc = "off", [Next]_vars, UNCHANGED minVars
    PROVE  MinInv'
  <1>1. LoopKept'
    BY LoopKeptNext DEF MinInv
  <1>2. MinTyped'
    <2>1. known = {} \/ pc' = "panic"
      BY PanicIsLast DEF MinInv, MinTyped, vars
    <2>2. MinTypeOK'
      BY DEF MinInv, MinTyped, MinTypeOK, minVars, roundVars
    <2> QED BY <2>1, <2>2 DEF MinInv, MinTyped, minVars, Grows
  <1>3. Settles(known')
    BY DEF MinInv, minVars
  <1> QED
    BY <1>1, <1>2, <1>3 DEF MinInv, minVars, RoundPart, RoundPlays, Plays

LEMMA MinimizeStarts ==
    ASSUME MinInv, NEW trace \in Traces, NEW limit \in Rounds, MinStart(trace, limit)
    PROVE  MinInv'
  <1>1. /\ pc = "idle" /\ pc' = pc /\ mpc = "off" /\ mpc' = "rounds"
        /\ mins < MaxMins /\ mins' = mins + 1 /\ interrupts' = 0
        /\ given' = trace /\ minTrace' = trace /\ todo' = Irrelevant(trace) /\ rounds' = limit
        /\ jumpSet' = FALSE /\ abrtReset' = FALSE /\ aborts' = aborts
        /\ known' = known \cup Seen /\ segv' = 0 /\ exitLoop' = 0
        /\ UNCHANGED notSignals /\ blocked' = blocked /\ sigints' = sigints
        /\ removed' = removed /\ cur' = cur /\ mtree' = mtree /\ idx' = idx
    BY Zenon DEF MinStart, roundVars
  <1>2. trace \in Seq(RecordedCall) /\ Grows(trace)
    BY GivenTraces
  <1>3. LoopKept'
    <2>1. blocked \in BOOLEAN
      BY DEF MinInv, LoopKept, TypeFrame, TypeOK, FlagType
    <2> QED BY <1>1, <2>1, LoopSleeps, Zenon DEF MinInv
  <1>4. Settles(known') /\ \A s \in known' : s.calls \in Seq(RecordedCall)
    <2>1. known = {}
      BY <1>1 DEF MinInv, MinTyped
    <2> QED BY <1>1, <2>1, SeenSettles DEF MinInv
  <1>5. MinTyped'
    <2>1. Irrelevant(trace) \subseteq Nat
      <3>1. \A k \in DOMAIN trace : trace[k] \in RecordedCall
        BY <1>2
      <3>2. \A k \in DOMAIN trace : trace[k].result \in Nat
        BY <3>1 DEF RecordedCall
      <3> QED BY <3>2, Zenon DEF Irrelevant
    <2>2. MinTypeOK'
      <3>1. mins' \in 0 .. MaxMins /\ rounds' \in Nat \cup {NoLimit}
        BY <1>1, MinConstants DEF MinInv, MinTyped, MinTypeOK
      <3>2. /\ cur' \in Seq(RecordedCall) /\ removed' \subseteq Nat
            /\ mtree' \in [Type -> SUBSET Nat] /\ idx' \in Nat
            /\ {jumpSet', aborts', abrtReset'} \subseteq BOOLEAN
        BY <1>1 DEF MinInv, MinTyped, MinTypeOK
      <3>3. interrupts' \in 0 .. MaxMinSigint
        BY <1>1, MinConstants
      <3>4. \A s \in known' : s.outcome \in Outcome
        BY <1>4 DEF Settles
      <3> QED BY <1>1, <1>2, <1>4, <2>1, <3>1, <3>2, <3>3, <3>4 DEF MinTypeOK
    <2> QED BY <1>1, <1>2, <2>2 DEF MinTyped, Grows
  <1> QED
    BY <1>1, <1>3, <1>4, <1>5 DEF MinInv, RoundPart, RoundPlays, Plays

LEMMA UndefinedStands ==
    ASSUME MinInv, NEW trace \in Traces, MinUndefined(trace)
    PROVE  MinInv'
  <1>1. /\ pc = "idle" /\ mpc = "off" /\ mpc' = "undefined" /\ UNCHANGED vars
        /\ mins < MaxMins /\ mins' = mins + 1 /\ given' = trace
        /\ minTrace' = minTrace /\ todo' = todo /\ rounds' = rounds
        /\ removed' = removed /\ cur' = cur /\ mtree' = mtree /\ idx' = idx
        /\ jumpSet' = jumpSet /\ aborts' = aborts /\ abrtReset' = abrtReset
        /\ known' = known /\ interrupts' = interrupts
    BY Zenon DEF MinUndefined, roundVars
  <1>2. LoopKept' /\ pc' = pc
    BY <1>1, LoopKeptNext DEF MinInv, vars
  <1>3. MinTyped'
    <2>1. MinTypeOK'
      BY <1>1, GivenTraces, MinConstants DEF MinInv, MinTyped, MinTypeOK
    <2> QED BY <1>1, <1>2, <2>1 DEF MinInv, MinTyped, Grows
  <1> QED
    BY <1>1, <1>2, <1>3 DEF MinInv, RoundPart, RoundPlays, Plays

-----------------------------------------------------------------------------
(* The walk and the rounds *)

LEMMA LoopAsleep ==
    ASSUME MinInv, UNCHANGED vars
    PROVE  LoopKept' /\ pc' = pc
  BY LoopKeptNext DEF MinInv, vars

\* A step of the walk alone
LEMMA WalkStands ==
    ASSUME MinInv, UNCHANGED vars, mpc \in {"rounds", "replay", "over"},
           mpc' \in {"rounds", "over", "killed", "undefined"},
           minTrace' = minTrace, given' = given, known' = known, todo' \subseteq todo,
           rounds' \in {rounds, RoundsLeft}, mpc = "replay" \/ rounds' = rounds,
           UNCHANGED <<roundVars, jumpSet, aborts, abrtReset, interrupts, mins>>
    PROVE  MinInv'
  <1>1. LoopKept' /\ pc' = pc
    BY LoopAsleep
  <1>2. rounds' \in Nat \cup {NoLimit}
    BY DEF MinInv, MinTyped, MinTypeOK, RoundsLeft, NoLimit
  <1>3. MinTyped'
    <2>1. MinTypeOK'
      BY <1>2 DEF MinInv, MinTyped, MinTypeOK, roundVars
    <2> QED BY <1>1, <2>1 DEF MinInv, MinTyped, Grows
  <1> QED
    BY <1>1, <1>3 DEF MinInv, RoundPart, RoundPlays, Plays

LEMMA WalkSteps ==
    ASSUME MinInv, PassElem \/ RoundEnds \/ Finish
    PROVE  MinInv'
  <1>1. CASE PassElem
    BY <1>1, WalkStands DEF PassElem
  <1>2. CASE RoundEnds
    BY <1>2, WalkStands DEF RoundEnds
  <1>3. CASE Finish
    BY <1>3, WalkStands DEF Finish
  <1> QED
    BY <1>1, <1>2, <1>3

\* A round starts with nothing replayed.
LEMMA TryStands ==
    ASSUME MinInv, TryElem
    PROVE  MinInv'
  <1>1. /\ mpc = "rounds" /\ mpc' = "replay" /\ todo # {} /\ rounds # 0
        /\ removed' = {Min(todo)} /\ cur' = <<>> /\ idx' = 1
        /\ mtree' = [t \in Type |-> {}] /\ UNCHANGED vars
        /\ given' = given /\ minTrace' = minTrace /\ todo' = todo /\ rounds' = rounds
        /\ jumpSet' = jumpSet /\ aborts' = aborts /\ abrtReset' = abrtReset
        /\ known' = known /\ interrupts' = interrupts /\ mins' = mins
    BY Zenon DEF TryElem
  <1>2. LoopKept' /\ pc' = pc
    BY <1>1, LoopAsleep
  <1>3. Min(todo) \in Nat
    <2>1. todo \in SUBSET Nat
      BY DEF MinInv, MinTyped, MinTypeOK
    <2> QED BY <1>1, <2>1, MinElement
  <1>4. <<>> \in Seq(RecordedCall) /\ DOMAIN <<>> = {} /\ Len(minTrace) \in Nat
    BY DEF MinInv, MinTyped, MinTypeOK
  <1>5. MinTyped'
    <2>1. MinTypeOK'
      BY <1>1, <1>3, <1>4 DEF MinInv, MinTyped, MinTypeOK
    <2> QED BY <1>1, <1>2, <2>1 DEF MinInv, MinTyped, Grows
  <1>6. RoundPart'
    BY <1>1, <1>4 DEF RoundPart, Grows
  <1>7. RoundPlays'
    BY <1>1, <1>4 DEF RoundPlays, ArgsAvailableIn
  <1> QED
    BY <1>1, <1>2, <1>5, <1>6, <1>7 DEF MinInv, Plays

LEMMA ReturnStands ==
    ASSUME MinInv, MinReturn
    PROVE  MinInv'
  <1>1. /\ mpc = "over" /\ mpc' = "off" /\ segv' = 0 /\ exitLoop' = 0
        /\ given' = <<>> /\ todo' = {} /\ rounds' = 0 /\ known' = {}
        /\ removed' = {} /\ cur' = <<>> /\ mtree' = [t \in Type |-> {}] /\ idx' = 0
        /\ UNCHANGED notSignals /\ pc' = pc /\ blocked' = blocked /\ sigints' = sigints
        /\ minTrace' = minTrace /\ jumpSet' = jumpSet /\ aborts' = aborts
        /\ abrtReset' = abrtReset /\ interrupts' = interrupts /\ mins' = mins
    BY Zenon DEF MinReturn
  <1>2. LoopKept'
    <2>1. blocked \in BOOLEAN /\ pc = "idle"
      BY <1>1 DEF MinInv, MinTyped, LoopKept, TypeFrame, TypeOK, FlagType
    <2> QED BY <1>1, <2>1, LoopSleeps, Zenon DEF MinInv
  <1>3. MinTyped'
    <2>1. <<>> \in Seq(RecordedCall)
      OBVIOUS
    <2>2. MinTypeOK'
      BY <1>1, <2>1 DEF MinInv, MinTyped, MinTypeOK
    <2> QED BY <1>1, <2>2 DEF MinInv, MinTyped, Grows
  <1>4. Settles(known')
    BY <1>1 DEF Settles
  <1> QED
    BY <1>1, <1>2, <1>3, <1>4 DEF MinInv, RoundPart, RoundPlays, Plays

\* The calls of a round are part of min_trace, with the call at hand or without.
LEMMA RoundTrace ==
    ASSUME MinInv, mpc = "replay"
    PROVE  /\ cur \in Seq(RecordedCall) /\ Grows(cur) /\ PartOf(cur, minTrace)
           /\ Replaying =>
                 /\ idx \in DOMAIN minTrace /\ Here \in RecordedCall
                 /\ HereMade \in Seq(RecordedCall) /\ Grows(HereMade)
                 /\ \A k \in DOMAIN HereMade :
                       \E j \in DOMAIN minTrace : j < idx + 1 /\ HereMade[k] = minTrace[j]
                 /\ PartOf(HereMade, minTrace)
  <1>1. /\ cur \in Seq(RecordedCall) /\ minTrace \in Seq(RecordedCall)
        /\ DOMAIN minTrace = 1 .. Len(minTrace) /\ Len(minTrace) \in Nat
        /\ idx \in Nat /\ idx >= 1 /\ Grows(minTrace) /\ Grows(cur)
        /\ \A k \in DOMAIN cur : \E j \in DOMAIN minTrace : j < idx /\ cur[k] = minTrace[j]
    BY DEF MinInv, MinTyped, MinTypeOK, RoundPart
  <1>2. PartOf(cur, minTrace)
    BY <1>1 DEF PartOf, Grows, ToSet
  <1>3. ASSUME Replaying
        PROVE  /\ idx \in DOMAIN minTrace /\ Here \in RecordedCall
               /\ HereMade \in Seq(RecordedCall) /\ Grows(HereMade)
               /\ \A k \in DOMAIN HereMade :
                     \E j \in DOMAIN minTrace : j < idx + 1 /\ HereMade[k] = minTrace[j]
               /\ PartOf(HereMade, minTrace)
    <2>1. idx \in DOMAIN minTrace /\ Here = minTrace[idx] /\ Here \in RecordedCall
      BY <1>1, <1>3 DEF Replaying, Here
    <2>2. PICK n, u : n = Len(cur) /\ u = HereMade
      OBVIOUS
    <2>3. /\ u \in Seq(RecordedCall) /\ n \in Nat /\ u[n + 1] = minTrace[idx]
          /\ \A k \in 1 .. n : u[k] = cur[k]
          /\ DOMAIN u = 1 .. n + 1 /\ DOMAIN cur = 1 .. n
      BY <1>1, <2>1, <2>2, AppendPrefixes DEF HereMade
    <2>4. \A k \in DOMAIN u : \E j \in DOMAIN minTrace : j < idx + 1 /\ u[k] = minTrace[j]
      <3>1. ASSUME NEW k \in 1 .. n
            PROVE  \E j \in DOMAIN minTrace : j < idx + 1 /\ u[k] = minTrace[j]
        <4>1. PICK j \in DOMAIN minTrace : j < idx /\ cur[k] = minTrace[j]
          BY <1>1, <2>3
        <4> QED BY <1>1, <2>3, <4>1
      <3>2. \E j \in DOMAIN minTrace : j < idx + 1 /\ u[n + 1] = minTrace[j]
        BY <1>1, <2>1, <2>3
      <3> QED BY <2>3, <3>1, <3>2
    <2>5. Grows(u)
      <3>1. ASSUME NEW k \in 1 .. n PROVE u[k].result < u[n + 1].result
        <4>1. PICK j \in DOMAIN minTrace : j < idx /\ cur[k] = minTrace[j]
          BY <1>1, <2>3
        <4>2. minTrace[j].result < minTrace[idx].result
          BY <1>1, <2>1, <4>1 DEF Grows
        <4> QED BY <2>3, <4>1, <4>2
      <3>2. \A j, k \in 1 .. n : j < k => u[j].result < u[k].result
        BY <1>1, <2>3 DEF Grows
      <3> QED BY <2>3, <3>1, <3>2 DEF Grows
    <2>6. PartOf(u, minTrace)
      BY <2>4, <2>5 DEF PartOf, Grows, ToSet
    <2> QED BY <2>1, <2>2, <2>3, <2>4, <2>5, <2>6
  <1> QED
    BY <1>1, <1>2, <1>3

\* A call that is replayed does what it is known to do, and is then known.
LEMMA DoesMore ==
    ASSUME MinInv, Replaying, NEW o, Does(o)
    PROVE  /\ known \subseteq known' /\ Settles(known') /\ Did(known', HereMade, o)
           /\ \A s \in known' : s.calls \in Seq(RecordedCall)
  <1>1. HereMade \in Seq(RecordedCall) /\ Here \in RecordedCall
    BY RoundTrace DEF Replaying
  <1>2. PICK s, r : s = HereMade /\ r = [calls |-> s, outcome |-> o]
    OBVIOUS
  <1>3. r.calls = s /\ r.outcome = o
    BY <1>2
  <1>4. o \in Outcome
    <2>1. Here.func \in Func
      BY <1>1 DEF RecordedCall
    <2>2. Outcomes[Here.func] \subseteq Outcome
      BY <2>1, TableType
    <2> QED BY <2>2 DEF Does
  <1>5. known' = known \cup {r} /\ \A x \in known : x.calls = s => x.outcome = o
    BY <1>2 DEF Does
  <1>6. \A x \in known' : Did(known', x.calls, x.outcome) /\ x.outcome \in Outcome
    <2>1. ASSUME NEW x \in known PROVE Did(known', x.calls, x.outcome) /\ x.outcome \in Outcome
      BY <1>5 DEF MinInv, Settles, Did
    <2>2. Did(known', r.calls, r.outcome) /\ r.outcome \in Outcome
      BY <1>2, <1>3, <1>4, <1>5 DEF Did
    <2> QED BY <1>5, <2>1, <2>2
  <1>7. \A x, y \in known' : x.calls = y.calls => x.outcome = y.outcome
    <2>1. \A x, y \in known : x.calls = y.calls => x.outcome = y.outcome
      BY DEF MinInv, Settles
    <2> QED BY <1>3, <1>5, <2>1
  <1>8. \A x \in known' : x.calls \in Seq(RecordedCall)
    <2>1. \A x \in known : x.calls \in Seq(RecordedCall)
      BY DEF MinInv, MinTyped, MinTypeOK
    <2> QED BY <1>1, <1>2, <1>3, <1>5, <2>1
  <1> QED
    BY <1>2, <1>3, <1>5, <1>6, <1>7, <1>8 DEF Settles, Did

LEMMA KilledStands ==
    ASSUME MinInv, ReplayKilled
    PROVE  MinInv'
  <1>1. /\ UNCHANGED vars /\ mpc' = "killed" /\ Replaying /\ Does("crash")
        /\ given' = given /\ minTrace' = minTrace /\ todo' = todo /\ rounds' = rounds
        /\ removed' = removed /\ cur' = cur /\ mtree' = mtree /\ idx' = idx
        /\ jumpSet' = jumpSet /\ aborts' = aborts /\ abrtReset' = abrtReset
        /\ interrupts' = interrupts /\ mins' = mins
    BY Zenon DEF ReplayKilled, roundVars
  <1>2. LoopKept' /\ pc' = pc /\ mpc = "replay"
    BY <1>1, LoopAsleep DEF Replaying
  <1>3. Settles(known') /\ \A s \in known' : s.calls \in Seq(RecordedCall)
    BY <1>1, DoesMore
  <1>4. MinTyped'
    <2>1. MinTypeOK'
      BY <1>1, <1>3 DEF MinInv, MinTyped, MinTypeOK, Settles
    <2> QED BY <1>1, <1>2, <2>1 DEF MinInv, MinTyped, Grows
  <1> QED
    BY <1>1, <1>2, <1>3, <1>4 DEF MinInv, RoundPart, RoundPlays, Plays

LEMMA SkipStands ==
    ASSUME MinInv, SkipCall
    PROVE  MinInv'
  <1>1. /\ UNCHANGED vars /\ mpc = "replay" /\ mpc' = mpc /\ Replaying
        /\ removed' = removed \cup {Here.result} /\ idx' = idx + 1
        /\ given' = given /\ minTrace' = minTrace /\ todo' = todo /\ rounds' = rounds
        /\ cur' = cur /\ mtree' = mtree /\ known' = known
        /\ jumpSet' = jumpSet /\ aborts' = aborts /\ abrtReset' = abrtReset
        /\ interrupts' = interrupts /\ mins' = mins
    BY Zenon DEF SkipCall, Replaying
  <1>2. LoopKept' /\ pc' = pc
    BY <1>1, LoopAsleep
  <1>3. Here.result \in Nat /\ idx \in Nat /\ Len(minTrace) \in Nat /\ idx + 1 \in 1 .. Len(minTrace) + 1
    <2>1. Here \in RecordedCall
      BY <1>1, RoundTrace
    <2>2. Here.result \in Nat
      BY <2>1 DEF RecordedCall
    <2> QED BY <1>1, <2>2 DEF MinInv, MinTyped, MinTypeOK, Replaying
  <1>4. MinTyped'
    <2>1. MinTypeOK'
      <3>1. removed' \subseteq Nat
        <4>1. removed \subseteq Nat
          BY DEF MinInv, MinTyped, MinTypeOK
        <4> QED BY <1>1, <1>3, <4>1, Zenon
      <3>2. idx' \in Nat /\ (mpc' = "replay" => idx' \in 1 .. Len(minTrace') + 1)
        BY <1>1, <1>3
      <3> QED BY <1>1, <3>1, <3>2 DEF MinInv, MinTyped, MinTypeOK
    <2> QED BY <1>1, <1>2, <2>1 DEF MinInv, MinTyped, Grows
  <1>5. RoundPart'
    <2>1. ASSUME NEW k \in DOMAIN cur
          PROVE  \E j \in DOMAIN minTrace : j < idx + 1 /\ cur[k] = minTrace[j]
      <3>1. PICK j \in DOMAIN minTrace : j < idx /\ cur[k] = minTrace[j]
        BY <1>1 DEF MinInv, RoundPart
      <3>2. minTrace \in Seq(RecordedCall)
        BY DEF MinInv, MinTyped, MinTypeOK
      <3>3. j \in Nat
        BY <3>2
      <3>4. j < idx + 1
        BY <1>3, <3>1, <3>3
      <3> QED BY <3>1, <3>4
    <2> QED BY <1>1, <2>1 DEF MinInv, RoundPart, Grows
  <1>6. RoundPlays'
    BY <1>1 DEF MinInv, RoundPlays
  <1> QED
    BY <1>1, <1>2, <1>4, <1>5, <1>6 DEF MinInv, Plays

LEMMA AvailableBehind ==
    ASSUME NEW n \in Nat, NEW K, NEW u, NEW t, NEW id
    PROVE  AvailableIn(K, u, n + 1, t, id) <=>
               \E j \in 1 .. n :
                   /\ u[j].result = id /\ RetType[u[j].func] = t
                   /\ Did(K, SubSeq(u, 1, j), "ok")
                   /\ \A l \in j + 1 .. n : id \notin Dying(u[l], t)
  <1>1. n + 1 - 1 = n
    OBVIOUS
  <1> QED
    BY <1>1 DEF AvailableIn

\* What is there behind a call that returns: what was there and is not
\* destroyed, and the result.
LEMMA SurvivorAvailable ==
    ASSUME NEW S, NEW s \in Seq(S), NEW x \in S, NEW K, NEW t, NEW id,
           id \notin Dying(x, t),
           \/ AvailableIn(K, s, Len(s) + 1, t, id)
           \/ x.result = id /\ RetType[x.func] = t /\ Did(K, Append(s, x), "ok")
    PROVE  AvailableIn(K, Append(s, x), Len(s) + 2, t, id)
  <1>1. PICK u, n : u = Append(s, x) /\ n = Len(s)
    OBVIOUS
  <1>2. /\ n \in Nat /\ u[n + 1] = x /\ \A j \in 1 .. n : u[j] = s[j]
        /\ \A j \in 1 .. n : SubSeq(u, 1, j) = SubSeq(s, 1, j)
        /\ SubSeq(u, 1, n + 1) = u
    BY <1>1, AppendPrefixes
  <1>3. CASE AvailableIn(K, s, n + 1, t, id)
    <2>1. PICK j \in 1 .. n :
              /\ s[j].result = id /\ RetType[s[j].func] = t
              /\ Did(K, SubSeq(s, 1, j), "ok")
              /\ \A l \in j + 1 .. n : id \notin Dying(s[l], t)
      BY <1>2, <1>3, AvailableBehind
    <2>2. u[j].result = id /\ RetType[u[j].func] = t /\ Did(K, SubSeq(u, 1, j), "ok")
      BY <1>2, <2>1, Zenon
    <2>3. ASSUME NEW l \in j + 1 .. n + 1 PROVE id \notin Dying(u[l], t)
      <3>1. CASE l = n + 1
        BY <1>2, <3>1, Zenon
      <3>2. CASE l # n + 1
        <4>1. l \in 1 .. n /\ l \in j + 1 .. n
          BY <1>2, <3>2
        <4> QED BY <1>2, <2>1, <4>1, Zenon
      <3> QED BY <3>1, <3>2
    <2>4. j \in 1 .. n + 1 /\ n + 1 \in Nat /\ n + 2 = (n + 1) + 1
      BY <1>2
    <2>5. AvailableIn(K, u, (n + 1) + 1, t, id)
      BY <2>2, <2>3, <2>4, AvailableBehind, Zenon
    <2> QED BY <1>1, <2>4, <2>5
  <1>4. CASE x.result = id /\ RetType[x.func] = t /\ Did(K, u, "ok")
    <2>1. /\ n + 1 \in Nat /\ n + 1 \in 1 .. n + 1 /\ (n + 1) + 1 .. n + 1 = {}
          /\ n + 2 = (n + 1) + 1
      BY <1>2
    <2>2. u[n + 1].result = id /\ RetType[u[n + 1].func] = t /\ Did(K, SubSeq(u, 1, n + 1), "ok")
      BY <1>2, <1>4
    <2>3. AvailableIn(K, u, (n + 1) + 1, t, id)
      <3>1. \A l \in (n + 1) + 1 .. n + 1 : id \notin Dying(u[l], t)
        BY <2>1, Zenon
      <3> QED BY <2>1, <2>2, <3>1, AvailableBehind, Zenon
    <2> QED BY <1>1, <2>1, <2>3
  <1> QED
    BY <1>1, <1>3, <1>4

\* The call at hand has its arguments from the calls of this round.
LEMMA HereAvailable ==
    ASSUME MinInv, Replaying, HereFound
    PROVE  \A i \in Slots(Here.func) :
               AvailableIn(known, cur, Len(cur) + 1, TypeOf(Here.func, i), Here.args[i])
  <1>1. Here \in RecordedCall /\ mpc = "replay"
    BY RoundTrace DEF Replaying
  <1>2. Here.func \in Func
    BY <1>1 DEF RecordedCall
  <1>3. \A i \in Slots(Here.func) :
            TypeOf(Here.func, i) \in Type /\ Here.args[i] \in mtree[TypeOf(Here.func, i)]
    BY <1>2, Table DEF HereFound
  <1> QED
    BY <1>1, <1>3, Zenon DEF MinInv, RoundPlays

LEMMA ReplayStands ==
    ASSUME MinInv, NEW outcome, ReplayReturns(outcome)
    PROVE  MinInv'
  <1>1. /\ UNCHANGED vars /\ mpc = "replay" /\ mpc' = mpc /\ Replaying /\ HereFound
        /\ outcome # "crash" /\ Does(outcome)
        /\ mtree' = [t \in Type |-> Survivors(Here, outcome, t)]
        /\ cur' = HereMade /\ jumpSet' = TRUE /\ idx' = idx + 1
        /\ given' = given /\ minTrace' = minTrace /\ todo' = todo /\ rounds' = rounds
        /\ removed' = removed /\ aborts' = aborts /\ abrtReset' = abrtReset
        /\ interrupts' = interrupts /\ mins' = mins
    BY Zenon DEF ReplayReturns, Replaying
  <1>2. LoopKept' /\ pc' = pc
    BY <1>1, LoopAsleep
  <1>3. /\ known \subseteq known' /\ Settles(known') /\ Did(known', HereMade, outcome)
        /\ \A s \in known' : s.calls \in Seq(RecordedCall)
    BY <1>1, DoesMore
  <1>4. /\ cur \in Seq(RecordedCall) /\ Here \in RecordedCall /\ HereMade \in Seq(RecordedCall)
        /\ Grows(HereMade)
        /\ \A k \in DOMAIN HereMade :
              \E j \in DOMAIN minTrace : j < idx + 1 /\ HereMade[k] = minTrace[j]
    BY <1>1, RoundTrace
  <1>5. outcome \in {"ok", "fail"} /\ Here.func \in Func /\ Here.result \in Nat
    <2>1. Here.func \in Func /\ Here.result \in Nat
      BY <1>4 DEF RecordedCall
    <2>2. outcome \in Outcomes[Here.func] /\ Outcomes[Here.func] \subseteq Outcome
      BY <1>1, <2>1, TableType DEF Does
    <2> QED BY <1>1, <2>1, <2>2 DEF Outcome
  <1>6. MinTyped'
    <2>1. mtree' \in [Type -> SUBSET Nat]
      <3>1. \A t \in Type : mtree[t] \subseteq Nat
        BY DEF MinInv, MinTyped, MinTypeOK
      <3>2. \A t \in Type : Survivors(Here, outcome, t) \subseteq Nat
        BY <1>5, <3>1 DEF Survivors
      <3> QED BY <1>1, <3>2
    <2>2. idx' \in Nat /\ idx' \in 1 .. Len(minTrace') + 1
      <3>1. idx \in Nat /\ Len(minTrace) \in Nat
        BY DEF MinInv, MinTyped, MinTypeOK
      <3> QED BY <1>1, <3>1 DEF Replaying
    <2>3. {jumpSet', aborts', abrtReset'} \subseteq BOOLEAN
      BY <1>1, Zenon DEF MinInv, MinTyped, MinTypeOK
    <2>4. \A s \in known' : s.outcome \in Outcome
      BY <1>3 DEF Settles
    <2>5. MinTypeOK'
      BY <1>1, <1>3, <1>4, <2>1, <2>2, <2>3, <2>4 DEF MinInv, MinTyped, MinTypeOK
    <2> QED BY <1>1, <1>2, <2>5 DEF MinInv, MinTyped, Grows
  <1>7. RoundPart'
    BY <1>1, <1>4 DEF RoundPart, Grows
  <1>8. PICK K, c, x, n : K = known' /\ c = cur /\ x = Here /\ n = Len(cur)
    OBVIOUS
  <1>9. /\ c \in Seq(RecordedCall) /\ x \in RecordedCall /\ n = Len(c)
        /\ cur' = Append(c, x) /\ Did(K, Append(c, x), outcome)
    BY <1>1, <1>3, <1>4, <1>8 DEF HereMade
  <1>10. RoundPlays'
    <2>1. ArgsAvailableIn(K, Append(c, x))
      <3>1. ArgsAvailableIn(K, c)
        BY <1>1, <1>3, <1>8, MoreIsKnown DEF MinInv, RoundPlays
      <3>2. \A i \in Slots(x.func) : AvailableIn(K, c, Len(c) + 1, TypeOf(x.func, i), x.args[i])
        BY <1>1, <1>3, <1>8, HereAvailable, MoreIsKnown, SMTT(60)
      <3> QED BY <1>9, <3>1, <3>2, ArgsAppend
    <2>2. \A k \in DOMAIN Append(c, x) : ReturnsIn(K, Append(c, x), k)
      <3>1. PICK u : u = Append(c, x)
        OBVIOUS
      <3>2. /\ n \in Nat /\ DOMAIN u = 1 .. n + 1 /\ DOMAIN c = 1 .. n
            /\ SubSeq(u, 1, n + 1) = u /\ \A k \in 1 .. n : SubSeq(u, 1, k) = SubSeq(c, 1, k)
        BY <1>9, <3>1, AppendPrefixes
      <3>3. \A k \in DOMAIN c : ReturnsIn(K, c, k)
        BY <1>1, <1>3, <1>8, MoreIsKnown DEF MinInv, RoundPlays
      <3>4. \A k \in 1 .. n : ReturnsIn(K, u, k)
        BY <3>2, <3>3 DEF ReturnsIn
      <3>5. ReturnsIn(K, u, n + 1)
        BY <1>5, <1>9, <3>1, <3>2 DEF ReturnsIn
      <3>6. \A k \in DOMAIN u : k \in 1 .. n \/ k = n + 1
        BY <3>2
      <3> QED BY <3>1, <3>4, <3>5, <3>6
    <2>3. ASSUME NEW t \in Type, NEW id \in Survivors(x, outcome, t)
          PROVE  AvailableIn(K, Append(c, x), Len(Append(c, x)) + 1, t, id)
      <3>1. Len(Append(c, x)) + 1 = n + 2
        BY <1>9
      <3>2. id \notin Dying(x, t)
        BY <2>3 DEF Survivors
      <3>3. id \in mtree[t] \/ (x.result = id /\ RetType[x.func] = t /\ outcome # "fail")
        BY <2>3 DEF Survivors
      <3>4. id \in mtree[t] => AvailableIn(K, c, Len(c) + 1, t, id)
        BY <1>1, <1>3, <1>8, MoreIsKnown DEF MinInv, RoundPlays
      <3>5. outcome # "fail" => Did(K, Append(c, x), "ok")
        BY <1>5, <1>9
      <3> QED
        BY <1>9, <3>1, <3>2, <3>3, <3>4, <3>5, SurvivorAvailable
    <2>4. \A t \in Type : mtree'[t] = Survivors(x, outcome, t)
      BY <1>1, <1>8
    <2> QED
      BY <1>8, <1>9, <2>1, <2>2, <2>3, <2>4 DEF RoundPlays
  <1>11. Plays'
    BY <1>1, <1>3, MoreIsKnown DEF MinInv, Plays
  <1> QED
    BY <1>2, <1>3, <1>6, <1>7, <1>10, <1>11 DEF MinInv

\* When the call at hand crashes, the calls of the round are a trace that plays.
LEMMA CrashPlays ==
    ASSUME MinInv, Replaying, HereFound, NEW K, known \subseteq K, Did(K, HereMade, "crash")
    PROVE  PlaysIn(K, HereMade)
  <1>1. cur \in Seq(RecordedCall) /\ Here \in RecordedCall /\ mpc = "replay"
    BY RoundTrace DEF Replaying
  <1>2. PICK c, x, n, u : c = cur /\ x = Here /\ n = Len(cur) /\ u = HereMade
    OBVIOUS
  <1>3. /\ n \in Nat /\ DOMAIN u = 1 .. n + 1 /\ DOMAIN c = 1 .. n /\ Len(u) = n + 1
        /\ SubSeq(u, 1, n + 1) = u /\ \A k \in 1 .. n : SubSeq(u, 1, k) = SubSeq(c, 1, k)
        /\ u = Append(c, x) /\ u # <<>>
    BY <1>1, <1>2, AppendPrefixes DEF HereMade
  <1>4. ArgsAvailableIn(K, u)
    <2>1. ArgsAvailableIn(K, c)
      BY <1>1, <1>2, MoreIsKnown DEF MinInv, RoundPlays
    <2>2. \A i \in Slots(x.func) : AvailableIn(K, c, Len(c) + 1, TypeOf(x.func, i), x.args[i])
      BY <1>2, HereAvailable, MoreIsKnown
    <2> QED BY <1>1, <1>2, <1>3, <2>1, <2>2, ArgsAppend
  <1>5. \A k \in 1 .. n : ReturnsIn(K, u, k)
    <2>1. \A k \in DOMAIN c : ReturnsIn(K, c, k)
      BY <1>1, <1>2, MoreIsKnown DEF MinInv, RoundPlays
    <2> QED BY <1>3, <2>1 DEF ReturnsIn
  <1>6. Did(K, SubSeq(u, 1, n + 1), "crash")
    BY <1>2, <1>3
  <1>7. \A k \in DOMAIN u : IF k = Len(u) THEN Did(K, SubSeq(u, 1, k), "crash")
                             ELSE ReturnsIn(K, u, k)
    <2>1. \A k \in DOMAIN u : k = n + 1 \/ k \in 1 .. n
      BY <1>3
    <2> QED BY <1>3, <1>5, <1>6, <2>1
  <1> QED
    BY <1>2, <1>3, <1>4, <1>7 DEF PlaysIn

\* A jump out of a round makes what the round has replayed the new trace.
LEMMA JumpStands ==
    ASSUME MinInv, mpc = "replay", NEW current \in Seq(RecordedCall), Grows(current),
           Crashed(current), LoopKept', pc' = "idle", Settles(known'),
           \A s \in known' : s.calls \in Seq(RecordedCall),
           UNCHANGED <<given, roundVars, mins>>,
           jumpSet' \in BOOLEAN, aborts' \in BOOLEAN, abrtReset' \in BOOLEAN,
           interrupts' \in 0 .. MaxMinSigint,
           interrupts' = 0 => PlaysIn(known', current)
    PROVE  MinInv'
  <1>1. /\ minTrace' = current /\ todo' \subseteq todo /\ rounds' = RoundsLeft /\ mpc' = "rounds"
        /\ given' = given /\ removed' = removed /\ cur' = cur /\ mtree' = mtree /\ idx' = idx
        /\ mins' = mins
    BY DEF Crashed, AfterRemoval, roundVars
  <1>2. rounds' \in Nat \cup {NoLimit}
    BY <1>1 DEF MinInv, MinTyped, MinTypeOK, RoundsLeft, NoLimit
  <1>3. MinTyped'
    <2>1. {jumpSet', aborts', abrtReset'} \subseteq BOOLEAN
      BY Zenon
    <2>2. MinTypeOK'
      BY <1>1, <1>2, <2>1 DEF MinInv, MinTyped, MinTypeOK, Settles
    <2> QED BY <1>1, <2>2 DEF MinTyped, Grows
  <1> QED
    BY <1>1, <1>3 DEF MinInv, RoundPart, RoundPlays, Plays

LEMMA CrashStands ==
    ASSUME MinInv, ReplayCrashes
    PROVE  MinInv'
  <1>1. /\ UNCHANGED vars /\ mpc = "replay" /\ Replaying /\ HereFound /\ Does("crash")
        /\ jumpSet' = TRUE /\ abrtReset' = aborts /\ Crashed(HereMade)
        /\ UNCHANGED <<given, roundVars, mins>> /\ aborts' = aborts /\ interrupts' = interrupts
    BY Zenon DEF ReplayCrashes, Replaying
  <1>2. LoopKept' /\ pc' = "idle"
    BY <1>1, LoopAsleep DEF MinInv, MinTyped
  <1>3. /\ known \subseteq known' /\ Settles(known') /\ Did(known', HereMade, "crash")
        /\ \A s \in known' : s.calls \in Seq(RecordedCall)
    BY <1>1, DoesMore
  <1>4. HereMade \in Seq(RecordedCall) /\ Grows(HereMade)
    BY <1>1, RoundTrace
  <1>5. PlaysIn(known', HereMade)
    BY <1>1, <1>3, CrashPlays
  <1>6. /\ jumpSet' \in BOOLEAN /\ aborts' \in BOOLEAN /\ abrtReset' \in BOOLEAN
        /\ interrupts' \in 0 .. MaxMinSigint
    <2>1. aborts \in BOOLEAN /\ interrupts \in 0 .. MaxMinSigint
      BY Zenon DEF MinInv, MinTyped, MinTypeOK
    <2> QED BY <1>1, <2>1, Zenon
  <1> QED
    BY <1>1, <1>2, <1>3, <1>4, <1>5, <1>6, JumpStands, Zenon

LEMMA SigintStands ==
    ASSUME MinInv, SigintAsCrash \/ SigintAstray \/ SigintTwice
    PROVE  MinInv'
  <1>0. /\ pc = "idle" /\ mpc \in {"rounds", "replay", "over"}
        /\ interrupts \in 0 .. MaxMinSigint /\ interrupts' = interrupts + 1
        /\ interrupts < MaxMinSigint
        /\ interrupts' \in 0 .. MaxMinSigint /\ interrupts' # 0
    <2>1. PressSigint
      BY DEF SigintAsCrash, SigintAstray, SigintTwice
    <2> QED BY <2>1, MinConstants DEF PressSigint, MinInv, MinTyped, MinTypeOK
  <1>1. /\ segv \in {0, 1} /\ exitLoop \in {0, 1}
    BY DEF MinInv, LoopKept, TypeFrame, TypeOK, SignalType
  <1>2. blocked \in BOOLEAN /\ (~SavesMask) \in BOOLEAN
    <2>1. blocked \in BOOLEAN
      BY Zenon DEF MinInv, LoopKept, TypeFrame, TypeOK, FlagType
    <2>2. (~SavesMask) \in BOOLEAN
      BY SMT
    <2> QED BY <2>1, <2>2
  <1>3. jumpSet \in BOOLEAN /\ aborts \in BOOLEAN /\ abrtReset \in BOOLEAN
    BY Zenon DEF MinInv, MinTyped, MinTypeOK
  <1>4. CASE SigintAsCrash
    <2>1. /\ exitLoop' = 1 /\ blocked' = ~SavesMask /\ mpc = "replay"
          /\ UNCHANGED notSignals /\ pc' = pc /\ segv' = segv /\ sigints' = sigints
          /\ UNCHANGED <<given, roundVars, mins>>
          /\ jumpSet' = jumpSet /\ aborts' = aborts /\ abrtReset' = abrtReset
          /\ known' = known
      BY <1>4, Zenon DEF SigintAsCrash
    <2>2. PICK current : /\ Crashed(current)
                         /\ current = cur \/ (Replaying /\ current = HereMade)
      BY <1>4 DEF SigintAsCrash
    <2>3. current \in Seq(RecordedCall) /\ Grows(current)
      BY <2>1, <2>2, RoundTrace
    <2>4. LoopKept' /\ pc' = "idle"
      <3>1. pc' \in {"idle", "panic"} /\ exitLoop' \in {0, 1} /\ segv' \in {0, 1}
        BY <1>0, <1>1, <2>1
      <3>2. blocked' \in BOOLEAN
        BY <1>2, <2>1, Zenon
      <3> QED BY <1>0, <2>1, <3>1, <3>2, LoopSleeps, Zenon DEF MinInv
    <2>5. Settles(known') /\ \A s \in known' : s.calls \in Seq(RecordedCall)
      BY <2>1 DEF MinInv, MinTyped, MinTypeOK
    <2>6. jumpSet' \in BOOLEAN /\ aborts' \in BOOLEAN /\ abrtReset' \in BOOLEAN
      BY <1>3, <2>1, Zenon
    <2> QED BY <1>0, <2>1, <2>2, <2>3, <2>4, <2>5, <2>6, JumpStands, Zenon
  <1>5. CASE SigintAstray
    <2>1. /\ mpc' = "undefined" /\ UNCHANGED notSignals
          /\ pc' = pc /\ segv' = segv /\ exitLoop' = exitLoop /\ blocked' = blocked
          /\ sigints' = sigints
          /\ UNCHANGED <<given, minTrace, todo, rounds, roundVars, jumpSet, aborts, abrtReset,
                         known, mins>>
      BY <1>5, Zenon DEF SigintAstray
    <2>2. LoopKept'
      BY <1>0, <1>1, <1>2, <2>1, LoopSleeps, Zenon DEF MinInv
    <2>3. MinTyped'
      <3>1. MinTypeOK'
        BY <1>0, <2>1 DEF MinInv, MinTyped, MinTypeOK, roundVars
      <3> QED BY <1>0, <2>1, <3>1 DEF MinInv, MinTyped, Grows
    <2> QED BY <2>1, <2>2, <2>3 DEF MinInv, RoundPart, RoundPlays, Plays
  <1>6. CASE SigintTwice
    <2>1. /\ mpc' = "off" /\ pc' = "panic" /\ UNCHANGED notSignals
          /\ segv' = segv /\ exitLoop' = exitLoop /\ blocked' = blocked /\ sigints' = sigints
          /\ UNCHANGED <<given, minTrace, todo, rounds, roundVars, jumpSet, aborts, abrtReset,
                         known, mins>>
      BY <1>6, Zenon DEF SigintTwice
    <2>2. LoopKept'
      BY <1>0, <1>1, <1>2, <2>1, LoopSleeps, Zenon DEF MinInv
    <2>3. MinTyped'
      <3>1. MinTypeOK'
        BY <1>0, <2>1 DEF MinInv, MinTyped, MinTypeOK, roundVars
      <3> QED BY <1>0, <2>1, <3>1 DEF MinInv, MinTyped, Grows
    <2> QED BY <2>1, <2>2, <2>3 DEF MinInv, RoundPart, RoundPlays, Plays
  <1> QED
    BY <1>4, <1>5, <1>6

\* No step, ^C or not, breaks the invariant.
LEMMA MinInvStep == MinInv /\ [MinNext]_minAllVars => MinInv'
  <1> SUFFICES ASSUME MinInv, [MinNext]_minAllVars PROVE MinInv'
    OBVIOUS
  <1>1. CASE mpc = "off" /\ Next /\ UNCHANGED minVars
    BY <1>1, LoopRuns
  <1>2. ASSUME NEW trace \in Traces,
               MinUndefined(trace) \/ \E limit \in Rounds : MinStart(trace, limit)
        PROVE  MinInv'
    BY <1>2, MinimizeStarts, UndefinedStands
  <1>3. CASE MinStep
    BY <1>3, WalkSteps, TryStands, SkipStands, ReplayStands, CrashStands, KilledStands,
       ReturnStands, Zenon DEF MinStep
  <1>4. CASE SigintAsCrash \/ SigintAstray \/ SigintTwice
    BY <1>4, SigintStands
  <1>5. CASE MinHalted \/ UNCHANGED minAllVars
    <2>1. UNCHANGED vars /\ UNCHANGED minVars
      BY <1>5, Zenon DEF MinHalted, minAllVars
    <2>2. LoopKept' /\ pc' = pc
      BY <2>1, LoopAsleep
    <2>3. MinTyped'
      <3>1. MinTypeOK'
        BY <2>1 DEF MinInv, MinTyped, MinTypeOK, minVars, roundVars
      <3> QED BY <2>1, <2>2, <3>1 DEF MinInv, MinTyped, minVars, Grows
    <2> QED BY <2>1, <2>2, <2>3 DEF MinInv, RoundPart, RoundPlays, Plays, minVars, roundVars
  <1> QED
    BY <1>1, <1>2, <1>3, <1>4, <1>5, Zenon DEF MinNext

LEMMA MinInvAlways == MinSpec => []MinInv
  BY MinInvInit, MinInvStep, PTL DEF MinSpec

-----------------------------------------------------------------------------
(* What a minimization promises *)

\* Traces, rounds, pool and counters of minerva_trace_minimize keep their types:
\* the walk removes the least identifier only while there is one, and the rounds
\* that are left do not wrap below zero (minerva_trace.c:294-359).
THEOREM MinTypeCorrect == MinSpec => []MinTypeOK
  <1>1. MinInv => MinTypeOK
    BY DEF MinInv, MinTyped
  <1> QED
    BY <1>1, MinInvAlways, PTL

\* When min is over and no ^C has disturbed it, the trace it returns is the one
\* it was given, or one that plays to a crash in its last call
\* (minerva_trace.c:328-342).
THEOREM MinimizedTracePlays == MinSpec => []MinReproducible
  <1>1. MinInv => MinReproducible
    BY PlaysAsKnown DEF MinInv, Plays, MinReproducible
  <1> QED
    BY <1>1, MinInvAlways, PTL

\* While it works, ^C or not, min only takes calls out of its trace.
THEOREM MinOnlyShrinks == MinSpec => MinShrinks
  <1>1. MinInv /\ [MinNext]_minAllVars =>
            [mpc # "off" /\ mpc' # "off" => PartOf(minTrace', minTrace)]_minAllVars
    <2> SUFFICES ASSUME MinInv, MinNext, mpc # "off", mpc' # "off"
                 PROVE  PartOf(minTrace', minTrace)
      OBVIOUS
    <2>1. PartOf(minTrace, minTrace)
      BY DEF MinInv, MinTyped, Grows, PartOf
    <2>2. ASSUME mpc = "replay", NEW current, Crashed(current),
                 current = cur \/ (Replaying /\ current = HereMade)
          PROVE  PartOf(minTrace', minTrace)
      BY <2>2, RoundTrace DEF Crashed
    <2>3. CASE ReplayCrashes
      BY <2>2, <2>3 DEF ReplayCrashes, Replaying
    <2>4. CASE SigintAsCrash
      BY <2>2, <2>4 DEF SigintAsCrash
    <2>5. CASE minTrace' = minTrace
      BY <2>1, <2>5
    <2>6. CASE MinStep
      <3>1. ReplayCrashes \/ minTrace' = minTrace
        BY <2>6, Zenon DEF MinStep, PassElem, TryElem, SkipCall, ReplayReturns, ReplayKilled,
           RoundEnds, Finish, MinReturn
      <3> QED BY <2>3, <2>5, <3>1
    <2>7. CASE SigintAstray \/ SigintTwice \/ MinHalted
      BY <2>5, <2>7, Zenon DEF SigintAstray, SigintTwice, MinHalted, minAllVars, minVars
    <2>8. ASSUME NEW trace, MinUndefined(trace) \/ \E limit \in Rounds : MinStart(trace, limit)
          PROVE  FALSE
      BY <2>8, Zenon DEF MinUndefined, MinStart
    <2> QED
      BY <2>4, <2>6, <2>7, <2>8, Zenon DEF MinNext
  <1> QED
    BY <1>1, MinInvAlways, PTL DEF MinSpec, MinShrinks
=============================================================================
