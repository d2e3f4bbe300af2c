-------------------------- MODULE FuzzLoop_proofs --------------------------
(***************************************************************************)
(* Machine-checked proofs about FuzzLoop: for every table of functions,    *)
(* every number of calls, loops and ^C, and both kinds of setjmp.  The     *)
(* second half is about the loop that the user leaves alone: the counters  *)
(* are exact, a draw always succeeds, a crash ends the trace, and the loop *)
(* implements CallLog.                                                     *)
(***************************************************************************)
EXTENDS FuzzLoopInv, FuzzRefinement, SeqLemmas

\* The table gives every function a sequence of typed slots.
LEMMA Table ==
    ASSUME NEW f \in Func
    PROVE  /\ RetType[f] \in Type
           /\ Len(Args[f]) \in Nat
           /\ \A i \in Slots(f) : TypeOf(f, i) \in Type
           /\ DestroySlots(f) \subseteq Slots(f)
  <1> DEFINE Formal == [type : Type, flags : SUBSET Flag]
  <1>1. Args[f] \in Seq(Formal) /\ RetType[f] \in Type
    BY TableType
  <1>2. \A i \in Slots(f) : Args[f][i] \in Formal
    <2> HIDE DEF Formal
    <2> QED BY <1>1 DEF Slots
  <1>3. \A i \in Slots(f) : TypeOf(f, i) \in Type
    BY <1>2 DEF TypeOf
  <1>4. Len(Args[f]) \in Nat
    <2> HIDE DEF Formal
    <2> QED BY <1>1
  <1> QED
    BY <1>1, <1>3, <1>4 DEF DestroySlots

-----------------------------------------------------------------------------
(* Types and frames *)


TypeFrame == TypeOK /\ Frame

\* A fresh context is well-typed.
LEMMA TypeInit == Init => TypeFrame
  <1> SUFFICES ASSUME Init PROVE TypeFrame
    BY Zenon
  <1>1. func \in Func
    BY TableType, Zenon DEF Init
  <1>2. PoolType /\ TraceType /\ ControlType /\ SignalType
    BY <1>1, LoopConstants, SMT
    DEF Init, PoolType, TraceType, ControlType, SignalType, InLoop, InCall, Dead,
    Unset, Forever
  <1>3. FlagType
    BY Zenon DEF Init, FlagType
  <1>4. Frame
    BY SMT DEF Init, Frame, InCall, Stored, Recorded
  <1> QED
    BY <1>2, <1>3, <1>4, Zenon DEF TypeFrame, TypeOK

\* Replacing an element of a sequence, or of one that is no element of it.
LEMMA SeqExcept ==
    ASSUME NEW S, NEW s \in Seq(S), NEW x \in S, NEW i
    PROVE  LET u == [s EXCEPT ![i] = x] IN
           u \in Seq(S) /\ Len(u) = Len(s) /\ DOMAIN u = DOMAIN s
  <1> DEFINE u == [s EXCEPT ![i] = x]
  <1>a. s \in [1 .. Len(s) -> S] /\ Len(s) \in Nat /\ DOMAIN s = 1 .. Len(s)
    OBVIOUS
  <1>1. u \in [1 .. Len(s) -> S] /\ Len(s) \in Nat /\ DOMAIN s = 1 .. Len(s)
    BY <1>a, Zenon
  <1> HIDE DEF u
  <1>2. u \in Seq(S) /\ Len(u) = Len(s) /\ DOMAIN u = DOMAIN s
    BY <1>1
  <1> QED
    BY <1>2 DEF u

\* Appending an element to a sequence.
LEMMA SeqAppend ==
    ASSUME NEW S, NEW s \in Seq(S), NEW x \in S
    PROVE  LET u == Append(s, x) IN
           /\ u \in Seq(S) /\ Len(u) = Len(s) + 1 /\ Len(s) \in Nat
           /\ u[Len(u)] = x
           /\ \A k \in DOMAIN s : u[k] = s[k]
           /\ DOMAIN s = 1 .. Len(s) /\ DOMAIN u = 1 .. Len(u)
  OBVIOUS

\* Every step of the loop, of the user and of ^C keeps the types.
LEMMA TypeStep == TypeFrame /\ [Next]_vars => TypeFrame'
  <1> SUFFICES ASSUME TypeFrame, [Next]_vars PROVE TypeFrame'
    BY Zenon
  <1> USE LoopConstants DEF poolVars, traceVars, loopVars, frameVars, sigVars
  <1>T. /\ PoolType /\ TraceType /\ ControlType /\ SignalType /\ FlagType /\ Frame
        /\ RetType[func] \in Type
        /\ \A i \in Slots(func) : TypeOf(func, i) \in Type
        /\ DestroySlots(func) \subseteq Slots(func)
    <2>1. PoolType /\ TraceType /\ ControlType /\ SignalType /\ FlagType /\ Frame
      BY Zenon DEF TypeFrame, TypeOK
    <2> QED BY <2>1, Table, Zenon DEF ControlType
  <1>Q. ASSUME PoolType', TraceType', ControlType', SignalType', FlagType', Frame'
        PROVE  TypeFrame'
    BY <1>Q, Zenon DEF TypeFrame, TypeOK
  <1>1. ASSUME NEW iter \in Iters, NEW mode \in Modes, Start(iter, mode)
      PROVE TypeFrame'
    <2>1. FlagType'
      BY <1>1, <1>T, Zenon DEF Start, FlagType
    <2>2. PoolType' /\ TraceType' /\ SignalType'
      BY <1>1, <1>T, SMT DEF Start, PoolType, TraceType, ControlType, SignalType,
         Frame, InCall, RecordedCall, Fates, Stored
    <2>3. ControlType' /\ Frame'
      BY <1>1, <1>T, SMT DEF Start, PoolType, TraceType, ControlType, Frame,
         InLoop, InCall, Dead, Stored, Recorded, LastCall
    <2> QED BY <2>1, <2>2, <2>3, <1>Q
  <1>2. ASSUME NEW f \in Func, PickFunc(f)
      PROVE TypeFrame'
    <2>1. FlagType'
      BY <1>2, <1>T, Zenon DEF PickFunc, FlagType
    <2>a. argv' \in Seq(Nat \cup {Unset}) /\ DOMAIN argv' = Slots(func')
      BY <1>2, Table DEF PickFunc, Slots
    <2>2. PoolType' /\ TraceType' /\ SignalType'
      BY <1>2, <1>T, SMT DEF PickFunc, PoolType, TraceType, ControlType,
         SignalType, Frame, InCall, RecordedCall, Fates, Stored
    <2>3. ControlType' /\ Frame'
      BY <1>2, <1>T, <2>a, SMT DEF PickFunc, PoolType, TraceType, ControlType,
         Frame, InLoop, InCall, Dead, Stored, Recorded, LastCall
    <2> QED BY <2>1, <2>2, <2>3, <1>Q
  <1>3. ASSUME NoCandidate
      PROVE TypeFrame'
    <2>1. FlagType'
      BY <1>3, <1>T, Zenon DEF NoCandidate, FlagType
    <2>2. PoolType' /\ TraceType' /\ SignalType'
      BY <1>3, <1>T, SMT DEF NoCandidate, PoolType, TraceType, ControlType,
         SignalType, Frame, InCall, RecordedCall, Fates, Stored
    <2>3. ControlType' /\ Frame'
      BY <1>3, <1>T, SMT DEF NoCandidate, PoolType, TraceType, ControlType, Frame,
         InLoop, InCall, Dead, Stored, Recorded, LastCall
    <2> QED BY <2>1, <2>2, <2>3, <1>Q
  <1>4. ASSUME LoopDone
      PROVE TypeFrame'
    <2>1. FlagType'
      BY <1>4, <1>T, Zenon DEF LoopDone, FlagType
    <2>2. PoolType' /\ TraceType' /\ SignalType'
      BY <1>4, <1>T, SMT DEF LoopDone, PoolType, TraceType, ControlType,
         SignalType, Frame, InCall, RecordedCall, Fates, Stored
    <2>3. ControlType' /\ Frame'
      BY <1>4, <1>T, SMT DEF LoopDone, PoolType, TraceType, ControlType, Frame,
         InLoop, InCall, Dead, Stored, Recorded, LastCall
    <2> QED BY <2>1, <2>2, <2>3, <1>Q
  <1>5. ASSUME Revert
      PROVE TypeFrame'
    <2>1. FlagType'
      BY <1>5, <1>T, Zenon DEF Revert, FlagType
    <2>2. PoolType' /\ TraceType' /\ SignalType'
      BY <1>5, <1>T, SMT DEF Revert, PoolType, TraceType, ControlType, SignalType,
         Frame, InCall, RecordedCall, Fates, Stored
    <2>3. ControlType' /\ Frame'
      BY <1>5, <1>T, SMT DEF Revert, PoolType, TraceType, ControlType, Frame,
         InLoop, InCall, Dead, Stored, Recorded, LastCall
    <2> QED BY <2>1, <2>2, <2>3, <1>Q
  <1>6. ASSUME Quit
      PROVE TypeFrame'
    <2>1. FlagType'
      BY <1>6, <1>T, Zenon DEF Quit, FlagType
    <2>2. PoolType' /\ TraceType' /\ SignalType'
      BY <1>6, <1>T, SMT DEF Quit, PoolType, TraceType, ControlType, SignalType,
         Frame, InCall, RecordedCall, Fates, Stored
    <2>3. ControlType' /\ Frame'
      BY <1>6, <1>T, SMT DEF Quit, PoolType, TraceType, ControlType, Frame, InLoop,
         InCall, Dead, Stored, Recorded, LastCall
    <2> QED BY <2>1, <2>2, <2>3, <1>Q
  <1>7. ASSUME Sigint
      PROVE TypeFrame'
    <2>1. FlagType'
      BY <1>7, <1>T, Zenon DEF Sigint, FlagType, Longjmp
    <2>2. PoolType' /\ TraceType' /\ SignalType'
      BY <1>7, <1>T, SMT DEF Sigint, PoolType, TraceType, ControlType, SignalType,
         Frame, InCall, RecordedCall, Fates, Stored, Longjmp
    <2>3. ControlType' /\ Frame'
      BY <1>7, <1>T, SMT DEF Sigint, PoolType, TraceType, ControlType, Frame,
         InLoop, InCall, Dead, Stored, Recorded, LastCall, Longjmp
    <2> QED BY <2>1, <2>2, <2>3, <1>Q
  <1>8. ASSUME SigintIdle
      PROVE TypeFrame'
    <2>1. FlagType'
      BY <1>8, <1>T, Zenon DEF SigintIdle, FlagType
    <2>2. PoolType' /\ TraceType' /\ SignalType'
      BY <1>8, <1>T, SMT DEF SigintIdle, PoolType, TraceType, ControlType,
         SignalType, Frame, InCall, RecordedCall, Fates, Stored
    <2>3. ControlType' /\ Frame'
      BY <1>8, <1>T, SMT DEF SigintIdle, PoolType, TraceType, ControlType, Frame,
         InLoop, InCall, Dead, Stored, Recorded, LastCall
    <2> QED BY <2>1, <2>2, <2>3, <1>Q
  <1>9. ASSUME NEW i \in Slots(func), NEW v \in tree[TypeOf(func, i)], PickArg(i, v)
      PROVE TypeFrame'
    <2>1. FlagType'
      BY <1>9, <1>T, Zenon DEF PickArg, FlagType
    <2>2. PoolType' /\ TraceType' /\ SignalType'
      BY <1>9, <1>T, SMT DEF PickArg, PoolType, TraceType, ControlType, SignalType,
         Frame, InCall, RecordedCall, Fates, Stored
    <2>3. ControlType' /\ Frame'
      BY <1>9, <1>T, SMT DEF PickArg, PoolType, TraceType, ControlType, Frame,
         InLoop, InCall, Dead, Stored, Recorded, LastCall
    <2> QED BY <2>1, <2>2, <2>3, <1>Q
  <1>10. ASSUME EmptyTree
      PROVE TypeFrame'
    <2>1. FlagType'
      BY <1>10, <1>T, Zenon DEF EmptyTree, FlagType, Segfault, Longjmp
    <2>2. PoolType' /\ TraceType' /\ SignalType'
      BY <1>10, <1>T, SMT DEF EmptyTree, PoolType, TraceType, ControlType,
         SignalType, Frame, InCall, RecordedCall, Fates, Stored, Segfault, Longjmp
    <2>3. ControlType' /\ Frame'
      BY <1>10, <1>T, SMT DEF EmptyTree, PoolType, TraceType, ControlType, Frame,
         InLoop, InCall, Dead, Stored, Recorded, LastCall, Segfault, Longjmp
    <2> QED BY <2>1, <2>2, <2>3, <1>Q
  <1>11. ASSUME CountNew
      PROVE TypeFrame'
    <2>1. FlagType'
      BY <1>11, <1>T, Zenon DEF CountNew, FlagType
    <2>a. \A i \in Slots(func) : argv[i] \in Nat
      <3>1. \A i \in DOMAIN argv : argv[i] \in Nat \cup {Unset}
        BY <1>T DEF ControlType
      <3> QED BY <3>1, <1>11, <1>T DEF CountNew, Unfilled, Frame, InCall
    <2>2. PoolType' /\ TraceType' /\ SignalType'
      BY <1>11, <1>T, SMT DEF CountNew, PoolType, TraceType, ControlType,
         SignalType, Frame, InCall, RecordedCall, Fates, Stored
    <2>3. ControlType' /\ Frame'
      BY <1>11, <1>T, <2>a, SMT DEF CountNew, PoolType, TraceType, ControlType,
         Frame, InLoop, InCall, Dead, Stored, Recorded, LastCall
    <2> QED BY <2>1, <2>2, <2>3, <1>Q
  <1>12. ASSUME InsertNew
      PROVE TypeFrame'
    <2>1. FlagType'
      BY <1>12, <1>T, Zenon DEF InsertNew, FlagType
    <2>2. PoolType' /\ TraceType' /\ SignalType'
      BY <1>12, <1>T, SMT DEF InsertNew, PoolType, TraceType, ControlType,
         SignalType, Frame, InCall, RecordedCall, Fates, Stored
    <2>3. ControlType' /\ Frame'
      BY <1>12, <1>T, SMT DEF InsertNew, PoolType, TraceType, ControlType, Frame,
         InLoop, InCall, Dead, Stored, Recorded, LastCall
    <2> QED BY <2>1, <2>2, <2>3, <1>Q
  <1>13. ASSUME Record
      PROVE TypeFrame'
    <2>1. FlagType'
      BY <1>13, <1>T, Zenon DEF Record, FlagType
    <2>a. argv \in Seq(Nat)
      <3>1. Len(argv) \in Nat /\ argv \in [1 .. Len(argv) -> Nat \cup {Unset}]
        BY <1>T DEF ControlType
      <3>2. \A i \in DOMAIN argv : argv[i] \in Nat
        BY <1>13, <1>T DEF Record, Frame, InCall
      <3> QED BY <3>1, <3>2
    <2>b. [func |-> func, result |-> newId, args |-> argv] \in RecordedCall
      BY <2>a, <1>13, <1>T DEF Record, RecordedCall, ControlType, Frame, Stored
    <2>c. DOMAIN argv = Slots(func)
      BY <1>13, <1>T DEF Record, Frame, InCall
    <2>d. /\ calls' \in Seq(RecordedCall) /\ Len(calls') = Len(calls) + 1
          /\ calls'[Len(calls')] = [func |-> func, result |-> newId, args |-> argv]
          /\ \A k \in DOMAIN calls : calls'[k] = calls[k]
          /\ DOMAIN calls' = DOMAIN calls \cup {Len(calls')}
      <3> DEFINE r == [func |-> func, result |-> newId, args |-> argv]
      <3>1. calls' = Append(calls, r)
        BY <1>13 DEF Record
      <3>2. calls \in Seq(RecordedCall) /\ r \in RecordedCall
        BY <2>b, <1>T DEF TraceType
      <3> HIDE DEF r
      <3>3. /\ calls' \in Seq(RecordedCall) /\ Len(calls') = Len(calls) + 1 /\ Len(calls) \in Nat
            /\ calls'[Len(calls')] = r
            /\ \A k \in DOMAIN calls : calls'[k] = calls[k]
            /\ DOMAIN calls = 1 .. Len(calls) /\ DOMAIN calls' = 1 .. Len(calls')
        BY <3>1, <3>2, SeqAppend
      <3>4. DOMAIN calls' = DOMAIN calls \cup {Len(calls')}
        BY <3>3
      <3> QED BY <3>3, <3>4 DEF r
    <2>2. PoolType' /\ TraceType' /\ SignalType'
      BY <1>13, <1>T, <2>d, SMT DEF Record, PoolType, TraceType, ControlType,
         SignalType, Frame, InCall, RecordedCall, Fates, Stored
    <2>3. ControlType' /\ Frame'
      BY <1>13, <1>T, <2>c, <2>d, SMT DEF Record, PoolType, TraceType, ControlType,
         Frame, InLoop, InCall, Dead, Stored, Recorded, LastCall
    <2> QED BY <2>1, <2>2, <2>3, <1>Q
  <1>14. ASSUME TargetReturns
      PROVE TypeFrame'
    <2>1. FlagType'
      BY <1>14, <1>T, Zenon DEF TargetReturns, FlagType, SetFate
    <2>a. fate' \in Seq(Fates) /\ Len(fate') = Len(fate)
      BY <1>14, <1>T, SeqExcept, "returned" \in Fates DEF TargetReturns, SetFate,
         TraceType, Fates
    <2>2. PoolType' /\ TraceType' /\ SignalType'
      BY <1>14, <1>T, <2>a, SMT DEF TargetReturns, PoolType, TraceType,
         ControlType, SignalType, Frame, InCall, RecordedCall, Fates, Stored,
         SetFate
    <2>3. ControlType' /\ Frame'
      BY <1>14, <1>T, <2>a, SMT DEF TargetReturns, PoolType, TraceType,
         ControlType, Frame, InLoop, InCall, Dead, Stored, Recorded, LastCall,
         SetFate
    <2> QED BY <2>1, <2>2, <2>3, <1>Q
  <1>15. ASSUME TargetCrashes
      PROVE TypeFrame'
    <2>1. FlagType'
      BY <1>15, <1>T, Zenon DEF TargetCrashes, FlagType, SetFate, Segfault, Longjmp
    <2>a. fate' \in Seq(Fates) /\ Len(fate') = Len(fate)
      BY <1>15, <1>T, SeqExcept, "crash" \in Fates DEF TargetCrashes, SetFate,
         TraceType, Fates
    <2>2. PoolType' /\ TraceType' /\ SignalType'
      BY <1>15, <1>T, <2>a, SMT DEF TargetCrashes, PoolType, TraceType,
         ControlType, SignalType, Frame, InCall, RecordedCall, Fates, Stored,
         SetFate, Segfault, Longjmp
    <2>3. ControlType' /\ Frame'
      BY <1>15, <1>T, <2>a, SMT DEF TargetCrashes, PoolType, TraceType,
         ControlType, Frame, InLoop, InCall, Dead, Stored, Recorded, LastCall,
         SetFate, Segfault, Longjmp
    <2> QED BY <2>1, <2>2, <2>3, <1>Q
  <1>16. ASSUME NEW i \in doomed, CountDestroyed(i)
      PROVE TypeFrame'
    <2>1. FlagType'
      BY <1>16, <1>T, Zenon DEF CountDestroyed, FlagType
    <2>2. PoolType' /\ TraceType' /\ SignalType'
      BY <1>16, <1>T, SMT DEF CountDestroyed, PoolType, TraceType, ControlType,
         SignalType, Frame, InCall, RecordedCall, Fates, Stored
    <2>3. ControlType' /\ Frame'
      BY <1>16, <1>T, SMT DEF CountDestroyed, PoolType, TraceType, ControlType,
         Frame, InLoop, InCall, Dead, Stored, Recorded, LastCall
    <2> QED BY <2>1, <2>2, <2>3, <1>Q
  <1>17. ASSUME NEW i \in doomed, UnlinkDestroyed(i)
      PROVE TypeFrame'
    <2>1. FlagType'
      BY <1>17, <1>T, Zenon DEF UnlinkDestroyed, FlagType
    <2>2. PoolType' /\ TraceType' /\ SignalType'
      BY <1>17, <1>T, SMT DEF UnlinkDestroyed, PoolType, TraceType, ControlType,
         SignalType, Frame, InCall, RecordedCall, Fates, Stored
    <2>3. ControlType' /\ Frame'
      BY <1>17, <1>T, SMT DEF UnlinkDestroyed, PoolType, TraceType, ControlType,
         Frame, InLoop, InCall, Dead, Stored, Recorded, LastCall
    <2> QED BY <2>1, <2>2, <2>3, <1>Q
  <1>18. ASSUME CheckOk
      PROVE TypeFrame'
    <2>1. FlagType'
      BY <1>18, <1>T, Zenon DEF CheckOk, FlagType, SetFate, NextIter
    <2>a. fate' \in Seq(Fates) /\ Len(fate') = Len(fate)
      BY <1>18, <1>T, SeqExcept, "ok" \in Fates DEF CheckOk, SetFate, TraceType,
         Fates
    <2>2. PoolType' /\ TraceType' /\ SignalType'
      BY <1>18, <1>T, <2>a, SMT DEF CheckOk, PoolType, TraceType, ControlType,
         SignalType, Frame, InCall, RecordedCall, Fates, Stored, SetFate, NextIter
    <2>3. ControlType' /\ Frame'
      BY <1>18, <1>T, <2>a, SMT DEF CheckOk, PoolType, TraceType, ControlType,
         Frame, InLoop, InCall, Dead, Stored, Recorded, LastCall, SetFate, NextIter
    <2> QED BY <2>1, <2>2, <2>3, <1>Q
  <1>19. ASSUME CheckFails
      PROVE TypeFrame'
    <2>1. FlagType'
      BY <1>19, <1>T, Zenon DEF CheckFails, FlagType, SetFate
    <2>a. fate' \in Seq(Fates) /\ Len(fate') = Len(fate)
      BY <1>19, <1>T, SeqExcept, "fail" \in Fates DEF CheckFails, SetFate,
         TraceType, Fates
    <2>2. PoolType' /\ TraceType' /\ SignalType'
      BY <1>19, <1>T, <2>a, SMT DEF CheckFails, PoolType, TraceType, ControlType,
         SignalType, Frame, InCall, RecordedCall, Fates, Stored, SetFate
    <2>3. ControlType' /\ Frame'
      BY <1>19, <1>T, <2>a, SMT DEF CheckFails, PoolType, TraceType, ControlType,
         Frame, InLoop, InCall, Dead, Stored, Recorded, LastCall, SetFate
    <2> QED BY <2>1, <2>2, <2>3, <1>Q
  <1>20. ASSUME CountDropped
      PROVE TypeFrame'
    <2>1. FlagType'
      BY <1>20, <1>T, Zenon DEF CountDropped, FlagType
    <2>2. PoolType' /\ TraceType' /\ SignalType'
      BY <1>20, <1>T, SMT DEF CountDropped, PoolType, TraceType, ControlType,
         SignalType, Frame, InCall, RecordedCall, Fates, Stored
    <2>3. ControlType' /\ Frame'
      BY <1>20, <1>T, SMT DEF CountDropped, PoolType, TraceType, ControlType,
         Frame, InLoop, InCall, Dead, Stored, Recorded, LastCall
    <2> QED BY <2>1, <2>2, <2>3, <1>Q
  <1>21. ASSUME UnlinkDropped
      PROVE TypeFrame'
    <2>1. FlagType'
      BY <1>21, <1>T, Zenon DEF UnlinkDropped, FlagType, NextIter
    <2>2. PoolType' /\ TraceType' /\ SignalType'
      BY <1>21, <1>T, SMT DEF UnlinkDropped, PoolType, TraceType, ControlType,
         SignalType, Frame, InCall, RecordedCall, Fates, Stored, NextIter
    <2>3. ControlType' /\ Frame'
      BY <1>21, <1>T, SMT DEF UnlinkDropped, PoolType, TraceType, ControlType,
         Frame, InLoop, InCall, Dead, Stored, Recorded, LastCall, NextIter
    <2> QED BY <2>1, <2>2, <2>3, <1>Q
  <1>22. CASE Halted \/ Redraw \/ UNCHANGED vars
    <2>1. UNCHANGED vars
      BY <1>22, Zenon DEF Halted, Redraw
    <2>2. FlagType'
      BY <2>1, <1>T, Zenon DEF vars, FlagType
    <2>3. PoolType' /\ TraceType' /\ ControlType' /\ SignalType' /\ Frame'
      BY <2>1, <1>T, SMT DEF vars, PoolType, TraceType, ControlType, SignalType,
         Frame, Stored, Recorded, LastCall
    <2> QED BY <2>2, <2>3, <1>Q
  <1> QED
    BY <1>1, <1>2, <1>3, <1>4, <1>5, <1>6, <1>7, <1>8, <1>9, <1>10, <1>11, <1>12,
       <1>13, <1>14, <1>15, <1>16, <1>17, <1>18, <1>19, <1>20, <1>21, <1>22,
       Zenon DEF Next, LoopStep, UserStep, RandomCall, Call

\* Every variable keeps its type, and the locals of a call keep their shape.
THEOREM TypeCorrect == Spec => []TypeOK
  <1>1. Spec => []TypeFrame
    BY TypeInit, TypeStep, PTL DEF Spec
  <1>2. TypeFrame => TypeOK
    BY Zenon DEF TypeFrame
  <1> QED
    BY <1>1, <1>2, PTL

-----------------------------------------------------------------------------
(* The counters never wrap *)

\* The slots before one of a function are finitely many.
LEMMA EarlierFinite ==
    ASSUME TypeFrame, NEW i \in ToCount
    PROVE  /\ ToCount \subseteq Slots(func) /\ i \in Nat
           /\ IsFiniteSet(Earlier(i)) /\ Cardinality(Earlier(i)) \in Nat
           /\ TypeOf(func, i) \in Type
  <1>1. func \in Func /\ doomed \subseteq DestroySlots(func)
    BY DEF TypeFrame, TypeOK, ControlType
  <1>2. DestroySlots(func) \subseteq Slots(func) /\ Len(Args[func]) \in Nat
    BY <1>1, Table
  <1>3. ToCount \subseteq Slots(func)
    BY <1>1, <1>2, Zenon DEF ToCount
  <1>4. IsFiniteSet(1 .. Len(Args[func]))
    BY <1>2, FS_Interval
  <1>5. Earlier(i) \subseteq 1 .. Len(Args[func])
    BY <1>3 DEF Earlier, Slots
  <1>6. IsFiniteSet(Earlier(i))
    BY <1>4, <1>5, FS_Subset
  <1>7. Cardinality(Earlier(i)) \in Nat
    BY <1>6, FS_CardinalityType
  <1>8. TypeOf(func, i) \in Type
    BY <1>1, <1>3, Table
  <1> QED
    BY <1>2, <1>3, <1>6, <1>7, <1>8 DEF Slots

\* A step that leaves the counters and what is still to be counted alone.
LEMMA CoversSame ==
    ASSUME LenCovers, len' = len, func' = func, ToCount' = ToCount,
           \A t \in Type : Own(t)' = Own(t), TypeFrame
    PROVE  LenCovers'
  <1>1. \A i \in ToCount : Earlier(i)' = Earlier(i)
    BY DEF Earlier
  <1>2. \A i \in ToCount : TypeOf(func, i) \in Type
    BY EarlierFinite
  <1> QED
    BY <1>1, <1>2 DEF LenCovers

\* A step to a place where nothing is left to be counted.
LEMMA CoversNothing ==
    ASSUME LenCovers, len' = len, TypeFrame,
           pc' \in {"pick", "out", "idle"} \cup Dead
    PROVE  LenCovers'
  <1>1. ToCount' = {} /\ \A t \in Type : Own(t)' = 0
    BY DEF ToCount, Own, Counted, Dead
  <1>2. \A t \in Type : len[t] >= 0
    BY SMT DEF LenCovers, Own, TypeFrame, TypeOK, PoolType
  <1> QED
    BY <1>1, <1>2 DEF LenCovers

\* minerva_func_qualify leaves room for every argument destroyed later.
LEMMA CoversQualified ==
    ASSUME TypeFrame, LenCovers, NEW f \in Func, PickFunc(f)
    PROVE  LenCovers'
  <1>1. /\ len' = len /\ func' = f
        /\ ToCount' = DestroySlots(f)
        /\ ~Counted'
    BY DEF PickFunc, ToCount, Counted, poolVars
  <1>2. \A t \in Type : len[t] >= 0
    BY SMT DEF LenCovers, Own, TypeFrame, TypeOK, PoolType
  <1>3. ASSUME NEW i \in DestroySlots(f)
        PROVE  len[TypeOf(f, i)] > Cardinality(Earlier(i)') + 0
    <2>1. /\ i \in Slots(f) /\ TypeOf(f, i) \in Type /\ Len(Args[f]) \in Nat
          /\ DestroySlots(f) \subseteq Slots(f)
      BY <1>3, Table
    <2>2. len[TypeOf(f, i)] > Cardinality(Reserved(f, i))
      BY <2>1 DEF PickFunc, Candidates, Qualify
    <2>3. Earlier(i)' = {j \in DestroySlots(f) : j < i /\ TypeOf(f, j) = TypeOf(f, i)}
      BY <1>1 DEF Earlier
    <2>4. Earlier(i)' \subseteq Reserved(f, i)
      BY <2>1, <2>3, DestroyIsUnique DEF Reserved, Slots
    <2>5. IsFiniteSet(Reserved(f, i))
      <3>1. IsFiniteSet(1 .. Len(Args[f]))
        BY <2>1, FS_Interval
      <3>2. Reserved(f, i) \subseteq 1 .. Len(Args[f])
        BY <2>1 DEF Reserved, Slots
      <3> QED BY <3>1, <3>2, FS_Subset
    <2>6. /\ Cardinality(Earlier(i)') <= Cardinality(Reserved(f, i))
          /\ Cardinality(Earlier(i)') \in Nat /\ Cardinality(Reserved(f, i)) \in Nat
      BY <2>4, <2>5, FS_Subset, FS_CardinalityType
    <2>7. len[TypeOf(f, i)] \in Int
      BY <2>1 DEF TypeFrame, TypeOK, PoolType
    <2> QED BY <2>2, <2>6, <2>7
  <1>4. \A i \in DestroySlots(f) : TypeOf(f, i) \in Type
    BY Table
  <1>5. \A i \in DestroySlots(f) : len[TypeOf(f, i)] \in Int
    BY <1>4 DEF TypeFrame, TypeOK, PoolType
  <1> QED
    BY <1>1, <1>2, <1>3, <1>4, <1>5 DEF LenCovers, Own

\* The result is counted, and its unit is its own.
LEMMA CoversNew ==
    ASSUME TypeFrame, LenCovers, CountNew
    PROVE  LenCovers'
  <1>1. RetType[func] \in Type /\ len \in [Type -> Int]
    BY Table DEF TypeFrame, TypeOK, ControlType, PoolType
  <1>2. /\ pc = "args" /\ pc' = "insert" /\ func' = func
        /\ len' = [len EXCEPT ![RetType[func]] = @ + 1]
    BY DEF CountNew, frameVars
  <1>3. ToCount' = ToCount /\ ~Counted /\ Counted'
    BY <1>2 DEF ToCount, Counted
  <1>4. \A i \in ToCount : Earlier(i)' = Earlier(i)
    BY <1>2, <1>3 DEF Earlier
  <1>5. \A i \in ToCount : TypeOf(func, i) \in Type /\ Cardinality(Earlier(i)) \in Nat
    BY EarlierFinite
  <1> QED
    BY <1>1, <1>2, <1>3, <1>4, <1>5 DEF LenCovers, Own

\* The DESTROY argument at hand is counted before the other ones of its type.
LEMMA FirstIsLeast ==
    ASSUME TypeFrame, NEW i, FirstDoomed(i)
    PROVE  {j \in doomed : ~FirstDoomed(j)} = doomed \ {i}
  <1>1. doomed \subseteq Nat
    <2>1. func \in Func /\ doomed \subseteq DestroySlots(func)
      BY DEF TypeFrame, TypeOK, ControlType
    <2> QED BY <2>1, Table DEF Slots
  <1>2. \A j \in doomed : FirstDoomed(j) <=> j = i
    BY <1>1 DEF FirstDoomed
  <1> QED
    BY <1>2

\* One DESTROY argument is counted down: those behind it of its type had one
\* more ahead of them, and those of other types are as before.
LEMMA CoversDestroyed ==
    ASSUME TypeFrame, LenCovers, NEW i \in doomed, CountDestroyed(i)
    PROVE  LenCovers'
  <1> DEFINE T == TypeOf(func, i)
  <1>1. /\ pc = "destroy" /\ pc' = "unlink" /\ func' = func /\ doomed' = doomed
        /\ len' = [len EXCEPT ![T] = @ - 1]
        /\ FirstDoomed(i)
    BY DEF CountDestroyed, frameVars
  <1>2. ToCount = doomed /\ Counted /\ Counted'
    BY <1>1 DEF ToCount, Counted
  <1>3. ToCount' = doomed \ {i}
    <2>1. ToCount' = {j \in doomed : ~FirstDoomed(j)}
      BY <1>1 DEF ToCount, FirstDoomed
    <2> QED BY <2>1, <1>1, FirstIsLeast
  <1>4. T \in Type /\ RetType[func] \in Type /\ len \in [Type -> Int] /\ doomed \subseteq Nat
    <2>1. func \in Func /\ doomed \subseteq DestroySlots(func) /\ len \in [Type -> Int]
      BY DEF TypeFrame, TypeOK, ControlType, PoolType
    <2>2. doomed \subseteq Slots(func) /\ Len(Args[func]) \in Nat /\ RetType[func] \in Type
      BY <2>1, Table
    <2> QED BY <2>1, <2>2, Table DEF Slots
  <1>5. len[T] > Own(T) /\ \A t \in Type : len[t] >= Own(t)
    <2>1. Cardinality(Earlier(i)) \in Nat /\ len[T] > Cardinality(Earlier(i)) + Own(T)
      BY <1>2, EarlierFinite DEF LenCovers
    <2> QED BY <2>1, <1>4, SMT DEF LenCovers, Own
  <1>6. \A t \in Type : len'[t] >= Own(t)'
    BY <1>1, <1>2, <1>4, <1>5, SMT DEF Own
  <1>7. ASSUME NEW j \in doomed \ {i}
        PROVE  len'[TypeOf(func, j)] > Cardinality(Earlier(j)') + Own(TypeOf(func, j))
    <2>1. /\ TypeOf(func, j) \in Type /\ IsFiniteSet(Earlier(j))
          /\ Cardinality(Earlier(j)) \in Nat
          /\ len[TypeOf(func, j)] > Cardinality(Earlier(j)) + Own(TypeOf(func, j))
      BY <1>2, EarlierFinite DEF LenCovers
    <2>2. Earlier(j)' = {k \in doomed \ {i} : k < j /\ TypeOf(func, k) = TypeOf(func, j)}
      BY <1>1, <1>3 DEF Earlier
    <2>3. Earlier(j)' = Earlier(j) \ {i}
      BY <2>2, <1>2 DEF Earlier
    <2>4. CASE TypeOf(func, j) = T
      <3>1. i < j
        BY <1>1, <1>4 DEF FirstDoomed
      <3>2. i \in Earlier(j)
        BY <3>1, <2>4, <1>2 DEF Earlier
      <3>3. Cardinality(Earlier(j)') = Cardinality(Earlier(j)) - 1
        BY <3>2, <2>1, <2>3, FS_RemoveElement
      <3> QED BY <3>3, <2>1, <2>4, <1>1, <1>4 DEF Own
    <2>5. CASE TypeOf(func, j) # T
      <3>1. Earlier(j)' = Earlier(j)
        BY <2>3, <2>5 DEF Earlier
      <3> QED BY <3>1, <2>1, <2>5, <1>1, <1>4
    <2> QED BY <2>4, <2>5
  <1>8. \A j \in doomed \ {i} :
            len'[TypeOf(func', j)] > Cardinality(Earlier(j)') + Own(TypeOf(func, j))'
    BY <1>7, <1>1, <1>2, Zenon DEF Own
  <1> QED
    BY <1>3, <1>6, <1>8, Zenon DEF LenCovers

\* Removing a counted variable from its tree leaves the counters alone.
LEMMA CoversUnlinked ==
    ASSUME TypeFrame, LenCovers, NEW i \in doomed, UnlinkDestroyed(i)
    PROVE  LenCovers'
  <1>1. ToCount' = ToCount
    BY FirstIsLeast DEF UnlinkDestroyed, ToCount
  <1>2. len' = len /\ func' = func /\ \A t \in Type : Own(t)' = Own(t)
    BY DEF UnlinkDestroyed, Own, Counted
  <1> QED
    BY <1>1, <1>2, CoversSame

\* A rejected result gives back its own unit.
LEMMA CoversDropped ==
    ASSUME TypeFrame, LenCovers, CountDropped
    PROVE  LenCovers'
  <1>1. RetType[func] \in Type /\ len \in [Type -> Int]
    BY Table DEF TypeFrame, TypeOK, ControlType, PoolType
  <1>2. ToCount' = {} /\ ~Counted' /\ Counted /\ func' = func
    BY DEF CountDropped, ToCount, Counted, frameVars
  <1>3. len' = [len EXCEPT ![RetType[func]] = @ - 1]
    BY DEF CountDropped
  <1> QED
    BY <1>1, <1>2, <1>3 DEF LenCovers, Own

\* In a fresh context nothing is counted and nothing is to be counted.
LEMMA LenInit == Init => LenCovers
  BY SMT DEF Init, LenCovers, ToCount, Own, Counted

\* Every step keeps the counters large enough.
LEMMA LenStep == TypeFrame /\ LenCovers /\ [Next]_vars => LenCovers'
  <1> SUFFICES ASSUME TypeFrame, LenCovers, [Next]_vars PROVE LenCovers'
    BY Zenon
  <1> USE DEF poolVars, traceVars, loopVars, frameVars, sigVars
  <1>1. ASSUME NEW iter \in Iters, NEW mode \in Modes, Start(iter, mode) PROVE LenCovers'
    BY <1>1, CoversNothing DEF Start
  <1>2. ASSUME NEW f \in Func, PickFunc(f) PROVE LenCovers'
    BY <1>2, CoversQualified
  <1>3. CASE NoCandidate \/ LoopDone \/ Revert \/ Quit
    BY <1>3, CoversNothing DEF NoCandidate, LoopDone, Revert, Quit, Dead
  <1>4. CASE Sigint \/ SigintIdle \/ EmptyTree \/ TargetCrashes
    BY <1>4, CoversNothing
    DEF Sigint, SigintIdle, EmptyTree, TargetCrashes, Segfault, Longjmp, Dead
  <1>5. ASSUME NEW i \in Slots(func), NEW v \in tree[TypeOf(func, i)], PickArg(i, v)
        PROVE  LenCovers'
    BY <1>5, CoversSame DEF PickArg, ToCount, Own, Counted
  <1>6. CASE CountNew
    BY <1>6, CoversNew
  <1>7. CASE InsertNew
    BY <1>7, CoversSame DEF InsertNew, ToCount, Own, Counted
  <1>8. CASE Record
    BY <1>8, CoversSame DEF Record, ToCount, Own, Counted
  <1>9. CASE TargetReturns
    BY <1>9, CoversSame DEF TargetReturns, ToCount, Own, Counted
  <1>10. ASSUME NEW i \in doomed, CountDestroyed(i) PROVE LenCovers'
    BY <1>10, CoversDestroyed
  <1>11. ASSUME NEW i \in doomed, UnlinkDestroyed(i) PROVE LenCovers'
    BY <1>11, CoversUnlinked
  <1>12. CASE CheckOk
    BY <1>12, CoversNothing DEF CheckOk, NextIter
  <1>13. CASE CheckFails
    BY <1>13, CoversSame DEF CheckFails, ToCount, Own, Counted
  <1>14. CASE CountDropped
    BY <1>14, CoversDropped
  <1>15. CASE UnlinkDropped
    BY <1>15, CoversNothing DEF UnlinkDropped, NextIter
  <1>16. CASE Halted \/ Redraw \/ UNCHANGED vars
    <2>1. UNCHANGED vars
      BY <1>16, Zenon DEF Halted, Redraw
    <2> QED
      BY <2>1, CoversSame DEF vars, ToCount, FirstDoomed, Own, Counted
  <1> QED
    BY <1>1, <1>2, <1>3, <1>4, <1>5, <1>6, <1>7, <1>8, <1>9, <1>10, <1>11, <1>12,
       <1>13, <1>14, <1>15, <1>16, Zenon DEF Next, LoopStep, UserStep, RandomCall,
       Call

\* However often ^C tears a counter off its tree, minerva_func_qualify reads
\* counters that have not wrapped (minerva_var.c:75 and 98 step an unsigned).
THEOREM CountersNeverWrap == Spec => []LenNeverWraps
  <1>1. Spec => [](TypeFrame /\ LenCovers)
    BY TypeInit, TypeStep, LenInit, LenStep, PTL DEF Spec
  <1>2. TypeFrame /\ LenCovers => LenNeverWraps
    BY SMT DEF TypeFrame, TypeOK, PoolType, LenCovers, LenNeverWraps, Own
  <1> QED
    BY <1>1, <1>2, PTL

-----------------------------------------------------------------------------
(* The arguments of the call at hand *)

\* What TypeFrame says of the call at hand, in the form the steps below use.
LEMMA CallTypes ==
    ASSUME TypeFrame
    PROVE  /\ func \in Func /\ RetType[func] \in Type
           /\ Slots(func) \subseteq Nat
           /\ \A i \in Slots(func) : TypeOf(func, i) \in Type
           /\ doomed \subseteq DestroySlots(func) /\ DestroySlots(func) \subseteq Slots(func)
           /\ tree \in [Type -> SUBSET Nat] /\ curId \in Nat
           /\ pc \in InCall => DOMAIN argv = Slots(func)
           /\ pc \in InCall \ {"args"} => \A i \in Slots(func) : argv[i] \in Nat
  <1>1. func \in Func /\ doomed \subseteq DestroySlots(func)
    BY DEF TypeFrame, TypeOK, ControlType
  <1>2. Slots(func) \subseteq Nat
    BY <1>1, Table DEF Slots
  <1> QED
    BY <1>1, <1>2, Table, Zenon DEF TypeFrame, TypeOK, PoolType, Frame

\* A step that leaves the call at hand and the pool alone.
LEMMA AliveSame ==
    ASSUME Alive, tree' = tree, func' = func, argv' = argv, doomed' = doomed,
           \/ pc' = pc
           \/ pc' \in {"insert", "record", "run"} /\ pc \in {"args", "insert", "record"}
           \/ pc = "destroy" /\ pc' = "unlink"
           \/ pc \in InCall /\ pc' \in {"dropcount", "dropunlink"}
    PROVE  Alive'
  BY SMT DEF Alive, FilledInOrder, ChosenApart, ArgsAlive, InCall, Unfilled

\* Outside a call there are no arguments.
LEMMA AliveNothing ==
    ASSUME pc' \in {"pick", "out", "idle"} \cup Dead
    PROVE  Alive'
  BY SMT DEF Alive, FilledInOrder, ChosenApart, ArgsAlive, InCall, Dead

\* A call starts with all slots unset.
LEMMA AlivePickFunc ==
    ASSUME NEW f \in Func, PickFunc(f)
    PROVE  Alive'
  <1>1. func' = f /\ pc' = "args" /\ \A i \in Slots(f) : argv'[i] = Unset
    BY DEF PickFunc
  <1> QED
    BY <1>1 DEF Alive, FilledInOrder, ChosenApart, ArgsAlive, Unfilled

\* No slot is filled before itself, nor two before each other.
LEMMA BeforeIsStrict ==
    ASSUME NEW f \in Func, NEW i \in Nat, NEW j \in Nat, Before(f, i, j)
    PROVE  i # j /\ ~Before(f, j, i)
  BY DEF Before

\* A slot is filled after those before it, with a live variable that differs
\* from theirs where it must.
LEMMA AlivePickArg ==
    ASSUME TypeFrame, Alive, NEW i \in Slots(func), NEW v \in tree[TypeOf(func, i)],
           PickArg(i, v)
    PROVE  Alive'
  <1>1. /\ pc = "args" /\ pc' = "args" /\ func' = func /\ tree' = tree
        /\ argv' = [argv EXCEPT ![i] = v]
        /\ NextSlot(func, argv, i) /\ Acceptable(func, argv, i, v)
    BY DEF PickArg, poolVars
  <1>2. /\ DOMAIN argv = Slots(func) /\ Slots(func) \subseteq Nat
        /\ v \in Nat /\ v # Unset
    BY <1>1, CallTypes DEF InCall, Unset
  <1>3. /\ argv'[i] = v
        /\ \A j \in Slots(func) : j # i => argv'[j] = argv[j]
    BY <1>1, <1>2
  <1>4. argv[i] = Unset /\ \A j \in Slots(func) : argv[j] = Unset => (j = i \/ Before(func, i, j))
    BY <1>1 DEF NextSlot, Unfilled
  <1>5. FilledInOrder'
    <2>1. \A j, k \in Slots(func) :
             (Before(func, j, k) /\ argv[k] # Unset) => argv[j] # Unset
      BY <1>1 DEF Alive, FilledInOrder
    <2>2. \A j \in Slots(func) : Before(func, j, i) => argv[j] # Unset
      BY <1>2, <1>4, BeforeIsStrict, CallTypes
    <2> QED BY <1>1, <1>2, <1>3, <2>1, <2>2 DEF FilledInOrder, Before
  <1>6. ChosenApart'
    <2>1. ASSUME NEW j \in Slots(func), j # i, TypeOf(func, j) = TypeOf(func, i),
                 Unique(func, j), Unique(func, i), argv[j] # Unset
          PROVE  argv[j] # v
      <3>1. ~Before(func, i, j)
        BY <2>1, <1>1, <1>4 DEF Alive, FilledInOrder
      <3>2. j < i /\ j \in 1 .. i - 1
        BY <3>1, <2>1, <1>2 DEF Before, Slots
      <3> QED BY <3>2, <2>1, <1>1 DEF Acceptable
    <2>2. \A j, k \in Slots(func) :
             /\ j # k /\ TypeOf(func, j) = TypeOf(func, k)
             /\ Unique(func, j) /\ Unique(func, k)
             /\ argv[j] # Unset /\ argv[k] # Unset
             => argv[j] # argv[k]
      BY <1>1 DEF Alive, ChosenApart, InCall
    <2> QED BY <1>1, <1>3, <2>1, <2>2 DEF ChosenApart
  <1>7. ArgsAlive'
    BY <1>1, <1>3, SMT DEF Alive, ArgsAlive, Unfilled
  <1> QED
    BY <1>5, <1>6, <1>7 DEF Alive

\* A new variable in a tree leaves the arguments where they are.
LEMMA AliveInsert ==
    ASSUME TypeFrame, Alive, InsertNew
    PROVE  Alive'
  <1>1. /\ pc = "insert" /\ pc' = "record" /\ func' = func /\ argv' = argv
        /\ tree' = [tree EXCEPT ![RetType[func]] = @ \cup {curId}]
    BY DEF InsertNew
  <1>2. \A t \in Type : tree[t] \subseteq tree'[t]
    BY <1>1, CallTypes
  <1>3. \A i \in Slots(func) \ Unfilled(func, argv) : argv[i] \in tree[TypeOf(func, i)]
    BY <1>1 DEF Alive, ArgsAlive
  <1> QED
    BY <1>1, <1>2, <1>3, CallTypes DEF Alive, FilledInOrder, ChosenApart,
       ArgsAlive, Unfilled, InCall

\* When the target returns, the DESTROY arguments are alive and distinct.
LEMMA AliveReturns ==
    ASSUME TypeFrame, Alive, TargetReturns
    PROVE  Alive'
  <1>1. /\ pc = "run" /\ pc' = "destroy" /\ func' = func /\ argv' = argv /\ tree' = tree
        /\ doomed' = DestroySlots(func)
    BY DEF TargetReturns, poolVars
  <1>2. \A i \in Slots(func) : argv[i] # Unset /\ argv[i] \in tree[TypeOf(func, i)]
    <2>1. \A i \in Slots(func) : argv[i] \in Nat
      BY <1>1, CallTypes DEF InCall
    <2>2. \A i \in Slots(func) : argv[i] # Unset
      BY <2>1 DEF Unset
    <2> QED BY <1>1, <2>2 DEF Alive, ArgsAlive, Unfilled
  <1>3. \A i, j \in DestroySlots(func) :
            (i # j /\ TypeOf(func, i) = TypeOf(func, j)) => argv[i] # argv[j]
    BY <1>1, <1>2, CallTypes, DestroyIsUnique DEF Alive, ChosenApart, InCall
  <1>4. \A i \in DestroySlots(func) : argv[i] \in tree[TypeOf(func, i)]
    BY <1>2, CallTypes
  <1> QED
    BY <1>1, <1>3, <1>4 DEF Alive, FilledInOrder, ChosenApart, ArgsAlive, InCall

\* Unlinking one DESTROY argument leaves the others alive.
LEMMA AliveUnlinked ==
    ASSUME TypeFrame, Alive, NEW i \in doomed, UnlinkDestroyed(i)
    PROVE  Alive'
  <1>1. /\ pc = "unlink" /\ pc' = "destroy" /\ func' = func /\ argv' = argv
        /\ doomed' = doomed \ {i}
        /\ tree' = [tree EXCEPT ![TypeOf(func, i)] = @ \ {argv[i]}]
    BY DEF UnlinkDestroyed
  <1>2. /\ \A j \in doomed : argv[j] \in tree[TypeOf(func, j)]
        /\ \A j, k \in doomed :
              (j # k /\ TypeOf(func, j) = TypeOf(func, k)) => argv[j] # argv[k]
    BY <1>1 DEF Alive, ArgsAlive
  <1>3. \A j \in doomed : TypeOf(func, j) \in Type
    BY CallTypes
  <1>4. \A j \in doomed' : argv[j] \in tree'[TypeOf(func, j)]
    BY <1>1, <1>2, <1>3, CallTypes
  <1> QED
    BY <1>1, <1>2, <1>4 DEF Alive, FilledInOrder, ChosenApart, ArgsAlive, InCall

\* A fresh context is in no call.
LEMMA AliveInit == Init => Alive
  BY AliveNothing, SMT DEF Init, Alive, FilledInOrder, ChosenApart, ArgsAlive,
     InCall

\* Every step keeps the arguments of the call at hand alive.
LEMMA AliveStep == TypeFrame /\ Alive /\ [Next]_vars => Alive'
  <1> SUFFICES ASSUME TypeFrame, Alive, [Next]_vars PROVE Alive'
    BY Zenon
  <1> USE DEF poolVars, traceVars, loopVars, frameVars, sigVars
  <1>1. ASSUME NEW iter \in Iters, NEW mode \in Modes, Start(iter, mode) PROVE Alive'
    BY <1>1, AliveNothing DEF Start
  <1>2. ASSUME NEW f \in Func, PickFunc(f) PROVE Alive'
    BY <1>2, AlivePickFunc
  <1>3. CASE NoCandidate \/ LoopDone \/ Revert \/ Quit
    BY <1>3, AliveNothing DEF NoCandidate, LoopDone, Revert, Quit, Dead
  <1>4. CASE Sigint \/ SigintIdle \/ EmptyTree \/ TargetCrashes
    BY <1>4, AliveNothing
    DEF Sigint, SigintIdle, EmptyTree, TargetCrashes, Segfault, Longjmp, Dead
  <1>5. ASSUME NEW i \in Slots(func), NEW v \in tree[TypeOf(func, i)], PickArg(i, v)
        PROVE  Alive'
    BY <1>5, AlivePickArg
  <1>6. CASE CountNew
    BY <1>6, AliveSame DEF CountNew
  <1>7. CASE InsertNew
    BY <1>7, AliveInsert
  <1>8. CASE Record
    BY <1>8, AliveSame DEF Record
  <1>9. CASE TargetReturns
    BY <1>9, AliveReturns
  <1>10. ASSUME NEW i \in doomed, CountDestroyed(i) PROVE Alive'
    BY <1>10, AliveSame DEF CountDestroyed
  <1>11. ASSUME NEW i \in doomed, UnlinkDestroyed(i) PROVE Alive'
    BY <1>11, AliveUnlinked
  <1>12. CASE CheckOk
    BY <1>12, AliveNothing DEF CheckOk, NextIter
  <1>13. CASE CheckFails
    BY <1>13, AliveSame DEF CheckFails, InCall
  <1>14. CASE CountDropped
    BY <1>14, AliveSame DEF CountDropped, InCall
  <1>15. CASE UnlinkDropped
    BY <1>15, AliveNothing DEF UnlinkDropped, NextIter
  <1>16. CASE Halted \/ Redraw \/ UNCHANGED vars
    <2>1. UNCHANGED vars
      BY <1>16, Zenon DEF Halted, Redraw
    <2> QED
      BY <2>1, AliveSame DEF vars
  <1> QED
    BY <1>1, <1>2, <1>3, <1>4, <1>5, <1>6, <1>7, <1>8, <1>9, <1>10, <1>11, <1>12,
       <1>13, <1>14, <1>15, <1>16, Zenon DEF Next, LoopStep, UserStep, RandomCall,
       Call

\* The pointers minerva_call works through are alive, and its pass over the
\* DESTROY arguments frees none of them twice.
THEOREM CallArgsAlive == Spec => []ArgsAlive
  <1>1. Spec => [](TypeFrame /\ Alive)
    BY TypeInit, TypeStep, AliveInit, AliveStep, PTL DEF Spec
  <1>2. Alive => ArgsAlive
    BY Zenon DEF Alive
  <1> QED
    BY <1>1, <1>2, PTL

-----------------------------------------------------------------------------
(* Identifiers *)

\* What TypeFrame says of the recorded calls.
LEMMA TraceTypes ==
    ASSUME TypeFrame
    PROVE  /\ DOMAIN calls = 1 .. Len(calls) /\ Len(calls) \in Nat
           /\ DOMAIN fate = 1 .. Len(fate) /\ Len(fate) = Len(calls)
           /\ \A k \in DOMAIN calls :
                 /\ calls[k].func \in Func /\ calls[k].result \in Nat
                 /\ DestroySlots(calls[k].func) \subseteq Slots(calls[k].func)
                 /\ \A i \in Slots(calls[k].func) :
                       calls[k].args[i] \in Nat /\ TypeOf(calls[k].func, i) \in Type
  <1>1. calls \in Seq(RecordedCall) /\ fate \in Seq(Fates) /\ Len(fate) = Len(calls)
    BY DEF TypeFrame, TypeOK, TraceType
  <1>2. /\ DOMAIN calls = 1 .. Len(calls) /\ Len(calls) \in Nat
        /\ DOMAIN fate = 1 .. Len(fate)
    BY <1>1
  <1>3. \A k \in DOMAIN calls : calls[k] \in RecordedCall
    BY <1>1
  <1>4. ASSUME NEW k \in DOMAIN calls, NEW i \in Slots(calls[k].func)
        PROVE  calls[k].args[i] \in Nat
    <2>1. calls[k].args \in Seq(Nat)
      BY <1>3 DEF RecordedCall
    <2>2. i \in DOMAIN calls[k].args
      BY Zenon DEF TypeFrame, Frame
    <2> QED BY <2>1, <2>2
  <1>5. \A k \in DOMAIN calls : calls[k].func \in Func /\ calls[k].result \in Nat
    BY <1>3 DEF RecordedCall
  <1> QED
    BY <1>1, <1>2, <1>4, <1>5, Table

\* What Record appends.
LEMMA Recording ==
    ASSUME TypeFrame, Record
    PROVE  /\ Len(calls') = Len(calls) + 1 /\ DOMAIN calls' = 1 .. Len(calls) + 1
           /\ \A k \in DOMAIN calls : calls'[k] = calls[k] /\ fate'[k] = fate[k]
           /\ calls'[Len(calls) + 1] = [func |-> func, result |-> newId, args |-> argv]
           /\ fate'[Len(calls) + 1] = "recorded"
  <1> DEFINE r == [func |-> func, result |-> newId, args |-> argv]
             C == {r} \cup RecordedCall
  <1>1. calls \in Seq(RecordedCall) /\ fate \in Seq(Fates) /\ Len(fate) = Len(calls)
    BY DEF TypeFrame, TypeOK, TraceType
  <1>2. calls' = Append(calls, r) /\ fate' = Append(fate, "recorded")
    BY DEF Record
  <1>3. calls \in Seq(C) /\ r \in C
    BY <1>1
  <1>4. "recorded" \in Fates
    BY DEF Fates
  <1> HIDE DEF r, C
  <1>5. /\ Len(calls') = Len(calls) + 1 /\ DOMAIN calls' = 1 .. Len(calls')
        /\ calls'[Len(calls')] = r /\ \A k \in DOMAIN calls : calls'[k] = calls[k]
        /\ DOMAIN calls = 1 .. Len(calls)
    BY <1>2, <1>3, SeqAppend
  <1>6. /\ fate'[Len(fate) + 1] = "recorded"
        /\ \A k \in DOMAIN fate : fate'[k] = fate[k]
        /\ DOMAIN fate = 1 .. Len(fate)
    BY <1>1, <1>2, <1>4, SeqAppend
  <1> QED
    BY <1>1, <1>5, <1>6 DEF r

\* A step that leaves the identifiers alone.
LEMMA IdsSame ==
    ASSUME Ids, calls' = calls, curId' = curId,
           \A t \in Type : tree'[t] \subseteq tree[t],
           Stored' => Stored /\ newId' = newId, pc' = "record" => pc = "record"
    PROVE  Ids'
  BY SMT DEF Ids, Issued, IdsIssuedOnce, Stored

\* The new variable gets an identifier no one has, and cur_id goes on.
LEMMA IdsInsert ==
    ASSUME TypeFrame, Ids, InsertNew
    PROVE  Ids'
  <1>1. /\ newId' = curId /\ curId' = curId + 1 /\ calls' = calls
        /\ tree' = [tree EXCEPT ![RetType[func]] = @ \cup {curId}]
    BY DEF InsertNew, traceVars
  <1>2. tree \in [Type -> SUBSET Nat] /\ curId \in Nat /\ RetType[func] \in Type
    BY CallTypes
  <1>3. Issued'
    BY <1>1, <1>2, TraceTypes DEF Ids, Issued
  <1>4. \A t \in Type : \A v \in tree'[t] :
            \/ v \in tree[t] /\ v < curId /\ v \in Nat
            \/ v = curId /\ t = RetType[func]
    BY <1>1, <1>2 DEF Ids, IdsIssuedOnce
  <1>5. \A t \in Type : \A v \in tree'[t] : v < curId'
    BY <1>1, <1>2, <1>4
  <1>6. \A t, u \in Type : t # u => tree'[t] \cap tree'[u] = {}
    BY <1>2, <1>4 DEF Ids, IdsIssuedOnce
  <1> QED
    BY <1>1, <1>3, <1>5, <1>6 DEF Ids, IdsIssuedOnce

\* The call recorded has the newest identifier as its result.
LEMMA IdsRecord ==
    ASSUME TypeFrame, Alive, Ids, Record
    PROVE  Ids'
  <1> DEFINE n == Len(calls) + 1
  <1>1. /\ pc = "record" /\ pc' = "run" /\ tree' = tree /\ curId' = curId /\ newId' = newId
    BY DEF Record, poolVars, frameVars
  <1>2. \A i \in Slots(func) : argv[i] < curId
    <2>1. \A i \in Slots(func) : argv[i] \in Nat
      BY <1>1, CallTypes DEF InCall
    <2>2. \A i \in Slots(func) : argv[i] \in tree[TypeOf(func, i)]
      BY <1>1, <2>1 DEF Alive, ArgsAlive, Unfilled, Unset
    <2> QED BY <2>2, CallTypes DEF Ids, IdsIssuedOnce
  <1>3. newId < curId /\ \A k \in DOMAIN calls : calls[k].result < newId
    BY <1>1 DEF Ids, Issued, Stored
  <1>4. /\ DOMAIN calls = 1 .. Len(calls) /\ Len(calls) \in Nat
        /\ DOMAIN calls' = 1 .. n
        /\ \A k \in DOMAIN calls : calls'[k] = calls[k]
        /\ calls'[n].func = func /\ calls'[n].result = newId /\ calls'[n].args = argv
    BY Recording, TraceTypes
  <1>5. Issued'
    BY <1>1, <1>2, <1>3, <1>4 DEF Ids, Issued, Stored
  <1>6. \A j, k \in DOMAIN calls' : j < k => calls'[j].result < calls'[k].result
    BY <1>3, <1>4 DEF Ids, IdsIssuedOnce
  <1> QED
    BY <1>1, <1>5, <1>6 DEF Ids, IdsIssuedOnce

\* A fresh context has issued no identifier.
LEMMA IdsInit == Init => Ids
  BY SMT DEF Init, Ids, Issued, IdsIssuedOnce, Stored

\* Every step keeps the identifiers apart and below cur_id.
LEMMA IdsStep == TypeFrame /\ Alive /\ Ids /\ [Next]_vars => Ids'
  <1> SUFFICES ASSUME TypeFrame, Alive, Ids, [Next]_vars PROVE Ids'
    BY Zenon
  <1> USE DEF poolVars, traceVars, loopVars, frameVars, sigVars
  <1>1. ASSUME NEW iter \in Iters, NEW mode \in Modes, Start(iter, mode) PROVE Ids'
    BY <1>1, IdsSame DEF Start, Stored
  <1>2. ASSUME NEW f \in Func, PickFunc(f) PROVE Ids'
    BY <1>2, IdsSame DEF PickFunc, Stored
  <1>3. CASE NoCandidate \/ LoopDone \/ Revert \/ Quit
    BY <1>3, IdsSame DEF NoCandidate, LoopDone, Revert, Quit, Stored
  <1>4. CASE Sigint \/ SigintIdle \/ EmptyTree \/ TargetCrashes
    BY <1>4, IdsSame
    DEF Sigint, SigintIdle, EmptyTree, TargetCrashes, Segfault, Longjmp, Stored
  <1>5. ASSUME NEW i \in Slots(func), NEW v \in tree[TypeOf(func, i)], PickArg(i, v)
        PROVE  Ids'
    BY <1>5, IdsSame DEF PickArg, Stored
  <1>6. CASE CountNew
    BY <1>6, IdsSame DEF CountNew, Stored
  <1>7. CASE InsertNew
    BY <1>7, IdsInsert
  <1>8. CASE Record
    BY <1>8, IdsRecord
  <1>9. CASE TargetReturns
    BY <1>9, IdsSame DEF TargetReturns, Stored
  <1>10. ASSUME NEW i \in doomed, CountDestroyed(i) PROVE Ids'
    BY <1>10, IdsSame DEF CountDestroyed, Stored
  <1>11. ASSUME NEW i \in doomed, UnlinkDestroyed(i) PROVE Ids'
    <2>1. \A t \in Type : tree'[t] \subseteq tree[t]
      BY <1>11, CallTypes DEF UnlinkDestroyed
    <2> QED BY <1>11, <2>1, IdsSame DEF UnlinkDestroyed, Stored
  <1>12. CASE CheckOk \/ CheckFails
    BY <1>12, IdsSame DEF CheckOk, CheckFails, NextIter, Stored
  <1>13. CASE CountDropped
    BY <1>13, IdsSame DEF CountDropped, Stored
  <1>14. CASE UnlinkDropped
    <2>1. \A t \in Type : tree'[t] \subseteq tree[t]
      BY <1>14, CallTypes DEF UnlinkDropped
    <2> QED BY <1>14, <2>1, IdsSame DEF UnlinkDropped, NextIter, Stored
  <1>15. CASE Halted \/ Redraw \/ UNCHANGED vars
    <2>1. UNCHANGED vars
      BY <1>15, Zenon DEF Halted, Redraw
    <2> QED
      BY <2>1, IdsSame DEF vars, Stored
  <1> QED
    BY <1>1, <1>2, <1>3, <1>4, <1>5, <1>6, <1>7, <1>8, <1>9, <1>10, <1>11, <1>12,
       <1>13, <1>14, <1>15, Zenon DEF Next, LoopStep, UserStep, RandomCall, Call

\* No identifier is issued twice in the life of a pool, so that the trace and
\* the pool mean the same variable by it.
THEOREM IdentifiersIssuedOnce == Spec => []IdsIssuedOnce
  <1>1. Spec => [](TypeFrame /\ Alive /\ Ids)
    BY TypeInit, TypeStep, AliveInit, AliveStep, IdsInit, IdsStep, PTL DEF Spec
  <1>2. Ids => IdsIssuedOnce
    BY Zenon DEF Ids
  <1> QED
    BY <1>1, <1>2, PTL

-----------------------------------------------------------------------------
(* Destroyed variables *)

\* A step that records no call, settles none and adds no variable.
LEMMA DestructionSame ==
    ASSUME Destruction, calls' = calls, TypeFrame,
           \A k \in DOMAIN calls : fate'[k] \in {"ok", "fail"} => fate[k] \in {"ok", "fail"},
           \A t \in Type : tree'[t] \subseteq tree[t],
           pc' \in {"destroy", "unlink"} =>
              pc \in {"destroy", "unlink"} /\ argv' = argv /\ func' = func /\ doomed' = doomed
    PROVE  Destruction'
  <1>1. DestroyedSoFar'
    BY CallTypes DEF Destruction, DestroyedSoFar
  <1>2. ASSUME NEW j \in DOMAIN calls, fate'[j] \in {"ok", "fail"},
               NEW i \in DestroySlots(calls[j].func)
        PROVE  /\ calls[j].args[i] \notin tree'[TypeOf(calls[j].func, i)]
               /\ \A k \in DOMAIN calls :
                     k > j => ~UsedBy(k, TypeOf(calls[j].func, i), calls[j].args[i])
    <2>1. TypeOf(calls[j].func, i) \in Type
      BY <1>2, TraceTypes
    <2>2. /\ calls[j].args[i] \notin tree[TypeOf(calls[j].func, i)]
          /\ \A k \in DOMAIN calls :
                k > j => ~UsedBy(k, TypeOf(calls[j].func, i), calls[j].args[i])
      BY <1>2 DEF Destruction, DestroyedNeverReused
    <2> QED BY <2>1, <2>2
  <1>3. DestroyedNeverReused'
    BY <1>2 DEF DestroyedNeverReused, UsedBy
  <1> QED
    BY <1>1, <1>3 DEF Destruction

\* SetFate touches the last call alone.
LEMMA OnlyLastFate ==
    ASSUME TypeFrame, NEW x, SetFate(x)
    PROVE  \A k \in DOMAIN calls :
              /\ k # Len(calls) => fate'[k] = fate[k]
              /\ k = Len(calls) => fate'[k] = x
  BY TraceTypes DEF SetFate

\* When the target returns, all its DESTROY arguments are still to be unlinked.
LEMMA DestructionReturns ==
    ASSUME TypeFrame, Destruction, TargetReturns
    PROVE  Destruction'
  <1>1. calls' = calls /\ tree' = tree /\ func' = func /\ doomed' = DestroySlots(func)
    BY DEF TargetReturns, poolVars
  <1>2. \A k \in DOMAIN calls : fate'[k] \in {"ok", "fail"} => fate[k] \in {"ok", "fail"}
    BY OnlyLastFate DEF TargetReturns
  <1>3. DestroyedSoFar'
    BY <1>1 DEF DestroyedSoFar
  <1>4. DestroyedNeverReused'
    BY <1>1, <1>2 DEF Destruction, DestroyedNeverReused, UsedBy
  <1> QED
    BY <1>3, <1>4 DEF Destruction

\* One more DESTROY argument is out of the pool.
LEMMA DestructionUnlink ==
    ASSUME TypeFrame, Destruction, NEW i \in doomed, UnlinkDestroyed(i)
    PROVE  Destruction'
  <1>1. /\ pc = "unlink" /\ calls' = calls /\ fate' = fate /\ func' = func /\ argv' = argv
        /\ doomed' = doomed \ {i}
        /\ tree' = [tree EXCEPT ![TypeOf(func, i)] = @ \ {argv[i]}]
    BY DEF UnlinkDestroyed, traceVars
  <1>2. \A t \in Type : tree'[t] \subseteq tree[t]
    BY <1>1, CallTypes
  <1>3. argv[i] \notin tree'[TypeOf(func, i)]
    BY <1>1, CallTypes
  <1>4. DestroyedSoFar'
    BY <1>1, <1>2, <1>3, CallTypes DEF Destruction, DestroyedSoFar
  <1>5. DestroyedNeverReused'
    BY <1>1, <1>2, TraceTypes DEF Destruction, DestroyedNeverReused, UsedBy
  <1> QED
    BY <1>4, <1>5 DEF Destruction

\* A new identifier is none of those already destroyed.
LEMMA DestructionInsert ==
    ASSUME TypeFrame, Ids, Destruction, InsertNew
    PROVE  Destruction'
  <1>1. /\ calls' = calls /\ fate' = fate /\ pc' = "record"
        /\ tree' = [tree EXCEPT ![RetType[func]] = @ \cup {curId}]
    BY DEF InsertNew, traceVars
  <1>2. \A t \in Type : tree'[t] \subseteq tree[t] \cup {curId}
    BY <1>1, CallTypes
  <1>3. \A k \in DOMAIN calls : \A i \in Slots(calls[k].func) : calls[k].args[i] # curId
    BY TraceTypes, CallTypes DEF Ids, Issued
  <1>4. DestroyedNeverReused'
    BY <1>1, <1>2, <1>3, TraceTypes DEF Destruction, DestroyedNeverReused, UsedBy
  <1> QED
    BY <1>1, <1>4 DEF Destruction, DestroyedSoFar

\* A call about to be made uses variables of the pool, hence none destroyed.
LEMMA DestructionRecord ==
    ASSUME TypeFrame, Alive, Destruction, Record
    PROVE  Destruction'
  <1> DEFINE n == Len(calls) + 1
  <1>1. pc = "record" /\ pc' = "run" /\ tree' = tree
    BY DEF Record, poolVars
  <1>2. \A i \in Slots(func) : argv[i] \in tree[TypeOf(func, i)]
    <2>1. \A i \in Slots(func) : argv[i] \in Nat
      BY <1>1, CallTypes DEF InCall
    <2> QED BY <1>1, <2>1 DEF Alive, ArgsAlive, Unfilled, Unset
  <1>3. /\ DOMAIN calls = 1 .. Len(calls) /\ Len(calls) \in Nat
        /\ DOMAIN calls' = 1 .. n
        /\ \A k \in DOMAIN calls : calls'[k] = calls[k] /\ fate'[k] = fate[k]
        /\ calls'[n].func = func /\ calls'[n].args = argv
        /\ fate'[n] = "recorded"
    BY Recording, TraceTypes
  <1>4. ASSUME NEW j \in DOMAIN calls', fate'[j] \in {"ok", "fail"},
               NEW i \in DestroySlots(calls'[j].func)
        PROVE  /\ calls'[j].args[i] \notin tree'[TypeOf(calls'[j].func, i)]
               /\ \A k \in DOMAIN calls' : k > j =>
                     \A m \in Slots(calls'[k].func) :
                        ~ /\ TypeOf(calls'[k].func, m) = TypeOf(calls'[j].func, i)
                          /\ calls'[k].args[m] = calls'[j].args[i]
    <2>1. j \in DOMAIN calls /\ calls'[j] = calls[j] /\ fate[j] \in {"ok", "fail"}
      BY <1>3, <1>4
    <2>2. /\ calls[j].args[i] \notin tree[TypeOf(calls[j].func, i)]
          /\ \A k \in DOMAIN calls :
                k > j => ~UsedBy(k, TypeOf(calls[j].func, i), calls[j].args[i])
      BY <2>1, <1>4 DEF Destruction, DestroyedNeverReused
    <2>3. ASSUME NEW k \in DOMAIN calls', k > j, NEW m \in Slots(calls'[k].func)
          PROVE  ~ /\ TypeOf(calls'[k].func, m) = TypeOf(calls'[j].func, i)
                   /\ calls'[k].args[m] = calls'[j].args[i]
      <3>1. CASE k \in DOMAIN calls
        BY <3>1, <2>1, <2>2, <2>3, <1>3 DEF UsedBy
      <3>2. CASE k = n
        BY <3>2, <2>1, <2>2, <2>3, <1>2, <1>3
      <3> QED BY <3>1, <3>2, <1>3
    <2> QED BY <1>1, <2>1, <2>2, <2>3
  <1>5. DestroyedNeverReused'
    BY <1>4 DEF DestroyedNeverReused, UsedBy
  <1> QED
    BY <1>1, <1>5 DEF Destruction, DestroyedSoFar

\* The call that ends now is the last of the trace, and its pass over the
\* DESTROY arguments is complete.
LEMMA DestructionCheck ==
    ASSUME TypeFrame, Destruction, CheckOk \/ CheckFails
    PROVE  Destruction'
  <1>1. /\ pc = "destroy" /\ doomed = {} /\ pc' \notin {"destroy", "unlink"}
        /\ calls' = calls /\ tree' = tree
        /\ SetFate("ok") \/ SetFate("fail")
    BY DEF CheckOk, CheckFails, NextIter, poolVars
  <1>2. \A i \in DestroySlots(func) : argv[i] \notin tree[TypeOf(func, i)]
    BY <1>1 DEF Destruction, DestroyedSoFar
  <1>3. calls[Len(calls)].func = func /\ calls[Len(calls)].args = argv
    BY <1>1 DEF TypeFrame, Frame, Recorded, LastCall
  <1>4. \A k \in DOMAIN calls : k # Len(calls) => fate'[k] = fate[k]
    BY <1>1, OnlyLastFate
  <1>5. DOMAIN calls = 1 .. Len(calls) /\ Len(calls) \in Nat
    BY TraceTypes
  <1>6. DestroyedNeverReused'
    BY <1>1, <1>2, <1>3, <1>4, <1>5 DEF Destruction, DestroyedNeverReused, UsedBy
  <1> QED
    BY <1>1, <1>6 DEF Destruction, DestroyedSoFar

\* A fresh context has destroyed nothing.
LEMMA DestructionInit == Init => Destruction
  BY SMT DEF Init, Destruction, DestroyedSoFar, DestroyedNeverReused

\* Every step keeps out of the pool what has been destroyed.
LEMMA DestructionStep ==
    TypeFrame /\ Alive /\ Ids /\ Destruction /\ [Next]_vars => Destruction'
  <1> SUFFICES ASSUME TypeFrame, Alive, Ids, Destruction, [Next]_vars PROVE Destruction'
    BY Zenon
  <1> USE DEF poolVars, traceVars, loopVars, frameVars, sigVars
  <1>1. ASSUME NEW iter \in Iters, NEW mode \in Modes, Start(iter, mode) PROVE Destruction'
    BY <1>1, DestructionSame DEF Start
  <1>2. ASSUME NEW f \in Func, PickFunc(f) PROVE Destruction'
    BY <1>2, DestructionSame DEF PickFunc
  <1>3. CASE NoCandidate \/ LoopDone \/ Revert \/ Quit
    BY <1>3, DestructionSame DEF NoCandidate, LoopDone, Revert, Quit
  <1>4. CASE Sigint \/ SigintIdle \/ EmptyTree
    BY <1>4, DestructionSame DEF Sigint, SigintIdle, EmptyTree, Segfault, Longjmp
  <1>5. CASE TargetCrashes
    <2>1. \A k \in DOMAIN calls : fate'[k] \in {"ok", "fail"} => fate[k] \in {"ok", "fail"}
      BY <1>5, OnlyLastFate DEF TargetCrashes
    <2> QED BY <1>5, <2>1, DestructionSame DEF TargetCrashes, Segfault, Longjmp
  <1>6. ASSUME NEW i \in Slots(func), NEW v \in tree[TypeOf(func, i)], PickArg(i, v)
        PROVE  Destruction'
    BY <1>6, DestructionSame DEF PickArg
  <1>7. CASE CountNew
    BY <1>7, DestructionSame DEF CountNew
  <1>8. CASE InsertNew
    BY <1>8, DestructionInsert
  <1>9. CASE Record
    BY <1>9, DestructionRecord
  <1>10. CASE TargetReturns
    BY <1>10, DestructionReturns
  <1>11. ASSUME NEW i \in doomed, CountDestroyed(i) PROVE Destruction'
    BY <1>11, DestructionSame DEF CountDestroyed
  <1>12. ASSUME NEW i \in doomed, UnlinkDestroyed(i) PROVE Destruction'
    BY <1>12, DestructionUnlink
  <1>13. CASE CheckOk \/ CheckFails
    BY <1>13, DestructionCheck
  <1>14. CASE CountDropped
    BY <1>14, DestructionSame DEF CountDropped
  <1>15. CASE UnlinkDropped
    <2>1. \A t \in Type : tree'[t] \subseteq tree[t]
      BY <1>15, CallTypes DEF UnlinkDropped
    <2> QED BY <1>15, <2>1, DestructionSame DEF UnlinkDropped, NextIter
  <1>16. CASE Halted \/ Redraw \/ UNCHANGED vars
    <2>1. UNCHANGED vars
      BY <1>16, Zenon DEF Halted, Redraw
    <2> QED
      BY <2>1, DestructionSame DEF vars
  <1> QED
    BY <1>1, <1>2, <1>3, <1>4, <1>5, <1>6, <1>7, <1>8, <1>9, <1>10, <1>11, <1>12,
       <1>13, <1>14, <1>15, <1>16, Zenon DEF Next, LoopStep, UserStep, RandomCall,
       Call

\* Once minerva_call has run to its end, the variables it destroyed are gone
\* for good: from the pool, and from every later call of the trace, whatever
\* interrupts the loop afterwards (README.md:74).
THEOREM DestroyedStaysDestroyed == Spec => []DestroyedNeverReused
  <1>1. Spec => [](TypeFrame /\ Alive /\ Ids /\ Destruction)
    BY TypeInit, TypeStep, AliveInit, AliveStep, IdsInit, IdsStep, DestructionInit,
       DestructionStep, PTL DEF Spec
  <1>2. Destruction => DestroyedNeverReused
    BY Zenon DEF Destruction
  <1> QED
    BY <1>1, <1>2, PTL

-----------------------------------------------------------------------------
(* The loop left alone *)

\* While the DESTROY arguments are unlinked, every argument of the call is in the
\* pool or is one of those unlinked.
ArgsStay ==
    pc \in {"destroy", "unlink"} =>
        \A i \in Slots(func) : argv[i] \in tree[TypeOf(func, i)] \cup Gone(TypeOf(func, i))

-----------------------------------------------------------------------------
(* The result of the call at hand *)

\* A step that leaves the call at hand alone, and its result in the pool.
LEMMA ResultSame ==
    ASSUME ResultLives,
           Stored' => /\ Stored /\ newId' = newId /\ func' = func /\ argv' = argv
                      /\ newId \in tree'[RetType[func]]
    PROVE  ResultLives'
  BY DEF ResultLives

\* A new variable is none of the arguments, which are older.
LEMMA ResultInsert ==
    ASSUME TypeFrame, Alive, Ids, InsertNew
    PROVE  ResultLives'
  <1>1. /\ pc = "insert" /\ newId' = curId /\ func' = func /\ argv' = argv
        /\ tree' = [tree EXCEPT ![RetType[func]] = @ \cup {curId}]
    BY DEF InsertNew
  <1>2. ASSUME NEW i \in Slots(func) PROVE argv[i] # curId
    <2>1. argv[i] \in Nat
      BY <1>1, CallTypes DEF InCall
    <2>2. argv[i] \in tree[TypeOf(func, i)]
      BY <1>1, <2>1 DEF Alive, ArgsAlive, Unfilled, Unset
    <2>3. argv[i] < curId
      BY <2>2, CallTypes DEF Ids, IdsIssuedOnce
    <2> QED BY <2>1, <2>3
  <1> QED
    BY <1>1, <1>2, CallTypes DEF ResultLives

\* Every step keeps the result of the call at hand in the pool.
LEMMA ResultStep == TypeFrame /\ Alive /\ Ids /\ ResultLives /\ [Next]_vars => ResultLives'
  <1> SUFFICES ASSUME TypeFrame, Alive, Ids, ResultLives, [Next]_vars PROVE ResultLives'
    BY Zenon
  <1> USE DEF poolVars, traceVars, loopVars, frameVars, sigVars
  <1>0. Stored => newId \in tree[RetType[func]]
    BY DEF ResultLives
  <1>1. ASSUME NEW iter \in Iters, NEW mode \in Modes, Start(iter, mode) PROVE ResultLives'
    BY <1>1, ResultSame DEF Start, Stored
  <1>2. ASSUME NEW f \in Func, PickFunc(f) PROVE ResultLives'
    BY <1>2, ResultSame DEF PickFunc, Stored
  <1>3. CASE NoCandidate \/ LoopDone \/ Revert \/ Quit
    BY <1>3, ResultSame DEF NoCandidate, LoopDone, Revert, Quit, Stored
  <1>4. CASE Sigint \/ SigintIdle \/ EmptyTree \/ TargetCrashes
    BY <1>4, ResultSame
    DEF Sigint, SigintIdle, EmptyTree, TargetCrashes, Segfault, Longjmp, Stored
  <1>5. ASSUME NEW i \in Slots(func), NEW v \in tree[TypeOf(func, i)], PickArg(i, v)
        PROVE  ResultLives'
    BY <1>5, ResultSame DEF PickArg, Stored
  <1>6. CASE CountNew
    BY <1>6, ResultSame DEF CountNew, Stored
  <1>7. CASE InsertNew
    BY <1>7, ResultInsert
  <1>8. CASE Record \/ TargetReturns \/ CheckOk \/ CheckFails \/ CountDropped
    BY <1>0, <1>8, ResultSame
    DEF Record, TargetReturns, CheckOk, CheckFails, CountDropped, NextIter, Stored
  <1>9. ASSUME NEW i \in doomed, CountDestroyed(i) PROVE ResultLives'
    BY <1>0, <1>9, ResultSame DEF CountDestroyed, Stored
  <1>10. ASSUME NEW i \in doomed, UnlinkDestroyed(i) PROVE ResultLives'
    <2>1. newId \in tree[RetType[func]] /\ newId # argv[i]
      BY <1>10, CallTypes DEF UnlinkDestroyed, ResultLives, Stored
    <2>2. newId \in tree'[RetType[func]]
      BY <1>10, <2>1, CallTypes DEF UnlinkDestroyed
    <2> QED BY <1>10, <2>2, ResultSame DEF UnlinkDestroyed, Stored
  <1>11. CASE UnlinkDropped
    BY <1>11, ResultSame DEF UnlinkDropped, NextIter, Stored
  <1>12. CASE Halted \/ Redraw \/ UNCHANGED vars
    <2>1. UNCHANGED vars
      BY <1>12, Zenon DEF Halted, Redraw
    <2> QED BY <1>0, <2>1, ResultSame DEF vars, Stored
  <1> QED
    BY <1>1, <1>2, <1>3, <1>4, <1>5, <1>6, <1>7, <1>8, <1>9, <1>10, <1>11, <1>12, Zenon
    DEF Next, LoopStep, UserStep, RandomCall, Call

-----------------------------------------------------------------------------
(* Counters and trees *)

\* What the numbers in Drift are.
LEMMA DriftTypes ==
    ASSUME TypeFrame, Drifts, NEW t \in Type
    PROVE  /\ len[t] \in Int /\ IsFiniteSet(tree[t]) /\ Cardinality(tree[t]) \in Nat
           /\ Ahead(t) \in {-1, 0, 1} /\ sigints \in Nat
           /\ Drift(t) <= sigints
  <1>1. len[t] \in Int /\ sigints \in Nat
    BY LoopConstants DEF TypeFrame, TypeOK, PoolType, SignalType
  <1>2. IsFiniteSet(tree[t]) /\ Drift(t) <= sigints
    BY DEF Drifts
  <1>3. Cardinality(tree[t]) \in Nat
    BY <1>2, FS_CardinalityType
  <1>4. Ahead(t) \in {-1, 0, 1}
    BY DEF Ahead
  <1> QED
    BY <1>1, <1>2, <1>3, <1>4

\* A step that moves the counter of a type as far as its tree, or what it is ahead.
LEMMA DriftSame ==
    ASSUME TypeFrame, Drifts, sigints' = sigints,
           \A t \in Type :
              /\ IsFiniteSet(tree'[t])
              /\ len'[t] \in Int /\ Ahead(t)' \in Int
              /\ len'[t] - Cardinality(tree'[t]) - Ahead(t)'
                     = len[t] - Cardinality(tree[t]) - Ahead(t)
    PROVE  Drifts'
  <1>1. ASSUME NEW t \in Type PROVE Drift(t)' <= sigints'
    <2> DEFINE c == Cardinality(tree[t])
               d == Cardinality(tree'[t])
    <2>1. /\ len[t] \in Int /\ c \in Nat /\ Ahead(t) \in Int /\ sigints \in Nat
          /\ Distance(len[t], c + Ahead(t)) <= sigints
      BY DriftTypes DEF Drift
    <2>2. d \in Nat /\ len'[t] \in Int /\ Ahead(t)' \in Int
          /\ len'[t] - d - Ahead(t)' = len[t] - c - Ahead(t)
      BY FS_CardinalityType
    <2>3. Drift(t)' = Distance(len'[t], d + Ahead(t)')
      BY DEF Drift, Distance
    <2> HIDE DEF c, d
    <2> QED BY <2>1, <2>2, <2>3 DEF Distance
  <1> QED
    BY <1>1 DEF Drifts

\* A step that leaves the pool alone, and no counter ahead or as far as before.
LEMMA DriftStays ==
    ASSUME TypeFrame, Drifts, sigints' = sigints, tree' = tree, len' = len,
           \/ pc \notin {"insert", "dropunlink", "unlink"} /\ pc' \notin {"insert", "dropunlink", "unlink"}
           \/ UNCHANGED <<pc, func, doomed>>
    PROVE  Drifts'
  <1>1. \A t \in Type : Ahead(t)' = Ahead(t)
    BY DEF Ahead, FirstDoomed
  <1>2. \A t \in Type : len[t] \in Int /\ Ahead(t) \in {-1, 0, 1} /\ IsFiniteSet(tree[t])
    BY DriftTypes
  <1> QED
    BY <1>1, <1>2, DriftSame

\* ^C leaves a counter ahead of its tree at most.
LEMMA DriftSigint ==
    ASSUME TypeFrame, Drifts, Sigint \/ SigintIdle
    PROVE  Drifts'
  <1>1. /\ tree' = tree /\ len' = len /\ sigints' = sigints + 1
        /\ pc' \in {"out", "panic", "exit"}
    BY DEF Sigint, SigintIdle, Longjmp, poolVars
  <1>2. ASSUME NEW t \in Type PROVE Drift(t)' <= sigints'
    <2> DEFINE c == Cardinality(tree[t])
    <2>1. /\ len[t] \in Int /\ c \in Nat /\ Ahead(t) \in {-1, 0, 1} /\ sigints \in Nat
          /\ Distance(len[t], c + Ahead(t)) <= sigints
      BY DriftTypes DEF Drift
    <2>2. Ahead(t)' = 0
      BY <1>1 DEF Ahead
    <2>3. Drift(t)' = Distance(len[t], c + 0)
      BY <1>1, <2>2 DEF Drift, Distance
    <2> HIDE DEF c
    <2> QED BY <1>1, <2>1, <2>3 DEF Distance
  <1>3. \A t \in Type : IsFiniteSet(tree'[t])
    BY <1>1 DEF Drifts
  <1> QED
    BY <1>2, <1>3 DEF Drifts

\* The counter of a result goes ahead, and its tree follows.
LEMMA DriftNew ==
    ASSUME TypeFrame, Ids, Drifts, CountNew \/ InsertNew
    PROVE  Drifts'
  <1> DEFINE r == RetType[func]
  <1>0. /\ r \in Type /\ tree \in [Type -> SUBSET Nat] /\ len \in [Type -> Int] /\ curId \in Nat
    BY CallTypes DEF TypeFrame, TypeOK, PoolType
  <1>1. CASE CountNew
    <2>1. /\ len' = [len EXCEPT ![r] = @ + 1] /\ tree' = tree /\ sigints' = sigints
          /\ pc = "args" /\ pc' = "insert" /\ func' = func
      BY <1>1 DEF CountNew, sigVars, frameVars
    <2>2. \A t \in Type : Ahead(t) = 0 /\ Ahead(t)' = IF t = r THEN 1 ELSE 0
      BY <2>1 DEF Ahead
    <2>3. ASSUME NEW t \in Type
          PROVE  /\ IsFiniteSet(tree'[t]) /\ len'[t] \in Int /\ Ahead(t)' \in Int
                 /\ len'[t] - Cardinality(tree'[t]) - Ahead(t)'
                        = len[t] - Cardinality(tree[t]) - Ahead(t)
      <3>1. len'[t] = IF t = r THEN len[t] + 1 ELSE len[t]
        BY <1>0, <2>1
      <3> QED BY <2>1, <2>2, <3>1, DriftTypes
    <2> QED BY <2>1, <2>3, DriftSame
  <1>2. CASE InsertNew
    <2>1. /\ tree' = [tree EXCEPT ![r] = @ \cup {curId}] /\ len' = len /\ sigints' = sigints
          /\ pc = "insert" /\ pc' = "record"
      BY <1>2 DEF InsertNew, sigVars
    <2>2. \A t \in Type : Ahead(t)' = 0 /\ Ahead(t) = IF t = r THEN 1 ELSE 0
      BY <2>1 DEF Ahead
    <2>3. curId \notin tree[r]
      BY <1>0 DEF Ids, IdsIssuedOnce
    <2>4. ASSUME NEW t \in Type
          PROVE  /\ IsFiniteSet(tree'[t]) /\ len'[t] \in Int /\ Ahead(t)' \in Int
                 /\ len'[t] - Cardinality(tree'[t]) - Ahead(t)'
                        = len[t] - Cardinality(tree[t]) - Ahead(t)
      <3>1. CASE t = r
        <4>1. tree'[t] = tree[t] \cup {curId} /\ curId \notin tree[t]
          BY <1>0, <2>1, <2>3, <3>1
        <4>2. IsFiniteSet(tree[t]) /\ Cardinality(tree[t]) \in Nat /\ len[t] \in Int
          BY DriftTypes
        <4>3. IsFiniteSet(tree'[t]) /\ Cardinality(tree'[t]) = Cardinality(tree[t]) + 1
          BY <4>1, <4>2, FS_AddElement, SMTT(60)
        <4> QED BY <2>1, <2>2, <3>1, <4>2, <4>3
      <3>2. CASE t # r
        <4>1. tree'[t] = tree[t]
          BY <1>0, <2>1, <3>2
        <4> QED BY <2>1, <2>2, <3>2, <4>1, DriftTypes
      <3> QED BY <3>1, <3>2
    <2> QED BY <2>1, <2>4, DriftSame
  <1> QED
    BY <1>1, <1>2

\* The counter of a variable that is taken out goes ahead, and its tree follows.
LEMMA DriftTaken ==
    ASSUME TypeFrame, Drifts, NEW r \in Type, NEW x, sigints' = sigints,
           \/ /\ len' = [len EXCEPT ![r] = @ - 1] /\ tree' = tree
              /\ \A t \in Type : Ahead(t) = 0 /\ Ahead(t)' = IF t = r THEN -1 ELSE 0
           \/ /\ tree' = [tree EXCEPT ![r] = @ \ {x}] /\ len' = len /\ x \in tree[r]
              /\ \A t \in Type : Ahead(t)' = 0 /\ Ahead(t) = IF t = r THEN -1 ELSE 0
    PROVE  Drifts'
  <1>0. tree \in [Type -> SUBSET Nat] /\ len \in [Type -> Int]
    BY DEF TypeFrame, TypeOK, PoolType
  <1>1. ASSUME NEW t \in Type
        PROVE  /\ IsFiniteSet(tree'[t]) /\ len'[t] \in Int /\ Ahead(t)' \in Int
               /\ len'[t] - Cardinality(tree'[t]) - Ahead(t)'
                      = len[t] - Cardinality(tree[t]) - Ahead(t)
    <2>1. IsFiniteSet(tree[t]) /\ Cardinality(tree[t]) \in Nat /\ len[t] \in Int
      BY DriftTypes
    <2>2. CASE tree' = tree
      <3>1. /\ len'[t] = IF t = r THEN len[t] - 1 ELSE len[t]
            /\ Ahead(t) = 0 /\ Ahead(t)' = IF t = r THEN -1 ELSE 0
        BY <1>0, <2>2
      <3> QED BY <2>1, <2>2, <3>1
    <2>3. CASE tree' # tree
      <3>1. /\ len'[t] = len[t] /\ tree'[t] = IF t = r THEN tree[t] \ {x} ELSE tree[t]
            /\ x \in tree[r]
            /\ Ahead(t)' = 0 /\ Ahead(t) = IF t = r THEN -1 ELSE 0
        BY <1>0, <2>3
      <3>2. CASE t = r
        <4>1. IsFiniteSet(tree'[t]) /\ Cardinality(tree'[t]) = Cardinality(tree[t]) - 1
          BY <2>1, <3>1, <3>2, FS_RemoveElement
        <4> QED BY <2>1, <3>1, <3>2, <4>1
      <3> QED BY <2>1, <3>1, <3>2
    <2> QED BY <2>2, <2>3
  <1> QED
    BY <1>1, DriftSame

\* A DESTROY argument is counted down and then unlinked.
LEMMA DriftDestroyed ==
    ASSUME TypeFrame, Alive, Drifts, NEW i \in doomed, CountDestroyed(i) \/ UnlinkDestroyed(i)
    PROVE  Drifts'
  <1> DEFINE r == TypeOf(func, i)
  <1>0. r \in Type /\ FirstDoomed(i) /\ \A j \in doomed : FirstDoomed(j) <=> j = i
    <2>1. r \in Type /\ FirstDoomed(i)
      BY CallTypes DEF CountDestroyed, UnlinkDestroyed
    <2>2. {j \in doomed : ~FirstDoomed(j)} = doomed \ {i}
      BY <2>1, FirstIsLeast
    <2> QED BY <2>1, <2>2
  <1>1. CASE CountDestroyed(i)
    <2>1. /\ len' = [len EXCEPT ![r] = @ - 1] /\ tree' = tree /\ sigints' = sigints
          /\ pc = "destroy" /\ pc' = "unlink" /\ func' = func /\ doomed' = doomed
      BY <1>1 DEF CountDestroyed, sigVars, frameVars
    <2>2. \A t \in Type : (\E j \in doomed' : FirstDoomed(j)' /\ TypeOf(func', j) = t) <=> t = r
      <3>1. \A j \in doomed : FirstDoomed(j)' <=> FirstDoomed(j)
        BY <2>1 DEF FirstDoomed
      <3> QED BY <1>0, <2>1, <3>1
    <2>3. \A t \in Type : Ahead(t) = 0 /\ Ahead(t)' = IF t = r THEN -1 ELSE 0
      BY <2>1, <2>2 DEF Ahead
    <2> HIDE DEF r
    <2> QED BY <1>0, <2>1, <2>3, DriftTaken
  <1>2. CASE UnlinkDestroyed(i)
    <2>1. /\ tree' = [tree EXCEPT ![r] = @ \ {argv[i]}] /\ len' = len /\ sigints' = sigints
          /\ pc = "unlink" /\ pc' = "destroy"
      BY <1>2 DEF UnlinkDestroyed, sigVars
    <2>2. \A t \in Type : (\E j \in doomed : FirstDoomed(j) /\ TypeOf(func, j) = t) <=> t = r
      BY <1>0
    <2>3. \A t \in Type : Ahead(t)' = 0 /\ Ahead(t) = IF t = r THEN -1 ELSE 0
      BY <2>1, <2>2 DEF Ahead
    <2>4. argv[i] \in tree[r]
      BY <2>1 DEF Alive, ArgsAlive
    <2> HIDE DEF r
    <2> QED BY <1>0, <2>1, <2>3, <2>4, DriftTaken
  <1> QED
    BY <1>1, <1>2

\* A rejected result is counted down and then unlinked.
LEMMA DriftDropped ==
    ASSUME TypeFrame, ResultLives, Drifts, CountDropped \/ UnlinkDropped
    PROVE  Drifts'
  <1> DEFINE r == RetType[func]
  <1>0. r \in Type
    BY CallTypes
  <1>1. CASE CountDropped
    <2>1. /\ len' = [len EXCEPT ![r] = @ - 1] /\ tree' = tree /\ sigints' = sigints
          /\ pc = "dropcount" /\ pc' = "dropunlink" /\ func' = func
      BY <1>1 DEF CountDropped, sigVars, frameVars
    <2>2. \A t \in Type : Ahead(t) = 0 /\ Ahead(t)' = IF t = r THEN -1 ELSE 0
      BY <2>1 DEF Ahead
    <2> HIDE DEF r
    <2> QED BY <1>0, <2>1, <2>2, DriftTaken
  <1>2. CASE UnlinkDropped
    <2>1. /\ tree' = [tree EXCEPT ![r] = @ \ {newId}] /\ len' = len /\ sigints' = sigints
          /\ pc = "dropunlink" /\ pc' = "pick"
      BY <1>2 DEF UnlinkDropped, NextIter, sigVars
    <2>2. \A t \in Type : Ahead(t)' = 0 /\ Ahead(t) = IF t = r THEN -1 ELSE 0
      BY <2>1 DEF Ahead
    <2>3. newId \in tree[r]
      BY <2>1 DEF ResultLives, Stored
    <2> HIDE DEF r
    <2> QED BY <1>0, <2>1, <2>2, <2>3, DriftTaken
  <1> QED
    BY <1>1, <1>2

\* In a fresh context the trees are empty and the counters are zero.
LEMMA DriftInit == Init => Drifts
  <1> SUFFICES ASSUME Init, NEW t \in Type PROVE IsFiniteSet(tree[t]) /\ Drift(t) <= sigints
    BY DEF Drifts
  <1>1. tree[t] = {} /\ len[t] = 0 /\ sigints = 0 /\ pc = "idle"
    BY DEF Init
  <1>2. IsFiniteSet(tree[t]) /\ Cardinality(tree[t]) = 0
    BY <1>1, FS_EmptySet
  <1>3. Ahead(t) = 0
    BY <1>1 DEF Ahead
  <1> QED
    BY <1>1, <1>2, <1>3 DEF Drift, Distance

\* Every step keeps the counters as near to the trees as the ^C so far allow.
LEMMA DriftStep ==
    TypeFrame /\ Alive /\ Ids /\ ResultLives /\ Drifts /\ [Next]_vars => Drifts'
  <1> SUFFICES ASSUME TypeFrame, Alive, Ids, ResultLives, Drifts, [Next]_vars PROVE Drifts'
    BY Zenon
  <1> USE DEF poolVars, traceVars, loopVars, frameVars, sigVars
  <1>1. ASSUME NEW iter \in Iters, NEW mode \in Modes, Start(iter, mode) PROVE Drifts'
    BY <1>1, DriftStays DEF Start
  <1>2. ASSUME NEW f \in Func, PickFunc(f) PROVE Drifts'
    BY <1>2, DriftStays DEF PickFunc
  <1>3. CASE NoCandidate \/ LoopDone \/ Revert \/ Quit
    BY <1>3, DriftStays DEF NoCandidate, LoopDone, Revert, Quit
  <1>4. CASE Sigint \/ SigintIdle
    BY <1>4, DriftSigint
  <1>5. CASE EmptyTree \/ TargetCrashes
    BY <1>5, DriftStays DEF EmptyTree, TargetCrashes, Segfault, Longjmp
  <1>6. ASSUME NEW i \in Slots(func), NEW v \in tree[TypeOf(func, i)], PickArg(i, v)
        PROVE  Drifts'
    BY <1>6, DriftStays DEF PickArg
  <1>7. CASE CountNew \/ InsertNew
    BY <1>7, DriftNew
  <1>8. CASE Record \/ TargetReturns \/ CheckOk \/ CheckFails
    BY <1>8, DriftStays DEF Record, TargetReturns, CheckOk, CheckFails, NextIter
  <1>9. ASSUME NEW i \in doomed, CountDestroyed(i) \/ UnlinkDestroyed(i) PROVE Drifts'
    BY <1>9, DriftDestroyed
  <1>10. CASE CountDropped \/ UnlinkDropped
    BY <1>10, DriftDropped
  <1>11. CASE Halted \/ Redraw \/ UNCHANGED vars
    <2>1. UNCHANGED vars
      BY <1>11, Zenon DEF Halted, Redraw
    <2> QED BY <2>1, DriftStays DEF vars
  <1> QED
    BY <1>1, <1>2, <1>3, <1>4, <1>5, <1>6, <1>7, <1>8, <1>9, <1>10, <1>11, Zenon
    DEF Next, LoopStep, UserStep, RandomCall, Call

\* What holds however often ^C is pressed
PoolInv == TypeFrame /\ Alive /\ Ids /\ Destruction /\ ResultLives /\ Drifts

\* It holds at the start and no step breaks it.
LEMMA PoolAlways == Spec => []PoolInv
  <1>1. Init => PoolInv
    <2>1. Init => ResultLives
      BY DEF Init, ResultLives, Stored
    <2> QED
      BY <2>1, TypeInit, AliveInit, IdsInit, DestructionInit, DriftInit, Zenon DEF PoolInv
  <1>2. PoolInv /\ [Next]_vars => PoolInv'
    BY TypeStep, AliveStep, IdsStep, DestructionStep, ResultStep, DriftStep, Zenon DEF PoolInv
  <1> QED
    BY <1>1, <1>2, PTL DEF Spec

\* Each ^C pushes a counter off the number of variables in its tree by one at
\* most, and nothing else does (minerva_var.c:75-84, 98-100).
THEOREM CountersFollowTrees == Spec => []DriftBoundedBySigints
  <1>1. PoolInv => DriftBoundedBySigints
    BY Zenon DEF PoolInv, Drifts, DriftBoundedBySigints
  <1> QED
    BY <1>1, PoolAlways, PTL

-----------------------------------------------------------------------------
(* The choice of arguments *)

\* What qualify has found does not change while the arguments are chosen.
LEMMA QualifiedStep == Qualified /\ [Next]_vars => Qualified'
  <1> SUFFICES ASSUME Qualified, [Next]_vars PROVE Qualified'
    BY Zenon
  <1> USE DEF poolVars, traceVars, loopVars, frameVars, sigVars
  <1>1. ASSUME NEW f \in Func, PickFunc(f) PROVE Qualified'
    <2>1. Qualify(f, len, mutate) /\ func' = f /\ len' = len /\ mutate' = mutate
      BY <1>1 DEF PickFunc, Candidates
    <2> QED BY <2>1 DEF Qualified
  <1>2. ASSUME NEW i \in Slots(func), NEW v \in tree[TypeOf(func, i)], PickArg(i, v)
        PROVE  Qualified'
    BY <1>2 DEF PickArg, Qualified
  <1>3. CASE Halted \/ Redraw \/ UNCHANGED vars
    <2>1. UNCHANGED vars
      BY <1>3, Zenon DEF Halted, Redraw
    <2> QED BY <2>1 DEF vars, Qualified
  <1>4. CASE NoCandidate \/ LoopDone \/ Revert \/ Quit \/ Sigint \/ SigintIdle \/ EmptyTree
    BY <1>4 DEF NoCandidate, LoopDone, Revert, Quit, Sigint, SigintIdle, EmptyTree,
                Segfault, Longjmp, Qualified
  <1>5. CASE CountNew \/ InsertNew \/ Record \/ Call
    BY <1>5 DEF CountNew, InsertNew, Record, Call, TargetReturns, TargetCrashes, CountDestroyed,
                UnlinkDestroyed, CheckOk, CheckFails, CountDropped, UnlinkDropped, NextIter,
                Segfault, Longjmp, Qualified
  <1>6. ASSUME NEW iter \in Iters, NEW mode \in Modes, Start(iter, mode) PROVE Qualified'
    BY <1>6 DEF Start, Qualified
  <1> QED
    BY <1>1, <1>2, <1>3, <1>4, <1>5, <1>6, Zenon DEF Next, LoopStep, UserStep, RandomCall

\* Of the slots before i, those that exclude a variable are the Reserved ones
\* when i is the next slot.
LEMMA ExcludedByReserved ==
    ASSUME TypeFrame, Alive, pc = "args", NEW i \in Slots(func), NextSlot(func, argv, i),
           NEW v \in tree[TypeOf(func, i)], ~Acceptable(func, argv, i, v)
    PROVE  \E j \in Reserved(func, i) : argv[j] = v
  <1>1. PICK j \in 1 .. i - 1 :
            /\ TypeOf(func, j) = TypeOf(func, i) /\ argv[j] = v
            /\ Unique(func, i) \/ Unique(func, j)
    BY DEF Acceptable
  <1>2. v \in Nat /\ i \in Nat /\ j \in Slots(func) /\ j \in Nat /\ j < i
    BY <1>1, CallTypes, Table DEF Slots
  <1>3. argv[i] = Unset /\ argv[j] # Unset
    BY <1>1, <1>2 DEF NextSlot, Unfilled, Unset
  <1>4. ~Before(func, i, j)
    BY <1>2, <1>3 DEF Alive, FilledInOrder
  <1>5. Unique(func, j)
    BY <1>1, <1>4 DEF Before
  <1> QED
    BY <1>1, <1>2, <1>5 DEF Reserved

\* Where a counter is not above its tree, the tree holds more variables than the
\* slots that are filled before a slot can exclude.
LEMMA SelectionHolds ==
    ASSUME TypeFrame, Alive, Drifts, Qualified
    PROVE  SelectionSucceeds
  <1> SUFFICES ASSUME pc = "args", NEW i \in Slots(func), NextSlot(func, argv, i),
                      sigints = 0 \/ len[TypeOf(func, i)] <= Cardinality(tree[TypeOf(func, i)])
               PROVE  \E v \in tree[TypeOf(func, i)] : Acceptable(func, argv, i, v)
    BY DEF SelectionSucceeds
  <1> DEFINE T == tree[TypeOf(func, i)]
             R == Reserved(func, i)
  <1>1. TypeOf(func, i) \in Type /\ func \in Func
    BY CallTypes
  <1>2. /\ len[TypeOf(func, i)] <= Cardinality(T)
        /\ len[TypeOf(func, i)] \in Int /\ Cardinality(T) \in Nat
    <2>1. Ahead(TypeOf(func, i)) = 0
      BY DEF Ahead
    <2> DEFINE c == Cardinality(T)
               l == len[TypeOf(func, i)]
    <2>2. l \in Int /\ c \in Nat
      BY <1>1, DriftTypes
    <2>3. sigints = 0 => Distance(l, c + 0) <= 0
      BY <1>1, <2>1, DriftTypes DEF Drift
    <2>4. sigints = 0 \/ l <= c
      OBVIOUS
    <2> HIDE DEF c, l
    <2>5. l <= c
      BY <2>2, <2>3, <2>4 DEF Distance
    <2> QED BY <2>2, <2>5 DEF c, l
  <1>3. IsFiniteSet(R)
    <2>1. i \in Nat
      BY CallTypes
    <2>2. IsFiniteSet(1 .. i - 1)
      BY <2>1, FS_Interval
    <2>3. R \in SUBSET (1 .. i - 1)
      BY DEF Reserved
    <2> QED BY <2>2, <2>3, FS_Subset
  <1>4. Cardinality(T) > Cardinality(R)
    <2>1. len[TypeOf(func, i)] > Cardinality(R)
      BY DEF Qualified, Qualify
    <2>2. Cardinality(R) \in Nat
      BY <1>3, FS_CardinalityType
    <2> HIDE DEF T, R
    <2> QED BY <1>2, <2>1, <2>2
  <1>5. SUFFICES ASSUME \A v \in T : ~Acceptable(func, argv, i, v)
                 PROVE  FALSE
    OBVIOUS
  <1>6. \A v \in T : \E j \in R : argv[j] = v
    BY <1>5, ExcludedByReserved
  <1> DEFINE f == [v \in T |-> CHOOSE j \in R : argv[j] = v]
  <1>7. \A v \in T : f[v] \in R /\ argv[f[v]] = v
    BY <1>6
  <1>8. f \in [T -> R]
    BY <1>7
  <1> HIDE DEF f, T, R
  <1>9. f \in Injection(T, R)
    BY <1>7, <1>8 DEF Injection, IsInjective
  <1>10. Cardinality(T) <= Cardinality(R)
    BY <1>3, <1>9, FS_Injection
  <1>11. Cardinality(T) \in Nat /\ Cardinality(R) \in Nat
    BY <1>3, <1>9, FS_Injection, FS_CardinalityType
  <1> QED
    BY <1>4, <1>10, <1>11

\* What qualify reads in the counters is enough for both passes over the
\* arguments: no draw from an empty tree, none repeated for ever, except for a
\* type whose counter a ^C has left above its tree.
THEOREM SelectionAlwaysSucceeds == Spec => []SelectionSucceeds
  <1>1. Init => Qualified
    BY DEF Init, Qualified
  <1>2. PoolInv /\ Qualified => SelectionSucceeds
    BY SelectionHolds DEF PoolInv
  <1> QED
    BY <1>1, <1>2, QualifiedStep, PoolAlways, PTL DEF Spec

-----------------------------------------------------------------------------
(* A crash ends the trace *)

\* A step that leaves the flag and the trace alone.
LEMMA CrashSame ==
    ASSUME CrashEnds, crash' = crash, calls' = calls, fate' = fate, sigints' = 0 => sigints = 0,
           pc' = pc \/ pc' \in {"out", "idle"} \cup Dead
    PROVE  CrashEnds'
  BY Zenon DEF CrashEnds

\* Only a crash of the target, which the trace has recorded, sets the flag, and
\* the loop ends with it.
LEMMA CrashStep ==
    TypeFrame /\ SelectionSucceeds /\ CrashEnds /\ [Next]_vars => CrashEnds'
  <1> SUFFICES ASSUME TypeFrame, SelectionSucceeds, CrashEnds, [Next]_vars PROVE CrashEnds'
    BY Zenon
  <1> USE DEF poolVars, traceVars, loopVars, frameVars, sigVars
  <1>0. crash \in BOOLEAN /\ sigints \in Nat
    BY LoopConstants DEF TypeFrame, TypeOK, FlagType, SignalType
  <1>1. CASE pc \notin {"out", "idle"} \cup Dead /\ crash' = crash
             /\ (sigints' = 0 => sigints = 0)
    BY <1>1, Zenon DEF CrashEnds
  <1>2. ASSUME NEW iter \in Iters, NEW mode \in Modes, Start(iter, mode) PROVE CrashEnds'
    BY <1>2, Zenon DEF Start, CrashEnds
  <1>3. CASE Revert \/ Quit
    BY <1>3, CrashSame, Zenon DEF Revert, Quit, Dead
  <1>4. CASE Sigint \/ SigintIdle
    <2>1. sigints' # 0
      BY <1>0, <1>4 DEF Sigint, SigintIdle
    <2> QED BY <2>1, Zenon DEF CrashEnds
  <1>5. CASE EmptyTree
    <2>1. sigints' = sigints /\ pc = "args"
      BY <1>5 DEF EmptyTree, Segfault
    <2>2. sigints # 0
      BY <1>5, <2>1 DEF EmptyTree, SelectionSucceeds
    <2> QED BY <2>1, <2>2, Zenon DEF CrashEnds
  <1>6. CASE TargetCrashes
    <2>1. pc' \in {"out", "panic"} /\ calls' = calls
      BY <1>6 DEF TargetCrashes, Segfault, Longjmp
    <2>2. Len(calls) > 0 /\ Len(fate) = Len(calls)
      BY <1>6, TraceTypes DEF TargetCrashes, TypeFrame, Frame, Recorded
    <2>3. Len(fate') = Len(fate) /\ fate'[Len(fate)] = "crash"
      <3>1. fate \in Seq(Fates) /\ Len(fate) \in DOMAIN fate
        BY <2>2, TraceTypes DEF TypeFrame, TypeOK, TraceType
      <3>2. fate' = [fate EXCEPT ![Len(fate)] = "crash"] /\ "crash" \in Fates
        BY <1>6 DEF TargetCrashes, SetFate, Fates
      <3> QED BY <3>1, <3>2, SeqExcept
    <2>4. calls' # <<>>
      BY <2>1, <2>2, TraceTypes
    <2> QED BY <2>1, <2>3, <2>4 DEF CrashEnds, Dead
  <1>7. CASE Halted \/ Redraw \/ UNCHANGED vars
    <2>1. UNCHANGED vars
      BY <1>7, Zenon DEF Halted, Redraw
    <2> QED BY <2>1, CrashSame, Zenon DEF vars
  <1>8. CASE \/ NoCandidate \/ LoopDone \/ (\E f \in Func : PickFunc(f))
             \/ CountNew \/ InsertNew \/ Record \/ TargetReturns
             \/ CheckOk \/ CheckFails \/ CountDropped \/ UnlinkDropped
    <2>1. /\ pc \notin {"out", "idle"} \cup Dead
          /\ UNCHANGED sigVars
      BY <1>8 DEF NoCandidate, LoopDone, PickFunc, CountNew, InsertNew, Record, TargetReturns,
                  CheckOk, CheckFails, CountDropped, UnlinkDropped, Dead
    <2> QED BY <1>1, <2>1, Zenon
  <1>9. ASSUME NEW i, CountDestroyed(i) \/ UnlinkDestroyed(i) PROVE CrashEnds'
    <2>1. pc \notin {"out", "idle"} \cup Dead /\ UNCHANGED sigVars
      BY <1>9 DEF CountDestroyed, UnlinkDestroyed, Dead
    <2> QED BY <1>1, <2>1, Zenon
  <1>10. ASSUME NEW i, NEW v, PickArg(i, v) PROVE CrashEnds'
    <2>1. pc \notin {"out", "idle"} \cup Dead /\ UNCHANGED sigVars
      BY <1>10 DEF PickArg, Dead
    <2> QED BY <1>1, <2>1, Zenon
  <1> QED
    BY <1>2, <1>3, <1>4, <1>5, <1>6, <1>7, <1>8, <1>9, <1>10, Zenon
    DEF Next, LoopStep, UserStep, RandomCall, Call

\* Without ^C, a loop that reports a crash leaves the call that crashed at the
\* end of the trace, where play and min look for it (minerva_loop.c:32-58).
THEOREM CrashedCallIsLast == Spec => []CrashIsLastCall
  <1>1. Init => CrashEnds
    BY Zenon DEF Init, CrashEnds
  <1>2. CrashEnds => CrashIsLastCall
    BY Zenon DEF CrashEnds, CrashIsLastCall
  <1>3. Spec => []SelectionSucceeds
    BY SelectionAlwaysSucceeds
  <1>4. PoolInv => TypeFrame
    BY Zenon DEF PoolInv
  <1> QED
    BY <1>1, <1>2, <1>3, <1>4, CrashStep, PoolAlways, PTL DEF Spec

-----------------------------------------------------------------------------
(* The arguments, when the call takes effect *)

\* A draw is none of the variables its slot excludes, and none of those that
\* exclude it: slots that are filled earlier come before it.
LEMMA ApartPickArg ==
    ASSUME TypeFrame, Alive, Apart, NEW i \in Slots(func), NEW v \in tree[TypeOf(func, i)],
           PickArg(i, v)
    PROVE  Apart'
  <1>1. /\ pc = "args" /\ pc' = "args" /\ func' = func
        /\ argv' = [argv EXCEPT ![i] = v]
        /\ NextSlot(func, argv, i) /\ Acceptable(func, argv, i, v)
    BY DEF PickArg
  <1>2. DOMAIN argv = Slots(func) /\ Slots(func) \subseteq Nat /\ v \in Nat
    BY <1>1, CallTypes DEF InCall
  <1>3. argv'[i] = v /\ \A j \in Slots(func) : j # i => argv'[j] = argv[j]
    BY <1>1, <1>2
  <1>4. argv[i] = Unset
    BY <1>1 DEF NextSlot, Unfilled
  <1>5. ASSUME NEW k \in Slots(func), NEW j \in Reserved(func, k), argv'[k] # Unset, argv'[j] # Unset
        PROVE  argv'[k] # argv'[j]
    <2>1. /\ k \in Nat /\ j \in Nat /\ j < k /\ j \in 1 .. k - 1 /\ j \in Slots(func)
          /\ Unique(func, j) /\ TypeOf(func, j) = TypeOf(func, k)
      BY <1>2, CallTypes, Table DEF Reserved, Slots
    <2>2. CASE k = i
      BY <1>1, <1>3, <2>1, <2>2 DEF Acceptable
    <2>3. CASE j = i
      <3>1. Before(func, i, k)
        BY <2>1, <2>3 DEF Before
      <3>2. argv[k] # Unset
        BY <1>3, <1>5, <2>1, <2>3
      <3> QED BY <1>1, <1>4, <3>1, <3>2 DEF Alive, FilledInOrder
    <2>4. CASE k # i /\ j # i
      BY <1>1, <1>3, <1>5, <2>1, <2>4 DEF Apart, InCall
    <2> QED BY <2>2, <2>3, <2>4
  <1> QED
    BY <1>1, <1>5 DEF Apart

\* Every step keeps the arguments apart from those that exclude them.
LEMMA ApartStep == TypeFrame /\ Alive /\ Apart /\ [Next]_vars => Apart'
  <1> SUFFICES ASSUME TypeFrame, Alive, Apart, [Next]_vars PROVE Apart'
    BY Zenon
  <1> USE DEF poolVars, traceVars, loopVars, frameVars, sigVars
  <1>1. ASSUME pc' \notin InCall PROVE Apart'
    BY <1>1 DEF Apart
  <1>2. ASSUME pc \in InCall, UNCHANGED <<func, argv>> PROVE Apart'
    BY <1>2 DEF Apart
  <1>3. ASSUME NEW iter \in Iters, NEW mode \in Modes, Start(iter, mode) PROVE Apart'
    BY <1>1, <1>3 DEF Start, InCall
  <1>4. ASSUME NEW f \in Func, PickFunc(f) PROVE Apart'
    <2>1. func' = f /\ \A i \in Slots(f) : argv'[i] = Unset
      BY <1>4 DEF PickFunc
    <2> QED BY <2>1 DEF Apart
  <1>5. CASE NoCandidate \/ LoopDone \/ Revert \/ Quit \/ Sigint \/ SigintIdle \/ EmptyTree
             \/ TargetCrashes \/ CheckOk \/ UnlinkDropped
    BY <1>1, <1>5 DEF NoCandidate, LoopDone, Revert, Quit, Sigint, SigintIdle, EmptyTree,
       TargetCrashes, CheckOk, UnlinkDropped, NextIter, Segfault, Longjmp, InCall
  <1>6. ASSUME NEW i \in Slots(func), NEW v \in tree[TypeOf(func, i)], PickArg(i, v) PROVE Apart'
    BY <1>6, ApartPickArg
  <1>7. CASE CountNew \/ InsertNew \/ Record \/ TargetReturns \/ CheckFails \/ CountDropped
    BY <1>2, <1>7 DEF CountNew, InsertNew, Record, TargetReturns, CheckFails, CountDropped, InCall
  <1>8. ASSUME NEW i, CountDestroyed(i) \/ UnlinkDestroyed(i) PROVE Apart'
    BY <1>2, <1>8 DEF CountDestroyed, UnlinkDestroyed, InCall
  <1>9. CASE Halted \/ Redraw \/ UNCHANGED vars
    <2>1. UNCHANGED vars
      BY <1>9, Zenon DEF Halted, Redraw
    <2> QED BY <2>1 DEF Apart, vars
  <1> QED
    BY <1>3, <1>4, <1>5, <1>6, <1>7, <1>8, <1>9, Zenon
    DEF Next, LoopStep, UserStep, RandomCall, Call

\* An argument that is unlinked is among those destroyed so far.
LEMMA StayUnlinked ==
    ASSUME TypeFrame, ArgsStay, NEW i \in doomed, UnlinkDestroyed(i)
    PROVE  ArgsStay'
  <1>1. /\ pc = "unlink" /\ pc' = "destroy" /\ func' = func /\ argv' = argv
        /\ doomed' = doomed \ {i}
        /\ tree' = [tree EXCEPT ![TypeOf(func, i)] = @ \ {argv[i]}]
    BY DEF UnlinkDestroyed
  <1>2. ASSUME NEW k \in Slots(func)
        PROVE  argv[k] \in tree'[TypeOf(func, k)]
                  \cup {argv[j] : j \in {m \in DestroySlots(func) \ doomed' : TypeOf(func, m) = TypeOf(func, k)}}
    <2>1. argv[k] \in tree[TypeOf(func, k)]
            \cup {argv[j] : j \in {m \in DestroySlots(func) \ doomed : TypeOf(func, m) = TypeOf(func, k)}}
      BY <1>1 DEF ArgsStay, Gone
    <2>2. TypeOf(func, k) \in Type /\ i \in DestroySlots(func) /\ TypeOf(func, i) \in Type
      BY CallTypes
    <2>3. CASE argv[k] \in tree[TypeOf(func, k)]
      <3>1. CASE TypeOf(func, i) = TypeOf(func, k) /\ argv[k] = argv[i]
        BY <1>1, <2>2, <3>1
      <3>2. CASE ~(TypeOf(func, i) = TypeOf(func, k) /\ argv[k] = argv[i])
        BY <1>1, <2>2, <2>3, <3>2, CallTypes
      <3> QED BY <3>1, <3>2
    <2>4. CASE argv[k] \notin tree[TypeOf(func, k)]
      BY <1>1, <2>1, <2>4
    <2> QED BY <2>3, <2>4
  <1> QED
    BY <1>1, <1>2 DEF ArgsStay, Gone

\* Every step keeps the arguments in the pool or among those destroyed so far.
LEMMA ArgsStayStep == TypeFrame /\ Alive /\ ArgsStay /\ [Next]_vars => ArgsStay'
  <1> SUFFICES ASSUME TypeFrame, Alive, ArgsStay, [Next]_vars PROVE ArgsStay'
    BY Zenon
  <1> USE DEF poolVars, traceVars, loopVars, frameVars, sigVars
  <1>1. ASSUME pc' \notin {"destroy", "unlink"} PROVE ArgsStay'
    BY <1>1 DEF ArgsStay
  <1>2. ASSUME NEW iter \in Iters, NEW mode \in Modes, Start(iter, mode) PROVE ArgsStay'
    BY <1>1, <1>2 DEF Start
  <1>3. CASE \/ (\E f \in Func : PickFunc(f)) \/ NoCandidate \/ LoopDone \/ Revert \/ Quit
             \/ Sigint \/ SigintIdle \/ EmptyTree \/ CountNew \/ InsertNew \/ Record
    BY <1>1, <1>3 DEF PickFunc, NoCandidate, LoopDone, Revert, Quit, Sigint, SigintIdle,
       EmptyTree, CountNew, InsertNew, Record, Segfault, Longjmp
  <1>4. CASE TargetCrashes \/ CheckOk \/ CheckFails \/ CountDropped \/ UnlinkDropped
    BY <1>1, <1>4 DEF TargetCrashes, CheckOk, CheckFails, CountDropped, UnlinkDropped, NextIter,
       Segfault, Longjmp
  <1>5. ASSUME NEW i, NEW v, PickArg(i, v) PROVE ArgsStay'
    BY <1>1, <1>5 DEF PickArg
  <1>6. CASE TargetReturns
    <2>1. /\ pc = "run" /\ func' = func /\ argv' = argv /\ tree' = tree
      BY <1>6 DEF TargetReturns
    <2>2. \A i \in Slots(func) : argv[i] \in Nat
      BY <2>1, CallTypes DEF InCall
    <2>3. \A i \in Slots(func) : argv[i] \in tree[TypeOf(func, i)]
      BY <2>1, <2>2 DEF Alive, ArgsAlive, Unfilled, Unset
    <2> QED BY <2>1, <2>3 DEF ArgsStay
  <1>7. ASSUME NEW i \in doomed, CountDestroyed(i) PROVE ArgsStay'
    BY <1>7 DEF CountDestroyed, ArgsStay, Gone
  <1>8. ASSUME NEW i \in doomed, UnlinkDestroyed(i) PROVE ArgsStay'
    BY <1>8, StayUnlinked
  <1>9. CASE Halted \/ Redraw \/ UNCHANGED vars
    <2>1. UNCHANGED vars
      BY <1>9, Zenon DEF Halted, Redraw
    <2> QED BY <2>1 DEF ArgsStay, Gone, vars
  <1> QED
    BY <1>2, <1>3, <1>4, <1>5, <1>6, <1>7, <1>8, <1>9, Zenon
    DEF Next, LoopStep, UserStep, RandomCall, Call

-----------------------------------------------------------------------------
(* Results are positions *)

\* A call is in the trace and not settled.
Unsettled == pc \in {"run", "destroy", "unlink"}

\* A step that leaves the trace and the identifiers alone.
LEMMA PositionsSame ==
    ASSUME Positions, UNCHANGED <<calls, fate, curId>>, sigints' = 0 => sigints = 0,
           Unsettled' <=> Unsettled, pc # "record", pc' # "record"
    PROVE  Positions'
  BY DEF Positions, Settled, Unsettled

\* A step that settles the last call of the trace, or does not yet.
LEMMA PositionsFate ==
    ASSUME TypeFrame, Positions, NEW x, SetFate(x), UNCHANGED <<calls, curId>>, sigints' = sigints,
           Unsettled, pc' # "record",
           x \in {"ok", "fail", "crash"} <=> ~Unsettled'
    PROVE  Positions'
  BY OnlyLastFate, TraceTypes DEF Positions, Settled, Unsettled

\* Without ^C, every step keeps the results at their positions.
LEMMA PositionsStep == TypeFrame /\ Positions /\ [Next]_vars => Positions'
  <1> SUFFICES ASSUME TypeFrame, Positions, [Next]_vars PROVE Positions'
    BY Zenon
  <1> USE DEF poolVars, traceVars, loopVars, frameVars, sigVars
  <1>1. ASSUME NEW iter \in Iters, NEW mode \in Modes, Start(iter, mode) PROVE Positions'
    BY <1>1, PositionsSame DEF Start, Unsettled
  <1>2. CASE \/ (\E f \in Func : PickFunc(f)) \/ NoCandidate \/ LoopDone \/ Revert \/ Quit
             \/ EmptyTree \/ CountNew
    BY <1>2, PositionsSame
    DEF PickFunc, NoCandidate, LoopDone, Revert, Quit, EmptyTree, CountNew, Segfault, Longjmp,
        Unsettled
  <1>3. CASE Sigint \/ SigintIdle
    <2>1. sigints' = sigints + 1 /\ sigints \in Nat
      BY <1>3, LoopConstants DEF Sigint, SigintIdle, TypeFrame, TypeOK, SignalType
    <2> QED BY <2>1 DEF Positions
  <1>4. ASSUME NEW i, NEW v, PickArg(i, v) PROVE Positions'
    BY <1>4, PositionsSame DEF PickArg, Unsettled
  <1>5. CASE InsertNew
    <2>1. /\ pc = "insert" /\ pc' = "record" /\ newId' = curId /\ curId' = curId + 1
          /\ calls' = calls /\ fate' = fate /\ sigints' = sigints
      BY <1>5 DEF InsertNew
    <2> QED BY <2>1, TraceTypes DEF Positions, Settled
  <1>6. CASE Record
    <2>1. pc = "record" /\ pc' = "run" /\ curId' = curId /\ sigints' = sigints
      BY <1>6 DEF Record
    <2>2. /\ Len(calls') = Len(calls) + 1 /\ DOMAIN calls' = 1 .. Len(calls) + 1
          /\ \A k \in DOMAIN calls : calls'[k] = calls[k] /\ fate'[k] = fate[k]
          /\ calls'[Len(calls) + 1].result = newId
          /\ fate'[Len(calls) + 1] = "recorded"
          /\ DOMAIN calls = 1 .. Len(calls) /\ Len(calls) \in Nat
      BY <1>6, Recording, TraceTypes
    <2> QED BY <2>1, <2>2 DEF Positions, Settled
  <1>7. CASE TargetReturns \/ CheckOk \/ CheckFails
    BY <1>7, PositionsFate DEF TargetReturns, CheckOk, CheckFails, NextIter, Unsettled
  <1>8. CASE TargetCrashes
    BY <1>8, PositionsFate DEF TargetCrashes, Segfault, Longjmp, Unsettled
  <1>9. ASSUME NEW i, CountDestroyed(i) \/ UnlinkDestroyed(i) PROVE Positions'
    BY <1>9, PositionsSame DEF CountDestroyed, UnlinkDestroyed, Unsettled
  <1>10. CASE CountDropped \/ UnlinkDropped
    BY <1>10, PositionsSame DEF CountDropped, UnlinkDropped, NextIter, Unsettled
  <1>11. CASE Halted \/ Redraw \/ UNCHANGED vars
    <2>1. UNCHANGED vars
      BY <1>11, Zenon DEF Halted, Redraw
    <2> QED BY <2>1 DEF Positions, Settled, vars
  <1> QED
    BY <1>1, <1>2, <1>3, <1>4, <1>5, <1>6, <1>7, <1>8, <1>9, <1>10, <1>11, Zenon
    DEF Next, LoopStep, UserStep, RandomCall, Call

-----------------------------------------------------------------------------
(* The abstract log *)

\* The entry of the abstract log for a call.
EntryOf(k) ==
    [func |-> calls[k].func, result |-> calls[k].result,
     args |-> calls[k].args, outcome |-> fate[k]]

\* Without ^C the settled calls are those before the one at hand, and the log is
\* the sequence of their entries.
LEMMA LogShape ==
    ASSUME TypeFrame, Positions, sigints = 0,
           NEW n, n = IF Unsettled THEN Len(calls) - 1 ELSE Len(calls)
    PROVE  /\ n \in Nat /\ SettledLog = [k \in 1 .. n |-> EntryOf(k)]
           /\ SettledLog \in Seq({EntryOf(k) : k \in 1 .. n}) /\ Len(SettledLog) = n
  <1>1. DOMAIN calls = 1 .. Len(calls) /\ Len(calls) \in Nat
    BY TraceTypes
  <1>2. n \in Nat
    <2>1. Unsettled => Len(calls) > 0
      BY DEF Unsettled, TypeFrame, Frame, Recorded
    <2>2. CASE Unsettled
      BY <1>1, <2>1, <2>2
    <2>3. CASE ~Unsettled
      BY <1>1, <2>3
    <2> QED BY <2>2, <2>3
  <1>3. {j \in DOMAIN calls : Settled(j)} = 1 .. n
    <2>1. \A k \in DOMAIN calls : Settled(k) <=> (k # Len(calls) \/ ~Unsettled)
      BY DEF Positions, Unsettled
    <2>2. CASE Unsettled
      BY <1>1, <1>2, <2>1, <2>2
    <2>3. CASE ~Unsettled
      BY <1>1, <2>1, <2>3
    <2> QED BY <2>2, <2>3
  <1>4. SettledLog = [k \in 1 .. n |-> EntryOf(k)]
    BY <1>3, Zenon DEF SettledLog, EntryOf
  <1> DEFINE S == {EntryOf(k) : k \in 1 .. n}
  <1>5. SettledLog \in [1 .. n -> S]
    BY <1>4
  <1> HIDE DEF S
  <1>6. SettledLog \in Seq(S) /\ Len(SettledLog) = n
    BY <1>2, <1>5
  <1> QED
    BY <1>2, <1>4, <1>6 DEF S

\* A step that settles no call leaves the log alone.
LEMMA LogSame ==
    ASSUME TypeFrame, TypeFrame', Positions, Positions', sigints = 0, sigints' = 0,
           \/ UNCHANGED <<calls, fate>>
           \/ Record
           \/ TargetReturns
    PROVE  SettledLog' = SettledLog
  <1>1. PICK n : n = IF Unsettled THEN Len(calls) - 1 ELSE Len(calls)
    OBVIOUS
  <1>2. PICK m : m = IF Unsettled' THEN Len(calls') - 1 ELSE Len(calls')
    OBVIOUS
  <1>3. DOMAIN calls = 1 .. Len(calls) /\ Len(calls) \in Nat
    BY TraceTypes
  <1>4. n \in Nat /\ SettledLog = [k \in 1 .. n |-> EntryOf(k)]
    BY <1>1, LogShape
  <1>5. CASE UNCHANGED <<calls, fate>>
    BY <1>5, Zenon DEF SettledLog, Settled
  <1>6. ASSUME \A k \in 1 .. n : calls'[k] = calls[k] /\ fate'[k] = fate[k],
               {j \in DOMAIN calls' : Settled(j)'} = 1 .. n
        PROVE  SettledLog' = SettledLog
    <2>1. SettledLog' = [k \in 1 .. n |-> [func |-> calls'[k].func, result |-> calls'[k].result,
                                           args |-> calls'[k].args, outcome |-> fate'[k]]]
      BY <1>6, Zenon DEF SettledLog
    <2> QED BY <1>4, <1>6, <2>1 DEF EntryOf
  <1>7. CASE Record
    <2>1. /\ pc = "record" /\ pc' = "run"
          /\ DOMAIN calls' = 1 .. Len(calls) + 1 /\ Len(calls') = Len(calls) + 1
          /\ \A k \in DOMAIN calls : calls'[k] = calls[k] /\ fate'[k] = fate[k]
      BY <1>7, Recording DEF Record
    <2>2. n = Len(calls)
      BY <1>1, <2>1 DEF Unsettled
    <2>3. {j \in DOMAIN calls' : Settled(j)'} = 1 .. n
      BY <1>3, <2>1, <2>2 DEF Positions
    <2> QED BY <1>3, <1>6, <2>1, <2>2, <2>3
  <1>8. CASE TargetReturns
    <2>1. /\ pc = "run" /\ pc' = "destroy" /\ calls' = calls
          /\ \A k \in DOMAIN calls : k # Len(calls) => fate'[k] = fate[k]
      BY <1>8, OnlyLastFate DEF TargetReturns
    <2>2. n = Len(calls) - 1
      BY <1>1, <2>1 DEF Unsettled
    <2>3. {j \in DOMAIN calls' : Settled(j)'} = 1 .. n
      BY <1>3, <1>4, <2>1, <2>2 DEF Positions
    <2> QED BY <1>3, <1>6, <2>1, <2>2, <2>3
  <1> QED
    BY <1>5, <1>7, <1>8

\* A verdict appends the call at hand, whose result is the length of the log.
LEMMA LogGrows ==
    ASSUME TypeFrame, TypeFrame', Positions, Positions', sigints = 0, sigints' = 0,
           Unsettled, ~Unsettled', pc' # "record",
           calls' = calls, NEW x, SetFate(x)
    PROVE  /\ Len(SettledLog) = newId
           /\ SettledLog' = Append(SettledLog, [func |-> func, result |-> newId, args |-> argv,
                                                outcome |-> x])
  <1>1. PICK n : n = Len(calls) - 1
    OBVIOUS
  <1>2. DOMAIN calls = 1 .. Len(calls) /\ Len(calls) \in Nat
    BY TraceTypes
  <1>3. n \in Nat /\ SettledLog = [k \in 1 .. n |-> EntryOf(k)]
         /\ SettledLog \in Seq({EntryOf(k) : k \in 1 .. n}) /\ Len(SettledLog) = n
    BY <1>1, LogShape
  <1>4. /\ Len(calls) = n + 1 /\ DOMAIN calls = 1 .. n + 1
        /\ calls[n + 1].func = func /\ calls[n + 1].args = argv /\ calls[n + 1].result = newId
    BY <1>1, <1>2 DEF Unsettled, TypeFrame, Frame, Recorded, LastCall
  <1>5. newId = n
    BY <1>3, <1>4 DEF Positions
  <1>6. {j \in DOMAIN calls' : Settled(j)'} = 1 .. n + 1
    BY <1>4 DEF Positions, Unsettled
  <1>7. fate'[n + 1] = x /\ \A k \in 1 .. n : fate'[k] = fate[k]
    BY <1>3, <1>4, OnlyLastFate
  <1> DEFINE e == [func |-> func, result |-> newId, args |-> argv, outcome |-> x]
             g == [k \in 1 .. n + 1 |-> [func |-> calls[k].func, result |-> calls[k].result,
                                         args |-> calls[k].args, outcome |-> fate'[k]]]
             S == {EntryOf(k) : k \in 1 .. n} \cup {e}
  <1>8. SettledLog' = g
    BY <1>6, Zenon DEF SettledLog
  <1>9. g[n + 1] = e /\ \A k \in 1 .. n : g[k] = SettledLog[k]
    BY <1>3, <1>4, <1>7 DEF EntryOf
  <1>10. SettledLog \in Seq(S) /\ e \in S
    <2> HIDE DEF e
    <2>1. {EntryOf(k) : k \in 1 .. n} \subseteq S
      OBVIOUS
    <2>2. SettledLog \in [1 .. n -> S]
      BY <1>3
    <2>3. e \in S
      OBVIOUS
    <2> HIDE DEF S
    <2> QED BY <1>3, <2>2, <2>3
  <1>11. /\ Append(SettledLog, e) \in Seq(S) /\ DOMAIN Append(SettledLog, e) = 1 .. n + 1
         /\ Append(SettledLog, e)[n + 1] = e
         /\ \A k \in 1 .. n : Append(SettledLog, e)[k] = SettledLog[k]
    <2> HIDE DEF e, S
    <2>1. DOMAIN SettledLog = 1 .. n
      BY <1>3
    <2> QED BY <1>3, <1>10, <2>1, SeqAppend
  <1>12. DOMAIN g = 1 .. n + 1 /\ g = [k \in 1 .. n + 1 |-> g[k]]
    OBVIOUS
  <1>13. Append(SettledLog, e) = [k \in 1 .. n + 1 |-> Append(SettledLog, e)[k]]
    <2> HIDE DEF e, S
    <2>1. PICK u \in Seq(S) : u = Append(SettledLog, e)
      BY <1>11
    <2>2. u = [k \in 1 .. Len(u) |-> u[k]]
      BY SeqEntries
    <2>3. Len(u) = n + 1
      BY <1>3, <1>10, <2>1, SeqAppend
    <2> QED BY <2>1, <2>2, <2>3
  <1> HIDE DEF e, g, S
  <1>14. \A k \in 1 .. n + 1 : g[k] = Append(SettledLog, e)[k]
    BY <1>3, <1>9, <1>11
  <1>15. g = Append(SettledLog, e)
    BY <1>12, <1>13, <1>14, Zenon
  <1> QED
    BY <1>3, <1>5, <1>8, <1>15 DEF e

-----------------------------------------------------------------------------
(* The abstract pool *)

\* A step that moves no variable into or out of what a call may use.
LEMMA LiveSame ==
    ASSUME \A t \in Type : (tree'[t] \ Pending(t)') \cup Gone(t)' = (tree[t] \ Pending(t)) \cup Gone(t)
    PROVE  LiveVars' = LiveVars
  BY DEF LiveVars

\* Between calls nothing is pending or gone.
LEMMA LiveBetween ==
    ASSUME pc \notin InCall \/ pc \in {"args", "insert"}, NEW t \in Type
    PROVE  Pending(t) = {} /\ Gone(t) = {}
  BY DEF Pending, Gone, InFlight, InCall

\* A new variable is pending, whatever else is in its tree.
LEMMA LiveInsert ==
    ASSUME TypeFrame, Ids, InsertNew
    PROVE  LiveVars' = LiveVars
  <1>1. /\ pc = "insert" /\ pc' = "record" /\ newId' = curId /\ func' = func
        /\ tree' = [tree EXCEPT ![RetType[func]] = @ \cup {curId}]
    BY DEF InsertNew
  <1>2. ASSUME NEW t \in Type
        PROVE  (tree'[t] \ Pending(t)') \cup Gone(t)' = (tree[t] \ Pending(t)) \cup Gone(t)
    <2>1. Pending(t) = {} /\ Gone(t) = {}
      BY <1>1, LiveBetween DEF InCall
    <2>2. Pending(t)' = (IF t = RetType[func] THEN {curId} ELSE {}) /\ Gone(t)' = {}
      BY <1>1 DEF Pending, Gone, InFlight
    <2>3. curId \notin tree[t]
      BY CallTypes DEF Ids, IdsIssuedOnce
    <2>4. tree'[t] = IF t = RetType[func] THEN tree[t] \cup {curId} ELSE tree[t]
      BY <1>1, CallTypes
    <2> QED BY <2>1, <2>2, <2>3, <2>4
  <1> QED
    BY <1>2, LiveSame

\* A DESTROY argument that is unlinked is usable until the verdict is in.
LEMMA LiveUnlink ==
    ASSUME TypeFrame, Alive, ResultLives, NEW i \in doomed, UnlinkDestroyed(i)
    PROVE  LiveVars' = LiveVars
  <1>1. /\ pc = "unlink" /\ pc' = "destroy" /\ newId' = newId /\ func' = func /\ argv' = argv
        /\ tree' = [tree EXCEPT ![TypeOf(func, i)] = @ \ {argv[i]}]
        /\ doomed' = doomed \ {i}
    BY DEF UnlinkDestroyed
  <1>2. /\ i \in DestroySlots(func) /\ i \in Slots(func) /\ argv[i] # newId
        /\ argv[i] \in tree[TypeOf(func, i)]
    BY <1>1, CallTypes DEF Alive, ArgsAlive, ResultLives, Stored
  <1>3. ASSUME NEW t \in Type
        PROVE  (tree'[t] \ Pending(t)') \cup Gone(t)' = (tree[t] \ Pending(t)) \cup Gone(t)
    <2>1. Pending(t)' = Pending(t) /\ argv[i] \notin Pending(t)
      BY <1>1, <1>2 DEF Pending, InFlight
    <2>2. /\ Gone(t) = {argv[j] : j \in {k \in DestroySlots(func) \ doomed : TypeOf(func, k) = t}}
          /\ Gone(t)' = {argv[j] : j \in {k \in DestroySlots(func) \ (doomed \ {i}) : TypeOf(func, k) = t}}
      BY <1>1 DEF Gone
    <2>3. Gone(t)' = IF t = TypeOf(func, i) THEN Gone(t) \cup {argv[i]} ELSE Gone(t)
      BY <1>2, <2>2
    <2>4. tree'[t] = IF t = TypeOf(func, i) THEN tree[t] \ {argv[i]} ELSE tree[t]
      BY <1>1, CallTypes
    <2> QED BY <1>2, <2>1, <2>3, <2>4
  <1> QED
    BY <1>3, LiveSame

\* A rejected result is pending until it is unlinked.
LEMMA LiveDropped ==
    ASSUME TypeFrame, UnlinkDropped
    PROVE  LiveVars' = LiveVars
  <1>1. /\ pc = "dropunlink" /\ pc' = "pick"
        /\ tree' = [tree EXCEPT ![RetType[func]] = @ \ {newId}]
    BY DEF UnlinkDropped, NextIter
  <1>2. ASSUME NEW t \in Type
        PROVE  (tree'[t] \ Pending(t)') \cup Gone(t)' = (tree[t] \ Pending(t)) \cup Gone(t)
    <2>1. Pending(t) = (IF t = RetType[func] THEN {newId} ELSE {}) /\ Gone(t) = {}
      BY <1>1 DEF Pending, Gone
    <2>2. Pending(t)' = {} /\ Gone(t)' = {}
      BY <1>1 DEF Pending, Gone, InFlight
    <2>3. tree'[t] = IF t = RetType[func] THEN tree[t] \ {newId} ELSE tree[t]
      BY <1>1, CallTypes
    <2> QED BY <2>1, <2>2, <2>3
  <1> QED
    BY <1>2, LiveSame

-----------------------------------------------------------------------------
(* The loop implements the log *)

\* The arguments of the call at hand are ones the abstract call may be given.
LEMMA CallIsLegal ==
    ASSUME TypeFrame, Alive, Apart, ArgsStay, ResultLives, pc \in {"run", "destroy"}
    PROVE  Log!Legal(func, argv) /\ argv \in Log!ArgTuples(func)
  <1>1. /\ DOMAIN argv = Slots(func) /\ \A i \in Slots(func) : argv[i] \in Nat /\ argv[i] # Unset
        /\ \A i \in Slots(func) : TypeOf(func, i) \in Type /\ argv[i] # newId
    <2>1. \A i \in Slots(func) : argv[i] # newId
      BY DEF ResultLives, Stored
    <2>2. DOMAIN argv = Slots(func) /\ \A i \in Slots(func) : argv[i] \in Nat /\ TypeOf(func, i) \in Type
      BY CallTypes DEF InCall
    <2> QED BY <2>1, <2>2 DEF Unset
  <1>2. ASSUME NEW i \in Slots(func) PROVE argv[i] \in LiveVars[TypeOf(func, i)]
    <2>1. argv[i] \in tree[TypeOf(func, i)] \cup Gone(TypeOf(func, i))
      BY <1>1 DEF Alive, ArgsAlive, Unfilled, ArgsStay
    <2>2. argv[i] \notin Pending(TypeOf(func, i))
      BY <1>1 DEF Pending
    <2> QED BY <1>1, <2>1, <2>2 DEF LiveVars
  <1>3. \A i \in Slots(func) : \A j \in Reserved(func, i) : argv[i] # argv[j]
    <2>1. ASSUME NEW i \in Slots(func), NEW j \in Reserved(func, i) PROVE j \in Slots(func)
      BY CallTypes, Table DEF Reserved, Slots
    <2> QED BY <1>1, <2>1 DEF Apart, InCall
  <1>4. Log!Legal(func, argv)
    BY <1>1, <1>2, <1>3
    DEF Log!Legal, Log!Slots, Slots, Log!TypeOf, TypeOf, Log!Reserved, Reserved, Log!Unique, Unique
  <1>5. argv \in [Slots(func) -> UNION {LiveVars[t] : t \in Type}]
    <2>1. argv = [i \in Slots(func) |-> argv[i]]
      <3>1. argv \in Seq(Nat \cup {Unset})
        BY DEF TypeFrame, TypeOK, ControlType
      <3> HIDE DEF Unset
      <3>2. argv = [i \in 1 .. Len(argv) |-> argv[i]] /\ DOMAIN argv = 1 .. Len(argv)
        BY <3>1, SeqEntries
      <3> QED BY <1>1, <3>2
    <2>2. \A i \in Slots(func) : argv[i] \in UNION {LiveVars[t] : t \in Type}
      BY <1>1, <1>2
    <2> QED BY <2>1, <2>2
  <1> QED
    BY <1>4, <1>5 DEF Log!ArgTuples, Log!Slots, Slots

\* What an abstract call of func with argv leaves of a type.
AfterCall(t, outcome) ==
    (LiveVars[t] \ (IF outcome = "crash" THEN {}
                    ELSE {argv[i] : i \in {j \in DestroySlots(func) : TypeOf(func, j) = t}}))
        \cup (IF t = RetType[func] /\ outcome # "fail" THEN {newId} ELSE {})

\* A verdict, or the crash of the target, is a call of the abstract log.
LEMMA VerdictIsCall ==
    ASSUME TypeFrame, TypeFrame', Alive, Apart, ArgsStay, ResultLives, Positions, Positions',
           sigints = 0, sigints' = 0, pc \in {"run", "destroy"}, ~Unsettled', pc' # "record",
           calls' = calls, NEW x \in Outcomes[func], SetFate(x),
           \A t \in Type : LiveVars'[t] = AfterCall(t, x)
    PROVE  Log!Next
  <1>1. Log!Legal(func, argv) /\ argv \in Log!ArgTuples(func) /\ func \in Func
    BY CallIsLegal, CallTypes
  <1>2. /\ Len(SettledLog) = newId
        /\ SettledLog' = Append(SettledLog, [func |-> func, result |-> newId, args |-> argv,
                                             outcome |-> x])
    BY LogGrows DEF Unsettled
  <1>3. ASSUME NEW t \in Type PROVE AfterCall(t, x) = Log!Effect(func, argv, x, t)
    BY <1>2 DEF AfterCall, Log!Effect, Log!Destroyed, Log!DestroySlots, DestroySlots, Log!Slots,
                Slots, Log!TypeOf, TypeOf
  <1>4. LiveVars' = [t \in Type |-> Log!Effect(func, argv, x, t)]
    <2>1. LiveVars' = [t \in Type |-> LiveVars'[t]]
      BY DEF LiveVars
    <2>2. \A t \in Type : LiveVars'[t] = Log!Effect(func, argv, x, t)
      BY <1>3
    <2> QED BY <2>1, <2>2, Zenon
  <1>5. Log!Call(func, argv, x)
    BY <1>1, <1>2, <1>4 DEF Log!Call
  <1> QED
    BY <1>1, <1>5 DEF Log!Next

\* The pool after the verdict on a call whose DESTROY arguments are unlinked.
LEMMA LiveVerdict ==
    ASSUME TypeFrame, Destruction, ResultLives, pc = "destroy", doomed = {}, NEW t \in Type
    PROVE  /\ AfterCall(t, "ok") = tree[t]
           /\ AfterCall(t, "fail") = tree[t] \ (IF t = RetType[func] THEN {newId} ELSE {})
  <1> DEFINE D == {argv[i] : i \in {j \in DestroySlots(func) : TypeOf(func, j) = t}}
             P == IF t = RetType[func] THEN {newId} ELSE {}
  <1>1. LiveVars[t] = (tree[t] \ P) \cup D
    BY DEF LiveVars, Pending, Gone, InFlight
  <1>2. D \cap tree[t] = {}
    BY DEF Destruction, DestroyedSoFar
  <1>3. P \subseteq tree[t]
    BY DEF ResultLives, Stored
  <1>4. AfterCall(t, "ok") = (LiveVars[t] \ D) \cup P
    BY DEF AfterCall
  <1>5. AfterCall(t, "fail") = LiveVars[t] \ D
    BY DEF AfterCall
  <1> HIDE DEF D
  <1> QED
    BY <1>1, <1>2, <1>3, <1>4, <1>5

\* What the simulation needs of a state; Positions says nothing after a ^C.
LogInv == PoolInv /\ SelectionSucceeds /\ Apart /\ ArgsStay /\ Positions

\* It holds at the start and no step breaks it.
LEMMA LogAlways == Spec => []LogInv
  <1>1. Init => Apart /\ ArgsStay /\ Positions
    BY DEF Init, Apart, ArgsStay, Positions, InCall
  <1>2. PoolInv => TypeFrame /\ Alive
    BY Zenon DEF PoolInv
  <1>3. LogInv <=> PoolInv /\ SelectionSucceeds /\ Apart /\ ArgsStay /\ Positions
    BY Zenon DEF LogInv
  <1>4. Spec => []SelectionSucceeds
    BY SelectionAlwaysSucceeds
  <1>5. PoolInv /\ Apart /\ ArgsStay /\ Positions /\ [Next]_vars => Apart' /\ ArgsStay' /\ Positions'
    BY <1>2, ApartStep, ArgsStayStep, PositionsStep, Zenon
  <1> QED
    BY <1>1, <1>3, <1>4, <1>5, PoolAlways, PTL DEF Spec

\* A fresh context has an empty log and no variables.
LEMMA LogInit == Init => Log!Init
  <1> SUFFICES ASSUME Init PROVE Log!Init
    BY Zenon
  <1>1. ASSUME NEW t \in Type PROVE LiveVars[t] = {}
    BY <1>1 DEF Init, LiveVars, Pending, Gone, InFlight
  <1>2. LiveVars = [t \in Type |-> {}]
    BY <1>1 DEF LiveVars
  <1>3. SettledLog = <<>>
    <2>1. {j \in DOMAIN calls : Settled(j)} = {}
      BY DEF Init
    <2> QED BY <2>1 DEF SettledLog
  <1> QED
    BY <1>2, <1>3 DEF Log!Init

\* Without ^C every step is a step of the log or changes nothing it shows.
LEMMA LogStep ==
    ASSUME LogInv, LogInv', sigints = 0, sigints' = 0, [Next]_vars
    PROVE  Log!Next \/ UNCHANGED <<LiveVars, SettledLog>>
  <1> USE DEF poolVars, traceVars, loopVars, frameVars, sigVars
  <1>0. /\ TypeFrame /\ Alive /\ Ids /\ Destruction /\ ResultLives
        /\ SelectionSucceeds /\ Apart /\ ArgsStay /\ Positions
        /\ TypeFrame' /\ Positions'
    BY Zenon DEF LogInv, PoolInv
  <1>1. ASSUME UNCHANGED <<tree, calls, fate>>,
               pc \notin InCall \/ pc \in {"args", "insert"},
               pc' \notin InCall \/ pc' \in {"args", "insert"}
        PROVE  UNCHANGED <<LiveVars, SettledLog>>
    <2>1. ASSUME NEW t \in Type
          PROVE  (tree'[t] \ Pending(t)') \cup Gone(t)' = (tree[t] \ Pending(t)) \cup Gone(t)
      <3>1. Pending(t) = {} /\ Gone(t) = {}
        BY <1>1, LiveBetween
      <3>2. Pending(t)' = {} /\ Gone(t)' = {}
        BY <1>1 DEF Pending, Gone, InFlight, InCall
      <3> QED BY <1>1, <3>1, <3>2
    <2> QED BY <1>0, <1>1, <2>1, LiveSame, LogSame
  <1>2. ASSUME NEW iter \in Iters, NEW mode \in Modes, Start(iter, mode)
        PROVE  UNCHANGED <<LiveVars, SettledLog>>
    BY <1>1, <1>2 DEF Start, InCall
  <1>3. CASE \/ (\E f \in Func : PickFunc(f)) \/ NoCandidate \/ LoopDone \/ Revert \/ Quit \/ CountNew
    BY <1>1, <1>3 DEF PickFunc, NoCandidate, LoopDone, Revert, Quit, CountNew, InCall
  <1>4. ASSUME NEW i, NEW v, PickArg(i, v) PROVE UNCHANGED <<LiveVars, SettledLog>>
    BY <1>1, <1>4 DEF PickArg
  <1>5. CASE Sigint \/ SigintIdle
    BY <1>5 DEF Sigint, SigintIdle
  <1>6. CASE EmptyTree
    BY <1>0, <1>6 DEF EmptyTree, SelectionSucceeds
  <1>7. CASE InsertNew
    <2>1. UNCHANGED <<calls, fate>>
      BY <1>7 DEF InsertNew
    <2> QED BY <1>0, <1>7, <2>1, LiveInsert, LogSame
  <1>8. CASE Record
    <2>1. \A t \in Type : Pending(t)' = Pending(t) /\ Gone(t)' = {} /\ Gone(t) = {}
      BY <1>8 DEF Record, Pending, Gone, InFlight
    <2>2. tree' = tree
      BY <1>8 DEF Record
    <2> QED BY <1>0, <1>8, <2>1, <2>2, LiveSame, LogSame
  <1>9. CASE TargetReturns
    <2>1. \A t \in Type : Pending(t)' = Pending(t) /\ Gone(t)' = {} /\ Gone(t) = {}
      BY <1>9 DEF TargetReturns, Pending, Gone, InFlight
    <2>2. tree' = tree
      BY <1>9 DEF TargetReturns
    <2> QED BY <1>0, <1>9, <2>1, <2>2, LiveSame, LogSame
  <1>10. ASSUME NEW i \in doomed, CountDestroyed(i) PROVE UNCHANGED <<LiveVars, SettledLog>>
    <2>1. \A t \in Type : Pending(t)' = Pending(t) /\ Gone(t)' = Gone(t)
      BY <1>10 DEF CountDestroyed, Pending, Gone, InFlight
    <2>2. UNCHANGED <<tree, calls, fate>>
      BY <1>10 DEF CountDestroyed
    <2> QED BY <1>0, <2>1, <2>2, LiveSame, LogSame
  <1>11. ASSUME NEW i \in doomed, UnlinkDestroyed(i) PROVE UNCHANGED <<LiveVars, SettledLog>>
    <2>1. UNCHANGED <<calls, fate>>
      BY <1>11 DEF UnlinkDestroyed
    <2> QED BY <1>0, <1>11, <2>1, LiveUnlink, LogSame
  <1>12. CASE CountDropped
    <2>1. \A t \in Type : Pending(t)' = Pending(t) /\ Gone(t)' = Gone(t)
      BY <1>12 DEF CountDropped, Pending, Gone, InFlight
    <2>2. UNCHANGED <<tree, calls, fate>>
      BY <1>12 DEF CountDropped
    <2> QED BY <1>0, <2>1, <2>2, LiveSame, LogSame
  <1>13. CASE UnlinkDropped
    <2>1. UNCHANGED <<calls, fate>>
      BY <1>13 DEF UnlinkDropped
    <2> QED BY <1>0, <1>13, <2>1, LiveDropped, LogSame
  <1>14. CASE CheckOk
    <2>1. /\ pc = "destroy" /\ pc' = "pick" /\ doomed = {} /\ "ok" \in Outcomes[func]
          /\ SetFate("ok") /\ tree' = tree /\ calls' = calls
      BY <1>14 DEF CheckOk, NextIter
    <2>2. ASSUME NEW t \in Type PROVE LiveVars'[t] = AfterCall(t, "ok")
      BY <1>0, <2>1, LiveVerdict DEF LiveVars, Pending, Gone, InFlight
    <2> QED BY <1>0, <2>1, <2>2, VerdictIsCall DEF Unsettled
  <1>15. CASE CheckFails
    <2>1. /\ pc = "destroy" /\ pc' = "dropcount" /\ doomed = {} /\ "fail" \in Outcomes[func]
          /\ SetFate("fail") /\ tree' = tree /\ calls' = calls /\ newId' = newId /\ func' = func
      BY <1>15 DEF CheckFails
    <2>2. ASSUME NEW t \in Type PROVE LiveVars'[t] = AfterCall(t, "fail")
      BY <1>0, <2>1, LiveVerdict DEF LiveVars, Pending, Gone, InFlight
    <2> QED BY <1>0, <2>1, <2>2, VerdictIsCall DEF Unsettled
  <1>16. CASE TargetCrashes
    <2>1. /\ pc = "run" /\ pc' \in {"out", "panic"} /\ "crash" \in Outcomes[func]
          /\ SetFate("crash") /\ tree' = tree /\ calls' = calls
      BY <1>16 DEF TargetCrashes, Segfault, Longjmp
    <2>2. ASSUME NEW t \in Type PROVE LiveVars'[t] = AfterCall(t, "crash")
      <3>1. newId \in tree[RetType[func]]
        BY <1>0, <2>1 DEF ResultLives, Stored
      <3> QED BY <2>1, <3>1 DEF AfterCall, LiveVars, Pending, Gone, InFlight
    <2> QED BY <1>0, <2>1, <2>2, VerdictIsCall DEF Unsettled
  <1>17. CASE Halted \/ Redraw \/ UNCHANGED vars
    <2>1. UNCHANGED vars
      BY <1>17, Zenon DEF Halted, Redraw
    <2>2. \A t \in Type : Pending(t)' = Pending(t) /\ Gone(t)' = Gone(t)
      BY <2>1 DEF vars, Pending, Gone, InFlight
    <2>3. UNCHANGED <<tree, calls, fate>>
      BY <2>1 DEF vars
    <2> QED BY <1>0, <2>2, <2>3, LiveSame, LogSame
  <1> QED
    BY <1>2, <1>3, <1>4, <1>5, <1>6, <1>7, <1>8, <1>9, <1>10, <1>11, <1>12, <1>13, <1>14,
       <1>15, <1>16, <1>17, Zenon
    DEF Next, LoopStep, UserStep, RandomCall, Call

\* The loop, left alone by the user, implements the log of calls: identifiers
\* are positions, a call is made at once on variables that exist, and the pool
\* is the one the log explains (minerva_call.c, minerva_var.c,
\* minerva_trace.c:41-54).
THEOREM LoopImplementsLog == Spec /\ [](sigints = 0) => ImplementsCallLog
  <1>1. LogInv /\ LogInv' /\ sigints = 0 /\ (sigints = 0)' /\ [Next]_vars
            => [Log!Next]_<<LiveVars, SettledLog>>
    BY LogStep, Zenon
  <1> QED
    BY <1>1, LogInit, LogAlways, PTL DEF Spec, ImplementsCallLog, Log!Spec
=============================================================================
