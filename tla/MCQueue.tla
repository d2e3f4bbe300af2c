------------------------------ MODULE MCQueue -------------------------------
(* Two workers of different systems and two compare workers.  Two results of  *)
(* the toy target have the same seed; the library's only task is the last to  *)
(* be handed out, so that it may be compared before it has a result.          *)
EXTENDS TaskQueue

T(target, system, seed) == [target |-> target, system |-> system, seed |-> seed]

MCTasks ==
    <<T("toy", "freebsd", 1), T("toy", "linux", 1), T("toy", "linux", 2),
      T("lib", "linux", 1)>>
MCWorker == {"l", "f"}
MCComparer == {"c", "d"}
MCSystemOf == [w \in MCWorker |-> IF w = "l" THEN "linux" ELSE "freebsd"]
=============================================================================
