------------------------------ MODULE Sharing -------------------------------
(***************************************************************************)
(* What the shell's names promise their user, without values, nodes and    *)
(* reference counts: names for contexts that they may share, a context     *)
(* that exists exactly as long as a name or a result at hand leads to it,  *)
(* and traces that only ever get longer.                                   *)
(***************************************************************************)
EXTENDS Naturals, SequencesExt

VARIABLES
    env,       \* env[n]: the context the name n stands for
    pending,   \* the result that has no name yet, if there is one
    made,      \* how many contexts were made
    log        \* log[c]: the results in the trace of c, for the contexts that exist

vars == <<env, pending, made, log>>

Nothing == [x \in {} |-> x]

Init == env = Nothing /\ pending = {} /\ made = 0 /\ log = Nothing

\* The contexts that a name or a result leads to; the others go.
Leads == {env[n] : n \in DOMAIN env} \cup pending
Collect == log' = [c \in DOMAIN log \cap Leads' |-> log[c]]

\* The calls of one context have become more.
Extended(c) ==
    /\ DOMAIN log' = DOMAIN log
    /\ log' = [log EXCEPT ![c] = log'[c]]
    /\ IsPrefix(log[c], log'[c])

\* A command with a context of its own as the result, which has any trace
Make ==
    /\ pending = {} /\ pending' = {made + 1} /\ made' = made + 1
    /\ DOMAIN log' = DOMAIN log \cup {made'}
    /\ \A c \in DOMAIN log : log'[c] = log[c]
    /\ UNCHANGED env

\* A command that goes on with the context of a name, and has it as the result
Share(n) ==
    /\ pending = {} /\ pending' = {env[n]}
    /\ Extended(env[n])
    /\ UNCHANGED <<env, made>>

\* A command that goes on with it and has no result
Extend(n) ==
    /\ pending = {} /\ Extended(env[n])
    /\ UNCHANGED <<env, pending, made>>

\* The result gets a name.
Bind(n) ==
    /\ \E c \in pending :
          env' = [m \in DOMAIN env \cup {n} |-> IF m = n THEN c ELSE env[m]]
    /\ pending' = {} /\ Collect
    /\ UNCHANGED made

Drop(n) ==
    /\ env' = [m \in DOMAIN env \ {n} |-> env[m]]
    /\ Collect
    /\ UNCHANGED <<pending, made>>

Next ==
    \/ Make
    \/ \E n \in DOMAIN env : Share(n) \/ Extend(n) \/ Drop(n)
    \/ \E n \in DOMAIN env' : Bind(n)

Spec == Init /\ [][Next]_vars
=============================================================================
