------------------------------- MODULE MCRepl -------------------------------
(* A session with two names: for each command the lines that its types allow *)
(* and one that they do not.                                                 *)
EXTENDS Repl

MCName == {"x", "_"}

ArgLists ==
    [fuzz |-> {<<"num">>, <<"num", "x">>, <<"num", "_">>, <<"x">>},
     var_mut |-> {<<"num", "x">>, <<"num", "_">>, <<"num">>},
     min |-> {<<"x">>, <<"_">>, <<"x", "num">>, <<"x", "x">>},
     restore |-> {<<"str">>, <<"x">>},
     save |-> {<<"x", "str">>, <<"_", "str">>, <<"x">>, <<"str", "x">>},
     play |-> {<<"x">>, <<"_">>, <<>>},
     func_stat |-> {<<"x">>},
     var_stat |-> {<<"x">>, <<"num">>},
     str |-> {<<"x", "num">>},
     verbose |-> {<<"num">>},
     help |-> {<<>>}]

MCTyped ==
    UNION {{[var |-> v, cmd |-> c, args |-> a] :
                v \in IF c \in {"fuzz", "min", "restore"} THEN {"", "x"} ELSE {""},
                a \in ArgLists[c]} : c \in DOMAIN Kinds}
=============================================================================
