----------------------------- MODULE MCMiCompile -----------------------------
(* Projects of up to four files, and projects of one file with three functions. *)
EXTENDS MiCompile

Mi(name, local) == [kind |-> "miinclude", name |-> name, local |-> local]
Hdr(name) == [kind |-> "include", name |-> name]
Fn(name, ret, args) == [kind |-> "function", name |-> name, ret |-> ret, args |-> args]
Comment == [kind |-> "comment"]

t == <<"t">>
u == <<"u", "*">>
constT == <<"const", "t">>

MCPath == <<"cwd", "lib">>

\* main includes a and b; a is in the current directory or the library or both,
\* b in the library; they may be missing, empty, or include each other.
MainTexts ==
    {<<Hdr("main"), Fn("use", u, <<t>>)>> \o incs \o <<Comment>> :
        incs \in BoundedSeq({Mi("a", FALSE), Mi("a", TRUE), Mi("b", FALSE)}, 2)}
ATexts ==
    {<<Hdr("a"), Fn("new", t, <<>>)>>, <<Mi("b", FALSE), Fn("new", t, <<>>), Hdr("a")>>,
     <<Comment, Mi("main", TRUE)>>, <<>>}
LibTexts == {<<Hdr("a1"), Fn("get", u, <<t, u>>), Hdr("a2")>>, <<Comment>>}
BTexts ==
    {<<Hdr("b"), Fn("put", t, <<u>>)>>, <<Hdr("b"), Mi("a", FALSE)>>, <<Mi("b", FALSE)>>}

File == [main |-> <<"cwd", "main">>, a |-> <<"cwd", "a">>, lib |-> <<"lib", "a">>,
         b |-> <<"lib", "b">>]

Including ==
    UNION {{[f \in {File[k] : k \in {"main"} \cup present} |->
                CASE f = File["main"] -> m [] f = File["a"] -> a
                  [] f = File["lib"] -> l  [] f = File["b"] -> b] :
                    m \in MainTexts, a \in ATexts, l \in LibTexts, b \in BTexts} :
              present \in SUBSET {"a", "lib", "b"}}

\* One file with three functions on two types, one of them also const; two may
\* have the same name
OneFile ==
    {[f \in {File["main"]} |-> <<Fn("f", r1, a1), Fn("g", r2, a2), Fn(n, r3, a3)>>] :
        n \in {"f", "h"}, r1, r2, r3 \in {t, u}, a1, a2, a3 \in {<<>>, <<t>>, <<u>>, <<constT>>, <<t, u>>}}

MCProjects == Including \cup OneFile
=============================================================================
