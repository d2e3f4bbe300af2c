------------------------------- MODULE RBTree -------------------------------
(***************************************************************************)
(* The red-black trees of include/tree.h, as the pool of variables uses    *)
(* them (RB_GENERATE in core/minerva_var.c).  A heap holds the root and    *)
(* the four fields of each element.  What the macros write is given as a   *)
(* sequence of stores, in the order the macros make them, so that a caller *)
(* can make all of them or, interrupted, only the first few.               *)
(*                                                                         *)
(* The macros have each piece of code twice, once with left and right      *)
(* exchanged; here it is there once, with the side as a parameter.         *)
(***************************************************************************)
EXTENDS Integers, Sequences, FiniteSets, SequencesExt

CONSTANT Ids   \* the identifiers variables may have

ASSUME IdsAssumption == Ids \subseteq Nat /\ IsFiniteSet(Ids)

\* An element is named by its key and a number that tells it from another
\* element with the same key.
Node == Ids \X {1, 2}
Null == <<>>
Key(n) == n[1]

Side == {"left", "right"}
Other == [left |-> "right", right |-> "left"]

Pointer == Node \cup {Null}
Heap == [root : Pointer, left : [Node -> Pointer], right : [Node -> Pointer],
         parent : [Node -> Pointer], color : [Node -> {"red", "black"}]]

\* RB_INIT, and the fields of elements that xcalloc has cleared
EmptyHeap ==
    LET nowhere == [n \in Node |-> Null]
    IN  [root |-> Null, left |-> nowhere, right |-> nowhere, parent |-> nowhere,
         color |-> [n \in Node |-> "black"]]

-----------------------------------------------------------------------------
(* Stores *)

Put(h, store) ==
    IF store[1] = "root" THEN [h EXCEPT !.root = store[3]]
                         ELSE [h EXCEPT ![store[1]][store[2]] = store[3]]

Apply(h, stores) ==
    LET made[i \in 0 .. Len(stores)] == IF i = 0 THEN h ELSE Put(made[i - 1], stores[i])
    IN  made[Len(stores)]

\* A store behind a test of the pointer it goes through
PutIf(field, n, x) == IF n = Null THEN <<>> ELSE <<<<field, n, x>>>>

\* Where p has old as a child, it gets new; without p, the root is new.
Relink(h, p, old, new) ==
    IF p = Null THEN <<<<"root", Null, new>>>>
    ELSE <<<<IF h.left[p] = old THEN "left" ELSE "right", p, new>>>>

BlackRed(b, r) == <<<<"color", b, "black">>, <<"color", r, "red">>>>

\* Mutant of Rotate: the two elements point to each other for a while.
RotateChildFirst(h, s, e) ==
    LET o == Other[s]
        t == h[o][e]
    IN  <<<<s, t, e>>, <<o, e, h[s][t]>>>> \o PutIf("parent", h[s][t], e)
        \o <<<<"parent", t, h.parent[e]>>>>
        \o Relink(h, h.parent[e], e, t)
        \o <<<<"parent", e, t>>>>

\* RB_ROTATE_LEFT and RB_ROTATE_RIGHT: e goes down to side s, its child on the
\* other side comes up.
Rotate(h, s, e) ==
    LET o == Other[s]
        t == h[o][e]
    IN  <<<<o, e, h[s][t]>>>> \o PutIf("parent", h[s][t], e)
        \o <<<<"parent", t, h.parent[e]>>>>
        \o Relink(h, h.parent[e], e, t)
        \o <<<<s, t, e>>, <<"parent", e, t>>>>

-----------------------------------------------------------------------------
(* Walks *)

\* f over and over, from x on.  A loop that goes through a tree is over, which
\* means that f changes nothing any more, after as many rounds as there are
\* elements.
Iterate(f, x) ==
    LET after[i \in 0 .. Cardinality(Node)] == IF i = 0 THEN x ELSE f[after[i - 1]]
    IN  after[Cardinality(Node)]

SideOf(k, n) == IF k < Key(n) THEN "left" ELSE "right"

\* RB_FIND and the descent of RB_INSERT: the element with key k, or the one it
\* would hang under.
Down(h, k) ==
    [n \in Node |-> LET c == h[SideOf(k, n)][n]
                    IN  IF Key(n) = k \/ c = Null THEN n ELSE c]

Descend(h, k) == IF h.root = Null THEN Null ELSE Iterate(Down(h, k), h.root)

Find(h, k) ==
    LET n == Descend(h, k) IN IF n # Null /\ Key(n) = k THEN n ELSE Null

\* RB_NFIND: the first element whose key is k or more.  The second of the pair
\* is the best one so far.
DownBest(h, k) ==
    [at \in Pointer \X Pointer |->
        LET n == at[1] IN
        IF n = Null \/ Key(n) = k THEN at
        ELSE IF Key(n) > k THEN <<h.left[n], n>> ELSE <<h.right[n], at[2]>>]

NFind(h, k) ==
    LET at == Iterate(DownBest(h, k), <<h.root, Null>>)
    IN  IF at[1] # Null THEN at[1] ELSE at[2]

\* The element at the end of side s below n
Further(h, s) == [m \in Node |-> IF h[s][m] = Null THEN m ELSE h[s][m]]

Far(h, s, n) == Iterate(Further(h, s), n)

\* RB_MIN and RB_MAX
MinMax(h, s) == IF h.root = Null THEN Null ELSE Far(h, s, h.root)

\* Mutant of Step: going up stops at the first parent.
StepOneUp(h, s, n) == IF h[s][n] # Null THEN Far(h, Other[s], h[s][n]) ELSE h.parent[n]

\* Up, as long as it is from side s
Up(h, s) ==
    [m \in Node |->
        IF h.parent[m] # Null /\ m = h[s][h.parent[m]] THEN h.parent[m] ELSE m]

\* RB_NEXT (s is right) and RB_PREV (s is left)
Step(h, s, n) ==
    IF h[s][n] # Null THEN Far(h, Other[s], h[s][n]) ELSE h.parent[Iterate(Up(h, s), n)]

\* RB_FOREACH (s is right) and RB_FOREACH_REVERSE (s is left): the elements that
\* are visited, at most as many as there are.
Walk(h, s) ==
    LET visit[i \in 1 .. Cardinality(Node)] ==
            IF i = 1 THEN MinMax(h, Other[s])
            ELSE IF visit[i - 1] = Null THEN Null ELSE Step(h, s, visit[i - 1])
    IN  [i \in 1 .. Cardinality({j \in 1 .. Cardinality(Node) : visit[j] # Null}) |-> visit[i]]

-----------------------------------------------------------------------------
(* RB_INSERT *)

\* RB_SET, and the link from the parent
Link(h, n) ==
    LET p == Descend(h, Key(n))
    IN  <<<<"parent", n, p>>, <<"right", n, Null>>, <<"left", n, Null>>,
          <<"color", n, "red">>>>
        \o IF p = Null THEN <<<<"root", Null, n>>>> ELSE <<<<SideOf(Key(n), p), p, n>>>>

Red(h, n) == n # Null /\ h.color[n] = "red"

ChildSide(h, p, n) == IF h.left[p] = n THEN "left" ELSE "right"

\* One round of the loop in RB_INSERT_COLOR, and the element the next round
\* looks at.  The inner child's rotation is a round of its own: the test at the
\* head of the loop finds the same elements the code goes on with.
InsertColor(h, e) ==
    LET p == h.parent[e]
        g == h.parent[p]
        s == ChildSide(h, g, p)
        uncle == h[Other[s]][g]
    IN  IF Red(h, uncle)
        THEN [stores |-> <<<<"color", uncle, "black">>>> \o BlackRed(p, g), next |-> g]
        ELSE IF h[Other[s]][p] = e
        THEN [stores |-> Rotate(h, s, p), next |-> p]
        ELSE [stores |-> BlackRed(p, g) \o Rotate(h, Other[s], g), next |-> e]

\* It follows a pointer that is NULL: the parent is red and has no parent, or is
\* not the child its parent has on that side.
InsertFaults(h, e) ==
    LET p == h.parent[e]
        g == h.parent[p]
    IN  g = Null \/ (p # h.left[g] /\ h.right[g] = Null)

-----------------------------------------------------------------------------
(* RB_REMOVE *)

\* Mutant of Spliced: the right child, whether or not it has a left one.
SplicedChild(h, old) ==
    IF h.left[old] # Null /\ h.right[old] # Null THEN h.right[old] ELSE old

\* The element whose place in the tree is given up: old itself, or the next
\* one when old has two children.
Spliced(h, old) ==
    IF h.left[old] # Null /\ h.right[old] # Null
    THEN Far(h, "left", h.right[old]) ELSE old

OnlyChild(h, n) == IF h.left[n] = Null THEN h.right[n] ELSE h.left[n]

\* n's only child takes its place.
Unlink(h, n) ==
    LET c == OnlyChild(h, n)
    IN  PutIf("parent", c, h.parent[n]) \o Relink(h, h.parent[n], n, c)

Fields == <<"left", "right", "parent", "color">>

Fill(h, old, n) == [i \in 1 .. 4 |-> <<Fields[i], n, h[Fields[i]][old]>>]

\* n gets old's fields and old's place.
Replace(h, old, n) ==
    Fill(h, old, n) \o Relink(h, h.parent[old], old, n)
    \o <<<<"parent", h.left[old], n>>>> \o PutIf("parent", h.right[old], n)

TakeOut(h, old) ==
    LET n == Spliced(h, old)
        stores == Unlink(h, n)
    IN  IF n = old THEN stores ELSE stores \o Replace(Apply(h, stores), old, n)

\* RB_REMOVE_COLOR, where p's side s is one black element short.  A red sibling
\* comes up first.
RedSibling(h, p, s) ==
    LET t == h[Other[s]][p] IN BlackRed(t, p) \o Rotate(h, s, p)

\* With a red nephew on the near side only, it comes up.
NearNephew(h, p, s) ==
    LET t == h[Other[s]][p]
    IN  PutIf("color", h[s][t], "black") \o <<<<"color", t, "red">>>>
        \o Rotate(h, Other[s], t)

\* Mutant of FarNephew: the sibling does not get the parent's color.
FarNephewKeepsColor(h, p, s) ==
    LET t == h[Other[s]][p]
    IN  <<<<"color", p, "black">>>>
        \o PutIf("color", h[Other[s]][t], "black") \o Rotate(h, s, p)

\* With a red nephew on the far side, the sibling takes the parent's place.
FarNephew(h, p, s) ==
    LET t == h[Other[s]][p]
    IN  <<<<"color", t, h.color[p]>>, <<"color", p, "black">>>>
        \o PutIf("color", h[Other[s]][t], "black") \o Rotate(h, s, p)

\* A round whose sibling is black, and what the loop goes on with: the parent;
\* the nephew that has come up; or the root, which ends it.
RemoveColor(h, p, e) ==
    LET s == ChildSide(h, p, e)
        t == h[Other[s]][p]
        farRed == Red(h, h[Other[s]][t])
    IN  IF ~farRed /\ ~Red(h, h[s][t])
        THEN [stores |-> <<<<"color", t, "red">>>>, elm |-> p, par |-> h.parent[p],
              pc |-> "balance", last |-> FALSE]
        ELSE IF ~farRed
        THEN [stores |-> NearNephew(h, p, s), elm |-> e, par |-> p,
              pc |-> "nephews", last |-> FALSE]
        ELSE [stores |-> FarNephew(h, p, s), elm |-> e, par |-> p,
              pc |-> "balance", last |-> TRUE]

-----------------------------------------------------------------------------
(* What a red-black tree is *)

\* The children of the elements of a set, and these
Grown(h) ==
    [S \in SUBSET Node |-> S \cup ({h[s][m] : s \in Side, m \in S} \ {Null})]

\* The elements below n and n itself
Below(h, n) == Iterate(Grown(h), {n} \ {Null})

Reach(h) == Below(h, h.root)

IsSearchTree(h) ==
    \A n \in Reach(h) :
        /\ \A m \in Below(h, h.left[n]) : Key(m) < Key(n)
        /\ \A m \in Below(h, h.right[n]) : Key(m) > Key(n)

ParentsRight(h) ==
    /\ h.root # Null => h.parent[h.root] = Null
    /\ \A n \in Reach(h) : \A s \in Side : h[s][n] # Null => h.parent[h[s][n]] = n

\* The black elements on the way from the root to n
BlackDepth(h, n) == Cardinality({m \in Reach(h) : h.color[m] = "black" /\ n \in Below(h, m)})

IsBalanced(h) ==
    LET open == {n \in Reach(h) : h.left[n] = Null \/ h.right[n] = Null} IN
    /\ ~Red(h, h.root)
    /\ \A n \in Reach(h) : Red(h, n) => ~Red(h, h.parent[n])
    /\ \A m, n \in open : BlackDepth(h, m) = BlackDepth(h, n)

IsRedBlack(h) == IsSearchTree(h) /\ ParentsRight(h) /\ IsBalanced(h)
=============================================================================
