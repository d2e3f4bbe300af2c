---------------------------- MODULE RBTree_proofs ----------------------------
(***************************************************************************)
(* What the macros of include/tree.h do to a tree, proved for every finite *)
(* set of identifiers: that each prefix of the stores of a rotation, of a  *)
(* link, of an unlink leaves a search tree; that the rounds that recolor   *)
(* restore the colors; that the searches and the walk find what is there.  *)
(***************************************************************************)
EXTENDS RBTree, SeqLemmas

-----------------------------------------------------------------------------
(* Rounds, and loops that end *)

\* There are finitely many elements, and their keys are numbers.
LEMMA NodeFacts ==
    /\ Null \notin Node /\ IsFiniteSet(Node) /\ Cardinality(Node) \in Nat
    /\ \A n \in Node : Key(n) \in Ids /\ Key(n) \in Nat
  <1>1. Null \notin Node
    BY DEF Node, Null
  <1>2. IsFiniteSet({1, 2})
    <2>1. IsFiniteSet({1}) /\ {1, 2} = {1} \cup {2} /\ IsFiniteSet({2})
      BY FS_Singleton
    <2> QED BY <2>1, FS_Union
  <1>3. IsFiniteSet(Node)
    BY <1>2, IdsAssumption, FS_Product DEF Node
  <1>4. Cardinality(Node) \in Nat
    BY <1>3, FS_CardinalityType
  <1>5. \A n \in Node : Key(n) \in Ids /\ Key(n) \in Nat
    BY IdsAssumption DEF Node, Key
  <1> QED
    BY <1>1, <1>3, <1>4, <1>5

\* The rounds of Iterate
LEMMA Rounds ==
    ASSUME NEW X, NEW f \in [X -> X], NEW x \in X
    PROVE  \E a \in [0 .. Cardinality(Node) -> X] :
              /\ a[0] = x /\ Iterate(f, x) = a[Cardinality(Node)]
              /\ \A i \in 1 .. Cardinality(Node) : a[i] = f[a[i - 1]]
  <1> DEFINE N == Cardinality(Node)
             Good(n, a) == a[0] = x /\ \A i \in 1 .. n : a[i] = f[a[i - 1]]
             S == {n \in Nat : \E a \in [0 .. n -> X] : Good(n, a)}
             after[i \in 0 .. N] == IF i = 0 THEN x ELSE f[after[i - 1]]
  <1>1. N \in Nat
    BY NodeFacts
  <1> HIDE DEF N
  <1>2. 0 \in S
    <2> DEFINE a == [i \in 0 .. 0 |-> x]
    <2>1. a \in [0 .. 0 -> X] /\ Good(0, a)
      OBVIOUS
    <2> QED BY <2>1
  <1>3. ASSUME NEW n \in 0 .. N - 1, n \in S PROVE n + 1 \in S
    <2>1. PICK a \in [0 .. n -> X] : Good(n, a)
      BY <1>3
    <2> DEFINE b == [i \in 0 .. n + 1 |-> IF i <= n THEN a[i] ELSE f[a[n]]]
    <2>2. b \in [0 .. n + 1 -> X]
      BY <2>1, <1>1
    <2>3. Good(n + 1, b)
      BY <2>1, <1>1
    <2> QED BY <2>2, <2>3, <1>1
  <1>4. N \in S
    <2>1. 0 .. N \subseteq S
      BY <1>1, <1>2, <1>3, UpTo, Zenon
    <2> QED BY <2>1, <1>1
  <1>5. PICK a \in [0 .. N -> X] : Good(N, a)
    BY <1>4
  <1>6. a = [i \in 0 .. N |-> IF i = 0 THEN x ELSE f[a[i - 1]]]
    BY <1>5, <1>1
  <1>7. after = [i \in 0 .. N |-> IF i = 0 THEN x ELSE f[after[i - 1]]]
    BY <1>6, Zenon
  <1> HIDE DEF after
  <1>8. \A i \in 0 .. N : after[i] = a[i]
    <2> DEFINE E == {i \in 0 .. N : after[i] = a[i]}
    <2>1. 0 \in E
      BY <1>5, <1>7, <1>1
    <2>2. \A i \in 0 .. N - 1 : i \in E => i + 1 \in E
      BY <1>5, <1>7, <1>1
    <2>3. 0 .. N \subseteq E
      BY <1>1, <2>1, <2>2, UpTo, Zenon
    <2> QED BY <2>3
  <1>9. Iterate(f, x) = after[N]
    BY Zenon DEF Iterate, after, N
  <1>10. Iterate(f, x) = a[N]
    BY <1>8, <1>9, <1>1
  <1> QED
    BY <1>5, <1>10, Zenon DEF N

\* What f keeps holds of the last round.
LEMMA IterateIn ==
    ASSUME NEW X, NEW f \in [X -> X], NEW P \in SUBSET X, NEW x \in P,
           \A y \in P : f[y] \in P
    PROVE  Iterate(f, x) \in P
  <1> DEFINE N == Cardinality(Node)
  <1>1. N \in Nat
    BY NodeFacts
  <1>2. PICK a \in [0 .. N -> X] : /\ a[0] = x /\ Iterate(f, x) = a[N]
                                   /\ \A i \in 1 .. N : a[i] = f[a[i - 1]]
    <2>1. x \in X /\ f \in [X -> X]
      OBVIOUS
    <2> HIDE DEF N
    <2>2. \E a \in [0 .. Cardinality(Node) -> X] :
              /\ a[0] = x /\ Iterate(f, x) = a[Cardinality(Node)]
              /\ \A i \in 1 .. Cardinality(Node) : a[i] = f[a[i - 1]]
      BY ONLY <2>1, Rounds
    <2> QED BY <2>2 DEF N
  <1> HIDE DEF N
  <1> DEFINE E == {i \in 0 .. N : a[i] \in P}
  <1>3. 0 \in E
    BY <1>1, <1>2
  <1>4. ASSUME NEW i \in 0 .. N - 1, i \in E PROVE i + 1 \in E
    <2>1. i + 1 \in 1 .. N /\ (i + 1) - 1 = i
      BY <1>1
    <2>2. a[i + 1] = f[a[i]] /\ a[i] \in P
      BY <1>2, <1>4, <2>1
    <2> QED BY <2>1, <2>2
  <1>5. 0 .. N \subseteq E
    BY <1>1, <1>3, <1>4, UpTo, Zenon
  <1> QED
    BY <1>1, <1>2, <1>5

\* Where each round that changes something lowers a rank, the last one changes
\* nothing.
LEMMA IterateEnds ==
    ASSUME NEW X, NEW f \in [X -> X], NEW P \in SUBSET X, NEW x \in P,
           \A y \in P : f[y] \in P,
           NEW r \in [P -> Nat], r[x] <= Cardinality(Node),
           \A y \in P : f[y] # y => r[f[y]] < r[y]
    PROVE  Iterate(f, x) \in P /\ f[Iterate(f, x)] = Iterate(f, x)
  <1> DEFINE N == Cardinality(Node)
  <1>1. N \in Nat
    BY NodeFacts
  <1>2. PICK a \in [0 .. N -> X] : /\ a[0] = x /\ Iterate(f, x) = a[N]
                                   /\ \A i \in 1 .. N : a[i] = f[a[i - 1]]
    <2>1. x \in X /\ f \in [X -> X]
      OBVIOUS
    <2> HIDE DEF N
    <2>2. \E a \in [0 .. Cardinality(Node) -> X] :
              /\ a[0] = x /\ Iterate(f, x) = a[Cardinality(Node)]
              /\ \A i \in 1 .. Cardinality(Node) : a[i] = f[a[i - 1]]
      BY ONLY <2>1, Rounds
    <2> QED BY <2>2 DEF N
  <1>3. r[x] <= N
    OBVIOUS
  <1> HIDE DEF N
  <1> DEFINE E == {i \in 0 .. N : a[i] \in P /\ (f[a[i]] = a[i] \/ r[a[i]] <= N - i)}
  <1>4. 0 \in E
    BY <1>1, <1>2, <1>3
  <1>5. ASSUME NEW i \in 0 .. N - 1, i \in E PROVE i + 1 \in E
    <2>0. i + 1 \in 1 .. N /\ (i + 1) - 1 = i /\ i + 1 \in 0 .. N
      BY <1>1
    <2>1. a[i + 1] = f[a[i]] /\ a[i] \in P /\ a[i + 1] \in P /\ i + 1 \in 0 .. N
      BY <1>2, <1>5, <2>0
    <2>2. CASE f[a[i]] = a[i]
      BY <2>1, <2>2
    <2>3. CASE f[a[i]] # a[i]
      <3>1. r[a[i + 1]] < r[a[i]] /\ r[a[i]] <= N - i
        BY <2>1, <2>3, <1>5
      <3>2. r[a[i + 1]] \in Nat /\ r[a[i]] \in Nat
        BY <2>1
      <3>3. r[a[i + 1]] <= N - (i + 1)
        BY <3>1, <3>2, <1>1
      <3> QED BY <3>3, <2>1
    <2> QED BY <2>2, <2>3
  <1>6. 0 .. N \subseteq E
    BY <1>1, <1>4, <1>5, UpTo, Zenon
  <1>7. a[N] \in P /\ (f[a[N]] = a[N] \/ r[a[N]] <= 0)
    BY <1>1, <1>6
  <1>8. CASE f[a[N]] # a[N]
    <2>1. r[f[a[N]]] < r[a[N]] /\ r[f[a[N]]] \in Nat /\ r[a[N]] \in Nat /\ r[a[N]] <= 0
      BY <1>7, <1>8
    <2> QED BY <2>1
  <1> QED
    BY <1>2, <1>7, <1>8

-----------------------------------------------------------------------------
(* The elements of a tree *)

\* The fields of an element, of whichever name
LEMMA HeapFacts ==
    ASSUME NEW h \in Heap
    PROVE  /\ h.root \in Pointer
           /\ \A n \in Node : /\ h.left[n] \in Pointer /\ h.right[n] \in Pointer
                              /\ h.parent[n] \in Pointer /\ h.color[n] \in {"red", "black"}
                              /\ \A s \in Side : h[s][n] \in Pointer
           /\ h["left"] = h.left /\ h["right"] = h.right
  BY DEF Heap, Side

\* Left and right
LEMMA OtherSide ==
    /\ Other["left"] = "right" /\ Other["right"] = "left"
    /\ \A s \in Side : /\ Other[s] \in Side /\ Other[s] # s /\ Other[Other[s]] = s
                       /\ Side = {s, Other[s]}
  BY DEF Other, Side

\* A set of elements that holds their children
Closed(h, S) == S \subseteq Node /\ \A m \in S, s \in Side : h[s][m] \in S \cup {Null}

\* A round of Below adds children, until there are none left to add.
LEMMA GrownType ==
    ASSUME NEW h \in Heap
    PROVE  /\ Grown(h) \in [SUBSET Node -> SUBSET Node]
           /\ \A S \in SUBSET Node : S \subseteq Grown(h)[S]
           /\ \A S \in SUBSET Node : (Grown(h)[S] = S) <=> Closed(h, S)
           /\ \A S, T \in SUBSET Node : Closed(h, T) /\ S \subseteq T => Grown(h)[S] \subseteq T
  <1>1. \A n \in Node, s \in Side : h[s][n] \in Pointer
    BY HeapFacts
  <1>2. \A S \in SUBSET Node : Grown(h)[S] = S \cup ({h[s][m] : s \in Side, m \in S} \ {Null})
    BY DEF Grown
  <1>3. \A S \in SUBSET Node : ({h[s][m] : s \in Side, m \in S} \ {Null}) \subseteq Node
    BY <1>1 DEF Pointer
  <1>4. Grown(h) \in [SUBSET Node -> SUBSET Node]
    BY <1>3 DEF Grown
  <1>5. ASSUME NEW S \in SUBSET Node, Grown(h)[S] = S PROVE Closed(h, S)
    <2>1. ASSUME NEW m \in S, NEW s \in Side PROVE h[s][m] \in S \cup {Null}
      BY <1>2, <1>5
    <2> QED BY <2>1 DEF Closed
  <1>6. ASSUME NEW S \in SUBSET Node, NEW T \in SUBSET Node, Closed(h, T), S \subseteq T
        PROVE  Grown(h)[S] \subseteq T
    <2>1. \A m \in S, s \in Side : h[s][m] \in T \cup {Null}
      BY <1>6 DEF Closed
    <2>2. ({h[s][m] : s \in Side, m \in S} \ {Null}) \subseteq T
      <3> SUFFICES ASSUME NEW s \in Side, NEW m \in S, h[s][m] # Null PROVE h[s][m] \in T
        OBVIOUS
      <3> QED BY <2>1
    <2>3. Grown(h)[S] = S \cup ({h[s][m] : s \in Side, m \in S} \ {Null})
      BY <1>2
    <2> DEFINE kids == {h[s][m] : s \in Side, m \in S} \ {Null}
    <2>4. kids \subseteq T /\ Grown(h)[S] = S \cup kids
      BY <2>2, <2>3
    <2> HIDE DEF kids
    <2> QED BY <2>4, <1>6
  <1>7. ASSUME NEW S \in SUBSET Node, Closed(h, S) PROVE Grown(h)[S] = S
    <2>1. Grown(h)[S] \subseteq S
      BY <1>6, <1>7
    <2>2. S \subseteq Grown(h)[S]
      BY <1>2
    <2> QED BY <2>1, <2>2
  <1> QED
    BY <1>2, <1>4, <1>5, <1>6, <1>7

\* The elements below one of them, and this one, are the least set that holds it
\* and the children of its members.
LEMMA BelowLeast ==
    ASSUME NEW h \in Heap, NEW n \in Pointer
    PROVE  /\ Below(h, n) \in SUBSET Node /\ Closed(h, Below(h, n))
           /\ n # Null => n \in Below(h, n)
           /\ \A S \in SUBSET Node :
                  Closed(h, S) /\ n \in S \cup {Null} => Below(h, n) \subseteq S
  <1> DEFINE x == {n} \ {Null}
             P == {S \in SUBSET Node : x \subseteq S}
             r == [S \in P |-> Cardinality(Node) - Cardinality(S)]
             b == Below(h, n)
  <1>1. Grown(h) \in [SUBSET Node -> SUBSET Node]
    BY GrownType
  <1>2. x \in P
    BY DEF Pointer
  <1>3. \A S \in P : Grown(h)[S] \in P
    BY GrownType, <1>1
  <1>4. \A S \in SUBSET Node :
           /\ IsFiniteSet(S) /\ Cardinality(S) \in Nat /\ Cardinality(S) <= Cardinality(Node)
           /\ S # Node => Cardinality(S) < Cardinality(Node)
    BY NodeFacts, FS_Subset, FS_CardinalityType
  <1>5. r \in [P -> Nat] /\ r[x] <= Cardinality(Node)
    BY <1>2, <1>4, NodeFacts
  <1>6. ASSUME NEW S \in P, Grown(h)[S] # S PROVE r[Grown(h)[S]] < r[S]
    <2>1. Grown(h)[S] \in P /\ S \subseteq Grown(h)[S]
      BY <1>3, GrownType
    <2>2. IsFiniteSet(Grown(h)[S]) /\ S \in SUBSET Node /\ Grown(h)[S] \in SUBSET Node
      BY <2>1, <1>4
    <2> PICK g : g = Grown(h)[S]
      OBVIOUS
    <2>3. IsFiniteSet(g) /\ S \in SUBSET g /\ g # S /\ Cardinality(S) \in Nat /\ Cardinality(g) \in Nat
      BY <2>1, <2>2, <1>6, <1>4
    <2>4. Cardinality(S) <= Cardinality(g) /\ (Cardinality(g) = Cardinality(S) => g = S)
      BY <2>3, FS_Subset
    <2>5. Cardinality(S) < Cardinality(g)
      BY <2>3, <2>4
    <2> QED BY <2>1, <2>2, <2>5, <1>4, NodeFacts
  <1>7. P \in SUBSET (SUBSET Node)
    OBVIOUS
  <1>8. b = Iterate(Grown(h), x)
    BY DEF Below
  <1> HIDE DEF x, P, r, b
  <1>9. b \in P /\ Grown(h)[b] = b
    <2>1. Iterate(Grown(h), x) \in P /\ Grown(h)[Iterate(Grown(h), x)] = Iterate(Grown(h), x)
      BY ONLY <1>1, <1>2, <1>3, <1>5, <1>6, <1>7, IterateEnds
    <2> QED BY <2>1, <1>8
  <1>10. b \in SUBSET Node /\ Closed(h, b) /\ (n # Null => n \in b)
    BY <1>9, GrownType DEF P, x
  <1>11. ASSUME NEW S \in SUBSET Node, Closed(h, S), n \in S \cup {Null} PROVE b \subseteq S
    <2> DEFINE Q == {T \in SUBSET Node : T \subseteq S}
    <2>1. x \in Q /\ Q \in SUBSET (SUBSET Node)
      BY <1>2, <1>11 DEF x
    <2>2. \A T \in Q : Grown(h)[T] \in Q
      BY <1>1, <1>11, GrownType
    <2> HIDE DEF Q
    <2>3. Iterate(Grown(h), x) \in Q
      BY ONLY <1>1, <2>1, <2>2, IterateIn
    <2> QED BY <2>3, <1>8 DEF Q
  <1> QED
    BY <1>10, <1>11 DEF b

\* The elements below one that is below n are below n.
LEMMA BelowIn ==
    ASSUME NEW h \in Heap, NEW n \in Pointer, NEW m \in Below(h, n)
    PROVE  m \in Node /\ Below(h, m) \subseteq Below(h, n)
  BY BelowLeast DEF Pointer

\* There is nothing below NULL.
LEMMA BelowNull ==
    ASSUME NEW h \in Heap
    PROVE  Below(h, Null) = {}
  <1>1. Closed(h, {}) /\ {} \in SUBSET Node /\ Null \in {} \cup {Null} /\ Null \in Pointer
    BY DEF Closed, Pointer
  <1> QED
    BY <1>1, BelowLeast

\* What is below an element: itself and what is below its children
LEMMA BelowParts ==
    ASSUME NEW h \in Heap, NEW n \in Node, NEW x \in Below(h, n), x # n
    PROVE  \E s \in Side : h[s][n] # Null /\ x \in Below(h, h[s][n])
  <1> DEFINE S == {n} \cup {y \in Node : \E s \in Side : h[s][n] # Null /\ y \in Below(h, h[s][n])}
  <1>1. \A s \in Side : h[s][n] \in Pointer
    BY HeapFacts
  <1>2. ASSUME NEW m \in S, NEW s \in Side PROVE h[s][m] \in S \cup {Null}
    <2>1. h[s][m] \in Pointer
      BY HeapFacts, <1>2
    <2>2. CASE m = n
      BY <2>1, <2>2, <1>1, BelowLeast DEF Pointer
    <2>3. CASE m # n
      <3>1. PICK t \in Side : h[t][n] # Null /\ m \in Below(h, h[t][n])
        BY <2>3, <1>2
      <3>2. h[s][m] \in Below(h, h[t][n]) \cup {Null}
        BY <3>1, <1>1, BelowLeast DEF Closed
      <3> QED BY <3>1, <3>2, <2>1 DEF Pointer
    <2> QED BY <2>2, <2>3
  <1>3. S \in SUBSET Node /\ Closed(h, S) /\ n \in S \cup {Null}
    BY <1>2 DEF Closed
  <1>4. n \in Pointer
    BY DEF Pointer
  <1> HIDE DEF S
  <1>5. Below(h, n) \subseteq S
    BY <1>3, <1>4, BelowLeast
  <1> QED
    BY <1>5 DEF S

\* The elements of the tree: the least set that holds the root and the children of what it holds
LEMMA ReachFacts ==
    ASSUME NEW h \in Heap
    PROVE  /\ Reach(h) \in SUBSET Node /\ Closed(h, Reach(h))
           /\ h.root \in Reach(h) \cup {Null}
           /\ h.root = Null => Reach(h) = {}
           /\ \A n \in Reach(h) : Below(h, n) \subseteq Reach(h) /\ n \in Below(h, n)
           /\ \A S \in SUBSET Node :
                  Closed(h, S) /\ h.root \in S \cup {Null} => Reach(h) \subseteq S
  <1>1. h.root \in Pointer
    BY HeapFacts
  <1>2. /\ Reach(h) \in SUBSET Node /\ Closed(h, Reach(h))
        /\ h.root # Null => h.root \in Reach(h)
        /\ \A S \in SUBSET Node :
               Closed(h, S) /\ h.root \in S \cup {Null} => Reach(h) \subseteq S
    BY <1>1, BelowLeast, Zenon DEF Reach
  <1>3. h.root = Null => Reach(h) = {}
    BY BelowNull DEF Reach
  <1>4. ASSUME NEW n \in Reach(h) PROVE Below(h, n) \subseteq Reach(h) /\ n \in Below(h, n)
    <2>1. n \in Node /\ n # Null /\ n \in Pointer
      BY <1>2, NodeFacts DEF Pointer
    <2> QED BY <1>1, <2>1, BelowIn, BelowLeast, Zenon DEF Reach
  <1> QED
    BY <1>2, <1>3, <1>4

\* j is a key for side s of an element with key k.
On(s, j, k) == IF s = "left" THEN j < k ELSE j > k

\* The order of the keys, for both sides at once
LEMMA SearchTreeSides ==
    ASSUME NEW h \in Heap
    PROVE  IsSearchTree(h) <=> \A n \in Reach(h), s \in Side :
                                   \A m \in Below(h, h[s][n]) : On(s, Key(m), Key(n))
  <1>1. h["left"] = h.left /\ h["right"] = h.right
    BY HeapFacts
  <1> QED
    BY <1>1 DEF IsSearchTree, Side, On

\* Keys that may stand below an element: with an upper bound for each, the order
\* of a tree is a matter of each link.
Certified(h, T, K) ==
    /\ T \subseteq Node /\ Closed(h, T) /\ h.root \in T \cup {Null}
    /\ \A n \in T : Key(n) \in K[n]
    /\ \A n \in T, s \in Side : h[s][n] # Null =>
           \A k \in K[h[s][n]] : k \in K[n] /\ On(s, k, Key(n))

\* A heap with a certificate is a search tree.
LEMMA CertifiedOrder ==
    ASSUME NEW h \in Heap, NEW T, NEW K, Certified(h, T, K)
    PROVE  IsSearchTree(h) /\ Reach(h) \subseteq T
  <1>1. T \in SUBSET Node /\ Closed(h, T) /\ h.root \in T \cup {Null}
    BY DEF Certified
  <1>2. Reach(h) \subseteq T
    BY <1>1, ReachFacts
  <1>3. ASSUME NEW n \in Reach(h), NEW s \in Side, NEW m \in Below(h, h[s][n])
        PROVE  On(s, Key(m), Key(n))
    <2> DEFINE c == h[s][n]
               S == {x \in T : \A k \in K[x] : k \in K[c]}
    <2>1. c # Null /\ c \in T /\ c \in Pointer
      BY <1>1, <1>2, <1>3, BelowNull DEF Closed, Pointer
    <2>2. ASSUME NEW x \in S, NEW t \in Side PROVE h[t][x] \in S \cup {Null}
      <3>1. h[t][x] # Null => \A k \in K[h[t][x]] : k \in K[x]
        BY <2>2 DEF Certified
      <3> QED BY <3>1, <1>1 DEF Closed
    <2>3. Closed(h, S) /\ S \in SUBSET Node /\ c \in S \cup {Null}
      BY <1>1, <2>1, <2>2 DEF Closed
    <2> HIDE DEF S
    <2>4. Below(h, c) \subseteq S
      BY <2>1, <2>3, BelowLeast
    <2>5. m \in T /\ Key(m) \in K[c]
      BY <2>4, <1>3 DEF S, Certified
    <2> QED BY <2>1, <2>5, <1>2 DEF Certified
  <1> QED
    BY <1>2, <1>3, SearchTreeSides

\* The keys that do stand below it
KeysBelow(h) == [n \in Node |-> {Key(m) : m \in Below(h, n)}]

\* A search tree is certified by the keys it has below each element.
LEMMA OwnCertificate ==
    ASSUME NEW h \in Heap, IsSearchTree(h)
    PROVE  /\ Certified(h, Reach(h), KeysBelow(h))
           /\ \A n \in Node : KeysBelow(h)[n] \subseteq Nat
           /\ \A n \in Node : \A k : k \in KeysBelow(h)[n] <=> \E m \in Below(h, n) : k = Key(m)
  <1>1. \A n \in Node : \A k : k \in KeysBelow(h)[n] <=> \E m \in Below(h, n) : k = Key(m)
    BY DEF KeysBelow
  <1>2. \A n \in Node : KeysBelow(h)[n] \subseteq Nat
    <2> SUFFICES ASSUME NEW n \in Node, NEW m \in Below(h, n) PROVE Key(m) \in Nat
      BY <1>1
    <2> QED BY NodeFacts, BelowIn DEF Pointer
  <1>3. Reach(h) \in SUBSET Node /\ Closed(h, Reach(h)) /\ h.root \in Reach(h) \cup {Null}
    BY ReachFacts
  <1>4. \A n \in Reach(h) : Key(n) \in KeysBelow(h)[n]
    BY <1>1, <1>3, ReachFacts
  <1>5. ASSUME NEW n \in Reach(h), NEW s \in Side, h[s][n] # Null, NEW k \in KeysBelow(h)[h[s][n]]
        PROVE  k \in KeysBelow(h)[n] /\ On(s, k, Key(n))
    <2>1. n \in Node /\ h[s][n] \in Node /\ h[s][n] \in Below(h, n) /\ n \in Pointer
      BY <1>3, <1>5, ReachFacts, BelowLeast DEF Closed, Pointer
    <2>2. PICK m \in Below(h, h[s][n]) : k = Key(m)
      BY <2>1, <1>1, <1>5
    <2>3. m \in Below(h, n)
      BY <2>1, <2>2, BelowIn
    <2>4. On(s, Key(m), Key(n))
      BY SearchTreeSides, <2>2
    <2> QED BY <2>1, <2>2, <2>3, <2>4, <1>1
  <1> QED
    BY <1>1, <1>2, <1>3, <1>4, <1>5 DEF Certified

-----------------------------------------------------------------------------
(* Trees whose links are right *)

\* A search tree whose links up answer its links down
RightTree(h) == h \in Heap /\ IsSearchTree(h) /\ ParentsRight(h)

\* In a search tree nothing is below its own children.
LEMMA NotBelowChild ==
    ASSUME NEW h \in Heap, IsSearchTree(h), NEW n \in Reach(h), NEW s \in Side
    PROVE  /\ n \notin Below(h, h[s][n])
           /\ \A x \in Below(h, h[s][n]) : x \notin Below(h, h[Other[s]][n])
           /\ h[s][n] # n
           /\ h[s][n] # Null => h[s][n] # h[Other[s]][n]
  <1>1. n \in Node /\ h[s][n] \in Pointer /\ h[Other[s]][n] \in Pointer /\ Other[s] \in Side
    BY ReachFacts, HeapFacts, OtherSide
  <1>2. \A x \in Below(h, h[s][n]) : On(s, Key(x), Key(n)) /\ Key(x) \in Nat
    BY SearchTreeSides, <1>1, BelowIn, NodeFacts
  <1>3. \A x \in Below(h, h[Other[s]][n]) : On(Other[s], Key(x), Key(n))
    BY SearchTreeSides, <1>1
  <1>4. Key(n) \in Nat
    BY <1>1, NodeFacts
  <1>5. n \notin Below(h, h[s][n])
    BY <1>2, <1>4 DEF On
  <1>6. \A x \in Below(h, h[s][n]) : x \notin Below(h, h[Other[s]][n])
    BY <1>2, <1>3, <1>4, OtherSide DEF On, Side
  <1>7. h[s][n] # Null => h[s][n] \in Below(h, h[s][n])
    BY <1>1, BelowLeast
  <1> QED
    BY <1>1, <1>5, <1>6, <1>7, NodeFacts

\* The elements below a child are fewer.
LEMMA FewerBelow ==
    ASSUME NEW h \in Heap, IsSearchTree(h)
    PROVE  LET r == [n \in Reach(h) |-> Cardinality(Below(h, n))] IN
           /\ r \in [Reach(h) -> Nat]
           /\ \A n \in Reach(h) : r[n] <= Cardinality(Node)
           /\ \A n \in Reach(h), s \in Side : h[s][n] # Null => r[h[s][n]] < r[n]
  <1> DEFINE r == [n \in Reach(h) |-> Cardinality(Below(h, n))]
  <1>1. \A n \in Reach(h) : n \in Node /\ n \in Pointer /\ Below(h, n) \in SUBSET Node
    BY ReachFacts, BelowLeast DEF Pointer
  <1>2. \A S \in SUBSET Node :
           IsFiniteSet(S) /\ Cardinality(S) \in Nat /\ Cardinality(S) <= Cardinality(Node)
    BY NodeFacts, FS_Subset, FS_CardinalityType
  <1>3. ASSUME NEW n \in Reach(h), NEW s \in Side, h[s][n] # Null
        PROVE  h[s][n] \in Reach(h) /\ Cardinality(Below(h, h[s][n])) < Cardinality(Below(h, n))
    <2>0. Closed(h, Reach(h))
      BY ReachFacts
    <2>1. h[s][n] \in Reach(h)
      BY <2>0, <1>3 DEF Closed
    <2> PICK a : a = Below(h, n)
      OBVIOUS
    <2> PICK b : b = Below(h, h[s][n])
      OBVIOUS
    <2>2. n \in a /\ n \notin b
      BY ReachFacts, NotBelowChild
    <2>3. b \subseteq a
      <3>1. n \in Pointer /\ n \in Below(h, n) /\ Closed(h, Below(h, n))
        BY <1>1, ReachFacts, BelowLeast
      <3>2. h[s][n] \in Below(h, n)
        BY <3>1, <1>3 DEF Closed
      <3> QED BY <3>1, <3>2, BelowIn
    <2>4. b \in SUBSET Node /\ a \in SUBSET Node
      BY <1>1, <2>1
    <2>5. IsFiniteSet(a) /\ b \in SUBSET a /\ a # b /\ Cardinality(a) \in Nat /\ Cardinality(b) \in Nat
      BY <2>2, <2>3, <2>4, <1>2
    <2>6. Cardinality(b) <= Cardinality(a) /\ (Cardinality(a) = Cardinality(b) => a = b)
      BY <2>5, FS_Subset
    <2> QED BY <2>1, <2>5, <2>6
  <1> QED
    BY <1>1, <1>2, <1>3

\* Each element of the tree but the root is the child of its parent, on one side.
LEMMA Links ==
    ASSUME NEW h, RightTree(h), NEW n \in Reach(h)
    PROVE  /\ n \in Node /\ h.parent[n] \in Reach(h) \cup {Null}
           /\ (h.parent[n] = Null) <=> (n = h.root)
           /\ n # h.root => \E s \in Side : h[s][h.parent[n]] = n
           /\ \A m \in Reach(h), s \in Side : h[s][m] = n => h.parent[n] = m
           /\ h.parent[n] # n
  <1>0. h \in Heap /\ IsSearchTree(h)
    BY DEF RightTree
  <1> DEFINE S == {x \in Reach(h) :
                      x # h.root => /\ h.parent[x] \in Reach(h)
                                    /\ \E s \in Side : h[s][h.parent[x]] = x}
  <1>1. \A m \in Reach(h), s \in Side : h[s][m] # Null => h.parent[h[s][m]] = m
    BY DEF RightTree, ParentsRight
  <1>2. Reach(h) \in SUBSET Node /\ Closed(h, Reach(h)) /\ h.root \in Reach(h) \cup {Null}
    BY ReachFacts, <1>0
  <1>3. Null \notin Node
    BY NodeFacts
  <1>4. ASSUME NEW m \in S, NEW s \in Side PROVE h[s][m] \in S \cup {Null}
    <2>1. h[s][m] # Null => h[s][m] \in Reach(h)
      BY <1>2, <1>4 DEF Closed
    <2>2. h[s][m] # Null => h.parent[h[s][m]] = m
      BY <1>1, <1>4
    <2> QED BY <2>1, <2>2, <1>4
  <1>5. Closed(h, S) /\ S \in SUBSET Node /\ h.root \in S \cup {Null}
    BY <1>2, <1>4 DEF Closed
  <1>6. Reach(h) \subseteq S
    BY <1>0, <1>5, ReachFacts
  <1>7. h.root # Null => h.parent[h.root] = Null
    BY DEF RightTree, ParentsRight
  <1>8. \A m \in Reach(h), s \in Side : h[s][m] = n => h.parent[n] = m
    BY <1>1, <1>2, <1>3
  <1>9. (h.parent[n] = Null) <=> (n = h.root)
    BY <1>2, <1>3, <1>6, <1>7
  <1>10. n # h.root => h.parent[n] \in Reach(h) /\ \E s \in Side : h[s][h.parent[n]] = n
    BY <1>6
  <1>11. h.parent[n] # n
    BY <1>0, <1>2, <1>3, <1>9, <1>10, NotBelowChild
  <1> QED
    BY <1>2, <1>8, <1>9, <1>10, <1>11

\* The way up from an element leads through the subtrees it is in.
LEMMA ParentBelow ==
    ASSUME NEW h, RightTree(h), NEW d \in Reach(h), NEW n \in Below(h, d), n # d
    PROVE  n \in Reach(h) /\ h.parent[n] \in Below(h, d)
  <1>0. h \in Heap /\ IsSearchTree(h)
    BY DEF RightTree
  <1> DEFINE S == {x \in Below(h, d) : x = d \/ h.parent[x] \in Below(h, d)}
  <1>1. d \in Node /\ d \in Pointer /\ Below(h, d) \subseteq Reach(h) /\ Reach(h) \in SUBSET Node
    BY <1>0, ReachFacts DEF Pointer
  <1>2. \A m \in Reach(h), s \in Side : h[s][m] # Null => h.parent[h[s][m]] = m
    BY DEF RightTree, ParentsRight
  <1>3. Closed(h, Below(h, d)) /\ d \in Below(h, d) /\ Below(h, d) \in SUBSET Node
    BY <1>0, <1>1, BelowLeast, NodeFacts
  <1>4. ASSUME NEW m \in S, NEW s \in Side PROVE h[s][m] \in S \cup {Null}
    BY <1>1, <1>2, <1>3 DEF Closed
  <1>5. Closed(h, S) /\ S \in SUBSET Node /\ d \in S \cup {Null}
    BY <1>3, <1>4 DEF Closed
  <1>6. Below(h, d) \subseteq S
    BY <1>0, <1>1, <1>5, BelowLeast
  <1> QED
    BY <1>1, <1>6

\* The search for a key ends at the element with the key, or where it would be linked.
LEMMA DescendEnds ==
    ASSUME NEW h, RightTree(h), h.root # Null, NEW k \in Nat
    PROVE  LET y == Descend(h, k) IN
           /\ y \in Reach(h)
           /\ Key(y) = k \/ h[SideOf(k, y)][y] = Null
           /\ \A m \in Reach(h) : Key(m) = k => m = y
           /\ \A n \in Reach(h), s \in Side :
                  h[s][n] # Null /\ y \in Below(h, h[s][n]) => On(s, k, Key(n))
  <1>0. h \in Heap /\ IsSearchTree(h)
    BY DEF RightTree
  <1>1. Reach(h) \in SUBSET Node /\ Closed(h, Reach(h)) /\ h.root \in Reach(h)
    BY <1>0, ReachFacts
  <1> DEFINE OnPath(y) == \A n \in Reach(h), s \in Side :
                              h[s][n] # Null /\ y \in Below(h, h[s][n]) => On(s, k, Key(n))
             Holds(y) == \A m \in Reach(h) : Key(m) = k => m \in Below(h, y)
             P == {y \in Reach(h) : OnPath(y) /\ Holds(y)}
             r == [n \in Reach(h) |-> Cardinality(Below(h, n))]
             q == [n \in P |-> r[n]]
             f == Down(h, k)
  <1>2. /\ r \in [Reach(h) -> Nat]
        /\ \A n \in Reach(h) : r[n] <= Cardinality(Node)
        /\ \A n \in Reach(h), s \in Side : h[s][n] # Null => r[h[s][n]] < r[n]
    BY <1>0, FewerBelow
  <1>3. \A n \in Node : SideOf(k, n) \in Side /\ (Key(n) # k => On(SideOf(k, n), k, Key(n)))
    BY NodeFacts DEF SideOf, Side, On
  <1>4. \A n \in Node : f[n] = IF Key(n) = k \/ h[SideOf(k, n)][n] = Null THEN n
                                ELSE h[SideOf(k, n)][n]
    BY DEF Down
  <1>5. f \in [Node -> Node]
    <2>1. \A n \in Node : f[n] \in Node
      BY <1>0, <1>3, <1>4, HeapFacts DEF Pointer
    <2>2. f = [n \in Node |-> f[n]]
      BY DEF Down
    <2> HIDE DEF f
    <2> QED BY <2>1, <2>2
  <1> HIDE DEF f, r
  <1>6. h.root \in P
    <2>1. Holds(h.root)
      BY DEF Reach
    <2>2. OnPath(h.root)
      <3> SUFFICES ASSUME NEW n \in Reach(h), NEW s \in Side, h[s][n] # Null,
                          h.root \in Below(h, h[s][n])
                   PROVE  FALSE
        OBVIOUS
      <3>1. h[s][n] \in Reach(h)
        BY <1>1 DEF Closed
      <3>2. h.root = h[s][n] \/ h.parent[h.root] \in Below(h, h[s][n])
        BY <3>1, ParentBelow
      <3>3. h.parent[h.root] = Null
        BY <1>1, Links
      <3>4. h.parent[h.root] \notin Below(h, h[s][n])
        BY <3>1, <3>3, <1>0, <1>1, ReachFacts, NodeFacts
      <3>5. h.parent[h[s][n]] = n
        BY <3>1, Links
      <3> QED BY <3>2, <3>3, <3>4, <3>5, <1>1, NodeFacts
    <2> QED BY <2>1, <2>2, <1>1
  <1>7. ASSUME NEW y \in P, f[y] # y PROVE f[y] \in P /\ r[f[y]] < r[y]
    <2> DEFINE s0 == SideOf(k, y)
    <2>1. /\ y \in Reach(h) /\ y \in Node /\ Key(y) # k /\ f[y] = h[s0][y] /\ h[s0][y] # Null
          /\ s0 \in Side /\ On(s0, k, Key(y)) /\ f[y] \in Reach(h)
      BY <1>1, <1>3, <1>4, <1>7 DEF Closed
    <2>2. ASSUME NEW n \in Reach(h), NEW s \in Side, h[s][n] # Null, f[y] \in Below(h, h[s][n])
          PROVE  On(s, k, Key(n))
      <3>1. h[s][n] \in Reach(h) /\ h.parent[f[y]] = y
        BY <1>1, <2>1, <2>2, Links DEF Closed
      <3>2. CASE f[y] = h[s][n]
        <4>1. \A m \in Reach(h), t \in Side : h[t][m] = f[y] => h.parent[f[y]] = m
          BY <2>1, Links, Zenon
        <4>2. n = y
          BY <4>1, <3>1, <3>2
        <4>3. s = s0 \/ s = Other[s0]
          BY <2>1, OtherSide
        <4>4. h[s0][y] # h[Other[s0]][y]
          BY <2>1, <1>0, NotBelowChild
        <4>5. s = s0
          BY <4>2, <4>3, <4>4, <3>2, <2>1
        <4> QED BY <4>2, <4>5, <2>1
      <3>3. CASE f[y] # h[s][n]
        <4>1. y \in Below(h, h[s][n])
          BY <3>1, <3>3, <2>2, ParentBelow
        <4> QED BY <4>1, <2>2, <1>7
      <3> QED BY <3>2, <3>3
    <2>3. ASSUME NEW m \in Reach(h), Key(m) = k PROVE m \in Below(h, f[y])
      <3>1. m \in Below(h, y) /\ m # y
        BY <2>1, <2>3, <1>7
      <3>2. PICK s \in Side : h[s][y] # Null /\ m \in Below(h, h[s][y])
        BY <3>1, <2>1, <1>0, BelowParts
      <3>3. On(s, k, Key(y))
        BY <3>2, <2>1, <2>3, <1>0, SearchTreeSides
      <3>4. s = s0
        BY <3>3, <2>1, NodeFacts DEF On, Side
      <3> QED BY <3>2, <3>4, <2>1
    <2>4. f[y] \in P
      BY <2>1, <2>2, <2>3
    <2>5. r[f[y]] < r[y]
      BY <2>1, <1>2
    <2> QED BY <2>4, <2>5
  <1>8. /\ P \in SUBSET Node /\ q \in [P -> Nat] /\ q[h.root] <= Cardinality(Node)
        /\ \A y \in P : f[y] \in P
        /\ \A y \in P : f[y] # y => q[f[y]] < q[y]
    BY <1>1, <1>2, <1>6, <1>7
  <1>9. Descend(h, k) = Iterate(f, h.root)
    BY DEF Descend, f
  <1> HIDE DEF P, q
  <1>10. Iterate(f, h.root) \in P /\ f[Iterate(f, h.root)] = Iterate(f, h.root)
    BY ONLY <1>5, <1>6, <1>8, IterateEnds
  <1> PICK y : y = Descend(h, k)
    OBVIOUS
  <1>11. y \in Reach(h) /\ OnPath(y) /\ Holds(y) /\ f[y] = y
    BY <1>9, <1>10 DEF P
  <1>12. Key(y) = k \/ h[SideOf(k, y)][y] = Null
    <2>1. SideOf(k, y) \in Side /\ y \in Reach(h) /\ y \in Node
      BY <1>1, <1>3, <1>11
    <2>2. h[SideOf(k, y)][y] # y
      BY <2>1, <1>0, NotBelowChild
    <2> QED BY <1>4, <1>11, <2>1, <2>2
  <1>13. ASSUME NEW m \in Reach(h), Key(m) = k PROVE m = y
    <2> SUFFICES ASSUME m # y PROVE FALSE
      OBVIOUS
    <2>1. m \in Below(h, y) /\ y \in Node
      BY <1>1, <1>11, <1>13
    <2>2. PICK s \in Side : h[s][y] # Null /\ m \in Below(h, h[s][y])
      BY <2>1, <1>0, BelowParts
    <2>3. On(s, k, Key(y))
      BY <2>2, <1>11, <1>13, <1>0, SearchTreeSides
    <2>4. s = SideOf(k, y)
      BY <2>1, <2>3, NodeFacts DEF On, Side, SideOf
    <2>5. Key(y) # k
      BY <2>3, <2>1, NodeFacts DEF On
    <2> QED BY <2>2, <2>4, <2>5, <1>12
  <1> QED
    BY <1>11, <1>12, <1>13

\* On the way along one side the elements left behind are on the other side.
LEMMA FarEnds ==
    ASSUME NEW h \in Heap, IsSearchTree(h), NEW n \in Reach(h), NEW s \in Side
    PROVE  LET y == Far(h, s, n) IN
           /\ y \in Below(h, n) /\ y \in Reach(h) /\ h[s][y] = Null
           /\ \A x \in Below(h, n) : x = y \/ On(Other[s], Key(x), Key(y))
  <1> DEFINE P == {y \in Below(h, n) :
                      \A x \in Below(h, n) : x \in Below(h, y) \/ On(Other[s], Key(x), Key(y))}
             r == [m \in Reach(h) |-> Cardinality(Below(h, m))]
             q == [m \in P |-> r[m]]
             f == Further(h, s)
  <1>1. /\ Reach(h) \in SUBSET Node /\ Closed(h, Reach(h))
        /\ n \in Node /\ n \in Pointer /\ Below(h, n) \subseteq Reach(h) /\ n \in Below(h, n)
    BY ReachFacts DEF Pointer
  <1>2. /\ r \in [Reach(h) -> Nat]
        /\ \A m \in Reach(h) : r[m] <= Cardinality(Node)
        /\ \A m \in Reach(h), t \in Side : h[t][m] # Null => r[h[t][m]] < r[m]
    BY FewerBelow
  <1>3. \A m \in Node : f[m] = IF h[s][m] = Null THEN m ELSE h[s][m]
    BY DEF Further
  <1>4. f \in [Node -> Node]
    <2>1. \A m \in Node : f[m] \in Node
      BY <1>3, HeapFacts DEF Pointer
    <2>2. f = [m \in Node |-> f[m]]
      BY DEF Further
    <2> HIDE DEF f
    <2> QED BY <2>1, <2>2
  <1> HIDE DEF f, r
  <1>5. n \in P
    BY <1>1
  <1>6. ASSUME NEW m \in P, f[m] # m PROVE f[m] \in P /\ r[f[m]] < r[m]
    <2>1. m \in Below(h, n) /\ m \in Reach(h) /\ m \in Node /\ f[m] = h[s][m] /\ h[s][m] # Null
      BY <1>1, <1>3, <1>6
    <2>2. f[m] \in Below(h, n) /\ f[m] \in Node
      BY <2>1, <1>1, BelowLeast DEF Closed
    <2>3. On(s, Key(f[m]), Key(m)) /\ Key(f[m]) \in Nat /\ Key(m) \in Nat
      <3>1. f[m] \in Below(h, h[s][m])
        BY <2>1, <2>2, BelowLeast DEF Pointer
      <3> QED BY <3>1, <2>1, <2>2, SearchTreeSides, NodeFacts
    <2>4. ASSUME NEW x \in Below(h, n), x \notin Below(h, f[m])
          PROVE  On(Other[s], Key(x), Key(f[m]))
      <3>1. Key(x) \in Nat
        BY <1>1, NodeFacts
      <3>2. CASE On(Other[s], Key(x), Key(m))
        BY <3>1, <3>2, <2>3, OtherSide DEF On, Side
      <3>3. CASE x = m
        BY <3>1, <3>3, <2>3, OtherSide DEF On, Side
      <3>4. CASE x \in Below(h, m) /\ x # m
        <4>1. PICK t \in Side : h[t][m] # Null /\ x \in Below(h, h[t][m])
          BY <3>4, <2>1, BelowParts
        <4>2. t = Other[s]
          BY <4>1, <2>1, <2>4, OtherSide
        <4>3. On(Other[s], Key(x), Key(m))
          BY <4>1, <4>2, <2>1, SearchTreeSides
        <4> QED BY <4>3, <3>2
      <3> QED BY <3>2, <3>3, <3>4, <1>6
    <2>5. r[f[m]] < r[m]
      BY <2>1, <1>2
    <2> QED BY <2>2, <2>4, <2>5
  <1>7. /\ P \in SUBSET Node /\ q \in [P -> Nat] /\ q[n] <= Cardinality(Node)
        /\ \A y \in P : f[y] \in P
        /\ \A y \in P : f[y] # y => q[f[y]] < q[y]
    BY <1>1, <1>2, <1>5, <1>6
  <1>8. Far(h, s, n) = Iterate(f, n)
    BY DEF Far, f
  <1> HIDE DEF P, q
  <1>9. Iterate(f, n) \in P /\ f[Iterate(f, n)] = Iterate(f, n)
    BY ONLY <1>4, <1>5, <1>7, IterateEnds
  <1> PICK y : y = Far(h, s, n)
    OBVIOUS
  <1>10. y \in P /\ f[y] = y /\ y \in Below(h, n) /\ y \in Reach(h) /\ y \in Node
    BY <1>1, <1>8, <1>9 DEF P
  <1>11. h[s][y] = Null
    BY <1>3, <1>10, NotBelowChild
  <1>12. ASSUME NEW x \in Below(h, n), x # y PROVE On(Other[s], Key(x), Key(y))
    <2>1. CASE x \in Below(h, y)
      <3>1. PICK t \in Side : h[t][y] # Null /\ x \in Below(h, h[t][y])
        BY <2>1, <1>10, <1>12, BelowParts
      <3>2. t = Other[s]
        BY <3>1, <1>11, OtherSide
      <3> QED BY <3>1, <3>2, <1>10, SearchTreeSides
    <2>2. CASE x \notin Below(h, y)
      BY <2>2, <1>10, <1>12 DEF P
    <2> QED BY <2>1, <2>2
  <1> QED
    BY <1>10, <1>11, <1>12

\* RB_MIN and RB_MAX find the first and the last key.
LEMMA MinMaxIs ==
    ASSUME NEW h \in Heap, IsSearchTree(h), h.root # Null, NEW s \in Side
    PROVE  LET y == MinMax(h, s) IN
           y \in Reach(h) /\ \A x \in Reach(h) : x = y \/ On(Other[s], Key(x), Key(y))
  <1>1. h.root \in Reach(h) /\ Reach(h) = Below(h, h.root)
    BY ReachFacts DEF Reach
  <1> QED
    BY <1>1, FarEnds DEF MinMax

\* RB_NFIND finds the first element with the key or a greater one.
LEMMA NFindIs ==
    ASSUME NEW h \in Heap, IsSearchTree(h), NEW k \in Nat
    PROVE  LET y == NFind(h, k) IN
           /\ y = Null => \A x \in Reach(h) : Key(x) < k
           /\ y # Null => /\ y \in Reach(h) /\ Key(y) >= k
                          /\ \A x \in Reach(h) : Key(x) >= k => Key(x) >= Key(y)
  <1> DEFINE X == Pointer \X Pointer
             Left(n, x) == n # Null /\ x \in Below(h, n)
             Had(b, x) == b # Null /\ Key(x) >= Key(b)
             Right(at) ==
                /\ at[1] \in Reach(h) \cup {Null} /\ at[2] \in Reach(h) \cup {Null}
                /\ at[2] # Null => Key(at[2]) > k
                /\ at[2] # Null => \A x \in Reach(h) : Left(at[1], x) => Key(x) < Key(at[2])
                /\ \A x \in Reach(h) : Key(x) >= k => Left(at[1], x) \/ Had(at[2], x)
             P == {at \in X : Right(at)}
             r == [n \in Reach(h) |-> Cardinality(Below(h, n))]
             q == [at \in P |-> IF at[1] = Null THEN 0 ELSE r[at[1]]]
             f == DownBest(h, k)
             start == <<h.root, Null>>
  <1>1. /\ Reach(h) \in SUBSET Node /\ Closed(h, Reach(h)) /\ h.root \in Reach(h) \cup {Null}
        /\ Null \notin Node /\ \A n \in Reach(h) : n \in Node /\ n \in Pointer /\ Key(n) \in Nat
    BY ReachFacts, NodeFacts DEF Pointer
  <1>2. /\ r \in [Reach(h) -> Nat]
        /\ \A n \in Reach(h) : r[n] <= Cardinality(Node)
        /\ \A n \in Reach(h), s \in Side : h[s][n] # Null => r[h[s][n]] < r[n]
    BY FewerBelow
  <1>3. \A n \in Reach(h) : r[n] > 0
    <2> SUFFICES ASSUME NEW n \in Reach(h) PROVE r[n] > 0
      OBVIOUS
    <2>1. n \in Below(h, n) /\ Below(h, n) \in SUBSET Node
      BY <1>1, BelowLeast
    <2>2. IsFiniteSet(Below(h, n))
      BY <2>1, NodeFacts, FS_Subset
    <2>3. Cardinality(Below(h, n)) # 0 /\ Cardinality(Below(h, n)) \in Nat
      BY <2>1, <2>2, FS_EmptySet, FS_CardinalityType
    <2> QED BY <2>3
  <1>4. \A at \in X : f[at] = IF at[1] = Null \/ Key(at[1]) = k THEN at
                              ELSE IF Key(at[1]) > k THEN <<h.left[at[1]], at[1]>>
                              ELSE <<h.right[at[1]], at[2]>>
    BY DEF DownBest
  <1>5. f \in [X -> X]
    <2>1. \A at \in X : f[at] \in X
      <3> SUFFICES ASSUME NEW at \in X PROVE f[at] \in X
        OBVIOUS
      <3>1. at[1] \in Pointer /\ at[2] \in Pointer
        OBVIOUS
      <3>2. at[1] # Null => h.left[at[1]] \in Pointer /\ h.right[at[1]] \in Pointer
        BY <3>1, HeapFacts DEF Pointer
      <3>3. f[at] \in {at, <<h.left[at[1]], at[1]>>, <<h.right[at[1]], at[2]>>}
        BY <1>4
      <3>4. at[1] # Null => /\ <<h.left[at[1]], at[1]>> \in X
                            /\ <<h.right[at[1]], at[2]>> \in X
        BY <3>1, <3>2
      <3>5. at[1] = Null => f[at] = at
        BY <1>4
      <3> HIDE DEF X, f
      <3> QED BY <3>3, <3>4, <3>5
    <2>2. f = [at \in X |-> f[at]]
      BY DEF DownBest
    <2> HIDE DEF f
    <2> QED BY <2>1, <2>2
  <1> HIDE DEF f, r
  <1>6. start \in P
    <2>1. start \in X /\ start[1] = h.root /\ start[2] = Null
      BY HeapFacts DEF Pointer
    <2>2. Right(start)
      BY <2>1, <1>1, ReachFacts DEF Reach
    <2> QED BY <2>1, <2>2
  <1>7. ASSUME NEW at \in P, f[at] # at PROVE f[at] \in P /\ q[f[at]] < q[at]
    <2> PICK n : n = at[1]
      OBVIOUS
    <2> PICK b : b = at[2]
      OBVIOUS
    <2> PICK s : s = IF Key(n) > k THEN "left" ELSE "right"
      OBVIOUS
    <2> PICK c : c = IF Key(n) > k THEN n ELSE b
      OBVIOUS
    <2>1. at \in X /\ Right(at)
      BY <1>7
    <2>2. /\ n # Null /\ Key(n) # k /\ n \in Reach(h) /\ s \in Side
          /\ f[at] = <<h[s][n], c>> /\ h[s][n] \in Reach(h) \cup {Null}
          /\ b \in Reach(h) \cup {Null} /\ (b # Null => Key(b) > k)
      BY <2>1, <1>1, <1>4, <1>7, HeapFacts DEF Side, Closed
    <2>3. c \in Reach(h) \cup {Null} /\ (c # Null => Key(c) > k)
      BY <2>2
    <2>4. ASSUME NEW x \in Reach(h), Key(x) >= k PROVE Left(h[s][n], x) \/ Had(c, x)
      <3>0. Key(x) \in Nat /\ Key(n) \in Nat
        BY <1>1, <2>2
      <3>1. CASE Had(b, x)
        <4>1. Key(n) < Key(b) /\ Key(b) \in Nat /\ Key(x) >= Key(b)
          BY <3>1, <2>1, <2>2, <1>1, ReachFacts
        <4> QED BY <3>0, <3>1, <4>1, <2>2
      <3>2. CASE Left(n, x)
        <4>1. CASE x = n
          BY <4>1, <2>2, <2>4, <3>0
        <4>2. CASE x # n
          <5>1. PICK t \in Side : h[t][n] # Null /\ x \in Below(h, h[t][n])
            BY <3>2, <4>2, <2>2, <1>1, BelowParts
          <5>2. On(t, Key(x), Key(n))
            BY <5>1, <2>2, SearchTreeSides
          <5>3. CASE t = s
            BY <5>1, <5>3
          <5>4. CASE t # s
            BY <5>2, <5>4, <2>2, <2>4, <3>0 DEF On, Side
          <5> QED BY <5>3, <5>4
        <4> QED BY <4>1, <4>2
      <3> QED BY <3>1, <3>2, <2>1, <2>4
    <2>5. ASSUME NEW x \in Reach(h), c # Null, Left(h[s][n], x) PROVE Key(x) < Key(c)
      <3>0. Key(x) \in Nat /\ Key(n) \in Nat
        BY <1>1, <2>2
      <3>1. On(s, Key(x), Key(n))
        BY <2>2, <2>5, SearchTreeSides
      <3>2. CASE Key(n) > k
        BY <3>1, <3>2 DEF On
      <3>3. CASE ~(Key(n) > k)
        <4>1. h[s][n] \in Below(h, n)
          BY <1>1, <2>2, <2>5, BelowLeast DEF Closed
        <4>2. x \in Below(h, n)
          BY <4>1, <2>2, <2>5, <1>1, BelowIn
        <4> QED BY <4>2, <3>3, <2>1, <2>2, <2>5
      <3> QED BY <3>2, <3>3
    <2>6. f[at] \in P
      <3>1. f[at] \in X /\ f[at][1] = h[s][n] /\ f[at][2] = c
        BY <2>1, <2>2, <1>5
      <3> QED BY <3>1, <2>2, <2>3, <2>4, <2>5
    <2>7. q[f[at]] < q[at]
      <3>a. \A z \in P : q[z] = IF z[1] = Null THEN 0 ELSE r[z[1]]
        OBVIOUS
      <3>b. at \in P /\ at[1] = n /\ f[at][1] = h[s][n]
        BY <2>2, <1>7
      <3> HIDE DEF P, q
      <3>1. q[f[at]] = IF h[s][n] = Null THEN 0 ELSE r[h[s][n]]
        BY ONLY <3>a, <3>b, <2>6
      <3>2. q[at] = r[n]
        BY ONLY <3>a, <3>b, <2>2
      <3> QED BY <3>1, <3>2, <2>2, <1>2, <1>3
    <2> QED BY <2>6, <2>7
  <1>8. q \in [P -> Nat] /\ P \in SUBSET X /\ q[start] <= Cardinality(Node)
    <2>1. ASSUME NEW at \in P PROVE q[at] \in Nat /\ q[at] <= Cardinality(Node)
      BY <1>2, NodeFacts
    <2> QED BY <2>1, <1>6
  <1>9. /\ \A at \in P : f[at] \in P
        /\ \A at \in P : f[at] # at => q[f[at]] < q[at]
    BY <1>7
  <1> PICK e : e = Iterate(f, start)
    OBVIOUS
  <1> HIDE DEF P, q, X
  <1>10. Iterate(f, start) \in P /\ f[Iterate(f, start)] = Iterate(f, start)
    BY ONLY <1>5, <1>6, <1>8, <1>9, IterateEnds
  <1>11. e \in X /\ Right(e) /\ f[e] = e
    BY <1>10 DEF P
  <1>12. NFind(h, k) = IF e[1] # Null THEN e[1] ELSE e[2]
    BY DEF NFind, f
  <1>13. e[1] # Null => Key(e[1]) = k
    <2> SUFFICES ASSUME e[1] # Null, Key(e[1]) # k PROVE FALSE
      OBVIOUS
    <2>1. f[e][1] = h.left[e[1]] \/ f[e][1] = h.right[e[1]]
      <3>1. f[e] = IF e[1] = Null \/ Key(e[1]) = k THEN e
                   ELSE IF Key(e[1]) > k THEN <<h.left[e[1]], e[1]>> ELSE <<h.right[e[1]], e[2]>>
        BY <1>4, <1>11, Zenon
      <3> QED BY <3>1
    <2>2. e[1] \in Reach(h)
      BY <1>11
    <2>3. h["left"][e[1]] # e[1] /\ h["right"][e[1]] # e[1]
      BY <2>2, NotBelowChild DEF Side
    <2> QED BY <2>1, <2>3, <1>11, HeapFacts
  <1>14. CASE e[1] # Null
    BY <1>1, <1>11, <1>12, <1>13, <1>14
  <1>15. CASE e[1] = Null
    <2>1. NFind(h, k) = e[2] /\ (e[2] # Null => e[2] \in Reach(h) /\ Key(e[2]) > k /\ Key(e[2]) \in Nat)
      BY <1>1, <1>11, <1>12, <1>15
    <2>2. \A x \in Reach(h) : Key(x) >= k => Had(e[2], x)
      BY <1>11, <1>15
    <2>3. \A x \in Reach(h) : Key(x) \in Nat
      BY <1>1
    <2> QED BY <2>1, <2>2, <2>3
  <1> QED
    BY <1>14, <1>15

-----------------------------------------------------------------------------
(* Stores *)

\* Stores of the right type; one through a pointer that is NULL changes nothing here.
Store == ({"root", "left", "right", "parent"} \X Pointer \X Pointer)
             \cup ({"color"} \X Pointer \X {"red", "black"})

\* A store leaves a heap a heap.
LEMMA PutType ==
    ASSUME NEW h \in Heap, NEW st \in Store
    PROVE  Put(h, st) \in Heap
  <1>1. CASE st[1] = "root"
    BY <1>1 DEF Store, Put, Heap
  <1>2. CASE st[1] \in {"left", "right", "parent"}
    BY <1>2 DEF Store, Put, Heap
  <1>3. CASE st[1] = "color"
    BY <1>3 DEF Store, Put, Heap
  <1> QED
    BY <1>1, <1>2, <1>3 DEF Store

\* The heaps between the stores
Made(h, stores, a) ==
    /\ a \in [0 .. Len(stores) -> Heap] /\ a[0] = h
    /\ \A i \in 1 .. Len(stores) : a[i] = Put(a[i - 1], stores[i])

\* The rounds of Apply exist, and the last of them is its result.
LEMMA ApplyRounds ==
    ASSUME NEW h \in Heap, NEW stores \in Seq(Store)
    PROVE  /\ \E a : Made(h, stores, a)
           /\ \A a : Made(h, stores, a) => Apply(h, stores) = a[Len(stores)]
  <1> DEFINE N == Len(stores)
             Good(n, a) == a[0] = h /\ \A i \in 1 .. n : a[i] = Put(a[i - 1], stores[i])
             S == {n \in Nat : n <= N => \E a \in [0 .. n -> Heap] : Good(n, a)}
             made[i \in 0 .. N] == IF i = 0 THEN h ELSE Put(made[i - 1], stores[i])
  <1>1. N \in Nat /\ \A i \in 1 .. N : stores[i] \in Store
    BY LenProperties
  <1> HIDE DEF N
  <1>2. 0 \in S
    <2> DEFINE a == [i \in 0 .. 0 |-> h]
    <2>1. a \in [0 .. 0 -> Heap] /\ Good(0, a)
      OBVIOUS
    <2> QED BY <2>1
  <1>3. ASSUME NEW n \in 0 .. N - 1, n \in S PROVE n + 1 \in S
    <2>1. PICK a \in [0 .. n -> Heap] : Good(n, a)
      BY <1>3, <1>1
    <2> DEFINE b == [i \in 0 .. n + 1 |-> IF i <= n THEN a[i] ELSE Put(a[n], stores[n + 1])]
    <2>2. b \in [0 .. n + 1 -> Heap]
      <3>1. Put(a[n], stores[n + 1]) \in Heap
        BY <2>1, <1>1, PutType
      <3> QED BY <2>1, <3>1, <1>1
    <2>3. Good(n + 1, b)
      <3>1. b[0] = h
        BY <2>1, <1>1
      <3>2. ASSUME NEW i \in 1 .. n + 1 PROVE b[i] = Put(b[i - 1], stores[i])
        <4>1. CASE i <= n
          <5>1. b[i] = a[i] /\ b[i - 1] = a[i - 1] /\ i \in 1 .. n
            BY <4>1, <1>1
          <5> QED BY <5>1, <2>1
        <4>2. CASE i = n + 1
          <5>1. b[i] = Put(a[n], stores[n + 1]) /\ b[i - 1] = a[n]
            BY <4>2, <1>1
          <5> QED BY <5>1, <4>2
        <4> QED BY <4>1, <4>2, <1>1
      <3> QED BY <3>1, <3>2
    <2> HIDE DEF b
    <2> QED BY <2>2, <2>3, <1>1
  <1>4. N \in S
    <2>1. 0 .. N \subseteq S
      BY <1>1, <1>2, <1>3, UpTo, Zenon
    <2> QED BY <2>1, <1>1
  <1>5. PICK a \in [0 .. N -> Heap] : Good(N, a)
    BY <1>4, <1>1
  <1>6. a = [i \in 0 .. N |-> IF i = 0 THEN h ELSE Put(a[i - 1], stores[i])]
    <2>1. \A i \in 0 .. N : a[i] = IF i = 0 THEN h ELSE Put(a[i - 1], stores[i])
      BY <1>5, <1>1
    <2> QED BY <2>1, Zenon
  <1>7. made = [i \in 0 .. N |-> IF i = 0 THEN h ELSE Put(made[i - 1], stores[i])]
    BY <1>6, Zenon
  <1> HIDE DEF made
  <1>8. ASSUME NEW b, Made(h, stores, b) PROVE made[N] = b[N]
    <2>0. b[0] = h /\ \A i \in 1 .. N : b[i] = Put(b[i - 1], stores[i])
      BY <1>8 DEF Made, N
    <2> DEFINE E == {i \in 0 .. N : made[i] = b[i]}
    <2>1. 0 \in E
      BY <2>0, <1>7, <1>1
    <2>2. ASSUME NEW i \in 0 .. N - 1, i \in E PROVE i + 1 \in E
      <3>1. i + 1 \in 1 .. N /\ (i + 1) - 1 = i /\ i + 1 # 0 /\ i + 1 \in 0 .. N
        BY <1>1
      <3>2. made[i + 1] = Put(made[i], stores[i + 1]) /\ b[i + 1] = Put(b[i], stores[i + 1])
        BY <3>1, <2>0, <1>7
      <3> QED BY <3>1, <3>2, <2>2
    <2>3. 0 .. N \subseteq E
      BY <1>1, <2>1, <2>2, UpTo, Zenon
    <2> QED BY <2>3, <1>1
  <1>9. Apply(h, stores) = made[N]
    BY Zenon DEF Apply, made, N
  <1>10. Made(h, stores, a)
    BY <1>5, Zenon DEF Made, N
  <1> QED
    BY <1>8, <1>9, <1>10 DEF N

\* Stores leave a heap a heap.
LEMMA ApplyType ==
    ASSUME NEW h \in Heap, NEW stores \in Seq(Store)
    PROVE  Apply(h, stores) \in Heap
  <1>1. PICK a : Made(h, stores, a)
    BY ApplyRounds
  <1>2. Apply(h, stores) = a[Len(stores)] /\ Len(stores) \in Nat
    BY <1>1, ApplyRounds
  <1> QED
    BY <1>1, <1>2 DEF Made

\* No store
LEMMA ApplyNone ==
    ASSUME NEW h \in Heap
    PROVE  Apply(h, <<>>) = h
  <1>1. <<>> \in Seq(Store) /\ Len(<<>>) = 0
    OBVIOUS
  <1>2. PICK a : Made(h, <<>>, a)
    BY <1>1, ApplyRounds
  <1>3. Apply(h, <<>>) = a[0]
    BY <1>1, <1>2, ApplyRounds
  <1> QED
    BY <1>2, <1>3 DEF Made

\* One store
LEMMA ApplyOne ==
    ASSUME NEW h \in Heap, NEW st \in Store
    PROVE  Apply(h, <<st>>) = Put(h, st)
  <1>1. <<st>> \in Seq(Store) /\ Len(<<st>>) = 1 /\ <<st>>[1] = st
    OBVIOUS
  <1>2. PICK a : Made(h, <<st>>, a)
    BY <1>1, ApplyRounds
  <1>3. Apply(h, <<st>>) = a[1]
    BY <1>1, <1>2, ApplyRounds
  <1>4. a[0] = h /\ a[1] = Put(a[1 - 1], <<st>>[1])
    BY <1>1, <1>2 DEF Made
  <1> QED
    BY <1>1, <1>3, <1>4

\* Stores after other stores
LEMMA ApplyConcat ==
    ASSUME NEW h \in Heap, NEW s \in Seq(Store), NEW t \in Seq(Store)
    PROVE  s \o t \in Seq(Store) /\ Apply(h, s \o t) = Apply(Apply(h, s), t)
  <1> DEFINE u == s \o t
             m == Len(s)
             n == Len(t)
  <1>1. /\ u \in Seq(Store) /\ m \in Nat /\ n \in Nat /\ Len(u) = m + n
        /\ \A i \in 1 .. m : u[i] = s[i]
        /\ \A i \in 1 .. n : u[m + i] = t[i]
    OBVIOUS
  <1>2. PICK a : Made(h, s, a)
    BY ApplyRounds
  <1> PICK g : g = Apply(h, s)
    OBVIOUS
  <1>3. g = a[m] /\ g \in Heap
    BY <1>2, ApplyRounds, ApplyType
  <1>4. PICK b : Made(g, t, b)
    BY <1>3, ApplyRounds
  <1>5. Apply(g, t) = b[n]
    BY <1>3, <1>4, ApplyRounds
  <1> HIDE DEF u, m, n
  <1> DEFINE c == [i \in 0 .. m + n |-> IF i <= m THEN a[i] ELSE b[i - m]]
  <1>6. /\ a \in [0 .. m -> Heap] /\ a[0] = h /\ \A i \in 1 .. m : a[i] = Put(a[i - 1], s[i])
        /\ b \in [0 .. n -> Heap] /\ b[0] = g /\ \A i \in 1 .. n : b[i] = Put(b[i - 1], t[i])
    BY <1>2, <1>4 DEF Made, m, n
  <1>7. c \in [0 .. m + n -> Heap]
    BY <1>6, <1>1
  <1>8. c[0] = h
    BY <1>6, <1>1
  <1>9. ASSUME NEW i \in 1 .. m + n PROVE c[i] = Put(c[i - 1], u[i])
    <2>1. CASE i <= m
      <3>1. c[i] = a[i] /\ c[i - 1] = a[i - 1] /\ i \in 1 .. m
        BY <2>1, <1>1
      <3>2. u[i] = s[i] /\ a[i] = Put(a[i - 1], s[i])
        BY <3>1, <1>1, <1>6
      <3> QED BY <3>1, <3>2
    <2>2. CASE i > m
      <3> PICK j : j = i - m
        OBVIOUS
      <3>1. j \in 1 .. n /\ i = m + j
        BY <2>2, <1>1
      <3>2. c[i] = b[j]
        BY <2>2, <3>1, <1>1
      <3>3. c[i - 1] = b[j - 1]
        <4>1. CASE j = 1
          BY <4>1, <3>1, <1>1, <1>3, <1>6
        <4>2. CASE j > 1
          BY <4>2, <3>1, <1>1
        <4> QED BY <4>1, <4>2, <3>1
      <3>4. u[i] = t[j] /\ b[j] = Put(b[j - 1], t[j])
        BY <3>1, <1>1, <1>6
      <3> QED BY <3>2, <3>3, <3>4
    <2> QED BY <2>1, <2>2, <1>1
  <1>10. Made(h, u, c)
    BY <1>1, <1>7, <1>8, <1>9 DEF Made
  <1>11. c[m + n] = b[n]
    <2>1. CASE n = 0
      BY <2>1, <1>1, <1>3, <1>6
    <2>2. CASE n # 0
      BY <2>2, <1>1
    <2> QED BY <2>1, <2>2
  <1>12. Apply(h, u) = c[m + n]
    <2>1. u \in Seq(Store) /\ Len(u) = m + n
      BY <1>1
    <2>2. \A r : Made(h, u, r) => Apply(h, u) = r[Len(u)]
      BY ONLY h \in Heap, <2>1, ApplyRounds
    <2>3. Apply(h, u) = c[Len(u)]
      BY ONLY <2>2, <1>10
    <2> QED BY ONLY <2>1, <2>3
  <1> QED
    BY <1>1, <1>5, <1>11, <1>12 DEF u

-----------------------------------------------------------------------------
\* Whatever a ^C leaves of some stores is in S.
Along(h, stores, S) == \A k \in 0 .. Len(stores) : Apply(h, SubSeq(stores, 1, k)) \in S

\* No store
LEMMA AlongNone ==
    ASSUME NEW h \in Heap, NEW S, h \in S
    PROVE  <<>> \in Seq(Store) /\ Along(h, <<>>, S) /\ Apply(h, <<>>) = h
  <1>1. Len(<<>>) = 0 /\ SubSeq(<<>>, 1, 0) = <<>> /\ <<>> \in Seq(Store)
    OBVIOUS
  <1>2. Apply(h, <<>>) = h
    BY ApplyNone
  <1>3. ASSUME NEW k \in 0 .. Len(<<>>) PROVE Apply(h, SubSeq(<<>>, 1, k)) \in S
    <2>1. k = 0
      BY <1>1
    <2> QED BY <1>1, <1>2, <2>1
  <1> QED
    BY <1>1, <1>2, <1>3 DEF Along

\* One store
LEMMA AlongOne ==
    ASSUME NEW h \in Heap, NEW S, h \in S, NEW st \in Store, Put(h, st) \in S
    PROVE  /\ <<st>> \in Seq(Store) /\ Along(h, <<st>>, S)
           /\ Apply(h, <<st>>) = Put(h, st) /\ Put(h, st) \in Heap
  <1>1. Len(<<st>>) = 1 /\ SubSeq(<<st>>, 1, 0) = <<>> /\ SubSeq(<<st>>, 1, 1) = <<st>>
    <2>1. <<st>> \in Seq(Store) /\ Len(<<st>>) = 1
      OBVIOUS
    <2>2. SubSeq(<<st>>, 1, 0) = <<>>
      BY <2>1
    <2>3. SubSeq(<<st>>, 1, 1) = <<st>>
      BY <2>1, SubSeqFull
    <2> QED BY <2>1, <2>2, <2>3
  <1>2. Apply(h, <<>>) = h /\ Apply(h, <<st>>) = Put(h, st)
    BY ApplyNone, ApplyOne
  <1>3. ASSUME NEW k \in 0 .. Len(<<st>>) PROVE Apply(h, SubSeq(<<st>>, 1, k)) \in S
    <2>1. k = 0 \/ k = 1
      BY <1>1
    <2> QED BY <1>1, <1>2, <2>1
  <1>4. Along(h, <<st>>, S)
    BY <1>3 DEF Along
  <1> QED
    BY <1>2, <1>4, PutType

\* Stores after other stores
LEMMA AlongConcat ==
    ASSUME NEW h \in Heap, NEW S, NEW s \in Seq(Store), NEW t \in Seq(Store),
           Along(h, s, S), Along(Apply(h, s), t, S)
    PROVE  /\ s \o t \in Seq(Store) /\ Along(h, s \o t, S)
           /\ Apply(h, s \o t) = Apply(Apply(h, s), t) /\ Apply(h, s \o t) \in Heap
  <1>1. s \o t \in Seq(Store) /\ Len(s \o t) = Len(s) + Len(t) /\ Len(s) \in Nat /\ Len(t) \in Nat
    OBVIOUS
  <1>2. ASSUME NEW k \in 0 .. Len(s \o t) PROVE Apply(h, SubSeq(s \o t, 1, k)) \in S
    <2>1. CASE k <= Len(s)
      <3>1. SubSeq(s \o t, 1, k) = SubSeq(s, 1, k) /\ k \in 0 .. Len(s)
        BY <2>1, <1>1
      <3> QED BY <3>1 DEF Along
    <2>2. CASE k > Len(s)
      <3> PICK j : j = k - Len(s)
        OBVIOUS
      <3>1. j \in 0 .. Len(t) /\ k = Len(s) + j
        BY <2>2, <1>1
      <3> PICK v : v = SubSeq(t, 1, j)
        OBVIOUS
      <3>2. v \in Seq(Store) /\ Len(v) = j /\ \A i \in 1 .. j : v[i] = t[i]
        BY <3>1
      <3> PICK w : w = s \o t
        OBVIOUS
      <3>w. w \in Seq(Store) /\ Len(w) = Len(s) + Len(t) /\ Len(s) \in Nat /\ Len(t) \in Nat
            /\ \A i \in 1 .. Len(w) : w[i] = IF i <= Len(s) THEN s[i] ELSE t[i - Len(s)]
        BY <1>1
      <3> PICK x : x = SubSeq(w, 1, k)
        OBVIOUS
      <3>x. x \in Seq(Store) /\ Len(x) = k /\ \A i \in 1 .. k : x[i] = w[i]
        BY <3>w, <3>1
      <3> PICK y : y = s \o v
        OBVIOUS
      <3>y. y \in Seq(Store) /\ Len(y) = k
            /\ \A i \in 1 .. k : y[i] = IF i <= Len(s) THEN s[i] ELSE v[i - Len(s)]
        BY <3>2, <3>w, <3>1
      <3>z. \A i \in 1 .. k : x[i] = y[i]
        BY <3>w, <3>x, <3>y, <3>1, <3>2
      <3>3. SubSeq(s \o t, 1, k) = s \o v
        BY <3>x, <3>y, <3>z
      <3>4. Apply(h, s \o v) = Apply(Apply(h, s), v)
        BY <3>2, ApplyConcat
      <3>5. Apply(Apply(h, s), v) \in S
        BY <3>1 DEF Along
      <3> QED BY <3>3, <3>4, <3>5
    <2> QED BY <2>1, <2>2, <1>1
  <1> QED
    BY <1>1, <1>2, ApplyConcat, ApplyType DEF Along

\* The links of an element
Field == {"left", "right", "parent"}

\* A store into a link
LEMMA PutField ==
    ASSUME NEW h \in Heap, NEW f \in Field, NEW n \in Node, NEW x \in Pointer
    PROVE  LET g == Put(h, <<f, n, x>>) IN
           /\ <<f, n, x>> \in Store /\ g \in Heap /\ g.root = h.root /\ g.color = h.color
           /\ \A e \in Field, m \in Node : g[e][m] = IF e = f /\ m = n THEN x ELSE h[e][m]
  <1> PICK g : g = Put(h, <<f, n, x>>)
    OBVIOUS
  <1>1. <<f, n, x>> \in Store
    BY DEF Store, Field, Pointer
  <1>2. g = [h EXCEPT ![f][n] = x]
    BY DEF Put, Field
  <1>3. g \in Heap
    BY <1>1, PutType
  <1>4. g.root = h.root /\ g.color = h.color
    BY <1>2 DEF Heap, Field
  <1>5. \A e \in Field, m \in Node : g[e][m] = IF e = f /\ m = n THEN x ELSE h[e][m]
    BY <1>2 DEF Heap, Field
  <1> QED
    BY <1>1, <1>3, <1>4, <1>5

\* A store into the root
LEMMA PutRoot ==
    ASSUME NEW h \in Heap, NEW x \in Pointer
    PROVE  LET g == Put(h, <<"root", Null, x>>) IN
           /\ <<"root", Null, x>> \in Store /\ g \in Heap /\ g.root = x /\ g.color = h.color
           /\ \A e \in Field : g[e] = h[e]
  <1>1. <<"root", Null, x>> \in Store
    BY DEF Store, Pointer
  <1>2. Put(h, <<"root", Null, x>>) = [h EXCEPT !.root = x]
    BY DEF Put
  <1> QED
    BY <1>1, <1>2, PutType DEF Heap, Field

\* The colors
Shade == {"red", "black"}

\* A store into a color
LEMMA PutColor ==
    ASSUME NEW h \in Heap, NEW n \in Node, NEW x \in Shade, NEW g,
           g = Put(h, <<"color", n, x>>)
    PROVE  /\ <<"color", n, x>> \in Store /\ g \in Heap /\ g.root = h.root
           /\ \A e \in Field : g[e] = h[e]
           /\ \A m \in Node : g.color[m] = IF m = n THEN x ELSE h.color[m]
  <1>1. <<"color", n, x>> \in Store
    BY DEF Store, Pointer, Shade
  <1>2. g = [h EXCEPT !["color"][n] = x]
    BY DEF Put
  <1>3. g \in Heap
    BY <1>1, PutType
  <1> QED
    BY <1>1, <1>2, <1>3 DEF Heap, Field, Shade

-----------------------------------------------------------------------------
\* What xcalloc returns
Fresh(h, n) == (\A e \in Field : h[e][n] = Null) /\ h.color[n] = "black"

\* Search trees that leave the elements of F alone
SafeHeaps(F) == {g \in Heap : /\ IsSearchTree(g) /\ Reach(g) \cap F = {}
                              /\ \A n \in F : Fresh(g, n)}

\* left and right are links.
SideField == Side \subseteq Field /\ "parent" \in Field /\ "left" \in Side /\ "right" \in Side

\* left and right are links.
LEMMA SidesAreFields == SideField
  BY DEF SideField, Side, Field

\* What is reachable depends on the links down only.
LEMMA SameLinks ==
    ASSUME NEW h \in Heap, NEW g \in Heap, g.root = h.root,
           \A x \in Side, m \in Node : g[x][m] = h[x][m]
    PROVE  /\ \A n \in Pointer : Below(g, n) = Below(h, n)
           /\ Reach(g) = Reach(h) /\ (IsSearchTree(g) <=> IsSearchTree(h))
  <1>1. \A S \in SUBSET Node : Closed(g, S) <=> Closed(h, S)
    BY DEF Closed
  <1>2. ASSUME NEW n \in Pointer PROVE Below(g, n) = Below(h, n)
    <2>1. Below(g, n) \in SUBSET Node /\ Below(h, n) \in SUBSET Node
      BY BelowLeast
    <2>2. Closed(h, Below(g, n)) /\ Closed(g, Below(h, n))
      BY <1>1, <2>1, BelowLeast
    <2>3. n \in Below(g, n) \cup {Null} /\ n \in Below(h, n) \cup {Null}
      BY BelowLeast
    <2>4. Below(g, n) \subseteq Below(h, n)
      BY <2>1, <2>2, <2>3, BelowLeast
    <2>5. Below(h, n) \subseteq Below(g, n)
      BY <2>1, <2>2, <2>3, BelowLeast
    <2> QED BY <2>4, <2>5
  <1>3. Reach(g) = Reach(h) /\ Reach(h) \in SUBSET Node
    BY <1>2, HeapFacts, ReachFacts DEF Reach
  <1>4. \A n \in Reach(h), x \in Side : Below(g, g[x][n]) = Below(h, h[x][n])
    BY <1>2, <1>3, HeapFacts
  <1>5. IsSearchTree(g) <=> IsSearchTree(h)
    BY <1>3, <1>4, SearchTreeSides
  <1> QED
    BY <1>2, <1>3, <1>5

\* A store into a link up changes neither the order nor what is in the tree.
LEMMA PutParentSafe ==
    ASSUME NEW F \in SUBSET Node, NEW h \in SafeHeaps(F), NEW n \in Node, n \notin F, NEW x \in Pointer
    PROVE  Put(h, <<"parent", n, x>>) \in SafeHeaps(F)
  <1> PICK g : g = Put(h, <<"parent", n, x>>)
    OBVIOUS
  <1>1. h \in Heap /\ IsSearchTree(h) /\ Reach(h) \cap F = {} /\ \A m \in F : Fresh(h, m)
    BY DEF SafeHeaps
  <1>2. /\ g \in Heap /\ g.root = h.root /\ g.color = h.color
        /\ \A e \in Field, m \in Node : g[e][m] = IF e = "parent" /\ m = n THEN x ELSE h[e][m]
    <2>1. "parent" \in Field /\ n \in Node /\ x \in Pointer
      BY DEF Field
    <2> QED BY ONLY <1>1, <2>1, g = Put(h, <<"parent", n, x>>), PutField
  <1>3. \A y \in Side, m \in Node : g[y][m] = h[y][m]
    BY <1>2 DEF Field, Side
  <1>4. Reach(g) = Reach(h) /\ IsSearchTree(g)
    BY <1>1, <1>2, <1>3, SameLinks
  <1>5. ASSUME NEW m \in F PROVE Fresh(g, m)
    BY <1>1, <1>2 DEF Fresh
  <1> QED
    BY <1>1, <1>2, <1>4, <1>5 DEF SafeHeaps

-----------------------------------------------------------------------------
(* Stores that may be interrupted, and rotation *)

\* Some stores made: all on the way is in S, and g is what they lead to.
Leads(h, stores, S, g) ==
    /\ stores \in Seq(Store) /\ Along(h, stores, S)
    /\ Apply(h, stores) = g /\ g \in Heap /\ g \in S

\* No store
LEMMA LeadsNone ==
    ASSUME NEW h \in Heap, NEW S, h \in S
    PROVE  Leads(h, <<>>, S, h)
  BY AlongNone DEF Leads

\* One store
LEMMA LeadsOne ==
    ASSUME NEW h \in Heap, NEW S, h \in S, NEW st \in Store, Put(h, st) \in S
    PROVE  Leads(h, <<st>>, S, Put(h, st))
  BY AlongOne DEF Leads

\* Stores after other stores
LEMMA LeadsOn ==
    ASSUME NEW h \in Heap, NEW S, NEW g, NEW f, NEW s, NEW t, Leads(h, s, S, g), Leads(g, t, S, f)
    PROVE  Leads(h, s \o t, S, f)
  <1>1. /\ s \in Seq(Store) /\ t \in Seq(Store) /\ Along(h, s, S) /\ Along(Apply(h, s), t, S)
        /\ Apply(Apply(h, s), t) = f /\ f \in Heap /\ f \in S
    BY DEF Leads
  <1>2. /\ s \o t \in Seq(Store) /\ Along(h, s \o t, S)
        /\ Apply(h, s \o t) = Apply(Apply(h, s), t)
    BY <1>1, AlongConcat
  <1> QED
    BY <1>1, <1>2 DEF Leads

\* Two stores
LEMMA LeadsTwo ==
    ASSUME NEW h \in Heap, NEW S, NEW a, NEW b, NEW g, NEW f,
           Leads(h, <<a>>, S, g), Leads(g, <<b>>, S, f)
    PROVE  Leads(h, <<a, b>>, S, f)
  <1>1. <<a>> \o <<b>> = <<a, b>>
    <2>1. <<a>> \in Seq({a, b}) /\ <<b>> \in Seq({a, b}) /\ <<a, b>> \in Seq({a, b})
      OBVIOUS
    <2> PICK u : u = <<a>> \o <<b>>
      OBVIOUS
    <2>2. u \in Seq({a, b}) /\ Len(u) = 2 /\ u[1] = a /\ u[2] = b
      BY <2>1
    <2>3. PICK v : v = <<a, b>>
      OBVIOUS
    <2>4. v \in Seq({a, b}) /\ Len(v) = 2 /\ v[1] = a /\ v[2] = b
      BY <2>3
    <2>5. u = v
      <3>1. ASSUME NEW i \in 1 .. Len(u) PROVE u[i] = v[i]
        <4>1. i = 1 \/ i = 2
          BY <2>2
        <4> QED BY <2>2, <2>4, <4>1
      <3> QED BY <2>2, <2>4, <3>1, SeqEqual
    <2> QED BY <2>3, <2>5
  <1>2. Leads(h, <<a>> \o <<b>>, S, f)
    BY LeadsOn
  <1> QED
    BY <1>1, <1>2

\* A store into the link up of a child that may not be there
LEMMA LeadsParent ==
    ASSUME NEW F \in SUBSET Node, NEW h \in SafeHeaps(F), NEW n \in Pointer, n \notin F,
           NEW x \in Pointer
    PROVE  Leads(h, PutIf("parent", n, x), SafeHeaps(F),
                 IF n = Null THEN h ELSE Put(h, <<"parent", n, x>>))
  <1>1. h \in Heap
    BY DEF SafeHeaps
  <1>2. CASE n = Null
    BY <1>1, <1>2, LeadsNone DEF PutIf
  <1>3. CASE n # Null
    <2>1. n \in Node /\ <<"parent", n, x>> \in Store
      BY <1>1, <1>3, PutField DEF Pointer, Field
    <2>2. Put(h, <<"parent", n, x>>) \in SafeHeaps(F)
      BY <2>1, PutParentSafe
    <2> QED BY <1>1, <1>3, <2>1, <2>2, LeadsOne DEF PutIf
  <1> QED
    BY <1>2, <1>3

\* What stands behind a link
LinkRight(g, T, K, n, x) ==
    g[x][n] # Null => g[x][n] \in T /\ \A k \in K[g[x][n]] : k \in K[n] /\ On(x, k, Key(n))

\* What is certified is safe, if the freed elements are untouched and outside.
LEMMA SafeByCertificate ==
    ASSUME NEW F \in SUBSET Node, NEW g \in Heap, NEW T \in SUBSET Node, NEW K,
           T \cap F = {}, \A n \in F : Fresh(g, n), g.root \in T \cup {Null},
           \A n \in T : Key(n) \in K[n],
           \A n \in T, x \in Side : LinkRight(g, T, K, n, x)
    PROVE  g \in SafeHeaps(F) /\ Certified(g, T, K)
  <1>1. Closed(g, T)
    BY DEF Closed, LinkRight
  <1>2. Certified(g, T, K)
    BY <1>1 DEF Certified, LinkRight
  <1>3. IsSearchTree(g) /\ Reach(g) \subseteq T
    BY <1>2, CertifiedOrder
  <1> QED
    BY <1>2, <1>3 DEF SafeHeaps

\* Fresh elements stay fresh where no store is about them.
LEMMA PutFresh ==
    ASSUME NEW h \in Heap, NEW F \in SUBSET Node, \A n \in F : Fresh(h, n),
           NEW f \in Field, NEW n \in Node, n \notin F, NEW x \in Pointer
    PROVE  /\ \A m \in F : Fresh(Put(h, <<f, n, x>>), m)
           /\ \A m \in F : Fresh(Put(h, <<"root", Null, x>>), m)
  <1>1. ASSUME NEW m \in F PROVE Fresh(Put(h, <<f, n, x>>), m)
    BY PutField DEF Fresh
  <1>2. ASSUME NEW m \in F PROVE Fresh(Put(h, <<"root", Null, x>>), m)
    BY PutRoot DEF Fresh
  <1> QED
    BY <1>1, <1>2

-----------------------------------------------------------------------------
\* The heaps on the way through a rotation
RotatedBy(h, s, e, g) ==
    LET o == Other[s]
        t == h[o][e]
        c == h[s][t]
        p == h.parent[e]
    IN  /\ g \in Heap /\ g.color = h.color
        /\ g.root = IF p = Null THEN t ELSE h.root
        /\ \A m \in Node : g[s][m] = IF m = t THEN e
                                     ELSE IF m = p /\ h[s][p] = e THEN t ELSE h[s][m]
        /\ \A m \in Node : g[o][m] = IF m = e THEN c
                                     ELSE IF m = p /\ h[o][p] = e THEN t ELSE h[o][m]
        /\ \A m \in Node : g.parent[m] = IF m = e THEN t ELSE IF m = t THEN p
                                         ELSE IF m = c THEN e ELSE h.parent[m]

\* The elements a rotation is about
TurnCast(h, s, e, o, t, c, p) == o = Other[s] /\ t = h[o][e] /\ c = h[s][t] /\ p = h.parent[e]

\* They are different ones.
LEMMA RotateCast ==
    ASSUME NEW h, RightTree(h), NEW s \in Side, NEW e \in Reach(h),
           NEW o, NEW t, NEW c, NEW p, TurnCast(h, s, e, o, t, c, p), t # Null
    PROVE  /\ {e, t} \subseteq Reach(h) /\ {c, p} \subseteq Reach(h) \cup {Null}
           /\ Reach(h) \in SUBSET Node /\ Null \notin Reach(h)
           /\ e # t /\ c # e /\ c # t /\ p # e /\ p # t /\ (c # Null => c # p)
           /\ h.parent[t] = e /\ (c # Null => h.parent[c] = t)
           /\ (p = Null <=> h.root = e) /\ h.root # t /\ (h.root = c => c = Null)
           /\ p # Null => \E x \in Side : h[x][p] = e /\ h[Other[x]][p] # e
           /\ o \in Side /\ s # o /\ Side = {s, o} /\ h \in Heap
  <1>cast. o = Other[s] /\ t = h[o][e] /\ c = h[s][t] /\ p = h.parent[e]
    BY DEF TurnCast
  <1>0. /\ h \in Heap /\ IsSearchTree(h) /\ o \in Side /\ s # o /\ Side = {s, o}
        /\ o = Other[s] /\ t = h[o][e] /\ c = h[s][t] /\ p = h.parent[e]
    BY <1>cast, OtherSide DEF RightTree
  <1>1. /\ Reach(h) \in SUBSET Node /\ Closed(h, Reach(h)) /\ h.root \in Reach(h) \cup {Null}
        /\ Null \notin Reach(h)
    BY <1>0, ReachFacts, NodeFacts
  <1>2. t \in Reach(h) /\ c \in Reach(h) \cup {Null}
    BY <1>0, <1>1 DEF Closed
  <1>3. p \in Reach(h) \cup {Null} /\ (p = Null <=> h.root = e) /\ p # e
    BY <1>0, Links
  <1>child. ASSUME NEW n \in Reach(h), NEW y \in Side, NEW x \in Reach(h), x = h[y][n]
            PROVE  h.parent[x] = n /\ h.root # x /\ x # n
    <2>1. h.parent[x] = n
      BY ONLY RightTree(h), <1>child, Links
    <2>2. h.root # x /\ h.parent[x] # x
      BY ONLY RightTree(h), <1>child, <1>1, <2>1, Links
    <2> QED BY <2>1, <2>2
  <1>4. h.parent[t] = e /\ h.root # t /\ t # e
    BY <1>child, <1>0, <1>2
  <1>5. c # Null => h.parent[c] = t /\ h.root # c /\ c # t
    BY <1>child, <1>0, <1>2
  <1>6. c # Null => c # e
    <2> SUFFICES ASSUME c # Null, c = e PROVE FALSE
      OBVIOUS
    <2>1. t \in Pointer /\ t \in Node
      BY <1>1, <1>2 DEF Pointer
    <2>2. Closed(h, Below(h, t)) /\ t \in Below(h, t)
      BY <2>1, <1>0, BelowLeast
    <2>3. c \in Below(h, t)
      BY <2>1, <2>2, <1>0 DEF Closed
    <2>4. e \notin Below(h, h[o][e])
      BY ONLY <1>0, e \in Reach(h), NotBelowChild
    <2> QED BY <2>3, <2>4, <1>0
  <1>7. p # Null => p # t /\ (c # Null => c # p)
    <2> SUFFICES ASSUME p # Null PROVE p # t /\ (c # Null => c # p)
      OBVIOUS
    <2>1. PICK x \in Side : h[x][p] = e
      BY <1>0, <1>3, Links
    <2>2. p \in Reach(h) /\ e \in Node /\ e \in Below(h, e) /\ t \in Below(h, e)
      <3>1. e \in Node /\ e \in Pointer
        BY <1>1 DEF Pointer
      <3> QED BY <3>1, <1>0, <1>2, <1>3, BelowLeast, NodeFacts DEF Closed
    <2>3. c # Null => c \in Below(h, e)
      <3>1. e \in Pointer
        BY <2>2 DEF Pointer
      <3> QED BY <3>1, <2>2, <1>0, BelowLeast DEF Closed
    <2>4. p \notin Below(h, e)
      BY <2>1, <2>2, <1>0, NotBelowChild
    <2> QED BY <2>2, <2>3, <2>4
  <1>8. p # Null => \E x \in Side : h[x][p] = e /\ h[Other[x]][p] # e
    <2> SUFFICES ASSUME p # Null PROVE \E x \in Side : h[x][p] = e /\ h[Other[x]][p] # e
      OBVIOUS
    <2>1. PICK x \in Side : h[x][p] = e
      BY <1>0, <1>3, Links
    <2>2. p \in Reach(h) /\ h[x][p] # Null
      BY <2>1, <1>1, <1>3
    <2> QED BY <2>1, <2>2, <1>0, NotBelowChild
  <1> QED
    BY <1>0, <1>1, <1>2, <1>3, <1>4, <1>5, <1>6, <1>7, <1>8

\* What a safe heap is
LEMMA SafeFacts ==
    ASSUME NEW F, NEW h \in SafeHeaps(F)
    PROVE  /\ h \in Heap /\ IsSearchTree(h) /\ Reach(h) \cap F = {} /\ \A n \in F : Fresh(h, n)
  BY DEF SafeHeaps

\* Each store of a rotation leaves a search tree, and what they come to.
LEMMA RotateLeads ==
    ASSUME NEW F \in SUBSET Node, NEW h \in SafeHeaps(F), RightTree(h),
           NEW s \in Side, NEW e \in Reach(h), h[Other[s]][e] # Null
    PROVE  \E g : Leads(h, Rotate(h, s, e), SafeHeaps(F), g) /\ RotatedBy(h, s, e, g)
  <1>o. PICK o : o = Other[s]
    OBVIOUS
  <1>t. PICK t : t = h[o][e]
    OBVIOUS
  <1>c. PICK c : c = h[s][t]
    OBVIOUS
  <1>p. PICK p : p = h.parent[e]
    OBVIOUS
  <1>R. PICK R : R = Reach(h)
    OBVIOUS
  <1> DEFINE S == SafeHeaps(F)
  <1>0. t = h[o][e] /\ c = h[s][t] /\ p = h.parent[e] /\ R = Reach(h) /\ o = Other[s]
    BY <1>o, <1>t, <1>c, <1>p, <1>R
  <1>1. /\ {e, t} \subseteq R /\ {c, p} \subseteq R \cup {Null}
        /\ R \in SUBSET Node /\ Null \notin R
        /\ e # t /\ c # e /\ c # t /\ p # e /\ p # t /\ (c # Null => c # p)
        /\ h.parent[t] = e /\ (c # Null => h.parent[c] = t)
        /\ (p = Null <=> h.root = e) /\ h.root # t /\ (h.root = c => c = Null)
        /\ p # Null => \E x \in Side : h[x][p] = e /\ h[Other[x]][p] # e
        /\ o \in Side /\ s # o /\ Side = {s, o} /\ h \in Heap
    <2>1. /\ RightTree(h) /\ s \in Side /\ e \in Reach(h) /\ t # Null
          /\ TurnCast(h, s, e, o, t, c, p)
      BY <1>0 DEF TurnCast
    <2> QED BY ONLY <2>1, <1>R, RotateCast, SMTT(60)
  <1>2. IsSearchTree(h) /\ R \cap F = {} /\ \A n \in F : Fresh(h, n)
    BY <1>0, SafeFacts
  <1>3. {e, t} \subseteq Node \ F /\ {c, p} \subseteq (Node \ F) \cup {Null}
        /\ {e, t, c, p} \subseteq Pointer
    BY <1>1, <1>2 DEF Pointer
  <1>4. s \in Field /\ o \in Field /\ "parent" \in Field /\ s # "parent" /\ o # "parent"
    BY <1>1 DEF Side, Field
  <1>K. PICK K : K = KeysBelow(h)
    OBVIOUS
  <1>5. /\ \A n \in R : Key(n) \in K[n]
        /\ \A n \in R, x \in Side : LinkRight(h, R, K, n, x)
        /\ \A n \in R : K[n] \subseteq Nat /\ Key(n) \in Nat
        /\ h.root \in R \cup {Null}
    <2>1. Certified(h, R, K)
      BY <1>0, <1>K, <1>1, <1>2, OwnCertificate
    <2>2. \A n \in R : K[n] \subseteq Nat /\ Key(n) \in Nat
      BY <1>0, <1>K, <1>1, <1>2, OwnCertificate, NodeFacts
    <2>3. \A n \in R, x \in Side : LinkRight(h, R, K, n, x)
      BY <2>1 DEF Certified, LinkRight, Closed
    <2> QED BY <2>1, <2>2, <2>3 DEF Certified
  \* e's inner child
  <1>h1. PICK h1 : h1 = Put(h, <<o, e, c>>)
    OBVIOUS
  <1>11. /\ <<o, e, c>> \in Store /\ h1 \in Heap /\ h1.root = h.root /\ h1.color = h.color
         /\ \A f \in Field, m \in Node : h1[f][m] = IF f = o /\ m = e THEN c ELSE h[f][m]
    BY <1>h1, <1>1, <1>3, <1>4, PutField
  <1>12. h1 \in S
    <2>1. \A n \in F : Fresh(h1, n)
      BY <1>h1, <1>1, <1>2, <1>3, <1>4, PutFresh
    <2>2. LinkRight(h1, R, K, e, o)
      <3>1. LinkRight(h, R, K, e, o) /\ LinkRight(h, R, K, t, s)
        BY <1>1, <1>5
      <3>2. h1[o][e] = c
        BY <1>11, <1>1, <1>3, <1>4
      <3> QED BY <3>1, <3>2, <1>0, <1>1 DEF LinkRight
    <2>3. ASSUME NEW n \in R, NEW x \in Side PROVE LinkRight(h1, R, K, n, x)
      <3>1. CASE n = e /\ x = o
        BY <2>2, <3>1
      <3>2. CASE ~(n = e /\ x = o)
        <4>1. h1[x][n] = h[x][n]
          BY <3>2, <1>11, <1>1, SidesAreFields DEF SideField
        <4> QED BY <4>1, <1>5 DEF LinkRight
      <3> QED BY <3>1, <3>2
    <2> QED BY <2>1, <2>3, <1>1, <1>2, <1>5, <1>11, SafeByCertificate
  <1>13. Leads(h, <<<<o, e, c>>>>, S, h1)
    BY <1>h1, <1>1, <1>11, <1>12, LeadsOne
  \* its parent
  <1>h2. PICK h2 : h2 = IF c = Null THEN h1 ELSE Put(h1, <<"parent", c, e>>)
    OBVIOUS
  <1>21. Leads(h1, PutIf("parent", c, e), S, h2)
    BY <1>h2, <1>3, <1>12, NodeFacts, LeadsParent
  <1>22. /\ h2 \in Heap /\ h2 \in S /\ h2.root = h.root /\ h2.color = h.color
         /\ \A x \in Side, m \in Node : h2[x][m] = h1[x][m]
         /\ \A m \in Node : h2.parent[m] = IF m = c THEN e ELSE h.parent[m]
    <2>1. h2 \in Heap /\ h2 \in S
      BY <1>21 DEF Leads
    <2>2. CASE c = Null
      BY <1>h2, <2>1, <2>2, <1>11, <1>4, NodeFacts
    <2>3. CASE c # Null
      <3>1. /\ h2.root = h1.root /\ h2.color = h1.color
            /\ \A f \in Field, m \in Node :
                   h2[f][m] = IF f = "parent" /\ m = c THEN e ELSE h1[f][m]
        BY <1>h2, <2>3, <1>3, <1>4, <1>11, PutField
      <3>2. \A x \in Side : x \in Field /\ x # "parent"
        BY DEF Side, Field
      <3> QED BY <2>1, <3>1, <3>2, <1>4, <1>11
    <2> QED BY <2>2, <2>3
  <1>h3. PICK h3 : h3 = Put(h2, <<"parent", t, p>>)
    OBVIOUS
  <1>31. h3 \in S /\ <<"parent", t, p>> \in Store
    BY <1>h3, <1>3, <1>4, <1>22, PutParentSafe, PutField
  <1>32. Leads(h2, <<<<"parent", t, p>>>>, S, h3)
    BY <1>h3, <1>22, <1>31, LeadsOne
  <1>33. /\ h3 \in Heap /\ h3.root = h.root /\ h3.color = h.color
         /\ \A x \in Side, m \in Node : h3[x][m] = h1[x][m]
         /\ \A m \in Node : h3.parent[m] = IF m = t THEN p ELSE IF m = c THEN e ELSE h.parent[m]
    <2>1. /\ h3 \in Heap /\ h3.root = h2.root /\ h3.color = h2.color
          /\ \A f \in Field, m \in Node :
                 h3[f][m] = IF f = "parent" /\ m = t THEN p ELSE h2[f][m]
      BY <1>h3, <1>3, <1>4, <1>22, PutField
    <2>2. \A x \in Side : x \in Field /\ x # "parent"
      BY DEF Side, Field
    <2> QED BY <2>1, <2>2, <1>4, <1>22
  \* t in the place of e
  <1>y. PICK y : y = IF h.left[p] = e THEN "left" ELSE "right"
    OBVIOUS
  <1>h4. PICK h4 : h4 = IF p = Null THEN Put(h3, <<"root", Null, t>>) ELSE Put(h3, <<y, p, t>>)
    OBVIOUS
  <1>41. p # Null => y \in Side /\ y \in Field /\ y # "parent"
                     /\ \A x \in Side : (h[x][p] = e) <=> (x = y)
    <2> SUFFICES ASSUME p # Null
                 PROVE  y \in Side /\ y \in Field /\ y # "parent"
                        /\ \A x \in Side : (h[x][p] = e) <=> (x = y)
      OBVIOUS
    <2>1. PICK x \in Side : h[x][p] = e /\ h[Other[x]][p] # e
      BY <1>1
    <2>2. h["left"] = h.left /\ h["right"] = h.right
      BY <1>1, HeapFacts
    <2>3. x = y /\ y \in Field /\ y # "parent"
      BY <1>y, <2>1, <2>2, OtherSide DEF Side, Field
    <2> QED BY <2>1, <2>3, OtherSide
  <1>42. /\ h4 \in Heap /\ h4.color = h.color /\ h4.root = IF p = Null THEN t ELSE h.root
         /\ \A x \in Side, m \in Node :
                h4[x][m] = IF p # Null /\ m = p /\ x = y THEN t ELSE h1[x][m]
         /\ \A m \in Node : h4.parent[m] = h3.parent[m]
         /\ \A n \in F : Fresh(h4, n)
    <2>0. \A n \in F : Fresh(h3, n)
      BY <1>31, SafeFacts
    <2>1. CASE p = Null
      <3>1. h4 \in Heap /\ h4.root = t /\ h4.color = h3.color /\ \A f \in Field : h4[f] = h3[f]
        BY <1>h4, <2>1, <1>3, <1>33, PutRoot
      <3>2. \A n \in F : Fresh(h4, n)
        BY <1>h4, <2>0, <2>1, <1>3, <1>4, <1>33, PutFresh
      <3> QED BY <2>1, <3>1, <3>2, <1>4, <1>33, SidesAreFields DEF SideField
    <2>2. CASE p # Null
      <3>1. /\ h4 \in Heap /\ h4.root = h3.root /\ h4.color = h3.color
            /\ \A f \in Field, m \in Node : h4[f][m] = IF f = y /\ m = p THEN t ELSE h3[f][m]
        BY <1>h4, <2>2, <1>3, <1>33, <1>41, PutField
      <3>2. \A n \in F : Fresh(h4, n)
        BY <1>h4, <2>0, <2>2, <1>3, <1>33, <1>41, PutFresh
      <3> QED BY <2>2, <3>1, <3>2, <1>4, <1>33, <1>41, SidesAreFields DEF SideField
    <2> QED BY <2>1, <2>2
  <1>43. h4 \in S
    <2>1. ASSUME NEW n \in R, NEW x \in Side PROVE LinkRight(h4, R, K, n, x)
      <3>1. CASE p # Null /\ n = p /\ x = y
        <4>1. LinkRight(h, R, K, p, y) /\ h[y][p] = e /\ LinkRight(h, R, K, e, o)
          BY <3>1, <1>1, <1>5, <1>41
        <4>2. h4[x][n] = t
          BY <3>1, <1>1, <1>42
        <4> QED BY <3>1, <4>1, <4>2, <1>0, <1>1 DEF LinkRight
      <3>2. CASE ~(p # Null /\ n = p /\ x = y)
        <4>1. h4[x][n] = h1[x][n]
          BY <3>2, <1>1, <1>42
        <4>2. CASE n = e /\ x = o
          <5>1. LinkRight(h, R, K, e, o) /\ LinkRight(h, R, K, t, s)
            BY <1>1, <1>5
          <5>2. h4[x][n] = c
            BY <4>1, <4>2, <1>11, <1>1, <1>3, <1>4
          <5> QED BY <4>2, <5>1, <5>2, <1>0, <1>1 DEF LinkRight
        <4>3. CASE ~(n = e /\ x = o)
          <5>1. h4[x][n] = h[x][n]
            BY <4>1, <4>3, <1>11, <1>1, SidesAreFields DEF SideField
          <5> QED BY <5>1, <1>5 DEF LinkRight
        <4> QED BY <4>2, <4>3
      <3> QED BY <3>1, <3>2
    <2>2. h4.root \in R \cup {Null}
      BY <1>1, <1>5, <1>42
    <2> QED BY <2>1, <2>2, <1>1, <1>2, <1>5, <1>42, SafeByCertificate
  <1>44. Leads(h3, Relink(h, p, e, t), S, h4)
    <2>1. CASE p = Null
      <3>1. Relink(h, p, e, t) = <<<<"root", Null, t>>>> /\ <<"root", Null, t>> \in Store
        BY <2>1, <1>3, <1>33, PutRoot DEF Relink
      <3> QED BY <2>1, <3>1, <1>h4, <1>31, <1>33, <1>43, LeadsOne
    <2>2. CASE p # Null
      <3>1. Relink(h, p, e, t) = <<<<y, p, t>>>> /\ <<y, p, t>> \in Store
        BY <1>y, <2>2, <1>3, <1>33, <1>41, PutField DEF Relink
      <3> QED BY <2>2, <3>1, <1>h4, <1>31, <1>33, <1>43, LeadsOne
    <2> QED BY <2>1, <2>2
  \* e under t
  <1>h5. PICK h5 : h5 = Put(h4, <<s, t, e>>)
    OBVIOUS
  <1>51. /\ h5 \in Heap /\ h5.root = h4.root /\ h5.color = h.color /\ <<s, t, e>> \in Store
         /\ \A f \in Field, m \in Node : h5[f][m] = IF f = s /\ m = t THEN e ELSE h4[f][m]
    BY <1>h5, <1>3, <1>4, <1>42, PutField
  <1>52. h5 \in S
    <2> DEFINE L == [n \in Node |-> IF n = t THEN K[e]
                                    ELSE IF n = e THEN {k \in K[e] : On(s, k, Key(t))} ELSE K[n]]
    <2>0. /\ L[t] = K[e] /\ L[e] = {k \in K[e] : On(s, k, Key(t))}
          /\ \A n \in R : n # t /\ n # e => L[n] = K[n]
      BY <1>1, <1>3
    <2> HIDE DEF L
    <2>1. /\ LinkRight(h, R, K, e, o) /\ LinkRight(h, R, K, e, s)
          /\ LinkRight(h, R, K, t, o) /\ LinkRight(h, R, K, t, s)
      BY <1>1, <1>5
    <2>2. Key(t) \in K[t] /\ Key(t) \in K[e] /\ On(o, Key(t), Key(e)) /\ On(s, Key(e), Key(t))
      <3>1. Key(t) \in K[t] /\ Key(t) \in K[e] /\ On(o, Key(t), Key(e))
        BY <2>1, <1>0, <1>1, <1>5 DEF LinkRight
      <3> QED BY <3>1, <1>1, <1>5 DEF On, Side
    <2>3. \A n \in R : Key(n) \in L[n]
      <3>1. Key(e) \in K[e]
        BY <1>1, <1>5
      <3> QED BY <2>0, <2>2, <3>1, <1>1, <1>5
    <2>4. ASSUME NEW n \in R, NEW x \in Side PROVE LinkRight(h5, R, L, n, x)
      <3>0. h5[x][n] = IF x = s /\ n = t THEN e
                       ELSE IF p # Null /\ n = p /\ x = y THEN t
                       ELSE IF x = o /\ n = e THEN c ELSE h[x][n]
        BY <1>51, <1>42, <1>11, <1>1, SidesAreFields DEF SideField
      <3>1. CASE n = t
        <4>1. CASE x = s
          <5>1. h5[x][n] = e
            BY <3>0, <3>1, <4>1
          <5> QED BY <5>1, <3>1, <4>1, <2>0, <1>0, <1>1 DEF LinkRight
        <4>2. CASE x = o
          <5>1. h5[x][n] = h[o][t]
            BY <3>0, <3>1, <4>2, <1>1
          <5>2. h[o][t] # Null => h[o][t] \in R /\ h[o][t] # t /\ h[o][t] # e
            <6>1. t \in Node /\ t \in Pointer
              BY <1>1, <1>3
            <6>2. h[o][t] \in Below(h, t) \cup {Null} /\ h[o][t] \in R \cup {Null}
              BY <6>1, <1>1, <2>1, BelowLeast, NodeFacts DEF Closed, LinkRight
            <6>3. e \notin Below(h, t) /\ h[o][t] # t
              BY <1>0, <1>1, <1>2, NotBelowChild
            <6> QED BY <6>2, <6>3
          <5>3. h[o][t] # Null => \A k \in K[h[o][t]] : k \in K[e] /\ On(o, k, Key(t))
            BY <2>1, <1>0, <1>1 DEF LinkRight
          <5> QED BY <5>1, <5>2, <5>3, <3>1, <4>2, <2>0 DEF LinkRight
        <4> QED BY <4>1, <4>2, <1>1
      <3>2. CASE n = e
        <4>1. CASE x = s
          <5>1. h5[x][n] = h[s][e]
            BY <3>0, <3>2, <4>1, <1>1
          <5>2. h[s][e] # Null => h[s][e] \in R /\ h[s][e] # t /\ h[s][e] # e
            BY <2>1, <1>0, <1>1, <1>2, NotBelowChild DEF LinkRight
          <5>3. h[s][e] # Null => \A k \in K[h[s][e]] : k \in K[e] /\ On(s, k, Key(e))
            BY <2>1 DEF LinkRight
          <5>4. \A k \in Nat : On(s, k, Key(e)) => On(s, k, Key(t))
            BY <2>2, <1>1, <1>5 DEF On
          <5>5. h[s][e] # Null => \A k \in K[h[s][e]] : k \in L[e] /\ On(s, k, Key(e))
            BY <5>2, <5>3, <5>4, <2>0, <1>5
          <5> QED BY <5>1, <5>2, <5>5, <3>2, <4>1, <2>0 DEF LinkRight
        <4>2. CASE x = o
          <5>1. h5[x][n] = c
            BY <3>0, <3>2, <4>2, <1>1
          <5>2. c # Null => \A k \in K[c] : k \in K[t] /\ On(s, k, Key(t))
            BY <2>1, <1>0, <1>1 DEF LinkRight
          <5>3. c # Null => \A k \in K[c] : k \in L[e] /\ On(o, k, Key(e))
            BY <5>2, <2>1, <2>0, <1>0, <1>1 DEF LinkRight
          <5> QED BY <5>1, <5>3, <3>2, <4>2, <2>0, <1>0, <1>1 DEF LinkRight
        <4> QED BY <4>1, <4>2, <1>1
      <3>3. CASE n # t /\ n # e
        <4>1. CASE p # Null /\ n = p /\ x = y
          <5>1. h5[x][n] = t /\ h[y][p] = e /\ LinkRight(h, R, K, p, y)
            BY <3>0, <3>3, <4>1, <1>1, <1>5, <1>41
          <5> QED BY <5>1, <4>1, <3>3, <2>0, <1>0, <1>1 DEF LinkRight
        <4>2. CASE ~(p # Null /\ n = p /\ x = y)
          <5>1. h5[x][n] = h[x][n] /\ LinkRight(h, R, K, n, x)
            BY <3>0, <3>3, <4>2, <1>5
          <5>2. h[x][n] # e /\ h[x][n] # t
            <6>0. \A z \in Reach(h) : h[x][n] = z => h.parent[z] = n
              <7>1. RightTree(h) /\ n \in Reach(h) /\ x \in Side
                BY <1>0
              <7> QED BY ONLY <7>1, Links
            <6>1. h[x][n] = e => p = n
              BY <6>0, <1>0
            <6>2. h[x][n] = t => h.parent[t] = n
              BY <6>0, <1>0, <1>1
            <6> QED BY <6>1, <6>2, <3>3, <4>2, <1>1, <1>41
          <5> QED BY <5>1, <5>2, <3>3, <2>0 DEF LinkRight
        <4> QED BY <4>1, <4>2
      <3> QED BY <3>1, <3>2, <3>3
    <2>5. h5.root \in R \cup {Null}
      BY <1>1, <1>5, <1>42, <1>51
    <2>6. \A n \in F : Fresh(h5, n)
      BY <1>h5, <1>3, <1>4, <1>42, PutFresh
    <2> QED BY <2>3, <2>4, <2>5, <2>6, <1>1, <1>2, <1>51, SafeByCertificate
  <1>53. Leads(h4, <<<<s, t, e>>>>, S, h5)
    BY <1>h5, <1>42, <1>43, <1>51, <1>52, LeadsOne
  <1>h6. PICK h6 : h6 = Put(h5, <<"parent", e, t>>)
    OBVIOUS
  <1>61. h6 \in S /\ <<"parent", e, t>> \in Store
    BY <1>h6, <1>3, <1>4, <1>51, <1>52, PutParentSafe, PutField
  <1>62. Leads(h5, <<<<"parent", e, t>>>>, S, h6)
    BY <1>h6, <1>51, <1>52, <1>61, LeadsOne
  <1>63. Leads(h4, <<<<s, t, e>>, <<"parent", e, t>>>>, S, h6)
    BY <1>42, <1>53, <1>62, LeadsTwo
  <1>64. /\ h6 \in Heap /\ h6.root = h4.root /\ h6.color = h.color
         /\ \A f \in Field, m \in Node :
                h6[f][m] = IF f = "parent" /\ m = e THEN t ELSE h5[f][m]
    BY <1>h6, <1>3, <1>4, <1>51, PutField
  <1> HIDE DEF S
  <1>7. Leads(h, Rotate(h, s, e), S, h6)
    <2>a. PICK a : a = <<<<o, e, c>>>>
      OBVIOUS
    <2>b. PICK b : b = PutIf("parent", c, e)
      OBVIOUS
    <2>d. PICK d : d = <<<<"parent", t, p>>>>
      OBVIOUS
    <2>w. PICK w : w = Relink(h, p, e, t)
      OBVIOUS
    <2>z. PICK z : z = <<<<s, t, e>>, <<"parent", e, t>>>>
      OBVIOUS
    <2>0. Rotate(h, s, e) = a \o b \o d \o w \o z
      BY <2>a, <2>b, <2>d, <2>w, <2>z, <1>0 DEF Rotate
    <2>1. Leads(h, a \o b, S, h2)
      BY <2>a, <2>b, <1>13, <1>21, <1>1, LeadsOn
    <2>2. Leads(h, a \o b \o d, S, h3)
      BY <2>d, <2>1, <1>32, <1>1, LeadsOn
    <2>3. Leads(h, a \o b \o d \o w, S, h4)
      BY <2>w, <2>2, <1>44, <1>1, LeadsOn
    <2>4. Leads(h, a \o b \o d \o w \o z, S, h6)
      BY <2>z, <2>3, <1>63, <1>1, LeadsOn
    <2> QED BY <2>0, <2>4
  <1>8. RotatedBy(h, s, e, h6)
    <2>1. h6.root = IF p = Null THEN t ELSE h.root
      BY <1>42, <1>64
    <2>2. ASSUME NEW m \in Node
          PROVE  h6[s][m] = IF m = t THEN e ELSE IF m = p /\ h[s][p] = e THEN t ELSE h[s][m]
      <3>1. h6[s][m] = IF m = t THEN e ELSE IF p # Null /\ m = p /\ s = y THEN t ELSE h[s][m]
        BY <1>64, <1>51, <1>42, <1>11, <1>1, <1>4
      <3>2. m = p => p # Null
        BY NodeFacts
      <3> QED BY <3>1, <3>2, <1>1, <1>41
    <2>3. ASSUME NEW m \in Node
          PROVE  h6[o][m] = IF m = e THEN c ELSE IF m = p /\ h[o][p] = e THEN t ELSE h[o][m]
      <3>1. h6[o][m] = IF p # Null /\ m = p /\ o = y THEN t ELSE IF m = e THEN c ELSE h[o][m]
        BY <1>64, <1>51, <1>42, <1>11, <1>1, <1>4
      <3>2. m = p => p # Null
        BY NodeFacts
      <3> QED BY <3>1, <3>2, <1>1, <1>41
    <2>4. ASSUME NEW m \in Node
          PROVE  h6.parent[m] = IF m = e THEN t ELSE IF m = t THEN p
                                ELSE IF m = c THEN e ELSE h.parent[m]
      BY <1>64, <1>51, <1>42, <1>33, <1>1, <1>4
    <2> QED BY <2>1, <2>2, <2>3, <2>4, <1>64, <1>0 DEF RotatedBy
  <1> QED
    BY <1>7, <1>8 DEF S

\* A rotation keeps the tree right, and its elements.
LEMMA RotatedTree ==
    ASSUME NEW h, RightTree(h), NEW s \in Side, NEW e \in Reach(h), h[Other[s]][e] # Null,
           NEW g, RotatedBy(h, s, e, g), IsSearchTree(g)
    PROVE  RightTree(g) /\ Reach(g) = Reach(h)
  <1>o. PICK o : o = Other[s]
    OBVIOUS
  <1>t. PICK t : t = h[o][e]
    OBVIOUS
  <1>c. PICK c : c = h[s][t]
    OBVIOUS
  <1>p. PICK p : p = h.parent[e]
    OBVIOUS
  <1>R. PICK R : R = Reach(h)
    OBVIOUS
  <1>Q. PICK Q : Q = Reach(g)
    OBVIOUS
  <1>0. t = h[o][e] /\ c = h[s][t] /\ p = h.parent[e] /\ R = Reach(h) /\ o = Other[s]
    BY <1>o, <1>t, <1>c, <1>p, <1>R
  <1>1. /\ {e, t} \subseteq R /\ {c, p} \subseteq R \cup {Null}
        /\ R \in SUBSET Node /\ Null \notin R
        /\ e # t /\ c # e /\ c # t /\ p # e /\ p # t /\ (c # Null => c # p)
        /\ h.parent[t] = e /\ (c # Null => h.parent[c] = t)
        /\ (p = Null <=> h.root = e) /\ h.root # t /\ (h.root = c => c = Null)
        /\ p # Null => \E x \in Side : h[x][p] = e /\ h[Other[x]][p] # e
        /\ o \in Side /\ s # o /\ Side = {s, o} /\ h \in Heap
    <2>1. /\ RightTree(h) /\ s \in Side /\ e \in Reach(h) /\ t # Null
          /\ TurnCast(h, s, e, o, t, c, p)
      BY <1>0 DEF TurnCast
    <2> QED BY ONLY <2>1, <1>R, RotateCast, SMTT(60)
  <1>2. /\ g \in Heap /\ g.color = h.color
        /\ g.root = IF p = Null THEN t ELSE h.root
        /\ \A m \in Node : g[s][m] = IF m = t THEN e
                                     ELSE IF m = p /\ h[s][p] = e THEN t ELSE h[s][m]
        /\ \A m \in Node : g[o][m] = IF m = e THEN c
                                     ELSE IF m = p /\ h[o][p] = e THEN t ELSE h[o][m]
        /\ \A m \in Node : g.parent[m] = IF m = e THEN t ELSE IF m = t THEN p
                                         ELSE IF m = c THEN e ELSE h.parent[m]
    <2>1. RotatedBy(h, s, e, g)
      OBVIOUS
    <2> QED BY ONLY <2>1, <1>0, SMTT(60) DEF RotatedBy
  <1>3. \A n \in R, x \in Side : h[x][n] \in R \cup {Null} /\ (h[x][n] # Null => h.parent[h[x][n]] = n)
    <2>1. Closed(h, R) /\ \A n \in R, x \in Side : h[x][n] # Null => h.parent[h[x][n]] = n
      <3>1. RightTree(h) /\ R = Reach(h) /\ h \in Heap
        BY <1>0, <1>1
      <3> QED BY ONLY <3>1, ReachFacts DEF RightTree, ParentsRight
    <2> QED BY ONLY <2>1 DEF Closed
  <1>4. h.root \in R \cup {Null} /\ (h.root # Null => h.parent[h.root] = Null)
    BY <1>0, <1>1, ReachFacts DEF RightTree, ParentsRight
  <1>5. \A n \in R, x \in Side : g[x][n] \in R \cup {Null}
    BY <1>1, <1>2, <1>3
  <1>6. Q \subseteq R
    <2>1. Closed(g, R) /\ g.root \in R \cup {Null}
      BY <1>1, <1>2, <1>4, <1>5 DEF Closed
    <2> QED BY <2>1, <1>Q, <1>1, <1>2, ReachFacts
  <1>7. Q \in SUBSET Node /\ Closed(g, Q) /\ g.root \in Q \cup {Null}
    BY <1>Q, <1>2, ReachFacts
  <1>8. \A n \in Q, x \in Side : g[x][n] # Null => g[x][n] \in Q
    BY <1>7 DEF Closed
  <1>9. R \subseteq Q
    <2> DEFINE U == {n \in Q : n = e => t \in Q}
    <2>1. t \in Q => e \in Q /\ (c # Null => c \in Q)
      <3>1. g[s][t] = e /\ g[o][e] = c
        BY <1>1, <1>2
      <3> QED BY <3>1, <1>1, <1>8
    <2>2. h.root \in U \cup {Null}
      BY <2>1, <1>1, <1>2, <1>4, <1>7
    <2>3. ASSUME NEW n \in U, NEW x \in Side PROVE h[x][n] \in U \cup {Null}
      <3> SUFFICES ASSUME h[x][n] # Null PROVE h[x][n] \in U
        OBVIOUS
      <3>0. n \in Q /\ n \in R /\ n \in Node /\ h[x][n] \in R /\ h.parent[h[x][n]] = n
        BY <1>1, <1>3, <1>6
      <3>1. CASE h[x][n] = e
        <4>1. n = p
          BY <3>0, <3>1, <1>0
        <4>2. g[x][n] = t
          BY <4>1, <3>0, <3>1, <1>1, <1>2
        <4>3. t \in Q
          BY <4>2, <3>0, <1>1, <1>8
        <4> QED BY <4>3, <3>1, <2>1
      <3>2. CASE h[x][n] = t
        <4>1. n = e
          BY <3>0, <3>2, <1>1
        <4> QED BY <4>1, <3>2, <1>1
      <3>3. CASE h[x][n] # e /\ h[x][n] # t
        <4>1. CASE n = t /\ x = s
          <5>1. t \in Q /\ h[x][n] = c
            BY <4>1, <3>0, <1>0
          <5> QED BY <5>1, <2>1, <3>3
        <4>2. CASE ~(n = t /\ x = s)
          <5>1. n = e => x = s
            BY <3>3, <1>0, <1>1
          <5>2. g[x][n] = h[x][n]
            BY <4>2, <5>1, <3>0, <3>3, <1>1, <1>2
          <5> QED BY <5>2, <3>0, <3>3, <1>1, <1>8
        <4> QED BY <4>1, <4>2
      <3> QED BY <3>1, <3>2, <3>3
    <2>4. Closed(h, U) /\ U \in SUBSET Node
      BY <2>3, <1>7 DEF Closed
    <2> HIDE DEF U
    <2>5. Reach(h) \subseteq U
      BY <2>2, <2>4, <1>1, ReachFacts
    <2> QED BY <2>5, <1>0 DEF U
  <1>10. Q = R
    BY <1>6, <1>9
  <1>11. g.root # Null => g.parent[g.root] = Null
    <2>1. CASE p = Null
      BY <2>1, <1>1, <1>2
    <2>2. CASE p # Null
      <3>1. g.root = h.root /\ h.root # e /\ h.root # t /\ (h.root # Null => h.root # c)
        BY <2>2, <1>1, <1>2
      <3>2. h.root # Null => h.root \in Node
        BY <1>1, <1>4
      <3> QED BY <3>1, <3>2, <1>2, <1>4
    <2> QED BY <2>1, <2>2
  <1>12. ASSUME NEW n \in R, NEW x \in Side, g[x][n] # Null PROVE g.parent[g[x][n]] = n
    <2>0. n \in Node /\ t \in Node /\ e \in Node /\ g[x][n] \in Node
      BY <1>1, <1>5, <1>12
    <2>1. CASE g[x][n] = e
      <3>1. n = t
        <4>1. h[x][n] = e => n = p
          <5>1. h[x][n] = e => h.parent[e] = n
            BY ONLY <1>3, <2>0, n \in R, x \in Side, NodeFacts
          <5> QED BY <5>1, <1>0
        <4>2. x = s \/ x = o
          BY <1>1
        <4> QED BY <4>1, <4>2, <2>0, <2>1, <1>1, <1>2
      <3> QED BY <2>0, <2>1, <3>1, <1>2
    <2>2. CASE g[x][n] = t
      <3>1. h[x][n] = t => n = e /\ x = o
        <4>1. h[x][n] = t => n = e
          BY <1>1, <1>3
        <4>2. h[s][e] # t
          BY <1>0, <1>1, NotBelowChild DEF RightTree
        <4> QED BY <4>1, <4>2, <1>1
      <3>2. n = p
        BY <3>1, <2>0, <2>2, <1>1, <1>2
      <3> QED BY <2>0, <2>2, <3>2, <1>1, <1>2
    <2>3. CASE g[x][n] = c
      <3>1. h[x][n] = c => n = t
        BY <2>3, <1>1, <1>3, <1>12
      <3>2. h[o][t] # c
        <4>1. c # Null
          BY <2>3, <1>12
        <4>2. t \in Reach(h)
          BY <1>0, <1>1
        <4> QED BY <4>1, <4>2, <1>0, <1>1, NotBelowChild DEF RightTree
      <3>3. n = e
        BY <3>1, <3>2, <2>0, <2>3, <1>1, <1>2
      <3> QED BY <2>0, <2>3, <3>3, <1>1, <1>2
    <2>4. CASE g[x][n] # e /\ g[x][n] # t /\ g[x][n] # c
      <3>1. g[x][n] = h[x][n]
        BY <2>0, <2>4, <1>1, <1>2
      <3> QED BY <3>1, <2>0, <2>4, <1>2, <1>3, <1>12
    <2> QED BY <2>1, <2>2, <2>3, <2>4
  <1>13. ParentsRight(g)
    BY <1>10, <1>11, <1>12, <1>Q DEF ParentsRight
  <1> QED
    BY <1>2, <1>10, <1>13, <1>0, <1>Q DEF RightTree

\* With the same links down, a heap stays safe.
LEMMA SafeSame ==
    ASSUME NEW F \in SUBSET Node, NEW h \in SafeHeaps(F), NEW g \in Heap, g.root = h.root,
           \A x \in Side, m \in Node : g[x][m] = h[x][m], \A n \in F : Fresh(g, n)
    PROVE  g \in SafeHeaps(F)
  <1>1. h \in Heap /\ IsSearchTree(h) /\ Reach(h) \cap F = {}
    BY SafeFacts
  <1>2. Reach(g) = Reach(h) /\ IsSearchTree(g)
    BY <1>1, SameLinks
  <1> QED
    BY <1>1, <1>2 DEF SafeHeaps

\* A store into a color changes neither the order nor what is in the tree.
LEMMA PutColorSafe ==
    ASSUME NEW F \in SUBSET Node, NEW h \in SafeHeaps(F), NEW n \in Node, n \notin F,
           NEW x \in Shade
    PROVE  Put(h, <<"color", n, x>>) \in SafeHeaps(F)
  <1>g. PICK g : g = Put(h, <<"color", n, x>>)
    OBVIOUS
  <1>1. h \in Heap /\ \A m \in F : Fresh(h, m)
    BY SafeFacts
  <1>2. /\ g \in Heap /\ g.root = h.root /\ \A e \in Field : g[e] = h[e]
        /\ \A m \in Node : g.color[m] = IF m = n THEN x ELSE h.color[m]
    BY <1>g, <1>1, PutColor
  <1>3. \A m \in F : Fresh(g, m)
    BY <1>1, <1>2 DEF Fresh
  <1>4. \A y \in Side, m \in Node : g[y][m] = h[y][m]
    BY <1>2, SidesAreFields DEF SideField
  <1>5. g \in SafeHeaps(F)
    BY <1>2, <1>3, <1>4, SafeSame
  <1> QED
    BY <1>5, <1>g

-----------------------------------------------------------------------------
(* Linking an element *)

\* What an insertion comes to before the colors are looked at
LinkedBy(h, n, g) ==
    LET p == Descend(h, Key(n))
        x == SideOf(Key(n), p)
    IN  /\ g \in Heap
        /\ p # Null => p \in Reach(h) /\ h[x][p] = Null /\ x \in Side
        /\ (p = Null) <=> (h.root = Null)
        /\ g.root = IF p = Null THEN n ELSE h.root
        /\ \A y \in Side, m \in Node : g[y][m] = IF m = n THEN Null
                                                ELSE IF m = p /\ y = x THEN n ELSE h[y][m]
        /\ \A m \in Node : g.parent[m] = IF m = n THEN p ELSE h.parent[m]
        /\ \A m \in Node : g.color[m] = IF m = n THEN "red" ELSE h.color[m]

\* One more element
LEMMA OneMore ==
    ASSUME NEW X, NEW u \in Seq(X), NEW d \in X, NEW v, v = u \o <<d>>
    PROVE  /\ v \in Seq(X) /\ Len(v) = Len(u) + 1 /\ v[Len(u) + 1] = d
           /\ \A i \in 1 .. Len(u) : v[i] = u[i]
  OBVIOUS

\* Four stores
LEMMA LeadsFour ==
    ASSUME NEW h \in Heap, NEW S, NEW a, NEW b, NEW c, NEW d, NEW h1, NEW h2, NEW h3, NEW h4,
           Leads(h, <<a>>, S, h1), Leads(h1, <<b>>, S, h2),
           Leads(h2, <<c>>, S, h3), Leads(h3, <<d>>, S, h4)
    PROVE  Leads(h, <<a, b, c, d>>, S, h4)
  <1>X. PICK X : X = {a, b, c, d}
    OBVIOUS
  <1>0. a \in X /\ b \in X /\ c \in X /\ d \in X
    BY <1>X
  <1>u. PICK u : u = <<a, b, c, d>>
    OBVIOUS
  <1>x. PICK x : x = <<a>>
    OBVIOUS
  <1>w. PICK w : w = x \o <<b>>
    OBVIOUS
  <1>z. PICK z : z = w \o <<c>>
    OBVIOUS
  <1>v. PICK v : v = z \o <<d>>
    OBVIOUS
  <1>1. u \in Seq(X) /\ Len(u) = 4 /\ u[1] = a /\ u[2] = b /\ u[3] = c /\ u[4] = d
    BY <1>0, <1>u
  <1>2. x \in Seq(X) /\ Len(x) = 1 /\ x[1] = a
    BY <1>0, <1>x
  <1>w1. w \in Seq(X) /\ Len(w) = Len(x) + 1 /\ w[Len(x) + 1] = b
         /\ \A i \in 1 .. Len(x) : w[i] = x[i]
    BY <1>0, <1>2, <1>w, OneMore
  <1>3. w \in Seq(X) /\ Len(w) = 2 /\ w[2] = b /\ w[1] = a
    BY <1>2, <1>w1
  <1>z1. z \in Seq(X) /\ Len(z) = Len(w) + 1 /\ z[Len(w) + 1] = c
         /\ \A i \in 1 .. Len(w) : z[i] = w[i]
    BY <1>0, <1>3, <1>z, OneMore
  <1>4. z \in Seq(X) /\ Len(z) = 3 /\ z[3] = c /\ z[2] = b /\ z[1] = a
    BY <1>3, <1>z1
  <1>v1. v \in Seq(X) /\ Len(v) = Len(z) + 1 /\ v[Len(z) + 1] = d
         /\ \A i \in 1 .. Len(z) : v[i] = z[i]
    <2>1. z \in Seq(X) /\ d \in X
      BY <1>0, <1>4, Zenon
    <2> QED
      BY ONLY <2>1, <1>v, OneMore
  <1>5. v \in Seq(X) /\ Len(v) = 4 /\ v[4] = d /\ v[3] = c /\ v[2] = b /\ v[1] = a
    BY <1>4, <1>v1
  <1>7. ASSUME NEW i \in 1 .. Len(u) PROVE u[i] = v[i]
    <2>1. i = 1 \/ i = 2 \/ i = 3 \/ i = 4
      BY <1>1
    <2> QED BY <1>1, <1>5, <2>1
  <1>8. u = v
    BY <1>1, <1>5, <1>7, SeqEqual
  <1>H. h1 \in Heap /\ h2 \in Heap /\ h3 \in Heap
    BY DEF Leads
  <1>9. Leads(h, x, S, h1)
    BY <1>x
  <1>10. Leads(h, w, S, h2)
    BY <1>9, <1>w, LeadsOn
  <1>11. Leads(h, z, S, h3)
    BY <1>10, <1>z, LeadsOn
  <1>12. Leads(h, v, S, h4)
    BY <1>11, <1>v, LeadsOn
  <1> QED
    BY <1>8, <1>12, <1>u, Zenon

\* The stores that link a new element: the tree stays safe after each of them.
LEMMA LinkLeads ==
    ASSUME NEW F \in SUBSET Node, NEW h \in SafeHeaps(F), RightTree(h),
           NEW n \in Node, n \notin F, n \notin Reach(h), Fresh(h, n), Find(h, Key(n)) = Null
    PROVE  \E g : Leads(h, Link(h, n), SafeHeaps(F), g) /\ LinkedBy(h, n, g)
  <1> DEFINE S == SafeHeaps(F)
  <1>k. PICK k : k = Key(n)
    OBVIOUS
  <1>p. PICK p : p = Descend(h, k)
    OBVIOUS
  <1>s. PICK s : s = SideOf(k, p)
    OBVIOUS
  <1>R. PICK R : R = Reach(h)
    OBVIOUS
  <1>K. PICK K : K = KeysBelow(h)
    OBVIOUS
  <1>1. /\ h \in Heap /\ IsSearchTree(h) /\ R \cap F = {} /\ \A m \in F : Fresh(h, m)
        /\ R \in SUBSET Node /\ Closed(h, R) /\ h.root \in R \cup {Null} /\ n \notin R
    BY <1>R, SafeFacts, ReachFacts
  <1>2. /\ \A m \in R : Key(m) \in K[m] /\ m \in Below(h, m) /\ m \in Pointer
        /\ \A m \in R, x \in Side : LinkRight(h, R, K, m, x)
        /\ \A m \in R : K[m] \subseteq Nat /\ Key(m) \in Nat
    <2>1. Certified(h, R, K)
      BY <1>1, <1>R, <1>K, OwnCertificate
    <2>2. \A m \in R : K[m] \subseteq Nat /\ Key(m) \in Nat
      BY <1>1, <1>R, <1>K, OwnCertificate, NodeFacts
    <2>3. \A m \in R, x \in Side : LinkRight(h, R, K, m, x)
      BY <2>1 DEF Certified, LinkRight, Closed
    <2> QED BY <2>1, <2>2, <2>3, <1>1, <1>R, ReachFacts DEF Certified, Pointer
  <1>3. k \in Nat /\ n # Null /\ \A x \in Side : h[x][n] = Null
    BY <1>k, NodeFacts DEF Fresh, Side, Field
  <1>4. /\ (p = Null) <=> (h.root = Null)
        /\ p # Null => /\ p \in R /\ Key(p) # k /\ h[s][p] = Null /\ s \in Side /\ On(s, k, Key(p))
                       /\ \A m \in R, x \in Side :
                              h[x][m] # Null /\ p \in Below(h, h[x][m]) => On(x, k, Key(m))
    <2>1. CASE h.root = Null
      BY <2>1, <1>p DEF Descend
    <2>2. CASE h.root # Null
      <3>1. /\ p \in R /\ (Key(p) = k \/ h[SideOf(k, p)][p] = Null)
            /\ \A m \in R, x \in Side :
                   h[x][m] # Null /\ p \in Below(h, h[x][m]) => On(x, k, Key(m))
        BY <2>2, <1>p, <1>R, <1>3, DescendEnds
      <3>2. p # Null /\ Key(p) \in Nat
        BY <3>1, <1>1, <1>2, NodeFacts
      <3>3. Key(p) # k
        BY <3>2, <1>p, <1>k DEF Find
      <3>4. s \in Side /\ On(s, k, Key(p))
        BY <3>2, <3>3, <1>3, <1>s DEF SideOf, Side, On
      <3> QED BY <3>1, <3>2, <3>3, <3>4, <2>2, <1>s
    <2> QED BY <2>1, <2>2
  <1>5. p \in Pointer /\ Null \in Pointer /\ n \in Pointer
    BY <1>1, <1>4 DEF Pointer
  <1>6. "parent" \in Field /\ "left" \in Field /\ "right" \in Field /\ Side = {"left", "right"}
        /\ "left" \in Side /\ "right" \in Side
    BY DEF Field, Side
  <1>h1. PICK h1 : h1 = Put(h, <<"parent", n, p>>)
    OBVIOUS
  <1>11. /\ h1 \in Heap /\ h1.root = h.root /\ h1.color = h.color
         /\ \A f \in Field, m \in Node : h1[f][m] = IF f = "parent" /\ m = n THEN p ELSE h[f][m]
         /\ <<"parent", n, p>> \in Store
    BY <1>h1, <1>1, <1>5, <1>6, PutField
  <1>12. h1 \in S
    BY <1>h1, <1>5, PutParentSafe
  <1>13. Leads(h, <<<<"parent", n, p>>>>, S, h1)
    BY <1>h1, <1>1, <1>11, <1>12, LeadsOne
  <1>h2. PICK h2 : h2 = Put(h1, <<"right", n, Null>>)
    OBVIOUS
  <1>21. /\ h2 \in Heap /\ h2.root = h.root /\ h2.color = h.color
         /\ \A f \in Field, m \in Node : h2[f][m] = IF f = "right" /\ m = n THEN Null ELSE h1[f][m]
         /\ <<"right", n, Null>> \in Store
    BY <1>h2, <1>5, <1>6, <1>11, PutField
  <1>22. h2 \in S
    <2>1. \A m \in F : Fresh(h2, m)
      BY <1>h2, <1>5, <1>6, <1>11, <1>12, SafeFacts, PutFresh
    <2>2. \A x \in Side, m \in Node : h2[x][m] = h1[x][m]
      BY <1>3, <1>6, <1>11, <1>21
    <2> QED BY <2>1, <2>2, <1>11, <1>12, <1>21, SafeSame
  <1>23. Leads(h1, <<<<"right", n, Null>>>>, S, h2)
    BY <1>h2, <1>11, <1>12, <1>21, <1>22, LeadsOne
  <1>h3. PICK h3 : h3 = Put(h2, <<"left", n, Null>>)
    OBVIOUS
  <1>31. /\ h3 \in Heap /\ h3.root = h.root /\ h3.color = h.color
         /\ \A f \in Field, m \in Node : h3[f][m] = IF f = "left" /\ m = n THEN Null ELSE h2[f][m]
         /\ <<"left", n, Null>> \in Store
    BY <1>h3, <1>5, <1>6, <1>21, PutField
  <1>32. h3 \in S
    <2>1. \A m \in F : Fresh(h3, m)
      BY <1>h3, <1>5, <1>6, <1>21, <1>22, SafeFacts, PutFresh
    <2>2. \A x \in Side, m \in Node : h3[x][m] = h2[x][m]
      BY <1>3, <1>6, <1>11, <1>21, <1>31
    <2> QED BY <2>1, <2>2, <1>21, <1>22, <1>31, SafeSame
  <1>33. Leads(h2, <<<<"left", n, Null>>>>, S, h3)
    BY <1>h3, <1>21, <1>22, <1>31, <1>32, LeadsOne
  <1>h4. PICK h4 : h4 = Put(h3, <<"color", n, "red">>)
    OBVIOUS
  <1>41. /\ h4 \in Heap /\ h4.root = h.root /\ \A f \in Field : h4[f] = h3[f]
         /\ \A m \in Node : h4.color[m] = IF m = n THEN "red" ELSE h.color[m]
         /\ <<"color", n, "red">> \in Store
    <2>1. "red" \in Shade
      BY DEF Shade
    <2> QED BY <2>1, <1>h4, <1>31, PutColor
  <1>42. h4 \in S
    <2>1. "red" \in Shade
      BY DEF Shade
    <2> QED BY <2>1, <1>h4, <1>32, PutColorSafe
  <1>43. Leads(h3, <<<<"color", n, "red">>>>, S, h4)
    BY <1>h4, <1>31, <1>32, <1>41, <1>42, LeadsOne
  <1>44. /\ \A x \in Side, m \in Node : h4[x][m] = h[x][m]
         /\ \A m \in Node : h4.parent[m] = IF m = n THEN p ELSE h.parent[m]
    BY <1>3, <1>6, <1>11, <1>21, <1>31, <1>41
  <1>st. PICK st : st = IF p = Null THEN <<"root", Null, n>> ELSE <<s, p, n>>
    OBVIOUS
  <1>h5. PICK h5 : h5 = Put(h4, st)
    OBVIOUS
  <1>51. /\ h5 \in Heap /\ h5.color = h4.color /\ st \in Store
         /\ h5.root = IF p = Null THEN n ELSE h.root
         /\ \A x \in Side, m \in Node : h5[x][m] = IF m = p /\ x = s THEN n ELSE h[x][m]
         /\ \A m \in Node : h5.parent[m] = h4.parent[m]
         /\ \A m \in F : Fresh(h5, m)
    <2>0. \A m \in F : Fresh(h4, m)
      BY <1>42, SafeFacts
    <2>1. CASE p = Null
      <3>1. /\ h5 \in Heap /\ h5.root = n /\ h5.color = h4.color /\ \A f \in Field : h5[f] = h4[f]
            /\ st \in Store
        BY <2>1, <1>st, <1>h5, <1>5, <1>41, PutRoot
      <3>2. \A m \in F : Fresh(h5, m)
        BY <2>0, <3>1 DEF Fresh
      <3> QED BY <2>1, <3>1, <3>2, <1>6, <1>44, NodeFacts
    <2>2. CASE p # Null
      <3>1. s \in Field /\ s # "parent" /\ p \in Node /\ p \notin F
        BY <2>2, <1>1, <1>4, <1>6 DEF Side, Field
      <3>2. /\ h5 \in Heap /\ h5.root = h4.root /\ h5.color = h4.color /\ st \in Store
            /\ \A f \in Field, m \in Node : h5[f][m] = IF f = s /\ m = p THEN n ELSE h4[f][m]
        BY <2>2, <3>1, <1>st, <1>h5, <1>5, <1>41, PutField
      <3>3. \A m \in F : Fresh(h5, m)
        BY <2>0, <2>2, <3>1, <1>st, <1>h5, <1>5, <1>41, PutFresh
      <3> QED BY <2>2, <3>1, <3>2, <3>3, <1>6, <1>41, <1>44
    <2> QED BY <2>1, <2>2
  <1>52. h5 \in S
    <2> DEFINE L == [m \in Node |-> IF m = n THEN {k}
                                    ELSE IF p \in Below(h, m) THEN K[m] \cup {k} ELSE K[m]]
               T == R \cup {n}
    <2>0. /\ L[n] = {k}
          /\ \A m \in R : L[m] = IF p \in Below(h, m) THEN K[m] \cup {k} ELSE K[m]
      BY <1>1
    <2> HIDE DEF L
    <2>1. T \in SUBSET Node /\ T \cap F = {} /\ h5.root \in T \cup {Null}
      BY <1>1, <1>51
    <2>2. \A m \in T : Key(m) \in L[m]
      BY <2>0, <1>k, <1>2
    <2>3. ASSUME NEW m \in T, NEW x \in Side PROVE LinkRight(h5, T, L, m, x)
      <3>1. CASE m = n
        <4>1. h5[x][m] = Null
          <5>1. m # p
            BY <3>1, <1>1, <1>3, <1>4
          <5> QED BY <5>1, <3>1, <1>3, <1>51
        <4> QED BY <4>1 DEF LinkRight
      <3>2. CASE m \in R /\ m = p /\ x = s
        <4>1. h5[x][m] = n /\ On(s, k, Key(p)) /\ p \in Below(h, p)
          BY <3>2, <1>1, <1>2, <1>4, <1>51, NodeFacts
        <4> QED BY <3>2, <4>1, <2>0 DEF LinkRight
      <3>3. CASE m \in R /\ ~(m = p /\ x = s)
        <4>1. h5[x][m] = h[x][m] /\ LinkRight(h, R, K, m, x)
          BY <3>3, <1>1, <1>2, <1>51
        <4>2. CASE h[x][m] # Null /\ p \in Below(h, h[x][m])
          <5>1. h[x][m] \in R /\ h[x][m] # n /\ m \in Node /\ m \in Pointer
            BY <4>1, <4>2, <3>3, <1>1, <1>2 DEF LinkRight
          <5>2. h[x][m] \in Below(h, m)
            BY <5>1, <4>2, <3>3, <1>1, <1>2, BelowLeast DEF Closed
          <5>3. p \in Below(h, m) /\ p # Null
            BY <5>1, <5>2, <4>2, <1>1, BelowIn, NodeFacts
          <5>4. On(x, k, Key(m))
            BY <5>3, <4>2, <3>3, <1>4
          <5> QED BY <5>1, <5>3, <5>4, <4>1, <4>2, <3>3, <2>0 DEF LinkRight
        <4>3. CASE ~(h[x][m] # Null /\ p \in Below(h, h[x][m]))
          <5>1. h[x][m] # Null => h[x][m] \in R /\ L[h[x][m]] = K[h[x][m]]
            BY <4>1, <4>3, <3>3, <2>0 DEF LinkRight
          <5>2. K[m] \subseteq L[m]
            BY <3>3, <2>0
          <5> QED BY <5>1, <5>2, <4>1 DEF LinkRight
        <4> QED BY <4>2, <4>3
      <3> QED BY <3>1, <3>2, <3>3
    <2> HIDE DEF T
    <2> QED BY <2>1, <2>2, <2>3, <1>51, SafeByCertificate
  <1>53. Leads(h4, <<st>>, S, h5)
    BY <1>h5, <1>41, <1>42, <1>51, <1>52, LeadsOne
  <1> HIDE DEF S
  <1>6a. Leads(h, Link(h, n), S, h5)
    <2>a. PICK a : a = <<"parent", n, p>>
      OBVIOUS
    <2>b. PICK b : b = <<"right", n, Null>>
      OBVIOUS
    <2>d. PICK d : d = <<"left", n, Null>>
      OBVIOUS
    <2>e. PICK e : e = <<"color", n, "red">>
      OBVIOUS
    <2>0. Link(h, n) = <<a, b, d, e>> \o <<st>>
      BY <2>a, <2>b, <2>d, <2>e, <1>k, <1>p, <1>s, <1>st DEF Link
    <2>1. Leads(h, <<a>>, S, h1) /\ Leads(h1, <<b>>, S, h2)
          /\ Leads(h2, <<d>>, S, h3) /\ Leads(h3, <<e>>, S, h4)
      BY <2>a, <2>b, <2>d, <2>e, <1>13, <1>23, <1>33, <1>43
    <2>2. Leads(h, <<a, b, d, e>>, S, h4)
      BY <2>1, <1>1, LeadsFour
    <2> QED BY <2>0, <2>2, <1>53, <1>1, LeadsOn
  <1>7. LinkedBy(h, n, h5)
    <2>1. ASSUME NEW x \in Side, NEW m \in Node
          PROVE  h5[x][m] = IF m = n THEN Null ELSE IF m = p /\ x = s THEN n ELSE h[x][m]
      <3>1. m = n => m # p
        BY <1>1, <1>3, <1>4
      <3> QED BY <3>1, <1>3, <1>51
    <2>2. \A m \in Node : h5.parent[m] = IF m = n THEN p ELSE h.parent[m]
      BY <1>44, <1>51
    <2>3. \A m \in Node : h5.color[m] = IF m = n THEN "red" ELSE h.color[m]
      BY <1>41, <1>51
    <2> QED BY <2>1, <2>2, <2>3, <1>4, <1>51, <1>k, <1>p, <1>s, <1>R DEF LinkedBy
  <1> QED
    BY <1>6a, <1>7 DEF S

\* A new element is linked where the search for its key ended: one more element, and a tree.
LEMMA LinkedTree ==
    ASSUME NEW h, RightTree(h), NEW n \in Node, n \notin Reach(h),
           NEW g, LinkedBy(h, n, g), IsSearchTree(g)
    PROVE  /\ RightTree(g) /\ Reach(g) = Reach(h) \cup {n} /\ g.color[n] = "red"
           /\ \A m \in Reach(h) : g.color[m] = h.color[m]
  <1>p. PICK p : p = Descend(h, Key(n))
    OBVIOUS
  <1>x. PICK x : x = SideOf(Key(n), p)
    OBVIOUS
  <1>R. PICK R : R = Reach(h)
    OBVIOUS
  <1>Q. PICK Q : Q = Reach(g)
    OBVIOUS
  <1>1. /\ h \in Heap /\ g \in Heap /\ n \notin R
        /\ p # Null => p \in R /\ h[x][p] = Null /\ x \in Side
        /\ (p = Null) <=> (h.root = Null)
        /\ g.root = IF p = Null THEN n ELSE h.root
    BY <1>p, <1>x, <1>R DEF LinkedBy, RightTree
  <1>2. \A y \in Side, m \in Node : g[y][m] = IF m = n THEN Null
                                              ELSE IF m = p /\ y = x THEN n ELSE h[y][m]
    BY <1>p, <1>x DEF LinkedBy
  <1>2a. /\ \A m \in Node : g.parent[m] = IF m = n THEN p ELSE h.parent[m]
         /\ \A m \in Node : g.color[m] = IF m = n THEN "red" ELSE h.color[m]
    BY <1>p, <1>x DEF LinkedBy
  <1>3. /\ R \in SUBSET Node /\ Null \notin R /\ Null # n
        /\ h.root \in R \cup {Null} /\ (h.root # Null => h.parent[h.root] = Null)
        /\ \A m \in R, y \in Side :
               h[y][m] \in R \cup {Null} /\ (h[y][m] # Null => h.parent[h[y][m]] = m)
    BY <1>R, <1>1, ReachFacts, NodeFacts DEF RightTree, ParentsRight, Closed
  <1>4. Q \in SUBSET Node /\ Closed(g, Q) /\ g.root \in Q \cup {Null}
        /\ \A m \in Q, y \in Side : g[y][m] # Null => g[y][m] \in Q
    BY <1>Q, <1>1, ReachFacts DEF Closed
  <1>5. Q \subseteq R \cup {n}
    <2>1. Closed(g, R \cup {n})
      BY <1>1, <1>2, <1>3 DEF Closed
    <2>2. g.root \in R \cup {n} \cup {Null} /\ R \cup {n} \in SUBSET Node
      BY <1>1, <1>3
    <2> QED BY <2>1, <2>2, <1>Q, <1>1, ReachFacts
  <1>6. R \subseteq Q
    <2>u. PICK U : U = Q \ {n}
      OBVIOUS
    <2>1. h.root \in U \cup {Null}
      BY <2>u, <1>1, <1>3, <1>4
    <2>2. ASSUME NEW m \in U, NEW y \in Side PROVE h[y][m] \in U \cup {Null}
      <3>1. m \in R /\ m \in Q /\ m \in Node /\ m # n
        BY <2>u, <1>3, <1>5
      <3>2. CASE m = p /\ y = x
        BY <3>1, <3>2, <1>1, <1>3
      <3>3. CASE ~(m = p /\ y = x)
        <4>1. g[y][m] = h[y][m]
          BY <3>1, <3>3, <1>2
        <4>2. h[y][m] # n
          BY <3>1, <1>1, <1>3
        <4> QED BY <4>1, <4>2, <3>1, <2>u, <1>4
      <3> QED BY <3>2, <3>3
    <2>3. Closed(h, U) /\ U \in SUBSET Node
      BY <2>u, <2>2, <1>4 DEF Closed
    <2>4. R \subseteq U
      BY <2>1, <2>3, <1>R, <1>1, ReachFacts
    <2> QED BY <2>4, <2>u
  <1>7. n \in Q
    <2>1. CASE p = Null
      BY <2>1, <1>1, <1>3, <1>4
    <2>2. CASE p # Null
      <3>1. p \in Q /\ p # n /\ p \in Node /\ x \in Side
        BY <2>2, <1>1, <1>3, <1>6
      <3>2. g[x][p] = n
        BY <3>1, <1>2
      <3> QED BY <3>1, <3>2, <1>3, <1>4
    <2> QED BY <2>1, <2>2
  <1>8. Q = R \cup {n}
    BY <1>5, <1>6, <1>7
  <1>9. g.root # Null => g.parent[g.root] = Null
    BY <1>1, <1>2a, <1>3
  <1>10. ASSUME NEW m \in Q, NEW y \in Side, g[y][m] # Null PROVE g.parent[g[y][m]] = m
    <2>1. m # n /\ m \in R /\ m \in Node
      BY <1>2, <1>3, <1>8, <1>10
    <2>2. CASE m = p /\ y = x
      BY <2>1, <2>2, <1>2, <1>2a
    <2>3. CASE ~(m = p /\ y = x)
      <3>1. g[y][m] = h[y][m]
        BY <2>1, <2>3, <1>2
      <3>2. h[y][m] \in R /\ h[y][m] # n /\ h.parent[h[y][m]] = m
        BY <2>1, <3>1, <1>1, <1>3, <1>10
      <3> QED BY <3>1, <3>2, <1>2a, <1>3
    <2> QED BY <2>2, <2>3
  <1>11. ParentsRight(g)
    BY <1>9, <1>10, <1>Q DEF ParentsRight
  <1>12. g.color[n] = "red" /\ \A m \in R : g.color[m] = h.color[m]
    BY <1>1, <1>2a, <1>3
  <1> QED
    BY <1>1, <1>8, <1>11, <1>12, <1>R, <1>Q DEF RightTree

-----------------------------------------------------------------------------
(* Taking an element out *)

\* A store into an element that is out of the tree
LEMMA PutAside ==
    ASSUME NEW F \in SUBSET Node, NEW h \in SafeHeaps(F), NEW f \in Field,
           NEW n \in Node, n \notin F, n \notin Reach(h), NEW x \in Pointer
    PROVE  Put(h, <<f, n, x>>) \in SafeHeaps(F)
  <1>g. PICK g : g = Put(h, <<f, n, x>>)
    OBVIOUS
  <1>R. PICK R : R = Reach(h)
    OBVIOUS
  <1>K. PICK K : K = KeysBelow(h)
    OBVIOUS
  <1>1. /\ h \in Heap /\ IsSearchTree(h) /\ R \cap F = {} /\ \A m \in F : Fresh(h, m)
        /\ R \in SUBSET Node /\ h.root \in R \cup {Null} /\ n \notin R
    BY <1>R, SafeFacts, ReachFacts
  <1>2. /\ g \in Heap /\ g.root = h.root
        /\ \A e \in Field, m \in Node : g[e][m] = IF e = f /\ m = n THEN x ELSE h[e][m]
    BY <1>g, <1>1, PutField
  <1>3. \A m \in F : Fresh(g, m)
    BY <1>g, <1>1, PutFresh
  <1>4. Certified(h, R, K)
    BY <1>1, <1>R, <1>K, OwnCertificate
  <1>5. ASSUME NEW m \in R, NEW y \in Side PROVE LinkRight(g, R, K, m, y)
    <2>1. g[y][m] = h[y][m]
      BY <1>1, <1>2, SidesAreFields DEF SideField
    <2> QED BY <2>1, <1>4 DEF LinkRight, Certified, Closed
  <1>6. \A m \in R : Key(m) \in K[m]
    BY <1>4 DEF Certified
  <1>7. g.root \in R \cup {Null}
    BY <1>1, <1>2
  <1>8. g \in SafeHeaps(F)
    BY <1>1, <1>2, <1>3, <1>5, <1>6, <1>7, SafeByCertificate
  <1> QED
    BY <1>8, <1>g

\* An element with at most one child, taken out
UnlinkedBy(h, n, g) ==
    LET c == OnlyChild(h, n)
        p == h.parent[n]
    IN  /\ g \in Heap /\ g.color = h.color
        /\ g.root = IF p = Null THEN c ELSE h.root
        /\ \A y \in Side, m \in Node : g[y][m] = IF m = p /\ h[y][m] = n THEN c ELSE h[y][m]
        /\ \A m \in Node : g.parent[m] = IF m = c THEN p ELSE h.parent[m]

\* The elements around one that is taken out
LEMMA UnlinkCast ==
    ASSUME NEW h, RightTree(h), NEW n \in Reach(h)
    PROVE  LET c == OnlyChild(h, n)
               p == h.parent[n]
           IN  /\ h \in Heap /\ Reach(h) \in SUBSET Node /\ Null \notin Reach(h)
               /\ {c, p} \subseteq Reach(h) \cup {Null} /\ c # n /\ p # n
               /\ (p = Null <=> h.root = n)
               /\ c # Null => \E x \in Side : h[x][n] = c
               /\ c # Null => h.parent[c] = n
               /\ h.root \in Reach(h) \cup {Null} /\ (h.root # Null => h.parent[h.root] = Null)
               /\ \A m \in Reach(h), y \in Side :
                      h[y][m] \in Reach(h) \cup {Null} /\ (h[y][m] # Null => h.parent[h[y][m]] = m)
               /\ p # Null => \E x \in Side : h[x][p] = n /\ h[Other[x]][p] # n
  <1>c. PICK c : c = OnlyChild(h, n)
    OBVIOUS
  <1>p. PICK p : p = h.parent[n]
    OBVIOUS
  <1>1. /\ h \in Heap /\ IsSearchTree(h) /\ Reach(h) \in SUBSET Node /\ Null \notin Reach(h)
        /\ h.root \in Reach(h) \cup {Null} /\ (h.root # Null => h.parent[h.root] = Null)
        /\ \A m \in Reach(h), y \in Side :
               h[y][m] \in Reach(h) \cup {Null} /\ (h[y][m] # Null => h.parent[h[y][m]] = m)
    BY ReachFacts, NodeFacts DEF RightTree, ParentsRight, Closed
  <1>2. h["left"] = h.left /\ h["right"] = h.right /\ "left" \in Side /\ "right" \in Side
    BY <1>1, HeapFacts DEF Side
  <1>3. \E x \in Side : h[x][n] = c
    BY <1>c, <1>2 DEF OnlyChild
  <1>4. c \in Reach(h) \cup {Null} /\ c # n /\ (c # Null => h.parent[c] = n)
    BY <1>1, <1>3, NotBelowChild
  <1>5. p \in Reach(h) \cup {Null} /\ p # n /\ (p = Null <=> h.root = n)
    BY <1>p, Links
  <1>6. p # Null => \E x \in Side : h[x][p] = n /\ h[Other[x]][p] # n
    <2> SUFFICES ASSUME p # Null PROVE \E x \in Side : h[x][p] = n /\ h[Other[x]][p] # n
      OBVIOUS
    <2>1. PICK x \in Side : h[x][p] = n
      BY <1>5, <1>p, Links
    <2>2. p \in Reach(h) /\ h[x][p] # Null
      BY <2>1, <1>1, <1>5
    <2> QED BY <2>1, <2>2, <1>1, NotBelowChild
  <1> QED
    BY <1>c, <1>p, <1>1, <1>3, <1>4, <1>5, <1>6

\* The stores that unlink an element with at most one child: the tree stays safe after each.
LEMMA UnlinkLeads ==
    ASSUME NEW F \in SUBSET Node, NEW h \in SafeHeaps(F), RightTree(h), NEW n \in Reach(h),
           h.left[n] = Null \/ h.right[n] = Null
    PROVE  \E g : Leads(h, Unlink(h, n), SafeHeaps(F), g) /\ UnlinkedBy(h, n, g)
  <1>S. PICK S : S = SafeHeaps(F)
    OBVIOUS
  <1>c. PICK c : c = OnlyChild(h, n)
    OBVIOUS
  <1>p. PICK p : p = h.parent[n]
    OBVIOUS
  <1>R. PICK R : R = Reach(h)
    OBVIOUS
  <1>K. PICK K : K = KeysBelow(h)
    OBVIOUS
  <1>1. /\ h \in Heap /\ R \in SUBSET Node /\ Null \notin R /\ n \in R
        /\ {c, p} \subseteq R \cup {Null} /\ c # n /\ p # n
        /\ (p = Null <=> h.root = n)
        /\ c # Null => \E x \in Side : h[x][n] = c
        /\ h.root \in R \cup {Null}
        /\ p # Null => \E x \in Side : h[x][p] = n /\ h[Other[x]][p] # n
    BY <1>c, <1>p, <1>R, UnlinkCast
  <1>2. IsSearchTree(h) /\ R \cap F = {} /\ \A m \in F : Fresh(h, m)
    BY <1>R, SafeFacts
  <1>3. Certified(h, R, K)
    BY <1>1, <1>2, <1>R, <1>K, OwnCertificate
  <1>4. c \in Pointer /\ p \in Pointer /\ c \notin F /\ p \notin F /\ Null \notin Node /\ n \notin F
    BY <1>1, <1>2, NodeFacts DEF Pointer
  <1>h1. PICK h1 : h1 = IF c = Null THEN h ELSE Put(h, <<"parent", c, p>>)
    OBVIOUS
  <1>5. Leads(h, PutIf("parent", c, p), S, h1)
    <2>1. Leads(h, PutIf("parent", c, p), SafeHeaps(F),
                 IF c = Null THEN h ELSE Put(h, <<"parent", c, p>>))
      BY <1>4, LeadsParent
    <2> QED BY <2>1, <1>h1, <1>S
  <1>6. /\ h1 \in Heap /\ h1 \in S /\ h1.root = h.root /\ h1.color = h.color
        /\ \A y \in Side, m \in Node : h1[y][m] = h[y][m]
        /\ \A m \in Node : h1.parent[m] = IF m = c THEN p ELSE h.parent[m]
    <2>1. h1 \in Heap /\ h1 \in S
      BY <1>5 DEF Leads
    <2>2. CASE c = Null
      BY <2>1, <2>2, <1>4, <1>h1
    <2>3. CASE c # Null
      <3>1. c \in Node /\ h1 = Put(h, <<"parent", c, p>>) /\ "parent" \in Field
        BY <2>3, <1>4, <1>h1, SidesAreFields DEF Pointer, SideField
      <3>2. /\ h1.root = h.root /\ h1.color = h.color
            /\ \A e \in Field, m \in Node : h1[e][m] = IF e = "parent" /\ m = c THEN p ELSE h[e][m]
        BY <3>1, <1>1, <1>4, PutField
      <3>3. \A y \in Side : y \in Field /\ y # "parent"
        BY DEF Side, Field
      <3> QED BY <2>1, <3>1, <3>2, <3>3
    <2> QED BY <2>2, <2>3
  <1>7. \A m \in F : Fresh(h1, m)
    BY <1>6, <1>S, SafeFacts
  <1>st. PICK st : st = IF p = Null THEN <<"root", Null, c>>
                        ELSE <<IF h.left[p] = n THEN "left" ELSE "right", p, c>>
    OBVIOUS
  <1>h2. PICK h2 : h2 = Put(h1, st)
    OBVIOUS
  <1>8. /\ h2 \in Heap /\ st \in Store /\ h2.color = h.color
        /\ h2.root = IF p = Null THEN c ELSE h.root
        /\ \A y \in Side, m \in Node : h2[y][m] = IF m = p /\ h[y][m] = n THEN c ELSE h[y][m]
        /\ \A m \in Node : h2.parent[m] = h1.parent[m]
        /\ \A m \in F : Fresh(h2, m)
    <2>1. CASE p = Null
      <3>1. /\ h2 \in Heap /\ st \in Store /\ h2.root = c /\ h2.color = h1.color
            /\ \A f \in Field : h2[f] = h1[f]
        BY <2>1, <1>st, <1>h2, <1>4, <1>6, PutRoot
      <3>2. \A m \in F : Fresh(h2, m)
        BY <3>1, <1>7 DEF Fresh
      <3>3. \A y \in Side, m \in Node : h2[y][m] = h[y][m] /\ m # p
        BY <2>1, <3>1, <1>4, <1>6, SidesAreFields DEF SideField
      <3>4. \A m \in Node : h2.parent[m] = h1.parent[m]
        BY <3>1, SidesAreFields DEF SideField
      <3> QED BY <2>1, <3>1, <3>2, <3>3, <3>4, <1>6
    <2>2. CASE p # Null
      <3>x. PICK x : x = IF h.left[p] = n THEN "left" ELSE "right"
        OBVIOUS
      <3>1. h["left"] = h.left /\ h["right"] = h.right /\ Side = {"left", "right"}
            /\ Other["left"] = "right" /\ Other["right"] = "left"
        BY <1>1, HeapFacts, OtherSide DEF Side
      <3>2. x \in Side /\ h[x][p] = n /\ h[Other[x]][p] # n /\ st = <<x, p, c>>
        BY <2>2, <3>x, <3>1, <1>1, <1>st
      <3>3. x \in Field /\ x # "parent" /\ p \in Node
        BY <2>2, <3>2, <1>1 DEF Side, Field
      <3>4. /\ h2 \in Heap /\ st \in Store /\ h2.root = h1.root /\ h2.color = h1.color
            /\ \A f \in Field, m \in Node : h2[f][m] = IF f = x /\ m = p THEN c ELSE h1[f][m]
        BY <3>2, <3>3, <1>h2, <1>4, <1>6, PutField
      <3>5. \A m \in F : Fresh(h2, m)
        BY <3>2, <3>3, <1>h2, <1>4, <1>6, <1>7, PutFresh
      <3>6. ASSUME NEW y \in Side, NEW m \in Node
            PROVE  h2[y][m] = IF m = p /\ h[y][m] = n THEN c ELSE h[y][m]
        <4>1. y = x \/ y = Other[x]
          BY <3>2, OtherSide
        <4>2. y \in Field
          BY SidesAreFields DEF SideField
        <4> QED BY <4>1, <4>2, <3>2, <3>4, <1>6
      <3>7. \A m \in Node : h2.parent[m] = h1.parent[m]
        BY <3>3, <3>4, SidesAreFields DEF SideField
      <3> QED BY <2>2, <3>4, <3>5, <3>6, <3>7, <1>6
    <2> QED BY <2>1, <2>2
  <1>9. h2 \in S
    <2>1. ASSUME NEW m \in R, NEW y \in Side PROVE LinkRight(h2, R, K, m, y)
      <3>1. CASE m = p /\ h[y][m] = n /\ c # Null
        <4>1. PICK x \in Side : h[x][n] = c
          BY <3>1, <1>1
        <4>2. LinkRight(h, R, K, m, y) /\ LinkRight(h, R, K, n, x)
          BY <1>1, <1>3 DEF Certified, Closed, LinkRight
        <4>3. h2[y][m] = c
          BY <3>1, <1>1, <1>8
        <4> QED BY <3>1, <4>1, <4>2, <4>3, <1>1 DEF LinkRight
      <3>2. CASE m = p /\ h[y][m] = n /\ c = Null
        <4>1. h2[y][m] = Null
          BY <3>2, <1>1, <1>8
        <4> QED BY <4>1 DEF LinkRight
      <3>3. CASE ~(m = p /\ h[y][m] = n)
        <4>1. h2[y][m] = h[y][m]
          BY <3>3, <1>1, <1>8
        <4>2. LinkRight(h, R, K, m, y)
          BY <1>1, <1>3 DEF Certified, Closed, LinkRight
        <4> QED BY <4>1, <4>2 DEF LinkRight
      <3> QED BY <3>1, <3>2, <3>3
    <2>2. h2.root \in R \cup {Null} /\ \A m \in R : Key(m) \in K[m]
      BY <1>1, <1>3, <1>8 DEF Certified
    <2> QED BY <2>1, <2>2, <1>1, <1>2, <1>8, <1>S, SafeByCertificate
  <1>10. Leads(h1, <<st>>, S, h2)
    BY <1>h2, <1>6, <1>8, <1>9, LeadsOne
  <1>11. Leads(h, Unlink(h, n), S, h2)
    <2>1. Unlink(h, n) = PutIf("parent", c, p) \o <<st>>
      BY <1>c, <1>p, <1>st DEF Unlink, Relink
    <2> QED BY <2>1, <1>1, <1>5, <1>10, LeadsOn
  <1>12. UnlinkedBy(h, n, h2)
    BY <1>6, <1>8, <1>c, <1>p DEF UnlinkedBy
  <1> QED
    BY <1>11, <1>12, <1>S

\* One element fewer, and a tree
LEMMA UnlinkedTree ==
    ASSUME NEW h, RightTree(h), NEW n \in Reach(h), h.left[n] = Null \/ h.right[n] = Null,
           NEW g, UnlinkedBy(h, n, g), IsSearchTree(g)
    PROVE  /\ RightTree(g) /\ Reach(g) = Reach(h) \ {n}
           /\ \A m \in Pointer : m # n => Below(g, m) \subseteq Below(h, m)
  <1>c. PICK c : c = OnlyChild(h, n)
    OBVIOUS
  <1>p. PICK p : p = h.parent[n]
    OBVIOUS
  <1>R. PICK R : R = Reach(h)
    OBVIOUS
  <1>Q. PICK Q : Q = Reach(g)
    OBVIOUS
  <1>1. /\ h \in Heap /\ R \in SUBSET Node /\ Null \notin R /\ n \in R
        /\ {c, p} \subseteq R \cup {Null} /\ c # n /\ p # n
        /\ (p = Null <=> h.root = n)
        /\ c # Null => \E x \in Side : h[x][n] = c
        /\ c # Null => h.parent[c] = n
        /\ h.root \in R \cup {Null} /\ (h.root # Null => h.parent[h.root] = Null)
        /\ \A m \in R, y \in Side :
               h[y][m] \in R \cup {Null} /\ (h[y][m] # Null => h.parent[h[y][m]] = m)
        /\ p # Null => \E x \in Side : h[x][p] = n /\ h[Other[x]][p] # n
    BY <1>c, <1>p, <1>R, UnlinkCast
  <1>2. /\ g \in Heap
        /\ g.root = IF p = Null THEN c ELSE h.root
        /\ \A y \in Side, m \in Node : g[y][m] = IF m = p /\ h[y][m] = n THEN c ELSE h[y][m]
        /\ \A m \in Node : g.parent[m] = IF m = c THEN p ELSE h.parent[m]
    BY <1>c, <1>p DEF UnlinkedBy
  <1>3. \A y \in Side : h[y][n] = c \/ h[y][n] = Null
    <2>1. h["left"] = h.left /\ h["right"] = h.right /\ Side = {"left", "right"}
      BY <1>1, HeapFacts DEF Side
    <2> QED BY <2>1, <1>c DEF OnlyChild
  <1>4. Q \in SUBSET Node /\ Closed(g, Q) /\ g.root \in Q \cup {Null}
        /\ \A m \in Q, y \in Side : g[y][m] # Null => g[y][m] \in Q
    BY <1>Q, <1>2, ReachFacts DEF Closed
  <1>5. ASSUME NEW m \in R, NEW y \in Side PROVE g[y][m] \in (R \ {n}) \cup {Null} \/ m = n
    <2>1. h[y][m] = n => m = p
      BY <1>1, <1>p
    <2> QED BY <2>1, <1>1, <1>2
  <1>6. Q \subseteq R \ {n}
    <2>1. Closed(g, R \ {n})
      BY <1>1, <1>5 DEF Closed
    <2>2. g.root \in (R \ {n}) \cup {Null} /\ R \ {n} \in SUBSET Node
      BY <1>1, <1>2
    <2> QED BY <2>1, <2>2, <1>Q, <1>2, ReachFacts
  <1>7. R \ {n} \subseteq Q
    <2>u. PICK U : U = Q \cup {n}
      OBVIOUS
    <2>0. c \in Q \cup {Null} \/ n \notin R \/ p \notin Q \cup {Null}
      <3>1. CASE p = Null
        BY <3>1, <1>2, <1>4
      <3>2. CASE p # Null /\ p \in Q
        <4>1. PICK x \in Side : h[x][p] = n
          BY <3>2, <1>1
        <4>2. g[x][p] = c
          BY <3>2, <4>1, <1>2, <1>4
        <4> QED BY <3>2, <4>2, <1>4
      <3> QED BY <3>1, <3>2
    <2>v. PICK V : V = {m \in U : m = n => p \in Q \cup {Null}}
      OBVIOUS
    <2>1. h.root \in V \cup {Null}
      BY <2>u, <2>v, <1>1, <1>2, <1>4
    <2>2. ASSUME NEW m \in V, NEW y \in Side PROVE h[y][m] \in V \cup {Null}
      <3>1. CASE m = n
        <4>1. c \in Q \cup {Null}
          BY <2>0, <2>v, <3>1, <1>1
        <4> QED BY <4>1, <3>1, <2>u, <2>v, <1>1, <1>3
      <3>2. CASE m # n
        <4>1. m \in Q /\ m \in R /\ m \in Node
          BY <3>2, <2>u, <2>v, <1>4, <1>6
        <4>2. CASE h[y][m] = n
          <5>1. m = p
            BY <4>1, <4>2, <1>1, <1>p
          <5> QED BY <5>1, <4>1, <4>2, <2>u, <2>v
        <4>3. CASE h[y][m] # n
          <5>1. g[y][m] = h[y][m]
            BY <4>1, <4>3, <1>2
          <5> QED BY <5>1, <4>1, <4>3, <2>u, <2>v, <1>4
        <4> QED BY <4>2, <4>3
      <3> QED BY <3>1, <3>2
    <2>3. Closed(h, V) /\ V \in SUBSET Node
      BY <2>u, <2>v, <2>2, <1>1, <1>4 DEF Closed
    <2>4. R \subseteq V
      BY <2>1, <2>3, <1>R, <1>1, ReachFacts
    <2> QED BY <2>4, <2>u, <2>v
  <1>8. Q = R \ {n}
    BY <1>6, <1>7
  <1>9. g.root # Null => g.parent[g.root] = Null
    BY <1>1, <1>2
  <1>10. ASSUME NEW m \in Q, NEW y \in Side, g[y][m] # Null PROVE g.parent[g[y][m]] = m
    <2>1. m # n /\ m \in R /\ m \in Node
      BY <1>1, <1>8
    <2>2. CASE m = p /\ h[y][m] = n
      <3>1. g[y][m] = c /\ c \in Node
        BY <2>1, <2>2, <1>1, <1>2, <1>10
      <3> QED BY <3>1, <2>2, <1>2
    <2>3. CASE ~(m = p /\ h[y][m] = n)
      <3>1. g[y][m] = h[y][m]
        BY <2>1, <2>3, <1>2
      <3>2. h[y][m] \in R /\ h.parent[h[y][m]] = m
        BY <2>1, <3>1, <1>1, <1>10
      <3>3. h[y][m] # c
        BY <2>1, <3>2, <1>1
      <3> QED BY <3>1, <3>2, <3>3, <1>1, <1>2
    <2> QED BY <2>2, <2>3
  <1>11. ParentsRight(g)
    BY <1>9, <1>10, <1>Q DEF ParentsRight
  <1>12. ASSUME NEW d \in Pointer PROVE Below(g, d) \subseteq Below(h, d)
    <2>B. PICK B : B = Below(h, d)
      OBVIOUS
    <2>1. B \in SUBSET Node /\ d \in B \cup {Null} /\ \A m \in B, y \in Side : h[y][m] \in B \cup {Null}
      BY <2>B, <1>1, BelowLeast DEF Closed
    <2>2. ASSUME NEW m \in B, NEW y \in Side PROVE g[y][m] \in B \cup {Null}
      <3>1. CASE m = p /\ h[y][m] = n
        <4>1. n \in B /\ g[y][m] = c
          BY <3>1, <2>1, <1>1, <1>2
        <4> QED BY <4>1, <2>1, <1>1
      <3>2. CASE ~(m = p /\ h[y][m] = n)
        BY <3>2, <2>1, <1>2
      <3> QED BY <3>1, <3>2
    <2>3. Closed(g, B)
      BY <2>1, <2>2 DEF Closed
    <2> QED BY <2>1, <2>3, <2>B, <1>2, BelowLeast
  <1> QED
    BY <1>2, <1>8, <1>11, <1>12, <1>R, <1>Q DEF RightTree

\* The key k may take the place of old.
Fits(h, old, k) ==
    /\ \A y \in Side : \A m \in Below(h, h[y][old]) : On(y, Key(m), k)
    /\ \A m \in Reach(h), x \in Side :
           h[x][m] # Null /\ old \in Below(h, h[x][m]) => On(x, k, Key(m))

\* n in the place of old
ReplacedBy(h, old, n, g) ==
    LET p == h.parent[old]
    IN  /\ g \in Heap
        /\ g.root = IF p = Null THEN n ELSE h.root
        /\ \A y \in Side, m \in Node :
               g[y][m] = IF m = n THEN h[y][old]
                         ELSE IF m = p /\ h[y][m] = old THEN n ELSE h[y][m]
        /\ \A m \in Node :
               g.parent[m] = IF m = n THEN p
                             ELSE IF \E y \in Side : m = h[y][old] THEN n ELSE h.parent[m]
        /\ \A m \in Node : g.color[m] = IF m = n THEN h.color[old] ELSE h.color[m]

\* The first four stores fill n, which is out of the tree.
LEMMA FillLeads ==
    ASSUME NEW F \in SUBSET Node, NEW h \in SafeHeaps(F), NEW old \in Node,
           NEW n \in Node, n \notin F, n \notin Reach(h)
    PROVE  \E g : /\ Leads(h, Fill(h, old, n), SafeHeaps(F), g)
                  /\ g.root = h.root
                  /\ \A f \in Field, m \in Node : g[f][m] = IF m = n THEN h[f][old] ELSE h[f][m]
                  /\ \A m \in Node : g.color[m] = IF m = n THEN h.color[old] ELSE h.color[m]
  <1>S. PICK S : S = SafeHeaps(F)
    OBVIOUS
  <1>1. h \in Heap /\ h.left[old] \in Pointer /\ h.right[old] \in Pointer /\ h.parent[old] \in Pointer
        /\ h["left"] = h.left /\ h["right"] = h.right /\ h.color[old] \in {"red", "black"}
    BY SafeFacts, HeapFacts
  <1>2. h["left"] = h.left /\ h["right"] = h.right /\ h["parent"] = h.parent /\ h["color"] = h.color
        /\ h.color[old] \in Shade
    BY <1>1 DEF Heap, Shade
  <1>3. "left" \in Field /\ "right" \in Field /\ "parent" \in Field
    BY DEF Field
  <1>a. PICK a : a = <<"left", n, h.left[old]>>
    OBVIOUS
  <1>b. PICK b : b = <<"right", n, h.right[old]>>
    OBVIOUS
  <1>c. PICK c : c = <<"parent", n, h.parent[old]>>
    OBVIOUS
  <1>d. PICK d : d = <<"color", n, h.color[old]>>
    OBVIOUS
  <1>h1. PICK h1 : h1 = Put(h, a)
    OBVIOUS
  <1>11. /\ h1 \in Heap /\ h1.root = h.root /\ h1.color = h.color /\ a \in Store
         /\ \A f \in Field, m \in Node : h1[f][m] = IF f = "left" /\ m = n THEN h.left[old] ELSE h[f][m]
    BY <1>h1, <1>a, <1>1, <1>3, PutField
  <1>12. h1 \in S
    BY <1>h1, <1>a, <1>S, <1>1, <1>3, PutAside
  <1>13. n \notin Reach(h1)
    <2>1. LET R == Reach(h) IN R \in SUBSET Node /\ Closed(h, R) /\ h.root \in R \cup {Null}
      BY <1>1, ReachFacts
    <2>2. Closed(h1, Reach(h))
      <3>1. \A y \in Side : y \in Field
        BY SidesAreFields DEF SideField
      <3> QED BY <2>1, <3>1, <1>11 DEF Closed
    <2> QED BY <2>1, <2>2, <1>11, ReachFacts
  <1>h2. PICK h2 : h2 = Put(h1, b)
    OBVIOUS
  <1>21. /\ h2 \in Heap /\ h2.root = h.root /\ h2.color = h.color /\ b \in Store
         /\ \A f \in Field, m \in Node : h2[f][m] = IF f = "right" /\ m = n THEN h.right[old] ELSE h1[f][m]
    BY <1>h2, <1>b, <1>1, <1>3, <1>11, PutField
  <1>22. h2 \in S
    <2>1. h1 \in SafeHeaps(F)
      BY <1>12, <1>S
    <2> QED BY <2>1, <1>h2, <1>b, <1>S, <1>1, <1>3, <1>13, PutAside
  <1>h3. PICK h3 : h3 = Put(h2, c)
    OBVIOUS
  <1>31. /\ h3 \in Heap /\ h3.root = h.root /\ h3.color = h.color /\ c \in Store
         /\ \A f \in Field, m \in Node : h3[f][m] = IF f = "parent" /\ m = n THEN h.parent[old] ELSE h2[f][m]
    BY <1>h3, <1>c, <1>1, <1>3, <1>21, PutField
  <1>32. h3 \in S
    <2>1. h2 \in SafeHeaps(F)
      BY <1>22, <1>S
    <2> QED BY <2>1, <1>h3, <1>c, <1>S, <1>1, PutParentSafe
  <1>h4. PICK h4 : h4 = Put(h3, d)
    OBVIOUS
  <1>41. /\ h4 \in Heap /\ h4.root = h.root /\ d \in Store
         /\ \A f \in Field : h4[f] = h3[f]
         /\ \A m \in Node : h4.color[m] = IF m = n THEN h.color[old] ELSE h3.color[m]
    BY <1>h4, <1>d, <1>2, <1>31, PutColor
  <1>42. h4 \in S
    <2>1. h3 \in SafeHeaps(F)
      BY <1>32, <1>S
    <2> QED BY <2>1, <1>h4, <1>d, <1>S, <1>2, PutColorSafe
  <1>5. h \in S
    BY <1>S
  <1>6. /\ Leads(h, <<a>>, S, h1) /\ Leads(h1, <<b>>, S, h2)
        /\ Leads(h2, <<c>>, S, h3) /\ Leads(h3, <<d>>, S, h4)
    BY <1>5, <1>1, <1>h1, <1>h2, <1>h3, <1>h4, <1>11, <1>12, <1>21, <1>22, <1>31, <1>32, <1>41, <1>42, LeadsOne
  <1>7. Leads(h, <<a, b, c, d>>, S, h4)
    BY <1>1, <1>6, LeadsFour
  <1>u. PICK u : u = Fill(h, old, n)
    OBVIOUS
  <1>v. PICK v : v = <<a, b, c, d>>
    OBVIOUS
  <1>8. v \in Seq(Store) /\ Len(v) = 4 /\ v[1] = a /\ v[2] = b /\ v[3] = c /\ v[4] = d
    BY <1>v, <1>11, <1>21, <1>31, <1>41
  <1>9. Fields[1] = "left" /\ Fields[2] = "right" /\ Fields[3] = "parent" /\ Fields[4] = "color"
    BY DEF Fields
  <1>10. /\ u[1] = a /\ u[2] = b /\ u[3] = c /\ u[4] = d
         /\ DOMAIN u = 1 .. 4 /\ u = [i \in 1 .. 4 |-> u[i]]
    BY <1>u, <1>a, <1>b, <1>c, <1>d, <1>2, <1>9 DEF Fill
  <1>14. \A i \in 1 .. 4 : u[i] \in Store
    <2>1. ASSUME NEW i \in 1 .. 4 PROVE u[i] \in Store
      <3>1. i = 1 \/ i = 2 \/ i = 3 \/ i = 4
        OBVIOUS
      <3> QED BY <3>1, <1>10, <1>11, <1>21, <1>31, <1>41
    <2> QED BY <2>1
  <1>15. u \in Seq(Store) /\ Len(u) = 4
    BY <1>10, <1>14
  <1>16. u = v
    <2>1. ASSUME NEW i \in 1 .. Len(u) PROVE u[i] = v[i]
      <3>1. i = 1 \/ i = 2 \/ i = 3 \/ i = 4
        BY <1>15
      <3> QED BY <3>1, <1>8, <1>10
    <2> QED BY <2>1, <1>8, <1>15, SeqEqual
  <1>17. Leads(h, u, S, h4)
    BY <1>7, <1>16, <1>v
  <1>18. \A f \in Field, m \in Node : h4[f][m] = IF m = n THEN h[f][old] ELSE h[f][m]
    <2>1. ASSUME NEW f \in Field, NEW m \in Node
          PROVE  h4[f][m] = IF m = n THEN h[f][old] ELSE h[f][m]
      <3>1. f = "left" \/ f = "right" \/ f = "parent"
        BY DEF Field
      <3> QED BY <3>1, <1>2, <1>11, <1>21, <1>31, <1>41
    <2> QED BY <2>1
  <1> QED
    BY <1>17, <1>u, <1>S, <1>18, <1>31, <1>41

\* The stores that put an element in the place of another: the tree stays safe after each.
LEMMA ReplaceLeads ==
    ASSUME NEW F \in SUBSET Node, NEW h \in SafeHeaps(F), RightTree(h), NEW old \in Reach(h),
           NEW n \in Node, n \notin F, n \notin Reach(h), Fits(h, old, Key(n)),
           h.left[old] # Null
    PROVE  \E g : Leads(h, Replace(h, old, n), SafeHeaps(F), g) /\ ReplacedBy(h, old, n, g)
  <1>S. PICK S : S = SafeHeaps(F)
    OBVIOUS
  <1>p. PICK p : p = h.parent[old]
    OBVIOUS
  <1>l. PICK l : l = h.left[old]
    OBVIOUS
  <1>r. PICK r : r = h.right[old]
    OBVIOUS
  <1>R. PICK R : R = Reach(h)
    OBVIOUS
  <1>K. PICK K : K = KeysBelow(h)
    OBVIOUS
  <1>k. PICK k : k = Key(n)
    OBVIOUS
  <1>1. /\ h \in Heap /\ IsSearchTree(h) /\ R \cap F = {} /\ \A m \in F : Fresh(h, m)
        /\ R \in SUBSET Node /\ h.root \in R \cup {Null} /\ n \notin R /\ old \in R
        /\ Null \notin R /\ Null # n /\ Null # old /\ Null \notin F
        /\ \A m \in R, y \in Side : h[y][m] \in R \cup {Null}
    BY <1>R, SafeFacts, ReachFacts, NodeFacts DEF Closed
  <1>2. /\ p \in R \cup {Null} /\ (p = Null <=> h.root = old) /\ p # old
        /\ \A m \in R, y \in Side : h[y][m] = old => p = m
    BY <1>p, <1>R, Links
  <1>3. h["left"] = h.left /\ h["right"] = h.right /\ Side = {"left", "right"}
        /\ Other["left"] = "right" /\ Other["right"] = "left" /\ "left" \in Side /\ "right" \in Side
    BY <1>1, HeapFacts, OtherSide DEF Side
  <1>4. l \in R /\ r \in R \cup {Null} /\ {p, l, r, n} \subseteq Pointer /\ l \notin F /\ r \notin F
        /\ p \notin F
    BY <1>1, <1>2, <1>3, <1>l, <1>r DEF Pointer
  <1>5. p # Null => \E x \in Side : h[x][p] = old /\ h[Other[x]][p] # old
    <2> SUFFICES ASSUME p # Null PROVE \E x \in Side : h[x][p] = old /\ h[Other[x]][p] # old
      OBVIOUS
    <2>1. PICK x \in Side : h[x][p] = old
      BY <1>2, <1>p, Links
    <2>2. p \in R /\ h[x][p] # Null
      BY <2>1, <1>1, <1>2
    <2> QED BY <2>1, <2>2, <1>1, <1>R, NotBelowChild
  <1>6. Certified(h, R, K) /\ \A m \in R : m \in Below(h, m) /\ m \in Pointer
    BY <1>1, <1>R, <1>K, OwnCertificate, ReachFacts DEF Pointer
  <1>7. /\ \A m \in R, y \in Side : LinkRight(h, R, K, m, y)
        /\ \A m \in R : Key(m) \in K[m]
    BY <1>6 DEF Certified, Closed, LinkRight
  <1>8. PICK g1 : /\ Leads(h, Fill(h, old, n), S, g1)
                  /\ g1.root = h.root
                  /\ \A f \in Field, m \in Node : g1[f][m] = IF m = n THEN h[f][old] ELSE h[f][m]
                  /\ \A m \in Node : g1.color[m] = IF m = n THEN h.color[old] ELSE h.color[m]
    <2>1. old \in Node
      BY <1>1
    <2> QED BY <2>1, <1>S, FillLeads
  <1>9. g1 \in Heap /\ g1 \in S
    BY <1>8 DEF Leads
  <1>9a. \A m \in F : Fresh(g1, m)
    BY <1>9, <1>S, SafeFacts
  <1>st. PICK st : st = IF p = Null THEN <<"root", Null, n>>
                        ELSE <<IF h.left[p] = old THEN "left" ELSE "right", p, n>>
    OBVIOUS
  <1>g2. PICK g2 : g2 = Put(g1, st)
    OBVIOUS
  <1>10. /\ g2 \in Heap /\ st \in Store /\ g2.color = g1.color
         /\ g2.root = IF p = Null THEN n ELSE h.root
         /\ \A y \in Side, m \in Node :
                g2[y][m] = IF m = n THEN h[y][old]
                           ELSE IF m = p /\ h[y][m] = old THEN n ELSE h[y][m]
         /\ \A m \in Node : g2.parent[m] = IF m = n THEN p ELSE h.parent[m]
         /\ \A m \in F : Fresh(g2, m)
    <2>0. \A y \in Side : y \in Field /\ y # "parent"
      BY DEF Side, Field
    <2>00. "parent" \in Field
      BY DEF Field
    <2>1. CASE p = Null
      <3>1. /\ g2 \in Heap /\ st \in Store /\ g2.root = n /\ g2.color = g1.color
            /\ \A f \in Field : g2[f] = g1[f]
        BY <2>1, <1>st, <1>g2, <1>4, <1>9, PutRoot
      <3>2. \A m \in F : Fresh(g2, m)
        BY <3>1, <1>9a DEF Fresh
      <3>3. \A y \in Side, m \in Node : m # p /\ g2[y][m] = IF m = n THEN h[y][old] ELSE h[y][m]
        BY <2>0, <2>1, <3>1, <1>8, NodeFacts
      <3>4. \A m \in Node : g2.parent[m] = IF m = n THEN p ELSE h.parent[m]
        BY <2>00, <3>1, <1>8, <1>p
      <3> QED BY <2>1, <3>1, <3>2, <3>3, <3>4
    <2>2. CASE p # Null
      <3>x. PICK x : x = IF h.left[p] = old THEN "left" ELSE "right"
        OBVIOUS
      <3>2. x \in Side /\ h[x][p] = old /\ h[Other[x]][p] # old /\ st = <<x, p, n>>
        BY <2>2, <3>x, <1>3, <1>5, <1>st
      <3>3. x \in Field /\ x # "parent" /\ p \in Node /\ p # n
        BY <2>0, <2>2, <3>2, <1>1, <1>2
      <3>4. /\ g2 \in Heap /\ st \in Store /\ g2.root = g1.root /\ g2.color = g1.color
            /\ \A f \in Field, m \in Node : g2[f][m] = IF f = x /\ m = p THEN n ELSE g1[f][m]
        BY <3>2, <3>3, <1>g2, <1>4, <1>9, PutField
      <3>5. \A m \in F : Fresh(g2, m)
        BY <3>2, <3>3, <1>g2, <1>4, <1>9, <1>9a, PutFresh
      <3>6. ASSUME NEW y \in Side, NEW m \in Node
            PROVE  g2[y][m] = IF m = n THEN h[y][old]
                              ELSE IF m = p /\ h[y][m] = old THEN n ELSE h[y][m]
        <4>1. y = x \/ y = Other[x]
          BY <3>2, OtherSide
        <4>2. g2[y][m] = IF y = x /\ m = p THEN n ELSE IF m = n THEN h[y][old] ELSE h[y][m]
          BY <2>0, <3>4, <1>8
        <4> QED BY <4>1, <4>2, <3>2, <3>3
      <3>7. \A m \in Node : g2.parent[m] = IF m = n THEN p ELSE h.parent[m]
        BY <2>00, <3>3, <3>4, <1>8, <1>p
      <3> QED BY <2>2, <3>4, <3>5, <3>6, <3>7, <1>8
    <2> QED BY <2>1, <2>2
  <1>11. g2 \in S
    <2>L. PICK L : L = [m \in Node |-> IF m = n THEN K[old] \cup {k}
                                       ELSE IF old \in Below(h, m) THEN K[m] \cup {k} ELSE K[m]]
      OBVIOUS
    <2>T. PICK T : T = (R \ {old}) \cup {n}
      OBVIOUS
    <2>0. /\ L[n] = K[old] \cup {k}
          /\ \A m \in R : L[m] = IF old \in Below(h, m) THEN K[m] \cup {k} ELSE K[m]
      BY <2>L, <1>1
    <2>1. T \in SUBSET Node /\ T \cap F = {} /\ g2.root \in T \cup {Null}
      BY <2>T, <1>1, <1>2, <1>10
    <2>2. \A m \in T : Key(m) \in L[m]
      BY <2>0, <2>T, <1>k, <1>7
    <2>3. ASSUME NEW m \in T, NEW y \in Side PROVE LinkRight(g2, T, L, m, y)
      <3>1. CASE m = n
        <4> SUFFICES ASSUME g2[y][m] # Null PROVE LinkRight(g2, T, L, m, y)
          BY DEF LinkRight
        <4>1. g2[y][m] = h[y][old] /\ h[y][old] \in R
          BY <3>1, <1>1, <1>10
        <4>2. old \notin Below(h, h[y][old]) /\ h[y][old] # old
          BY <1>1, <1>R, NotBelowChild
        <4>3. LinkRight(h, R, K, old, y)
          BY <1>1, <1>7
        <4>4. L[h[y][old]] = K[h[y][old]]
          BY <4>1, <4>2, <2>0
        <4>5. ASSUME NEW j \in K[h[y][old]] PROVE On(y, j, k)
          <5>1. h[y][old] \in Node
            BY <4>1, <1>1
          <5>2. PICK q \in Below(h, h[y][old]) : j = Key(q)
            BY <5>1, <1>1, <1>K, OwnCertificate
          <5> QED BY <5>2, <1>k DEF Fits
        <4> QED BY <3>1, <4>1, <4>2, <4>3, <4>4, <4>5, <2>0, <2>T, <1>k DEF LinkRight
      <3>2. CASE m # n /\ m = p /\ h[y][m] = old
        <4>1. m \in R /\ g2[y][m] = n /\ old \in Below(h, old) /\ old # Null
          BY <3>2, <2>T, <1>1, <1>6, <1>10
        <4>2. LinkRight(h, R, K, m, y) /\ On(y, k, Key(m))
          BY <4>1, <3>2, <1>7, <1>R, <1>k DEF Fits
        <4>3. old \in Below(h, m)
          BY <4>1, <3>2, <1>1, <1>6, BelowLeast DEF Closed
        <4> QED BY <3>2, <4>1, <4>2, <4>3, <2>0, <2>T DEF LinkRight
      <3>3. CASE m # n /\ ~(m = p /\ h[y][m] = old)
        <4>1. m \in R /\ m \in Node /\ g2[y][m] = h[y][m] /\ h[y][m] # old /\ LinkRight(h, R, K, m, y)
          BY <3>3, <2>T, <1>1, <1>2, <1>7, <1>10
        <4>2. CASE h[y][m] # Null /\ old \in Below(h, h[y][m])
          <5>1. h[y][m] \in R /\ h[y][m] # n /\ m \in Node /\ m \in Pointer
            BY <4>1, <4>2, <1>1, <1>6 DEF LinkRight
          <5>2. h[y][m] \in Below(h, m)
            BY <5>1, <4>1, <4>2, <1>1, <1>6, BelowLeast DEF Closed
          <5>3. old \in Below(h, m)
            BY <5>1, <5>2, <4>2, <1>1, BelowIn
          <5>4. On(y, k, Key(m))
            BY <4>1, <4>2, <1>R, <1>k DEF Fits
          <5>5. L[m] = K[m] \cup {k} /\ L[h[y][m]] = K[h[y][m]] \cup {k}
            BY <5>1, <5>3, <4>1, <4>2, <2>0
          <5>6. \A j \in K[h[y][m]] : j \in K[m] /\ On(y, j, Key(m))
            BY <4>1, <4>2 DEF LinkRight
          <5>7. h[y][m] \in T
            BY <5>1, <4>1, <2>T
          <5> QED BY <5>4, <5>5, <5>6, <5>7, <4>1 DEF LinkRight
        <4>3. CASE ~(h[y][m] # Null /\ old \in Below(h, h[y][m]))
          <5>1. h[y][m] # Null => h[y][m] \in R /\ L[h[y][m]] = K[h[y][m]]
            BY <4>1, <4>3, <2>0 DEF LinkRight
          <5>2. K[m] \subseteq L[m]
            BY <4>1, <2>0
          <5> QED BY <5>1, <5>2, <4>1, <2>T DEF LinkRight
        <4> QED BY <4>2, <4>3
      <3> QED BY <3>1, <3>2, <3>3
    <2> QED BY <2>1, <2>2, <2>3, <1>10, <1>S, SafeByCertificate
  <1>12. Leads(g1, <<st>>, S, g2)
    BY <1>g2, <1>9, <1>10, <1>11, LeadsOne
  <1>b. PICK b : b = <<"parent", l, n>>
    OBVIOUS
  <1>g3. PICK g3 : g3 = Put(g2, b)
    OBVIOUS
  <1>13. /\ g3 \in Heap /\ b \in Store /\ g3.root = g2.root /\ g3.color = g2.color
         /\ \A f \in Field, m \in Node : g3[f][m] = IF f = "parent" /\ m = l THEN n ELSE g2[f][m]
    <2>1. l \in Node /\ "parent" \in Field
      BY <1>1, <1>4 DEF Field
    <2> QED BY <2>1, <1>b, <1>g3, <1>4, <1>10, PutField
  <1>14. g3 \in S
    <2>1. g2 \in SafeHeaps(F) /\ l \in Node
      BY <1>11, <1>S, <1>1, <1>4
    <2> QED BY <2>1, <1>b, <1>g3, <1>S, <1>4, PutParentSafe
  <1>15. Leads(g2, <<b>>, S, g3)
    BY <1>g3, <1>10, <1>11, <1>13, <1>14, LeadsOne
  <1>g4. PICK g4 : g4 = IF r = Null THEN g3 ELSE Put(g3, <<"parent", r, n>>)
    OBVIOUS
  <1>16. Leads(g3, PutIf("parent", r, n), S, g4)
    <2>1. g3 \in SafeHeaps(F)
      BY <1>14, <1>S
    <2>2. Leads(g3, PutIf("parent", r, n), SafeHeaps(F),
                 IF r = Null THEN g3 ELSE Put(g3, <<"parent", r, n>>))
      BY <2>1, <1>4, LeadsParent
    <2> QED BY <2>2, <1>g4, <1>S
  <1>17. /\ g4 \in Heap /\ g4.root = g3.root /\ g4.color = g3.color
         /\ \A f \in Field, m \in Node : g4[f][m] = IF f = "parent" /\ m = r THEN n ELSE g3[f][m]
    <2>1. CASE r = Null
      BY <2>1, <1>13, <1>g4, NodeFacts
    <2>2. CASE r # Null
      <3>1. r \in Node /\ "parent" \in Field
        BY <2>2, <1>1, <1>4 DEF Field
      <3> QED BY <2>2, <3>1, <1>g4, <1>4, <1>13, PutField
    <2> QED BY <2>1, <2>2
  <1>18. ReplacedBy(h, old, n, g4)
    <2>1. ASSUME NEW y \in Side, NEW m \in Node
          PROVE  g4[y][m] = IF m = n THEN h[y][old]
                            ELSE IF m = p /\ h[y][m] = old THEN n ELSE h[y][m]
      <3>1. y \in Field /\ y # "parent"
        BY DEF Side, Field
      <3> QED BY <3>1, <1>10, <1>13, <1>17
    <2>2. ASSUME NEW m \in Node
          PROVE  g4.parent[m] = IF m = n THEN p
                                ELSE IF \E y \in Side : m = h[y][old] THEN n ELSE h.parent[m]
      <3>1. (\E y \in Side : m = h[y][old]) <=> m = l \/ m = r
        BY <1>3, <1>l, <1>r
      <3>2. l # n /\ r # n
        BY <1>1, <1>4
      <3>3. "parent" \in Field
        BY DEF Field
      <3> QED BY <3>1, <3>2, <3>3, <1>10, <1>13, <1>17
    <2>3. \A m \in Node : g4.color[m] = IF m = n THEN h.color[old] ELSE h.color[m]
      BY <1>8, <1>10, <1>13, <1>17
    <2>4. g4 \in Heap /\ g4.root = IF p = Null THEN n ELSE h.root
      BY <1>10, <1>13, <1>17
    <2> QED BY <2>1, <2>2, <2>3, <2>4, <1>p DEF ReplacedBy
  <1>19. Leads(h, Replace(h, old, n), S, g4)
    <2>a. PICK a : a = Fill(h, old, n)
      OBVIOUS
    <2>e. PICK e : e = PutIf("parent", r, n)
      OBVIOUS
    <2>1. Replace(h, old, n) = a \o <<st>> \o <<b>> \o e
      BY <2>a, <2>e, <1>p, <1>l, <1>r, <1>st, <1>b DEF Replace, Relink
    <2>2. Leads(h, a, S, g1) /\ Leads(g3, e, S, g4)
      BY <2>a, <2>e, <1>8, <1>16
    <2>3. Leads(h, a \o <<st>>, S, g2)
      BY <2>2, <1>1, <1>12, LeadsOn
    <2>4. Leads(h, a \o <<st>> \o <<b>>, S, g3)
      BY <2>3, <1>1, <1>15, LeadsOn
    <2>5. Leads(h, a \o <<st>> \o <<b>> \o e, S, g4)
      BY <2>2, <2>4, <1>1, LeadsOn
    <2> QED BY <2>1, <2>5
  <1> QED
    BY <1>18, <1>19, <1>S

\* The new element for the old one, and a tree
LEMMA ReplacedTree ==
    ASSUME NEW h, RightTree(h), NEW old \in Reach(h), NEW n \in Node, n \notin Reach(h),
           NEW g, ReplacedBy(h, old, n, g), IsSearchTree(g)
    PROVE  RightTree(g) /\ Reach(g) = (Reach(h) \ {old}) \cup {n}
  <1>p. PICK p : p = h.parent[old]
    OBVIOUS
  <1>R. PICK R : R = Reach(h)
    OBVIOUS
  <1>Q. PICK Q : Q = Reach(g)
    OBVIOUS
  <1>T. PICK T : T = (R \ {old}) \cup {n}
    OBVIOUS
  <1>1. /\ h \in Heap /\ IsSearchTree(h) /\ R \in SUBSET Node /\ n \notin R /\ old \in R
        /\ Null \notin R /\ Null # n /\ old # n
        /\ h.root \in R \cup {Null} /\ (h.root # Null => h.parent[h.root] = Null)
        /\ \A m \in R, y \in Side :
               h[y][m] \in R \cup {Null} /\ (h[y][m] # Null => h.parent[h[y][m]] = m)
    BY <1>R, ReachFacts, NodeFacts DEF Closed, RightTree, ParentsRight
  <1>2. /\ p \in R \cup {Null} /\ (p = Null <=> h.root = old) /\ p # old
        /\ \A m \in R, y \in Side : h[y][m] = old => p = m
        /\ \A y \in Side : h[y][old] # old
    <2>1. \A y \in Side : h[y][old] # old
      BY <1>1, <1>R, NotBelowChild
    <2> QED BY <2>1, <1>p, <1>R, Links
  <1>3. /\ g \in Heap
        /\ g.root = IF p = Null THEN n ELSE h.root
        /\ \A y \in Side, m \in Node :
               g[y][m] = IF m = n THEN h[y][old]
                         ELSE IF m = p /\ h[y][m] = old THEN n ELSE h[y][m]
        /\ \A m \in Node :
               g.parent[m] = IF m = n THEN p
                             ELSE IF \E y \in Side : m = h[y][old] THEN n ELSE h.parent[m]
    BY <1>p DEF ReplacedBy
  <1>4. Q \in SUBSET Node /\ Closed(g, Q) /\ g.root \in Q \cup {Null}
        /\ \A m \in Q, y \in Side : g[y][m] # Null => g[y][m] \in Q
    BY <1>Q, <1>3, ReachFacts DEF Closed
  <1>5. Q \subseteq T
    <2>1. ASSUME NEW m \in T, NEW y \in Side PROVE g[y][m] \in T \cup {Null}
      <3>1. m \in Node /\ (m # n => m \in R /\ m # old)
        BY <1>T, <1>1
      <3>2. CASE m = n
        <4>1. g[y][m] = h[y][old]
          BY <3>1, <3>2, <1>3
        <4> QED BY <4>1, <1>1, <1>2, <1>T
      <3>3. CASE m # n /\ h[y][m] = old
        <4>1. g[y][m] = n
          BY <3>1, <3>3, <1>2, <1>3
        <4> QED BY <4>1, <1>T
      <3>4. CASE m # n /\ h[y][m] # old
        <4>1. g[y][m] = h[y][m]
          BY <3>1, <3>4, <1>3
        <4> QED BY <3>1, <3>4, <4>1, <1>1, <1>T
      <3> QED BY <3>2, <3>3, <3>4
    <2>2. T \in SUBSET Node /\ g.root \in T \cup {Null}
      BY <1>T, <1>1, <1>2, <1>3
    <2>3. Closed(g, T)
      BY <2>1, <2>2 DEF Closed
    <2> QED BY <2>2, <2>3, <1>Q, <1>3, ReachFacts
  <1>6. T \subseteq Q
    <2>v. PICK V : V = {m \in (Q \ {n}) \cup {old} : m = old => n \in Q}
      OBVIOUS
    <2>1. h.root \in V \cup {Null}
      BY <2>v, <1>1, <1>2, <1>3, <1>4
    <2>2. ASSUME NEW m \in V, NEW y \in Side PROVE h[y][m] \in V \cup {Null}
      <3>1. CASE m = old
        <4>1. n \in Q /\ g[y][n] = h[y][old]
          BY <2>v, <3>1, <1>3
        <4> QED BY <4>1, <3>1, <2>v, <1>1, <1>2, <1>4
      <3>2. CASE m # old
        <4>1. m \in Q /\ m # n /\ m \in R /\ m \in Node
          BY <3>2, <2>v, <1>4, <1>5, <1>T
        <4>2. CASE h[y][m] = old
          <5>1. g[y][m] = n
            BY <4>1, <4>2, <1>2, <1>3
          <5> QED BY <5>1, <4>1, <4>2, <2>v, <1>1, <1>4
        <4>3. CASE h[y][m] # old
          <5>1. g[y][m] = h[y][m] /\ h[y][m] # n
            BY <4>1, <4>3, <1>1, <1>3
          <5> QED BY <5>1, <4>1, <4>3, <2>v, <1>4
        <4> QED BY <4>2, <4>3
      <3> QED BY <3>1, <3>2
    <2>3. Closed(h, V) /\ V \in SUBSET Node
      BY <2>v, <2>2, <1>1, <1>4 DEF Closed
    <2>4. R \subseteq V
      BY <2>1, <2>3, <1>R, <1>1, ReachFacts
    <2> QED BY <2>4, <2>v, <1>1, <1>T
  <1>7. Q = T
    BY <1>5, <1>6
  <1>8. g.root # Null => g.parent[g.root] = Null
    <2>1. CASE p = Null
      BY <2>1, <1>3
    <2>2. CASE p # Null
      <3> SUFFICES ASSUME h.root # Null PROVE g.parent[h.root] = Null
        BY <2>2, <1>3
      <3>1. h.root \in R /\ h.root \in Node /\ h.root # n /\ h.parent[h.root] = Null
        BY <1>1
      <3>2. ~\E y \in Side : h.root = h[y][old]
        BY <3>1, <1>1
      <3> QED BY <3>1, <3>2, <1>3
    <2> QED BY <2>1, <2>2
  <1>9. ASSUME NEW m \in Q, NEW y \in Side, g[y][m] # Null PROVE g.parent[g[y][m]] = m
    <2>1. m \in Node /\ (m # n => m \in R /\ m # old)
      BY <1>7, <1>T, <1>1
    <2>2. CASE m = n
      <3>1. g[y][m] = h[y][old] /\ h[y][old] # Null
        BY <2>1, <2>2, <1>3, <1>9
      <3>2. h[y][old] \in Node /\ h[y][old] # n
        BY <3>1, <1>1
      <3> QED BY <3>1, <3>2, <2>2, <1>3
    <2>3. CASE m # n /\ h[y][m] = old
      <3>1. g[y][m] = n /\ p = m
        BY <2>1, <2>3, <1>2, <1>3
      <3> QED BY <3>1, <1>3
    <2>4. CASE m # n /\ h[y][m] # old
      <3>1. g[y][m] = h[y][m]
        BY <2>1, <2>4, <1>3
      <3>2. h[y][m] \in R /\ h[y][m] \in Node /\ h[y][m] # n /\ h.parent[h[y][m]] = m
        BY <2>1, <2>4, <3>1, <1>1, <1>9
      <3>3. ~\E z \in Side : h[y][m] = h[z][old]
        BY <2>1, <2>4, <3>2, <1>1
      <3> QED BY <3>1, <3>2, <3>3, <1>3
    <2> QED BY <2>2, <2>3, <2>4
  <1>10. ParentsRight(g)
    BY <1>8, <1>9, <1>Q DEF ParentsRight
  <1> QED
    BY <1>3, <1>7, <1>10, <1>R, <1>Q, <1>T DEF RightTree

\* What a removal comes to before the colors are looked at: u is the heap without
\* the gap, g the one with the gap in old's place.
TakenBy(h, old, u, g) ==
    LET n == Spliced(h, old)
    IN  /\ n \in Reach(h) /\ (h.left[n] = Null \/ h.right[n] = Null)
        /\ UnlinkedBy(h, n, u) /\ RightTree(u) /\ Reach(u) = Reach(h) \ {n}
        /\ IF n = old THEN g = u ELSE n \notin Reach(u) /\ old \in Reach(u) /\ ReplacedBy(u, old, n, g)
        /\ RightTree(g) /\ Reach(g) = Reach(h) \ {old}

\* The element that is spliced out: the one to remove if a child is missing, else its successor
LEMMA SplicedIs ==
    ASSUME NEW h, RightTree(h), NEW old \in Reach(h)
    PROVE  LET n == Spliced(h, old) IN
           /\ n \in Reach(h) /\ (h.left[n] = Null \/ h.right[n] = Null)
           /\ n # old => /\ n \in Below(h, h["right"][old]) /\ h["right"][old] # Null
                         /\ h.left[old] # Null
                         /\ \A x \in Below(h, h["right"][old]) : x = n \/ On("right", Key(x), Key(n))
  <1>n. PICK n : n = Spliced(h, old)
    OBVIOUS
  <1>r. PICK r : r = h.right[old]
    OBVIOUS
  <1>1. h \in Heap /\ IsSearchTree(h) /\ Reach(h) \in SUBSET Node
        /\ \A m \in Reach(h), y \in Side : h[y][m] \in Reach(h) \cup {Null}
    BY ReachFacts DEF RightTree, Closed
  <1>2. h["left"] = h.left /\ h["right"] = h.right /\ "left" \in Side /\ "right" \in Side
        /\ Other["left"] = "right"
    BY <1>1, HeapFacts, OtherSide DEF Side
  <1>3. CASE h.left[old] # Null /\ h.right[old] # Null
    <2>1. r \in Reach(h) /\ n = Far(h, "left", r)
      BY <1>1, <1>2, <1>3, <1>n, <1>r DEF Spliced
    <2>2. /\ n \in Below(h, r) /\ n \in Reach(h) /\ h["left"][n] = Null
          /\ \A x \in Below(h, r) : x = n \/ On("right", Key(x), Key(n))
      BY <2>1, <1>1, <1>2, FarEnds
    <2> QED BY <2>2, <1>2, <1>3, <1>n, <1>r
  <1>4. CASE ~(h.left[old] # Null /\ h.right[old] # Null)
    <2>1. n = old
      BY <1>4, <1>n DEF Spliced
    <2> QED BY <2>1, <1>4, <1>n, Zenon
  <1> QED
    BY <1>3, <1>4

\* All stores of RB_REMOVE before it recolors: the tree stays safe after each of them.
LEMMA TakeOutLeads ==
    ASSUME NEW F \in SUBSET Node, NEW h \in SafeHeaps(F), RightTree(h), NEW old \in Reach(h)
    PROVE  \E u, g : Leads(h, TakeOut(h, old), SafeHeaps(F), g) /\ TakenBy(h, old, u, g)
  <1>S. PICK S : S = SafeHeaps(F)
    OBVIOUS
  <1>n. PICK n : n = Spliced(h, old)
    OBVIOUS
  <1>R. PICK R : R = Reach(h)
    OBVIOUS
  <1>c. PICK c : c = OnlyChild(h, n)
    OBVIOUS
  <1>1. /\ h \in Heap /\ IsSearchTree(h) /\ R \cap F = {}
        /\ R \in SUBSET Node /\ old \in R /\ Null \notin R
        /\ \A m \in R, y \in Side : h[y][m] \in R \cup {Null}
    BY <1>R, SafeFacts, ReachFacts, NodeFacts DEF Closed
  <1>2. /\ n \in R /\ (h.left[n] = Null \/ h.right[n] = Null)
        /\ n # old => /\ n \in Below(h, h["right"][old]) /\ h["right"][old] # Null
                      /\ h.left[old] # Null
                      /\ \A x \in Below(h, h["right"][old]) : x = n \/ On("right", Key(x), Key(n))
    BY <1>n, <1>R, SplicedIs
  <1>s. PICK s : s = Unlink(h, n)
    OBVIOUS
  <1>3. PICK u : Leads(h, s, S, u) /\ UnlinkedBy(h, n, u)
    BY <1>2, <1>R, <1>S, <1>s, UnlinkLeads
  <1>4. u \in Heap /\ u \in S /\ Apply(h, s) = u
    BY <1>3 DEF Leads
  <1>4a. u \in SafeHeaps(F)
    BY <1>4, <1>S
  <1>5. IsSearchTree(u)
    BY <1>4a, SafeFacts
  <1>6. /\ RightTree(u) /\ Reach(u) = R \ {n}
        /\ \A m \in Pointer : m # n => Below(u, m) \subseteq Below(h, m)
    BY <1>2, <1>3, <1>5, <1>R, UnlinkedTree
  <1>7. CASE n = old
    <2>1. TakeOut(h, old) = s
      BY <1>7, <1>n, <1>s, Zenon DEF TakeOut
    <2>2. TakenBy(h, old, u, u)
      BY <1>7, <1>2, <1>3, <1>6, <1>n, <1>R, Zenon DEF TakenBy
    <2> QED BY <2>1, <2>2, <1>3, <1>S
  <1>8. CASE n # old
    <2>1. TakeOut(h, old) = s \o Replace(u, old, n)
      BY <1>8, <1>4, <1>n, <1>s DEF TakeOut
    <2>2. old \in Reach(u) /\ n \notin Reach(u) /\ n \in Node /\ n \notin F
      BY <1>8, <1>1, <1>2, <1>6
    <2>3. /\ c \in R \cup {Null} /\ c # n
          /\ \A y \in Side, m \in Node :
                 u[y][m] = IF m = h.parent[n] /\ h[y][m] = n THEN c ELSE h[y][m]
          /\ c # Null => \E x \in Side : h[x][n] = c
      BY <1>c, <1>2, <1>3, <1>R, UnlinkCast DEF UnlinkedBy
    <2>4. /\ h["left"] = h.left /\ h["right"] = h.right /\ "left" \in Side /\ "right" \in Side
          /\ u["left"] = u.left /\ Other["left"] = "right" /\ Other["right"] = "left"
          /\ Side = {"left", "right"}
      BY <1>1, <1>4, HeapFacts, OtherSide DEF Side
    <2>5. n \notin Below(h, h["left"][old]) /\ old \in Node /\ old \in Pointer
      BY <1>1, <1>2, <1>8, <1>R, <2>4, NotBelowChild DEF Pointer
    <2>6. h["left"][old] # n
      <3>1. h["left"][old] \in R \cup {Null}
        BY <1>1, <2>4
      <3>2. h["left"][old] # Null => h["left"][old] \in Below(h, h["left"][old])
        BY <3>1, <1>1, BelowLeast DEF Pointer
      <3> QED BY <3>2, <2>5, <1>1, <1>2
    <2>7. u["left"][old] = h["left"][old] /\ u.left[old] # Null
      BY <2>3, <2>4, <2>5, <2>6, <1>2, <1>8
    <2>8. \A m \in R, y \in Side : \A x \in Below(h, h[y][m]) : On(y, Key(x), Key(m))
      BY <1>1, <1>R, SearchTreeSides
    <2>9. \A m \in R : m \in Pointer /\ m \in Below(h, m) /\ Key(m) \in Nat
      BY <1>1, <1>R, ReachFacts, NodeFacts DEF Pointer
    <2>10. \A m \in R : c # Null /\ n \in Below(h, m) => Below(h, c) \subseteq Below(h, m)
      <3> SUFFICES ASSUME NEW m \in R, c # Null, n \in Below(h, m)
                   PROVE  Below(h, c) \subseteq Below(h, m)
        OBVIOUS
      <3>1. PICK x \in Side : h[x][n] = c
        BY <2>3
      <3>2. c \in Below(h, m)
        BY <3>1, <2>9, <1>1, BelowLeast DEF Closed
      <3> QED BY <3>2, <2>9, <1>1, BelowIn
    <2>11. ASSUME NEW y \in Side, NEW m \in Below(u, u[y][old]) PROVE On(y, Key(m), Key(n))
      <3>1. m \in Reach(u) /\ u[y][old] \in Reach(u) \cup {Null} /\ u[y][old] \in Pointer
        <4>1. u[y][old] \in Reach(u) \cup {Null}
          BY <2>2, <1>4, ReachFacts DEF Closed
        <4>2. u[y][old] # Null
          BY <1>4, BelowNull
        <4> QED BY <4>1, <4>2, <1>4, <1>1, <1>6, ReachFacts DEF Pointer
      <3>2. m # n /\ m \in R /\ u[y][old] # n
        BY <3>1, <1>1, <1>2, <1>6
      <3>3. m \in Below(h, u[y][old])
        BY <3>1, <3>2, <1>6
      <3>4. CASE y = "left"
        <4>1. On("left", Key(m), Key(old))
          BY <3>3, <3>4, <2>4, <2>7, <2>8, <1>1
        <4>2. On("right", Key(n), Key(old))
          BY <1>2, <1>8, <2>4, <2>8, <1>1
        <4> QED BY <4>1, <4>2, <3>2, <3>4, <2>9, <1>1, <1>2 DEF On
      <3>5. CASE y = "right"
        <4>1. m \in Below(h, h["right"][old])
          <5>1. CASE h["right"][old] = n /\ old = h.parent[n]
            <6>1. u[y][old] = c
              BY <5>1, <3>5, <2>3, <2>5
            <6>2. c # Null
              BY <6>1, <3>3, <1>1, BelowNull
            <6> QED BY <6>1, <6>2, <3>3, <5>1, <2>9, <2>10, <1>2
          <5>2. CASE ~(h["right"][old] = n /\ old = h.parent[n])
            <6>1. u[y][old] = h["right"][old]
              BY <5>2, <3>5, <2>3, <2>5
            <6> QED BY <6>1, <3>3
          <5> QED BY <5>1, <5>2
        <4> QED BY <4>1, <3>2, <3>5, <1>2, <1>8
      <3> QED BY <3>4, <3>5, <2>4
    <2>12. ASSUME NEW m \in Reach(u), NEW x \in Side, u[x][m] # Null, old \in Below(u, u[x][m])
           PROVE  On(x, Key(n), Key(m))
      <3>1. m \in R /\ m \in Node /\ u[x][m] \in Reach(u) /\ u[x][m] \in R /\ u[x][m] # n
        <4>1. u[x][m] \in Reach(u)
          BY <2>12, <1>4, ReachFacts DEF Closed
        <4> QED BY <4>1, <1>1, <1>6
      <3>2. CASE h[x][m] = n
        BY <3>1, <3>2, <2>8, <2>9, <1>2
      <3>3. CASE h[x][m] # n
        <4>1. u[x][m] = h[x][m]
          BY <3>1, <3>3, <2>3
        <4>2. old \in Below(h, h[x][m]) /\ h[x][m] \in Pointer
          BY <3>1, <4>1, <2>9, <2>12, <1>6
        <4>3. n \in Below(h, old)
          <5>1. h["right"][old] \in Below(h, old) /\ h["right"][old] \in Pointer
            BY <1>1, <1>2, <1>8, <2>4, <2>5, <2>9, BelowLeast DEF Closed
          <5> QED BY <5>1, <1>1, <1>2, <1>8, <2>5, BelowIn
        <4>4. n \in Below(h, h[x][m])
          BY <4>2, <4>3, <1>1, BelowIn
        <4> QED BY <4>4, <3>1, <2>8
      <3> QED BY <3>2, <3>3
    <2>13. Fits(u, old, Key(n))
      BY <2>11, <2>12 DEF Fits
    <2>14. PICK g : Leads(u, Replace(u, old, n), S, g) /\ ReplacedBy(u, old, n, g)
      BY <2>2, <2>7, <2>13, <1>4a, <1>6, <1>S, ReplaceLeads
    <2>15. g \in SafeHeaps(F)
      BY <2>14, <1>S DEF Leads
    <2>16. IsSearchTree(g)
      BY <2>15, SafeFacts
    <2>17. RightTree(g) /\ Reach(g) = (Reach(u) \ {old}) \cup {n}
      BY <2>2, <2>14, <2>16, <1>6, ReplacedTree
    <2>18. Reach(g) = R \ {old}
      BY <2>17, <1>2, <1>6, <1>8
    <2>19. TakenBy(h, old, u, g)
      BY <2>2, <2>14, <2>17, <2>18, <1>2, <1>3, <1>6, <1>8, <1>n, <1>R DEF TakenBy
    <2>20. Leads(h, TakeOut(h, old), S, g)
      BY <2>1, <2>14, <1>1, <1>3, LeadsOn
    <2> QED BY <2>19, <2>20, <1>S
  <1> QED
    BY <1>7, <1>8

-----------------------------------------------------------------------------
(* Rounds that recolor *)

\* The same tree, in other colors
SameShape(h, g) == g \in Heap /\ g.root = h.root /\ \A f \in Field : g[f] = h[f]

\* What depends on the links only stays.
LEMMA ShapeKept ==
    ASSUME NEW h \in Heap, NEW g, SameShape(h, g)
    PROVE  /\ g.left = h.left /\ g.right = h.right /\ g.parent = h.parent
           /\ \A y \in Side : g[y] = h[y]
           /\ \A n \in Pointer : Below(g, n) = Below(h, n)
           /\ Reach(g) = Reach(h) /\ (RightTree(h) => RightTree(g))
           /\ \A s, e : s \in Side => Rotate(g, s, e) = Rotate(h, s, e)
  <1>1. g \in Heap /\ g.root = h.root /\ (\A f \in Field : g[f] = h[f]) /\ \A y \in Side : y \in Field
    BY SidesAreFields DEF SameShape, SideField
  <1>2. /\ h["left"] = h.left /\ h["right"] = h.right /\ h["parent"] = h.parent
        /\ g["left"] = g.left /\ g["right"] = g.right /\ g["parent"] = g.parent
    BY <1>1 DEF Heap
  <1>3. "left" \in Field /\ "right" \in Field /\ "parent" \in Field
    BY DEF Field
  <1>4. g.left = h.left /\ g.right = h.right /\ g.parent = h.parent
    BY <1>1, <1>2, <1>3
  <1>5. \A y \in Side : g[y] = h[y]
    BY <1>1
  <1>6. /\ \A n \in Pointer : Below(g, n) = Below(h, n)
        /\ Reach(g) = Reach(h) /\ (IsSearchTree(g) <=> IsSearchTree(h))
    BY <1>1, <1>5, SameLinks
  <1>7. RightTree(h) => RightTree(g)
    <2> SUFFICES ASSUME RightTree(h) PROVE RightTree(g)
      OBVIOUS
    <2>1. h.root # Null => h.parent[h.root] = Null
      BY DEF RightTree, ParentsRight
    <2>2. \A n \in Reach(h) : \A s \in Side : h[s][n] # Null => h.parent[h[s][n]] = n
      BY DEF RightTree, ParentsRight
    <2>3. \A n \in Reach(g) : \A s \in Side : g[s][n] # Null => g.parent[g[s][n]] = n
      BY <2>2, <1>4, <1>5, <1>6
    <2>4. ParentsRight(g)
      BY <2>1, <2>3, <1>1, <1>4 DEF ParentsRight
    <2> QED BY <2>4, <1>1, <1>6 DEF RightTree
  <1>8. ASSUME NEW s \in Side, NEW e PROVE Rotate(g, s, e) = Rotate(h, s, e)
    <2>1. Other[s] \in Side
      BY OtherSide
    <2>2. g[s] = h[s] /\ g[Other[s]] = h[Other[s]]
      BY <2>1, <1>5
    <2>3. \A p, a, b : Relink(g, p, a, b) = Relink(h, p, a, b)
      BY <1>4 DEF Relink
    <2>o. PICK o : o = Other[s]
      OBVIOUS
    <2>t. PICK t : t = h[o][e]
      OBVIOUS
    <2>c. PICK c : c = h[s][t]
      OBVIOUS
    <2>p. PICK p : p = h.parent[e]
      OBVIOUS
    <2>4. g[o][e] = t /\ g[s][t] = c /\ g.parent[e] = p
      BY <2>2, <2>o, <2>t, <2>c, <2>p, <1>4
    <2>5. Rotate(h, s, e) = <<<<o, e, c>>>> \o PutIf("parent", c, e) \o <<<<"parent", t, p>>>>
                            \o Relink(h, p, e, t) \o <<<<s, t, e>>, <<"parent", e, t>>>>
      BY <2>o, <2>t, <2>c, <2>p, Zenon DEF Rotate
    <2>6. Rotate(g, s, e) = <<<<o, e, c>>>> \o PutIf("parent", c, e) \o <<<<"parent", t, p>>>>
                            \o Relink(g, p, e, t) \o <<<<s, t, e>>, <<"parent", e, t>>>>
      BY <2>o, <2>4, Zenon DEF Rotate
    <2>7. Relink(g, p, e, t) = Relink(h, p, e, t)
      BY <2>3
    <2> QED BY <2>5, <2>6, <2>7, Zenon
  <1> QED
    BY <1>4, <1>5, <1>6, <1>7, <1>8

\* The same links twice over
LEMMA ShapeTrans ==
    ASSUME NEW h, NEW g, NEW f, SameShape(h, g), SameShape(g, f)
    PROVE  SameShape(h, f)
  BY DEF SameShape

\* A store into a color
LEMMA ColorLeads ==
    ASSUME NEW F \in SUBSET Node, NEW h \in SafeHeaps(F), NEW n \in Node, n \notin F, NEW x \in Shade
    PROVE  \E g : /\ Leads(h, <<<<"color", n, x>>>>, SafeHeaps(F), g) /\ SameShape(h, g)
                  /\ \A m \in Node : g.color[m] = IF m = n THEN x ELSE h.color[m]
  <1>g. PICK g : g = Put(h, <<"color", n, x>>)
    OBVIOUS
  <1>1. h \in Heap
    BY SafeFacts
  <1>2. /\ <<"color", n, x>> \in Store /\ g \in Heap /\ g.root = h.root
        /\ \A e \in Field : g[e] = h[e]
        /\ \A m \in Node : g.color[m] = IF m = n THEN x ELSE h.color[m]
    BY <1>1, <1>g, PutColor
  <1>3. g \in SafeHeaps(F)
    BY <1>g, PutColorSafe
  <1>4. Leads(h, <<<<"color", n, x>>>>, SafeHeaps(F), g)
    BY <1>1, <1>2, <1>3, <1>g, LeadsOne
  <1> QED
    BY <1>2, <1>4 DEF SameShape

\* A store into the color of a child that may not be there
LEMMA ColorIfLeads ==
    ASSUME NEW F \in SUBSET Node, NEW h \in SafeHeaps(F), NEW n \in Pointer, n \notin F, NEW x \in Shade
    PROVE  \E g : /\ Leads(h, PutIf("color", n, x), SafeHeaps(F), g) /\ SameShape(h, g)
                  /\ \A m \in Node : g.color[m] = IF m = n THEN x ELSE h.color[m]
  <1>1. h \in Heap
    BY SafeFacts
  <1>2. CASE n = Null
    <2>1. Leads(h, PutIf("color", n, x), SafeHeaps(F), h)
      BY <1>1, <1>2, LeadsNone DEF PutIf
    <2>2. SameShape(h, h) /\ \A m \in Node : h.color[m] = IF m = n THEN x ELSE h.color[m]
      BY <1>1, <1>2, NodeFacts DEF SameShape
    <2> QED BY <2>1, <2>2
  <1>3. CASE n # Null
    <2>1. n \in Node /\ PutIf("color", n, x) = <<<<"color", n, x>>>>
      BY <1>3 DEF PutIf, Pointer
    <2> QED BY <2>1, ColorLeads
  <1> QED
    BY <1>2, <1>3

\* Two stores into colors
LEMMA TwoColorsLead ==
    ASSUME NEW F \in SUBSET Node, NEW h \in SafeHeaps(F), NEW n \in Node, n \notin F, NEW x \in Shade,
           NEW m \in Node, m \notin F, NEW y \in Shade
    PROVE  \E g : /\ Leads(h, <<<<"color", n, x>>, <<"color", m, y>>>>, SafeHeaps(F), g)
                  /\ SameShape(h, g)
                  /\ \A i \in Node : g.color[i] = IF i = m THEN y ELSE IF i = n THEN x ELSE h.color[i]
  <1>1. h \in Heap
    BY SafeFacts
  <1>2. PICK f : /\ Leads(h, <<<<"color", n, x>>>>, SafeHeaps(F), f) /\ SameShape(h, f)
                 /\ \A i \in Node : f.color[i] = IF i = n THEN x ELSE h.color[i]
    BY ColorLeads
  <1>3. f \in SafeHeaps(F)
    BY <1>2 DEF Leads
  <1>4. PICK g : /\ Leads(f, <<<<"color", m, y>>>>, SafeHeaps(F), g) /\ SameShape(f, g)
                 /\ \A i \in Node : g.color[i] = IF i = m THEN y ELSE f.color[i]
    BY <1>3, ColorLeads
  <1>5. Leads(h, <<<<"color", n, x>>, <<"color", m, y>>>>, SafeHeaps(F), g)
    BY <1>1, <1>2, <1>4, LeadsTwo
  <1>6. SameShape(h, g)
    BY <1>2, <1>4, ShapeTrans
  <1>7. \A i \in Node : g.color[i] = IF i = m THEN y ELSE IF i = n THEN x ELSE h.color[i]
    BY <1>2, <1>4
  <1> QED
    BY <1>5, <1>6, <1>7

\* RB_SET_BLACKRED
LEMMA BlackRedLeads ==
    ASSUME NEW F \in SUBSET Node, NEW h \in SafeHeaps(F), NEW b \in Node, b \notin F,
           NEW r \in Node, r \notin F
    PROVE  \E g : /\ Leads(h, BlackRed(b, r), SafeHeaps(F), g) /\ SameShape(h, g)
                  /\ \A i \in Node : g.color[i] = IF i = r THEN "red" ELSE IF i = b THEN "black" ELSE h.color[i]
  <1>1. "red" \in Shade /\ "black" \in Shade
    BY DEF Shade
  <1>2. BlackRed(b, r) = <<<<"color", b, "black">>, <<"color", r, "red">>>>
    BY DEF BlackRed
  <1> QED
    BY <1>1, <1>2, TwoColorsLead

\* Some recoloring, and a rotation
LEMMA TurnLeads ==
    ASSUME NEW F \in SUBSET Node, NEW h \in SafeHeaps(F), RightTree(h),
           NEW s \in Side, NEW e \in Reach(h), h[Other[s]][e] # Null,
           NEW stores, NEW h1, Leads(h, stores, SafeHeaps(F), h1), SameShape(h, h1)
    PROVE  \E g : /\ Leads(h, stores \o Rotate(h, s, e), SafeHeaps(F), g)
                  /\ RotatedBy(h1, s, e, g) /\ RightTree(g) /\ Reach(g) = Reach(h)
  <1>1. h \in Heap /\ h1 \in Heap /\ h1 \in SafeHeaps(F) /\ Other[s] \in Side
    BY SafeFacts, OtherSide DEF Leads
  <1>2. RightTree(h1) /\ Reach(h1) = Reach(h) /\ Rotate(h1, s, e) = Rotate(h, s, e)
        /\ h1[Other[s]] = h[Other[s]]
    BY <1>1, ShapeKept
  <1>3. e \in Reach(h1) /\ h1[Other[s]][e] # Null
    BY <1>2
  <1>4. PICK g : Leads(h1, Rotate(h1, s, e), SafeHeaps(F), g) /\ RotatedBy(h1, s, e, g)
    BY <1>1, <1>2, <1>3, RotateLeads
  <1>5. IsSearchTree(g)
    BY <1>4, SafeFacts DEF Leads
  <1>6. RightTree(g) /\ Reach(g) = Reach(h)
    BY <1>2, <1>3, <1>4, <1>5, RotatedTree
  <1>7. Leads(h, stores \o Rotate(h, s, e), SafeHeaps(F), g)
    BY <1>1, <1>2, <1>4, LeadsOn, Zenon
  <1> QED
    BY <1>4, <1>6, <1>7

\* f is h with b black, r red.
Swapped(h, b, r, f) ==
    /\ SameShape(h, f)
    /\ \A i \in Node : f.color[i] = IF i = r THEN "red" ELSE IF i = b THEN "black" ELSE h.color[i]

\* What a round of RB_INSERT_COLOR makes of the heap
InsertTurn(h, e, f) ==
    LET p == h.parent[e]
        g == h.parent[p]
        s == ChildSide(h, g, p)
        uncle == h[Other[s]][g]
    IN  IF Red(h, uncle)
        THEN /\ SameShape(h, f)
             /\ \A i \in Node : f.color[i] = IF i = g THEN "red"
                                             ELSE IF i = p \/ i = uncle THEN "black" ELSE h.color[i]
        ELSE IF h[Other[s]][p] = e THEN RotatedBy(h, s, p, f)
        ELSE \E h1 : Swapped(h, p, g, h1) /\ RotatedBy(h1, Other[s], g, f)

\* The elements a round of RB_INSERT_COLOR is about
LEMMA InsertCast ==
    ASSUME NEW h, RightTree(h), NEW e \in Reach(h), Red(h, h.parent[e]), ~InsertFaults(h, e)
    PROVE  LET p == h.parent[e]
               g == h.parent[p]
               s == ChildSide(h, g, p)
               uncle == h[Other[s]][g]
           IN  /\ p \in Reach(h) /\ g \in Reach(h) /\ s \in Side /\ Other[s] \in Side
               /\ h[s][g] = p /\ uncle \in Reach(h) \cup {Null}
               /\ (h[s][p] = e \/ h[Other[s]][p] = e)
               /\ h.color[p] = "red"
  <1>p. PICK p : p = h.parent[e]
    OBVIOUS
  <1>g. PICK g : g = h.parent[p]
    OBVIOUS
  <1>s. PICK s : s = ChildSide(h, g, p)
    OBVIOUS
  <1>1. h \in Heap /\ Reach(h) \in SUBSET Node /\ \A m \in Reach(h), y \in Side : h[y][m] \in Reach(h) \cup {Null}
    BY ReachFacts DEF RightTree, Closed
  <1>2. p # Null /\ h.color[p] = "red" /\ g # Null
    BY <1>p, <1>g DEF Red, InsertFaults
  <1>3. p \in Reach(h) /\ (\E y \in Side : h[y][p] = e)
    BY <1>2, <1>p, Links
  <1>4. g \in Reach(h) /\ (\E y \in Side : h[y][g] = p)
    BY <1>2, <1>3, <1>g, Links
  <1>5. h["left"] = h.left /\ h["right"] = h.right /\ Side = {"left", "right"}
        /\ Other["left"] = "right" /\ Other["right"] = "left"
    BY <1>1, HeapFacts, OtherSide DEF Side
  <1>6. s \in Side /\ Other[s] \in Side /\ h[s][g] = p /\ Side = {s, Other[s]}
    BY <1>4, <1>5, <1>s DEF ChildSide
  <1>7. h[s][p] = e \/ h[Other[s]][p] = e
    BY <1>3, <1>6
  <1> QED
    BY <1>1, <1>2, <1>3, <1>4, <1>6, <1>7, <1>p, <1>g, <1>s, Zenon

\* A round of RB_INSERT_COLOR: the tree stays safe after each store, and its elements the same.
LEMMA InsertColorLeads ==
    ASSUME NEW F \in SUBSET Node, NEW h \in SafeHeaps(F), RightTree(h),
           NEW e \in Reach(h), Red(h, h.parent[e]), ~InsertFaults(h, e)
    PROVE  \E f : /\ Leads(h, InsertColor(h, e).stores, SafeHeaps(F), f)
                  /\ RightTree(f) /\ Reach(f) = Reach(h) /\ InsertColor(h, e).next \in Reach(h)
                  /\ InsertTurn(h, e, f)
  <1>p. PICK p : p = h.parent[e]
    OBVIOUS
  <1>g. PICK g : g = h.parent[p]
    OBVIOUS
  <1>s. PICK s : s = ChildSide(h, g, p)
    OBVIOUS
  <1>u. PICK u : u = h[Other[s]][g]
    OBVIOUS
  <1>1. h \in Heap /\ Reach(h) \in SUBSET Node /\ Reach(h) \cap F = {}
    BY SafeFacts, ReachFacts
  <1>2. /\ p \in Reach(h) /\ g \in Reach(h) /\ s \in Side /\ Other[s] \in Side
        /\ h[s][g] = p /\ u \in Reach(h) \cup {Null}
    BY <1>p, <1>g, <1>s, <1>u, InsertCast
  <1>3. p \in Node /\ g \in Node /\ p \notin F /\ g \notin F /\ p # Null
    BY <1>1, <1>2, NodeFacts
  <1>4. CASE Red(h, u)
    <2>0. u \in Node /\ u \notin F /\ "black" \in Shade
      BY <1>1, <1>2, <1>4 DEF Red, Shade
    <2>1. InsertColor(h, e) = [stores |-> <<<<"color", u, "black">>>> \o BlackRed(p, g), next |-> g]
      BY <1>4, <1>p, <1>g, <1>s, <1>u DEF InsertColor
    <2>2. PICK h1 : /\ Leads(h, <<<<"color", u, "black">>>>, SafeHeaps(F), h1) /\ SameShape(h, h1)
                    /\ \A m \in Node : h1.color[m] = IF m = u THEN "black" ELSE h.color[m]
      BY <2>0, ColorLeads
    <2>3. h1 \in SafeHeaps(F)
      BY <2>2 DEF Leads
    <2>4. PICK f : /\ Leads(h1, BlackRed(p, g), SafeHeaps(F), f) /\ SameShape(h1, f)
                   /\ \A i \in Node : f.color[i] = IF i = g THEN "red" ELSE IF i = p THEN "black" ELSE h1.color[i]
      BY <2>3, <1>3, BlackRedLeads
    <2>5. SameShape(h, f) /\ f \in Heap
      BY <2>2, <2>4, ShapeTrans DEF SameShape
    <2>6. RightTree(f) /\ Reach(f) = Reach(h)
      BY <2>5, <1>1, ShapeKept
    <2>7. Leads(h, <<<<"color", u, "black">>>> \o BlackRed(p, g), SafeHeaps(F), f)
      BY <2>2, <2>4, <1>1, LeadsOn
    <2>8. \A i \in Node : f.color[i] = IF i = g THEN "red"
                                       ELSE IF i = p \/ i = u THEN "black" ELSE h.color[i]
      BY <2>2, <2>4
    <2>9. InsertTurn(h, e, f)
      BY <2>5, <2>8, <1>4, <1>p, <1>g, <1>s, <1>u, Zenon DEF InsertTurn
    <2> QED BY <2>1, <2>6, <2>7, <2>9, <1>2
  <1>5. CASE ~Red(h, u) /\ h[Other[s]][p] = e
    <2>1. InsertColor(h, e) = [stores |-> Rotate(h, s, p), next |-> p]
      BY <1>5, <1>p, <1>g, <1>s, <1>u DEF InsertColor
    <2>2. h[Other[s]][p] # Null
      BY <1>5, <1>1, NodeFacts
    <2>3. PICK f : Leads(h, Rotate(h, s, p), SafeHeaps(F), f) /\ RotatedBy(h, s, p, f)
      BY <2>2, <1>2, RotateLeads
    <2>4. IsSearchTree(f)
      BY <2>3, SafeFacts DEF Leads
    <2>5. RightTree(f) /\ Reach(f) = Reach(h)
      BY <2>2, <2>3, <2>4, <1>2, RotatedTree
    <2>6. InsertTurn(h, e, f)
      BY <2>3, <1>5, <1>p, <1>g, <1>s, <1>u DEF InsertTurn
    <2> QED BY <2>1, <2>3, <2>5, <2>6, <1>2
  <1>6. CASE ~Red(h, u) /\ h[Other[s]][p] # e
    <2>1. InsertColor(h, e) = [stores |-> BlackRed(p, g) \o Rotate(h, Other[s], g), next |-> e]
      BY <1>6, <1>p, <1>g, <1>s, <1>u DEF InsertColor
    <2>2. PICK h1 : Leads(h, BlackRed(p, g), SafeHeaps(F), h1) /\ Swapped(h, p, g, h1)
      BY <1>3, BlackRedLeads DEF Swapped
    <2>3. h[Other[Other[s]]][g] # Null
      BY <1>2, <1>3, OtherSide
    <2>4. PICK f : /\ Leads(h, BlackRed(p, g) \o Rotate(h, Other[s], g), SafeHeaps(F), f)
                   /\ RotatedBy(h1, Other[s], g, f) /\ RightTree(f) /\ Reach(f) = Reach(h)
      BY <2>2, <2>3, <1>2, TurnLeads DEF Swapped
    <2>5. InsertTurn(h, e, f)
      BY <2>2, <2>4, <1>6, <1>p, <1>g, <1>s, <1>u DEF InsertTurn
    <2> QED BY <2>1, <2>4, <2>5
  <1> QED
    BY <1>4, <1>5, <1>6

-----------------------------------------------------------------------------
\* What the rounds of RB_REMOVE_COLOR make of the heap
SiblingTurn(h, p, s, f) ==
    \E h1 : Swapped(h, h[Other[s]][p], p, h1) /\ RotatedBy(h1, s, p, f)

\* What a round of RB_REMOVE_COLOR does to the tree
RemoveTurn(h, p, e, f) ==
    LET s == ChildSide(h, p, e)
        t == h[Other[s]][p]
        near == h[s][t]
        far == h[Other[s]][t]
    IN  IF ~Red(h, far) /\ ~Red(h, near)
        THEN /\ SameShape(h, f)
             /\ \A i \in Node : f.color[i] = IF i = t THEN "red" ELSE h.color[i]
        ELSE IF ~Red(h, far)
        THEN \E h1 : Swapped(h, near, t, h1) /\ RotatedBy(h1, Other[s], t, f)
        ELSE \E h1 : /\ SameShape(h, h1)
                     /\ \A i \in Node : h1.color[i] = IF i = far \/ i = p THEN "black"
                                                      ELSE IF i = t THEN h.color[p] ELSE h.color[i]
                     /\ RotatedBy(h1, s, p, f)

\* The side of a child
LEMMA ChildSideIs ==
    ASSUME NEW h, NEW p, NEW e
    PROVE  ChildSide(h, p, e) \in Side /\ Other[ChildSide(h, p, e)] \in Side
  <1>1. ChildSide(h, p, e) \in Side
    BY DEF ChildSide, Side
  <1> QED BY <1>1, OtherSide

\* A turn that brings down a red sibling: the tree stays safe after each store.
LEMMA RedSiblingLeads ==
    ASSUME NEW F \in SUBSET Node, NEW h \in SafeHeaps(F), RightTree(h),
           NEW p \in Reach(h), NEW s \in Side, h[Other[s]][p] # Null
    PROVE  \E f : /\ Leads(h, RedSibling(h, p, s), SafeHeaps(F), f)
                  /\ RightTree(f) /\ Reach(f) = Reach(h) /\ SiblingTurn(h, p, s, f)
  <1>t. PICK t : t = h[Other[s]][p]
    OBVIOUS
  <1>1. h \in Heap /\ Reach(h) \in SUBSET Node /\ Reach(h) \cap F = {} /\ Closed(h, Reach(h))
        /\ Other[s] \in Side
    BY SafeFacts, ReachFacts, OtherSide
  <1>2. t \in Node /\ t \notin F /\ p \in Node /\ p \notin F
    BY <1>1, <1>t DEF Closed
  <1>3. RedSibling(h, p, s) = BlackRed(t, p) \o Rotate(h, s, p)
    BY <1>t DEF RedSibling
  <1>4. PICK h1 : Leads(h, BlackRed(t, p), SafeHeaps(F), h1) /\ Swapped(h, t, p, h1)
    BY <1>2, BlackRedLeads DEF Swapped
  <1>5. PICK f : /\ Leads(h, BlackRed(t, p) \o Rotate(h, s, p), SafeHeaps(F), f)
                 /\ RotatedBy(h1, s, p, f) /\ RightTree(f) /\ Reach(f) = Reach(h)
    BY <1>4, TurnLeads DEF Swapped
  <1>6. SiblingTurn(h, p, s, f)
    BY <1>4, <1>5, <1>t DEF SiblingTurn
  <1> QED BY <1>3, <1>5, <1>6

\* A round of RB_REMOVE_COLOR: the tree stays safe after each store.
LEMMA RemoveColorLeads ==
    ASSUME NEW F \in SUBSET Node, NEW h \in SafeHeaps(F), RightTree(h),
           NEW p \in Reach(h), NEW e, h[Other[ChildSide(h, p, e)]][p] # Null
    PROVE  \E f : /\ Leads(h, RemoveColor(h, p, e).stores, SafeHeaps(F), f)
                  /\ RightTree(f) /\ Reach(f) = Reach(h) /\ RemoveTurn(h, p, e, f)
  <1>s. PICK s : s = ChildSide(h, p, e)
    OBVIOUS
  <1>o. PICK o : o = Other[s]
    OBVIOUS
  <1>t. PICK t : t = h[o][p]
    OBVIOUS
  <1>n. PICK near : near = h[s][t]
    OBVIOUS
  <1>f. PICK far : far = h[o][t]
    OBVIOUS
  <1>1. h \in Heap /\ Reach(h) \in SUBSET Node /\ Reach(h) \cap F = {} /\ Closed(h, Reach(h))
        /\ s \in Side /\ o \in Side /\ Other[o] = s /\ t # Null /\ Null \notin F
    BY <1>s, <1>o, <1>t, SafeFacts, ReachFacts, OtherSide, ChildSideIs, NodeFacts
  <1>2. t \in Reach(h) /\ t \in Node /\ t \notin F /\ p \in Node /\ p \notin F
    BY <1>1, <1>t DEF Closed
  <1>3. near \in Reach(h) \cup {Null} /\ far \in Reach(h) \cup {Null}
    BY <1>1, <1>2, <1>n, <1>f DEF Closed
  <1>3a. near \in Pointer /\ far \in Pointer /\ near \notin F /\ far \notin F
    BY <1>1, <1>3 DEF Pointer
  <1>4. "red" \in Shade /\ "black" \in Shade /\ h.color[p] \in Shade
    BY <1>1, <1>2, HeapFacts DEF Shade
  <1>5. CASE ~Red(h, far) /\ ~Red(h, near)
    <2>1. RemoveColor(h, p, e).stores = <<<<"color", t, "red">>>>
      BY <1>5, <1>s, <1>o, <1>t, <1>n, <1>f DEF RemoveColor
    <2>2. PICK f : /\ Leads(h, <<<<"color", t, "red">>>>, SafeHeaps(F), f) /\ SameShape(h, f)
                   /\ \A i \in Node : f.color[i] = IF i = t THEN "red" ELSE h.color[i]
      BY <1>2, <1>4, ColorLeads
    <2>3. RightTree(f) /\ Reach(f) = Reach(h)
      BY <2>2, <1>1, ShapeKept
    <2>4. RemoveTurn(h, p, e, f)
      BY <2>2, <1>5, <1>s, <1>o, <1>t, <1>n, <1>f DEF RemoveTurn
    <2> QED BY <2>1, <2>2, <2>3, <2>4
  <1>6. CASE ~Red(h, far) /\ Red(h, near)
    <2>1. RemoveColor(h, p, e).stores = PutIf("color", near, "black") \o <<<<"color", t, "red">>>>
                                        \o Rotate(h, o, t)
      BY <1>6, <1>s, <1>o, <1>t, <1>n, <1>f, Zenon DEF RemoveColor, NearNephew
    <2>2. near # Null /\ near \in Node /\ near \notin F
      BY <1>6, <1>1, <1>3 DEF Red
    <2>3. PICK h1 : /\ Leads(h, PutIf("color", near, "black"), SafeHeaps(F), h1) /\ SameShape(h, h1)
                    /\ \A m \in Node : h1.color[m] = IF m = near THEN "black" ELSE h.color[m]
      BY <1>3a, <1>4, ColorIfLeads
    <2>4. h1 \in SafeHeaps(F)
      BY <2>3 DEF Leads
    <2>5. PICK h2 : /\ Leads(h1, <<<<"color", t, "red">>>>, SafeHeaps(F), h2) /\ SameShape(h1, h2)
                    /\ \A m \in Node : h2.color[m] = IF m = t THEN "red" ELSE h1.color[m]
      BY <2>4, <1>2, <1>4, ColorLeads
    <2>6. Swapped(h, near, t, h2)
      <3>1. SameShape(h, h2)
        BY <2>3, <2>5, ShapeTrans
      <3>2. \A i \in Node : h2.color[i] = IF i = t THEN "red" ELSE IF i = near THEN "black" ELSE h.color[i]
        BY <2>3, <2>5
      <3> QED BY <3>1, <3>2 DEF Swapped
    <2>7. Leads(h, PutIf("color", near, "black") \o <<<<"color", t, "red">>>>, SafeHeaps(F), h2)
      BY <2>3, <2>5, <1>1, LeadsOn
    <2>8. h[Other[o]][t] # Null /\ SameShape(h, h2)
      BY <2>2, <2>6, <1>1, <1>n DEF Swapped
    <2>9. PICK f : /\ Leads(h, PutIf("color", near, "black") \o <<<<"color", t, "red">>>> \o Rotate(h, o, t),
                            SafeHeaps(F), f)
                   /\ RotatedBy(h2, o, t, f) /\ RightTree(f) /\ Reach(f) = Reach(h)
      BY <2>7, <2>8, <1>1, <1>2, TurnLeads
    <2>10. RemoveTurn(h, p, e, f)
      BY <2>6, <2>9, <1>6, <1>s, <1>o, <1>t, <1>n, <1>f DEF RemoveTurn
    <2> QED BY <2>1, <2>9, <2>10
  <1>7. CASE Red(h, far)
    <2>1. RemoveColor(h, p, e).stores = <<<<"color", t, h.color[p]>>, <<"color", p, "black">>>>
                                        \o PutIf("color", far, "black") \o Rotate(h, s, p)
      BY <1>7, <1>s, <1>o, <1>t, <1>n, <1>f DEF RemoveColor, FarNephew
    <2>2. PICK h1 : /\ Leads(h, <<<<"color", t, h.color[p]>>, <<"color", p, "black">>>>, SafeHeaps(F), h1)
                    /\ SameShape(h, h1)
                    /\ \A i \in Node : h1.color[i] = IF i = p THEN "black" ELSE IF i = t THEN h.color[p] ELSE h.color[i]
      BY <1>2, <1>4, TwoColorsLead
    <2>3. h1 \in SafeHeaps(F)
      BY <2>2 DEF Leads
    <2>4. PICK h2 : /\ Leads(h1, PutIf("color", far, "black"), SafeHeaps(F), h2) /\ SameShape(h1, h2)
                    /\ \A m \in Node : h2.color[m] = IF m = far THEN "black" ELSE h1.color[m]
      BY <2>3, <1>3a, <1>4, ColorIfLeads
    <2>5. SameShape(h, h2)
      BY <2>2, <2>4, ShapeTrans
    <2>6. \A i \in Node : h2.color[i] = IF i = far \/ i = p THEN "black"
                                        ELSE IF i = t THEN h.color[p] ELSE h.color[i]
      BY <2>2, <2>4
    <2>7. Leads(h, <<<<"color", t, h.color[p]>>, <<"color", p, "black">>>> \o PutIf("color", far, "black"),
                SafeHeaps(F), h2)
      BY <2>2, <2>4, <1>1, LeadsOn
    <2>8. h[Other[s]][p] # Null
      BY <1>1, <1>o, <1>t
    <2>9. PICK f : /\ Leads(h, <<<<"color", t, h.color[p]>>, <<"color", p, "black">>>>
                               \o PutIf("color", far, "black") \o Rotate(h, s, p), SafeHeaps(F), f)
                   /\ RotatedBy(h2, s, p, f) /\ RightTree(f) /\ Reach(f) = Reach(h)
      BY <2>5, <2>7, <2>8, <1>1, TurnLeads
    <2>10. RemoveTurn(h, p, e, f)
      BY <2>5, <2>6, <2>9, <1>7, <1>s, <1>o, <1>t, <1>n, <1>f DEF RemoveTurn
    <2> QED BY <2>1, <2>9, <2>10
  <1> QED
    BY <1>5, <1>6, <1>7

\* An element that the tree does not hold, taken out: the tree is forgotten.
LEMMA StrayLeads ==
    ASSUME NEW F \in SUBSET Node, NEW h \in SafeHeaps(F), NEW old \in Node, Fresh(h, old)
    PROVE  \E f : /\ Leads(h, TakeOut(h, old), SafeHeaps(F), f)
                  /\ RightTree(f) /\ Reach(f) = {} /\ f.color = h.color
                  /\ Spliced(h, old) = old /\ OnlyChild(h, old) = Null /\ h.parent[old] = Null
  <1>f. PICK f : f = Put(h, <<"root", Null, Null>>)
    OBVIOUS
  <1>1. h \in Heap /\ (\A m \in F : Fresh(h, m)) /\ Null \in Pointer
    BY SafeFacts DEF Pointer
  <1>2. /\ <<"root", Null, Null>> \in Store /\ f \in Heap /\ f.root = Null /\ f.color = h.color
        /\ \A e \in Field : f[e] = h[e]
    BY <1>1, <1>f, PutRoot
  <1>3. h.left[old] = Null /\ h.right[old] = Null /\ h.parent[old] = Null
    <2>1. h["left"] = h.left /\ h["right"] = h.right /\ h["parent"] = h.parent
      BY <1>1 DEF Heap
    <2> QED BY <2>1 DEF Fresh, Field
  <1>4. Spliced(h, old) = old /\ OnlyChild(h, old) = Null
    BY <1>3 DEF Spliced, OnlyChild
  <1>5. Unlink(h, old) = <<>> \o <<<<"root", Null, Null>>>>
    BY <1>3, <1>4 DEF Unlink, PutIf, Relink
  <1>6. Reach(f) = {}
    BY <1>2, ReachFacts
  <1>7. IsSearchTree(f) /\ ParentsRight(f)
    BY <1>2, <1>6 DEF IsSearchTree, ParentsRight
  <1>8. \A m \in F : Fresh(f, m)
    BY <1>1, <1>2 DEF Fresh
  <1>9. f \in SafeHeaps(F)
    BY <1>2, <1>6, <1>7, <1>8 DEF SafeHeaps
  <1>10. Leads(h, <<<<"root", Null, Null>>>>, SafeHeaps(F), f) /\ Leads(h, <<>>, SafeHeaps(F), h)
    BY <1>1, <1>2, <1>9, <1>f, LeadsOne, LeadsNone
  <1>11. Leads(h, Unlink(h, old), SafeHeaps(F), f)
    BY <1>1, <1>5, <1>10, LeadsOn
  <1>12. TakeOut(h, old) = Unlink(h, old)
    BY <1>4 DEF TakeOut
  <1> QED
    BY <1>2, <1>3, <1>4, <1>6, <1>7, <1>11, <1>12 DEF RightTree

-----------------------------------------------------------------------------
(* Black heights *)

\* The black height of each element
Heights == [Pointer -> Nat]

\* 1 for TRUE
Bit(b) == IF b THEN 1 ELSE 0

\* What the colors and the black heights say of the link from n to its child c on
\* side y: where the link is the short one (dp, ds), c's side lacks a black element;
\* two red elements meet only where n is xp or c is xc.
Edge(col, N, xp, xc, dp, ds, n, y, c) ==
    /\ N[n] = N[c] + Bit(n = dp /\ y = ds) + Bit(col[n] = "black")
    /\ col[n] = "red" /\ c # Null /\ col[c] = "red" => n = xp \/ c = xc

\* The colors are right, but for the child xc or the element xp, which may be red below red, and
\* the side ds of dp, which may be one black element short.
Colored(h, N, xp, xc, dp, ds) ==
    /\ N \in Heights /\ N[Null] = 0
    /\ \A n \in Reach(h), y \in Side : Edge(h.color, N, xp, xc, dp, ds, n, y, h[y][n])
    /\ Red(h, h.root) => h.root = xc

\* The links after a rotation: e goes down to side s, t comes up.
TurnEdges(h, s, e, o, t, c, col, M, xp, xc, fp, fs) ==
    /\ o = Other[s] /\ t = h[o][e] /\ t # Null /\ c = h[s][t]
    /\ \A n \in Reach(h), y \in Side : n # e /\ n # t /\ h[y][n] # e =>
           Edge(col, M, xp, xc, fp, fs, n, y, h[y][n])
    /\ \A n \in Reach(h), y \in Side : h[y][n] = e => Edge(col, M, xp, xc, fp, fs, n, y, t)
    /\ Edge(col, M, xp, xc, fp, fs, t, s, e) /\ Edge(col, M, xp, xc, fp, fs, t, o, h[o][t])
    /\ Edge(col, M, xp, xc, fp, fs, e, o, c) /\ Edge(col, M, xp, xc, fp, fs, e, s, h[s][e])
    /\ h.root # e /\ col[h.root] = "red" => h.root = xc
    /\ h.root = e /\ col[t] = "red" => t = xc

\* RotatedBy after a change of colors
LEMMA TurnIs ==
    ASSUME NEW h \in Heap, NEW k, SameShape(h, k), NEW s \in Side, NEW e \in Node,
           NEW o, NEW t, NEW c, NEW q, TurnCast(h, s, e, o, t, c, q), NEW g, RotatedBy(k, s, e, g)
    PROVE  /\ g \in Heap /\ g.color = k.color /\ g.root = (IF q = Null THEN t ELSE h.root)
           /\ \A m \in Node : g[s][m] = IF m = t THEN e
                                        ELSE IF m = q /\ h[s][q] = e THEN t ELSE h[s][m]
           /\ \A m \in Node : g[o][m] = IF m = e THEN c
                                        ELSE IF m = q /\ h[o][q] = e THEN t ELSE h[o][m]
  <1>1. k.parent = h.parent /\ k.root = h.root /\ \A y \in Side : k[y] = h[y]
    BY ShapeKept DEF SameShape
  <1>2. o = Other[s] /\ t = h[o][e] /\ c = h[s][t] /\ q = h.parent[e]
    BY DEF TurnCast
  <1>3. o \in Side
    BY <1>2, OtherSide
  <1> QED
    <2>1. RotatedBy(k, s, e, g)
      OBVIOUS
    <2> QED BY ONLY <2>1, <1>1, <1>2, <1>3, s \in Side, SMTT(60) DEF RotatedBy

\* A rotation changes three links; if they are right, the others are as they were.
LEMMA RotatedColors ==
    ASSUME NEW h, RightTree(h), NEW s \in Side, NEW e \in Reach(h), NEW o, NEW t, NEW c,
           NEW k, SameShape(h, k), NEW g, RotatedBy(k, s, e, g), Reach(g) = Reach(h),
           NEW M \in Heights, M[Null] = 0, NEW xp, NEW xc, NEW fp, NEW fs,
           NEW col, col = k.color, TurnEdges(h, s, e, o, t, c, col, M, xp, xc, fp, fs)
    PROVE  Colored(g, M, xp, xc, fp, fs)
  <1>0. o = Other[s] /\ t = h[o][e] /\ t # Null /\ c = h[s][t]
    BY DEF TurnEdges
  <1>e1. \A n \in Reach(h), y \in Side : n # e /\ n # t /\ h[y][n] # e =>
             Edge(col, M, xp, xc, fp, fs, n, y, h[y][n])
    BY DEF TurnEdges
  <1>e2. \A n \in Reach(h), y \in Side : h[y][n] = e => Edge(col, M, xp, xc, fp, fs, n, y, t)
    BY DEF TurnEdges
  <1>e3. /\ Edge(col, M, xp, xc, fp, fs, t, s, e) /\ Edge(col, M, xp, xc, fp, fs, t, o, h[o][t])
         /\ Edge(col, M, xp, xc, fp, fs, e, o, c) /\ Edge(col, M, xp, xc, fp, fs, e, s, h[s][e])
         /\ h.root # e /\ col[h.root] = "red" => h.root = xc
         /\ h.root = e /\ col[t] = "red" => t = xc
    BY DEF TurnEdges
  <1>1. /\ {e, t} \subseteq Reach(h) /\ Reach(h) \in SUBSET Node /\ Null \notin Reach(h)
        /\ e # t /\ h.parent[e] # e /\ h.parent[e] # t /\ c # e
        /\ (h.parent[e] = Null <=> h.root = e)
        /\ o \in Side /\ s # o /\ Side = {s, o} /\ h \in Heap
    <2>p. PICK p : p = h.parent[e]
      OBVIOUS
    <2>1. /\ RightTree(h) /\ s \in Side /\ e \in Reach(h) /\ t # Null
          /\ TurnCast(h, s, e, o, t, c, p)
      BY <2>p, <1>0 DEF TurnCast
    <2> QED BY ONLY <2>1, <2>p, RotateCast, SMTT(60)
  <1>2. k.root = h.root /\ k.parent = h.parent /\ \A y \in Side : k[y] = h[y]
    BY <1>1, ShapeKept DEF SameShape
  <1>p. PICK p : p = h.parent[e]
    OBVIOUS
  <1>3. /\ g \in Heap /\ g.color = col /\ g.root = (IF p = Null THEN t ELSE h.root)
        /\ \A m \in Node : g[s][m] = IF m = t THEN e
                                     ELSE IF m = p /\ h[s][p] = e THEN t ELSE h[s][m]
        /\ \A m \in Node : g[o][m] = IF m = e THEN c
                                     ELSE IF m = p /\ h[o][p] = e THEN t ELSE h[o][m]
    <2>1. /\ h \in Heap /\ SameShape(h, k) /\ s \in Side /\ e \in Node
          /\ TurnCast(h, s, e, o, t, c, p) /\ RotatedBy(k, s, e, g)
      BY <1>0, <1>1, <1>p DEF TurnCast
    <2> QED BY ONLY <2>1, col = k.color, TurnIs, SMTT(60)
  <1>4. ASSUME NEW n \in Reach(h), NEW y \in Side, h[y][n] = e PROVE n = p
    BY <1>4, <1>p, Links
  <1>5. ASSUME NEW n \in Reach(h), NEW y \in Side
        PROVE  Edge(col, M, xp, xc, fp, fs, n, y, g[y][n])
    <2>1. CASE n = t
      <3>1. CASE y = s
        BY <3>1, <2>1, <1>1, <1>3, <1>e3
      <3>2. CASE y = o
        <4>1. g[o][t] = h[o][t]
          BY <1>1, <1>3, <1>p
        <4> QED BY <4>1, <3>2, <2>1, <1>e3
      <3> QED BY <3>1, <3>2, <1>1
    <2>2. CASE n = e
      <3>1. CASE y = s
        <4>1. g[s][e] = h[s][e]
          BY <1>1, <1>3, <1>p
        <4> QED BY <4>1, <3>1, <2>2, <1>e3
      <3>2. CASE y = o
        BY <3>2, <2>2, <1>1, <1>3, <1>e3
      <3> QED BY <3>1, <3>2, <1>1
    <2>3. CASE n # t /\ n # e /\ h[y][n] = e
      <3>1. n = p /\ n \in Node
        BY <2>3, <1>1, <1>4
      <3>2. g[y][n] = t
        BY <3>1, <2>3, <1>1, <1>3
      <3> QED BY <3>2, <2>3, <1>e2
    <2>4. CASE n # t /\ n # e /\ h[y][n] # e
      <3>1. g[y][n] = h[y][n]
        BY <2>4, <1>1, <1>3
      <3> QED BY <3>1, <2>4, <1>e1
    <2> QED BY <2>1, <2>2, <2>3, <2>4
  <1>6. Red(g, g.root) => g.root = xc
    BY <1>1, <1>3, <1>p, <1>e3 DEF Red
  <1> QED
    BY <1>3, <1>5, <1>6 DEF Colored

\* With the same links, the colors decide.
LEMMA ShapeColors ==
    ASSUME NEW h \in Heap, NEW g, SameShape(h, g), NEW M \in Heights, M[Null] = 0,
           NEW xp, NEW xc, NEW fp, NEW fs,
           \A n \in Reach(h), y \in Side : Edge(g.color, M, xp, xc, fp, fs, n, y, h[y][n]),
           h.root # Null /\ g.color[h.root] = "red" => h.root = xc
    PROVE  Colored(g, M, xp, xc, fp, fs)
  <1>1. g.root = h.root /\ Reach(g) = Reach(h) /\ \A y \in Side : g[y] = h[y]
    BY ShapeKept DEF SameShape
  <1> QED
    BY <1>1 DEF Colored, Red

-----------------------------------------------------------------------------
\* Black heights say what black depths say.

\* The depth of an element and its height are what the height of the root is.
LEMMA DepthIs ==
    ASSUME NEW h, RightTree(h), NEW N, NEW ds, Colored(h, N, Null, Null, Null, ds)
    PROVE  \A n \in Reach(h) :
               BlackDepth(h, n) + N[n] = N[h.root] + Bit(h.color[n] = "black")
  <1>R. PICK R : R = Reach(h)
    OBVIOUS
  <1>1. /\ h \in Heap /\ IsSearchTree(h) /\ R \in SUBSET Node /\ Closed(h, R) /\ h.root \in R \cup {Null}
        /\ IsFiniteSet(Node) /\ IsFiniteSet(R)
        /\ \A n \in R : n \in Below(h, n) /\ Below(h, n) \subseteq R
        /\ \A S \in SUBSET Node : Closed(h, S) /\ h.root \in S \cup {Null} => R \subseteq S
    BY <1>R, ReachFacts, NodeFacts, FS_Subset DEF RightTree
  <1>2. ASSUME NEW n \in R
        PROVE  /\ N[n] \in Nat /\ BlackDepth(h, n) \in Nat /\ N[h.root] \in Nat
               /\ \A y \in Side : N[n] = N[h[y][n]] + Bit(h.color[n] = "black")
    <2>1. N[n] \in Nat /\ N[h.root] \in Nat /\ n # Null
      BY <1>1, NodeFacts DEF Colored, Heights, Pointer
    <2>2. IsFiniteSet({m \in R : h.color[m] = "black" /\ n \in Below(h, m)})
      BY <1>1, FS_Subset
    <2>3. BlackDepth(h, n) \in Nat
      BY <2>2, <1>R, FS_CardinalityType DEF BlackDepth
    <2>4. ASSUME NEW y \in Side PROVE N[n] = N[h[y][n]] + Bit(h.color[n] = "black")
      <3>1. Edge(h.color, N, Null, Null, Null, ds, n, y, h[y][n])
        BY <1>R DEF Colored
      <3>2. h[y][n] \in Pointer
        BY <1>1, HeapFacts
      <3>3. N[h[y][n]] \in Nat
        BY <3>2 DEF Colored, Heights
      <3> QED BY <3>1, <3>3, <2>1 DEF Edge, Bit
    <2> QED BY <2>1, <2>3, <2>4
  <1>S. PICK S : S = {n \in R : BlackDepth(h, n) + N[n] = N[h.root] + Bit(h.color[n] = "black")}
    OBVIOUS
  <1>3. ASSUME h.root \in R PROVE h.root \in S
    <2>r. PICK r : r = h.root
      OBVIOUS
    <2>1. ASSUME NEW m \in R, r \in Below(h, m) PROVE m = r
      <3>1. CASE m # r
        <4>1. h.parent[r] \in Below(h, m) /\ r \in R
          BY <3>1, <2>1, <1>R, ParentBelow
        <4>2. h.parent[r] = Null
          BY <1>3, <2>r, <1>R, Links
        <4> QED BY <4>1, <4>2, <1>1, NodeFacts
      <3> QED BY <3>1
    <2>2. {m \in R : h.color[m] = "black" /\ r \in Below(h, m)} =
              IF h.color[r] = "black" THEN {r} ELSE {}
      BY <2>1, <2>r, <1>1, <1>3
    <2>3. BlackDepth(h, r) = Bit(h.color[r] = "black")
      BY <2>2, <1>R, FS_EmptySet, FS_Singleton DEF BlackDepth, Bit
    <2> QED BY <2>3, <2>r, <1>2, <1>3, <1>S
  <1>4. ASSUME NEW n \in S, NEW y \in Side, h[y][n] # Null PROVE h[y][n] \in S
    <2>c. PICK c : c = h[y][n]
      OBVIOUS
    <2>1. n \in R /\ c \in R /\ c # Null
      BY <1>1, <1>4, <1>S, <2>c DEF Closed
    <2>2. h.parent[c] = n /\ n \notin Below(h, c) /\ c # h.root
      <3>1. h.parent[c] = n
        BY <2>1, <2>c, <1>R, Links
      <3>2. n \notin Below(h, c)
        BY <2>1, <2>c, <1>R, <1>1, NotBelowChild
      <3>3. n # Null
        BY <2>1, <1>1, NodeFacts
      <3> QED BY <3>1, <3>2, <3>3, <2>1, <1>R, Links
    <2>3. ASSUME NEW m \in R, m # c PROVE c \in Below(h, m) <=> n \in Below(h, m)
      <3>1. ASSUME c \in Below(h, m) PROVE n \in Below(h, m)
        BY <3>1, <2>2, <2>3, <1>R, ParentBelow
      <3>2. ASSUME n \in Below(h, m) PROVE c \in Below(h, m)
        <4>1. m \in Pointer
          BY <1>1 DEF Pointer
        <4>2. Closed(h, Below(h, m))
          BY <4>1, <1>1, BelowLeast
        <4> QED BY <4>2, <3>2, <2>c, <2>1 DEF Closed
      <3> QED BY <3>1, <3>2
    <2>A. PICK A : A = {m \in R : h.color[m] = "black" /\ n \in Below(h, m)}
      OBVIOUS
    <2>4. IsFiniteSet(A) /\ c \notin A /\ BlackDepth(h, n) = Cardinality(A)
      BY <2>A, <2>2, <1>1, <1>R, FS_Subset DEF BlackDepth
    <2>5. {m \in R : h.color[m] = "black" /\ c \in Below(h, m)} =
              IF h.color[c] = "black" THEN A \cup {c} ELSE A
      BY <2>A, <2>1, <2>2, <2>3, <1>1
    <2>6. BlackDepth(h, c) = BlackDepth(h, n) + Bit(h.color[c] = "black")
      <3>1. BlackDepth(h, c) = Cardinality(IF h.color[c] = "black" THEN A \cup {c} ELSE A)
        BY <2>5, <1>R DEF BlackDepth
      <3>2. Cardinality(A \cup {c}) = Cardinality(A) + 1 /\ Cardinality(A) \in Nat
        BY <2>4, FS_AddElement, FS_CardinalityType
      <3> QED BY <3>1, <3>2, <2>4 DEF Bit
    <2>7. BlackDepth(h, n) + N[n] = N[h.root] + Bit(h.color[n] = "black")
      BY <1>S
    <2>8. N[n] = N[c] + Bit(h.color[n] = "black")
      BY <1>2, <2>1, <2>c
    <2>9. /\ BlackDepth(h, n) \in Nat /\ N[n] \in Nat /\ N[c] \in Nat /\ N[h.root] \in Nat
          /\ Bit(h.color[n] = "black") \in Nat /\ Bit(h.color[c] = "black") \in Nat
      BY <1>2, <2>1 DEF Bit
    <2>10. BlackDepth(h, c) + N[c] = N[h.root] + Bit(h.color[c] = "black")
      BY ONLY <2>6, <2>7, <2>8, <2>9
    <2> QED BY <2>10, <2>1, <2>c, <1>S
  <1>5. S \in SUBSET Node /\ Closed(h, S)
    BY <1>1, <1>4, <1>S DEF Closed
  <1>6. R \subseteq S
    BY <1>1, <1>3, <1>5
  <1> QED
    BY <1>6, <1>R, <1>S

\* With right colors and no exception, the tree is a red-black tree.
LEMMA ColoredIsBalanced ==
    ASSUME NEW h, RightTree(h), NEW N, NEW ds, Colored(h, N, Null, Null, Null, ds)
    PROVE  IsRedBlack(h)
  <1>1. /\ h \in Heap /\ IsSearchTree(h) /\ ParentsRight(h) /\ Reach(h) \in SUBSET Node
        /\ h.root \in Reach(h) \cup {Null}
    BY ReachFacts DEF RightTree
  <1>2. ~Red(h, h.root)
    BY DEF Colored, Red
  <1>3. ASSUME NEW n \in Reach(h), Red(h, n) PROVE ~Red(h, h.parent[n])
    <2>1. n # h.root /\ n # Null
      BY <1>2, <1>3 DEF Red
    <2>p. PICK p : p = h.parent[n]
      OBVIOUS
    <2>2. p \in Reach(h) \cup {Null} /\ \E y \in Side : h[y][p] = n
      BY <2>1, <2>p, Links
    <2>3. CASE p \in Reach(h)
      <3>1. PICK y \in Side : h[y][p] = n
        BY <2>2
      <3>2. Edge(h.color, N, Null, Null, Null, ds, p, y, n)
        BY <2>3, <3>1 DEF Colored
      <3>3. p # Null
        BY <2>3, <1>1, NodeFacts
      <3> QED BY <3>2, <3>3, <2>1, <2>p, <1>3 DEF Edge, Red
    <2>4. CASE p = Null
      BY <2>4, <2>p DEF Red
    <2> QED BY <2>2, <2>3, <2>4
  <1>4. ASSUME NEW n \in Reach(h), h.left[n] = Null \/ h.right[n] = Null
        PROVE  BlackDepth(h, n) = N[h.root]
    <2>1. PICK y \in Side : h[y][n] = Null
      BY <1>1, <1>4, HeapFacts DEF Side
    <2>2. Edge(h.color, N, Null, Null, Null, ds, n, y, Null)
      BY <2>1 DEF Colored
    <2>3. n # Null /\ N[Null] = 0 /\ N[n] \in Nat /\ N[h.root] \in Nat
      BY <1>1, NodeFacts DEF Colored, Heights, Pointer
    <2>4. N[n] = Bit(h.color[n] = "black")
      BY <2>2, <2>3 DEF Edge, Bit
    <2>5. BlackDepth(h, n) + N[n] = N[h.root] + Bit(h.color[n] = "black")
      BY DepthIs
    <2>6. BlackDepth(h, n) \in Nat
      <3>1. IsFiniteSet({m \in Reach(h) : h.color[m] = "black" /\ n \in Below(h, m)})
        BY <1>1, NodeFacts, FS_Subset
      <3> QED BY <3>1, FS_CardinalityType DEF BlackDepth
    <2> QED BY ONLY <2>3, <2>4, <2>5, <2>6 DEF Bit
  <1>5. IsBalanced(h)
    BY <1>2, <1>3, <1>4 DEF IsBalanced
  <1> QED
    BY <1>1, <1>5 DEF IsRedBlack

\* What the colors say of one link
LEMMA OldEdge ==
    ASSUME NEW h \in Heap, NEW N, NEW xp, NEW xc, NEW dp, NEW ds, Colored(h, N, xp, xc, dp, ds),
           NEW n \in Reach(h), NEW y \in Side, NEW c, c = h[y][n]
    PROVE  /\ N[n] = N[c] + Bit(n = dp /\ y = ds) + Bit(h.color[n] = "black")
           /\ h.color[n] = "red" /\ c # Null /\ h.color[c] = "red" => n = xp \/ c = xc
           /\ N[n] \in Nat /\ N[c] \in Nat /\ n \in Node /\ n # Null /\ n \in Pointer /\ c \in Pointer
           /\ h.color[n] \in Shade /\ c \in Reach(h) \cup {Null}
           /\ N[n] = N[c] + (IF n = dp /\ y = ds THEN 1 ELSE 0) + (IF h.color[n] = "red" THEN 0 ELSE 1)
  <1>1. n \in Node /\ n # Null /\ c \in Pointer /\ h.color[n] \in Shade /\ c \in Reach(h) \cup {Null}
    BY ReachFacts, NodeFacts, HeapFacts DEF Shade, Closed
  <1>2. Edge(h.color, N, xp, xc, dp, ds, n, y, c)
    BY DEF Colored
  <1>3. N[n] \in Nat /\ N[c] \in Nat /\ n \in Pointer
    BY <1>1 DEF Colored, Heights, Pointer
  <1>4. Bit(h.color[n] = "black") = IF h.color[n] = "red" THEN 0 ELSE 1
    BY <1>1 DEF Bit, Shade
  <1> QED
    BY <1>1, <1>2, <1>3, <1>4 DEF Edge, Bit

-----------------------------------------------------------------------------
(* The rounds of RB_INSERT_COLOR *)

\* A red parent is not the root: there is a grandparent.
LEMMA InsertNoFault ==
    ASSUME NEW h, RightTree(h), NEW e \in Reach(h), Red(h, h.parent[e]),
           NEW N, NEW ds, Colored(h, N, Null, e, Null, ds)
    PROVE  ~InsertFaults(h, e) /\ h.color[h.parent[h.parent[e]]] # "red"
  <1>p. PICK p : p = h.parent[e]
    OBVIOUS
  <1>g. PICK g : g = h.parent[p]
    OBVIOUS
  <1>1. p # Null /\ h.color[p] = "red" /\ p \in Reach(h) /\ p # e /\ h \in Heap
    BY <1>p, Links DEF Red, RightTree
  <1>2. p # h.root
    BY <1>1 DEF Colored, Red
  <1>3. g \in Reach(h) /\ \E y \in Side : h[y][g] = p
    BY <1>1, <1>2, <1>g, Links
  <1>4. PICK y \in Side : h[y][g] = p
    BY <1>3
  <1>5. ~(h.color[g] = "red" /\ p # Null /\ h.color[p] = "red") \/ g = Null \/ p = e
    BY <1>1, <1>3, <1>4, OldEdge
  <1>6. g # Null
    BY <1>1, <1>3, <1>4, OldEdge
  <1>7. h.left[g] = p \/ h.right[g] = p
    BY <1>1, <1>4, HeapFacts DEF Side
  <1> QED
    BY <1>1, <1>5, <1>6, <1>7, <1>p, <1>g DEF InsertFaults

\* The elements a round of RB_INSERT_COLOR is about
InsertCorner(h, e, p, g, s, o, u) ==
    p = h.parent[e] /\ g = h.parent[p] /\ s = ChildSide(h, g, p) /\ o = Other[s] /\ u = h[o][g]

\* The elements around a red element with a red parent
LEMMA InsertScene ==
    ASSUME NEW h, RightTree(h), NEW e \in Reach(h), Red(h, h.parent[e]),
           NEW N, NEW ds, Colored(h, N, Null, e, Null, ds),
           NEW p, NEW g, NEW s, NEW o, NEW u, InsertCorner(h, e, p, g, s, o, u)
    PROVE  /\ ~InsertFaults(h, e) /\ h \in Heap /\ Reach(h) \in SUBSET Node
           /\ e \in Reach(h) /\ p \in Reach(h) /\ g \in Reach(h)
           /\ s \in Side /\ o \in Side /\ s # o /\ Side = {s, o} /\ Other[o] = s /\ o = Other[s]
           /\ h[s][g] = p /\ (h[s][p] = e \/ h[o][p] = e) /\ ~(h[s][p] = e /\ h[o][p] = e)
           /\ h.color[p] = "red" /\ h.color[g] # "red" /\ u = h[o][g]
           /\ e # p /\ p # g /\ u # p /\ u # g /\ g # e /\ h.root # e /\ h.root # p
           /\ Null \notin Reach(h) /\ h.parent[g] # p
           /\ \A n \in Reach(h), y \in Side : /\ h[y][n] = e => n = p
                                              /\ h[y][n] = p => n = g
                                              /\ h[y][n] = g => n = h.parent[g]
                                              /\ h[y][n] = u /\ u # Null => n = g
  <1>0. p = h.parent[e] /\ g = h.parent[p] /\ s = ChildSide(h, g, p) /\ o = Other[s] /\ u = h[o][g]
    BY Zenon DEF InsertCorner
  <1>1. ~InsertFaults(h, e) /\ h.color[g] # "red" /\ h \in Heap /\ IsSearchTree(h) /\ Reach(h) \in SUBSET Node
    BY <1>0, InsertNoFault, ReachFacts, Zenon DEF RightTree
  <1>2. /\ p \in Reach(h) /\ g \in Reach(h) /\ s \in Side /\ o \in Side
        /\ h[s][g] = p /\ (h[s][p] = e \/ h[o][p] = e) /\ h.color[p] = "red"
    <2>1. LET q == h.parent[e]
              r == h.parent[q]
              x == ChildSide(h, r, q)
          IN  /\ q \in Reach(h) /\ r \in Reach(h) /\ x \in Side /\ Other[x] \in Side
              /\ h[x][r] = q /\ (h[x][q] = e \/ h[Other[x]][q] = e)
              /\ h.color[q] = "red"
      BY <1>1, InsertCast
    <2> QED BY <2>1, <1>0, Zenon
  <1>3. s # o /\ Side = {s, o} /\ Other[o] = s
    BY <1>0, <1>2, OtherSide, Zenon
  <1>4. Null \notin Reach(h)
    BY <1>1, NodeFacts
  <1>5. h.root # e /\ h.root # p /\ e # p /\ p # g
    <2>1. ASSUME NEW n \in Reach(h), h.parent[n] \in Reach(h)
          PROVE  h.root # n /\ h.parent[n] # n
      BY ONLY RightTree(h), <2>1, <1>4, Links
    <2> QED BY ONLY <1>0, <1>2, <2>1, e \in Reach(h)
  <1>6. u # p /\ u # g /\ ~(h[s][p] = e /\ h[o][p] = e)
    <2>1. /\ h[s][g] # Null => h[s][g] # h[Other[s]][g]
          /\ h[s][p] # Null => h[s][p] # h[Other[s]][p]
      BY <1>1, <1>2, NotBelowChild
    <2>2. h[o][g] # g
      BY <1>1, <1>2, NotBelowChild
    <2> QED BY <2>1, <2>2, <1>0, <1>2, <1>4, Zenon
  <1>7. ASSUME NEW n \in Reach(h), NEW y \in Side, h[y][n] \in Reach(h)
        PROVE  n = h.parent[h[y][n]]
    BY <1>7, Links
  <1>8. u # Null => u \in Reach(h) /\ h.parent[u] = g
    <2>1. Closed(h, Reach(h))
      BY <1>1, ReachFacts
    <2>2. h[o][g] \in Reach(h) \cup {Null}
      BY <2>1, <1>2 DEF Closed
    <2>3. u = h[o][g]
      BY <1>0
    <2> QED BY <2>2, <2>3, <1>2, <1>7
  <1>9. ASSUME NEW n \in Reach(h), NEW y \in Side
        PROVE  /\ h[y][n] = e => n = p
               /\ h[y][n] = p => n = g
               /\ h[y][n] = g => n = h.parent[g]
               /\ h[y][n] = u /\ u # Null => n = g
    <2>1. h.parent[e] = p /\ h.parent[p] = g
      BY <1>0
    <2>2. {e, p, g} \subseteq Reach(h) /\ (u # Null => u \in Reach(h) /\ h.parent[u] = g)
      BY <1>2, <1>8
    <2> QED BY <2>1, <2>2, <1>7
  <1>10. h.parent[g] # p
    <2>1. PICK c, q : c = h[o][p] /\ q = h.parent[g]
      OBVIOUS
    <2>2. /\ RightTree(h) /\ o \in Side /\ g \in Reach(h) /\ p # Null
          /\ TurnCast(h, o, g, s, p, c, q)
      BY <2>1, <1>2, <1>3, <1>4 DEF TurnCast
    <2> QED BY ONLY <2>1, <2>2, RotateCast, SMTT(60)
  <1>11. g # e
    BY <1>0, <1>10
  <1> QED
    BY <1>0, <1>1, <1>2, <1>3, <1>4, <1>5, <1>6, <1>9, <1>10, <1>11, Zenon

\* The black heights where the elements of a set have got one more
Raised(N, S) == [x \in Pointer |-> IF x \in S THEN N[x] + 1 ELSE N[x]]

\* What Raised is
LEMMA RaisedIs ==
    ASSUME NEW N \in Heights, NEW S \in SUBSET Node, N[Null] = 0
    PROVE  /\ Raised(N, S) \in Heights /\ Raised(N, S)[Null] = 0
           /\ \A x \in Pointer : x \in S => Raised(N, S)[x] = N[x] + 1
           /\ \A x \in Pointer : x \notin S => Raised(N, S)[x] = N[x]
  <1>1. Null \in Pointer /\ Null \notin S
    BY NodeFacts DEF Pointer
  <1>2. \A x \in Pointer : Raised(N, S)[x] = IF x \in S THEN N[x] + 1 ELSE N[x]
    BY DEF Raised
  <1>3. \A x \in Pointer : N[x] \in Nat
    BY DEF Heights
  <1>4. Raised(N, S) \in Heights
    BY <1>3 DEF Raised, Heights
  <1> QED
    BY <1>1, <1>2, <1>4

\* Edge, as it is used: no short link at n
LEMMA EdgeIs ==
    ASSUME NEW col, NEW M, NEW xp, NEW xc, NEW dp, NEW ds, NEW n, NEW y, NEW c,
           n # dp \/ y # ds, col[n] \in Shade, M[n] \in Nat, M[c] \in Nat
    PROVE  Edge(col, M, xp, xc, dp, ds, n, y, c) <=>
               /\ M[n] = M[c] + (IF col[n] = "red" THEN 0 ELSE 1)
               /\ col[n] = "red" /\ c # Null /\ col[c] = "red" => n = xp \/ c = xc
  <1>1. Bit(n = dp /\ y = ds) = 0 /\ Bit(col[n] = "black") = IF col[n] = "red" THEN 0 ELSE 1
    BY DEF Bit, Shade
  <1>2. M[c] + 0 + Bit(col[n] = "black") = M[c] + Bit(col[n] = "black")
    BY <1>1
  <1> QED
    BY <1>1, <1>2 DEF Edge

\* Parent and uncle become black, the grandparent red.
UncleTurn(h, p, g, u, f) ==
    /\ SameShape(h, f)
    /\ \A i \in Node : f.color[i] = IF i = g THEN "red"
                                    ELSE IF i = p \/ i = u THEN "black" ELSE h.color[i]

\* With a red uncle, the exception moves up to the grandparent.
LEMMA RedUncleColors ==
    ASSUME NEW h, RightTree(h), NEW e \in Reach(h), Red(h, h.parent[e]),
           NEW N, NEW ds, Colored(h, N, Null, e, Null, ds),
           NEW p, NEW g, NEW s, NEW o, NEW u, InsertCorner(h, e, p, g, s, o, u), Red(h, u),
           NEW f, UncleTurn(h, p, g, u, f)
    PROVE  Red(f, g) /\ \E M : Colored(f, M, Null, g, Null, ds)
  <1>1. /\ h \in Heap /\ Reach(h) \in SUBSET Node
        /\ p \in Reach(h) /\ g \in Reach(h) /\ s \in Side /\ o \in Side /\ Side = {s, o}
        /\ h[s][g] = p /\ h.color[p] = "red" /\ h.color[g] # "red" /\ u = h[o][g]
        /\ p # g /\ u # p /\ u # g /\ h.root # e /\ h.root # p
        /\ Null \notin Reach(h)
    BY InsertScene
  <1>1a. \A n \in Reach(h), y \in Side : /\ h[y][n] = e => n = p
                                         /\ h[y][n] = p => n = g
                                         /\ h[y][n] = u /\ u # Null => n = g
    BY InsertScene
  <1>2. u # Null /\ h.color[u] = "red" /\ u \in Reach(h)
    <2>1. u # Null /\ h.color[u] = "red"
      BY DEF Red
    <2> QED BY <2>1, <1>1, ReachFacts DEF Closed
  <1>col. PICK col : col = f.color
    OBVIOUS
  <1>0. \A i \in Node : col[i] = IF i = g THEN "red"
                                 ELSE IF i = p \/ i = u THEN "black" ELSE h.color[i]
    BY <1>col DEF UncleTurn
  <1>M. PICK M : M = Raised(N, {p, u})
    OBVIOUS
  <1>3. Node \subseteq Pointer /\ N \in Heights /\ N[Null] = 0 /\ {p, u} \in SUBSET Node
    BY <1>1, <1>2 DEF Pointer, Colored
  <1>4. /\ M \in Heights /\ M[Null] = 0
        /\ \A x \in Pointer : (x = p \/ x = u) => M[x] = N[x] + 1
        /\ \A x \in Pointer : x # p /\ x # u => M[x] = N[x]
    BY <1>3, <1>M, RaisedIs
  <1>6. ASSUME NEW n \in Reach(h), NEW y \in Side
        PROVE  Edge(col, M, Null, g, Null, ds, n, y, h[y][n])
    <2>c. PICK c : c = h[y][n]
      OBVIOUS
    <2>1. /\ h.color[n] = "red" /\ c # Null /\ h.color[c] = "red" => n = Null \/ c = e
          /\ N[n] \in Nat /\ N[c] \in Nat /\ n \in Node /\ n # Null /\ n \in Pointer /\ c \in Pointer
          /\ N[n] = N[c] + (IF n = Null /\ y = ds THEN 1 ELSE 0) + (IF h.color[n] = "red" THEN 0 ELSE 1)
          /\ h.color[n] \in Shade
      BY <1>1, <2>c, OldEdge
    <2>2. N[n] = N[c] + (IF h.color[n] = "red" THEN 0 ELSE 1)
      BY <2>1
    <2>3. col[n] \in Shade /\ M[n] \in Nat /\ M[c] \in Nat
      BY <2>1, <1>0, <1>4 DEF Shade, Heights
    <2>4. CASE n = g
      <3>1. c = p \/ c = u
        BY <2>4, <2>c, <1>1
      <3>2. M[n] = N[n] /\ M[c] = N[c] + 1 /\ col[n] = "red" /\ col[c] = "black"
        BY <3>1, <2>1, <2>4, <1>0, <1>1, <1>2, <1>4
      <3>3. h.color[n] # "red"
        BY <2>4, <1>1
      <3>4. M[n] = M[c] + 0
        BY ONLY <3>2, <3>3, <2>1, <2>2
      <3> QED BY <3>2, <3>4, <2>1, <2>3, <2>c, EdgeIs
    <2>5. CASE n = p \/ n = u
      <3>1. c # p /\ c # u /\ n # g /\ h.color[n] = "red"
        BY <2>5, <2>1, <2>c, <1>1, <1>1a, <1>2
      <3>2. M[n] = N[n] + 1 /\ M[c] = N[c] /\ col[n] = "black"
        BY <3>1, <2>1, <2>5, <1>0, <1>4
      <3>4. M[n] = M[c] + 1
        BY ONLY <3>1, <3>2, <2>1, <2>2
      <3> QED BY <3>2, <3>4, <2>1, <2>3, <2>c, EdgeIs
    <2>6. CASE n # g /\ n # p /\ n # u
      <3>1. c # p /\ c # u /\ c # e
        BY <2>6, <2>1, <2>c, <1>1a, <1>2
      <3>2. M[n] = N[n] /\ M[c] = N[c] /\ col[n] = h.color[n]
        BY <3>1, <2>1, <2>6, <1>0, <1>4
      <3>3. c # Null /\ col[c] = "red" => c = g \/ h.color[c] = "red"
        BY <3>1, <2>1, <1>0 DEF Pointer
      <3>4. M[n] = M[c] + (IF col[n] = "red" THEN 0 ELSE 1)
        BY <3>2, <2>2
      <3>5. col[n] = "red" /\ c # Null /\ col[c] = "red" => n = Null \/ c = g
        BY <3>1, <3>2, <3>3, <2>1
      <3> QED BY <3>4, <3>5, <2>1, <2>3, <2>c, EdgeIs
    <2> QED BY <2>4, <2>5, <2>6
  <1>7. h.root # Null /\ col[h.root] = "red" => h.root = g
    <2>1. h.root \in Pointer
      BY <1>1, HeapFacts
    <2>2. h.root # Null /\ h.color[h.root] = "red" => h.root = e
      BY DEF Colored, Red
    <2> QED BY <2>1, <2>2, <1>0, <1>1 DEF Pointer
  <1>8. SameShape(h, f)
    BY DEF UncleTurn
  <1>9. Colored(f, M, Null, g, Null, ds)
    BY <1>1, <1>4, <1>6, <1>7, <1>8, <1>col, ShapeColors
  <1>10. Red(f, g)
    BY <1>0, <1>1, <1>col DEF Red
  <1> QED
    BY <1>9, <1>10

\* The black heights where two elements have exchanged theirs
Exchanged(N, a, b) ==
    [x \in Pointer |-> IF x = a THEN N[b] ELSE IF x = b THEN N[a] ELSE N[x]]

\* What Exchanged is
LEMMA ExchangedIs ==
    ASSUME NEW N \in Heights, NEW a \in Node, NEW b \in Node, a # b, N[Null] = 0
    PROVE  /\ Exchanged(N, a, b) \in Heights /\ Exchanged(N, a, b)[Null] = 0
           /\ Exchanged(N, a, b)[a] = N[b] /\ Exchanged(N, a, b)[b] = N[a]
           /\ \A x \in Pointer : x # a /\ x # b => Exchanged(N, a, b)[x] = N[x]
  <1>1. Null \in Pointer /\ Null # a /\ Null # b /\ a \in Pointer /\ b \in Pointer
    BY NodeFacts DEF Pointer
  <1>2. \A x \in Pointer : Exchanged(N, a, b)[x] = IF x = a THEN N[b] ELSE IF x = b THEN N[a] ELSE N[x]
    BY DEF Exchanged
  <1>3. \A x \in Pointer : N[x] \in Nat
    BY DEF Heights
  <1>4. Exchanged(N, a, b) \in Heights
    BY <1>1, <1>3 DEF Exchanged, Heights
  <1> QED
    BY <1>1, <1>2, <1>4

\* A turn about the parent makes an inner grandchild an outer one.
LEMMA InnerTurnColors ==
    ASSUME NEW h, RightTree(h), NEW e \in Reach(h), Red(h, h.parent[e]), Red(h, e),
           NEW N, NEW ds, Colored(h, N, Null, e, Null, ds),
           NEW p, NEW g, NEW s, NEW o, NEW u, InsertCorner(h, e, p, g, s, o, u), h[o][p] = e,
           NEW f, RotatedBy(h, s, p, f), Reach(f) = Reach(h)
    PROVE  Red(f, p) /\ \E M : Colored(f, M, Null, p, Null, ds)
  <1>1. /\ h \in Heap /\ Reach(h) \in SUBSET Node
        /\ e \in Reach(h) /\ p \in Reach(h) /\ g \in Reach(h)
        /\ s \in Side /\ o \in Side /\ s # o /\ Side = {s, o} /\ o = Other[s]
        /\ h[s][p] # e /\ h.color[p] = "red" /\ h.color[g] # "red"
        /\ e # p /\ p # g /\ g # e /\ h.root # e /\ h.root # p /\ Null \notin Reach(h)
    BY InsertScene
  <1>2. \A n \in Reach(h), y \in Side : (h[y][n] = e => n = p) /\ (h[y][n] = p => n = g)
    BY InsertScene
  <1>3. h.color[e] = "red" /\ N \in Heights /\ N[Null] = 0
    BY DEF Red, Colored
  <1>K. PICK K : K = h.color
    OBVIOUS
  <1>c. PICK c : c = h[s][e]
    OBVIOUS
  <1>4. ASSUME NEW n \in Reach(h), NEW y \in Side, NEW d, d = h[y][n]
        PROVE  /\ N[n] = N[d] + (IF K[n] = "red" THEN 0 ELSE 1)
               /\ K[n] = "red" /\ d # Null /\ K[d] = "red" => d = e
               /\ N[n] \in Nat /\ N[d] \in Nat /\ n \in Node /\ n # Null
               /\ K[n] \in Shade
    <2>1. /\ K[n] = "red" /\ d # Null /\ K[d] = "red" => n = Null \/ d = e
          /\ N[n] \in Nat /\ N[d] \in Nat /\ n \in Node /\ n # Null
          /\ N[n] = N[d] + (IF n = Null /\ y = ds THEN 1 ELSE 0) + (IF K[n] = "red" THEN 0 ELSE 1)
          /\ K[n] \in Shade
      BY <1>1, <1>4, <1>K, OldEdge
    <2> QED BY <2>1
  <1>5. ASSUME NEW n \in Reach(h), NEW y \in Side, NEW d,
               N[n] = N[d] + (IF K[n] = "red" THEN 0 ELSE 1), N[d] \in Nat,
               K[n] = "red" /\ d # Null /\ K[d] = "red" => d = p
        PROVE  Edge(K, N, Null, p, Null, ds, n, y, d)
    <2>1. n # Null /\ K[n] \in Shade /\ N[n] \in Nat
      BY <1>4
    <2> QED BY <2>1, <1>5, EdgeIs
  <1>6. ASSUME NEW n \in Reach(h), NEW y \in Side, n # p /\ n # e /\ h[y][n] # p
        PROVE  Edge(K, N, Null, p, Null, ds, n, y, h[y][n])
    <2>d. PICK d : d = h[y][n]
      OBVIOUS
    <2>1. d # e
      BY <1>2, <1>6, <2>d
    <2>2. /\ N[n] = N[d] + (IF K[n] = "red" THEN 0 ELSE 1) /\ N[d] \in Nat
          /\ K[n] = "red" /\ d # Null /\ K[d] = "red" => d = e
      BY <1>4, <2>d
    <2> QED BY <2>1, <2>2, <2>d, <1>5
  <1>7. /\ N[p] = N[e] /\ N[e] = N[c] /\ N[p] \in Nat /\ N[c] \in Nat /\ N[e] \in Nat
        /\ K[p] = "red" /\ K[e] = "red" /\ (c # Null /\ K[c] = "red" => c = e)
    <2>1. K[p] = "red" /\ K[e] = "red"
      BY <1>1, <1>3, <1>K
    <2>2. N[p] = N[e] + (IF K[p] = "red" THEN 0 ELSE 1) /\ N[p] \in Nat /\ N[e] \in Nat
      BY <1>1, <1>4
    <2>3. N[e] = N[c] + (IF K[e] = "red" THEN 0 ELSE 1) /\ N[c] \in Nat
          /\ (c # Null /\ K[c] = "red" => c = e)
      BY <2>1, <1>c, <1>1, <1>4
    <2> QED BY <2>1, <2>2, <2>3
  <1>7a. c # e
    BY <1>1, <1>2, <1>c
  <1>8. ASSUME NEW n \in Reach(h), NEW y \in Side, h[y][n] = p
        PROVE  Edge(K, N, Null, p, Null, ds, n, y, e)
    <2>1. n = g /\ K[n] # "red"
      BY <1>1, <1>2, <1>8, <1>K
    <2>2. N[n] = N[p] + (IF K[n] = "red" THEN 0 ELSE 1)
      BY <1>4, <1>8
    <2> QED BY <2>1, <2>2, <1>5, <1>7
  <1>9. Edge(K, N, Null, p, Null, ds, e, s, p)
    <2>1. N[e] = N[p] + (IF K[e] = "red" THEN 0 ELSE 1)
      BY <1>7
    <2> QED BY <2>1, <1>1, <1>5, <1>7
  <1>10. Edge(K, N, Null, p, Null, ds, e, o, h[o][e])
    <2>d. PICK d : d = h[o][e]
      OBVIOUS
    <2>1. d # e
      BY <1>1, <1>2, <2>d
    <2>2. /\ N[e] = N[d] + (IF K[e] = "red" THEN 0 ELSE 1) /\ N[d] \in Nat
          /\ K[e] = "red" /\ d # Null /\ K[d] = "red" => d = e
      BY <1>1, <1>4, <2>d
    <2> QED BY <2>1, <2>2, <2>d, <1>1, <1>5
  <1>11. Edge(K, N, Null, p, Null, ds, p, o, c)
    <2>1. N[p] = N[c] + (IF K[p] = "red" THEN 0 ELSE 1)
      BY <1>7
    <2> QED BY <2>1, <1>1, <1>5, <1>7, <1>7a
  <1>12. Edge(K, N, Null, p, Null, ds, p, s, h[s][p])
    <2>d. PICK d : d = h[s][p]
      OBVIOUS
    <2>2. /\ N[p] = N[d] + (IF K[p] = "red" THEN 0 ELSE 1) /\ N[d] \in Nat
          /\ K[p] = "red" /\ d # Null /\ K[d] = "red" => d = e
      BY <1>1, <1>4, <2>d
    <2> QED BY <2>2, <2>d, <1>1, <1>5
  <1>13. h.root # p /\ (K[h.root] = "red" => h.root = p)
    <2>1. h.root # Null
      BY <1>1, ReachFacts
    <2> QED BY <2>1, <1>1, <1>K DEF Colored, Red
  <1>14. TurnEdges(h, s, p, o, e, c, K, N, Null, p, Null, ds)
    <2>1. e # Null
      BY <1>1
    <2> QED BY <2>1, <1>1, <1>6, <1>8, <1>9, <1>10, <1>11, <1>12, <1>13, <1>c DEF TurnEdges
  <1>15. SameShape(h, h)
    BY <1>1 DEF SameShape
  <1>16. Colored(f, N, Null, p, Null, ds)
    BY <1>1, <1>3, <1>14, <1>15, <1>K, RotatedColors
  <1>17. Red(f, p)
    <2>1. f.color = h.color
      BY DEF RotatedBy
    <2> QED BY <2>1, <1>1 DEF Red
  <1> QED
    BY <1>16, <1>17

\* With an outer grandchild, a turn about the grandparent settles it.
LEMMA OuterTurnColors ==
    ASSUME NEW h, RightTree(h), NEW e \in Reach(h), Red(h, h.parent[e]), Red(h, e),
           NEW N, NEW ds, Colored(h, N, Null, e, Null, ds),
           NEW p, NEW g, NEW s, NEW o, NEW u, InsertCorner(h, e, p, g, s, o, u), h[o][p] # e,
           ~Red(h, u), NEW k, Swapped(h, p, g, k),
           NEW f, RotatedBy(k, o, g, f), Reach(f) = Reach(h)
    PROVE  Red(f, e) /\ \E M : Colored(f, M, Null, e, Null, ds)
  <1>1. /\ h \in Heap /\ Reach(h) \in SUBSET Node
        /\ e \in Reach(h) /\ p \in Reach(h) /\ g \in Reach(h)
        /\ s \in Side /\ o \in Side /\ s # o /\ Side = {s, o} /\ s = Other[o]
        /\ h[s][g] = p /\ h.color[p] = "red" /\ h.color[g] # "red" /\ u = h[o][g]
        /\ e # p /\ p # g /\ g # e /\ u # p /\ u # g
        /\ h.root # e /\ h.root # p /\ Null \notin Reach(h) /\ h.parent[g] # p
    BY InsertScene
  <1>2. \A n \in Reach(h), y \in Side : (h[y][n] = p => n = g) /\ (h[y][n] = g => n = h.parent[g])
    BY InsertScene
  <1>2a. h.parent[g] # g
    BY <1>1, Links
  <1>3. h.color[e] = "red" /\ N \in Heights /\ N[Null] = 0
    BY DEF Red, Colored
  <1>K. PICK K : K = k.color
    OBVIOUS
  <1>M. PICK M : M = Exchanged(N, p, g)
    OBVIOUS
  <1>c. PICK c : c = h[o][p]
    OBVIOUS
  <1>4. ASSUME NEW n \in Reach(h), NEW y \in Side, NEW d, d = h[y][n]
        PROVE  /\ N[n] = N[d] + (IF h.color[n] = "red" THEN 0 ELSE 1)
               /\ h.color[n] = "red" /\ d # Null /\ h.color[d] = "red" => d = e
               /\ N[n] \in Nat /\ N[d] \in Nat /\ n \in Node /\ n # Null /\ d \in Pointer
               /\ h.color[n] \in Shade
    <2>1. /\ h.color[n] = "red" /\ d # Null /\ h.color[d] = "red" => n = Null \/ d = e
          /\ N[n] \in Nat /\ N[d] \in Nat /\ n \in Node /\ n # Null /\ d \in Pointer
          /\ N[n] = N[d] + (IF n = Null /\ y = ds THEN 1 ELSE 0) + (IF h.color[n] = "red" THEN 0 ELSE 1)
          /\ h.color[n] \in Shade
      BY <1>1, <1>4, OldEdge
    <2> QED BY <2>1
  <1>5. /\ \A i \in Node : i # p /\ i # g => K[i] = h.color[i]
        /\ K[p] = "black" /\ K[g] = "red" /\ SameShape(h, k)
        /\ \A n \in Reach(h) : n \in Node /\ n \in Pointer /\ K[n] \in Shade
    <2>1. SameShape(h, k) /\ \A i \in Node : K[i] = IF i = g THEN "red"
                                                    ELSE IF i = p THEN "black" ELSE h.color[i]
      BY <1>K DEF Swapped
    <2>2. \A n \in Reach(h) : n \in Node /\ n \in Pointer
      BY <1>1 DEF Pointer
    <2>3. \A n \in Reach(h) : h.color[n] \in Shade
      BY <1>1, <1>4
    <2> QED BY <2>1, <2>2, <2>3, <1>1 DEF Shade
  <1>6. /\ M \in Heights /\ M[Null] = 0 /\ M[p] = N[g] /\ M[g] = N[p]
        /\ \A x \in Pointer : x # p /\ x # g => M[x] = N[x]
    <2>1. p \in Node /\ g \in Node /\ p # g
      BY <1>1
    <2> QED BY <2>1, <1>3, <1>M, ExchangedIs, SMTT(60)
  <1>7. ASSUME NEW n \in Reach(h), NEW y \in Side, NEW d, d \in Pointer,
               M[n] = M[d] + (IF K[n] = "red" THEN 0 ELSE 1),
               K[n] = "red" /\ d # Null /\ K[d] = "red" => d = e
        PROVE  Edge(K, M, Null, e, Null, ds, n, y, d)
    <2>1. n # Null /\ K[n] \in Shade /\ M[n] \in Nat /\ M[d] \in Nat
      BY <1>1, <1>5, <1>6, <1>7 DEF Heights
    <2> QED BY <2>1, <1>7, EdgeIs
  <1>8. ASSUME NEW n \in Reach(h), NEW y \in Side, n # p /\ n # g /\ h[y][n] # g
        PROVE  Edge(K, M, Null, e, Null, ds, n, y, h[y][n])
    <2>d. PICK d : d = h[y][n]
      OBVIOUS
    <2>1. /\ N[n] = N[d] + (IF h.color[n] = "red" THEN 0 ELSE 1) /\ d \in Pointer
          /\ h.color[n] = "red" /\ d # Null /\ h.color[d] = "red" => d = e
      BY <1>4, <2>d
    <2>2. d # p /\ d # g
      BY <1>2, <1>8, <2>d
    <2>3. M[n] = N[n] /\ M[d] = N[d] /\ K[n] = h.color[n] /\ (d # Null => K[d] = h.color[d])
      BY <2>1, <2>2, <1>5, <1>6, <1>8 DEF Pointer
    <2> QED BY <2>1, <2>3, <2>d, <1>7
  <1>9. /\ N[g] = N[p] + 1 /\ N[p] = N[c] /\ N[p] \in Nat /\ N[c] \in Nat /\ c \in Pointer
        /\ N[g] = N[u] + 1 /\ N[u] \in Nat /\ u \in Pointer
        /\ (c # Null => h.color[c] # "red")
    <2>1. N[g] = N[p] + (IF h.color[g] = "red" THEN 0 ELSE 1) /\ N[p] \in Nat
      BY <1>1, <1>4
    <2>2. /\ N[p] = N[c] + (IF h.color[p] = "red" THEN 0 ELSE 1) /\ N[c] \in Nat /\ c \in Pointer
          /\ (h.color[p] = "red" /\ c # Null /\ h.color[c] = "red" => c = e)
      BY <1>1, <1>4, <1>c
    <2>3. N[g] = N[u] + (IF h.color[g] = "red" THEN 0 ELSE 1) /\ N[u] \in Nat /\ u \in Pointer
      BY <1>1, <1>4
    <2> QED BY <2>1, <2>2, <2>3, <1>1, <1>c
  <1>10. c # p /\ c # g
    <2>1. h[o][p] = p => p = g
      BY <1>1, <1>2
    <2>2. h[o][p] = g => p = h.parent[g]
      BY <1>1, <1>2
    <2> QED BY <2>1, <2>2, <1>1, <1>c
  <1>11. ASSUME NEW n \in Reach(h), NEW y \in Side, h[y][n] = g
         PROVE  Edge(K, M, Null, e, Null, ds, n, y, p)
    <2>1. n # p /\ n # g
      BY <1>1, <1>2, <1>2a, <1>11
    <2>2. N[n] = N[g] + (IF h.color[n] = "red" THEN 0 ELSE 1)
      BY <1>4, <1>11
    <2>3. M[n] = N[n] /\ K[n] = h.color[n] /\ p \in Pointer
      BY <2>1, <1>1, <1>5, <1>6
    <2>4. M[n] = M[p] + (IF K[n] = "red" THEN 0 ELSE 1)
      BY <2>2, <2>3, <1>6
    <2> QED BY <2>3, <2>4, <1>5, <1>7
  <1>12. Edge(K, M, Null, e, Null, ds, p, o, g)
    <2>1. M[p] = M[g] + (IF K[p] = "red" THEN 0 ELSE 1) /\ g \in Pointer
      BY <1>1, <1>5, <1>6, <1>9
    <2> QED BY <2>1, <1>1, <1>5, <1>7
  <1>13. Edge(K, M, Null, e, Null, ds, p, s, h[s][p])
    <2>d. PICK d : d = h[s][p]
      OBVIOUS
    <2>1. N[p] = N[d] + (IF h.color[p] = "red" THEN 0 ELSE 1) /\ d \in Pointer /\ N[d] \in Nat
      BY <1>1, <1>4, <2>d
    <2>2. d # p /\ d # g
      <3>1. h[s][p] = p => p = g
        BY <1>1, <1>2
      <3>2. h[s][p] = g => p = h.parent[g]
        BY <1>1, <1>2
      <3> QED BY <3>1, <3>2, <2>d, <1>1
    <2>3. M[p] = M[d] + (IF K[p] = "red" THEN 0 ELSE 1)
      BY <2>1, <2>2, <1>1, <1>5, <1>6, <1>9
    <2> QED BY <2>1, <2>3, <2>d, <1>1, <1>5, <1>7
  <1>14. Edge(K, M, Null, e, Null, ds, g, s, c)
    <2>1. M[g] = M[c] + (IF K[g] = "red" THEN 0 ELSE 1)
      BY <1>5, <1>6, <1>9, <1>10
    <2>2. c # Null => K[c] # "red"
      BY <1>5, <1>9, <1>10 DEF Pointer
    <2> QED BY <2>1, <2>2, <1>1, <1>7, <1>9
  <1>15. Edge(K, M, Null, e, Null, ds, g, o, h[o][g])
    <2>1. M[g] = M[u] + (IF K[g] = "red" THEN 0 ELSE 1)
      BY <1>1, <1>5, <1>6, <1>9
    <2>2. u # Null => K[u] # "red"
      BY <1>1, <1>5, <1>9 DEF Pointer, Red
    <2> QED BY <2>1, <2>2, <1>1, <1>7, <1>9
  <1>16. h.root # g /\ K[h.root] = "red" => h.root = e
    <2>1. h.root # Null /\ h.root \in Node
      BY <1>1, ReachFacts
    <2>2. h.color[h.root] = "red" => h.root = e
      BY <2>1 DEF Colored, Red
    <2> QED BY <2>1, <2>2, <1>1, <1>5
  <1>17. TurnEdges(h, o, g, s, p, c, K, M, Null, e, Null, ds)
    <2>1. p # Null /\ K[p] # "red"
      BY <1>1, <1>5
    <2> QED BY <2>1, <1>1, <1>8, <1>11, <1>12, <1>13, <1>14, <1>15, <1>16, <1>c DEF TurnEdges
  <1>18. Colored(f, M, Null, e, Null, ds)
    BY <1>1, <1>5, <1>6, <1>17, <1>K, RotatedColors
  <1>19. Red(f, e)
    <2>1. f.color = k.color
      BY DEF RotatedBy
    <2> QED BY <2>1, <1>1, <1>3, <1>5, <1>K DEF Red
  <1> QED
    BY <1>18, <1>19

\* A round of RB_INSERT_COLOR
LEMMA InsertTurnColors ==
    ASSUME NEW h, RightTree(h), NEW e \in Reach(h), Red(h, h.parent[e]), Red(h, e),
           NEW N, NEW ds, Colored(h, N, Null, e, Null, ds),
           NEW f, InsertTurn(h, e, f), Reach(f) = Reach(h),
           NEW d, d = InsertColor(h, e).next
    PROVE  Red(f, d) /\ \E M : Colored(f, M, Null, d, Null, ds)
  <1>1. PICK p, g, s, o, u : /\ InsertCorner(h, e, p, g, s, o, u)
                             /\ p = h.parent[e] /\ g = h.parent[p] /\ s = ChildSide(h, g, p)
                             /\ o = Other[s] /\ u = h[o][g]
    BY DEF InsertCorner
  <1>2. CASE Red(h, u)
    <2>1. UncleTurn(h, p, g, u, f)
      BY <1>1, <1>2, Zenon DEF InsertTurn, UncleTurn
    <2>2. d = g
      BY <1>1, <1>2, Zenon DEF InsertColor
    <2>3. Red(f, g) /\ \E M : Colored(f, M, Null, g, Null, ds)
      BY <2>1, <1>1, <1>2, RedUncleColors, Zenon
    <2> QED BY <2>2, <2>3
  <1>3. CASE ~Red(h, u) /\ h[o][p] = e
    <2>1. RotatedBy(h, s, p, f)
      BY <1>1, <1>3, Zenon DEF InsertTurn
    <2>2. d = p
      BY <1>1, <1>3 DEF InsertColor
    <2>3. Red(f, p) /\ \E M : Colored(f, M, Null, p, Null, ds)
      BY <2>1, <1>1, <1>3, InnerTurnColors, Zenon
    <2> QED BY <2>2, <2>3
  <1>4. CASE ~Red(h, u) /\ h[o][p] # e
    <2>1. PICK k : Swapped(h, p, g, k) /\ RotatedBy(k, o, g, f)
      BY <1>1, <1>4, Zenon DEF InsertTurn
    <2>2. d = e
      BY <1>1, <1>4, Zenon DEF InsertColor
    <2>3. Red(f, e) /\ \E M : Colored(f, M, Null, e, Null, ds)
      BY <2>1, <1>1, <1>4, OuterTurnColors, Zenon
    <2> QED BY <2>2, <2>3
  <1> QED
    BY <1>2, <1>3, <1>4

-----------------------------------------------------------------------------
(* The rounds of RB_REMOVE_COLOR *)

\* The elements a round of RB_REMOVE_COLOR is about: p's side s, where e hangs, is
\* one black element short.
RemoveCorner(h, e, p, s, o, t, near, far) ==
    /\ s = ChildSide(h, p, e) /\ h[s][p] = e /\ o = Other[s] /\ t = h[o][p]
    /\ near = h[s][t] /\ far = h[o][t]

\* A colored tree without two red elements that meet
LEMMA PlainEdge ==
    ASSUME NEW h \in Heap, NEW N, NEW e, NEW dp, NEW ds, Colored(h, N, e, e, dp, ds), ~Red(h, e),
           NEW n \in Reach(h), NEW y \in Side, NEW d, d = h[y][n]
    PROVE  /\ ~(h.color[n] = "red" /\ d # Null /\ h.color[d] = "red")
           /\ N[n] \in Nat /\ N[d] \in Nat /\ n \in Node /\ n # Null /\ n \in Pointer /\ d \in Pointer
           /\ h.color[n] \in Shade /\ d \in Reach(h) \cup {Null}
           /\ N[n] = N[d] + (IF n = dp /\ y = ds THEN 1 ELSE 0) + (IF h.color[n] = "red" THEN 0 ELSE 1)
           /\ n # dp \/ y # ds => N[n] = N[d] + (IF h.color[n] = "red" THEN 0 ELSE 1)
           /\ n = dp /\ y = ds => N[n] = N[d] + 1 + (IF h.color[n] = "red" THEN 0 ELSE 1)
  <1>1. /\ h.color[n] = "red" /\ d # Null /\ h.color[d] = "red" => n = e \/ d = e
        /\ N[n] \in Nat /\ N[d] \in Nat /\ n \in Node /\ n # Null /\ n \in Pointer /\ d \in Pointer
        /\ h.color[n] \in Shade /\ d \in Reach(h) \cup {Null}
        /\ N[n] = N[d] + (IF n = dp /\ y = ds THEN 1 ELSE 0) + (IF h.color[n] = "red" THEN 0 ELSE 1)
    BY OldEdge
  <1>2. n # dp \/ y # ds => N[n] = N[d] + (IF h.color[n] = "red" THEN 0 ELSE 1)
    BY <1>1
  <1>3. n = dp /\ y = ds => N[n] = N[d] + 1 + (IF h.color[n] = "red" THEN 0 ELSE 1)
    BY <1>1
  <1> QED
    BY <1>1, <1>2, <1>3 DEF Red

\* The elements around a side that is short
LEMMA RemoveScene ==
    ASSUME NEW h, RightTree(h), NEW p \in Reach(h), NEW e, ~Red(h, e), e # h.root,
           NEW s, NEW o, NEW t, NEW near, NEW far, RemoveCorner(h, e, p, s, o, t, near, far),
           NEW N, Colored(h, N, e, e, p, s)
    PROVE  /\ h \in Heap /\ Reach(h) \in SUBSET Node /\ Null \notin Reach(h)
           /\ p \in Reach(h) /\ t \in Reach(h) /\ {e, near, far} \subseteq Reach(h) \cup {Null}
           /\ s \in Side /\ o \in Side /\ s # o /\ Side = {s, o} /\ o = Other[s] /\ s = Other[o]
           /\ h[s][p] = e /\ h[o][p] = t /\ h[s][t] = near /\ h[o][t] = far
           /\ e # p /\ t # p /\ t # e /\ near # p /\ near # t /\ far # p /\ far # t
           /\ (near # Null => near # far /\ near # e) /\ (far # Null => far # e)
           /\ h.root # t /\ h.color[h.root] # "red"
           /\ (near # Null => h.root # near) /\ (far # Null => h.root # far)
           /\ h.parent[p] # p /\ h.parent[p] # t /\ (far # Null => h.parent[p] # far)
           /\ N \in Heights /\ N[Null] = 0 /\ N[p] \in Nat /\ N[e] \in Nat /\ N[t] \in Nat
           /\ N[p] = N[e] + 1 + (IF h.color[p] = "red" THEN 0 ELSE 1) /\ N[t] = N[e] + 1
           /\ N[p] = N[t] + (IF h.color[p] = "red" THEN 0 ELSE 1)
           /\ \A n \in Reach(h), y \in Side : /\ h[y][n] = p => n = h.parent[p]
                                              /\ h[y][n] = t => n = p
                                              /\ h[y][n] = near /\ near # Null => n = t
                                              /\ h[y][n] = far /\ far # Null => n = t
  <1>0. h[s][p] = e /\ o = Other[s] /\ t = h[o][p] /\ near = h[s][t] /\ far = h[o][t] /\ s \in Side
    <2>1. ChildSide(h, p, e) \in Side
      BY ChildSideIs
    <2> QED BY <2>1 DEF RemoveCorner
  <1>1. /\ h \in Heap /\ IsSearchTree(h) /\ Reach(h) \in SUBSET Node /\ Closed(h, Reach(h))
        /\ h.root \in Reach(h)
    BY ReachFacts DEF RightTree
  <1>2. Null \notin Reach(h)
    BY <1>1, NodeFacts
  <1>3. o \in Side /\ s # o /\ Side = {s, o} /\ s = Other[o]
    BY <1>0, OtherSide
  <1>4. N \in Heights /\ N[Null] = 0
    BY DEF Colored
  <1>5. /\ N[p] = N[e] + 1 + (IF h.color[p] = "red" THEN 0 ELSE 1)
        /\ N[e] \in Nat /\ e \in Reach(h) \cup {Null} /\ N[p] \in Nat
    BY <1>0, <1>1, PlainEdge
  <1>6. /\ N[p] = N[t] + (IF h.color[p] = "red" THEN 0 ELSE 1)
        /\ N[t] \in Nat /\ t \in Reach(h) \cup {Null}
    <2>1. o \in Side /\ t = h[o][p] /\ (p # p \/ o # s)
      BY <1>0, <1>3, Zenon
    <2>2. /\ N[p] \in Nat /\ N[t] \in Nat /\ t \in Reach(h) \cup {Null}
          /\ p # p \/ o # s => N[p] = N[t] + (IF h.color[p] = "red" THEN 0 ELSE 1)
      BY <2>1, <1>1, PlainEdge
    <2> QED BY <2>1, <2>2
  <1>7. N[t] = N[e] + 1
    BY ONLY <1>5, <1>6
  <1>8. t \in Reach(h)
    BY <1>4, <1>5, <1>6, <1>7
  <1>9. {near, far} \subseteq Reach(h) \cup {Null}
    BY <1>0, <1>1, <1>3, <1>8, ZenonT(60) DEF Closed
  <1>10. ASSUME NEW n \in Reach(h), NEW y \in Side, h[y][n] \in Reach(h)
         PROVE  n = h.parent[h[y][n]] /\ h[y][n] # n /\ h[y][n] # h.root
    <2>1. h.parent[h[y][n]] = n
      BY <1>10, Links
    <2>2. h.parent[h[y][n]] # h[y][n]
      BY <1>10, Links
    <2>3. h[y][n] # h.root
      BY <2>1, <1>2, <1>10, Links
    <2> QED BY <2>1, <2>2, <2>3
  <1>11. /\ h.parent[t] = p /\ t # p /\ t # h.root
         /\ (e # Null => h.parent[e] = p /\ e # p)
         /\ (near # Null => h.parent[near] = t /\ near # t /\ near # h.root)
         /\ (far # Null => h.parent[far] = t /\ far # t /\ far # h.root)
    BY <1>0, <1>3, <1>5, <1>8, <1>9, <1>10, Zenon
  <1>12. h.parent[p] # p /\ h.parent[p] # t
    <2>1. h.parent[p] # p
      BY Links
    <2>2. PICK c, q : c = h[s][t] /\ q = h.parent[p]
      OBVIOUS
    <2>3. /\ RightTree(h) /\ s \in Side /\ p \in Reach(h) /\ t # Null
          /\ TurnCast(h, s, p, o, t, c, q)
      BY <2>2, <1>0, <1>2, <1>3, <1>8 DEF TurnCast
    <2>4. q # t
      BY ONLY <2>3, RotateCast, SMTT(60)
    <2> QED BY <2>1, <2>2, <2>4
  <1>13. far # Null => h.parent[p] # far
    <2> SUFFICES ASSUME far # Null, h.parent[p] = far PROVE FALSE
      OBVIOUS
    <2>1. p # h.root /\ far \in Reach(h)
      BY <1>9, <1>2, Links
    <2>2. PICK y \in Side : h[y][far] = p
      BY <2>1, Links
    <2>3. t \in Pointer /\ far \in Pointer /\ p \in Pointer
      BY <1>1, <1>8, <2>1 DEF Pointer
    <2>4. Closed(h, Below(h, t)) /\ t \in Below(h, t)
      BY <1>1, <1>2, <1>8, <2>3, BelowLeast
    <2>5. far \in Below(h, t)
      BY <2>4, <1>0, <1>3, <1>2, <2>1, Zenon DEF Closed
    <2>6. p \in Below(h, t)
      BY <2>4, <2>5, <2>2, <1>2 DEF Closed
    <2>7. p \notin Below(h, h[o][p])
      BY <1>1, <1>3, NotBelowChild
    <2> QED BY <2>6, <2>7, <1>0
  <1>14. t # e /\ (near # Null => near # far)
    <2>1. h[s][t] # Null => h[s][t] # h[Other[s]][t]
      BY <1>0, <1>1, <1>8, NotBelowChild
    <2>2. e = Null => t # e
      BY <1>2, <1>8
    <2>3. h[s][p] # Null => h[s][p] # h[Other[s]][p]
      BY <1>0, <1>1, NotBelowChild
    <2> QED BY <2>1, <2>2, <2>3, <1>0
  <1>15. (near # Null => near # e /\ near # p) /\ (far # Null => far # e /\ far # p)
    <2>1. near # Null => near # e
      BY <1>11
    <2>2. far # Null => far # e
      BY <1>11
    <2>3. near # Null => near # p
      BY <1>11, <1>12
    <2>4. far # Null => far # p
      BY <1>11, <1>12
    <2> QED BY <2>1, <2>2, <2>3, <2>4
  <1>16. h.color[h.root] # "red"
    BY <1>1, <1>2 DEF Colored, Red
  <1>17. ASSUME NEW n \in Reach(h), NEW y \in Side
         PROVE  /\ h[y][n] = p => n = h.parent[p]
                /\ h[y][n] = t => n = p
                /\ h[y][n] = near /\ near # Null => n = t
                /\ h[y][n] = far /\ far # Null => n = t
    <2>1. h[y][n] = p => n = h.parent[p]
      BY <1>10
    <2>2. h[y][n] = t => n = p
      BY <1>8, <1>10, <1>11
    <2>3. h[y][n] = near /\ near # Null => n = t
      BY <1>9, <1>10, <1>11
    <2>4. h[y][n] = far /\ far # Null => n = t
      BY <1>9, <1>10, <1>11
    <2> QED BY <2>1, <2>2, <2>3, <2>4
  <1>18. e # p /\ near # p /\ near # t /\ far # p /\ far # t
    BY <1>2, <1>8, <1>11, <1>15
  <1>19. /\ h.root # t /\ (near # Null => h.root # near) /\ (far # Null => h.root # far)
         /\ (near # Null => near # far /\ near # e) /\ (far # Null => far # e)
    BY <1>11, <1>14, <1>15
  <1>20. /\ p \in Reach(h) /\ t \in Reach(h) /\ {e, near, far} \subseteq Reach(h) \cup {Null}
    BY <1>5, <1>8, <1>9
  <1>21. t # p
    BY <1>11
  <1> QED
    BY <1>0, <1>1, <1>2, <1>3, <1>4, <1>5, <1>6, <1>7, <1>12, <1>13, <1>14, <1>16, <1>17, <1>18, <1>19,
       <1>20, <1>21, Zenon

\* The side that is short
LEMMA ShortSide ==
    ASSUME NEW h \in Heap, NEW p \in Node, NEW s \in Side, NEW e, h[s][p] = e, h[Other[s]][p] # e
    PROVE  ChildSide(h, p, e) = s
  BY OtherSide, HeapFacts DEF ChildSide, Side

\* Edge at the short link
LEMMA ShortEdgeIs ==
    ASSUME NEW col, NEW M, NEW xp, NEW xc, NEW n, NEW y, NEW c,
           col[n] \in Shade, M[n] \in Nat, M[c] \in Nat,
           M[n] = M[c] + 1 + (IF col[n] = "red" THEN 0 ELSE 1),
           col[n] = "red" /\ c # Null /\ col[c] = "red" => n = xp \/ c = xc
    PROVE  Edge(col, M, xp, xc, n, y, n, y, c)
  <1>1. Bit(n = n /\ y = y) = 1 /\ Bit(col[n] = "black") = IF col[n] = "red" THEN 0 ELSE 1
    BY DEF Bit, Shade
  <1> QED
    BY <1>1 DEF Edge

\* A red sibling comes up.
LEMMA RedSiblingColors ==
    ASSUME NEW h, RightTree(h), NEW p \in Reach(h), NEW e, ~Red(h, e), e # h.root,
           NEW s, NEW o, NEW t, NEW near, NEW far, RemoveCorner(h, e, p, s, o, t, near, far),
           NEW N, Colored(h, N, e, e, p, s), Red(h, t),
           NEW k, Swapped(h, t, p, k), NEW f, RotatedBy(k, s, p, f), Reach(f) = Reach(h)
    PROVE  /\ f.root # e /\ ~Red(f, e) /\ ~Red(f, f[o][p])
           /\ ChildSide(f, p, e) = s /\ f[s][p] = e
           /\ \E M : Colored(f, M, e, e, p, s)
  <1>1. /\ h \in Heap /\ Reach(h) \in SUBSET Node /\ Null \notin Reach(h)
        /\ p \in Reach(h) /\ t \in Reach(h) /\ {e, near, far} \subseteq Reach(h) \cup {Null}
        /\ s \in Side /\ o \in Side /\ s # o /\ Side = {s, o} /\ o = Other[s] /\ s = Other[o]
        /\ h[s][p] = e /\ h[o][p] = t /\ h[s][t] = near /\ h[o][t] = far
        /\ e # p /\ t # p /\ t # e /\ near # p /\ near # t /\ far # p /\ far # t
        /\ (near # Null => near # e)
        /\ h.root # t /\ h.color[h.root] # "red"
        /\ h.parent[p] # p /\ h.parent[p] # t
    BY RemoveScene
  <1>2. /\ N \in Heights /\ N[Null] = 0 /\ N[p] \in Nat /\ N[e] \in Nat /\ N[t] \in Nat
        /\ N[t] = N[e] + 1 /\ N[p] = N[t] + (IF h.color[p] = "red" THEN 0 ELSE 1)
    BY RemoveScene
  <1>3. \A n \in Reach(h), y \in Side : (h[y][n] = p => n = h.parent[p]) /\ (h[y][n] = t => n = p)
    BY RemoveScene
  <1>4. ASSUME NEW n \in Reach(h), NEW y \in Side, NEW d, d = h[y][n]
        PROVE  /\ ~(h.color[n] = "red" /\ d # Null /\ h.color[d] = "red")
               /\ N[n] \in Nat /\ N[d] \in Nat /\ n \in Node /\ n # Null /\ d \in Pointer
               /\ h.color[n] \in Shade
               /\ n # p \/ y # s => N[n] = N[d] + (IF h.color[n] = "red" THEN 0 ELSE 1)
    <2>1. /\ h \in Heap /\ Colored(h, N, e, e, p, s) /\ ~Red(h, e)
          /\ n \in Reach(h) /\ y \in Side /\ d = h[y][n]
      BY <1>1, <1>4
    <2> QED BY ONLY <2>1, PlainEdge
  <1>5. h.color[t] = "red" /\ h.color[p] # "red" /\ N[p] = N[t] + 1
    <2>1. h.color[t] = "red" /\ t # Null
      BY DEF Red
    <2>2. h.color[p] # "red"
      BY <2>1, <1>1, <1>4
    <2> QED BY <2>1, <2>2, <1>2
  <1>K. PICK K : K = k.color
    OBVIOUS
  <1>M. PICK M : M = Exchanged(N, p, t)
    OBVIOUS
  <1>6. /\ \A i \in Node : i # p /\ i # t => K[i] = h.color[i]
        /\ K[t] = "black" /\ K[p] = "red" /\ SameShape(h, k)
        /\ \A n \in Reach(h) : n \in Node /\ n \in Pointer /\ K[n] \in Shade
    <2>1. SameShape(h, k) /\ \A i \in Node : K[i] = IF i = p THEN "red"
                                                    ELSE IF i = t THEN "black" ELSE h.color[i]
      BY <1>K DEF Swapped
    <2>2. \A n \in Reach(h) : n \in Node /\ n \in Pointer
      BY <1>1 DEF Pointer
    <2>3. \A n \in Reach(h) : h.color[n] \in Shade
      BY <1>1, <1>4
    <2> QED BY <2>1, <2>2, <2>3, <1>1 DEF Shade
  <1>7. /\ M \in Heights /\ M[Null] = 0 /\ M[p] = N[t] /\ M[t] = N[p]
        /\ \A x \in Pointer : x # p /\ x # t => M[x] = N[x]
    <2>1. p \in Node /\ t \in Node /\ p # t /\ N \in Heights /\ N[Null] = 0
      BY <1>1, <1>2
    <2> QED BY <2>1, <1>M, ExchangedIs
  <1>8. ASSUME NEW n \in Reach(h), NEW y \in Side, NEW d, d \in Pointer, n # p \/ y # s,
               M[n] = M[d] + (IF K[n] = "red" THEN 0 ELSE 1),
               ~(K[n] = "red" /\ d # Null /\ K[d] = "red")
        PROVE  Edge(K, M, e, e, p, s, n, y, d)
    <2>1. K[n] \in Shade /\ M[n] \in Nat /\ M[d] \in Nat
      BY <1>6, <1>7, <1>8 DEF Heights
    <2> QED BY <2>1, <1>8, EdgeIs
  <1>9. ASSUME NEW n \in Reach(h), NEW y \in Side, n # p /\ n # t /\ h[y][n] # p
        PROVE  Edge(K, M, e, e, p, s, n, y, h[y][n])
    <2>d. PICK d : d = h[y][n]
      OBVIOUS
    <2>1. /\ N[n] = N[d] + (IF h.color[n] = "red" THEN 0 ELSE 1) /\ d \in Pointer
          /\ ~(h.color[n] = "red" /\ d # Null /\ h.color[d] = "red")
      BY <1>4, <1>9, <2>d
    <2>2. d # p /\ d # t
      BY <1>3, <1>9, <2>d
    <2>3. M[n] = N[n] /\ M[d] = N[d] /\ K[n] = h.color[n] /\ (d # Null => K[d] = h.color[d])
      BY <2>1, <2>2, <1>6, <1>7, <1>9 DEF Pointer
    <2> QED BY <2>1, <2>3, <2>d, <1>8, <1>9
  <1>10. /\ N[t] = N[near] /\ N[t] = N[far] /\ near \in Pointer /\ far \in Pointer
         /\ N[near] \in Nat /\ N[far] \in Nat /\ (near # Null => h.color[near] # "red")
    <2>1. /\ t # p \/ s # s => N[t] = N[near] + (IF h.color[t] = "red" THEN 0 ELSE 1)
          /\ N[near] \in Nat /\ near \in Pointer
          /\ ~(h.color[t] = "red" /\ near # Null /\ h.color[near] = "red")
      BY <1>1, <1>4
    <2>2. /\ t # p \/ o # s => N[t] = N[far] + (IF h.color[t] = "red" THEN 0 ELSE 1)
          /\ N[far] \in Nat /\ far \in Pointer
      BY <1>1, <1>4
    <2> QED BY <2>1, <2>2, <1>1, <1>5
  <1>11. near # Null /\ near # e
    <2>1. N[near] # N[Null]
      BY <1>2, <1>10
    <2> QED BY <2>1, <1>1
  <1>12. ASSUME NEW n \in Reach(h), NEW y \in Side, h[y][n] = p
         PROVE  Edge(K, M, e, e, p, s, n, y, t)
    <2>1. n # p /\ n # t
      BY <1>1, <1>3, <1>12
    <2>2. N[n] = N[p] + (IF h.color[n] = "red" THEN 0 ELSE 1)
      BY <2>1, <1>4, <1>12
    <2>3. M[n] = N[n] /\ K[n] = h.color[n] /\ t \in Pointer
      BY <2>1, <1>1, <1>6, <1>7
    <2>4. M[n] = M[t] + (IF K[n] = "red" THEN 0 ELSE 1)
      BY <2>2, <2>3, <1>7
    <2> QED BY <2>1, <2>3, <2>4, <1>6, <1>8
  <1>13. Edge(K, M, e, e, p, s, t, s, p)
    <2>1. M[t] = M[p] + (IF K[t] = "red" THEN 0 ELSE 1) /\ p \in Pointer
      BY <1>1, <1>5, <1>6, <1>7
    <2> QED BY <2>1, <1>1, <1>6, <1>8
  <1>14. Edge(K, M, e, e, p, s, t, o, far)
    <2>1. M[far] = N[far]
      BY <1>1, <1>7, <1>10
    <2>2. M[t] = M[far] + (IF K[t] = "red" THEN 0 ELSE 1)
      BY <2>1, <1>2, <1>5, <1>6, <1>7, <1>10
    <2> QED BY <2>2, <1>1, <1>6, <1>8, <1>10
  <1>15. Edge(K, M, e, e, p, s, p, o, near)
    <2>1. M[near] = N[near] /\ K[near] = h.color[near]
      BY <1>1, <1>6, <1>7, <1>10, <1>11
    <2>2. M[p] = M[near] + (IF K[p] = "red" THEN 0 ELSE 1)
      BY <2>1, <1>2, <1>6, <1>7, <1>10
    <2> QED BY <2>1, <2>2, <1>1, <1>8, <1>10
  <1>16. Edge(K, M, e, e, p, s, p, s, e)
    <2>1. e \in Pointer
      BY <1>1, <1>6 DEF Pointer
    <2>2. M[e] = N[e]
      BY <2>1, <1>1, <1>7
    <2>3. M[p] = M[e] + 1 + (IF K[p] = "red" THEN 0 ELSE 1) /\ M[p] \in Nat /\ M[e] \in Nat
      BY <2>2, <1>2, <1>6, <1>7
    <2> QED BY <2>3, <1>1, <1>6, ShortEdgeIs
  <1>17. h.root # p /\ K[h.root] = "red" => h.root = e
    <2>1. h.root # Null /\ h.root \in Node
      BY <1>1, ReachFacts
    <2> QED BY <2>1, <1>1, <1>6
  <1>18. TurnEdges(h, s, p, o, t, near, K, M, e, e, p, s)
    <2>1. t # Null /\ K[t] # "red"
      BY <1>1, <1>6
    <2> QED BY <2>1, <1>1, <1>9, <1>12, <1>13, <1>14, <1>15, <1>16, <1>17 DEF TurnEdges
  <1>19. Colored(f, M, e, e, p, s)
    BY <1>1, <1>6, <1>7, <1>18, <1>K, RotatedColors
  <1>20. /\ f \in Heap /\ f.color = K /\ f.root \in {t, h.root} /\ f[s][p] = e /\ f[o][p] = near
    <2>q. PICK q : q = h.parent[p]
      OBVIOUS
    <2>1. SameShape(h, k) /\ p \in Node /\ TurnCast(h, s, p, o, t, near, q)
      BY <2>q, <1>1, <1>6 DEF TurnCast
    <2>2. /\ f \in Heap /\ f.color = K /\ f.root = (IF q = Null THEN t ELSE h.root)
          /\ \A m \in Node : f[s][m] = IF m = t THEN p
                                       ELSE IF m = q /\ h[s][q] = p THEN t ELSE h[s][m]
          /\ \A m \in Node : f[o][m] = IF m = p THEN near
                                       ELSE IF m = q /\ h[o][q] = p THEN t ELSE h[o][m]
      <3>1. /\ h \in Heap /\ SameShape(h, k) /\ s \in Side /\ p \in Node
            /\ TurnCast(h, s, p, o, t, near, q) /\ RotatedBy(k, s, p, f)
        BY <1>1, <2>1
      <3> QED BY ONLY <3>1, <1>K, TurnIs, SMTT(60)
    <2>3. p \in Node /\ p # t /\ p # q
      BY <2>q, <1>1
    <2> QED BY <2>2, <2>3, <1>1
  <1>21. ~Red(f, e) /\ ~Red(f, near)
    <2>1. e # Null => K[e] = h.color[e]
      BY <1>1, <1>6
    <2>2. K[near] # "red"
      BY <1>1, <1>6, <1>10, <1>11
    <2> QED BY <2>1, <2>2, <1>20 DEF Red
  <1>22. ChildSide(f, p, e) = s
    <2>1. f \in Heap /\ p \in Node /\ s \in Side /\ f[s][p] = e /\ f[Other[s]][p] # e
      BY <1>1, <1>11, <1>20
    <2> QED BY ONLY <2>1, ShortSide, SMTT(60)
  <1> QED
    BY <1>1, <1>19, <1>20, <1>21, <1>22

\* A tree in RB_REMOVE_COLOR: e is one black element short, unless it is the root.
Lacking(h, e, p) ==
    IF e = h.root THEN \E N : Colored(h, N, e, e, Null, "left")
    ELSE /\ p \in Reach(h) /\ h[ChildSide(h, p, e)][p] = e
         /\ \E N : Colored(h, N, e, e, p, ChildSide(h, p, e))

\* The black heights where the elements of a set have got one less
Lowered(N, S) == [x \in Pointer |-> IF x \in S THEN N[x] - 1 ELSE N[x]]

\* What Lowered is
LEMMA LoweredIs ==
    ASSUME NEW N \in Heights, NEW S \in SUBSET Node, N[Null] = 0, \A x \in S : N[x] >= 1
    PROVE  /\ Lowered(N, S) \in Heights /\ Lowered(N, S)[Null] = 0
           /\ \A x \in Pointer : x \in S => Lowered(N, S)[x] = N[x] - 1
           /\ \A x \in Pointer : x \notin S => Lowered(N, S)[x] = N[x]
  <1>1. Null \in Pointer /\ Null \notin S
    BY NodeFacts DEF Pointer
  <1>2. \A x \in Pointer : Lowered(N, S)[x] = IF x \in S THEN N[x] - 1 ELSE N[x]
    BY DEF Lowered
  <1>3. \A x \in Pointer : N[x] \in Nat
    BY DEF Heights
  <1>4. Lowered(N, S) \in Heights
    BY <1>3 DEF Lowered, Heights
  <1> QED
    BY <1>1, <1>2, <1>4

\* One element becomes red.
OneRed(h, t, f) ==
    /\ SameShape(h, f)
    /\ \A i \in Node : f.color[i] = IF i = t THEN "red" ELSE h.color[i]

\* With two black nephews the sibling turns red, and the parent is short.
LEMMA BlackNephewsColors ==
    ASSUME NEW h, RightTree(h), NEW p \in Reach(h), NEW e, ~Red(h, e), e # h.root,
           NEW s, NEW o, NEW t, NEW near, NEW far, RemoveCorner(h, e, p, s, o, t, near, far),
           NEW N, Colored(h, N, e, e, p, s), ~Red(h, t), ~Red(h, near), ~Red(h, far),
           NEW f, OneRed(h, t, f), NEW q, q = h.parent[p]
    PROVE  Lacking(f, p, q)
  <1>1. /\ h \in Heap /\ Reach(h) \in SUBSET Node /\ Null \notin Reach(h)
        /\ p \in Reach(h) /\ t \in Reach(h) /\ {e, near, far} \subseteq Reach(h) \cup {Null}
        /\ s \in Side /\ o \in Side /\ s # o /\ Side = {s, o}
        /\ h[s][p] = e /\ h[o][p] = t /\ h[s][t] = near /\ h[o][t] = far
        /\ e # p /\ t # p /\ t # e /\ near # p /\ near # t /\ far # p /\ far # t
        /\ h.root # t /\ h.color[h.root] # "red"
    BY RemoveScene
  <1>1a. q # p /\ q # t
    BY RemoveScene
  <1>2. /\ N \in Heights /\ N[Null] = 0 /\ N[p] \in Nat /\ N[e] \in Nat /\ N[t] \in Nat
        /\ N[p] = N[e] + 1 + (IF h.color[p] = "red" THEN 0 ELSE 1)
        /\ N[t] = N[e] + 1 /\ N[p] = N[t] + (IF h.color[p] = "red" THEN 0 ELSE 1)
    BY RemoveScene
  <1>3. \A n \in Reach(h), y \in Side : (h[y][n] = p => n = q) /\ (h[y][n] = t => n = p)
    BY RemoveScene
  <1>4. ASSUME NEW n \in Reach(h), NEW y \in Side, NEW d, d = h[y][n]
        PROVE  /\ ~(h.color[n] = "red" /\ d # Null /\ h.color[d] = "red")
               /\ N[n] \in Nat /\ N[d] \in Nat /\ n \in Node /\ n # Null /\ d \in Pointer
               /\ h.color[n] \in Shade
               /\ n # p \/ y # s => N[n] = N[d] + (IF h.color[n] = "red" THEN 0 ELSE 1)
    <2>1. /\ h \in Heap /\ Colored(h, N, e, e, p, s) /\ ~Red(h, e)
          /\ n \in Reach(h) /\ y \in Side /\ d = h[y][n]
      BY <1>1, <1>4
    <2> QED BY ONLY <2>1, PlainEdge
  <1>K. PICK K : K = f.color
    OBVIOUS
  <1>M. PICK M : M = Lowered(N, {p, t})
    OBVIOUS
  <1>6. /\ \A i \in Node : i # t => K[i] = h.color[i]
        /\ K[t] = "red" /\ SameShape(h, f)
        /\ \A n \in Reach(h) : n \in Node /\ n \in Pointer /\ K[n] \in Shade
    <2>1. SameShape(h, f) /\ \A i \in Node : K[i] = IF i = t THEN "red" ELSE h.color[i]
      BY <1>K DEF OneRed
    <2>2. \A n \in Reach(h) : n \in Node /\ n \in Pointer
      BY <1>1 DEF Pointer
    <2>3. \A n \in Reach(h) : h.color[n] \in Shade
      BY <1>1, <1>4
    <2> QED BY <2>1, <2>2, <2>3, <1>1 DEF Shade
  <1>7. /\ M \in Heights /\ M[Null] = 0
        /\ \A x \in Pointer : x = p \/ x = t => M[x] = N[x] - 1
        /\ \A x \in Pointer : x # p /\ x # t => M[x] = N[x]
    <2>1. {p, t} \in SUBSET Node /\ N \in Heights /\ N[Null] = 0
      BY <1>1, <1>2
    <2>2. N[p] >= 1 /\ N[t] >= 1
      BY <1>2
    <2> QED BY <2>1, <2>2, <1>M, LoweredIs
  <1>c. PICK z : z = IF p = h.root THEN "left" ELSE ChildSide(h, q, p)
    OBVIOUS
  <1>b. PICK b : b = IF p = h.root THEN Null ELSE q
    OBVIOUS
  <1>8. p # h.root => q \in Reach(h) /\ ChildSide(h, q, p) \in Side /\ h[ChildSide(h, q, p)][q] = p
    <2> SUFFICES ASSUME p # h.root PROVE q \in Reach(h) /\ ChildSide(h, q, p) \in Side /\ h[ChildSide(h, q, p)][q] = p
      OBVIOUS
    <2>1. q \in Reach(h) /\ \E y \in Side : h[y][q] = p
      BY Links
    <2> QED BY <2>1, <1>1, HeapFacts DEF ChildSide, Side
  <1>9. ASSUME NEW n \in Reach(h), NEW y \in Side, h[y][n] = p PROVE n = b /\ y = z /\ n = q /\ p # h.root
    <2>1. n = q
      BY <1>3, <1>9
    <2>2. p # h.root
      <3>1. h.parent[p] = n
        BY <1>9, Links
      <3> QED BY <3>1, <1>1, Links
    <2>3. y = ChildSide(h, q, p)
      <3>1. h[y][n] # h[Other[y]][n]
        BY <1>1, <1>9, NotBelowChild DEF RightTree
      <3> QED BY <3>1, <2>1, <1>1, <1>9, ShortSide
    <2> QED BY <2>1, <2>2, <2>3, <1>b, <1>c
  <1>10. ASSUME NEW n \in Reach(h), NEW y \in Side, h[y][n] # p PROVE n # b \/ y # z
    <2>1. CASE p = h.root
      BY <2>1, <1>1, <1>b
    <2>2. CASE p # h.root
      BY <2>2, <1>8, <1>10, <1>b, <1>c
    <2> QED BY <2>1, <2>2
  <1>11. ASSUME NEW n \in Reach(h), NEW y \in Side
         PROVE  Edge(K, M, p, p, b, z, n, y, h[y][n])
    <2>d. PICK d : d = h[y][n]
      OBVIOUS
    <2>1. /\ ~(h.color[n] = "red" /\ d # Null /\ h.color[d] = "red")
          /\ N[n] \in Nat /\ N[d] \in Nat /\ n \in Node /\ n # Null /\ n \in Pointer /\ d \in Pointer
          /\ h.color[n] \in Shade
          /\ n # p \/ y # s => N[n] = N[d] + (IF h.color[n] = "red" THEN 0 ELSE 1)
      BY <1>4, <1>6, <2>d
    <2>2. K[n] \in Shade /\ M[n] \in Nat /\ M[d] \in Nat
      BY <2>1, <1>6, <1>7 DEF Heights
    <2>3. CASE n = t
      <3>1. d = near \/ d = far
        BY <2>3, <2>d, <1>1
      <3>2. d # p /\ d # t /\ (d # Null => h.color[d] # "red")
        BY <3>1, <1>1 DEF Red
      <3>3. M[n] = N[n] - 1 /\ M[d] = N[d] /\ K[n] = "red" /\ (d # Null => K[d] # "red")
        BY <3>2, <2>1, <2>3, <1>6, <1>7 DEF Pointer
      <3>4. h.color[n] # "red" /\ n # p
        BY <2>3, <1>1 DEF Red
      <3>5. M[n] = M[d] + 0
        BY ONLY <3>3, <3>4, <2>1
      <3>6. n # b \/ y # z
        BY <3>2, <2>d, <1>10
      <3> QED BY <3>3, <3>5, <3>6, <2>2, <2>d, EdgeIs
    <2>4. CASE n = p /\ y = s
      <3>1. d = e /\ d # p /\ d # t
        BY <2>4, <2>d, <1>1
      <3>2. M[n] = N[n] - 1 /\ M[d] = N[d] /\ K[n] = h.color[n]
        BY <3>1, <2>1, <2>4, <1>1, <1>6, <1>7
      <3>3. M[n] = M[d] + (IF K[n] = "red" THEN 0 ELSE 1)
        BY <3>1, <3>2, <2>4, <1>2
      <3>4. n # b \/ y # z
        BY <3>1, <2>d, <1>10
      <3> QED BY <3>3, <3>4, <2>2, <2>4, <2>d, EdgeIs
    <2>5. CASE n = p /\ y # s
      <3>1. d = t /\ d # p
        BY <2>5, <2>d, <1>1
      <3>2. M[n] = N[n] - 1 /\ M[d] = N[d] - 1 /\ K[n] = h.color[n]
        BY <3>1, <2>1, <2>5, <1>1, <1>6, <1>7
      <3>3. M[n] = M[d] + (IF K[n] = "red" THEN 0 ELSE 1)
        BY <3>1, <3>2, <2>5, <1>2
      <3>4. n # b \/ y # z
        BY <3>1, <2>d, <1>10
      <3> QED BY <3>3, <3>4, <2>2, <2>5, <2>d, EdgeIs
    <2>6. CASE n # p /\ n # t /\ d = p
      <3>1. n = b /\ y = z
        BY <2>6, <2>d, <1>9
      <3>2. M[n] = N[n] /\ M[d] = N[d] - 1 /\ K[n] = h.color[n]
        BY <2>1, <2>6, <1>6, <1>7
      <3>3. M[n] = M[d] + 1 + (IF K[n] = "red" THEN 0 ELSE 1)
        BY <3>2, <2>1, <2>6
      <3>4. Edge(K, M, p, p, n, y, n, y, d)
        BY <3>3, <2>2, <2>6, ShortEdgeIs
      <3> QED BY <3>1, <3>4, <2>d
    <2>7. CASE n # p /\ n # t /\ d # p
      <3>1. d # t
        BY <2>7, <2>d, <1>3
      <3>2. M[n] = N[n] /\ M[d] = N[d] /\ K[n] = h.color[n] /\ (d # Null => K[d] = h.color[d])
        BY <3>1, <2>1, <2>7, <1>6, <1>7 DEF Pointer
      <3>3. n # b \/ y # z
        BY <2>7, <2>d, <1>10
      <3>4. M[n] = M[d] + (IF K[n] = "red" THEN 0 ELSE 1)
        BY <3>2, <2>1, <2>7
      <3> QED BY <3>2, <3>3, <3>4, <2>1, <2>2, <2>d, EdgeIs
    <2> QED BY <2>3, <2>4, <2>5, <2>6, <2>7
  <1>12. h.root # Null /\ K[h.root] = "red" => h.root = p
    <2>1. h.root # Null => h.root \in Node
      BY <1>1, HeapFacts DEF Pointer
    <2> QED BY <2>1, <1>1, <1>6
  <1>13. Colored(f, M, p, p, b, z)
    BY <1>1, <1>6, <1>7, <1>11, <1>12, <1>K, ShapeColors
  <1>14. f.root = h.root /\ Reach(f) = Reach(h) /\ f.left = h.left /\ \A y \in Side : f[y] = h[y]
    BY <1>1, <1>6, ShapeKept DEF SameShape
  <1>15. CASE p = h.root
    <2>1. b = Null /\ z = "left" /\ p = f.root
      BY <1>14, <1>15, <1>b, <1>c
    <2>2. Colored(f, M, p, p, Null, "left")
      BY <2>1, <1>13
    <2> QED BY <2>1, <2>2 DEF Lacking
  <1>16. CASE p # h.root
    <2>1. b = q /\ z = ChildSide(h, q, p) /\ p # f.root
      BY <1>14, <1>16, <1>b, <1>c
    <2>2. ChildSide(f, q, p) = ChildSide(h, q, p)
      BY <1>14 DEF ChildSide
    <2>3. q \in Reach(f) /\ f[ChildSide(f, q, p)][q] = p
      BY <2>2, <1>8, <1>14, <1>16
    <2>4. Colored(f, M, p, p, q, ChildSide(f, q, p))
      BY <2>1, <2>2, <1>13
    <2> QED BY <2>1, <2>3, <2>4 DEF Lacking
  <1> QED
    BY <1>15, <1>16

\* A red nephew on the near side comes up.
LEMMA NearNephewColors ==
    ASSUME NEW h, RightTree(h), NEW p \in Reach(h), NEW e, ~Red(h, e), e # h.root,
           NEW s, NEW o, NEW t, NEW near, NEW far, RemoveCorner(h, e, p, s, o, t, near, far),
           NEW N, Colored(h, N, e, e, p, s), ~Red(h, t), Red(h, near), ~Red(h, far),
           NEW k, Swapped(h, near, t, k), NEW f, RotatedBy(k, o, t, f), Reach(f) = Reach(h)
    PROVE  /\ f.root # e /\ ~Red(f, e) /\ ~Red(f, f[o][p])
           /\ ChildSide(f, p, e) = s /\ f[s][p] = e
           /\ \E M : Colored(f, M, e, e, p, s)
  <1>1. /\ h \in Heap /\ Reach(h) \in SUBSET Node /\ Null \notin Reach(h)
        /\ p \in Reach(h) /\ t \in Reach(h) /\ {e, near, far} \subseteq Reach(h) \cup {Null}
        /\ s \in Side /\ o \in Side /\ s # o /\ Side = {s, o} /\ o = Other[s] /\ s = Other[o]
        /\ h[s][p] = e /\ h[o][p] = t /\ h[s][t] = near /\ h[o][t] = far
        /\ e # p /\ t # p /\ t # e /\ near # p /\ near # t /\ far # p /\ far # t
        /\ (near # Null => near # far /\ near # e)
        /\ h.root # t /\ h.color[h.root] # "red"
        /\ (near # Null => h.root # near)
    BY RemoveScene
  <1>2. /\ N \in Heights /\ N[Null] = 0 /\ N[p] \in Nat /\ N[e] \in Nat /\ N[t] \in Nat
        /\ N[t] = N[e] + 1 /\ N[p] = N[t] + (IF h.color[p] = "red" THEN 0 ELSE 1)
    BY RemoveScene
  <1>3. \A n \in Reach(h), y \in Side : /\ h[y][n] = t => n = p
                                        /\ h[y][n] = near /\ near # Null => n = t
    BY RemoveScene
  <1>4. ASSUME NEW n \in Reach(h), NEW y \in Side, NEW d, d = h[y][n]
        PROVE  /\ ~(h.color[n] = "red" /\ d # Null /\ h.color[d] = "red")
               /\ N[n] \in Nat /\ N[d] \in Nat /\ n \in Node /\ n # Null /\ d \in Pointer
               /\ h.color[n] \in Shade
               /\ n # p \/ y # s => N[n] = N[d] + (IF h.color[n] = "red" THEN 0 ELSE 1)
               /\ n = p /\ y = s => N[n] = N[d] + 1 + (IF h.color[n] = "red" THEN 0 ELSE 1)
    <2>1. /\ h \in Heap /\ Colored(h, N, e, e, p, s) /\ ~Red(h, e)
          /\ n \in Reach(h) /\ y \in Side /\ d = h[y][n]
      BY <1>1, <1>4
    <2> QED BY ONLY <2>1, PlainEdge
  <1>5. near # Null /\ near \in Reach(h) /\ h.color[near] = "red" /\ h.color[t] # "red"
        /\ (far # Null => h.color[far] # "red")
    BY <1>1 DEF Red
  <1>c. PICK c : c = h[o][near]
    OBVIOUS
  <1>K. PICK K : K = k.color
    OBVIOUS
  <1>M. PICK M : M = Exchanged(N, near, t)
    OBVIOUS
  <1>6. /\ \A i \in Node : i # near /\ i # t => K[i] = h.color[i]
        /\ K[near] = "black" /\ K[t] = "red" /\ SameShape(h, k)
        /\ \A n \in Reach(h) : n \in Node /\ n \in Pointer /\ K[n] \in Shade
    <2>1. SameShape(h, k) /\ \A i \in Node : K[i] = IF i = t THEN "red"
                                                    ELSE IF i = near THEN "black" ELSE h.color[i]
      BY <1>K DEF Swapped
    <2>2. \A n \in Reach(h) : n \in Node /\ n \in Pointer
      BY <1>1 DEF Pointer
    <2>3. \A n \in Reach(h) : h.color[n] \in Shade
      BY <1>1, <1>4
    <2> QED BY <2>1, <2>2, <2>3, <1>1, <1>5 DEF Shade
  <1>7. /\ M \in Heights /\ M[Null] = 0 /\ M[near] = N[t] /\ M[t] = N[near]
        /\ \A x \in Pointer : x # near /\ x # t => M[x] = N[x]
    <2>1. near \in Node /\ t \in Node /\ near # t /\ N \in Heights /\ N[Null] = 0
      BY <1>1, <1>2, <1>5
    <2> QED BY <2>1, <1>M, ExchangedIs
  <1>8. ASSUME NEW n \in Reach(h), NEW y \in Side, NEW d, d \in Pointer, n # p \/ y # s,
               M[n] = M[d] + (IF K[n] = "red" THEN 0 ELSE 1),
               ~(K[n] = "red" /\ d # Null /\ K[d] = "red")
        PROVE  Edge(K, M, e, e, p, s, n, y, d)
    <2>1. K[n] \in Shade /\ M[n] \in Nat /\ M[d] \in Nat
      BY <1>6, <1>7, <1>8 DEF Heights
    <2> QED BY <2>1, <1>8, EdgeIs
  <1>9. ASSUME NEW n \in Reach(h), NEW y \in Side, n # t /\ n # near /\ h[y][n] # t
        PROVE  Edge(K, M, e, e, p, s, n, y, h[y][n])
    <2>d. PICK d : d = h[y][n]
      OBVIOUS
    <2>1. /\ d \in Pointer /\ N[n] \in Nat /\ N[d] \in Nat
          /\ n # p \/ y # s => N[n] = N[d] + (IF h.color[n] = "red" THEN 0 ELSE 1)
          /\ n = p /\ y = s => N[n] = N[d] + 1 + (IF h.color[n] = "red" THEN 0 ELSE 1)
          /\ ~(h.color[n] = "red" /\ d # Null /\ h.color[d] = "red")
      BY <1>4, <2>d
    <2>2. d # near /\ d # t
      BY <1>3, <1>5, <1>9, <2>d
    <2>3. M[n] = N[n] /\ M[d] = N[d] /\ K[n] = h.color[n] /\ (d # Null => K[d] = h.color[d])
      BY <2>1, <2>2, <1>6, <1>7, <1>9 DEF Pointer
    <2>4. CASE n # p \/ y # s
      BY <2>1, <2>3, <2>4, <2>d, <1>8, <1>9
    <2>5. CASE n = p /\ y = s
      <3>1. M[n] = M[d] + 1 + (IF K[n] = "red" THEN 0 ELSE 1)
        BY <2>1, <2>3, <2>5
      <3>2. K[n] \in Shade /\ M[n] \in Nat /\ M[d] \in Nat
        BY <2>1, <2>3, <1>6
      <3>3. Edge(K, M, e, e, n, y, n, y, d)
        BY <3>1, <3>2, <2>1, <2>3, ShortEdgeIs
      <3> QED BY <3>3, <2>5, <2>d
    <2> QED BY <2>4, <2>5
  <1>10. /\ N[t] = N[near] + 1 /\ N[t] = N[far] + 1 /\ near \in Pointer /\ far \in Pointer
         /\ N[near] \in Nat /\ N[far] \in Nat
    <2>1. /\ t # p \/ s # s => N[t] = N[near] + (IF h.color[t] = "red" THEN 0 ELSE 1)
          /\ N[near] \in Nat /\ near \in Pointer
      BY <1>1, <1>4
    <2>2. /\ t # p \/ o # s => N[t] = N[far] + (IF h.color[t] = "red" THEN 0 ELSE 1)
          /\ N[far] \in Nat /\ far \in Pointer
      BY <1>1, <1>4
    <2> QED BY <2>1, <2>2, <1>1, <1>5
  <1>11. ASSUME NEW y \in Side, NEW d, d = h[y][near]
         PROVE  /\ N[near] = N[d] /\ d \in Pointer /\ N[d] \in Nat /\ d # near /\ d # t
                /\ (d # Null => h.color[d] # "red")
    <2>1. /\ near # p \/ y # s => N[near] = N[d] + (IF h.color[near] = "red" THEN 0 ELSE 1)
          /\ N[d] \in Nat /\ d \in Pointer
          /\ ~(h.color[near] = "red" /\ d # Null /\ h.color[d] = "red")
      BY <1>4, <1>5, <1>11
    <2>2. d # t
      BY <1>1, <1>3, <1>5, <1>11
    <2>3. d # near
      BY <1>1, <1>3, <1>5, <1>11
    <2> QED BY <2>1, <2>2, <2>3, <1>1, <1>5, <1>10
  <1>12. ASSUME NEW n \in Reach(h), NEW y \in Side, h[y][n] = t
         PROVE  Edge(K, M, e, e, p, s, n, y, near)
    <2>1. n = p /\ y # s
      BY <1>1, <1>3, <1>12
    <2>2. M[p] = N[p] /\ K[p] = h.color[p]
      BY <1>1, <1>6, <1>7
    <2>3. M[p] = M[near] + (IF K[p] = "red" THEN 0 ELSE 1)
      BY <2>2, <1>2, <1>7
    <2> QED BY <2>1, <2>3, <1>6, <1>8, <1>10
  <1>13. Edge(K, M, e, e, p, s, near, o, t)
    <2>1. M[near] = M[t] + (IF K[near] = "red" THEN 0 ELSE 1) /\ t \in Pointer
      BY <1>1, <1>6, <1>7, <1>10
    <2> QED BY <2>1, <1>1, <1>5, <1>6, <1>8
  <1>14. Edge(K, M, e, e, p, s, near, s, h[s][near])
    <2>d. PICK d : d = h[s][near]
      OBVIOUS
    <2>1. /\ N[near] = N[d] /\ d \in Pointer /\ N[d] \in Nat /\ d # near /\ d # t
      BY <2>d, <1>1, <1>11
    <2>2. M[near] = M[d] + (IF K[near] = "red" THEN 0 ELSE 1)
      BY <2>1, <1>6, <1>7, <1>10
    <2> QED BY <2>1, <2>2, <2>d, <1>1, <1>5, <1>6, <1>8
  <1>15. Edge(K, M, e, e, p, s, t, s, c)
    <2>1. /\ N[near] = N[c] /\ c \in Pointer /\ N[c] \in Nat /\ c # near /\ c # t
          /\ (c # Null => h.color[c] # "red")
      BY <1>c, <1>1, <1>11
    <2>2. M[t] = M[c] + (IF K[t] = "red" THEN 0 ELSE 1)
      BY <2>1, <1>6, <1>7, <1>10
    <2>3. c # Null => K[c] # "red"
      BY <2>1, <1>6 DEF Pointer
    <2> QED BY <2>1, <2>2, <2>3, <1>1, <1>8
  <1>16. Edge(K, M, e, e, p, s, t, o, far)
    <2>1. far # near
      BY <1>1, <1>5
    <2>2. M[t] = M[far] + (IF K[t] = "red" THEN 0 ELSE 1)
      BY <2>1, <1>1, <1>6, <1>7, <1>10
    <2>3. far # Null => K[far] # "red"
      BY <2>1, <1>1, <1>5, <1>6, <1>10 DEF Pointer
    <2> QED BY <2>2, <2>3, <1>1, <1>8, <1>10
  <1>17. h.root # t /\ K[h.root] # "red"
    <2>1. h.root # Null /\ h.root \in Node
      BY <1>1, ReachFacts
    <2> QED BY <2>1, <1>1, <1>5, <1>6
  <1>18. TurnEdges(h, o, t, s, near, c, K, M, e, e, p, s)
    BY <1>1, <1>5, <1>9, <1>12, <1>13, <1>14, <1>15, <1>16, <1>17, <1>c DEF TurnEdges
  <1>19. Colored(f, M, e, e, p, s)
    BY <1>1, <1>6, <1>7, <1>18, <1>K, RotatedColors
  <1>20. /\ f \in Heap /\ f.color = K /\ f.root \in {near, h.root} /\ f[s][p] = e /\ f[o][p] = near
    <2>q. PICK q : q = h.parent[t]
      OBVIOUS
    <2>1. SameShape(h, k) /\ t \in Node /\ TurnCast(h, o, t, s, near, c, q)
      BY <2>q, <1>1, <1>6, <1>c DEF TurnCast
    <2>2. /\ f \in Heap /\ f.color = K /\ f.root = (IF q = Null THEN near ELSE h.root)
          /\ \A m \in Node : f[o][m] = IF m = near THEN t
                                       ELSE IF m = q /\ h[o][q] = t THEN near ELSE h[o][m]
          /\ \A m \in Node : f[s][m] = IF m = t THEN c
                                       ELSE IF m = q /\ h[s][q] = t THEN near ELSE h[s][m]
      <3>1. /\ h \in Heap /\ SameShape(h, k) /\ o \in Side /\ t \in Node
            /\ TurnCast(h, o, t, s, near, c, q) /\ RotatedBy(k, o, t, f)
        BY <1>1, <2>1
      <3> QED BY ONLY <3>1, <1>K, TurnIs, SMTT(60)
    <2>3. q = p /\ p \in Node
      <3>1. RightTree(h) /\ p \in Reach(h) /\ t \in Reach(h) /\ o \in Side /\ h[o][p] = t
        BY <1>1
      <3> QED BY ONLY <3>1, <2>q, Links
    <2> QED BY <2>2, <2>3, <1>1
  <1>21. ~Red(f, e) /\ ~Red(f, near)
    <2>1. e # Null => K[e] = h.color[e]
      BY <1>1, <1>5, <1>6
    <2> QED BY <2>1, <1>6, <1>20 DEF Red
  <1>22. ChildSide(f, p, e) = s
    <2>1. f \in Heap /\ p \in Node /\ s \in Side /\ f[s][p] = e /\ f[Other[s]][p] # e
      BY <1>1, <1>5, <1>20
    <2> QED BY ONLY <2>1, ShortSide, SMTT(60)
  <1> QED
    BY <1>1, <1>5, <1>19, <1>20, <1>21, <1>22

\* The colors before the last turn
FarTurn(h, p, t, far, k) ==
    /\ SameShape(h, k)
    /\ \A i \in Node : k.color[i] = IF i = far \/ i = p THEN "black"
                                    ELSE IF i = t THEN h.color[p] ELSE h.color[i]

\* With a red nephew on the far side nothing is short any more.
LEMMA FarNephewColors ==
    ASSUME NEW h, RightTree(h), NEW p \in Reach(h), NEW e, ~Red(h, e), e # h.root,
           NEW s, NEW o, NEW t, NEW near, NEW far, RemoveCorner(h, e, p, s, o, t, near, far),
           NEW N, Colored(h, N, e, e, p, s), ~Red(h, t), Red(h, far),
           NEW k, FarTurn(h, p, t, far, k), NEW f, RotatedBy(k, s, p, f), Reach(f) = Reach(h)
    PROVE  \E M : Colored(f, M, Null, Null, Null, "left")
  <1>1. /\ h \in Heap /\ Reach(h) \in SUBSET Node /\ Null \notin Reach(h)
        /\ p \in Reach(h) /\ t \in Reach(h) /\ {e, near, far} \subseteq Reach(h) \cup {Null}
        /\ s \in Side /\ o \in Side /\ s # o /\ Side = {s, o} /\ o = Other[s] /\ s = Other[o]
        /\ h[s][p] = e /\ h[o][p] = t /\ h[s][t] = near /\ h[o][t] = far
        /\ e # p /\ t # p /\ t # e /\ near # p /\ near # t /\ far # p /\ far # t
        /\ (near # Null => near # far /\ near # e) /\ (far # Null => far # e)
        /\ h.root # t /\ h.color[h.root] # "red"
        /\ (far # Null => h.root # far)
        /\ h.parent[p] # p /\ h.parent[p] # t /\ (far # Null => h.parent[p] # far)
    BY RemoveScene
  <1>2. /\ N \in Heights /\ N[Null] = 0 /\ N[p] \in Nat /\ N[e] \in Nat /\ N[t] \in Nat
        /\ N[t] = N[e] + 1 /\ N[p] = N[t] + (IF h.color[p] = "red" THEN 0 ELSE 1)
    BY RemoveScene
  <1>3. \A n \in Reach(h), y \in Side : /\ h[y][n] = p => n = h.parent[p]
                                        /\ h[y][n] = t => n = p
                                        /\ h[y][n] = far /\ far # Null => n = t
    BY RemoveScene
  <1>4. ASSUME NEW n \in Reach(h), NEW y \in Side, NEW d, d = h[y][n]
        PROVE  /\ ~(h.color[n] = "red" /\ d # Null /\ h.color[d] = "red")
               /\ N[n] \in Nat /\ N[d] \in Nat /\ n \in Node /\ n # Null /\ d \in Pointer
               /\ h.color[n] \in Shade
               /\ n # p \/ y # s => N[n] = N[d] + (IF h.color[n] = "red" THEN 0 ELSE 1)
    <2>1. /\ h \in Heap /\ Colored(h, N, e, e, p, s) /\ ~Red(h, e)
          /\ n \in Reach(h) /\ y \in Side /\ d = h[y][n]
      BY <1>1, <1>4
    <2> QED BY ONLY <2>1, PlainEdge
  <1>5. far # Null /\ far \in Reach(h) /\ h.color[far] = "red" /\ h.color[t] # "red"
    BY <1>1 DEF Red
  <1>K. PICK K : K = k.color
    OBVIOUS
  <1>L. PICK L : L = Exchanged(N, p, t)
    OBVIOUS
  <1>M. PICK M : M = Raised(L, {far})
    OBVIOUS
  <1>6. /\ \A i \in Node : i # far /\ i # p /\ i # t => K[i] = h.color[i]
        /\ K[far] = "black" /\ K[p] = "black" /\ K[t] = h.color[p] /\ SameShape(h, k)
        /\ \A n \in Reach(h) : n \in Node /\ n \in Pointer /\ K[n] \in Shade
    <2>1. SameShape(h, k) /\ \A i \in Node : K[i] = IF i = far \/ i = p THEN "black"
                                                    ELSE IF i = t THEN h.color[p] ELSE h.color[i]
      BY <1>K DEF FarTurn
    <2>2. \A n \in Reach(h) : n \in Node /\ n \in Pointer
      BY <1>1 DEF Pointer
    <2>3. \A n \in Reach(h) : h.color[n] \in Shade
      BY <1>1, <1>4
    <2> QED BY <2>1, <2>2, <2>3, <1>1, <1>5 DEF Shade
  <1>7. /\ M \in Heights /\ M[Null] = 0 /\ M[p] = N[t] /\ M[t] = N[p] /\ M[far] = N[far] + 1
        /\ \A x \in Pointer : x # p /\ x # t /\ x # far => M[x] = N[x]
    <2>1. p \in Node /\ t \in Node /\ p # t /\ N \in Heights /\ N[Null] = 0
      BY <1>1, <1>2
    <2>2. /\ L \in Heights /\ L[Null] = 0 /\ L[p] = N[t] /\ L[t] = N[p]
          /\ \A x \in Pointer : x # p /\ x # t => L[x] = N[x]
      BY <2>1, <1>L, ExchangedIs
    <2>3. {far} \in SUBSET Node
      BY <1>1, <1>5
    <2>4. /\ M \in Heights /\ M[Null] = 0
          /\ \A x \in Pointer : x = far => M[x] = L[x] + 1
          /\ \A x \in Pointer : x # far => M[x] = L[x]
      BY <2>2, <2>3, <1>M, RaisedIs
    <2>5. p \in Pointer /\ t \in Pointer /\ far \in Pointer
      BY <1>5, <1>6, <1>1
    <2> QED BY <2>2, <2>4, <2>5, <1>1
  <1>8. ASSUME NEW n \in Reach(h), NEW y \in Side, NEW d, d \in Pointer,
               M[n] = M[d] + (IF K[n] = "red" THEN 0 ELSE 1),
               ~(K[n] = "red" /\ d # Null /\ K[d] = "red")
        PROVE  Edge(K, M, Null, Null, Null, "left", n, y, d)
    <2>1. K[n] \in Shade /\ M[n] \in Nat /\ M[d] \in Nat /\ n # Null
      BY <1>1, <1>6, <1>7, <1>8 DEF Heights
    <2> QED BY <2>1, <1>8, EdgeIs
  <1>9. ASSUME NEW n \in Reach(h), NEW y \in Side, n # p /\ n # t /\ h[y][n] # p
        PROVE  Edge(K, M, Null, Null, Null, "left", n, y, h[y][n])
    <2>d. PICK d : d = h[y][n]
      OBVIOUS
    <2>1. /\ N[n] = N[d] + (IF h.color[n] = "red" THEN 0 ELSE 1) /\ d \in Pointer
          /\ ~(h.color[n] = "red" /\ d # Null /\ h.color[d] = "red") /\ N[n] \in Nat /\ N[d] \in Nat
      BY <1>4, <1>9, <2>d
    <2>2. d # p /\ d # t /\ d # far
      BY <1>3, <1>5, <1>9, <2>d
    <2>3. M[d] = N[d] /\ (d # Null => K[d] = h.color[d])
      BY <2>1, <2>2, <1>6, <1>7 DEF Pointer
    <2>4. CASE n = far
      <3>1. M[n] = M[d] + (IF K[n] = "red" THEN 0 ELSE 1) /\ K[n] # "red"
        BY <2>1, <2>3, <2>4, <1>5, <1>6, <1>7
      <3> QED BY <3>1, <2>1, <2>d, <1>8
    <2>5. CASE n # far
      <3>1. M[n] = N[n] /\ K[n] = h.color[n]
        BY <2>5, <1>6, <1>7, <1>9
      <3> QED BY <3>1, <2>1, <2>3, <2>d, <1>8
    <2> QED BY <2>4, <2>5
  <1>10. /\ N[t] = N[near] + 1 /\ N[t] = N[far] + 1 /\ near \in Pointer /\ far \in Pointer
         /\ N[near] \in Nat /\ N[far] \in Nat
    <2>1. /\ t # p \/ s # s => N[t] = N[near] + (IF h.color[t] = "red" THEN 0 ELSE 1)
          /\ N[near] \in Nat /\ near \in Pointer
      BY <1>1, <1>4
    <2>2. /\ t # p \/ o # s => N[t] = N[far] + (IF h.color[t] = "red" THEN 0 ELSE 1)
          /\ N[far] \in Nat /\ far \in Pointer
      BY <1>1, <1>4
    <2> QED BY <2>1, <2>2, <1>1, <1>5
  <1>12. ASSUME NEW n \in Reach(h), NEW y \in Side, h[y][n] = p
         PROVE  Edge(K, M, Null, Null, Null, "left", n, y, t)
    <2>1. n # p /\ n # t /\ n # far
      BY <1>1, <1>3, <1>5, <1>12
    <2>2. /\ N[n] = N[p] + (IF h.color[n] = "red" THEN 0 ELSE 1)
          /\ ~(h.color[n] = "red" /\ p # Null /\ h.color[p] = "red")
      BY <2>1, <1>4, <1>12
    <2>3. M[n] = N[n] /\ K[n] = h.color[n] /\ t \in Pointer /\ p # Null
      BY <2>1, <1>1, <1>6, <1>7
    <2>4. M[n] = M[t] + (IF K[n] = "red" THEN 0 ELSE 1)
      BY <2>2, <2>3, <1>7
    <2> QED BY <2>2, <2>3, <2>4, <1>6, <1>8
  <1>13. Edge(K, M, Null, Null, Null, "left", t, s, p)
    <2>1. M[t] = M[p] + (IF K[t] = "red" THEN 0 ELSE 1) /\ p \in Pointer
      BY <1>1, <1>2, <1>6, <1>7
    <2> QED BY <2>1, <1>1, <1>6, <1>8
  <1>14. Edge(K, M, Null, Null, Null, "left", t, o, far)
    <2>1. M[t] = M[far] + (IF K[t] = "red" THEN 0 ELSE 1)
      BY <1>2, <1>6, <1>7, <1>10
    <2> QED BY <2>1, <1>1, <1>6, <1>8, <1>10
  <1>15. Edge(K, M, Null, Null, Null, "left", p, o, near)
    <2>1. near # far
      BY <1>1, <1>5
    <2>2. M[p] = M[near] + (IF K[p] = "red" THEN 0 ELSE 1)
      BY <2>1, <1>1, <1>6, <1>7, <1>10
    <2> QED BY <2>2, <1>1, <1>6, <1>8, <1>10
  <1>16. Edge(K, M, Null, Null, Null, "left", p, s, e)
    <2>1. e \in Pointer /\ e # far
      BY <1>1, <1>5, <1>6 DEF Pointer
    <2>2. M[e] = N[e]
      BY <2>1, <1>1, <1>7
    <2>3. M[p] = M[e] + (IF K[p] = "red" THEN 0 ELSE 1)
      BY <2>2, <1>2, <1>6, <1>7
    <2> QED BY <2>1, <2>3, <1>1, <1>6, <1>8
  <1>17. h.root # p => K[h.root] # "red"
    <2>1. h.root # Null /\ h.root \in Node
      BY <1>1, ReachFacts
    <2> QED BY <2>1, <1>1, <1>5, <1>6
  <1>17a. h.root = p => K[t] # "red"
    BY <1>1, <1>6
  <1>18. TurnEdges(h, s, p, o, t, near, K, M, Null, Null, Null, "left")
    <2>1. t # Null
      BY <1>1
    <2> QED BY <2>1, <1>1, <1>9, <1>12, <1>13, <1>14, <1>15, <1>16, <1>17, <1>17a DEF TurnEdges
  <1>19. Colored(f, M, Null, Null, Null, "left")
    BY <1>1, <1>6, <1>7, <1>18, <1>K, RotatedColors
  <1> QED
    BY <1>19

\* Without exceptions there are none for any element either.
LEMMA PlainIsLacking ==
    ASSUME NEW h \in Heap, NEW N, Colored(h, N, Null, Null, Null, "left"), NEW p
    PROVE  Lacking(h, h.root, p)
  <1>r. PICK r : r = h.root
    OBVIOUS
  <1>1. ASSUME NEW n \in Reach(h), NEW y \in Side
        PROVE  Edge(h.color, N, r, r, Null, "left", n, y, h[y][n])
    <2>1. Edge(h.color, N, Null, Null, Null, "left", n, y, h[y][n])
      BY DEF Colored
    <2>2. n # Null
      BY ReachFacts, NodeFacts
    <2> QED BY <2>1, <2>2 DEF Edge
  <1>2. Colored(h, N, r, r, Null, "left")
    BY <1>1, <1>r DEF Colored
  <1> QED
    BY <1>2, <1>r DEF Lacking

\* The colors are right.
Plain(h) == \E N : Colored(h, N, Null, Null, Null, "left")

\* One element becomes black.
OneBlack(h, e, f) ==
    /\ SameShape(h, f)
    /\ \A i \in Node : f.color[i] = IF i = e THEN "black" ELSE h.color[i]

\* A red element turns black: the root, or the one at the end of the short link.
LEMMA BlackenColors ==
    ASSUME NEW h, RightTree(h), NEW e \in Reach(h), Red(h, e), NEW N, NEW b, NEW z \in Side,
           Colored(h, N, e, e, b, z), (e = h.root /\ b = Null) \/ (b \in Reach(h) /\ h[z][b] = e),
           NEW f, OneBlack(h, e, f)
    PROVE  Plain(f)
  <1>1. h \in Heap /\ IsSearchTree(h) /\ Reach(h) \in SUBSET Node /\ Null \notin Reach(h)
    BY ReachFacts, NodeFacts DEF RightTree
  <1>2. h.color[e] = "red" /\ N \in Heights /\ N[Null] = 0
    BY DEF Red, Colored
  <1>K. PICK K : K = f.color
    OBVIOUS
  <1>M. PICK M : M = Raised(N, {e})
    OBVIOUS
  <1>3. SameShape(h, f) /\ K[e] = "black" /\ \A i \in Node : i # e => K[i] = h.color[i]
    BY <1>1, <1>K DEF OneBlack
  <1>4. /\ M \in Heights /\ M[Null] = 0
        /\ \A x \in Pointer : x = e => M[x] = N[x] + 1
        /\ \A x \in Pointer : x # e => M[x] = N[x]
    <2>1. {e} \in SUBSET Node
      BY <1>1
    <2> QED BY <2>1, <1>2, <1>M, RaisedIs
  <1>5. ASSUME NEW n \in Reach(h), NEW y \in Side
        PROVE  Edge(K, M, Null, Null, Null, "left", n, y, h[y][n])
    <2>d. PICK d : d = h[y][n]
      OBVIOUS
    <2>1. /\ h.color[n] = "red" /\ d # Null /\ h.color[d] = "red" => n = e \/ d = e
          /\ N[n] \in Nat /\ N[d] \in Nat /\ n \in Node /\ n # Null /\ n \in Pointer /\ d \in Pointer
          /\ h.color[n] \in Shade
          /\ N[n] = N[d] + (IF n = b /\ y = z THEN 1 ELSE 0) + (IF h.color[n] = "red" THEN 0 ELSE 1)
      BY <1>1, <2>d, OldEdge
    <2>2. K[n] \in Shade /\ M[n] \in Nat /\ M[d] \in Nat
      BY <2>1, <1>3, <1>4 DEF Heights, Shade
    <2>3. CASE d = e
      <3>1. h.parent[e] = n /\ n # e
        BY <2>3, <2>d, Links
      <3>2. n = b
        BY <3>1, <1>1, Links
      <3>3. y = z
        <4>1. h[z][b] = e
          BY <3>2, <1>1
        <4>2. h[y][n] # h[Other[y]][n]
          BY <2>3, <2>d, <1>1, NotBelowChild
        <4> QED BY <4>1, <4>2, <3>2, <2>3, <2>d, OtherSide
      <3>4. M[n] = N[n] /\ M[d] = N[d] + 1 /\ K[n] = h.color[n] /\ K[d] = "black"
        BY <3>1, <2>1, <2>3, <1>3, <1>4
      <3>5. N[n] = N[d] + 1 + (IF h.color[n] = "red" THEN 0 ELSE 1)
        BY <2>1, <3>2, <3>3
      <3>6. M[n] = M[d] + (IF K[n] = "red" THEN 0 ELSE 1)
        BY <2>1, <3>4, <3>5
      <3> QED BY <3>4, <3>6, <2>1, <2>2, <2>d, EdgeIs
    <2>4. CASE d # e
      <3>1. n # b \/ y # z
        BY <2>1, <2>4, <2>d
      <3>2. N[n] = N[d] + (IF h.color[n] = "red" THEN 0 ELSE 1)
        BY <2>1, <3>1
      <3>3. M[d] = N[d] /\ (d # Null => K[d] = h.color[d])
        BY <2>1, <2>4, <1>3, <1>4 DEF Pointer
      <3>4. CASE n = e
        <4>1. M[n] = M[d] + (IF K[n] = "red" THEN 0 ELSE 1) /\ K[n] # "red"
          BY <3>2, <3>3, <3>4, <2>1, <1>2, <1>3, <1>4
        <4> QED BY <4>1, <2>1, <2>2, <2>d, EdgeIs
      <3>5. CASE n # e
        <4>1. M[n] = N[n] /\ K[n] = h.color[n]
          BY <3>5, <2>1, <1>3, <1>4
        <4>2. M[n] = M[d] + (IF K[n] = "red" THEN 0 ELSE 1)
          BY <4>1, <3>2, <3>3
        <4> QED BY <4>1, <4>2, <3>3, <3>5, <2>1, <2>2, <2>4, <2>d, EdgeIs
      <3> QED BY <3>4, <3>5
    <2> QED BY <2>3, <2>4
  <1>6. h.root # Null /\ K[h.root] = "red" => h.root = Null
    <2>1. h.root # Null => h.root \in Node
      BY <1>1, HeapFacts DEF Pointer
    <2>2. h.root # Null /\ h.color[h.root] = "red" => h.root = e
      BY DEF Colored, Red
    <2> QED BY <2>1, <2>2, <1>3
  <1>7. Colored(f, M, Null, Null, Null, "left")
    BY <1>1, <1>3, <1>4, <1>5, <1>6, <1>K, ShapeColors
  <1> QED
    BY <1>7 DEF Plain

\* Where the colors stay as they are, the exceptions that are none can go.
LEMMA SettledColors ==
    ASSUME NEW h, RightTree(h), NEW N, NEW xp, NEW xc, NEW ds, Colored(h, N, xp, xc, Null, ds),
           ~Red(h, h.root), ~Red(h, xp), ~Red(h, xc) \/ ~Red(h, h.parent[xc]),
           NEW f, SameShape(h, f), \A i \in Node : f.color[i] = h.color[i]
    PROVE  Plain(f)
  <1>1. h \in Heap /\ IsSearchTree(h) /\ Reach(h) \in SUBSET Node /\ Null \notin Reach(h)
        /\ h.root \in Pointer /\ N \in Heights /\ N[Null] = 0
    BY ReachFacts, NodeFacts, HeapFacts DEF RightTree, Colored
  <1>K. PICK K : K = f.color
    OBVIOUS
  <1>2. ASSUME NEW n \in Reach(h), NEW y \in Side
        PROVE  Edge(K, N, Null, Null, Null, "left", n, y, h[y][n])
    <2>d. PICK d : d = h[y][n]
      OBVIOUS
    <2>1. /\ h.color[n] = "red" /\ d # Null /\ h.color[d] = "red" => n = xp \/ d = xc
          /\ N[n] \in Nat /\ N[d] \in Nat /\ n \in Node /\ n # Null /\ d \in Pointer
          /\ h.color[n] \in Shade /\ d \in Reach(h) \cup {Null}
          /\ N[n] = N[d] + (IF n = Null /\ y = ds THEN 1 ELSE 0) + (IF h.color[n] = "red" THEN 0 ELSE 1)
      BY <1>1, <2>d, OldEdge
    <2>2. N[n] = N[d] + (IF h.color[n] = "red" THEN 0 ELSE 1)
      BY <2>1
    <2>3. K[n] = h.color[n] /\ (d # Null => K[d] = h.color[d])
      BY <2>1, <1>K DEF Pointer
    <2>4. ~(h.color[n] = "red" /\ d # Null /\ h.color[d] = "red")
      <3> SUFFICES ASSUME h.color[n] = "red", d # Null, h.color[d] = "red" PROVE FALSE
        OBVIOUS
      <3>1. n = xp \/ d = xc
        BY <2>1
      <3>2. CASE n = xp
        BY <3>2, <2>1 DEF Red
      <3>3. CASE d = xc
        <4>1. h.parent[d] = n
          BY <2>1, <2>d, Links
        <4> QED BY <4>1, <3>3, <2>1 DEF Red
      <3> QED BY <3>1, <3>2, <3>3
    <2> QED BY <2>1, <2>2, <2>3, <2>4, <2>d, EdgeIs
  <1>3. h.root # Null /\ K[h.root] = "red" => h.root = Null
    BY <1>1, <1>K DEF Red, Pointer
  <1>4. Colored(f, N, Null, Null, Null, "left")
    BY <1>1, <1>2, <1>3, <1>K, ShapeColors
  <1> QED
    BY <1>4 DEF Plain

\* The end of RB_INSERT_COLOR: the root turns black.
LEMMA InsertEndColors ==
    ASSUME NEW h, RightTree(h), NEW e \in Reach(h), ~Red(h, h.parent[e]),
           NEW N, NEW ds \in Side, Colored(h, N, Null, e, Null, ds),
           NEW f, OneBlack(h, h.root, f)
    PROVE  Plain(f)
  <1>1. h \in Heap /\ Reach(h) \in SUBSET Node /\ h.root \in Reach(h) \cup {Null}
    BY ReachFacts DEF RightTree
  <1>2. CASE Red(h, h.root)
    <2>1. h.root = e
      BY <1>2 DEF Colored
    <2>2. ASSUME NEW n \in Reach(h), NEW y \in Side
          PROVE  Edge(h.color, N, e, e, Null, ds, n, y, h[y][n])
      <3>1. Edge(h.color, N, Null, e, Null, ds, n, y, h[y][n])
        BY DEF Colored
      <3>2. n # Null
        BY <1>1, NodeFacts
      <3> QED BY <3>1, <3>2 DEF Edge
    <2>3. Colored(h, N, e, e, Null, ds)
      BY <2>2 DEF Colored
    <2>4. OneBlack(h, e, f) /\ Red(h, e)
      BY <2>1, <1>2
    <2> QED BY <2>1, <2>3, <2>4, BlackenColors
  <1>3. CASE ~Red(h, h.root)
    <2>1. SameShape(h, f) /\ \A i \in Node : f.color[i] = h.color[i]
      <3>1. \A i \in Node : f.color[i] = IF i = h.root THEN "black" ELSE h.color[i]
        BY DEF OneBlack
      <3>2. \A i \in Node : i = h.root => h.color[i] = "black"
        BY <1>1, <1>3, HeapFacts, NodeFacts DEF Red
      <3> QED BY <3>1, <3>2 DEF OneBlack
    <2>2. ~Red(h, Null)
      BY DEF Red
    <2> QED BY <2>1, <2>2, <1>3, SettledColors
  <1> QED
    BY <1>2, <1>3

\* The end of RB_REMOVE_COLOR: e turns black.
LEMMA RemoveEndColors ==
    ASSUME NEW h, RightTree(h), NEW e \in Reach(h) \cup {Null}, NEW p, Lacking(h, e, p),
           e = h.root \/ Red(h, e), NEW f, OneBlack(h, e, f)
    PROVE  Plain(f)
  <1>1. h \in Heap /\ Reach(h) \in SUBSET Node /\ Null \notin Node /\ "left" \in Side
    BY ReachFacts, NodeFacts DEF RightTree, Side
  <1>2. CASE Red(h, e) /\ e = h.root
    <2>1. PICK N : Colored(h, N, e, e, Null, "left")
      BY <1>2 DEF Lacking
    <2>2. e \in Reach(h)
      BY <1>2 DEF Red
    <2> QED BY <2>1, <2>2, <1>1, <1>2, BlackenColors
  <1>3. CASE Red(h, e) /\ e # h.root
    <2>z. PICK z : z = ChildSide(h, p, e)
      OBVIOUS
    <2>1. p \in Reach(h) /\ h[z][p] = e /\ \E N : Colored(h, N, e, e, p, z)
      BY <2>z, <1>3 DEF Lacking
    <2>2. PICK N : Colored(h, N, e, e, p, z)
      BY <2>1
    <2>3. e \in Reach(h) /\ z \in Side
      BY <2>z, <1>3, ChildSideIs DEF Red
    <2> QED BY <2>1, <2>2, <2>3, <1>3, BlackenColors
  <1>4. CASE ~Red(h, e)
    <2>1. PICK N : Colored(h, N, e, e, Null, "left")
      BY <1>4 DEF Lacking
    <2>2. SameShape(h, f) /\ \A i \in Node : f.color[i] = h.color[i]
      <3>1. \A i \in Node : f.color[i] = IF i = e THEN "black" ELSE h.color[i]
        BY DEF OneBlack
      <3>2. \A i \in Node : i = e => h.color[i] = "black"
        BY <1>1, <1>4, HeapFacts DEF Red
      <3> QED BY <3>1, <3>2 DEF OneBlack
    <2> QED BY <2>1, <2>2, <1>4, SettledColors
  <1> QED
    BY <1>2, <1>3, <1>4

\* What the rest of a round finds: the sibling is black.
BlackSibling(h, e, p) ==
    /\ e # h.root /\ ~Red(h, e)
    /\ ~Red(h, h[Other[ChildSide(h, p, e)]][p])

\* The sibling is there.
LEMMA LackingScene ==
    ASSUME NEW h, RightTree(h), NEW e, NEW p, Lacking(h, e, p), e # h.root, ~Red(h, e),
           NEW s, NEW o, NEW t, s = ChildSide(h, p, e), o = Other[s], t = h[o][p]
    PROVE  /\ p \in Reach(h) /\ p # Null /\ t # Null
           /\ \E N, near, far : /\ RemoveCorner(h, e, p, s, o, t, near, far)
                                /\ near = h[s][t] /\ far = h[o][t]
                                /\ Colored(h, N, e, e, p, s)
  <1>1. p \in Reach(h) /\ h[s][p] = e /\ \E N : Colored(h, N, e, e, p, s)
    BY DEF Lacking
  <1>2. PICK N : Colored(h, N, e, e, p, s)
    BY <1>1
  <1>3. PICK near, far : near = h[s][t] /\ far = h[o][t]
    OBVIOUS
  <1>4. RemoveCorner(h, e, p, s, o, t, near, far)
    BY <1>1, <1>3 DEF RemoveCorner
  <1>5. t \in Reach(h) /\ Null \notin Reach(h)
    BY <1>1, <1>2, <1>4, RemoveScene
  <1> QED
    BY <1>1, <1>2, <1>3, <1>4, <1>5

\* After the turn about a red sibling, the sibling is black.
LEMMA SiblingTurnColors ==
    ASSUME NEW h, RightTree(h), NEW e, NEW p, Lacking(h, e, p), e # h.root, ~Red(h, e),
           NEW s, s = ChildSide(h, p, e), Red(h, h[Other[s]][p]),
           NEW f, SiblingTurn(h, p, s, f), Reach(f) = Reach(h)
    PROVE  Lacking(f, e, p) /\ BlackSibling(f, e, p)
  <1>1. PICK o, t : o = Other[s] /\ t = h[o][p]
    OBVIOUS
  <1>2. PICK N, near, far : /\ RemoveCorner(h, e, p, s, o, t, near, far)
                            /\ Colored(h, N, e, e, p, s)
    BY <1>1, LackingScene
  <1>3. p \in Reach(h)
    BY <1>1, LackingScene
  <1>4. PICK k : Swapped(h, t, p, k) /\ RotatedBy(k, s, p, f)
    BY <1>1 DEF SiblingTurn
  <1>5. /\ f.root # e /\ ~Red(f, e) /\ ~Red(f, f[o][p])
        /\ ChildSide(f, p, e) = s /\ f[s][p] = e
        /\ \E M : Colored(f, M, e, e, p, s)
    <2>1. Red(h, t)
      BY <1>1
    <2> QED BY <2>1, <1>2, <1>3, <1>4, RedSiblingColors
  <1>6. Lacking(f, e, p)
    BY <1>3, <1>5 DEF Lacking
  <1>7. BlackSibling(f, e, p)
    BY <1>1, <1>5 DEF BlackSibling
  <1> QED
    BY <1>6, <1>7

\* A round moves the short side up, or settles it.
LEMMA RemoveTurnColors ==
    ASSUME NEW h, RightTree(h), NEW e, NEW p, Lacking(h, e, p), BlackSibling(h, e, p),
           NEW f, RemoveTurn(h, p, e, f), RightTree(f), Reach(f) = Reach(h),
           NEW round, round = RemoveColor(h, p, e),
           NEW d, d = IF round.last THEN f.root ELSE round.elm
    PROVE  /\ Lacking(f, d, round.par) /\ round.pc \in {"balance", "nephews"}
           /\ round.pc = "nephews" => BlackSibling(f, d, round.par)
  <1>1. PICK s, o, t : s = ChildSide(h, p, e) /\ o = Other[s] /\ t = h[o][p]
    OBVIOUS
  <1>0. e # h.root /\ ~Red(h, e) /\ ~Red(h, t)
    BY <1>1 DEF BlackSibling
  <1>2. PICK N, near, far : /\ RemoveCorner(h, e, p, s, o, t, near, far)
                            /\ near = h[s][t] /\ far = h[o][t]
                            /\ Colored(h, N, e, e, p, s)
    BY <1>0, <1>1, LackingScene
  <1>3. p \in Reach(h)
    BY <1>0, <1>1, LackingScene
  <1>4. CASE ~Red(h, far) /\ ~Red(h, near)
    <2>1. OneRed(h, t, f)
      BY <1>1, <1>2, <1>4 DEF RemoveTurn, OneRed
    <2>2. /\ round.elm = p /\ round.par = h.parent[p] /\ round.pc = "balance" /\ round.last = FALSE
      BY <1>1, <1>2, <1>4 DEF RemoveColor
    <2>q. PICK q : q = h.parent[p]
      OBVIOUS
    <2>3. Lacking(f, p, q)
      BY <2>1, <2>q, <1>0, <1>2, <1>3, <1>4, BlackNephewsColors
    <2> QED BY <2>2, <2>3, <2>q
  <1>5. CASE ~Red(h, far) /\ Red(h, near)
    <2>1. PICK k : Swapped(h, near, t, k) /\ RotatedBy(k, o, t, f)
      BY <1>1, <1>2, <1>5 DEF RemoveTurn
    <2>2. /\ round.elm = e /\ round.par = p /\ round.pc = "nephews" /\ round.last = FALSE
      BY <1>1, <1>2, <1>5 DEF RemoveColor
    <2>3. /\ f.root # e /\ ~Red(f, e) /\ ~Red(f, f[o][p])
          /\ ChildSide(f, p, e) = s /\ f[s][p] = e
          /\ \E M : Colored(f, M, e, e, p, s)
      BY <2>1, <1>0, <1>2, <1>3, <1>5, NearNephewColors
    <2>4. Lacking(f, e, p)
      BY <1>3, <2>3 DEF Lacking
    <2>5. BlackSibling(f, e, p)
      BY <1>1, <2>3 DEF BlackSibling
    <2> QED BY <2>2, <2>4, <2>5
  <1>6. CASE Red(h, far)
    <2>1. PICK k : FarTurn(h, p, t, far, k) /\ RotatedBy(k, s, p, f)
      BY <1>1, <1>2, <1>6 DEF RemoveTurn, FarTurn
    <2>2. /\ round.par = p /\ round.pc = "balance" /\ round.last = TRUE
      BY <1>1, <1>2, <1>6 DEF RemoveColor
    <2>3. PICK M : Colored(f, M, Null, Null, Null, "left")
      BY <2>1, <1>0, <1>2, <1>3, <1>6, FarNephewColors
    <2>4. Lacking(f, f.root, p)
      BY <2>3, PlainIsLacking DEF RightTree
    <2> QED BY <2>2, <2>4
  <1> QED
    BY <1>4, <1>5, <1>6

-----------------------------------------------------------------------------
(* Colors of a tree with one element more or fewer *)

\* The black heights with another one for n
Levelled(N, n, k) == [x \in Pointer |-> IF x = n THEN k ELSE N[x]]

\* What Levelled is
LEMMA LevelledIs ==
    ASSUME NEW N \in Heights, NEW n \in Node, NEW k \in Nat, N[Null] = 0
    PROVE  /\ Levelled(N, n, k) \in Heights /\ Levelled(N, n, k)[Null] = 0
           /\ Levelled(N, n, k)[n] = k
           /\ \A x \in Pointer : x # n => Levelled(N, n, k)[x] = N[x]
  <1>1. Null \in Pointer /\ Null # n /\ n \in Pointer
    BY NodeFacts DEF Pointer
  <1>2. \A x \in Pointer : Levelled(N, n, k)[x] = IF x = n THEN k ELSE N[x]
    BY DEF Levelled
  <1>3. \A x \in Pointer : N[x] \in Nat
    BY DEF Heights
  <1>4. Levelled(N, n, k) \in Heights
    BY <1>3 DEF Levelled, Heights
  <1> QED
    BY <1>1, <1>2, <1>4

\* A new leaf is red: only its parent may be red as well.
LEMMA LinkColors ==
    ASSUME NEW h, RightTree(h), Plain(h), NEW n \in Node, n \notin Reach(h),
           NEW g, LinkedBy(h, n, g), Reach(g) = Reach(h) \cup {n}
    PROVE  Red(g, n) /\ \E M : Colored(g, M, Null, n, Null, "left")
  <1>1. /\ h \in Heap /\ Reach(h) \in SUBSET Node /\ Null \notin Node
        /\ h.root \in Reach(h) \cup {Null}
    BY ReachFacts, NodeFacts DEF RightTree
  <1>N. PICK N : Colored(h, N, Null, Null, Null, "left")
    BY DEF Plain
  <1>2. N \in Heights /\ N[Null] = 0
    BY <1>N DEF Colored
  <1>M. PICK M : M = Levelled(N, n, 0)
    OBVIOUS
  <1>3. /\ M \in Heights /\ M[Null] = 0 /\ M[n] = 0
        /\ \A x \in Pointer : x # n => M[x] = N[x]
    BY <1>2, <1>M, LevelledIs
  <1>p. PICK p : p = Descend(h, Key(n))
    OBVIOUS
  <1>x. PICK x : x = SideOf(Key(n), p)
    OBVIOUS
  <1>K. PICK K : K = g.color
    OBVIOUS
  <1>4. /\ p # Null => p \in Reach(h) /\ h[x][p] = Null /\ x \in Side
        /\ g.root = IF p = Null THEN n ELSE h.root
        /\ (p = Null) <=> (h.root = Null)
        /\ \A y \in Side, m \in Node : g[y][m] = IF m = n THEN Null
                                                ELSE IF m = p /\ y = x THEN n ELSE h[y][m]
        /\ \A m \in Node : K[m] = IF m = n THEN "red" ELSE h.color[m]
    BY <1>p, <1>x, <1>K DEF LinkedBy
  <1>5. ASSUME NEW m \in Reach(g), NEW y \in Side
        PROVE  Edge(K, M, Null, n, Null, "left", m, y, g[y][m])
    <2>d. PICK d : d = g[y][m]
      OBVIOUS
    <2>1. CASE m = n
      <3>1. d = Null /\ K[m] = "red" /\ m # Null
        BY <2>1, <2>d, <1>1, <1>4
      <3>2. M[m] = M[d] + (IF K[m] = "red" THEN 0 ELSE 1) /\ M[m] \in Nat /\ M[d] \in Nat
            /\ K[m] \in Shade
        BY <3>1, <2>1, <1>3 DEF Shade
      <3> QED BY <3>1, <3>2, <2>d, EdgeIs
    <2>2. CASE m # n
      <3>1. m \in Reach(h)
        BY <2>2
      <3>c. PICK c : c = h[y][m]
        OBVIOUS
      <3>2. /\ h.color[m] = "red" /\ c # Null /\ h.color[c] = "red" => m = Null \/ c = Null
            /\ N[m] \in Nat /\ N[c] \in Nat /\ m \in Node /\ m # Null /\ m \in Pointer /\ c \in Pointer
            /\ h.color[m] \in Shade /\ c \in Reach(h) \cup {Null}
            /\ N[m] = N[c] + (IF m = Null /\ y = "left" THEN 1 ELSE 0)
                      + (IF h.color[m] = "red" THEN 0 ELSE 1)
        BY <3>1, <3>c, <1>1, <1>N, OldEdge
      <3>3. /\ K[m] = h.color[m] /\ M[m] = N[m] /\ K[m] \in Shade /\ M[m] \in Nat
            /\ N[m] = N[c] + (IF K[m] = "red" THEN 0 ELSE 1)
        BY <3>2, <2>2, <1>3, <1>4
      <3>4. CASE m = p /\ y = x
        <4>1. d = n /\ c = Null
          BY <3>4, <3>2, <3>c, <2>2, <2>d, <1>4
        <4>2. M[m] = M[d] + (IF K[m] = "red" THEN 0 ELSE 1) /\ M[d] \in Nat
          BY <4>1, <3>3, <1>2, <1>3
        <4> QED BY <4>1, <4>2, <3>2, <3>3, <2>d, EdgeIs
      <3>5. CASE ~(m = p /\ y = x)
        <4>1. d = c /\ c # n
          BY <3>5, <3>2, <3>c, <2>2, <2>d, <1>1, <1>4
        <4>2. M[c] = N[c] /\ (c # Null => K[c] = h.color[c])
          BY <4>1, <3>2, <1>3, <1>4 DEF Pointer
        <4> QED BY <4>1, <4>2, <3>2, <3>3, <2>d, EdgeIs
      <3> QED BY <3>4, <3>5
    <2> QED BY <2>1, <2>2
  <1>6. Red(g, g.root) => g.root = n
    <2>1. CASE p = Null
      BY <2>1, <1>4
    <2>2. CASE p # Null
      <3>1. g.root = h.root /\ h.root \in Node /\ h.root # Null /\ h.root # n
        BY <2>2, <1>1, <1>4
      <3>2. K[h.root] = h.color[h.root]
        BY <3>1, <1>4
      <3>3. ~Red(h, h.root)
        BY <1>N DEF Colored, Red
      <3> QED BY <3>1, <3>2, <3>3, <1>K DEF Red
    <2> QED BY <2>1, <2>2
  <1>7. Colored(g, M, Null, n, Null, "left")
    BY <1>3, <1>5, <1>6, <1>K DEF Colored
  <1>8. Red(g, n)
    BY <1>1, <1>4, <1>K DEF Red
  <1> QED
    BY <1>7, <1>8

\* n comes into old's place and has its color: only the names change.
LEMMA ReplacedColors ==
    ASSUME NEW h, RightTree(h), NEW old \in Reach(h), NEW n \in Node, n \notin Reach(h),
           NEW g, ReplacedBy(h, old, n, g), Reach(g) = (Reach(h) \ {old}) \cup {n},
           NEW N, NEW xe, NEW dp, NEW ds, Colored(h, N, xe, xe, dp, ds), xe # old, xe # n, dp # n
    PROVE  Colored(g, Levelled(N, n, N[old]), xe, xe, IF dp = old THEN n ELSE dp, ds)
  <1>1. /\ h \in Heap /\ IsSearchTree(h) /\ Reach(h) \in SUBSET Node /\ Null \notin Node
        /\ h.root \in Reach(h) \cup {Null} /\ old \in Node /\ old # n
        /\ N \in Heights /\ N[Null] = 0
    BY ReachFacts, NodeFacts DEF RightTree, Colored
  <1>M. PICK M : M = Levelled(N, n, N[old])
    OBVIOUS
  <1>2. N[old] \in Nat
    BY <1>1 DEF Heights, Pointer
  <1>3. /\ M \in Heights /\ M[Null] = 0 /\ M[n] = N[old]
        /\ \A x \in Pointer : x # n => M[x] = N[x]
    BY <1>1, <1>2, <1>M, LevelledIs
  <1>p. PICK p : p = h.parent[old]
    OBVIOUS
  <1>q. PICK dq : dq = IF dp = old THEN n ELSE dp
    OBVIOUS
  <1>K. PICK K : K = g.color
    OBVIOUS
  <1>4. /\ g.root = IF p = Null THEN n ELSE h.root
        /\ \A y \in Side, m \in Node : g[y][m] = IF m = n THEN h[y][old]
                                                ELSE IF m = p /\ h[y][m] = old THEN n ELSE h[y][m]
        /\ \A m \in Node : K[m] = IF m = n THEN h.color[old] ELSE h.color[m]
    BY <1>p, <1>K DEF ReplacedBy
  <1>5. ASSUME NEW m \in Reach(h), NEW y \in Side, NEW c, c = h[y][m], c # old,
               NEW w, w = IF m = old THEN n ELSE m
        PROVE  Edge(K, M, xe, xe, dq, ds, w, y, c)
    <2>1. Edge(h.color, N, xe, xe, dp, ds, m, y, c)
      BY <1>5 DEF Colored
    <2>2. /\ N[m] \in Nat /\ N[c] \in Nat /\ m \in Node /\ m \in Pointer /\ c \in Pointer
          /\ c \in Reach(h) \cup {Null}
      BY <1>1, <1>5, OldEdge
    <2>3. M[w] = N[m] /\ M[c] = N[c] /\ K[w] = h.color[m] /\ (c # Null => K[c] = h.color[c])
      <3>1. c # n /\ m # n
        BY <2>2, <1>1
      <3>2. M[c] = N[c] /\ (c # Null => K[c] = h.color[c])
        BY <3>1, <2>2, <1>3, <1>4 DEF Pointer
      <3>3. M[w] = N[m] /\ K[w] = h.color[m]
        BY <3>1, <2>2, <1>3, <1>4, <1>5
      <3> QED BY <3>2, <3>3
    <2>4. (w = dq <=> m = dp) /\ (w = xe <=> m = xe)
      BY <1>1, <1>5, <1>q
    <2> QED BY <2>1, <2>3, <2>4 DEF Edge
  <1>6. ASSUME NEW m \in Reach(h), NEW y \in Side, h[y][m] = old
        PROVE  m # old /\ Edge(K, M, xe, xe, dq, ds, m, y, n)
    <2>1. Edge(h.color, N, xe, xe, dp, ds, m, y, old)
      BY <1>6 DEF Colored
    <2>2. m \in Node /\ m \in Pointer /\ m # n /\ m # old
      <3>1. m # old
        BY <1>1, <1>6, NotBelowChild
      <3> QED BY <3>1, <1>1 DEF Pointer
    <2>3. M[m] = N[m] /\ M[n] = N[old] /\ K[m] = h.color[m] /\ K[n] = h.color[old]
      BY <2>2, <1>1, <1>3, <1>4
    <2>4. (m = dq <=> m = dp) /\ n # Null /\ old # Null
      BY <2>2, <1>1, <1>q
    <2> QED BY <2>1, <2>2, <2>3, <2>4 DEF Edge
  <1>7. ASSUME NEW m \in Reach(g), NEW y \in Side
        PROVE  Edge(K, M, xe, xe, dq, ds, m, y, g[y][m])
    <2>1. CASE m = n
      <3>1. g[y][m] = h[y][old] /\ h[y][old] # old
        BY <2>1, <1>1, <1>4, NotBelowChild
      <3> QED BY <3>1, <2>1, <1>5
    <2>2. CASE m # n /\ h[y][m] = old
      <3>1. m \in Reach(h) /\ m \in Node
        BY <2>2, <1>1
      <3>2. m = p
        BY <3>1, <2>2, <1>p, Links
      <3>3. g[y][m] = n
        BY <3>1, <3>2, <2>2, <1>4
      <3> QED BY <3>1, <3>3, <2>2, <1>6
    <2>3. CASE m # n /\ h[y][m] # old
      <3>1. m \in Reach(h) /\ m \in Node /\ m # old
        BY <2>3, <1>1
      <3>2. g[y][m] = h[y][m]
        BY <3>1, <2>3, <1>4
      <3> QED BY <3>1, <3>2, <2>3, <1>5
    <2> QED BY <2>1, <2>2, <2>3
  <1>8. Red(g, g.root) => g.root = xe
    <2>1. Red(h, h.root) => h.root = xe
      BY DEF Colored
    <2>2. CASE p = Null
      <3>1. h.root = old
        BY <2>2, <1>p, Links
      <3>2. ~Red(h, old)
        BY <3>1, <2>1
      <3>3. g.root = n /\ K[n] = h.color[old]
        BY <2>2, <1>4
      <3> QED BY <3>2, <3>3, <1>1, <1>K DEF Red
    <2>3. CASE p # Null
      <3>1. g.root = h.root /\ (h.root # Null => h.root \in Node /\ h.root # n)
        BY <2>3, <1>1, <1>4
      <3>2. h.root # Null => K[h.root] = h.color[h.root]
        BY <3>1, <1>4
      <3> QED BY <3>1, <3>2, <2>1, <1>K DEF Red
    <2> QED BY <2>2, <2>3
  <1>9. Colored(g, M, xe, xe, dq, ds)
    BY <1>3, <1>7, <1>8, <1>K DEF Colored
  <1> QED
    BY <1>9, <1>M, <1>q

\* Where a red element is given up, nothing is short; where a black one is, its
\* child's side is.
LEMMA UnlinkColors ==
    ASSUME NEW h, RightTree(h), Plain(h), NEW n \in Reach(h), h.left[n] = Null \/ h.right[n] = Null,
           NEW u, UnlinkedBy(h, n, u), RightTree(u), Reach(u) = Reach(h) \ {n},
           NEW c, c = OnlyChild(h, n), NEW p, p = h.parent[n]
    PROVE  /\ Red(h, n) => Plain(u)
           /\ ~Red(h, n) => Lacking(u, c, p)
           /\ c # n /\ c \in Reach(h) \cup {Null} /\ (c # Null => h.parent[c] = n) /\ p # n
           /\ p = Null => n = h.root
  <1>1. /\ h \in Heap /\ IsSearchTree(h) /\ Reach(h) \in SUBSET Node /\ Null \notin Reach(h)
        /\ n \in Node /\ n # Null /\ p # n /\ (p = Null <=> n = h.root) /\ p \in Reach(h) \cup {Null}
        /\ h.root \in Reach(h) \cup {Null} /\ (h.root # Null => h.parent[h.root] = Null)
        /\ h["left"] = h.left /\ h["right"] = h.right /\ "left" \in Side /\ "right" \in Side
    BY ReachFacts, NodeFacts, HeapFacts, Links DEF RightTree, ParentsRight, Side
  <1>x. PICK x : x \in Side /\ h[x][n] = c /\ h[Other[x]][n] = Null
    BY <1>1, OtherSide DEF OnlyChild
  <1>2. c # n /\ c \in Reach(h) \cup {Null} /\ (c # Null => h.parent[c] = n)
    BY <1>1, <1>x, NotBelowChild, Links, ReachFacts DEF Closed
  <1>N. PICK N : Colored(h, N, Null, Null, Null, "left")
    BY DEF Plain
  <1>3. N \in Heights /\ N[Null] = 0 /\ ~Red(h, h.root)
    BY <1>N DEF Colored, Red
  <1>4. ASSUME NEW m \in Reach(h), NEW y \in Side, NEW d, d = h[y][m]
        PROVE  /\ ~(h.color[m] = "red" /\ d # Null /\ h.color[d] = "red")
               /\ N[m] \in Nat /\ N[d] \in Nat /\ m \in Node /\ m # Null /\ d \in Pointer
               /\ h.color[m] \in Shade /\ d \in Reach(h) \cup {Null}
               /\ N[m] = N[d] + (IF h.color[m] = "red" THEN 0 ELSE 1)
    <2>1. ~Red(h, Null)
      BY DEF Red
    <2>2. m # Null
      BY <1>1
    <2> QED BY <2>1, <2>2, <1>1, <1>4, <1>N, PlainEdge
  <1>5. /\ u.color = h.color
        /\ u.root = IF p = Null THEN c ELSE h.root
        /\ \A y \in Side, m \in Node : u[y][m] = IF m = p /\ h[y][m] = n THEN c ELSE h[y][m]
    BY DEF UnlinkedBy
  <1>6. u \in Heap
    BY DEF RightTree
  <1>7. /\ N[n] = N[c] + (IF h.color[n] = "red" THEN 0 ELSE 1) /\ N[c] \in Nat /\ h.color[n] \in Shade
        /\ N[n] = 0 + (IF h.color[n] = "red" THEN 0 ELSE 1)
    <2>1. Other[x] \in Side
      BY <1>x, OtherSide
    <2>2. N[n] = N[Null] + (IF h.color[n] = "red" THEN 0 ELSE 1)
      BY <2>1, <1>x, <1>4
    <2>3. N[n] = N[c] + (IF h.color[n] = "red" THEN 0 ELSE 1) /\ N[c] \in Nat /\ h.color[n] \in Shade
      BY <1>x, <1>4
    <2> QED BY <2>2, <2>3, <1>3
  \* the links that stay
  <1>8. ASSUME NEW m \in Reach(u), NEW y \in Side, ~(m = p /\ h[y][m] = n),
               NEW xe, NEW dp, NEW ds, m # dp \/ y # ds
        PROVE  Edge(u.color, N, xe, xe, dp, ds, m, y, u[y][m])
    <2>d. PICK d : d = h[y][m]
      OBVIOUS
    <2>1. m \in Reach(h)
      OBVIOUS
    <2>2. /\ ~(h.color[m] = "red" /\ d # Null /\ h.color[d] = "red")
          /\ N[m] \in Nat /\ N[d] \in Nat /\ m \in Node /\ m # Null
          /\ h.color[m] \in Shade
          /\ N[m] = N[d] + (IF h.color[m] = "red" THEN 0 ELSE 1)
      BY <2>1, <2>d, <1>4
    <2>3. u[y][m] = d
      BY <2>2, <2>d, <1>5, <1>8
    <2>4. Edge(h.color, N, xe, xe, dp, ds, m, y, d)
      BY <2>2, <1>8, EdgeIs
    <2> QED BY <2>3, <2>4, <1>5
  \* the side n was on
  <1>9. ASSUME p # Null
        PROVE  \E z \in Side : /\ h[z][p] = n /\ h[Other[z]][p] # n
                               /\ N[p] = N[n] + (IF h.color[p] = "red" THEN 0 ELSE 1)
                               /\ ~(h.color[p] = "red" /\ h.color[n] = "red") /\ N[p] \in Nat
                               /\ h.color[p] \in Shade /\ p \in Reach(u) /\ u[z][p] = c
    <2>1. n # h.root /\ p \in Reach(h) /\ p \in Node
      BY <1>1, <1>9
    <2>2. PICK z \in Side : h[z][p] = n
      BY <2>1, Links
    <2>3. h[Other[z]][p] # n
      BY <2>1, <2>2, <1>1, NotBelowChild
    <2>4. /\ N[p] = N[n] + (IF h.color[p] = "red" THEN 0 ELSE 1)
          /\ ~(h.color[p] = "red" /\ h.color[n] = "red") /\ N[p] \in Nat
          /\ h.color[p] \in Shade
      BY <2>1, <2>2, <1>1, <1>4
    <2>5. u[z][p] = c /\ p \in Reach(u)
      BY <2>1, <2>2, <1>1, <1>5
    <2> QED BY <2>2, <2>3, <2>4, <2>5
  <1>10. ASSUME Red(h, n) PROVE Plain(u)
    <2>1. h.color[n] = "red" /\ p # Null
      BY <1>1, <1>3, <1>10 DEF Red
    <2>2. PICK z \in Side : /\ h[z][p] = n /\ h[Other[z]][p] # n
                            /\ N[p] = N[n] + (IF h.color[p] = "red" THEN 0 ELSE 1)
                            /\ ~(h.color[p] = "red" /\ h.color[n] = "red") /\ N[p] \in Nat
                            /\ h.color[p] \in Shade /\ p \in Reach(u) /\ u[z][p] = c
      BY <2>1, <1>9
    <2>3. ASSUME NEW m \in Reach(u), NEW y \in Side
          PROVE  Edge(u.color, N, Null, Null, Null, "left", m, y, u[y][m])
      <3>1. m # Null /\ m \in Reach(h)
        BY <1>1
      <3>2. CASE m = p /\ h[y][m] = n
        <4>1. u[y][m] = c
          BY <3>2, <3>1, <1>1, <1>5
        <4>2. h.color[p] # "red"
          BY <2>1, <2>2
        <4>3. N[p] = N[c] + (IF h.color[p] = "red" THEN 0 ELSE 1)
          BY <2>1, <2>2, <1>7
        <4>4. Edge(h.color, N, Null, Null, Null, "left", p, y, c)
          BY <4>2, <4>3, <3>1, <3>2, <2>2, <1>7, EdgeIs
        <4> QED BY <4>1, <4>4, <3>2, <1>5
      <3>3. CASE ~(m = p /\ h[y][m] = n)
        BY <3>1, <3>3, <1>8
      <3> QED BY <3>2, <3>3
    <2>4. ~Red(u, u.root)
      BY <2>1, <1>3, <1>5 DEF Red
    <2>5. Colored(u, N, Null, Null, Null, "left")
      BY <2>3, <2>4, <1>3 DEF Colored
    <2> QED BY <2>5 DEF Plain
  <1>11. ASSUME ~Red(h, n), p = Null PROVE Lacking(u, c, p)
    <2>1. u.root = c
      BY <1>5, <1>11
    <2>2. ASSUME NEW m \in Reach(u), NEW y \in Side
          PROVE  Edge(u.color, N, c, c, Null, "left", m, y, u[y][m])
      <3>1. m # Null
        BY <1>1
      <3> QED BY <3>1, <1>8, <1>11
    <2>3. Colored(u, N, c, c, Null, "left")
      BY <2>1, <2>2, <1>3 DEF Colored
    <2> QED BY <2>1, <2>3 DEF Lacking
  <1>12. ASSUME ~Red(h, n), p # Null PROVE Lacking(u, c, p)
    <2>1. h.color[n] # "red"
      BY <1>1, <1>12 DEF Red
    <2>2. PICK z \in Side : /\ h[z][p] = n /\ h[Other[z]][p] # n
                            /\ N[p] = N[n] + (IF h.color[p] = "red" THEN 0 ELSE 1)
                            /\ ~(h.color[p] = "red" /\ h.color[n] = "red") /\ N[p] \in Nat
                            /\ h.color[p] \in Shade /\ p \in Reach(u) /\ u[z][p] = c
      BY <1>9, <1>12
    <2>3. /\ p \in Reach(h) /\ p \in Node /\ u.root = h.root /\ h.root # Null /\ Other[z] \in Side
          /\ Side = {z, Other[z]}
      BY <2>2, <1>1, <1>5, <1>12, ReachFacts, OtherSide
    <2>4. c # u.root
      BY <2>3, <1>1, <1>2
    <2>o. PICK b : b = h[Other[z]][p]
      OBVIOUS
    <2>5. b # c
      <3>1. CASE c # Null
        <4>0. c \in Reach(h)
          BY <3>1, <1>2
        <4>1. \A m \in Reach(h), s \in Side : h[s][m] = c => h.parent[c] = m
          BY <4>0, Links
        <4>2. h[Other[z]][p] = c => h.parent[c] = p
          BY <4>1, <2>3
        <4> QED BY <4>2, <3>1, <2>o, <1>1, <1>2
      <3>2. CASE c = Null
        <4>1. N[p] = N[b] + (IF h.color[p] = "red" THEN 0 ELSE 1) /\ N[b] \in Nat
          BY <2>3, <2>o, <1>4
        <4>2. N[n] = 1
          BY <2>1, <1>7
        <4>3. N[b] = 1
          BY <4>1, <4>2, <2>2
        <4> QED BY <4>3, <3>2, <1>3
      <3> QED BY <3>1, <3>2
    <2>6. ChildSide(u, p, c) = z
      <3>1. u[Other[z]][p] = b
        BY <2>2, <2>3, <2>o, <1>5
      <3>2. u["left"] = u.left
        BY <1>6, HeapFacts
      <3> QED BY <3>1, <3>2, <2>2, <2>5, OtherSide DEF ChildSide, Side
    <2>7. ASSUME NEW m \in Reach(u), NEW y \in Side
          PROVE  Edge(u.color, N, c, c, p, z, m, y, u[y][m])
      <3>1. CASE m = p /\ y = z
        <4>1. Bit(p = p /\ z = z) = 1 /\ Bit(h.color[p] = "black") = (IF h.color[p] = "red" THEN 0 ELSE 1)
              /\ Bit(h.color[p] = "black") \in Nat
          BY <2>2 DEF Bit, Shade
        <4>2. N[p] = N[c] + 1 + (IF h.color[p] = "red" THEN 0 ELSE 1)
          BY <2>1, <2>2, <1>7
        <4>3. N[p] = N[c] + Bit(p = p /\ z = z) + Bit(h.color[p] = "black")
          BY <4>1, <4>2, <1>7
        <4>4. Edge(h.color, N, c, c, p, z, p, z, c)
          BY <4>3 DEF Edge
        <4> QED BY <4>4, <3>1, <2>2, <1>5
      <3>2. CASE m # p \/ y # z
        <4>1. ~(m = p /\ h[y][m] = n)
          BY <3>2, <2>2, <2>3
        <4> QED BY <4>1, <3>2, <1>8
      <3> QED BY <3>1, <3>2
    <2>8. ~Red(u, u.root)
      BY <2>3, <1>3, <1>5 DEF Red
    <2>9. Colored(u, N, c, c, p, z)
      BY <2>7, <2>8, <1>3 DEF Colored
    <2> QED BY <2>2, <2>4, <2>6, <2>9 DEF Lacking
  <1> QED
    BY <1>1, <1>2, <1>10, <1>11, <1>12

\* The place that is short keeps its side when its parent, or one above, is replaced.
LEMMA ReplacedLacking ==
    ASSUME NEW h, RightTree(h), NEW old \in Reach(h), NEW n \in Node, n \notin Reach(h),
           NEW g, ReplacedBy(h, old, n, g), Reach(g) = (Reach(h) \ {old}) \cup {n},
           NEW e \in Reach(h) \cup {Null}, e # old, NEW p, Lacking(h, e, p)
    PROVE  Lacking(g, e, IF p = old THEN n ELSE p)
  <1>1. /\ h \in Heap /\ IsSearchTree(h) /\ Reach(h) \in SUBSET Node /\ Null \notin Node
        /\ h.root \in Reach(h) \cup {Null} /\ old \in Node /\ old # n /\ e # n
    BY ReachFacts, NodeFacts DEF RightTree
  <1>q. PICK q : q = h.parent[old]
    OBVIOUS
  <1>2. /\ g \in Heap /\ g.root = IF q = Null THEN n ELSE h.root
        /\ \A y \in Side, m \in Node : g[y][m] = IF m = n THEN h[y][old]
                                                ELSE IF m = q /\ h[y][m] = old THEN n ELSE h[y][m]
    BY <1>q DEF ReplacedBy
  <1>3. q = Null <=> old = h.root
    BY <1>q, Links
  <1>4. CASE e = h.root
    <2>1. PICK N : Colored(h, N, e, e, Null, "left")
      BY <1>4 DEF Lacking
    <2>2. g.root = e
      BY <1>2, <1>3, <1>4
    <2>3. Colored(g, Levelled(N, n, N[old]), e, e, IF Null = old THEN n ELSE Null, "left")
      BY <2>1, <1>1, ReplacedColors
    <2>4. Null # old
      BY <1>1
    <2> QED BY <2>2, <2>3, <2>4 DEF Lacking
  <1>5. CASE e # h.root
    <2>z. PICK z : z = ChildSide(h, p, e)
      OBVIOUS
    <2>1. p \in Reach(h) /\ h[z][p] = e /\ \E N : Colored(h, N, e, e, p, z)
      BY <2>z, <1>5 DEF Lacking
    <2>2. PICK N : Colored(h, N, e, e, p, z)
      BY <2>1
    <2>d. PICK d : d = IF p = old THEN n ELSE p
      OBVIOUS
    <2>3. g.root # e
      BY <1>1, <1>2, <1>5
    <2>4. p \in Node /\ p # n /\ d \in Reach(g) /\ z \in Side /\ "left" \in Side
      BY <2>1, <2>d, <2>z, <1>1, ChildSideIs DEF Side
    <2>5. ASSUME NEW y \in Side PROVE g[y][d] = e <=> h[y][p] = e
      <3>1. CASE p = old
        BY <3>1, <2>d, <1>1, <1>2
      <3>2. CASE p # old
        BY <3>2, <2>d, <2>4, <1>1, <1>2
      <3> QED BY <3>1, <3>2
    <2>6. ChildSide(g, d, e) = z /\ g[z][d] = e
      <3>1. g["left"] = g.left /\ h["left"] = h.left
        BY <1>1, <1>2, HeapFacts
      <3>2. g.left[d] = e <=> h.left[p] = e
        BY <3>1, <2>4, <2>5
      <3> QED BY <3>2, <2>1, <2>4, <2>5, <2>z DEF ChildSide
    <2>7. Colored(g, Levelled(N, n, N[old]), e, e, IF p = old THEN n ELSE p, z)
      BY <2>2, <2>4, <1>1, ReplacedColors
    <2>8. Colored(g, Levelled(N, n, N[old]), e, e, d, z)
      BY <2>7, <2>d
    <2>9. Lacking(g, e, d)
      BY <2>3, <2>4, <2>6, <2>8 DEF Lacking
    <2> QED BY <2>9, <2>d
  <1> QED
    BY <1>4, <1>5

\* What is short after an element is taken out of the tree: the side its last
\* owner hung on, if that was black.
LEMMA TakenColors ==
    ASSUME NEW h, RightTree(h), Plain(h), NEW old \in Reach(h), NEW u, NEW g, TakenBy(h, old, u, g),
           NEW n, n = Spliced(h, old), NEW c, c = OnlyChild(h, n)
    PROVE  /\ Red(h, n) => Plain(g)
           /\ ~Red(h, n) => Lacking(g, c, IF h.parent[n] = old THEN n ELSE h.parent[n])
  <1>1. /\ n \in Reach(h) /\ (h.left[n] = Null \/ h.right[n] = Null)
        /\ UnlinkedBy(h, n, u) /\ RightTree(u) /\ Reach(u) = Reach(h) \ {n}
        /\ RightTree(g) /\ Reach(g) = Reach(h) \ {old}
    BY DEF TakenBy
  <1>p. PICK p : p = h.parent[n]
    OBVIOUS
  <1>2. /\ Red(h, n) => Plain(u)
        /\ ~Red(h, n) => Lacking(u, c, p)
        /\ c # n /\ c \in Reach(h) \cup {Null} /\ (c # Null => h.parent[c] = n) /\ p # n
    BY <1>1, <1>p, UnlinkColors
  <1>3. CASE n = old
    <2>1. g = u
      BY <1>3 DEF TakenBy
    <2> QED BY <2>1, <1>2, <1>3, <1>p
  <1>4. CASE n # old
    <2>1. n \notin Reach(u) /\ old \in Reach(u) /\ ReplacedBy(u, old, n, g)
      BY <1>4 DEF TakenBy
    <2>2. h \in Heap /\ IsSearchTree(h) /\ Reach(h) \in SUBSET Node /\ n \in Node /\ Null \notin Node
          /\ old \in Node
      BY <1>1, ReachFacts, NodeFacts DEF RightTree
    <2>3. Reach(g) = (Reach(u) \ {old}) \cup {n}
      BY <1>1, <1>4
    <2>4. c # old
      <3> SUFFICES ASSUME c = old PROVE FALSE
        OBVIOUS
      <3>1. n \in Below(h, h["right"][old]) /\ h["right"][old] # Null
        BY <1>4, SplicedIs
      <3>2. h.parent[old] = n /\ "right" \in Side
        BY <2>2, <1>2 DEF Side
      <3>3. h[ "right"][old] \in Reach(h)
        BY <3>1, <3>2, ReachFacts, <2>2 DEF Closed
      <3>r. PICK r : r = h["right"][old]
        OBVIOUS
      <3>4. n = r \/ h.parent[n] \in Below(h, r)
        BY <3>1, <3>3, <3>r, ParentBelow
      <3>5. old \notin Below(h, r)
        BY <3>2, <3>r, <2>2, NotBelowChild
      <3>6. \E y \in Side : h[y][n] = old
        <4>1. old # h.root
          BY <3>2, <2>2, Links
        <4> QED BY <4>1, <3>2, Links
      <3>7. Closed(h, Below(h, r))
        BY <3>3, <3>r, <2>2, BelowLeast DEF Pointer
      <3>8. old \in Below(h, r)
        BY <3>1, <3>6, <3>7, <3>r, <2>2 DEF Closed
      <3> QED BY <3>5, <3>8
    <2>5. c \in Reach(u) \cup {Null}
      BY <1>1, <1>2
    <2>6. ASSUME Red(h, n) PROVE Plain(g)
      <3>1. PICK N : Colored(u, N, Null, Null, Null, "left")
        BY <2>6, <1>2 DEF Plain
      <3>2. Null # old /\ Null # n
        BY <2>2
      <3>3. Colored(g, Levelled(N, n, N[old]), Null, Null, IF Null = old THEN n ELSE Null, "left")
        BY <3>1, <3>2, <2>1, <2>2, <2>3, <1>1, ReplacedColors
      <3> QED BY <3>2, <3>3 DEF Plain
    <2>7. ASSUME ~Red(h, n) PROVE Lacking(g, c, IF p = old THEN n ELSE p)
      <3>1. Lacking(u, c, p)
        BY <2>7, <1>2
      <3> QED BY <3>1, <2>1, <2>2, <2>3, <2>4, <2>5, <1>1, ReplacedLacking
    <2> QED BY <2>6, <2>7, <1>p
  <1> QED
    BY <1>3, <1>4

\* An empty tree has right colors.
LEMMA NothingColors ==
    ASSUME NEW h, RightTree(h), Reach(h) = {}
    PROVE  h.root = Null /\ Plain(h) /\ Lacking(h, Null, Null)
  <1>1. h \in Heap /\ h.root = Null
    BY ReachFacts DEF RightTree
  <1>N. PICK N : N = [x \in Pointer |-> 0]
    OBVIOUS
  <1>2. N \in Heights /\ N[Null] = 0
    BY <1>N DEF Heights, Pointer
  <1>3. Colored(h, N, Null, Null, Null, "left")
    BY <1>1, <1>2 DEF Colored
  <1> QED
    BY <1>1, <1>3, PlainIsLacking DEF Plain

\* Elements that are outside do not count.
LEMMA AsideColors ==
    ASSUME NEW h, Plain(h), NEW g, Reach(g) = Reach(h), g.root = h.root, RightTree(g),
           \A n \in Reach(h) : /\ g.color[n] = h.color[n]
                               /\ \A y \in Side : g[y][n] = h[y][n]
    PROVE  Plain(g)
  <1>1. PICK N : Colored(h, N, Null, Null, Null, "left")
    BY DEF Plain
  <1>2. N \in Heights /\ N[Null] = 0 /\ ~Red(h, h.root)
    BY <1>1 DEF Colored, Red
  <1>3. Closed(g, Reach(g)) /\ g.root \in Reach(g) \cup {Null}
    BY ReachFacts DEF RightTree
  <1>4. ASSUME NEW n \in Reach(g), NEW y \in Side
        PROVE  Edge(g.color, N, Null, Null, Null, "left", n, y, g[y][n])
    <2>c. PICK c : c = g[y][n]
      OBVIOUS
    <2>1. Edge(h.color, N, Null, Null, Null, "left", n, y, c)
      <3>1. c = h[y][n]
        BY <2>c
      <3> QED BY <3>1, <1>1 DEF Colored
    <2>2. c \in Reach(h) \cup {Null}
      BY <2>c, <1>3 DEF Closed
    <2>3. g.color[n] = h.color[n] /\ (c # Null => g.color[c] = h.color[c])
      BY <2>2
    <2> QED BY <2>1, <2>3, <2>c DEF Edge
  <1>5. ~Red(g, g.root)
    BY <1>2, <1>3 DEF Red
  <1> QED
    BY <1>2, <1>4, <1>5 DEF Plain, Colored

\* No two elements of the tree have the same key.
LEMMA OneKey ==
    ASSUME NEW h, RightTree(h), NEW m \in Reach(h), NEW n \in Reach(h), Key(m) = Key(n)
    PROVE  m = n
  <1>1. h \in Heap /\ h.root # Null /\ Key(m) \in Nat
    BY ReachFacts, NodeFacts DEF RightTree
  <1>2. \A x \in Reach(h) : Key(x) = Key(m) => x = Descend(h, Key(m))
    BY <1>1, DescendEnds
  <1> QED
    BY <1>2

-----------------------------------------------------------------------------
(* The walk through the tree *)

\* An element from outside is on the same side of all the elements below z.
LEMMA OutsideOrder ==
    ASSUME NEW h \in Heap, IsSearchTree(h), NEW z \in Reach(h), NEW m \in Below(h, z),
           NEW x \in Reach(h), x \notin Below(h, z)
    PROVE  Key(x) < Key(m) <=> Key(x) < Key(z)
  <1>R. PICK R : R = Reach(h)
    OBVIOUS
  <1>S. PICK S : S = {y \in R : \A w \in R : w \notin Below(h, y) =>
                                    \A d \in Below(h, y) : Key(w) < Key(d) <=> Key(w) < Key(y)}
    OBVIOUS
  <1>1. /\ R \in SUBSET Node /\ Closed(h, R) /\ h.root \in R \cup {Null}
        /\ \A n \in R : Below(h, n) \subseteq R /\ n \in Below(h, n) /\ n \in Pointer
        /\ \A T \in SUBSET Node : Closed(h, T) /\ h.root \in T \cup {Null} => R \subseteq T
        /\ R = Below(h, h.root)
        /\ \A n \in R : Key(n) \in Nat
    BY <1>R, ReachFacts, NodeFacts DEF Pointer, Reach
  <1>2. h.root \in S \cup {Null}
    BY <1>1, <1>S
  <1>3. ASSUME NEW y \in S, NEW s \in Side, h[s][y] # Null PROVE h[s][y] \in S
    <2>c. PICK c : c = h[s][y]
      OBVIOUS
    <2>1. y \in R /\ c \in R /\ c \in Below(h, y) /\ Closed(h, Below(h, y))
      <3>1. y \in R /\ c \in R
        BY <1>1, <1>3, <1>S, <2>c DEF Closed
      <3>2. Closed(h, Below(h, y)) /\ y \in Below(h, y)
        BY <3>1, <1>1, BelowLeast
      <3> QED BY <3>1, <3>2, <2>c, <1>3 DEF Closed
    <2>2. ASSUME NEW w \in R, w \notin Below(h, c), NEW d \in Below(h, c)
          PROVE  Key(w) < Key(d) <=> Key(w) < Key(c)
      <3>1. d \in Below(h, y) /\ d \in R /\ c \in Below(h, c)
        BY <2>1, <2>2, <1>1, BelowIn
      <3>2. /\ On(s, Key(d), Key(y)) /\ On(s, Key(c), Key(y))
            /\ Key(d) \in Nat /\ Key(c) \in Nat /\ Key(y) \in Nat /\ Key(w) \in Nat
        BY <3>1, <2>1, <2>2, <2>c, <1>1, <1>R, SearchTreeSides
      <3>3. CASE w \notin Below(h, y)
        BY <3>1, <3>3, <2>1, <1>S
      <3>4. CASE w = y
        BY <3>2, <3>4 DEF On
      <3>5. CASE w \in Below(h, y) /\ w # y
        <4>1. PICK t \in Side : h[t][y] # Null /\ w \in Below(h, h[t][y])
          BY <3>5, <2>1, <1>1, BelowParts
        <4>2. t # s
          BY <4>1, <2>2, <2>c
        <4>3. On(t, Key(w), Key(y))
          BY <4>1, <2>1, <1>R, SearchTreeSides
        <4> QED BY <4>2, <4>3, <3>2 DEF On, Side
      <3> QED BY <3>3, <3>4, <3>5
    <2> QED BY <2>1, <2>2, <2>c, <1>S
  <1>4. S \in SUBSET Node /\ Closed(h, S)
    BY <1>1, <1>3, <1>S DEF Closed
  <1>5. R \subseteq S
    BY <1>1, <1>2, <1>4
  <1>6. z \in S /\ x \in R
    BY <1>5, <1>R
  <1> QED
    BY <1>6, <1>S

\* Going up from the right, the elements left behind are smaller.
LEMMA UpEnds ==
    ASSUME NEW h, RightTree(h), NEW n \in Reach(h), h["right"][n] = Null
    PROVE  LET b == Iterate(Up(h, "right"), n) IN
           /\ b \in Reach(h) /\ n \in Below(h, b) /\ \A x \in Below(h, b) : Key(x) <= Key(n)
           /\ h.parent[b] = Null \/ h["left"][h.parent[b]] = b
  <1>R. PICK R : R = Reach(h)
    OBVIOUS
  <1>f. PICK f : f = Up(h, "right")
    OBVIOUS
  <1>1. /\ h \in Heap /\ IsSearchTree(h) /\ R \in SUBSET Node /\ Closed(h, R) /\ n \in R
        /\ \A m \in R : /\ Below(h, m) \subseteq R /\ m \in Below(h, m) /\ m \in Pointer
                        /\ Key(m) \in Nat
        /\ "right" \in Side /\ "left" \in Side /\ Side = {"left", "right"}
    BY <1>R, ReachFacts, NodeFacts DEF RightTree, Pointer, Side
  <1>P. PICK P : P = {m \in R : n \in Below(h, m) /\ \A x \in Below(h, m) : Key(x) <= Key(n)}
    OBVIOUS
  <1>r. PICK r : r = [m \in P |-> Cardinality(Node) - Cardinality(Below(h, m))]
    OBVIOUS
  <1>2. /\ \A m \in R : Cardinality(Below(h, m)) \in Nat /\ Cardinality(Below(h, m)) <= Cardinality(Node)
        /\ \A m \in R, s \in Side : h[s][m] # Null =>
               Cardinality(Below(h, h[s][m])) < Cardinality(Below(h, m))
    <2>1. /\ [m \in R |-> Cardinality(Below(h, m))] \in [R -> Nat]
          /\ \A m \in R : [d \in R |-> Cardinality(Below(h, d))][m] <= Cardinality(Node)
          /\ \A m \in R, s \in Side : h[s][m] # Null =>
                 [d \in R |-> Cardinality(Below(h, d))][h[s][m]] < [d \in R |-> Cardinality(Below(h, d))][m]
      BY <1>1, <1>R, FewerBelow
    <2>2. \A m \in R, s \in Side : h[s][m] # Null => h[s][m] \in R
      BY <1>1 DEF Closed
    <2> QED BY <2>1, <2>2
  <1>3. \A m \in Node : f[m] = IF h.parent[m] # Null /\ m = h["right"][h.parent[m]]
                              THEN h.parent[m] ELSE m
    BY <1>f DEF Up
  <1>4. f \in [Node -> Node]
    <2>1. \A m \in Node : f[m] \in Node
      BY <1>1, <1>3, HeapFacts DEF Pointer
    <2>2. f = [m \in Node |-> f[m]]
      BY <1>f DEF Up
    <2> QED BY <2>1, <2>2
  <1>5. n \in P
    <2>1. ASSUME NEW x \in Below(h, n) PROVE Key(x) <= Key(n)
      <3>1. Key(x) \in Nat /\ Key(n) \in Nat /\ n \in Node
        BY <1>1
      <3>2. CASE x = n
        BY <3>1, <3>2
      <3>3. CASE x # n
        <4>1. PICK s \in Side : h[s][n] # Null /\ x \in Below(h, h[s][n])
          BY <3>1, <3>3, <1>1, BelowParts
        <4>2. s = "left"
          BY <4>1, <1>1
        <4>3. On("left", Key(x), Key(n))
          BY <4>1, <4>2, <1>1, <1>R, SearchTreeSides
        <4> QED BY <4>3, <3>1 DEF On
      <3> QED BY <3>2, <3>3
    <2> QED BY <2>1, <1>1, <1>P
  <1>6. ASSUME NEW m \in P, f[m] # m PROVE f[m] \in P /\ r[f[m]] < r[m]
    <2>p. PICK p : p = h.parent[m]
      OBVIOUS
    <2>1. m \in R /\ m \in Node /\ n \in Below(h, m) /\ \A x \in Below(h, m) : Key(x) <= Key(n)
      BY <1>1, <1>P
    <2>2. p # Null /\ m = h["right"][p] /\ f[m] = p /\ p \in R /\ p \in Node
      <3>1. p # Null /\ m = h["right"][p] /\ f[m] = p
        BY <2>1, <2>p, <1>3, <1>6
      <3>2. p \in R \cup {Null}
        BY <2>1, <2>p, <1>R, Links
      <3> QED BY <3>1, <3>2, <1>1
    <2>3. m \in Below(h, p)
      <3>1. Closed(h, Below(h, p)) /\ p \in Below(h, p) /\ m # Null
        BY <2>1, <2>2, <1>1, BelowLeast, NodeFacts
      <3> QED BY <3>1, <2>2, <1>1 DEF Closed
    <2>4. n \in Below(h, p)
      BY <2>1, <2>2, <2>3, <1>1, BelowIn
    <2>5. On("right", Key(n), Key(p)) /\ Key(n) \in Nat /\ Key(p) \in Nat
      BY <2>1, <2>2, <1>1, <1>R, SearchTreeSides
    <2>6. ASSUME NEW x \in Below(h, p) PROVE Key(x) <= Key(n)
      <3>1. Key(x) \in Nat
        BY <2>2, <1>1
      <3>2. CASE x = p
        BY <3>1, <3>2, <2>5 DEF On
      <3>3. CASE x # p
        <4>1. PICK s \in Side : h[s][p] # Null /\ x \in Below(h, h[s][p])
          BY <3>3, <2>2, <1>1, BelowParts
        <4>2. CASE s = "right"
          BY <4>1, <4>2, <2>1, <2>2
        <4>3. CASE s = "left"
          <5>1. On("left", Key(x), Key(p))
            BY <4>1, <4>3, <2>2, <1>1, <1>R, SearchTreeSides
          <5> QED BY <5>1, <3>1, <2>5 DEF On
        <4> QED BY <4>1, <4>2, <4>3, <1>1
      <3> QED BY <3>2, <3>3
    <2>7. p \in P
      BY <2>2, <2>4, <2>6, <1>P
    <2>8. Cardinality(Below(h, m)) < Cardinality(Below(h, p))
      <3>1. m # Null
        BY <2>1, NodeFacts
      <3> QED BY <3>1, <2>2, <1>1, <1>2
    <2>9. r[p] < r[m]
      <3>1. r[p] = Cardinality(Node) - Cardinality(Below(h, p))
            /\ r[m] = Cardinality(Node) - Cardinality(Below(h, m))
        BY <2>7, <1>6, <1>r
      <3> QED BY <3>1, <2>1, <2>2, <2>8, <1>2, NodeFacts
    <2> QED BY <2>2, <2>7, <2>9
  <1>7. /\ P \in SUBSET Node /\ r \in [P -> Nat] /\ r[n] <= Cardinality(Node)
        /\ \A y \in P : f[y] \in P
        /\ \A y \in P : f[y] # y => r[f[y]] < r[y]
    <2>1. P \in SUBSET Node /\ P \subseteq R
      BY <1>1, <1>P
    <2>2. \A m \in P : /\ r[m] = Cardinality(Node) - Cardinality(Below(h, m))
                       /\ r[m] \in Nat /\ r[m] <= Cardinality(Node)
      BY <2>1, <1>2, <1>r, NodeFacts
    <2>3. r \in [P -> Nat]
      BY <2>2, <1>r
    <2> QED BY <2>1, <2>2, <2>3, <1>5, <1>6
  <1>b. PICK b : b = Iterate(f, n)
    OBVIOUS
  <1>8. b \in P /\ f[b] = b
    <2>1. Iterate(f, n) \in P /\ f[Iterate(f, n)] = Iterate(f, n)
      BY ONLY <1>4, <1>5, <1>7, IterateEnds
    <2> QED BY <2>1, <1>b
  <1>9. b \in R /\ b \in Node /\ n \in Below(h, b) /\ \A x \in Below(h, b) : Key(x) <= Key(n)
    BY <1>1, <1>8, <1>P
  <1>10. h.parent[b] = Null \/ h["left"][h.parent[b]] = b
    <2> SUFFICES ASSUME h.parent[b] # Null PROVE h["left"][h.parent[b]] = b
      OBVIOUS
    <2>1. h.parent[b] # b /\ (h.parent[b] = Null <=> b = h.root)
          /\ (b # h.root => \E s \in Side : h[s][h.parent[b]] = b)
      BY <1>9, <1>R, Links
    <2>2. b # h["right"][h.parent[b]]
      BY <2>1, <1>3, <1>8, <1>9
    <2> QED BY <2>1, <2>2, <1>1
  <1> QED
    BY <1>9, <1>10, <1>b, <1>f, <1>R

\* RB_NEXT is the element with the next key.
LEMMA StepIs ==
    ASSUME NEW h, RightTree(h), NEW n \in Reach(h)
    PROVE  LET y == Step(h, "right", n) IN
           /\ y = Null => \A x \in Reach(h) : Key(x) <= Key(n)
           /\ y # Null => /\ y \in Reach(h) /\ Key(y) > Key(n)
                          /\ \A x \in Reach(h) : Key(x) > Key(n) => Key(x) >= Key(y)
  <1>R. PICK R : R = Reach(h)
    OBVIOUS
  <1>y. PICK y : y = Step(h, "right", n)
    OBVIOUS
  <1>1. /\ h \in Heap /\ IsSearchTree(h) /\ R \in SUBSET Node /\ Closed(h, R) /\ n \in R /\ n \in Node
        /\ \A m \in R : /\ Below(h, m) \subseteq R /\ m \in Below(h, m) /\ m \in Pointer
                        /\ Key(m) \in Nat
        /\ R = Below(h, h.root) /\ Null \notin R
        /\ "right" \in Side /\ "left" \in Side /\ Side = {"left", "right"}
    BY <1>R, ReachFacts, NodeFacts DEF RightTree, Pointer, Side, Reach
  <1>2. CASE h["right"][n] # Null
    <2>c. PICK c : c = h["right"][n]
      OBVIOUS
    <2>1. c \in R /\ y = Far(h, "left", c)
      <3>1. c \in R
        BY <2>c, <1>1, <1>2 DEF Closed
      <3>2. Other["right"] = "left"
        BY OtherSide
      <3> QED BY <3>1, <3>2, <2>c, <1>2, <1>y DEF Step
    <2>2. /\ y \in Below(h, c) /\ y \in R
          /\ \A x \in Below(h, c) : x = y \/ On("right", Key(x), Key(y))
      <3>1. Other["left"] = "right"
        BY OtherSide
      <3>2. LET b == Far(h, "left", c) IN
            /\ b \in Below(h, c) /\ b \in Reach(h)
            /\ \A x \in Below(h, c) : x = b \/ On(Other["left"], Key(x), Key(b))
        BY <2>1, <1>1, <1>R, FarEnds
      <3> QED BY <3>1, <3>2, <2>1, <1>R
    <2>3. On("right", Key(y), Key(n)) /\ Key(y) \in Nat /\ Key(n) \in Nat
      BY <2>2, <2>c, <1>1, <1>R, SearchTreeSides
    <2>4. y \in Below(h, n)
      <3>1. Closed(h, Below(h, n)) /\ n \in Below(h, n)
        BY <1>1, BelowLeast
      <3>2. c \in Below(h, n)
        BY <3>1, <2>c, <1>1, <1>2 DEF Closed
      <3> QED BY <3>2, <2>2, <1>1, BelowIn
    <2>5. ASSUME NEW x \in R, Key(x) > Key(n) PROVE Key(x) >= Key(y)
      <3>1. Key(x) \in Nat
        BY <1>1
      <3>2. CASE x \in Below(h, n)
        <4>1. x # n
          BY <3>1, <2>3, <2>5
        <4>2. PICK s \in Side : h[s][n] # Null /\ x \in Below(h, h[s][n])
          BY <4>1, <3>2, <1>1, BelowParts
        <4>3. On(s, Key(x), Key(n))
          BY <4>2, <1>1, <1>R, SearchTreeSides
        <4>4. s = "right"
          BY <4>3, <3>1, <2>3, <2>5, <1>1 DEF On
        <4>5. x = y \/ On("right", Key(x), Key(y))
          BY <4>2, <4>4, <2>2, <2>c
        <4> QED BY <4>5, <3>1, <2>3 DEF On
      <3>3. CASE x \notin Below(h, n)
        <4>1. Key(x) < Key(y) <=> Key(x) < Key(n)
          BY <3>3, <2>4, <1>1, <1>R, OutsideOrder
        <4> QED BY <4>1, <3>1, <2>3, <2>5
      <3> QED BY <3>2, <3>3
    <2> QED BY <2>2, <2>3, <2>5, <1>1, <1>R, <1>y DEF On
  <1>3. CASE h["right"][n] = Null
    <2>b. PICK b : b = Iterate(Up(h, "right"), n)
      OBVIOUS
    <2>1. /\ b \in R /\ n \in Below(h, b) /\ \A x \in Below(h, b) : Key(x) <= Key(n)
          /\ h.parent[b] = Null \/ h["left"][h.parent[b]] = b
      BY <2>b, <1>3, <1>R, UpEnds
    <2>2. y = h.parent[b]
      BY <2>b, <1>3, <1>y DEF Step
    <2>3. y \in R \cup {Null} /\ (y = Null <=> b = h.root)
      BY <2>1, <2>2, <1>R, Links
    <2>4. CASE y = Null
      <3>1. Below(h, b) = R
        BY <2>3, <2>4, <1>1
      <3> QED BY <3>1, <2>1, <2>4, <1>R, <1>y
    <2>5. CASE y # Null
      <3>1. y \in R /\ y \in Node /\ h["left"][y] = b /\ b # Null
        BY <2>1, <2>2, <2>3, <2>5, <1>1
      <3>2. On("left", Key(n), Key(y)) /\ On("left", Key(b), Key(y))
            /\ Key(n) \in Nat /\ Key(y) \in Nat /\ Key(b) \in Nat
        BY <3>1, <2>1, <1>1, <1>R, SearchTreeSides
      <3>3. n \in Below(h, y)
        <4>1. Closed(h, Below(h, y)) /\ y \in Below(h, y)
          BY <3>1, <1>1, BelowLeast
        <4>2. b \in Below(h, y)
          BY <4>1, <3>1, <1>1 DEF Closed
        <4> QED BY <4>2, <3>1, <2>1, <1>1, BelowIn
      <3>4. ASSUME NEW x \in R, Key(x) > Key(n) PROVE Key(x) >= Key(y)
        <4>1. Key(x) \in Nat
          BY <1>1
        <4>2. CASE x \in Below(h, y)
          <5>1. CASE x = y
            BY <5>1, <4>1
          <5>2. CASE x # y
            <6>1. PICK s \in Side : h[s][y] # Null /\ x \in Below(h, h[s][y])
              BY <5>2, <4>2, <3>1, <1>1, BelowParts
            <6>2. s # "left"
              <7>1. x \notin Below(h, b)
                BY <4>1, <3>2, <3>4, <2>1
              <7> QED BY <7>1, <6>1, <3>1
            <6>3. On(s, Key(x), Key(y))
              BY <6>1, <3>1, <1>R, <1>1, SearchTreeSides
            <6> QED BY <6>2, <6>3, <4>1, <3>2 DEF On
          <5> QED BY <5>1, <5>2
        <4>3. CASE x \notin Below(h, y)
          <5>1. Key(x) < Key(n) <=> Key(x) < Key(y)
            BY <4>3, <3>1, <3>3, <1>1, <1>R, OutsideOrder
          <5> QED BY <5>1, <4>1, <3>2, <3>4
        <4> QED BY <4>2, <4>3
      <3> QED BY <3>1, <3>2, <3>4, <2>5, <1>R, <1>y DEF On
    <2> QED BY <2>4, <2>5
  <1> QED
    BY <1>2, <1>3

-----------------------------------------------------------------------------
\* RB_FOREACH

\* A visit: the elements one after the other, and Null after the last one.
IsVisit(h, v, C) ==
    /\ v \in [1 .. C -> Reach(h) \cup {Null}]
    /\ C >= 1 => v[1] = MinMax(h, "left")
    /\ \A i \in 1 .. C - 1 : v[i + 1] = IF v[i] = Null THEN Null ELSE Step(h, "right", v[i])

\* The walk of VARS_FOREACH, as a sequence of visits that ends in NULL
LEMMA WalkIsVisit ==
    ASSUME NEW h, RightTree(h)
    PROVE  \E v : /\ IsVisit(h, v, Cardinality(Node))
                  /\ Walk(h, "right") =
                        [i \in 1 .. Cardinality({j \in 1 .. Cardinality(Node) : v[j] # Null}) |-> v[i]]
  <1> DEFINE C == Cardinality(Node)
             visit[i \in 1 .. C] ==
                 IF i = 1 THEN MinMax(h, Other["right"])
                 ELSE IF visit[i - 1] = Null THEN Null ELSE Step(h, "right", visit[i - 1])
  <1>0. Walk(h, "right") = [i \in 1 .. Cardinality({j \in 1 .. C : visit[j] # Null}) |-> visit[i]]
    BY Zenon DEF Walk
  <1> HIDE DEF visit
  <1>X. PICK X : X = Reach(h) \cup {Null}
    OBVIOUS
  <1>f. PICK f : f = [n \in X |-> IF n = Null THEN Null ELSE Step(h, "right", n)]
    OBVIOUS
  <1>x. PICK x : x = MinMax(h, "left")
    OBVIOUS
  <1>1. h \in Heap /\ IsSearchTree(h) /\ Cardinality(Node) \in Nat /\ Other["right"] = "left" /\ "left" \in Side
    BY NodeFacts, OtherSide DEF RightTree, Side
  <1>2. f \in [X -> X]
    <2>1. ASSUME NEW n \in Reach(h) PROVE Step(h, "right", n) \in X
      BY <2>1, <1>X, StepIs
    <2> QED BY <2>1, <1>X, <1>f
  <1>3. x \in X
    BY <1>1, <1>X, <1>x, MinMaxIs DEF MinMax
  <1>4. \E a \in [0 .. Cardinality(Node) -> X] :
           /\ a[0] = x /\ Iterate(f, x) = a[Cardinality(Node)]
           /\ \A i \in 1 .. Cardinality(Node) : a[i] = f[a[i - 1]]
    BY ONLY <1>2, <1>3, Rounds
  <1>c. C \in Nat
    BY <1>1
  <1> HIDE DEF C
  <1>5. PICK a \in [0 .. C -> X] : a[0] = x /\ \A i \in 1 .. C : a[i] = f[a[i - 1]]
    BY <1>4 DEF C
  <1>v. PICK v : v = [i \in 1 .. C |-> a[i - 1]]
    OBVIOUS
  <1>6. v \in [1 .. C -> X]
    BY <1>c, <1>1, <1>5, <1>v
  <1>7. ASSUME NEW i \in 1 .. C, i # 1
        PROVE  v[i] = IF v[i - 1] = Null THEN Null ELSE Step(h, "right", v[i - 1])
    <2>1. i - 1 \in 1 .. C /\ i - 1 \in 0 .. C
      BY <1>c, <1>1, <1>7
    <2>2. v[i] = a[i - 1] /\ v[i - 1] = a[(i - 1) - 1] /\ a[i - 1] = f[a[(i - 1) - 1]] /\ v[i - 1] \in X
      BY <2>1, <1>5, <1>6, <1>v
    <2> QED BY <2>2, <1>f
  <1>8. C >= 1 => v[1] = MinMax(h, "left")
    BY <1>c, <1>1, <1>5, <1>v, <1>x
  <1>9. v = [i \in 1 .. C |-> IF i = 1 THEN MinMax(h, Other["right"])
                             ELSE IF v[i - 1] = Null THEN Null ELSE Step(h, "right", v[i - 1])]
    <2>1. \A i \in 1 .. C : v[i] = IF i = 1 THEN MinMax(h, Other["right"])
                                  ELSE IF v[i - 1] = Null THEN Null ELSE Step(h, "right", v[i - 1])
      BY <1>c, <1>1, <1>7, <1>8
    <2>2. v = [i \in 1 .. C |-> v[i]]
      BY <1>6
    <2> QED BY <2>1, <2>2
  <1>10. visit = [i \in 1 .. C |-> IF i = 1 THEN MinMax(h, Other["right"])
                                  ELSE IF visit[i - 1] = Null THEN Null ELSE Step(h, "right", visit[i - 1])]
    BY <1>9, Zenon DEF visit
  <1>12. \A i \in 1 .. C : visit[i] = v[i]
    <2>E. PICK E : E = {i \in 0 .. C : i = 0 \/ visit[i] = v[i]}
      OBVIOUS
    <2>1. 0 \in E
      BY <2>E, <1>c
    <2>2. ASSUME NEW i \in 0 .. C - 1, i \in E PROVE i + 1 \in E
      <3>1. i + 1 \in 1 .. C /\ (i + 1) - 1 = i /\ (i + 1 = 1 <=> i = 0) /\ i + 1 \in 0 .. C
        BY <1>c, <1>1
      <3>2. visit[i + 1] = IF i + 1 = 1 THEN MinMax(h, "left")
                           ELSE IF visit[i] = Null THEN Null ELSE Step(h, "right", visit[i])
        BY <3>1, <1>1, <1>10
      <3>3. v[i + 1] = IF i + 1 = 1 THEN MinMax(h, "left")
                       ELSE IF v[i] = Null THEN Null ELSE Step(h, "right", v[i])
        BY <3>1, <1>7, <1>8
      <3> QED BY <3>1, <3>2, <3>3, <2>2, <2>E
    <2>3. 0 .. C \subseteq E
      BY <2>1, <2>2, <1>c, UpTo
    <2> QED BY <2>3, <2>E, <1>c
  <1>13. visit = v
    <2>1. visit = [i \in 1 .. C |-> visit[i]] /\ v = [i \in 1 .. C |-> v[i]]
      <3>1. DOMAIN visit = 1 .. C
        BY <1>10
      <3> QED BY <3>1, <1>6, <1>10
    <2> QED BY <2>1, <1>12
  <1>14. IsVisit(h, v, C)
    <2>1. ASSUME NEW i \in 1 .. C - 1
          PROVE  v[i + 1] = IF v[i] = Null THEN Null ELSE Step(h, "right", v[i])
      <3>1. i + 1 \in 1 .. C /\ i + 1 # 1 /\ (i + 1) - 1 = i
        BY <1>c, <1>1
      <3> QED BY <3>1, <1>7
    <2> QED BY <2>1, <1>6, <1>8, <1>X DEF IsVisit
  <1> QED
    BY <1>0, <1>13, <1>14 DEF C

\* Each element that is visited has a greater key than the ones before.
LEMMA VisitRises ==
    ASSUME NEW h, RightTree(h), NEW C \in Nat, NEW v, IsVisit(h, v, C)
    PROVE  \A j \in 1 .. C : v[j] # Null =>
               \A i \in 1 .. j - 1 : v[i] # Null /\ Key(v[i]) < Key(v[j])
  <1>1. /\ \A i \in 1 .. C : v[i] \in Reach(h) \cup {Null}
        /\ \A i \in 1 .. C - 1 : v[i + 1] = IF v[i] = Null THEN Null ELSE Step(h, "right", v[i])
    BY DEF IsVisit
  <1>2. \A n \in Reach(h) : Key(n) \in Nat
    BY ReachFacts, NodeFacts DEF RightTree
  <1>E. PICK E : E = {j \in 0 .. C : j >= 1 /\ v[j] # Null =>
                                    \A i \in 1 .. j - 1 : v[i] # Null /\ Key(v[i]) < Key(v[j])}
    OBVIOUS
  <1>3. 0 \in E
    BY <1>E
  <1>4. ASSUME NEW j \in 0 .. C - 1, j \in E PROVE j + 1 \in E
    <2> SUFFICES ASSUME v[j + 1] # Null, NEW i \in 1 .. j
                 PROVE  v[i] # Null /\ Key(v[i]) < Key(v[j + 1])
      BY <1>E
    <2>1. j \in 1 .. C - 1 /\ j \in 1 .. C /\ j + 1 \in 1 .. C /\ i \in 1 .. C
      OBVIOUS
    <2>2. v[j] # Null /\ v[j + 1] = Step(h, "right", v[j]) /\ v[j] \in Reach(h)
          /\ v[j + 1] \in Reach(h)
      BY <2>1, <1>1
    <2>n. PICK n, y : n = v[j] /\ y = v[j + 1]
      OBVIOUS
    <2>3. Key(y) > Key(n) /\ Key(y) \in Nat /\ Key(n) \in Nat
      <3>1. n \in Reach(h) /\ y = Step(h, "right", n) /\ y # Null /\ y \in Reach(h)
        BY <2>2, <2>n
      <3> QED BY <3>1, <1>2, StepIs
    <2>4. CASE i = j
      BY <2>2, <2>3, <2>4, <2>n
    <2>5. CASE i # j
      <3>1. v[i] # Null /\ Key(v[i]) < Key(v[j])
        BY <2>1, <2>2, <2>5, <1>4, <1>E
      <3>2. Key(v[i]) \in Nat
        BY <3>1, <2>1, <1>1, <1>2
      <3> QED BY <3>1, <3>2, <2>3, <2>n
    <2> QED BY <2>4, <2>5
  <1>5. 0 .. C \subseteq E
    BY <1>3, <1>4, UpTo
  <1> QED
    BY <1>5, <1>E

\* No element is left out: there would be one more key than there are elements.
LEMMA VisitMeetsAll ==
    ASSUME NEW h, RightTree(h), NEW C, C = Cardinality(Node), NEW v, IsVisit(h, v, C),
           NEW x \in Reach(h)
    PROVE  \E i \in 1 .. C : v[i] = x
  <1> SUFFICES ASSUME \A i \in 1 .. C : v[i] # x PROVE FALSE
    OBVIOUS
  <1>1. /\ \A i \in 1 .. C : v[i] \in Reach(h) \cup {Null}
        /\ \A i \in 1 .. C - 1 : v[i + 1] = IF v[i] = Null THEN Null ELSE Step(h, "right", v[i])
        /\ C >= 1 => v[1] = MinMax(h, "left")
    BY DEF IsVisit
  <1>2. /\ h \in Heap /\ IsSearchTree(h) /\ Reach(h) \in SUBSET Node /\ h.root # Null
        /\ Null \notin Node /\ x \in Node
        /\ \A n \in Reach(h) : Key(n) \in Nat
    BY ReachFacts, NodeFacts DEF RightTree
  <1>3. C \in Nat /\ C >= 1 /\ IsFiniteSet(Node)
    <2>1. IsFiniteSet(Node) /\ C \in Nat
      BY NodeFacts
    <2>2. C # 0
      BY <2>1, <1>2, FS_EmptySet
    <2> QED BY <2>1, <2>2
  <1>4. \A n \in Reach(h) : Key(n) = Key(x) => n = x
    BY OneKey
  <1>E. PICK E : E = {j \in 0 .. C : j >= 1 => v[j] # Null /\ Key(v[j]) < Key(x)}
    OBVIOUS
  <1>5. 0 \in E
    BY <1>3, <1>E
  <1>6. ASSUME NEW j \in 0 .. C - 1, j \in E PROVE j + 1 \in E
    <2>1. j + 1 \in 1 .. C
      BY <1>3
    <2>y. PICK y : y = v[j + 1]
      OBVIOUS
    <2>2. CASE j = 0
      <3>1. y = MinMax(h, "left") /\ "left" \in Side /\ Other["left"] = "right"
        BY <2>2, <2>y, <1>1, <1>3, OtherSide DEF Side
      <3>2. y \in Reach(h) /\ \A w \in Reach(h) : w = y \/ On(Other["left"], Key(w), Key(y))
        BY <3>1, <1>2, MinMaxIs
      <3>3. y # x /\ y # Null
        BY <3>2, <2>1, <2>y, <1>2
      <3>4. On("right", Key(x), Key(y))
        BY <3>1, <3>2, <3>3
      <3>5. Key(y) < Key(x)
        BY <3>2, <3>4, <1>2 DEF On
      <3> QED BY <3>3, <3>5, <2>1, <2>y, <1>E
    <2>3. CASE j # 0
      <3>1. j \in 1 .. C - 1 /\ j \in 1 .. C /\ j >= 1
        BY <2>3, <1>3
      <3>n. PICK n : n = v[j]
        OBVIOUS
      <3>2. n # Null /\ Key(n) < Key(x) /\ n \in Reach(h) /\ y = Step(h, "right", n)
        BY <3>1, <3>n, <2>y, <1>1, <1>6, <1>E
      <3>3. /\ y = Null => \A w \in Reach(h) : Key(w) <= Key(n)
            /\ y # Null => /\ y \in Reach(h)
                           /\ \A w \in Reach(h) : Key(w) > Key(n) => Key(w) >= Key(y)
        BY <3>2, StepIs
      <3>4. Key(n) \in Nat /\ Key(x) \in Nat
        BY <3>2, <1>2
      <3>5. y # Null
        <4>1. y = Null => Key(x) <= Key(n)
          BY <3>3
        <4> QED BY <4>1, <3>2, <3>4
      <3>6. y \in Reach(h) /\ Key(x) >= Key(y)
        <4>1. Key(x) > Key(n) => Key(x) >= Key(y)
          BY <3>3, <3>5
        <4> QED BY <4>1, <3>2, <3>3, <3>4, <3>5
      <3>7. Key(x) # Key(y)
        BY <3>6, <2>1, <2>y, <1>4
      <3>8. Key(y) < Key(x)
        BY <3>4, <3>6, <3>7, <1>2
      <3> QED BY <3>5, <3>8, <2>1, <2>y, <1>E
    <2> QED BY <2>2, <2>3
  <1>7. 0 .. C \subseteq E
    BY <1>3, <1>5, <1>6, UpTo
  <1>8. \A i \in 1 .. C : v[i] # Null /\ v[i] \in Node \ {x}
    <2>1. \A i \in 1 .. C : v[i] # Null
      BY <1>3, <1>7, <1>E
    <2> QED BY <2>1, <1>1, <1>2
  <1>9. v \in [1 .. C -> Node \ {x}]
    <2>1. v \in [1 .. C -> Reach(h) \cup {Null}]
      BY DEF IsVisit
    <2> QED BY <2>1, <1>8
  <1>10. /\ IsFiniteSet(1 .. C) /\ Cardinality(1 .. C) = C
         /\ IsFiniteSet(Node \ {x}) /\ Cardinality(Node \ {x}) = C - 1
    <2>1. IsFiniteSet(1 .. C) /\ Cardinality(1 .. C) = C
      BY <1>3, FS_Interval
    <2>2. IsFiniteSet(Node \ {x}) /\ Cardinality(Node \ {x}) = Cardinality(Node) - 1
      BY <1>2, <1>3, FS_RemoveElement
    <2> QED BY <2>1, <2>2
  <1>11. PICK i \in 1 .. C, j \in 1 .. C : i # j /\ v[i] = v[j]
    <2>1. Cardinality(Node \ {x}) < Cardinality(1 .. C)
      BY <1>3, <1>10
    <2>2. \E i, j \in 1 .. C : i # j /\ v[i] = v[j]
      BY ONLY <2>1, <1>9, <1>10, FS_PigeonHole
    <2> QED BY <2>2
  <1>12. \A b \in 1 .. C : v[b] # Null => \A a \in 1 .. b - 1 : v[a] # Null /\ Key(v[a]) < Key(v[b])
    BY <1>3, VisitRises
  <1>13. \A a, b \in 1 .. C : a < b => Key(v[a]) < Key(v[b])
    BY <1>3, <1>8, <1>12
  <1>14. Key(v[i]) < Key(v[j]) \/ Key(v[j]) < Key(v[i])
    <2>1. i < j \/ j < i
      BY <1>11
    <2> QED BY <2>1, <1>13
  <1>15. Key(v[i]) \in Nat
    BY <1>1, <1>2, <1>8
  <1> QED
    BY <1>11, <1>14, <1>15

\* A set of numbers that holds all that come before each of its own is an interval.
LEMMA FirstOnes ==
    ASSUME NEW C \in Nat, NEW E, E \subseteq 1 .. C, \A j \in E : \A i \in 1 .. j - 1 : i \in E
    PROVE  E = 1 .. Cardinality(E)
  <1>S. PICK S : S = {n \in 0 .. C : \E K \in 0 .. n : \A j \in 1 .. n : j \in E <=> j <= K}
    OBVIOUS
  <1>1. 0 \in S
    <2>1. 0 \in 0 .. C /\ 0 \in 0 .. 0 /\ \A j \in 1 .. 0 : j \in E <=> j <= 0
      OBVIOUS
    <2> QED BY <2>1, <1>S
  <1>2. ASSUME NEW n \in 0 .. C - 1, n \in S PROVE n + 1 \in S
    <2>0. n \in Nat /\ n + 1 \in 0 .. C
      OBVIOUS
    <2>1. CASE n + 1 \in E
      <3>1. \A i \in 1 .. (n + 1) - 1 : i \in E
        BY <2>1
      <3>2. \A j \in 1 .. n + 1 : j \in E <=> j <= n + 1
        <4>1. ASSUME NEW j \in 1 .. n + 1 PROVE j \in E /\ j <= n + 1
          BY <4>1, <3>1, <2>0, <2>1
        <4> QED BY <4>1
      <3>3. n + 1 \in 0 .. n + 1
        BY <2>0
      <3> QED BY <3>2, <3>3, <2>0, <1>S
    <2>2. CASE n + 1 \notin E
      <3>1. PICK K \in 0 .. n : \A j \in 1 .. n : j \in E <=> j <= K
        BY <1>2, <1>S
      <3>2. \A j \in 1 .. n + 1 : j \in E <=> j <= K
        <4>1. ASSUME NEW j \in 1 .. n + 1 PROVE j \in E <=> j <= K
          <5>1. CASE j = n + 1
            BY <5>1, <3>1, <2>0, <2>2
          <5>2. CASE j # n + 1
            BY <5>2, <4>1, <3>1, <2>0
          <5> QED BY <5>1, <5>2
        <4> QED BY <4>1
      <3>3. K \in 0 .. n + 1
        BY <3>1, <2>0
      <3> QED BY <3>2, <3>3, <2>0, <1>S
    <2> QED BY <2>1, <2>2
  <1>3. C \in S
    <2>1. 0 .. C \subseteq S
      BY <1>1, <1>2, UpTo
    <2> QED BY <2>1
  <1>4. PICK K \in 0 .. C : \A j \in 1 .. C : j \in E <=> j <= K
    BY <1>3, <1>S
  <1>5. E = 1 .. K
    <2>1. \A j \in E : j \in 1 .. C /\ j \in Nat /\ j >= 1
      OBVIOUS
    <2>2. \A j \in E : j \in 1 .. K
      BY <2>1, <1>4
    <2>3. \A j \in 1 .. K : j \in 1 .. C /\ j <= K
      BY <1>4
    <2>4. \A j \in 1 .. K : j \in E
      BY <2>3, <1>4
    <2> QED BY <2>2, <2>4
  <1>6. Cardinality(1 .. K) = K
    <2>1. Cardinality(1 .. K) = IF 1 > K THEN 0 ELSE K - 1 + 1
      BY FS_Interval
    <2> QED BY <2>1
  <1> QED
    BY <1>5, <1>6
==============================================================================
