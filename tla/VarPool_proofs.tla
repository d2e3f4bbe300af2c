--------------------------- MODULE VarPool_proofs ---------------------------
(***************************************************************************)
(* Machine-checked proofs about VarPool, for every finite set of           *)
(* identifiers, every trace and any number of ^C up to the first that      *)
(* loses a variable: what the tree of a pool of variables is after a ^C at *)
(* any store, and what it is until the first.                              *)
(***************************************************************************)
EXTENDS VarPool, RBTree_proofs

-----------------------------------------------------------------------------
(* The invariant with ^C at any store *)

\* Where minerva_var_new and minerva_var_destroy may be
Places == {"idle", "insert", "color", "remove", "balance", "nephews", "free",
           "empty", "gone", "abort", "dead", "undefined"}

\* Where the shape of the tree is right: between the check at the start of an
\* operation and its end, or a ^C.
Working == {"insert", "color", "remove", "balance", "nephews", "free"}

\* The tree, the element at hand and the elements in the loops
Tidy(h, F, at, v, e, p, hu) ==
    /\ F \in SUBSET Node /\ h \in SafeHeaps(F)
    /\ v \in Pointer /\ e \in Pointer /\ p \in Pointer /\ v \notin F /\ at \in Places
    /\ at \in Working => RightTree(h) /\ (at # "color" => v \in Node)
    /\ at \in {"idle", "empty", "insert"} /\ v # Null => Fresh(h, v) /\ v \notin Reach(h)
    /\ at = "color" => e \in Reach(h)
    /\ at = "remove" => v \in Reach(h) \/ (Fresh(h, v) /\ "stray" \in hu)
    /\ at \in {"balance", "nephews", "free"} =>
           v \notin Reach(h) /\ e \in Reach(h) \cup {Null} /\ p \in Reach(h) \cup {Null}

\* The inductive invariant, with ^C at any store
PoolInv ==
    /\ Tidy(heap, freed, pc, var, elm, par, hurt)
    /\ len \in Int /\ curId \in Nat /\ sigints \in 0 .. MaxSigint

\* What it says of a heap
LEMMA TidyFacts ==
    ASSUME NEW h, NEW F, NEW at, NEW v, NEW e, NEW p, NEW hu, Tidy(h, F, at, v, e, p, hu)
    PROVE  /\ F \in SUBSET Node /\ h \in SafeHeaps(F) /\ h \in Heap /\ IsSearchTree(h)
           /\ Reach(h) \cap F = {} /\ (\A n \in F : Fresh(h, n)) /\ Reach(h) \in SUBSET Node
           /\ v \in Pointer /\ e \in Pointer /\ p \in Pointer /\ v \notin F
           /\ (at \in Working => RightTree(h) /\ (at # "color" => v \in Node))
           /\ Null \notin Reach(h) /\ Null \notin Node
  <1>1. F \in SUBSET Node /\ h \in SafeHeaps(F) /\ v \in Pointer /\ e \in Pointer /\ p \in Pointer /\ v \notin F
    BY DEF Tidy
  <1>2. at \in Working => RightTree(h) /\ (at # "color" => v \in Node)
    BY DEF Tidy
  <1>3. /\ h \in Heap /\ IsSearchTree(h) /\ Reach(h) \cap F = {} /\ (\A n \in F : Fresh(h, n))
        /\ Reach(h) \in SUBSET Node
    BY <1>1, SafeFacts, ReachFacts
  <1> QED
    BY <1>1, <1>2, <1>3, NodeFacts

\* After a ^C, or where an operation is over
LEMMA TidyIdle ==
    ASSUME NEW F \in SUBSET Node, NEW h \in SafeHeaps(F), NEW hu,
           NEW at \in {"idle", "empty", "gone", "abort", "dead", "undefined"}
    PROVE  Tidy(h, F, at, Null, Null, Null, hu)
  BY NodeFacts DEF Tidy, Places, Working, Pointer

\* A ^C among stores that leave the tree safe leaves the pool tidy.
LEMMA CutTidy ==
    ASSUME PoolInv, NEW stores, NEW g, Leads(heap, stores, SafeHeaps(freed), g), Cut(stores)
    PROVE  PoolInv'
  <1>1. /\ sigints' = sigints + 1 /\ sigints < MaxSigint /\ freed' = freed /\ pc' = "idle"
        /\ var' = Null /\ elm' = Null /\ par' = Null
        /\ len' = len /\ curId' = curId /\ hurt' = hurt
    BY DEF Cut, Clear
  <1>2. PICK k \in 0 .. Len(stores) : heap' = Apply(heap, SubSeq(stores, 1, k))
    BY DEF Cut, AllOf
  <1>3. Along(heap, stores, SafeHeaps(freed))
    BY DEF Leads
  <1>h. PICK h : h = heap'
    OBVIOUS
  <1>4. h \in SafeHeaps(freed)
    BY <1>2, <1>3, <1>h DEF Along
  <1>5. freed \in SUBSET Node
    BY DEF PoolInv, Tidy
  <1>6. Tidy(h, freed, "idle", Null, Null, Null, hurt)
    BY <1>4, <1>5, TidyIdle
  <1>7. Tidy(heap', freed', pc', var', elm', par', hurt')
    BY <1>1, <1>6, <1>h
  <1>8. len' \in Int /\ curId' \in Nat /\ sigints' \in 0 .. MaxSigint
    BY <1>1, PoolConstants, IdsAssumption DEF PoolInv
  <1> QED
    BY <1>7, <1>8 DEF PoolInv

\* So does a pointer that is NULL and followed.
LEMMA FaultTidy ==
    ASSUME PoolInv, Fault
    PROVE  PoolInv'
  <1>1. /\ heap' = heap /\ freed' = freed /\ sigints' = sigints /\ len' = len /\ curId' = curId
        /\ var' = Null /\ elm' = Null /\ par' = Null /\ pc' \in {"idle", "dead"}
    BY DEF Fault, Clear
  <1>2. freed \in SUBSET Node /\ heap \in SafeHeaps(freed)
    BY DEF PoolInv, Tidy
  <1>3. Tidy(heap', freed', pc', var', elm', par', hurt')
    BY <1>1, <1>2, TidyIdle
  <1>4. len' \in Int /\ curId' \in Nat /\ sigints' \in 0 .. MaxSigint
    BY <1>1 DEF PoolInv
  <1> QED
    BY <1>3, <1>4 DEF PoolInv

\* Where RB_REMOVE_COLOR starts, after an element has been taken out
LEMMA TakenParts ==
    ASSUME NEW h, RightTree(h), NEW old \in Reach(h), NEW u, NEW g, TakenBy(h, old, u, g)
    PROVE  LET n == Spliced(h, old)
           IN  /\ OnlyChild(h, n) \in Reach(g) \cup {Null}
               /\ IF h.parent[n] = old THEN n \in Reach(g) ELSE h.parent[n] \in Reach(g) \cup {Null}
  <1>n. PICK n : n = Spliced(h, old)
    OBVIOUS
  <1>c. PICK c : c = OnlyChild(h, n)
    OBVIOUS
  <1>p. PICK p : p = h.parent[n]
    OBVIOUS
  <1>R. PICK R : R = Reach(h)
    OBVIOUS
  <1>1. /\ n \in R /\ Reach(g) = R \ {old} /\ old \in R
        /\ n # old => n \in Below(h, h["right"][old])
    BY <1>n, <1>R, SplicedIs DEF TakenBy
  <1>2. /\ h \in Heap /\ IsSearchTree(h) /\ R \in SUBSET Node /\ Null \notin R
        /\ {c, p} \subseteq R \cup {Null} /\ c # n /\ p # n
        /\ c # Null => \E x \in Side : h[x][n] = c
        /\ \A m \in R, y \in Side : h[y][m] \in R \cup {Null}
    BY <1>1, <1>c, <1>p, <1>R, UnlinkCast DEF RightTree
  <1>3. c # old \/ n = old
    <2> SUFFICES ASSUME n # old, c = old PROVE FALSE
      OBVIOUS
    <2>1. PICK x \in Side : h[x][n] = c
      BY <1>1, <1>2
    <2>2. "right" \in Side
      BY DEF Side
    <2>r. PICK r : r = h["right"][old]
      OBVIOUS
    <2>3. r \in Pointer /\ n \in Below(h, r) /\ old \notin Below(h, r)
      BY <2>r, <2>2, <1>1, <1>2, <1>R, NotBelowChild DEF Pointer
    <2>4. Below(h, r) \in SUBSET Node /\ Closed(h, Below(h, r))
      BY <2>3, <1>2, BelowLeast
    <2>5. c \in Below(h, r)
      BY <2>1, <2>3, <2>4, <1>1, <1>2 DEF Closed
    <2> QED BY <2>3, <2>5
  <1>4. c \in Reach(g) \cup {Null}
    BY <1>1, <1>2, <1>3
  <1>5. IF p = old THEN n \in Reach(g) ELSE p \in Reach(g) \cup {Null}
    BY <1>1, <1>2
  <1> QED
    BY <1>4, <1>5, <1>n, <1>c, <1>p

\* An element that is outside the tree may be freed.
LEMMA FreedSafe ==
    ASSUME NEW F \in SUBSET Node, NEW h \in SafeHeaps(F), NEW v \in Node, v \notin Reach(h)
    PROVE  /\ Freed(h, v) \in SafeHeaps(F \cup {v})
           /\ (RightTree(h) => RightTree(Freed(h, v))) /\ Reach(Freed(h, v)) = Reach(h)
           /\ \A m \in Node : m # v => Freed(h, v).color[m] = h.color[m]
           /\ Freed(h, v).root = h.root
           /\ \A m \in Node, y \in Side : m # v => Freed(h, v)[y][m] = h[y][m]
  <1>g. PICK g : g = Freed(h, v)
    OBVIOUS
  <1>R. PICK R : R = Reach(h)
    OBVIOUS
  <1>Q. PICK Q : Q = Reach(g)
    OBVIOUS
  <1>K. PICK K : K = KeysBelow(h)
    OBVIOUS
  <1>1. /\ h \in Heap /\ IsSearchTree(h) /\ R \cap F = {} /\ (\A m \in F : Fresh(h, m))
        /\ R \in SUBSET Node /\ h.root \in R \cup {Null} /\ Closed(h, R) /\ v \notin R
        /\ Null \notin Node
    BY <1>R, SafeFacts, ReachFacts, NodeFacts
  <1>2. Null \in Pointer /\ "black" \in {"red", "black"}
    BY DEF Pointer
  <1>3. g = [h EXCEPT !.left[v] = Null, !.right[v] = Null, !.parent[v] = Null, !.color[v] = "black"]
    BY <1>g DEF Freed
  <1>4. /\ g \in Heap /\ g.root = h.root
        /\ g.left = [h.left EXCEPT ![v] = Null] /\ g.right = [h.right EXCEPT ![v] = Null]
        /\ g.parent = [h.parent EXCEPT ![v] = Null] /\ g.color = [h.color EXCEPT ![v] = "black"]
    BY <1>1, <1>2, <1>3 DEF Heap
  <1>5. /\ h["left"] = h.left /\ h["right"] = h.right /\ h["parent"] = h.parent
        /\ g["left"] = g.left /\ g["right"] = g.right /\ g["parent"] = g.parent
        /\ h.left \in [Node -> Pointer] /\ h.right \in [Node -> Pointer]
        /\ h.parent \in [Node -> Pointer] /\ h.color \in [Node -> {"red", "black"}]
    BY <1>1, <1>4 DEF Heap
  <1>6. /\ \A f \in Field, m \in Node : g[f][m] = IF m = v THEN Null ELSE h[f][m]
        /\ \A m \in Node : g.color[m] = IF m = v THEN "black" ELSE h.color[m]
    BY <1>4, <1>5 DEF Field
  <1>7. \A m \in F \cup {v} : Fresh(g, m)
    BY <1>1, <1>6 DEF Fresh
  <1>8. Certified(h, R, K)
    BY <1>1, <1>R, <1>K, OwnCertificate
  <1>9. \A m \in R, y \in Side : g[y][m] = h[y][m] /\ g.parent[m] = h.parent[m] /\ y \in Field
    BY <1>1, <1>5, <1>6, SidesAreFields DEF SideField
  <1>10. ASSUME NEW m \in R, NEW y \in Side PROVE LinkRight(g, R, K, m, y)
    BY <1>8, <1>9 DEF LinkRight, Certified, Closed
  <1>11. g \in SafeHeaps(F \cup {v})
    <2>1. \A m \in R : Key(m) \in K[m]
      BY <1>8 DEF Certified
    <2>2. R \cap (F \cup {v}) = {} /\ F \cup {v} \in SUBSET Node /\ g.root \in R \cup {Null}
      BY <1>1, <1>4
    <2> QED BY <2>1, <2>2, <1>1, <1>4, <1>7, <1>10, SafeByCertificate
  <1>12. Q \in SUBSET Node /\ Closed(g, Q) /\ g.root \in Q \cup {Null}
    BY <1>Q, <1>4, ReachFacts
  <1>13. Q \subseteq R
    <2>1. Closed(g, R) /\ g.root \in R \cup {Null}
      BY <1>1, <1>4, <1>9 DEF Closed
    <2> QED BY <2>1, <1>Q, <1>1, <1>4, ReachFacts
  <1>14. R \subseteq Q
    <2>1. Closed(h, Q) /\ h.root \in Q \cup {Null}
      BY <1>4, <1>9, <1>12, <1>13 DEF Closed
    <2> QED BY <2>1, <1>R, <1>1, <1>12, ReachFacts
  <1>15. RightTree(h) => RightTree(g)
    <2> SUFFICES ASSUME RightTree(h) PROVE RightTree(g)
      OBVIOUS
    <2>1. /\ h.root # Null => h.parent[h.root] = Null
          /\ \A n \in R : \A s \in Side : h[s][n] # Null => h.parent[h[s][n]] = n
      BY <1>R DEF RightTree, ParentsRight
    <2>2. g.root # Null => g.parent[g.root] = Null
      BY <2>1, <1>1, <1>4, <1>9, SidesAreFields DEF SideField
    <2>3. ASSUME NEW n \in Q, NEW s \in Side, g[s][n] # Null PROVE g.parent[g[s][n]] = n
      <3>1. n \in R /\ g[s][n] = h[s][n]
        BY <1>9, <1>13
      <3>2. h[s][n] \in R
        BY <3>1, <2>3, <1>1 DEF Closed
      <3> QED BY <3>1, <3>2, <2>1, <2>3, <1>9
    <2>4. ParentsRight(g)
      BY <2>2, <2>3, <1>Q DEF ParentsRight
    <2>5. IsSearchTree(g)
      BY <1>11, SafeFacts
    <2> QED BY <2>4, <2>5, <1>4 DEF RightTree
  <1>16. \A m \in Node, y \in Side : m # v => g[y][m] = h[y][m]
    BY <1>6, SidesAreFields DEF SideField
  <1> QED
    BY <1>4, <1>6, <1>11, <1>13, <1>14, <1>15, <1>16, <1>g, <1>R, <1>Q

-----------------------------------------------------------------------------
\* minerva_var_new up to the link
LEMMA InsertTidy ==
    ASSUME PoolInv
    PROVE  /\ InsertRefused => PoolInv'
           /\ Insert => PoolInv'
           /\ \A id \in TraceIds \cup {0} : New(id) => PoolInv'
  <1> USE DEF PoolInv
  <1>0. /\ freed \in SUBSET Node /\ heap \in SafeHeaps(freed) /\ heap \in Heap /\ IsSearchTree(heap)
        /\ Reach(heap) \cap freed = {} /\ (\A n \in freed : Fresh(heap, n)) /\ Reach(heap) \in SUBSET Node
        /\ var \in Pointer /\ elm \in Pointer /\ par \in Pointer /\ var \notin freed
        /\ (pc \in Working => RightTree(heap) /\ (pc # "color" => var \in Node))
        /\ Null \notin Reach(heap) /\ Null \notin Node
    BY TidyFacts
  <1>1. ASSUME InsertRefused PROVE PoolInv'
    <2>1. /\ pc = "insert" /\ pc' = "idle" /\ heap' = heap /\ freed' = freed /\ var' = var
          /\ elm' = elm /\ par' = par /\ hurt' = hurt
          /\ len' = len /\ curId' = curId /\ sigints' = sigints
      BY <1>1 DEF InsertRefused, frame
    <2>2. Fresh(heap, var) /\ var \notin Reach(heap)
      BY <2>1, <1>0 DEF Tidy, Working
    <2>3. Tidy(heap, freed, "idle", var, elm, par, hurt)
      BY <2>2, <1>0 DEF Tidy, Working, Places
    <2> QED BY <2>1, <2>3
  <1>2. ASSUME Insert PROVE PoolInv'
    <2>1. pc = "insert" /\ Find(heap, Key(var)) = Null
      BY <1>2 DEF Insert
    <2>2. Fresh(heap, var) /\ var \notin Reach(heap) /\ var \in Node /\ RightTree(heap)
      BY <2>1, <1>0 DEF Tidy, Working
    <2>3. PICK g : Leads(heap, Link(heap, var), SafeHeaps(freed), g) /\ LinkedBy(heap, var, g)
      BY <2>1, <2>2, <1>0, LinkLeads
    <2>4. CASE Cut(Link(heap, var))
      BY <2>3, <2>4, CutTidy
    <2>5. CASE ~Cut(Link(heap, var))
      <3>1. /\ heap' = Apply(heap, Link(heap, var)) /\ elm' = var /\ pc' = "color"
            /\ freed' = freed /\ var' = var /\ par' = par /\ hurt' = hurt
            /\ len' = len /\ curId' = curId /\ sigints' = sigints
        BY <2>5, <1>2 DEF Insert, AllOf
      <3>2. heap' = g /\ g \in SafeHeaps(freed)
        BY <3>1, <2>3 DEF Leads
      <3>3. IsSearchTree(g)
        BY <3>2, SafeFacts
      <3>4. RightTree(g) /\ var \in Reach(g)
        BY <3>3, <2>2, <2>3, LinkedTree
      <3>5. Tidy(g, freed, "color", var, var, par, hurt)
        BY <3>2, <3>4, <1>0 DEF Tidy, Working, Places
      <3> QED BY <3>1, <3>2, <3>5
    <2> QED BY <2>4, <2>5
  <1>3. ASSUME NEW id \in TraceIds \cup {0}, New(id) PROVE PoolInv'
    <2>1. PICK n \in freed : freed' = freed \ {n} /\ var' = n
      BY <1>3 DEF New
    <2>2. /\ Sound /\ heap' = heap /\ pc' = "insert" /\ elm' = elm /\ par' = par /\ hurt' = hurt
          /\ len' = len + 1 /\ sigints' = sigints
          /\ curId' = IF id = 0 THEN curId + 1 ELSE curId
      BY <1>3 DEF New
    <2>3. RightTree(heap)
      BY <2>2, <1>0 DEF Sound, RightTree
    <2>4. heap \in SafeHeaps(freed \ {n})
      BY <1>0 DEF SafeHeaps
    <2>5. n \in Node /\ Fresh(heap, n) /\ n \notin Reach(heap) /\ freed \ {n} \in SUBSET Node /\ n \notin freed \ {n}
      BY <2>1, <1>0
    <2>6. Tidy(heap, freed \ {n}, "insert", n, elm, par, hurt)
      <3>1. n \in Pointer
        BY <2>5 DEF Pointer
      <3> QED BY <3>1, <2>3, <2>4, <2>5, <1>0 DEF Tidy, Working, Places
    <2>7. len' \in Int /\ curId' \in Nat /\ sigints' \in 0 .. MaxSigint
      BY <2>2
    <2> QED BY <2>1, <2>2, <2>6, <2>7
  <1> QED
    BY <1>1, <1>2, <1>3

\* A round of RB_INSERT_COLOR
LEMMA InsertRoundTidy ==
    ASSUME PoolInv, InsertRound
    PROVE  PoolInv'
  <1> USE DEF PoolInv
  <1>0. /\ freed \in SUBSET Node /\ heap \in SafeHeaps(freed) /\ heap \in Heap
        /\ var \in Pointer /\ elm \in Pointer /\ par \in Pointer /\ var \notin freed
        /\ (pc \in Working => RightTree(heap))
        /\ Null \notin Reach(heap) /\ Null \notin Node
    BY TidyFacts
  <1>1. pc = "color" /\ Red(heap, heap.parent[elm])
    BY DEF InsertRound
  <1>2. elm \in Reach(heap) /\ RightTree(heap)
    BY <1>0, <1>1 DEF Tidy, Working
  <1>3. CASE InsertFaults(heap, elm)
    <2>1. Fault
      BY <1>3 DEF InsertRound
    <2> QED BY <2>1, FaultTidy
  <1>4. CASE ~InsertFaults(heap, elm)
    <2>s. PICK stores : stores = InsertColor(heap, elm).stores
      OBVIOUS
    <2>1. PICK g : /\ Leads(heap, stores, SafeHeaps(freed), g)
                   /\ RightTree(g) /\ Reach(g) = Reach(heap) /\ InsertColor(heap, elm).next \in Reach(heap)
      BY <2>s, <1>0, <1>1, <1>2, <1>4, InsertColorLeads
    <2>2. CASE Cut(stores)
      BY <2>1, <2>2, CutTidy
    <2>3. CASE ~Cut(stores)
      <3>1. /\ heap' = Apply(heap, stores) /\ elm' = InsertColor(heap, elm).next
            /\ freed' = freed /\ pc' = pc /\ var' = var /\ par' = par /\ hurt' = hurt
            /\ len' = len /\ curId' = curId /\ sigints' = sigints
        BY <2>s, <2>3, <1>4 DEF InsertRound, AllOf
      <3>2. heap' = g /\ g \in SafeHeaps(freed)
        BY <3>1, <2>1 DEF Leads
      <3>n. PICK n : n = elm'
        OBVIOUS
      <3>3. n \in Reach(g) /\ n \in Pointer
        BY <3>1, <3>n, <2>1, <1>0, ReachFacts DEF Pointer
      <3>4. Tidy(g, freed, "color", var, n, par, hurt)
        BY <3>2, <3>3, <2>1, <1>0 DEF Tidy, Working, Places
      <3> QED BY <3>1, <3>2, <3>4, <3>n, <1>1
    <2> QED BY <2>2, <2>3
  <1> QED
    BY <1>3, <1>4

\* The end of RB_INSERT
LEMMA InsertDoneTidy ==
    ASSUME PoolInv, InsertDone
    PROVE  PoolInv'
  <1> USE DEF PoolInv
  <1>0. /\ freed \in SUBSET Node /\ heap \in SafeHeaps(freed) /\ heap \in Heap
        /\ Reach(heap) \cap freed = {} /\ Reach(heap) \in SUBSET Node
    BY TidyFacts
  <1>1. pc = "color" /\ elm \in Reach(heap)
    BY DEF InsertDone, Tidy
  <1>s. PICK stores : stores = <<<<"color", heap.root, "black">>>>
    OBVIOUS
  <1>2. heap.root \in Node /\ heap.root \notin freed /\ "black" \in Shade
    BY <1>0, <1>1, ReachFacts DEF Shade
  <1>3. PICK g : Leads(heap, stores, SafeHeaps(freed), g)
    BY <1>0, <1>2, <1>s, ColorLeads
  <1>4. CASE Cut(stores)
    BY <1>3, <1>4, CutTidy
  <1>5. CASE ~Cut(stores)
    <2>1. /\ heap' = Apply(heap, stores) /\ pc' = "idle" /\ freed' = freed
          /\ var' = Null /\ elm' = Null /\ par' = Null /\ hurt' = hurt
          /\ len' = len /\ curId' = curId /\ sigints' = sigints
      BY <1>5, <1>s DEF InsertDone, AllOf, Clear
    <2>2. heap' = g /\ g \in SafeHeaps(freed)
      BY <2>1, <1>3 DEF Leads
    <2>3. Tidy(g, freed, "idle", Null, Null, Null, hurt)
      BY <2>2, <1>0, TidyIdle
    <2> QED BY <2>1, <2>2, <2>3
  <1> QED
    BY <1>4, <1>5

\* RB_REMOVE up to the rounds
LEMMA RemoveVarTidy ==
    ASSUME PoolInv, RemoveVar
    PROVE  PoolInv'
  <1> USE DEF PoolInv
  <1>0. /\ freed \in SUBSET Node /\ heap \in SafeHeaps(freed) /\ heap \in Heap
        /\ var \in Pointer /\ var \notin freed
        /\ (pc \in Working => RightTree(heap) /\ (pc # "color" => var \in Node))
        /\ Null \notin Reach(heap) /\ Null \notin Node
    BY TidyFacts
  <1>1. pc = "remove"
    BY DEF RemoveVar
  <1>2. RightTree(heap) /\ var \in Node /\ (var \in Reach(heap) \/ Fresh(heap, var))
    BY <1>0, <1>1 DEF Tidy, Working
  <1>s. PICK stores : stores = TakeOut(heap, var)
    OBVIOUS
  <1>n. PICK gap : gap = Spliced(heap, var)
    OBVIOUS
  <1>3. \E g : /\ Leads(heap, stores, SafeHeaps(freed), g) /\ RightTree(g) /\ var \notin Reach(g)
               /\ OnlyChild(heap, gap) \in Reach(g) \cup {Null}
               /\ (IF heap.parent[gap] = var THEN gap ELSE heap.parent[gap]) \in Reach(g) \cup {Null}
    <2>1. CASE var \in Reach(heap)
      <3>1. PICK u, g : Leads(heap, stores, SafeHeaps(freed), g) /\ TakenBy(heap, var, u, g)
        BY <2>1, <1>0, <1>2, <1>s, TakeOutLeads
      <3>2. RightTree(g) /\ Reach(g) = Reach(heap) \ {var}
        BY <3>1 DEF TakenBy
      <3>3. /\ OnlyChild(heap, gap) \in Reach(g) \cup {Null}
            /\ IF heap.parent[gap] = var THEN gap \in Reach(g)
               ELSE heap.parent[gap] \in Reach(g) \cup {Null}
        BY <2>1, <3>1, <1>2, <1>n, TakenParts
      <3> QED BY <3>1, <3>2, <3>3
    <2>2. CASE Fresh(heap, var)
      <3>1. PICK g : /\ Leads(heap, stores, SafeHeaps(freed), g)
                     /\ RightTree(g) /\ Reach(g) = {}
                     /\ gap = var /\ OnlyChild(heap, var) = Null /\ heap.parent[var] = Null
        BY <2>2, <1>0, <1>2, <1>s, <1>n, StrayLeads
      <3> QED BY <3>1, <1>0, <1>2
    <2> QED BY <2>1, <2>2, <1>2
  <1>4. PICK g : /\ Leads(heap, stores, SafeHeaps(freed), g) /\ RightTree(g) /\ var \notin Reach(g)
                 /\ OnlyChild(heap, gap) \in Reach(g) \cup {Null}
                 /\ (IF heap.parent[gap] = var THEN gap ELSE heap.parent[gap]) \in Reach(g) \cup {Null}
    BY <1>3
  <1>5. CASE Cut(stores)
    BY <1>4, <1>5, CutTidy
  <1>6. CASE ~Cut(stores)
    <2>1. /\ heap' = Apply(heap, stores)
          /\ elm' = OnlyChild(heap, gap)
          /\ par' = (IF heap.parent[gap] = var THEN gap ELSE heap.parent[gap])
          /\ pc' \in {"free", "balance"}
          /\ freed' = freed /\ var' = var /\ hurt' = hurt
          /\ len' = len /\ curId' = curId /\ sigints' = sigints
      BY <1>6, <1>s, <1>n DEF RemoveVar, AllOf
    <2>2. heap' = g /\ g \in SafeHeaps(freed) /\ g \in Heap
      BY <2>1, <1>4 DEF Leads
    <2>e. PICK e : e = elm'
      OBVIOUS
    <2>p. PICK p : p = par'
      OBVIOUS
    <2>a. PICK at : at = pc'
      OBVIOUS
    <2>3. e \in Reach(g) \cup {Null} /\ p \in Reach(g) \cup {Null} /\ at \in {"free", "balance"}
      BY <2>1, <2>e, <2>p, <2>a, <1>4
    <2>4. e \in Pointer /\ p \in Pointer
      BY <2>2, <2>3, ReachFacts DEF Pointer
    <2>5. Tidy(g, freed, at, var, e, p, hurt)
      BY <2>2, <2>3, <2>4, <1>0, <1>2, <1>4 DEF Tidy, Working, Places
    <2> QED BY <2>1, <2>2, <2>5, <2>e, <2>p, <2>a
  <1> QED
    BY <1>5, <1>6, <1>s

\* A step of the loop that keeps the set of elements
LEMMA RoundTidy ==
    ASSUME PoolInv, pc \in {"balance", "nephews"}, NEW g \in SafeHeaps(freed), RightTree(g),
           Reach(g) = Reach(heap), heap' = g,
           elm' \in Reach(heap) \cup {Null}, par' \in Reach(heap) \cup {Null},
           pc' \in {"balance", "nephews", "free"},
           freed' = freed, var' = var, hurt' = hurt, len' = len, curId' = curId, sigints' = sigints
    PROVE  PoolInv'
  <1> USE DEF PoolInv
  <1>0. /\ freed \in SUBSET Node /\ heap \in Heap /\ Reach(heap) \in SUBSET Node
        /\ var \in Pointer /\ var \notin freed
        /\ (pc \in Working => RightTree(heap) /\ (pc # "color" => var \in Node))
    BY TidyFacts
  <1>1. var \in Node /\ var \notin Reach(heap)
    BY <1>0 DEF Tidy, Working
  <1>e. PICK e : e = elm'
    OBVIOUS
  <1>p. PICK p : p = par'
    OBVIOUS
  <1>a. PICK at : at = pc'
    OBVIOUS
  <1>2. e \in Pointer /\ p \in Pointer /\ e \in Reach(g) \cup {Null} /\ p \in Reach(g) \cup {Null}
        /\ at \in {"balance", "nephews", "free"}
    BY <1>0, <1>e, <1>p, <1>a DEF Pointer
  <1>3. Tidy(g, freed, at, var, e, p, hurt)
    BY <1>0, <1>1, <1>2 DEF Tidy, Working, Places
  <1> QED
    BY <1>3, <1>e, <1>p, <1>a

\* The rounds of RB_REMOVE_COLOR, and its end
LEMMA RemoveRoundsTidy ==
    ASSUME PoolInv
    PROVE  /\ RemoveDone => PoolInv'
           /\ RemoveFaults => PoolInv'
           /\ RemoveRedSibling => PoolInv'
           /\ RemoveRound => PoolInv'
  <1> USE DEF PoolInv
  <1>0. /\ freed \in SUBSET Node /\ heap \in SafeHeaps(freed) /\ heap \in Heap
        /\ Reach(heap) \cap freed = {} /\ Reach(heap) \in SUBSET Node
        /\ elm \in Pointer /\ par \in Pointer
        /\ (pc \in Working => RightTree(heap))
        /\ Null \notin Reach(heap) /\ Null \notin Node
    BY TidyFacts
  <1>1. pc \in {"balance", "nephews"} =>
            /\ elm \in Reach(heap) \cup {Null} /\ par \in Reach(heap) \cup {Null} /\ RightTree(heap)
    BY <1>0 DEF Tidy, Working
  <1>1a. Short \in Side /\ Other[Short] \in Side
    BY ChildSideIs DEF Short
  <1>2. ASSUME RemoveDone PROVE PoolInv'
    <2>1. pc = "balance"
      BY <1>2 DEF RemoveDone
    <2>s. PICK stores : stores = PutIf("color", elm, "black")
      OBVIOUS
    <2>2. elm \notin freed /\ "black" \in Shade
      BY <2>1, <1>0, <1>1 DEF Shade
    <2>3. PICK g : Leads(heap, stores, SafeHeaps(freed), g) /\ SameShape(heap, g)
      BY <2>2, <2>s, <1>0, ColorIfLeads
    <2>4. CASE Cut(stores)
      BY <2>3, <2>4, CutTidy
    <2>5. CASE ~Cut(stores)
      <3>1. /\ heap' = Apply(heap, stores) /\ pc' = "free" /\ freed' = freed
            /\ var' = var /\ elm' = elm /\ par' = par /\ hurt' = hurt
            /\ len' = len /\ curId' = curId /\ sigints' = sigints
        BY <2>5, <2>s, <1>2 DEF RemoveDone, AllOf, frame
      <3>2. heap' = g /\ g \in SafeHeaps(freed)
        BY <3>1, <2>3 DEF Leads
      <3>3. RightTree(g) /\ Reach(g) = Reach(heap)
        BY <2>1, <2>3, <1>0, <1>1, ShapeKept
      <3> QED BY <3>1, <3>2, <3>3, <2>1, <1>1, RoundTidy
    <2> QED BY <2>4, <2>5
  <1>3. ASSUME RemoveFaults PROVE PoolInv'
    BY <1>3, FaultTidy DEF RemoveFaults
  <1>4. ASSUME RemoveRedSibling PROVE PoolInv'
    <2>1. pc = "balance" /\ par # Null /\ Red(heap, Sibling)
      BY <1>4 DEF RemoveRedSibling
    <2>2. par \in Reach(heap) /\ heap[Other[Short]][par] # Null /\ RightTree(heap)
      BY <2>1, <1>1 DEF Sibling, Red
    <2>s. PICK stores : stores = RedSibling(heap, par, Short)
      OBVIOUS
    <2>3. PICK g : /\ Leads(heap, stores, SafeHeaps(freed), g) /\ RightTree(g) /\ Reach(g) = Reach(heap)
      BY <2>2, <2>s, <1>0, <1>1a, RedSiblingLeads
    <2>4. CASE Cut(stores)
      BY <2>3, <2>4, CutTidy
    <2>5. CASE ~Cut(stores)
      <3>1. /\ heap' = Apply(heap, stores) /\ pc' = "nephews" /\ freed' = freed
            /\ var' = var /\ elm' = elm /\ par' = par /\ hurt' = hurt
            /\ len' = len /\ curId' = curId /\ sigints' = sigints
        BY <2>5, <2>s, <1>4 DEF RemoveRedSibling, AllOf, frame
      <3>2. heap' = g /\ g \in SafeHeaps(freed)
        BY <3>1, <2>3 DEF Leads
      <3> QED BY <3>1, <3>2, <2>1, <2>3, <1>1, RoundTidy
    <2> QED BY <2>4, <2>5
  <1>5. ASSUME RemoveRound PROVE PoolInv'
    <2>1. pc \in {"balance", "nephews"} /\ par # Null /\ Sibling # Null
      BY <1>5 DEF RemoveRound
    <2>2. par \in Reach(heap) /\ heap[Other[ChildSide(heap, par, elm)]][par] # Null /\ RightTree(heap)
          /\ elm \in Reach(heap) \cup {Null}
      BY <2>1, <1>1 DEF Sibling, Short
    <2>r. PICK round : round = RemoveColor(heap, par, elm)
      OBVIOUS
    <2>3. PICK g : /\ Leads(heap, round.stores, SafeHeaps(freed), g)
                   /\ RightTree(g) /\ Reach(g) = Reach(heap)
      BY <2>2, <2>r, <1>0, RemoveColorLeads
    <2>4. CASE Cut(round.stores)
      BY <2>3, <2>4, CutTidy
    <2>5. CASE ~Cut(round.stores)
      <3>1. /\ heap' = Apply(heap, round.stores)
            /\ elm' = IF round.last THEN heap'.root ELSE round.elm
            /\ par' = round.par /\ pc' = round.pc /\ freed' = freed /\ var' = var /\ hurt' = hurt
            /\ len' = len /\ curId' = curId /\ sigints' = sigints
        BY <2>5, <2>r, <1>5 DEF RemoveRound, AllOf
      <3>2. heap' = g /\ g \in SafeHeaps(freed) /\ g \in Heap
        BY <3>1, <2>3 DEF Leads
      <3>3. g.root \in Reach(heap) \cup {Null}
        BY <3>2, <2>3, ReachFacts
      <3>4. heap.parent[par] \in Reach(heap) \cup {Null}
        BY <2>2, Links
      <3>5. round.elm \in {elm, par} /\ round.par \in {par, heap.parent[par]}
            /\ round.pc \in {"balance", "nephews"}
        BY <2>r DEF RemoveColor
      <3>6. elm' \in Reach(heap) \cup {Null} /\ par' \in Reach(heap) \cup {Null}
            /\ pc' \in {"balance", "nephews", "free"}
        BY <3>1, <3>2, <3>3, <3>4, <3>5, <2>2
      <3> QED BY <3>1, <3>2, <3>6, <2>1, <2>3, RoundTidy
    <2> QED BY <2>4, <2>5, <2>r
  <1> QED
    BY <1>2, <1>3, <1>4, <1>5

\* free
LEMMA FreeTidy ==
    ASSUME PoolInv, Free
    PROVE  PoolInv'
  <1> USE DEF PoolInv
  <1>0. /\ freed \in SUBSET Node /\ heap \in SafeHeaps(freed) /\ heap \in Heap
        /\ (pc \in Working => RightTree(heap) /\ (pc # "color" => var \in Node))
    BY TidyFacts
  <1>1. pc = "free"
    BY DEF Free
  <1>2. var \in Node /\ var \notin Reach(heap)
    BY <1>0, <1>1 DEF Tidy, Working
  <1>3. CASE Cut(<<>>)
    <2>1. Leads(heap, <<>>, SafeHeaps(freed), heap)
      BY <1>0, LeadsNone
    <2> QED BY <2>1, <1>3, CutTidy
  <1>4. CASE ~Cut(<<>>)
    <2>1. /\ freed' = freed \cup {var} /\ heap' = Freed(heap, var) /\ pc' = Rest
          /\ var' = Null /\ elm' = Null /\ par' = Null
          /\ hurt' = hurt /\ len' = len /\ curId' = curId /\ sigints' = sigints
      BY <1>4 DEF Free, Clear
    <2>2. Freed(heap, var) \in SafeHeaps(freed \cup {var}) /\ freed \cup {var} \in SUBSET Node
      BY <1>0, <1>2, FreedSafe
    <2>3. Rest \in {"idle", "empty", "gone", "abort", "dead", "undefined"}
      BY DEF Rest
    <2>4. Tidy(Freed(heap, var), freed \cup {var}, Rest, Null, Null, Null, hurt)
      BY <2>2, <2>3, TidyIdle
    <2> QED BY <2>1, <2>4
  <1> QED
    BY <1>3, <1>4

\* The start of minerva_var_destroy
LEMMA DestroyTidy ==
    ASSUME PoolInv, NEW n \in Reach(heap) \cup ({var} \ {Null}), Destroy(n)
    PROVE  PoolInv'
  <1> USE DEF PoolInv
  <1>0. /\ freed \in SUBSET Node /\ heap \in SafeHeaps(freed) /\ heap \in Heap /\ IsSearchTree(heap)
        /\ Reach(heap) \cap freed = {} /\ Reach(heap) \in SUBSET Node
        /\ var \in Pointer /\ var \notin freed /\ Null \notin Reach(heap) /\ Null \notin Node
    BY TidyFacts
  <1>1. /\ pc = Rest /\ Sound /\ pc' = "remove" /\ heap' = heap /\ freed' = freed
        /\ var' = n /\ elm' = Null /\ par' = Null
        /\ len' = len - 1 /\ curId' = curId /\ sigints' = sigints
        /\ hurt' = IF n \in Reach(heap) THEN hurt ELSE hurt \cup {"stray"}
    BY DEF Destroy
  <1>2. RightTree(heap) /\ pc \in {"idle", "empty"}
    BY <1>0, <1>1 DEF Sound, RightTree, Rest
  <1>3. n \in Node /\ n \notin freed /\ (n \in Reach(heap) \/ Fresh(heap, n))
    BY <1>0, <1>2 DEF Tidy, Pointer
  <1>h. PICK hu : hu = hurt'
    OBVIOUS
  <1>4. n \in Reach(heap) \/ (Fresh(heap, n) /\ "stray" \in hu)
    BY <1>1, <1>3, <1>h
  <1>5. Tidy(heap, freed, "remove", n, Null, Null, hu)
    BY <1>0, <1>2, <1>3, <1>4 DEF Tidy, Working, Places, Pointer
  <1>6. len' \in Int /\ curId' \in Nat /\ sigints' \in 0 .. MaxSigint
    BY <1>1
  <1> QED
    BY <1>1, <1>5, <1>6, <1>h

\* minerva_vars_destroy, and what is not in the tree
LEMMA LeaveTidy ==
    ASSUME PoolInv
    PROVE  /\ Astray => PoolInv'
           /\ Leave => PoolInv'
           /\ LeaveDone => PoolInv'
           /\ UNCHANGED vars => PoolInv'
  <1> USE DEF PoolInv
  <1>0. /\ freed \in SUBSET Node /\ heap \in SafeHeaps(freed)
        /\ var \in Pointer /\ elm \in Pointer /\ par \in Pointer /\ var \notin freed
    BY TidyFacts
  <1>1. ASSUME NEW at \in {"gone", "abort", "undefined"}
        PROVE  Tidy(heap, freed, at, var, elm, par, hurt)
    BY <1>0 DEF Tidy, Working, Places
  <1>2. ASSUME Astray PROVE PoolInv'
    <2>1. /\ pc' = "undefined" /\ heap' = heap /\ freed' = freed /\ var' = var
          /\ elm' = elm /\ par' = par /\ hurt' = hurt
          /\ len' = len /\ curId' = curId /\ sigints' = sigints
      BY <1>2 DEF Astray, frame
    <2> QED BY <2>1, <1>1
  <1>3. ASSUME Leave PROVE PoolInv'
    <2>1. /\ pc' = "empty" /\ heap' = heap /\ freed' = freed /\ var' = Null
          /\ elm' = Null /\ par' = Null /\ hurt' = hurt
          /\ len' = len /\ curId' = curId /\ sigints' = sigints
      BY <1>3 DEF Leave, Clear
    <2>2. Tidy(heap, freed, "empty", Null, Null, Null, hurt)
      BY <1>0, TidyIdle
    <2> QED BY <2>1, <2>2
  <1>4. ASSUME LeaveDone PROVE PoolInv'
    <2>1. /\ pc' \in {"gone", "abort", "undefined"} /\ heap' = heap /\ freed' = freed /\ var' = var
          /\ elm' = elm /\ par' = par /\ hurt' = hurt
          /\ len' = len /\ curId' = curId /\ sigints' = sigints
      BY <1>4 DEF LeaveDone, frame
    <2> QED BY <2>1, <1>1
  <1>5. ASSUME UNCHANGED vars PROVE PoolInv'
    <2>1. /\ pc' = pc /\ heap' = heap /\ freed' = freed /\ var' = var
          /\ elm' = elm /\ par' = par /\ hurt' = hurt
          /\ len' = len /\ curId' = curId /\ sigints' = sigints
      BY <1>5 DEF vars, frame
    <2> QED BY <2>1
  <1> QED
    BY <1>2, <1>3, <1>4, <1>5

\* An empty tree is tidy.
LEMMA InitTidy ==
    ASSUME Init
    PROVE  PoolInv
  <1>1. /\ heap = EmptyHeap /\ freed = Node /\ len = 0 /\ curId = 0 /\ pc = "idle"
        /\ var = Null /\ elm = Null /\ par = Null /\ sigints = 0
    BY DEF Init
  <1>2. /\ heap \in Heap /\ heap.root = Null
        /\ \A n \in Node : heap.left[n] = Null /\ heap.right[n] = Null /\ heap.parent[n] = Null
                           /\ heap.color[n] = "black"
    BY <1>1 DEF EmptyHeap, Heap, Pointer
  <1>3. /\ heap["left"] = heap.left /\ heap["right"] = heap.right /\ heap["parent"] = heap.parent
    BY <1>2 DEF Heap
  <1>4. \A n \in Node : Fresh(heap, n)
    BY <1>2, <1>3 DEF Fresh, Field
  <1>5. Reach(heap) = {}
    BY <1>2, ReachFacts
  <1>6. heap \in SafeHeaps(Node)
    BY <1>2, <1>4, <1>5 DEF SafeHeaps, IsSearchTree
  <1>7. Tidy(heap, freed, pc, var, elm, par, hurt)
    BY <1>1, <1>6, TidyIdle
  <1> QED
    BY <1>1, <1>7, PoolConstants, IdsAssumption DEF PoolInv

\* Every step keeps the pool tidy.
LEMMA PoolStep ==
    ASSUME PoolInv, [Next]_vars
    PROVE  PoolInv'
  <1>1. ASSUME pc = "idle", NEW n \in Reach(heap) \cup ({var} \ {Null}), Destroy(n) PROVE PoolInv'
    BY <1>1, DestroyTidy
  <1>2. ASSUME pc = "empty", heap.root # Null, Destroy(heap.root) PROVE PoolInv'
    <2>1. heap \in Heap
      BY TidyFacts DEF PoolInv
    <2>2. heap.root \in Reach(heap)
      BY <2>1, <1>2, ReachFacts
    <2> QED BY <2>2, <1>2, DestroyTidy
  <1>3. ASSUME NEW id \in TraceIds \cup {0}, New(id) PROVE PoolInv'
    BY <1>3, InsertTidy
  <1> QED
    BY <1>1, <1>2, <1>3, InsertTidy, InsertRoundTidy, InsertDoneTidy, RemoveVarTidy,
       RemoveRoundsTidy, FreeTidy, LeaveTidy DEF Next

\* After every store, and after a ^C at any of them (longjmp out of RB_INSERT or
\* RB_REMOVE), the tree is a search tree, and neither a link in it nor the pointer
\* at hand leads to a variable that minerva_var_destroy has freed; while an operation
\* is at work, and until a ^C cuts it, the links up answer the links down.
THEOREM PoolIsTidy == Spec => []PoolInv
  <1>1. Init => PoolInv
    BY InitTidy
  <1>2. PoolInv /\ [Next]_vars => PoolInv'
    BY PoolStep
  <1> QED
    BY <1>1, <1>2, PTL DEF Spec

\* The pool is well typed: what minerva_var_new and minerva_var_destroy store,
\* interrupted or not, leaves every link at an element or NULL, and the variable
\* at hand is never one that was freed.
THEOREM PoolTypeCorrect == Spec => []PoolTypeOK
  <1>1. PoolInv => PoolTypeOK
    <2> SUFFICES ASSUME PoolInv PROVE PoolTypeOK
      OBVIOUS
    <2>1. /\ heap \in Heap /\ freed \in SUBSET Node
          /\ var \in Pointer /\ elm \in Pointer /\ par \in Pointer /\ var \notin freed
      BY TidyFacts DEF PoolInv
    <2>2. pc \in Places /\ len \in Int /\ curId \in Nat /\ sigints \in 0 .. MaxSigint
      BY DEF PoolInv, Tidy
    <2> QED BY <2>1, <2>2 DEF PoolTypeOK, Places
  <1> QED
    BY <1>1, PoolIsTidy, PTL

\* minerva_var_get finds a variable whenever the tree has one, even in a tree that
\* a ^C has cut out of a rotation: RB_NFIND of a number up to RB_MAX is not NULL.
THEOREM GetAlwaysFinds == Spec => []GetFinds
  <1>1. PoolInv => GetFinds
    <2> SUFFICES ASSUME PoolInv PROVE IsSearchTree(heap) /\
                     (heap.root # Null => \A r \in 0 .. 2 * Cardinality(Ids) : VarGet(heap, r) # Null)
      BY DEF GetFinds
    <2>1. heap \in Heap /\ IsSearchTree(heap) /\ Reach(heap) \in SUBSET Node
      BY TidyFacts DEF PoolInv
    <2>2. ASSUME heap.root # Null, NEW r \in 0 .. 2 * Cardinality(Ids) PROVE VarGet(heap, r) # Null
      <3>y. PICK y : y = MinMax(heap, "right")
        OBVIOUS
      <3>k. PICK k : k = r % (Key(y) + 1)
        OBVIOUS
      <3>1. "right" \in Side
        BY DEF Side
      <3>2. y \in Reach(heap)
        BY <2>1, <2>2, <3>1, <3>y, MinMaxIs
      <3>3. Key(y) \in Nat
        BY <2>1, <3>2, NodeFacts
      <3>4. r \in Nat
        BY PoolConstants, IdsAssumption, FS_CardinalityType
      <3>5. k \in Nat /\ k <= Key(y)
        BY <3>3, <3>4, <3>k
      <3>6. NFind(heap, k) = Null => \A x \in Reach(heap) : Key(x) < k
        BY <2>1, <3>5, NFindIs
      <3>7. NFind(heap, k) # Null
        <4> SUFFICES ASSUME NFind(heap, k) = Null PROVE FALSE
          OBVIOUS
        <4>1. Key(y) < k
          BY <3>2, <3>6
        <4> QED BY <4>1, <3>3, <3>5
      <3> QED BY <3>7, <3>k, <3>y DEF VarGet
    <2> QED BY <2>1, <2>2
  <1> QED
    BY <1>1, PoolIsTidy, PTL

-----------------------------------------------------------------------------
(* What the steps do when no ^C comes *)

\* A step that does not count a ^C is not one.
LEMMA NotCut ==
    ASSUME PoolInv, sigints' = sigints, NEW stores
    PROVE  ~Cut(stores)
  BY DEF PoolInv, Cut

\* What linking a variable does when no ^C comes
LEMMA InsertMakes ==
    ASSUME PoolInv, Insert, sigints' = sigints
    PROVE  /\ pc = "insert" /\ pc' = "color" /\ elm' = var /\ var' = var /\ ids' = ids \cup {Key(var)}
           /\ freed' = freed /\ len' = len /\ hurt' = hurt /\ leaving' = leaving
           /\ RightTree(heap) /\ var \in Node /\ var \notin Reach(heap)
           /\ LinkedBy(heap, var, heap') /\ RightTree(heap')
           /\ Reach(heap') = Reach(heap) \cup {var}
           /\ heap'.color[var] = "red" /\ \A m \in Reach(heap) : heap'.color[m] = heap.color[m]
  <1>0. heap \in SafeHeaps(freed) /\ freed \in SUBSET Node /\ var \notin freed
        /\ (pc \in Working => RightTree(heap) /\ (pc # "color" => var \in Node))
    BY TidyFacts DEF PoolInv
  <1>1. pc = "insert" /\ Find(heap, Key(var)) = Null
    BY DEF Insert
  <1>2. Fresh(heap, var) /\ var \notin Reach(heap) /\ var \in Node /\ RightTree(heap)
    BY <1>0, <1>1, NodeFacts DEF PoolInv, Tidy, Working
  <1>3. PICK g : Leads(heap, Link(heap, var), SafeHeaps(freed), g) /\ LinkedBy(heap, var, g)
    BY <1>0, <1>1, <1>2, LinkLeads
  <1>4. /\ heap' = Apply(heap, Link(heap, var)) /\ elm' = var /\ pc' = "color"
        /\ freed' = freed /\ var' = var /\ hurt' = hurt /\ leaving' = leaving
        /\ len' = len /\ ids' = ids \cup {Key(var)}
    BY NotCut DEF Insert, AllOf
  <1>5. heap' = g /\ g \in SafeHeaps(freed)
    BY <1>3, <1>4 DEF Leads
  <1>6. IsSearchTree(g)
    BY <1>5, SafeFacts
  <1>7. /\ RightTree(g) /\ Reach(g) = Reach(heap) \cup {var} /\ g.color[var] = "red"
        /\ \A m \in Reach(heap) : g.color[m] = heap.color[m]
    BY <1>2, <1>3, <1>6, LinkedTree
  <1> QED
    BY <1>1, <1>2, <1>3, <1>4, <1>5, <1>7

\* A round of RB_INSERT_COLOR
LEMMA InsertRoundMakes ==
    ASSUME PoolInv, InsertRound, sigints' = sigints, ~InsertFaults(heap, elm)
    PROVE  /\ pc = "color" /\ pc' = "color" /\ elm' = InsertColor(heap, elm).next /\ var' = var
           /\ ids' = ids /\ freed' = freed /\ len' = len /\ hurt' = hurt /\ leaving' = leaving
           /\ RightTree(heap) /\ elm \in Reach(heap) /\ Red(heap, heap.parent[elm])
           /\ InsertTurn(heap, elm, heap') /\ RightTree(heap') /\ Reach(heap') = Reach(heap)
           /\ elm' \in Reach(heap)
  <1>0. heap \in SafeHeaps(freed) /\ freed \in SUBSET Node
        /\ (pc \in Working => RightTree(heap))
    BY TidyFacts DEF PoolInv
  <1>1. pc = "color" /\ Red(heap, heap.parent[elm])
    BY DEF InsertRound
  <1>2. elm \in Reach(heap) /\ RightTree(heap)
    BY <1>0, <1>1 DEF PoolInv, Tidy, Working
  <1>s. PICK stores : stores = InsertColor(heap, elm).stores
    OBVIOUS
  <1>3. PICK g : /\ Leads(heap, stores, SafeHeaps(freed), g)
                 /\ RightTree(g) /\ Reach(g) = Reach(heap) /\ InsertColor(heap, elm).next \in Reach(heap)
                 /\ InsertTurn(heap, elm, g)
    BY <1>s, <1>0, <1>1, <1>2, InsertColorLeads
  <1>4. /\ heap' = Apply(heap, stores) /\ elm' = InsertColor(heap, elm).next
        /\ freed' = freed /\ pc' = pc /\ var' = var /\ hurt' = hurt
        /\ len' = len /\ ids' = ids /\ leaving' = leaving
    BY <1>s, NotCut DEF InsertRound, AllOf
  <1>5. heap' = g
    BY <1>3, <1>4 DEF Leads
  <1> QED
    BY <1>1, <1>2, <1>3, <1>4, <1>5

\* The end of RB_INSERT
LEMMA InsertDoneMakes ==
    ASSUME PoolInv, InsertDone, sigints' = sigints
    PROVE  /\ pc = "color" /\ pc' = "idle" /\ var' = Null
           /\ ids' = ids /\ freed' = freed /\ len' = len /\ hurt' = hurt /\ leaving' = leaving
           /\ RightTree(heap) /\ elm \in Reach(heap) /\ ~Red(heap, heap.parent[elm])
           /\ RightTree(heap') /\ Reach(heap') = Reach(heap) /\ SameShape(heap, heap')
           /\ \A i \in Node : heap'.color[i] = IF i = heap.root THEN "black" ELSE heap.color[i]
  <1>0. heap \in SafeHeaps(freed) /\ freed \in SUBSET Node /\ heap \in Heap
        /\ Reach(heap) \cap freed = {} /\ Reach(heap) \in SUBSET Node
        /\ (pc \in Working => RightTree(heap))
    BY TidyFacts DEF PoolInv
  <1>1. pc = "color" /\ elm \in Reach(heap) /\ RightTree(heap)
    BY <1>0 DEF InsertDone, PoolInv, Tidy, Working
  <1>s. PICK stores : stores = <<<<"color", heap.root, "black">>>>
    OBVIOUS
  <1>2. heap.root \in Node /\ heap.root \notin freed /\ "black" \in Shade
    BY <1>0, <1>1, ReachFacts DEF Shade
  <1>3. PICK g : /\ Leads(heap, stores, SafeHeaps(freed), g) /\ SameShape(heap, g)
                 /\ \A i \in Node : g.color[i] = IF i = heap.root THEN "black" ELSE heap.color[i]
    BY <1>0, <1>2, <1>s, ColorLeads
  <1>4. /\ heap' = Apply(heap, stores) /\ pc' = "idle" /\ freed' = freed
        /\ var' = Null /\ hurt' = hurt /\ len' = len /\ ids' = ids /\ leaving' = leaving
        /\ ~Red(heap, heap.parent[elm])
    BY <1>s, NotCut DEF InsertDone, AllOf, Clear
  <1>5. heap' = g
    BY <1>3, <1>4 DEF Leads
  <1>6. RightTree(g) /\ Reach(g) = Reach(heap)
    BY <1>0, <1>1, <1>3, ShapeKept
  <1> QED
    BY <1>1, <1>3, <1>4, <1>5, <1>6

\* Taking a variable out
LEMMA RemoveVarMakes ==
    ASSUME PoolInv, RemoveVar, sigints' = sigints
    PROVE  LET gap == Spliced(heap, var) IN
           /\ pc = "remove" /\ pc' = (IF Red(heap, gap) THEN "free" ELSE "balance") /\ var' = var
           /\ ids' = ids /\ freed' = freed /\ len' = len /\ hurt' = hurt /\ leaving' = leaving
           /\ elm' = OnlyChild(heap, gap)
           /\ par' = (IF heap.parent[gap] = var THEN gap ELSE heap.parent[gap])
           /\ RightTree(heap) /\ var \in Node /\ RightTree(heap')
           /\ var \in Reach(heap) =>
                  Reach(heap') = Reach(heap) \ {var} /\ \E u : TakenBy(heap, var, u, heap')
           /\ var \notin Reach(heap) =>
                  Reach(heap') = {} /\ gap = var /\ OnlyChild(heap, gap) = Null /\ heap.parent[gap] = Null
                  /\ "stray" \in hurt
  <1>0. heap \in SafeHeaps(freed) /\ freed \in SUBSET Node
        /\ (pc \in Working => RightTree(heap) /\ (pc # "color" => var \in Node))
    BY TidyFacts DEF PoolInv
  <1>1. pc = "remove"
    BY DEF RemoveVar
  <1>2. RightTree(heap) /\ var \in Node /\ (var \in Reach(heap) \/ (Fresh(heap, var) /\ "stray" \in hurt))
    BY <1>0, <1>1 DEF PoolInv, Tidy, Working
  <1>s. PICK stores : stores = TakeOut(heap, var)
    OBVIOUS
  <1>n. PICK gap : gap = Spliced(heap, var)
    OBVIOUS
  <1>3. /\ heap' = Apply(heap, stores)
        /\ pc' = (IF Red(heap, gap) THEN "free" ELSE "balance") /\ var' = var
        /\ ids' = ids /\ freed' = freed /\ len' = len /\ hurt' = hurt /\ leaving' = leaving
        /\ elm' = OnlyChild(heap, gap)
        /\ par' = (IF heap.parent[gap] = var THEN gap ELSE heap.parent[gap])
    BY <1>s, <1>n, NotCut DEF RemoveVar, AllOf
  <1>4. CASE var \in Reach(heap)
    <2>1. PICK u, g : Leads(heap, stores, SafeHeaps(freed), g) /\ TakenBy(heap, var, u, g)
      BY <1>4, <1>0, <1>2, <1>s, TakeOutLeads
    <2>2. heap' = g
      BY <2>1, <1>3 DEF Leads
    <2>3. RightTree(g) /\ Reach(g) = Reach(heap) \ {var}
      BY <2>1 DEF TakenBy
    <2> QED BY <2>1, <2>2, <2>3, <1>1, <1>2, <1>3, <1>4, <1>n
  <1>5. CASE var \notin Reach(heap)
    <2>1. PICK g : /\ Leads(heap, stores, SafeHeaps(freed), g)
                   /\ RightTree(g) /\ Reach(g) = {}
                   /\ gap = var /\ OnlyChild(heap, var) = Null /\ heap.parent[var] = Null
      BY <1>5, <1>0, <1>2, <1>s, <1>n, StrayLeads
    <2>2. heap' = g
      BY <2>1, <1>3 DEF Leads
    <2> QED BY <2>1, <2>2, <1>1, <1>2, <1>3, <1>5, <1>n
  <1> QED
    BY <1>4, <1>5

\* In the loop of RB_REMOVE_COLOR
LEMMA LoopFacts ==
    ASSUME PoolInv, pc \in {"balance", "nephews", "free"}
    PROVE  /\ heap \in SafeHeaps(freed) /\ freed \in SUBSET Node /\ heap \in Heap
           /\ RightTree(heap) /\ var \in Node /\ var \notin Reach(heap)
           /\ elm \in Reach(heap) \cup {Null} /\ par \in Reach(heap) \cup {Null} /\ elm \notin freed
           /\ elm \in Pointer /\ Short \in Side /\ Other[Short] \in Side
  <1>1. heap \in SafeHeaps(freed) /\ freed \in SUBSET Node /\ heap \in Heap /\ Reach(heap) \cap freed = {}
        /\ (pc \in Working => RightTree(heap) /\ (pc # "color" => var \in Node)) /\ elm \in Pointer
        /\ Null \notin Node
    BY TidyFacts DEF PoolInv
  <1>2. /\ var \notin Reach(heap)
        /\ elm \in Reach(heap) \cup {Null} /\ par \in Reach(heap) \cup {Null}
    BY DEF PoolInv, Tidy
  <1>3. Short \in Side /\ Other[Short] \in Side
    BY ChildSideIs DEF Short
  <1> QED
    BY <1>1, <1>2, <1>3 DEF Working

\* The end of RB_REMOVE_COLOR
LEMMA RemoveDoneMakes ==
    ASSUME PoolInv, RemoveDone, sigints' = sigints
    PROVE  /\ pc = "balance" /\ pc' = "free" /\ var' = var /\ ~Deficient
           /\ ids' = ids /\ freed' = freed /\ len' = len /\ hurt' = hurt /\ leaving' = leaving
           /\ RightTree(heap') /\ Reach(heap') = Reach(heap) /\ SameShape(heap, heap')
           /\ \A i \in Node : heap'.color[i] = IF i = elm THEN "black" ELSE heap.color[i]
  <1>1. pc = "balance"
    BY DEF RemoveDone
  <1>2. /\ heap \in SafeHeaps(freed) /\ freed \in SUBSET Node /\ heap \in Heap
        /\ RightTree(heap) /\ elm \in Pointer /\ elm \notin freed /\ "black" \in Shade
    BY <1>1, LoopFacts DEF Shade
  <1>s. PICK stores : stores = PutIf("color", elm, "black")
    OBVIOUS
  <1>3. PICK g : /\ Leads(heap, stores, SafeHeaps(freed), g) /\ SameShape(heap, g)
                 /\ \A i \in Node : g.color[i] = IF i = elm THEN "black" ELSE heap.color[i]
    BY <1>2, <1>s, ColorIfLeads
  <1>4. /\ heap' = Apply(heap, stores) /\ pc' = "free" /\ freed' = freed /\ ~Deficient
        /\ var' = var /\ hurt' = hurt /\ len' = len /\ ids' = ids /\ leaving' = leaving
    BY <1>s, NotCut DEF RemoveDone, AllOf, frame
  <1>5. heap' = g
    BY <1>3, <1>4 DEF Leads
  <1>6. RightTree(g) /\ Reach(g) = Reach(heap)
    BY <1>2, <1>3, ShapeKept
  <1> QED
    BY <1>1, <1>3, <1>4, <1>5, <1>6

\* A turn that brings down a red sibling
LEMMA RedSiblingMakes ==
    ASSUME PoolInv, RemoveRedSibling, sigints' = sigints
    PROVE  /\ pc = "balance" /\ pc' = "nephews" /\ var' = var /\ elm' = elm /\ par' = par
           /\ ids' = ids /\ freed' = freed /\ len' = len /\ hurt' = hurt /\ leaving' = leaving
           /\ Deficient /\ par \in Reach(heap) /\ Red(heap, Sibling)
           /\ RightTree(heap') /\ Reach(heap') = Reach(heap)
           /\ SiblingTurn(heap, par, Short, heap')
  <1>1. pc = "balance" /\ par # Null /\ Red(heap, Sibling) /\ Deficient
    BY DEF RemoveRedSibling
  <1>2. /\ heap \in SafeHeaps(freed) /\ freed \in SUBSET Node /\ RightTree(heap)
        /\ par \in Reach(heap) /\ Short \in Side /\ heap[Other[Short]][par] # Null
    BY <1>1, LoopFacts DEF Sibling, Red
  <1>s. PICK stores : stores = RedSibling(heap, par, Short)
    OBVIOUS
  <1>3. PICK g : /\ Leads(heap, stores, SafeHeaps(freed), g) /\ RightTree(g) /\ Reach(g) = Reach(heap)
                 /\ SiblingTurn(heap, par, Short, g)
    BY <1>2, <1>s, RedSiblingLeads
  <1>4. /\ heap' = Apply(heap, stores) /\ pc' = "nephews" /\ freed' = freed
        /\ var' = var /\ elm' = elm /\ par' = par /\ hurt' = hurt
        /\ len' = len /\ ids' = ids /\ leaving' = leaving
    BY <1>s, NotCut DEF RemoveRedSibling, AllOf, frame
  <1>5. heap' = g
    BY <1>3, <1>4 DEF Leads
  <1> QED
    BY <1>1, <1>2, <1>3, <1>4, <1>5

\* A round of RB_REMOVE_COLOR
LEMMA RemoveRoundMakes ==
    ASSUME PoolInv, RemoveRound, sigints' = sigints
    PROVE  LET round == RemoveColor(heap, par, elm) IN
           /\ pc \in {"balance", "nephews"} /\ pc' = round.pc /\ var' = var
           /\ elm' = (IF round.last THEN heap'.root ELSE round.elm) /\ par' = round.par
           /\ ids' = ids /\ freed' = freed /\ len' = len /\ hurt' = hurt /\ leaving' = leaving
           /\ par \in Reach(heap) /\ Sibling # Null
           /\ (pc = "balance" => Deficient /\ ~Red(heap, Sibling))
           /\ RightTree(heap') /\ Reach(heap') = Reach(heap)
           /\ RemoveTurn(heap, par, elm, heap')
  <1>1. pc \in {"balance", "nephews"} /\ par # Null /\ Sibling # Null
        /\ (pc = "balance" => Deficient /\ ~Red(heap, Sibling))
    BY DEF RemoveRound
  <1>2. /\ heap \in SafeHeaps(freed) /\ freed \in SUBSET Node /\ RightTree(heap)
        /\ par \in Reach(heap) /\ heap[Other[ChildSide(heap, par, elm)]][par] # Null
    BY <1>1, LoopFacts DEF Sibling, Short
  <1>r. PICK round : round = RemoveColor(heap, par, elm)
    OBVIOUS
  <1>3. PICK g : /\ Leads(heap, round.stores, SafeHeaps(freed), g)
                 /\ RightTree(g) /\ Reach(g) = Reach(heap) /\ RemoveTurn(heap, par, elm, g)
    BY <1>2, <1>r, RemoveColorLeads
  <1>4. /\ heap' = Apply(heap, round.stores)
        /\ elm' = (IF round.last THEN heap'.root ELSE round.elm)
        /\ par' = round.par /\ pc' = round.pc /\ freed' = freed /\ var' = var /\ hurt' = hurt
        /\ len' = len /\ ids' = ids /\ leaving' = leaving
    <2>1. ~Cut(round.stores)
      BY NotCut
    <2> QED BY <2>1, <1>r DEF RemoveRound, AllOf
  <1>5. heap' = g
    BY <1>3, <1>4 DEF Leads
  <1> QED
    BY <1>1, <1>2, <1>3, <1>4, <1>5, <1>r

\* free
LEMMA FreeMakes ==
    ASSUME PoolInv, Free, sigints' = sigints
    PROVE  /\ pc = "free" /\ pc' = Rest /\ var' = Null /\ heap' = Freed(heap, var)
           /\ var \in Node /\ var \notin Reach(heap) /\ var \notin freed
           /\ ids' = ids /\ freed' = freed \cup {var} /\ len' = len /\ hurt' = hurt /\ leaving' = leaving
           /\ Reach(heap') = Reach(heap) /\ RightTree(heap')
           /\ heap'.root = heap.root
           /\ \A m \in Node : m # var => heap'.color[m] = heap.color[m]
           /\ \A m \in Node, y \in Side : m # var => heap'[y][m] = heap[y][m]
  <1>1. pc = "free"
    BY DEF Free
  <1>2. /\ heap \in SafeHeaps(freed) /\ freed \in SUBSET Node
        /\ RightTree(heap) /\ var \in Node /\ var \notin Reach(heap)
    BY <1>1, LoopFacts
  <1>3. /\ freed' = freed \cup {var} /\ heap' = Freed(heap, var) /\ pc' = Rest
        /\ var' = Null /\ hurt' = hurt /\ len' = len /\ ids' = ids /\ leaving' = leaving
    <2>1. ~Cut(<<>>)
      BY NotCut
    <2>2. /\ freed' = freed \cup {var} /\ heap' = Freed(heap, var) /\ Clear /\ pc' = Rest
          /\ UNCHANGED <<len, curId, ids, leaving, sigints, hurt>>
      BY <2>1, Zenon DEF Free
    <2> QED BY <2>2 DEF Clear
  <1>g. PICK g : g = Freed(heap, var)
    OBVIOUS
  <1>4. /\ Reach(g) = Reach(heap) /\ RightTree(g) /\ g.root = heap.root
        /\ \A m \in Node : m # var => g.color[m] = heap.color[m]
        /\ \A m \in Node, y \in Side : m # var => g[y][m] = heap[y][m]
    <2>1. /\ Reach(Freed(heap, var)) = Reach(heap) /\ RightTree(Freed(heap, var))
          /\ Freed(heap, var).root = heap.root
          /\ \A m \in Node : m # var => Freed(heap, var).color[m] = heap.color[m]
          /\ \A m \in Node, y \in Side : m # var => Freed(heap, var)[y][m] = heap[y][m]
      BY <1>2, FreedSafe
    <2> QED BY <2>1, <1>g, Zenon
  <1>5. var \notin freed
    BY DEF PoolInv, Tidy
  <1> QED
    BY <1>1, <1>2, <1>3, <1>4, <1>5, <1>g

-----------------------------------------------------------------------------
(* The invariant until the first ^C *)

\* The colors are right, but for where a loop still is.
Even(h, at, e, p) ==
    /\ at \in {"idle", "insert", "remove", "free", "empty", "gone", "abort"} => Plain(h)
    /\ at = "color" => Red(h, e) /\ \E N : Colored(h, N, Null, e, Null, "left")
    /\ at \in {"balance", "nephews"} => Lacking(h, e, p)
    /\ at = "nephews" => BlackSibling(h, e, p)

\* minerva_var_destroy takes the identifier for gone before RB_REMOVE is through,
\* and counts the variable out before it is freed.
Held(h, at, v, I) == I = {Key(n) : n \in Reach(h) \ (IF at = "remove" THEN {v} ELSE {})}
\* len counts the allocated variables, but for the one that is being destroyed.
Counted(F, at, l) ==
    l = Cardinality(Node \ F) - IF at \in {"remove", "balance", "nephews", "free"} THEN 1 ELSE 0

\* All of it together
Whole(h, F, at, v, e, p, l, I, hu) ==
    /\ "fault" \notin hu /\ at \notin {"undefined", "dead"}
    /\ RightTree(h) /\ Even(h, at, e, p)
    /\ "stray" \notin hu => Held(h, at, v, I)
    /\ Counted(F, at, l)
    /\ (at = "gone" => l = 0) /\ (at = "abort" => l # 0)

\* What holds until the first ^C
Uncut == sigints = 0 => Whole(heap, freed, pc, var, elm, par, len, ids, hurt)

\* minerva_var_new: the link
LEMMA InsertIsWhole ==
    ASSUME PoolInv, Whole(heap, freed, pc, var, elm, par, len, ids, hurt), Insert, sigints' = sigints
    PROVE  Whole(heap', freed', pc', var', elm', par', len', ids', hurt')
  <1>1. /\ pc = "insert" /\ pc' = "color" /\ elm' = var /\ var' = var /\ ids' = ids \cup {Key(var)}
        /\ freed' = freed /\ len' = len /\ hurt' = hurt
        /\ RightTree(heap) /\ var \in Node /\ var \notin Reach(heap)
        /\ LinkedBy(heap, var, heap') /\ RightTree(heap')
        /\ Reach(heap') = Reach(heap) \cup {var}
    BY InsertMakes
  <1>2. Plain(heap)
    BY <1>1 DEF Whole, Even
  <1>g. PICK g : g = heap'
    OBVIOUS
  <1>3. Red(g, var) /\ \E M : Colored(g, M, Null, var, Null, "left")
    BY <1>1, <1>2, <1>g, LinkColors
  <1>4. Even(g, "color", var, par')
    BY <1>3 DEF Even
  <1>5. "stray" \notin hurt => Held(g, "color", var, ids')
    BY <1>1, <1>g DEF Whole, Held
  <1>6. Counted(freed, "color", len)
    BY <1>1 DEF Whole, Counted
  <1>7. "fault" \notin hurt
    BY DEF Whole
  <1> QED
    BY <1>1, <1>4, <1>5, <1>6, <1>7, <1>g DEF Whole

\* A round of RB_INSERT_COLOR
LEMMA InsertRoundIsWhole ==
    ASSUME PoolInv, Whole(heap, freed, pc, var, elm, par, len, ids, hurt), InsertRound, sigints' = sigints
    PROVE  Whole(heap', freed', pc', var', elm', par', len', ids', hurt')
  <1>0. pc = "color" /\ Red(heap, heap.parent[elm])
    BY DEF InsertRound
  <1>1. RightTree(heap) /\ elm \in Reach(heap) /\ Red(heap, elm)
    BY <1>0 DEF Whole, Even, PoolInv, Tidy
  <1>N. PICK N : Colored(heap, N, Null, elm, Null, "left")
    BY <1>0 DEF Whole, Even
  <1>2. ~InsertFaults(heap, elm)
    BY <1>0, <1>1, <1>N, InsertNoFault
  <1>3. /\ pc = "color" /\ pc' = "color" /\ elm' = InsertColor(heap, elm).next /\ var' = var
        /\ ids' = ids /\ freed' = freed /\ len' = len /\ hurt' = hurt
        /\ InsertTurn(heap, elm, heap') /\ RightTree(heap') /\ Reach(heap') = Reach(heap)
    BY <1>2, InsertRoundMakes
  <1>g. PICK g : g = heap'
    OBVIOUS
  <1>d. PICK d : d = InsertColor(heap, elm).next
    OBVIOUS
  <1>4. Red(g, d) /\ \E M : Colored(g, M, Null, d, Null, "left")
    <2>1. "left" \in Side
      BY DEF Side
    <2> QED BY <2>1, <1>0, <1>1, <1>N, <1>3, <1>g, <1>d, InsertTurnColors
  <1>5. Even(g, "color", d, par')
    BY <1>4 DEF Even
  <1>6. "stray" \notin hurt => Held(g, "color", var, ids)
    BY <1>3, <1>g DEF Whole, Held
  <1>7. Counted(freed, "color", len) /\ "fault" \notin hurt
    BY <1>3 DEF Whole
  <1> QED
    BY <1>3, <1>5, <1>6, <1>7, <1>g, <1>d DEF Whole

\* The end of RB_INSERT
LEMMA InsertDoneIsWhole ==
    ASSUME PoolInv, Whole(heap, freed, pc, var, elm, par, len, ids, hurt), InsertDone, sigints' = sigints
    PROVE  Whole(heap', freed', pc', var', elm', par', len', ids', hurt')
  <1>1. /\ pc = "color" /\ pc' = "idle"
        /\ ids' = ids /\ freed' = freed /\ len' = len /\ hurt' = hurt
        /\ RightTree(heap) /\ elm \in Reach(heap) /\ ~Red(heap, heap.parent[elm])
        /\ RightTree(heap') /\ Reach(heap') = Reach(heap) /\ SameShape(heap, heap')
        /\ \A i \in Node : heap'.color[i] = IF i = heap.root THEN "black" ELSE heap.color[i]
    BY InsertDoneMakes
  <1>N. PICK N : Colored(heap, N, Null, elm, Null, "left")
    BY <1>1 DEF Whole, Even
  <1>g. PICK g : g = heap'
    OBVIOUS
  <1>2. OneBlack(heap, heap.root, g)
    BY <1>1, <1>g DEF OneBlack
  <1>3. Plain(g)
    <2>1. "left" \in Side
      BY DEF Side
    <2> QED BY <2>1, <1>1, <1>N, <1>2, InsertEndColors
  <1>4. Even(g, "idle", elm', par')
    BY <1>3 DEF Even
  <1>5. "stray" \notin hurt => Held(g, "idle", var', ids)
    BY <1>1, <1>g DEF Whole, Held
  <1>6. Counted(freed, "idle", len) /\ "fault" \notin hurt
    BY <1>1 DEF Whole, Counted
  <1> QED
    BY <1>1, <1>4, <1>5, <1>6, <1>g DEF Whole

\* Taking a variable out
LEMMA RemoveVarIsWhole ==
    ASSUME PoolInv, Whole(heap, freed, pc, var, elm, par, len, ids, hurt), RemoveVar, sigints' = sigints
    PROVE  Whole(heap', freed', pc', var', elm', par', len', ids', hurt')
  <1>n. PICK n : n = Spliced(heap, var)
    OBVIOUS
  <1>g. PICK g : g = heap'
    OBVIOUS
  <1>d. PICK d : d = OnlyChild(heap, n)
    OBVIOUS
  <1>q. PICK q : q = IF heap.parent[n] = var THEN n ELSE heap.parent[n]
    OBVIOUS
  <1>a. PICK at : at = IF Red(heap, n) THEN "free" ELSE "balance"
    OBVIOUS
  <1>1. LET gap == Spliced(heap, var) IN
        /\ pc = "remove" /\ pc' = (IF Red(heap, gap) THEN "free" ELSE "balance") /\ var' = var
        /\ ids' = ids /\ freed' = freed /\ len' = len /\ hurt' = hurt
        /\ elm' = OnlyChild(heap, gap)
        /\ par' = (IF heap.parent[gap] = var THEN gap ELSE heap.parent[gap])
        /\ RightTree(heap) /\ var \in Node /\ RightTree(heap')
        /\ var \in Reach(heap) =>
               Reach(heap') = Reach(heap) \ {var} /\ \E u : TakenBy(heap, var, u, heap')
        /\ var \notin Reach(heap) =>
               Reach(heap') = {} /\ gap = var /\ OnlyChild(heap, gap) = Null /\ heap.parent[gap] = Null
               /\ "stray" \in hurt
    BY RemoveVarMakes
  <1>2. /\ pc = "remove" /\ pc' = at /\ var' = var
        /\ ids' = ids /\ freed' = freed /\ len' = len /\ hurt' = hurt
        /\ elm' = d /\ par' = q /\ RightTree(heap) /\ var \in Node /\ RightTree(g)
        /\ var \in Reach(heap) => Reach(g) = Reach(heap) \ {var} /\ \E u : TakenBy(heap, var, u, g)
        /\ var \notin Reach(heap) => Reach(g) = {} /\ n = var /\ d = Null /\ heap.parent[n] = Null
                                     /\ "stray" \in hurt
    BY <1>1, <1>n, <1>g, <1>d, <1>q, <1>a
  <1>3. Plain(heap)
    BY <1>2 DEF Whole, Even
  <1>4. Even(g, at, d, q)
    <2>1. (at = "free" => Plain(g)) /\ (at = "balance" => Lacking(g, d, q))
      <3>1. CASE var \in Reach(heap)
        <4>1. PICK u : TakenBy(heap, var, u, g)
          BY <3>1, <1>2
        <4>2. /\ Red(heap, n) => Plain(g)
              /\ ~Red(heap, n) => Lacking(g, d, IF heap.parent[n] = var THEN n ELSE heap.parent[n])
          BY <3>1, <4>1, <1>2, <1>3, <1>n, <1>d, TakenColors
        <4> QED BY <4>2, <1>a, <1>q
      <3>2. CASE var \notin Reach(heap)
        <4>1. Plain(g) /\ Lacking(g, Null, Null)
          BY <3>2, <1>2, NothingColors
        <4>2. d = Null /\ q = Null
          BY <3>2, <1>2, <1>q, NodeFacts
        <4> QED BY <4>1, <4>2
      <3> QED BY <3>1, <3>2
    <2> QED BY <2>1, <1>a DEF Even
  <1>5. "stray" \notin hurt => Held(g, at, var, ids)
    BY <1>2, <1>a DEF Whole, Held
  <1>6. Counted(freed, at, len) /\ "fault" \notin hurt
    BY <1>2, <1>a DEF Whole, Counted
  <1> QED
    BY <1>2, <1>4, <1>5, <1>6, <1>g, <1>a DEF Whole

\* The end of RB_REMOVE_COLOR
LEMMA RemoveDoneIsWhole ==
    ASSUME PoolInv, Whole(heap, freed, pc, var, elm, par, len, ids, hurt), RemoveDone, sigints' = sigints
    PROVE  Whole(heap', freed', pc', var', elm', par', len', ids', hurt')
  <1>1. /\ pc = "balance" /\ pc' = "free" /\ var' = var /\ ~Deficient
        /\ ids' = ids /\ freed' = freed /\ len' = len /\ hurt' = hurt
        /\ RightTree(heap') /\ Reach(heap') = Reach(heap) /\ SameShape(heap, heap')
        /\ \A i \in Node : heap'.color[i] = IF i = elm THEN "black" ELSE heap.color[i]
    BY RemoveDoneMakes
  <1>g. PICK g : g = heap'
    OBVIOUS
  <1>2. RightTree(heap) /\ Lacking(heap, elm, par) /\ elm \in Reach(heap) \cup {Null}
    BY <1>1 DEF Whole, Even, PoolInv, Tidy
  <1>3. OneBlack(heap, elm, g) /\ (elm = heap.root \/ Red(heap, elm))
    BY <1>1, <1>g DEF OneBlack, Deficient
  <1>4. Plain(g)
    BY <1>2, <1>3, RemoveEndColors
  <1>5. Even(g, "free", elm', par')
    BY <1>4 DEF Even
  <1>6. "stray" \notin hurt => Held(g, "free", var, ids)
    BY <1>1, <1>g DEF Whole, Held
  <1>7. Counted(freed, "free", len) /\ "fault" \notin hurt
    BY <1>1 DEF Whole, Counted
  <1> QED
    BY <1>1, <1>5, <1>6, <1>7, <1>g DEF Whole

\* The sibling that RB_REMOVE_COLOR looks at is there.
LEMMA NoRemoveFault ==
    ASSUME PoolInv, Whole(heap, freed, pc, var, elm, par, len, ids, hurt)
    PROVE  ~RemoveFaults
  <1> SUFFICES ASSUME RemoveFaults PROVE FALSE
    OBVIOUS
  <1>1. ((pc = "balance" /\ Deficient) \/ pc = "nephews") /\ (par = Null \/ Sibling = Null)
    BY DEF RemoveFaults
  <1>2. RightTree(heap) /\ Lacking(heap, elm, par) /\ elm # heap.root /\ ~Red(heap, elm)
    BY <1>1 DEF Whole, Even, Deficient, BlackSibling
  <1>s. PICK s, o, t : s = ChildSide(heap, par, elm) /\ o = Other[s] /\ t = heap[o][par]
    OBVIOUS
  <1>3. par # Null /\ t # Null
    BY <1>2, <1>s, LackingScene
  <1> QED
    BY <1>1, <1>3, <1>s DEF Sibling, Short

\* A turn that brings down a red sibling
LEMMA RedSiblingIsWhole ==
    ASSUME PoolInv, Whole(heap, freed, pc, var, elm, par, len, ids, hurt), RemoveRedSibling,
           sigints' = sigints
    PROVE  Whole(heap', freed', pc', var', elm', par', len', ids', hurt')
  <1>1. /\ pc = "balance" /\ pc' = "nephews" /\ var' = var /\ elm' = elm /\ par' = par
        /\ ids' = ids /\ freed' = freed /\ len' = len /\ hurt' = hurt
        /\ Deficient /\ Red(heap, Sibling)
        /\ RightTree(heap') /\ Reach(heap') = Reach(heap)
        /\ SiblingTurn(heap, par, Short, heap')
    BY RedSiblingMakes
  <1>g. PICK g : g = heap'
    OBVIOUS
  <1>s. PICK s : s = ChildSide(heap, par, elm)
    OBVIOUS
  <1>2. /\ RightTree(heap) /\ Lacking(heap, elm, par) /\ elm # heap.root /\ ~Red(heap, elm)
        /\ Red(heap, heap[Other[s]][par]) /\ SiblingTurn(heap, par, s, g)
    BY <1>1, <1>g, <1>s DEF Whole, Even, Deficient, Sibling, Short
  <1>3. Lacking(g, elm, par) /\ BlackSibling(g, elm, par)
    BY <1>1, <1>2, <1>s, <1>g, SiblingTurnColors
  <1>4. Even(g, "nephews", elm, par)
    BY <1>3 DEF Even
  <1>5. "stray" \notin hurt => Held(g, "nephews", var, ids)
    BY <1>1, <1>g DEF Whole, Held
  <1>6. Counted(freed, "nephews", len) /\ "fault" \notin hurt
    BY <1>1 DEF Whole, Counted
  <1> QED
    BY <1>1, <1>4, <1>5, <1>6, <1>g DEF Whole

\* A round of RB_REMOVE_COLOR
LEMMA RemoveRoundIsWhole ==
    ASSUME PoolInv, Whole(heap, freed, pc, var, elm, par, len, ids, hurt), RemoveRound,
           sigints' = sigints
    PROVE  Whole(heap', freed', pc', var', elm', par', len', ids', hurt')
  <1>r. PICK round : round = RemoveColor(heap, par, elm)
    OBVIOUS
  <1>g. PICK g : g = heap'
    OBVIOUS
  <1>d. PICK d : d = IF round.last THEN g.root ELSE round.elm
    OBVIOUS
  <1>a. PICK at : at = round.pc
    OBVIOUS
  <1>0. LET r == RemoveColor(heap, par, elm) IN
        /\ pc \in {"balance", "nephews"} /\ pc' = r.pc /\ var' = var
        /\ elm' = (IF r.last THEN heap'.root ELSE r.elm) /\ par' = r.par
        /\ ids' = ids /\ freed' = freed /\ len' = len /\ hurt' = hurt
        /\ (pc = "balance" => Deficient /\ ~Red(heap, Sibling))
        /\ RightTree(heap') /\ Reach(heap') = Reach(heap)
        /\ RemoveTurn(heap, par, elm, heap')
    BY RemoveRoundMakes
  <1>1. /\ pc \in {"balance", "nephews"} /\ pc' = at /\ var' = var
        /\ elm' = d /\ par' = round.par
        /\ ids' = ids /\ freed' = freed /\ len' = len /\ hurt' = hurt
        /\ (pc = "balance" => Deficient /\ ~Red(heap, Sibling))
        /\ RightTree(g) /\ Reach(g) = Reach(heap)
        /\ RemoveTurn(heap, par, elm, g)
    BY <1>0, <1>r, <1>g, <1>d, <1>a
  <1>2. RightTree(heap) /\ Lacking(heap, elm, par)
    BY <1>1 DEF Whole, Even
  <1>3. BlackSibling(heap, elm, par)
    <2>1. CASE pc = "balance"
      BY <2>1, <1>1 DEF BlackSibling, Deficient, Sibling, Short
    <2>2. CASE pc = "nephews"
      BY <2>2 DEF Whole, Even
    <2> QED BY <2>1, <2>2, <1>1
  <1>4. /\ Lacking(g, d, round.par) /\ round.pc \in {"balance", "nephews"}
        /\ round.pc = "nephews" => BlackSibling(g, d, round.par)
    BY <1>1, <1>2, <1>3, <1>r, <1>d, RemoveTurnColors
  <1>5. Even(g, at, d, round.par)
    BY <1>4, <1>a DEF Even
  <1>6. "stray" \notin hurt => Held(g, at, var, ids)
    BY <1>1, <1>4, <1>a DEF Whole, Held
  <1>7. Counted(freed, at, len) /\ "fault" \notin hurt
    BY <1>1, <1>4, <1>a DEF Whole, Counted
  <1> QED
    BY <1>1, <1>4, <1>5, <1>6, <1>7, <1>g, <1>a DEF Whole

\* One allocated element fewer
LEMMA OneFewer ==
    ASSUME NEW F \in SUBSET Node, NEW n \in Node, n \notin F
    PROVE  /\ Cardinality(Node \ (F \cup {n})) = Cardinality(Node \ F) - 1
           /\ Cardinality(Node \ F) \in Nat
  <1>A. PICK A : A = Node \ F
    OBVIOUS
  <1>1. IsFiniteSet(A) /\ n \in A
    BY <1>A, NodeFacts, FS_Subset
  <1>2. Cardinality(A \ {n}) = Cardinality(A) - 1 /\ Cardinality(A) \in Nat
    BY <1>1, FS_RemoveElement, FS_CardinalityType
  <1>3. Node \ (F \cup {n}) = A \ {n}
    BY <1>A
  <1> QED
    BY <1>2, <1>3, <1>A

\* free
LEMMA FreeIsWhole ==
    ASSUME PoolInv, Whole(heap, freed, pc, var, elm, par, len, ids, hurt), Free, sigints' = sigints
    PROVE  Whole(heap', freed', pc', var', elm', par', len', ids', hurt')
  <1>g. PICK g : g = heap'
    OBVIOUS
  <1>a. PICK at : at = Rest
    OBVIOUS
  <1>1. /\ pc = "free" /\ pc' = at
        /\ var \in Node /\ var \notin Reach(heap) /\ var \notin freed
        /\ ids' = ids /\ freed' = freed \cup {var} /\ len' = len /\ hurt' = hurt
        /\ Reach(g) = Reach(heap) /\ RightTree(g)
        /\ g.root = heap.root
        /\ \A m \in Node : m # var => g.color[m] = heap.color[m]
        /\ \A m \in Node, y \in Side : m # var => g[y][m] = heap[y][m]
    BY <1>g, <1>a, FreeMakes
  <1>2. at \in {"idle", "empty"}
    BY <1>a DEF Rest
  <1>3. Plain(heap) /\ Reach(heap) \in SUBSET Node /\ freed \in SUBSET Node
    BY <1>1, TidyFacts DEF Whole, Even, PoolInv
  <1>4. Plain(g)
    BY <1>1, <1>3, AsideColors
  <1>5. Even(g, at, elm', par')
    BY <1>2, <1>4 DEF Even
  <1>6. "stray" \notin hurt => Held(g, at, var', ids)
    BY <1>1, <1>2 DEF Whole, Held
  <1>7. Counted(freed \cup {var}, at, len)
    <2>1. len = Cardinality(Node \ freed) - 1
      BY <1>1 DEF Whole, Counted
    <2>2. Cardinality(Node \ (freed \cup {var})) = Cardinality(Node \ freed) - 1
          /\ Cardinality(Node \ freed) \in Nat
      BY <1>1, <1>3, OneFewer
    <2>3. Counted(freed \cup {var}, at, len) <=> len = Cardinality(Node \ (freed \cup {var})) - 0
      BY <1>2 DEF Counted
    <2> QED BY <2>1, <2>2, <2>3
  <1>8. "fault" \notin hurt
    BY DEF Whole
  <1> QED
    BY <1>1, <1>2, <1>5, <1>6, <1>7, <1>8, <1>g DEF Whole

\* The steps that leave the tree alone
LEMMA KeptIsWhole ==
    ASSUME PoolInv, Whole(heap, freed, pc, var, elm, par, len, ids, hurt),
           InsertRefused \/ Leave \/ LeaveDone
    PROVE  Whole(heap', freed', pc', var', elm', par', len', ids', hurt')
  <1>1. /\ pc \in {"insert", "idle", "empty"} /\ pc' \in {"idle", "empty", "gone", "abort"}
        /\ heap' = heap /\ freed' = freed /\ len' = len /\ ids' = ids /\ hurt' = hurt
        /\ (pc' = "gone" => len = 0) /\ (pc' = "abort" => len # 0)
    BY DEF InsertRefused, Leave, LeaveDone
  <1>a. PICK at : at = pc'
    OBVIOUS
  <1>2. RightTree(heap) /\ Plain(heap) /\ "fault" \notin hurt
    BY <1>1 DEF Whole, Even
  <1>3. Even(heap, at, elm', par')
    BY <1>1, <1>2, <1>a DEF Even
  <1>4. "stray" \notin hurt => Held(heap, at, var', ids)
    BY <1>1, <1>a DEF Whole, Held
  <1>5. Counted(freed, at, len)
    BY <1>1, <1>a DEF Whole, Counted
  <1> QED
    BY <1>1, <1>2, <1>3, <1>4, <1>5, <1>a DEF Whole

\* The start of minerva_var_new
LEMMA NewIsWhole ==
    ASSUME PoolInv, Whole(heap, freed, pc, var, elm, par, len, ids, hurt), NEW id, New(id)
    PROVE  Whole(heap', freed', pc', var', elm', par', len', ids', hurt')
  <1>1. /\ pc = "idle" /\ pc' = "insert"
        /\ heap' = heap /\ len' = len + 1 /\ ids' = ids /\ hurt' = hurt
    BY DEF New
  <1>2. PICK n \in freed : freed' = freed \ {n}
    BY DEF New
  <1>3. RightTree(heap) /\ Plain(heap) /\ "fault" \notin hurt /\ freed \in SUBSET Node
    BY <1>1, TidyFacts DEF Whole, Even, PoolInv
  <1>4. Even(heap, "insert", elm', par')
    BY <1>3 DEF Even
  <1>5. "stray" \notin hurt => Held(heap, "insert", var', ids)
    BY <1>1 DEF Whole, Held
  <1>6. Counted(freed \ {n}, "insert", len + 1)
    <2>F. PICK F : F = freed \ {n}
      OBVIOUS
    <2>1. F \in SUBSET Node /\ n \in Node /\ n \notin F /\ F \cup {n} = freed
      BY <2>F, <1>3
    <2>2. Cardinality(Node \ freed) = Cardinality(Node \ F) - 1 /\ Cardinality(Node \ F) \in Nat
      BY <2>1, OneFewer
    <2>3. len = Cardinality(Node \ freed) - 0
      BY <1>1 DEF Whole, Counted
    <2>4. len + 1 = Cardinality(Node \ F) - 0
      BY <2>2, <2>3
    <2> QED BY <2>4, <2>F DEF Counted
  <1> QED
    BY <1>1, <1>2, <1>3, <1>4, <1>5, <1>6 DEF Whole

\* The start of minerva_var_destroy
LEMMA DestroyIsWhole ==
    ASSUME PoolInv, Whole(heap, freed, pc, var, elm, par, len, ids, hurt), NEW n, Destroy(n)
    PROVE  Whole(heap', freed', pc', var', elm', par', len', ids', hurt')
  <1>1. /\ pc = Rest /\ pc' = "remove" /\ var' = n
        /\ heap' = heap /\ freed' = freed /\ len' = len - 1
        /\ ids' = (IF n \in Reach(heap) THEN ids \ {Key(n)} ELSE ids)
        /\ hurt' = (IF n \in Reach(heap) THEN hurt ELSE hurt \cup {"stray"})
    BY DEF Destroy
  <1>2. pc \in {"idle", "empty"}
    BY <1>1 DEF Rest
  <1>3. RightTree(heap) /\ Plain(heap) /\ "fault" \notin hurt /\ freed \in SUBSET Node
    BY <1>2, TidyFacts DEF Whole, Even, PoolInv
  <1>4. Even(heap, "remove", elm', par')
    BY <1>3 DEF Even
  <1>5. "stray" \notin hurt' => Held(heap, "remove", n, ids')
    <2> SUFFICES ASSUME "stray" \notin hurt' PROVE Held(heap, "remove", n, ids')
      OBVIOUS
    <2>1. n \in Reach(heap) /\ "stray" \notin hurt /\ ids' = ids \ {Key(n)}
      BY <1>1
    <2>2. ids = {Key(m) : m \in Reach(heap)}
      BY <2>1, <1>2 DEF Whole, Held
    <2>3. \A m \in Reach(heap) : Key(m) = Key(n) => m = n
      BY <2>1, <1>3, OneKey
    <2>I. PICK I, R : I = ids' /\ R = Reach(heap)
      OBVIOUS
    <2>4. I = {Key(m) : m \in R \ {n}}
      <3>1. \A m \in R : Key(m) = Key(n) => m = n
        BY <2>3, <2>I
      <3>2. \A k : k \in I <=> (\E m \in R : k = Key(m)) /\ k # Key(n)
        BY <2>1, <2>2, <2>I
      <3>3. \A k : k \in I <=> \E m \in R \ {n} : k = Key(m)
        BY <3>1, <3>2
      <3> QED BY <3>3
    <2> QED BY <2>4, <2>I DEF Held
  <1>6. Counted(freed, "remove", len - 1)
    <2>1. len = Cardinality(Node \ freed) - 0
      BY <1>2 DEF Whole, Counted
    <2>2. Cardinality(Node \ freed) \in Nat
      BY NodeFacts, FS_Subset, FS_CardinalityType
    <2>3. len - 1 = Cardinality(Node \ freed) - 1
      BY <2>1, <2>2
    <2> QED BY <2>3 DEF Counted
  <1>7. "fault" \notin hurt'
    BY <1>1, <1>3
  <1> QED
    BY <1>1, <1>3, <1>4, <1>5, <1>6, <1>7 DEF Whole

\* A variable that is destroyed is in the tree.
LEMMA NoAstray ==
    ASSUME Whole(heap, freed, pc, var, elm, par, len, ids, hurt)
    PROVE  ~Astray
  BY DEF Whole, RightTree, Astray, Sound

\* A step counts at most one ^C.
LEMMA CountsCuts ==
    ASSUME [Next]_vars
    PROVE  sigints' = sigints \/ sigints' = sigints + 1
  <1>1. ASSUME NEW stores, Cut(stores) PROVE sigints' = sigints + 1
    BY <1>1 DEF Cut
  <1>2. CASE InsertRefused
    BY <1>2 DEF InsertRefused
  <1>3. CASE Insert
    BY <1>1, <1>3 DEF Insert
  <1>4. CASE InsertRound
    BY <1>1, <1>4 DEF InsertRound, Fault
  <1>5. CASE InsertDone
    BY <1>1, <1>5 DEF InsertDone
  <1>6. CASE RemoveVar
    BY <1>1, <1>6 DEF RemoveVar
  <1>7. CASE RemoveDone
    BY <1>1, <1>7 DEF RemoveDone
  <1>8. CASE RemoveFaults
    BY <1>8 DEF RemoveFaults, Fault
  <1>9. CASE RemoveRedSibling
    BY <1>1, <1>9 DEF RemoveRedSibling
  <1>10. CASE RemoveRound
    BY <1>1, <1>10 DEF RemoveRound
  <1>11. CASE Free
    BY <1>1, <1>11 DEF Free
  <1>12. CASE Astray
    BY <1>12 DEF Astray
  <1>13. ASSUME NEW id, New(id) PROVE sigints' = sigints
    BY <1>13 DEF New
  <1>14. ASSUME NEW n, Destroy(n) PROVE sigints' = sigints
    BY <1>14 DEF Destroy
  <1>15. CASE Leave \/ LeaveDone
    BY <1>15 DEF Leave, LeaveDone
  <1>16. CASE UNCHANGED vars
    BY <1>16 DEF vars
  <1> QED
    BY <1>2, <1>3, <1>4, <1>5, <1>6, <1>7, <1>8, <1>9, <1>10, <1>11, <1>12, <1>13, <1>14, <1>15, <1>16
    DEF Next

\* An empty tree is whole.
LEMMA EmptyIsWhole == Init => Whole(heap, freed, pc, var, elm, par, len, ids, hurt)
  <1> SUFFICES ASSUME Init PROVE Whole(heap, freed, pc, var, elm, par, len, ids, hurt)
    OBVIOUS
  <1>1. /\ heap = EmptyHeap /\ freed = Node /\ len = 0 /\ ids = {} /\ pc = "idle" /\ hurt = {}
    BY DEF Init
  <1>2. heap \in Heap /\ heap.root = Null
    BY <1>1 DEF EmptyHeap, Heap, Pointer
  <1>3. Reach(heap) = {}
    BY <1>2, ReachFacts
  <1>4. RightTree(heap)
    BY <1>2, <1>3 DEF RightTree, IsSearchTree, ParentsRight
  <1>5. Even(heap, "idle", elm, par)
    BY <1>3, <1>4, NothingColors DEF Even
  <1>6. Held(heap, "idle", var, ids)
    BY <1>1, <1>3 DEF Held
  <1>7. Counted(Node, "idle", 0)
    <2>1. Node \ Node = {}
      OBVIOUS
    <2> QED BY <2>1, FS_EmptySet DEF Counted
  <1> QED
    BY <1>1, <1>4, <1>5, <1>6, <1>7 DEF Whole

\* Every step without ^C keeps the pool whole.
LEMMA UncutStep ==
    ASSUME PoolInv, Uncut, [Next]_vars
    PROVE  Uncut'
  <1> SUFFICES ASSUME sigints' = 0
               PROVE  Whole(heap', freed', pc', var', elm', par', len', ids', hurt')
    BY DEF Uncut
  <1>1. sigints = 0 /\ sigints' = sigints
    BY CountsCuts DEF PoolInv
  <1>2. Whole(heap, freed, pc, var, elm, par, len, ids, hurt)
    BY <1>1 DEF Uncut
  <1>3. CASE InsertRefused \/ Leave \/ LeaveDone
    BY <1>2, <1>3, KeptIsWhole
  <1>4. CASE Insert
    BY <1>1, <1>2, <1>4, InsertIsWhole
  <1>5. CASE InsertRound
    BY <1>1, <1>2, <1>5, InsertRoundIsWhole
  <1>6. CASE InsertDone
    BY <1>1, <1>2, <1>6, InsertDoneIsWhole
  <1>7. CASE RemoveVar
    BY <1>1, <1>2, <1>7, RemoveVarIsWhole
  <1>8. CASE RemoveDone
    BY <1>1, <1>2, <1>8, RemoveDoneIsWhole
  <1>9. CASE RemoveFaults
    BY <1>2, <1>9, NoRemoveFault
  <1>10. CASE RemoveRedSibling
    BY <1>1, <1>2, <1>10, RedSiblingIsWhole
  <1>11. CASE RemoveRound
    BY <1>1, <1>2, <1>11, RemoveRoundIsWhole
  <1>12. CASE Free
    BY <1>1, <1>2, <1>12, FreeIsWhole
  <1>13. CASE Astray
    BY <1>2, <1>13, NoAstray
  <1>14. ASSUME NEW id, New(id)
         PROVE  Whole(heap', freed', pc', var', elm', par', len', ids', hurt')
    BY <1>2, <1>14, NewIsWhole
  <1>15. ASSUME NEW n, Destroy(n)
         PROVE  Whole(heap', freed', pc', var', elm', par', len', ids', hurt')
    BY <1>2, <1>15, DestroyIsWhole
  <1>16. CASE UNCHANGED vars
    BY <1>2, <1>16, Zenon DEF vars, frame
  <1> QED
    BY <1>3, <1>4, <1>5, <1>6, <1>7, <1>8, <1>9, <1>10, <1>11, <1>12, <1>13, <1>14, <1>15, <1>16
    DEF Next

\* The pool is whole until the first ^C.
LEMMA StaysUncut == Spec => []Uncut
  <1>1. Init => Uncut
    BY EmptyIsWhole DEF Uncut
  <1>2. PoolInv /\ Uncut /\ [Next]_vars => Uncut'
    BY UncutStep
  <1> QED
    BY <1>1, <1>2, PoolIsTidy, PTL DEF Spec

\* Until the first ^C, the tree is a red-black tree whenever an operation is over,
\* and no round of RB_INSERT_COLOR or RB_REMOVE_COLOR follows a pointer that is NULL.
THEOREM StaysRedBlack == Spec => []TreeStaysRedBlack
  <1>1. Uncut => TreeStaysRedBlack
    <2> SUFFICES ASSUME Uncut, sigints = 0 PROVE "fault" \notin hurt /\ (Quiet => IsRedBlack(heap))
      BY DEF TreeStaysRedBlack
    <2>1. Whole(heap, freed, pc, var, elm, par, len, ids, hurt)
      BY DEF Uncut
    <2>2. "fault" \notin hurt /\ RightTree(heap)
      BY <2>1 DEF Whole
    <2>3. ASSUME Quiet PROVE IsRedBlack(heap)
      <3>1. PICK N : Colored(heap, N, Null, Null, Null, "left")
        BY <2>1, <2>3 DEF Whole, Even, Quiet, Plain
      <3> QED BY <3>1, <2>2, ColoredIsBalanced
    <2> QED BY <2>2, <2>3
  <1> QED
    BY <1>1, StaysUncut, PTL

\* Until the first ^C, and until minerva_var_destroy removes a variable the tree had
\* refused, the tree holds the variables that were made and not destroyed, no others.
THEOREM HoldsIds == Spec => []TreeHoldsIds
  <1>1. PoolInv /\ Uncut => TreeHoldsIds
    <2> SUFFICES ASSUME PoolInv, Uncut, sigints = 0, Quiet, "stray" \notin hurt
                 PROVE  Reach(heap) \cap freed = {} /\ {Key(n) : n \in Reach(heap)} = ids
      BY DEF TreeHoldsIds
    <2>1. Reach(heap) \cap freed = {}
      BY TidyFacts DEF PoolInv
    <2>2. Held(heap, pc, var, ids)
      BY DEF Uncut, Whole
    <2>3. pc # "remove"
      BY DEF Quiet
    <2> QED BY <2>1, <2>2, <2>3 DEF Held
  <1> QED
    BY <1>1, StaysUncut, PoolIsTidy, PTL

\* Until the first ^C, minerva_vars_destroy passes its assertion that len is 0 exactly
\* if every variable has been freed: the counter is right about what is left.
THEOREM NothingIsLeft == Spec => []LeavesNothing
  <1>1. PoolInv /\ Uncut => LeavesNothing
    <2> SUFFICES ASSUME PoolInv, Uncut, sigints = 0, pc \in {"gone", "abort", "dead"}
                 PROVE  pc = IF freed = Node THEN "gone" ELSE "abort"
      BY DEF LeavesNothing
    <2>1. pc # "dead" /\ (pc = "gone" => len = 0) /\ (pc = "abort" => len # 0)
          /\ Counted(freed, pc, len)
      BY DEF Uncut, Whole
    <2>2. len = Cardinality(Node \ freed) - 0
      BY <2>1 DEF Counted
    <2>A. PICK A : A = Node \ freed
      OBVIOUS
    <2>3. freed \in SUBSET Node /\ IsFiniteSet(A)
      BY <2>A, TidyFacts, NodeFacts, FS_Subset DEF PoolInv
    <2>4. Cardinality(A) \in Nat /\ (Cardinality(A) = 0 <=> A = {})
      BY <2>3, FS_CardinalityType, FS_EmptySet
    <2>5. len = 0 <=> freed = Node
      BY <2>2, <2>3, <2>4, <2>A
    <2> QED BY <2>1, <2>5
  <1> QED
    BY <1>1, StaysUncut, PoolIsTidy, PTL

-----------------------------------------------------------------------------
(* What the searches find *)

\* minerva_vars_dump lists every key in the tree once, in order.
LEMMA DumpIs ==
    ASSUME NEW h, RightTree(h), NEW w, w = VarsDump(h)
    PROVE  /\ {w[i] : i \in DOMAIN w} = {Key(n) : n \in Reach(h)}
           /\ \A i, j \in DOMAIN w : i < j => w[i] < w[j]
  <1>C. PICK C : C = Cardinality(Node)
    OBVIOUS
  <1>1. C \in Nat /\ Null \notin Reach(h) /\ "right" \in Side
    BY <1>C, NodeFacts, ReachFacts DEF RightTree, Side
  <1>2. PICK v : /\ IsVisit(h, v, C)
                 /\ Walk(h, "right") = [i \in 1 .. Cardinality({j \in 1 .. C : v[j] # Null}) |-> v[i]]
    BY <1>C, WalkIsVisit
  <1>E. PICK E : E = {j \in 1 .. C : v[j] # Null}
    OBVIOUS
  <1>3. \A j \in 1 .. C : v[j] # Null => \A i \in 1 .. j - 1 : v[i] # Null /\ Key(v[i]) < Key(v[j])
    BY <1>1, <1>2, VisitRises
  <1>4. E = 1 .. Cardinality(E)
    <2>1. E \subseteq 1 .. C
      BY <1>E
    <2>2. \A j \in E : \A i \in 1 .. j - 1 : i \in E
      BY <1>1, <1>3, <1>E
    <2> QED BY <2>1, <2>2, <1>1, FirstOnes
  <1>5. Walk(h, "right") = [i \in E |-> v[i]]
    BY <1>2, <1>4, <1>E
  <1>6. DOMAIN w = E /\ \A i \in E : w[i] = Key(v[i])
    BY <1>5 DEF VarsDump
  <1>7. {w[i] : i \in DOMAIN w} = {Key(n) : n \in Reach(h)}
    <2>1. \A i \in E : v[i] \in Reach(h)
      BY <1>2, <1>E DEF IsVisit
    <2>2. ASSUME NEW x \in Reach(h) PROVE \E i \in E : v[i] = x
      <3>1. PICK i \in 1 .. C : v[i] = x
        BY <1>2, <1>C, VisitMeetsAll
      <3> QED BY <3>1, <1>1, <1>E
    <2>3. \A k : k \in {w[i] : i \in DOMAIN w} <=> \E n \in Reach(h) : k = Key(n)
      BY <2>1, <2>2, <1>6
    <2> QED BY <2>3
  <1>8. ASSUME NEW i \in DOMAIN w, NEW j \in DOMAIN w, i < j PROVE w[i] < w[j]
    <2>1. i \in E /\ j \in E /\ i \in 1 .. C /\ j \in 1 .. C /\ v[j] # Null
      BY <1>6, <1>8, <1>E
    <2>2. i \in 1 .. j - 1
      BY <2>1, <1>8
    <2>3. Key(v[i]) < Key(v[j])
      BY <2>1, <2>2, <1>3
    <2> QED BY <2>1, <2>3, <1>6
  <1> QED
    BY <1>7, <1>8

\* RB_FIND finds the keys in the tree.
LEMMA FindIs ==
    ASSUME NEW h, RightTree(h), NEW k \in Nat
    PROVE  Find(h, k) # Null <=> k \in {Key(n) : n \in Reach(h)}
  <1>1. h \in Heap /\ Reach(h) \in SUBSET Node /\ Null \notin Reach(h)
        /\ (h.root = Null => Reach(h) = {})
    BY ReachFacts, NodeFacts DEF RightTree
  <1>y. PICK y : y = Descend(h, k)
    OBVIOUS
  <1>2. Find(h, k) = IF y # Null /\ Key(y) = k THEN y ELSE Null
    BY <1>y DEF Find
  <1>3. CASE h.root = Null
    <2>1. y = Null
      BY <1>3, <1>y DEF Descend
    <2> QED BY <2>1, <1>1, <1>2, <1>3
  <1>4. CASE h.root # Null
    <2>1. y \in Reach(h) /\ \A m \in Reach(h) : Key(m) = k => m = y
      BY <1>4, <1>y, DescendEnds
    <2>2. y # Null
      BY <2>1, <1>1
    <2>3. k \in {Key(n) : n \in Reach(h)} <=> Key(y) = k
      BY <2>1
    <2> QED BY <2>2, <2>3, <1>2
  <1> QED
    BY <1>3, <1>4

\* In a tree whose links are right, RB_FIND and RB_NFIND say what is true of the set
\* of identifiers, and RB_FOREACH meets each variable once, in order.
THEOREM SearchesAreRight == Spec => []SearchesAgree
  <1>1. PoolInv => SearchesAgree
    <2> SUFFICES ASSUME PoolInv, Sound
                 PROVE  LET S == {Key(n) : n \in Reach(heap)} IN
                        /\ LET w == VarsDump(heap) IN
                           /\ {w[i] : i \in DOMAIN w} = S
                           /\ \A i, j \in DOMAIN w : i < j => w[i] < w[j]
                        /\ \A k \in Ids :
                              /\ Find(heap, k) # Null <=> k \in S
                              /\ LET n == NFind(heap, k) IN
                                 IF n = Null THEN \A m \in S : m < k
                                 ELSE Key(n) >= k /\ ~\E m \in S : k <= m /\ m < Key(n)
      BY DEF SearchesAgree
    <2>S. PICK S : S = {Key(n) : n \in Reach(heap)}
      OBVIOUS
    <2>w. PICK w : w = VarsDump(heap)
      OBVIOUS
    <2>1. RightTree(heap) /\ heap \in Heap /\ IsSearchTree(heap)
      BY TidyFacts DEF PoolInv, Sound, RightTree
    <2>2. {w[i] : i \in DOMAIN w} = S /\ \A i, j \in DOMAIN w : i < j => w[i] < w[j]
      BY <2>1, <2>S, <2>w, DumpIs
    <2>3. ASSUME NEW k \in Ids
          PROVE  /\ Find(heap, k) # Null <=> k \in S
                 /\ LET n == NFind(heap, k) IN
                    IF n = Null THEN \A m \in S : m < k
                    ELSE Key(n) >= k /\ ~\E m \in S : k <= m /\ m < Key(n)
      <3>1. k \in Nat
        BY PoolConstants, IdsAssumption
      <3>2. Find(heap, k) # Null <=> k \in S
        BY <3>1, <2>1, <2>S, FindIs
      <3>y. PICK y : y = NFind(heap, k)
        OBVIOUS
      <3>3. /\ y = Null => \A x \in Reach(heap) : Key(x) < k
            /\ y # Null => /\ y \in Reach(heap) /\ Key(y) >= k
                           /\ \A x \in Reach(heap) : Key(x) >= k => Key(x) >= Key(y)
        BY <3>1, <3>y, <2>1, NFindIs
      <3>4. \A x \in Reach(heap) : Key(x) \in Nat
        BY <2>1, ReachFacts, NodeFacts
      <3>5. \A m \in S : \E x \in Reach(heap) : m = Key(x)
        BY <2>S
      <3>6. IF y = Null THEN \A m \in S : m < k
            ELSE Key(y) >= k /\ ~\E m \in S : k <= m /\ m < Key(y)
        <4>1. CASE y = Null
          BY <4>1, <3>3, <3>5
        <4>2. CASE y # Null
          <5>1. ASSUME NEW m \in S, k <= m, m < Key(y) PROVE FALSE
            <6>1. PICK x \in Reach(heap) : m = Key(x)
              BY <3>5
            <6> QED BY <6>1, <5>1, <4>2, <3>1, <3>3, <3>4
          <5> QED BY <5>1, <4>2, <3>3
        <4> QED BY <4>1, <4>2
      <3> QED BY <3>2, <3>6, <3>y
    <2> QED BY <2>2, <2>3, <2>S, <2>w
  <1> QED
    BY <1>1, PoolIsTidy, PTL
=============================================================================
