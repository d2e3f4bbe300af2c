---------------------------- MODULE Repl_proofs -----------------------------
(***************************************************************************)
(* Machine-checked proofs about Repl: for every set of names, every set of *)
(* lines and every bound, the shell counts the references to a context     *)
(* right, binds every value once and gives no command a freed value.       *)
(***************************************************************************)
EXTENDS Repl, SeqLemmas

-----------------------------------------------------------------------------
(* The inductive invariant *)

Nodes == [key : Name, val : Nat \ {None}]

\* No key and no value is in the dictionary twice.
Distinct(d) ==
    \A i, j \in DOMAIN d : i # j => d[i].key # d[j].key /\ d[i].val # d[j].val

Bound == IF phase = "bind" /\ result # None THEN {result} ELSE {}

\* The allocated values are those with a name and the result that is about to
\* get one; the latter has no name yet.
Binding ==
    /\ Distinct(dict)
    /\ Held = Vals(dict) \cup Bound
    /\ Bound \cap Vals(dict) = {}

Phases == {"prompt", "lookup", "call", "bind", "clean"} \cup Gone
Arg == [kind : {"num", "str", "ctx"}, v : Nat]
Context == [refs : Nat, alloc : BOOLEAN, pool : Nat \cup {NoPool}, trace : Seq(Nat)]

ValueTyped == value \in Seq([ctx : 1 .. Len(ctx), alloc : BOOLEAN]) /\ ctx \in Seq(Context)

Control ==
    /\ phase \in Phases /\ line \in Line /\ result \in 0 .. Len(value)
    /\ file \in Seq(Nat) \cup {NoFile} /\ argv \in Seq(Arg)
    /\ \A i \in DOMAIN argv : argv[i].kind = "ctx" => argv[i].v \in DOMAIN value

\* From the look-up to the binding an argument is what its name stands for.
Arguments ==
    phase \in {"call", "bind"} =>
        \A i \in DOMAIN argv : argv[i].kind = "ctx" =>
            /\ i \in DOMAIN line.args /\ line.args[i] \in Keys(dict)
            /\ argv[i].v = DictGet(dict, line.args[i])

CleanArgs ==
    phase = "clean" /\ FreedArg => \E i \in DOMAIN line.args : line.args[i] = Target

ReplInv ==
    /\ Control /\ ValueTyped /\ dict \in Seq(Nodes)
    /\ Binding /\ Arguments
    /\ RefsCountValues /\ CleanArgs

-----------------------------------------------------------------------------
(* The dictionary *)

\* With distinct keys, a search returns the node with the key.
LEMMA DictGetNode ==
    ASSUME NEW d \in Seq(Nodes), Distinct(d), NEW i \in DOMAIN d
    PROVE  NodeByKey(d, d[i].key) = i /\ DictGet(d, d[i].key) = d[i].val
  <1>1. DOMAIN d = 1 .. Len(d) /\ Len(d) \in Nat
    OBVIOUS
  <1>2. \A j \in DOMAIN d : d[j].key = d[i].key => j = i
    BY DEF Distinct
  <1>3. \A j \in 1 .. i - 1 : d[j].key # d[i].key
    BY <1>1, <1>2
  <1>4. NodeByKey(d, d[i].key) = i
    BY <1>2, <1>3, Zenon DEF NodeByKey
  <1> QED
    BY <1>4 DEF DictGet, Keys

\* The value found is the dictionary's, and is no other name's.
LEMMA DictGetValue ==
    ASSUME NEW d \in Seq(Nodes), Distinct(d), NEW key \in Keys(d)
    PROVE  /\ DictGet(d, key) \in Vals(d) /\ DictGet(d, key) # None
           /\ \A other \in Keys(d) : DictGet(d, other) = DictGet(d, key) => other = key
  <1>1. PICK i \in DOMAIN d : d[i].key = key
    BY DEF Keys
  <1>2. DictGet(d, key) = d[i].val
    BY <1>1, DictGetNode
  <1>3. d[i] \in Nodes
    BY SeqIsFunction
  <1>4. ASSUME NEW other \in Keys(d), DictGet(d, other) = DictGet(d, key)
        PROVE  other = key
    <2>1. PICK j \in DOMAIN d : d[j].key = other
      BY DEF Keys
    <2>2. DictGet(d, other) = d[j].val
      BY <2>1, DictGetNode
    <2> QED BY <1>1, <1>2, <1>4, <2>1, <2>2 DEF Distinct
  <1> QED
    BY <1>2, <1>3, <1>4 DEF Vals, Nodes

\* Taking node i out leaves the other nodes.
LEMMA DictWithout ==
    ASSUME NEW d \in Seq(Nodes), Distinct(d), NEW i \in DOMAIN d
    PROVE  LET r == RemoveAt(d, i) IN
           /\ r \in Seq(Nodes) /\ Distinct(r)
           /\ Vals(r) = Vals(d) \ {d[i].val} /\ Keys(r) = Keys(d) \ {d[i].key}
  <1> DEFINE r == RemoveAt(d, i)
  <1>1. /\ r \in Seq(Nodes) /\ DOMAIN r = 1 .. Len(d) - 1
        /\ \A k \in DOMAIN r : r[k] = IF k < i THEN d[k] ELSE d[k + 1]
    BY RemoveAtElements
  <1>2. DOMAIN d = 1 .. Len(d) /\ Len(d) \in Nat
    OBVIOUS
  <1> HIDE DEF r
  <1> DEFINE from(k) == IF k < i THEN k ELSE k + 1
             to(k) == IF k < i THEN k ELSE k - 1
  <1>3. \A k \in DOMAIN r : from(k) \in DOMAIN d /\ from(k) # i /\ r[k] = d[from(k)]
    BY <1>1, <1>2
  <1>4. \A k \in DOMAIN d : k # i => to(k) \in DOMAIN r /\ r[to(k)] = d[k]
    BY <1>1, <1>2
  <1>5. \A k, l \in DOMAIN r : k # l => from(k) # from(l)
    BY <1>1, <1>2
  <1> HIDE DEF from, to
  <1>6. Distinct(r)
    BY <1>3, <1>5 DEF Distinct
  <1>7. Vals(r) = Vals(d) \ {d[i].val}
    BY <1>3, <1>4 DEF Vals, Distinct
  <1>8. Keys(r) = Keys(d) \ {d[i].key}
    BY <1>3, <1>4 DEF Keys, Distinct
  <1> QED
    BY <1>1, <1>6, <1>7, <1>8 DEF r

\* One node in front of a dictionary that has neither its key nor its value
LEMMA DictCons ==
    ASSUME NEW d \in Seq(Nodes), Distinct(d), NEW n \in Nodes,
           n.key \notin Keys(d), n.val \notin Vals(d)
    PROVE  LET r == <<n>> \o d IN
           /\ r \in Seq(Nodes) /\ Distinct(r)
           /\ Vals(r) = {n.val} \cup Vals(d) /\ Keys(r) = {n.key} \cup Keys(d)
  <1> DEFINE r == <<n>> \o d
  <1>1. DOMAIN d = 1 .. Len(d) /\ Len(d) \in Nat
    OBVIOUS
  <1>2. /\ r \in Seq(Nodes) /\ DOMAIN r = 1 .. Len(d) + 1 /\ r[1] = n
        /\ \A k \in 2 .. Len(d) + 1 : r[k] = d[k - 1]
    OBVIOUS
  <1> HIDE DEF r
  <1>3. \A k \in DOMAIN r : k = 1 \/ (k - 1 \in DOMAIN d /\ r[k] = d[k - 1])
    BY <1>1, <1>2
  <1>4. \A k \in DOMAIN d : k + 1 \in DOMAIN r /\ r[k + 1] = d[k]
    BY <1>1, <1>2
  <1>5. 1 \in DOMAIN r
    BY <1>1, <1>2
  <1>6. \A k \in DOMAIN d : d[k].key # n.key /\ d[k].val # n.val
    BY DEF Keys, Vals
  <1>7. Distinct(r)
    <2> SUFFICES ASSUME NEW k \in DOMAIN r, NEW l \in DOMAIN r, k # l
                 PROVE  r[k].key # r[l].key /\ r[k].val # r[l].val
      BY DEF Distinct
    <2>1. CASE k = 1
      BY <1>2, <1>3, <1>6, <2>1
    <2>2. CASE l = 1
      BY <1>2, <1>3, <1>6, <2>2
    <2>3. CASE k # 1 /\ l # 1
      <3>1. k - 1 # l - 1
        BY <1>1, <1>2
      <3> QED BY <1>3, <2>3, <3>1 DEF Distinct
    <2> QED BY <2>1, <2>2, <2>3
  <1>8. Vals(r) = {n.val} \cup Vals(d)
    <2>1. ASSUME NEW k \in DOMAIN r PROVE r[k].val \in {n.val} \cup Vals(d)
      BY <1>2, <1>3, Zenon DEF Vals
    <2>2. ASSUME NEW x \in {n.val} \cup Vals(d) PROVE x \in Vals(r)
      <3>1. CASE x = n.val
        BY <3>1, <1>2, <1>5, Zenon DEF Vals
      <3>2. CASE x \in Vals(d)
        <4>1. PICK k \in DOMAIN d : x = d[k].val
          BY <3>2, Zenon DEF Vals
        <4>2. r[k + 1].val \in Vals(r)
          BY <1>4, Zenon DEF Vals
        <4> QED BY <4>1, <4>2, <1>4
      <3> QED BY <2>2, <3>1, <3>2, Zenon
    <2> QED BY <2>1, <2>2, Zenon DEF Vals
  <1>9. Keys(r) = {n.key} \cup Keys(d)
    <2>1. ASSUME NEW k \in DOMAIN r PROVE r[k].key \in {n.key} \cup Keys(d)
      BY <1>2, <1>3, Zenon DEF Keys
    <2>2. ASSUME NEW x \in {n.key} \cup Keys(d) PROVE x \in Keys(r)
      <3>1. CASE x = n.key
        BY <3>1, <1>2, <1>5, Zenon DEF Keys
      <3>2. CASE x \in Keys(d)
        <4>1. PICK k \in DOMAIN d : x = d[k].key
          BY <3>2, Zenon DEF Keys
        <4>2. r[k + 1].key \in Keys(r)
          BY <1>4, Zenon DEF Keys
        <4> QED BY <4>1, <4>2, <1>4
      <3> QED BY <2>2, <3>1, <3>2, Zenon
    <2> QED BY <2>1, <2>2, Zenon DEF Keys
  <1> QED
    BY <1>2, <1>7, <1>8, <1>9 DEF r

\* dict_insert replaces the value of a key.
LEMMA DictInserted ==
    ASSUME NEW d \in Seq(Nodes), Distinct(d),
           NEW key \in Name, NEW val \in Nat \ {None}, val \notin Vals(d)
    PROVE  LET r == DictInsert(d, key, val) IN
           /\ r \in Seq(Nodes) /\ Distinct(r)
           /\ Vals(r) = {val} \cup (Vals(d) \ {DictGet(d, key)})
  <1> DEFINE n == [key |-> key, val |-> val]
  <1>1. n \in Nodes
    BY DEF Nodes
  <1>2. CASE key \in Keys(d)
    <2>1. PICK i \in DOMAIN d : d[i].key = key
      BY <1>2 DEF Keys
    <2>2. NodeByKey(d, key) = i /\ DictGet(d, key) = d[i].val
      BY <2>1, DictGetNode
    <2> DEFINE w == RemoveAt(d, i)
    <2>3. /\ w \in Seq(Nodes) /\ Distinct(w)
          /\ Vals(w) = Vals(d) \ {d[i].val} /\ Keys(w) = Keys(d) \ {d[i].key}
      BY DictWithout
    <2>4. DictInsert(d, key, val) = <<n>> \o w
      BY <1>2, <2>2 DEF DictInsert, DictRemove
    <2> HIDE DEF w, n
    <2>5. n.key = key /\ n.val = val
      BY DEF n
    <2>6. n.key \notin Keys(w) /\ n.val \notin Vals(w)
      BY <2>1, <2>3, <2>5
    <2> QED BY <1>1, <2>2, <2>3, <2>4, <2>5, <2>6, DictCons
  <1>3. CASE key \notin Keys(d)
    <2>1. DictInsert(d, key, val) = <<n>> \o d /\ DictGet(d, key) = None
      BY <1>3 DEF DictInsert, DictRemove, DictGet
    <2>2. None \notin Vals(d)
      <3>1. \A i \in DOMAIN d : d[i] \in Nodes
        BY SeqIsFunction
      <3> QED BY <3>1 DEF Vals, Nodes
    <2> HIDE DEF n
    <2>3. n.key = key /\ n.val = val
      BY DEF n
    <2> QED BY <1>1, <1>3, <2>1, <2>2, <2>3, DictCons
  <1> QED
    BY <1>2, <1>3

\* Without its first node
LEMMA DictTail ==
    ASSUME NEW d \in Seq(Nodes), Distinct(d), d # <<>>
    PROVE  /\ Tail(d) \in Seq(Nodes) /\ Distinct(Tail(d))
           /\ d[1].val \in Vals(d) /\ Vals(Tail(d)) = Vals(d) \ {d[1].val}
  <1>1. 1 \in DOMAIN d
    OBVIOUS
  <1>2. Tail(d) = RemoveAt(d, 1)
    <2> DEFINE r == RemoveAt(d, 1)
    <2>1. r \in Seq(Nodes) /\ Len(r) = Len(d) - 1
          /\ \A i \in DOMAIN r : r[i] = IF i < 1 THEN d[i] ELSE d[i + 1]
      BY <1>1, RemoveAtElements
    <2> HIDE DEF r
    <2>2. Tail(d) = r
      BY <2>1
    <2> QED BY <2>2 DEF r
  <1>3. d[1].val \in Vals(d)
    BY <1>1 DEF Vals
  <1> QED
    BY <1>1, <1>2, <1>3, DictWithout

\* The nodes as a set say what a search returns.
LEMMA DictEntry ==
    ASSUME NEW d \in Seq(Nodes), Distinct(d)
    PROVE  /\ Keys(d) = {n.key : n \in ToSet(d)}
           /\ \A n \in ToSet(d) : DictGet(d, n.key) = n.val
           /\ IsInjective(d)
  <1>1. Keys(d) = {n.key : n \in ToSet(d)}
    BY Zenon DEF Keys, ToSet
  <1>2. ASSUME NEW n \in ToSet(d) PROVE DictGet(d, n.key) = n.val
    <2>1. PICK i \in DOMAIN d : n = d[i]
      BY DEF ToSet
    <2> QED BY <2>1, DictGetNode
  <1>3. IsInjective(d)
    BY DEF IsInjective, Distinct
  <1> QED
    BY <1>1, <1>2, <1>3, Zenon

\* A search in two dictionaries that have the same nodes for a key
LEMMA DictSameEntry ==
    ASSUME NEW d \in Seq(Nodes), Distinct(d), NEW r \in Seq(Nodes), Distinct(r),
           NEW key \in Keys(d), \A n \in ToSet(d) : n.key = key => n \in ToSet(r)
    PROVE  key \in Keys(r) /\ DictGet(r, key) = DictGet(d, key)
  <1>1. PICK n \in ToSet(d) : n.key = key
    BY DictEntry, Zenon
  <1> QED
    BY <1>1, DictEntry, Zenon

\* After dict_insert the key has the new value, the others have what they had.
LEMMA DictInsertedGets ==
    ASSUME NEW d \in Seq(Nodes), Distinct(d),
           NEW key \in Name, NEW val \in Nat \ {None}, val \notin Vals(d)
    PROVE  LET r == DictInsert(d, key, val) IN
           /\ Keys(r) = Keys(d) \cup {key} /\ DictGet(r, key) = val
           /\ \A other \in Keys(d) \ {key} : DictGet(r, other) = DictGet(d, other)
  <1> DEFINE n == [key |-> key, val |-> val]
             w == DictRemove(d, key)
             r == DictInsert(d, key, val)
  <1>1. r \in Seq(Nodes) /\ Distinct(r)
    BY DictInserted
  <1>2. w \in Seq(Nodes) /\ ToSet(w) = {m \in ToSet(d) : m.key # key}
    <2>1. CASE key \in Keys(d)
      <3>1. PICK i \in DOMAIN d : d[i].key = key
        BY <2>1 DEF Keys
      <3>2. w = RemoveAt(d, i)
        BY <2>1, <3>1, DictGetNode DEF DictRemove
      <3>3. w \in Seq(Nodes) /\ ToSet(w) = ToSet(d) \ {d[i]}
        BY <3>2, RemoveAtSet, DictEntry
      <3>4. \A m \in ToSet(d) : m.key = key <=> m = d[i]
        BY <3>1 DEF ToSet, Distinct
      <3> QED BY <3>3, <3>4, Zenon
    <2>2. CASE key \notin Keys(d)
      <3>1. w = d
        BY <2>2 DEF DictRemove
      <3> HIDE DEF w
      <3>2. \A m \in ToSet(d) : m.key # key
        BY <2>2, DictEntry, Zenon
      <3>3. {m \in ToSet(d) : m.key # key} = ToSet(d)
        BY <3>2, Zenon
      <3> QED BY <3>1, <3>3, Zenon
    <2> QED BY <2>1, <2>2
  <1>3. n \in Nodes /\ n.key = key /\ n.val = val
    BY DEF Nodes
  <1>4. r = <<n>> \o w
    BY DEF DictInsert
  <1> HIDE DEF n, w, r
  <1>5. ToSet(r) = {n} \cup ToSet(w)
    <2>1. /\ DOMAIN w = 1 .. Len(w) /\ Len(w) \in Nat
          /\ DOMAIN r = 1 .. Len(w) + 1 /\ r[1] = n
          /\ \A k \in 2 .. Len(w) + 1 : r[k] = w[k - 1]
      BY <1>2, <1>3, <1>4
    <2>2. \A k \in DOMAIN r : k = 1 \/ (k - 1 \in DOMAIN w /\ r[k] = w[k - 1])
      BY <2>1
    <2>3. \A k \in DOMAIN w : k + 1 \in DOMAIN r /\ r[k + 1] = w[k]
      <3>1. \A k \in 1 .. Len(w) : k + 1 \in 2 .. Len(w) + 1 /\ (k + 1) - 1 = k
        BY <2>1
      <3>2. 2 .. Len(w) + 1 \subseteq DOMAIN r
        BY <2>1
      <3> QED BY <2>1, <3>1, <3>2, Zenon
    <2>4. 1 \in DOMAIN r
      <3>1. 1 \in 1 .. Len(w) + 1
        BY <2>1
      <3> QED BY <2>1, <3>1, Zenon
    <2>5. \A m \in ToSet(r) : m \in {n} \cup ToSet(w)
      <3>1. \A k \in DOMAIN r : r[k] = n \/ r[k] \in ToSet(w)
        BY <2>1, <2>2, Zenon DEF ToSet
      <3> QED BY <3>1, Zenon DEF ToSet
    <2>6. n \in ToSet(r)
      BY <2>1, <2>4, Zenon DEF ToSet
    <2>7. \A m \in ToSet(w) : m \in ToSet(r)
      BY <2>3, Zenon DEF ToSet
    <2> QED BY <2>5, <2>6, <2>7, Zenon
  <1>6. Keys(r) = Keys(d) \cup {key}
    <2>1. Keys(r) = {m.key : m \in ToSet(r)} /\ Keys(d) = {m.key : m \in ToSet(d)}
      BY <1>1, DictEntry, Zenon
    <2> QED BY <1>2, <1>3, <1>5, <2>1
  <1>7. DictGet(r, key) = val
    BY <1>1, <1>3, <1>5, DictEntry, Zenon
  <1>8. ASSUME NEW other \in Keys(d) \ {key} PROVE DictGet(r, other) = DictGet(d, other)
    <2>1. \A m \in ToSet(d) : m.key = other => m \in ToSet(r)
      BY <1>2, <1>5
    <2> QED BY <1>1, <2>1, DictSameEntry, Zenon
  <1> QED
    BY <1>6, <1>7, <1>8 DEF r

\* Without its first node the dictionary has the other names, as they were.
LEMMA DictTailGets ==
    ASSUME NEW d \in Seq(Nodes), Distinct(d), d # <<>>
    PROVE  LET r == Tail(d) IN
           /\ d[1].key \in Keys(d) /\ Keys(r) = Keys(d) \ {d[1].key}
           /\ \A other \in Keys(r) : DictGet(r, other) = DictGet(d, other)
  <1> DEFINE r == Tail(d)
  <1>1. r \in Seq(Nodes) /\ Distinct(r)
    BY DictTail, Zenon
  <1>2. /\ DOMAIN d = 1 .. Len(d) /\ Len(d) \in Nat /\ Len(d) > 0
        /\ DOMAIN r = 1 .. Len(d) - 1 /\ \A k \in DOMAIN r : r[k] = d[k + 1]
    OBVIOUS
  <1> HIDE DEF r
  <1>3. 1 \in DOMAIN d /\ \A k \in DOMAIN r : k + 1 \in DOMAIN d /\ k + 1 # 1 /\ r[k] = d[k + 1]
    BY <1>2
  <1>4. \A k \in DOMAIN d : k = 1 \/ (k - 1 \in DOMAIN r /\ r[k - 1] = d[k])
    BY <1>2
  <1>5. Keys(r) = Keys(d) \ {d[1].key}
    <2>1. \A x \in Keys(r) : x \in Keys(d) /\ x # d[1].key
      <3>1. \A k \in DOMAIN r : d[k + 1].key # d[1].key
        BY <1>3, Zenon DEF Distinct
      <3>2. \A k \in DOMAIN r : r[k].key \in Keys(d) /\ r[k].key # d[1].key
        BY <1>3, <3>1, Zenon DEF Keys
      <3> QED BY <3>2, Zenon DEF Keys
    <2>2. \A x \in Keys(d) : x # d[1].key => x \in Keys(r)
      BY <1>4, Zenon DEF Keys
    <2>3. d[1].key \notin Keys(r)
      BY <2>1, Zenon
    <2> QED BY <2>1, <2>2, <2>3, Zenon
  <1>6. \A m \in ToSet(r) : m \in ToSet(d)
    BY <1>3, Zenon DEF ToSet
  <1>7. ASSUME NEW other \in Keys(r) PROVE DictGet(r, other) = DictGet(d, other)
    <2>1. \A m \in ToSet(r) : m.key = other => m \in ToSet(d)
      BY <1>6
    <2> QED BY <1>1, <2>1, DictSameEntry, Zenon
  <1>8. d[1].key \in Keys(d)
    BY <1>3, Zenon DEF Keys
  <1> QED
    BY <1>5, <1>7, <1>8 DEF r

-----------------------------------------------------------------------------
(* Values and the contexts they hold *)

Holding(c) == {v \in Held : value[v].ctx = c}

\* The values that hold a context are finitely many, and each holds one that exists.
LEMMA HoldingFinite ==
    ASSUME ValueTyped
    PROVE  /\ DOMAIN value = 1 .. Len(value) /\ Len(value) \in Nat
           /\ DOMAIN ctx = 1 .. Len(ctx) /\ Len(ctx) \in Nat
           /\ \A v \in DOMAIN value : value[v] \in [ctx : DOMAIN ctx, alloc : BOOLEAN]
           /\ \A c \in DOMAIN ctx : ctx[c] \in Context
           /\ Held \subseteq DOMAIN value
           /\ \A c : IsFiniteSet(Holding(c))
  <1>1. /\ DOMAIN value = 1 .. Len(value) /\ Len(value) \in Nat
        /\ DOMAIN ctx = 1 .. Len(ctx) /\ Len(ctx) \in Nat
    BY SeqIsFunction DEF ValueTyped
  <1>2. \A v \in DOMAIN value : value[v] \in [ctx : DOMAIN ctx, alloc : BOOLEAN]
    BY <1>1, SeqIsFunction DEF ValueTyped
  <1>3. \A c \in DOMAIN ctx : ctx[c] \in Context
    BY SeqIsFunction DEF ValueTyped
  <1>4. IsFiniteSet(DOMAIN value)
    BY <1>1, FS_Interval
  <1>5. \A c : Holding(c) \subseteq DOMAIN value
    BY DEF Holding, Held
  <1> QED
    BY <1>1, <1>2, <1>3, <1>4, <1>5, FS_Subset DEF Held

\* A new value of a new context
LEMMA NewContext ==
    ASSUME ValueTyped, RefsCountValues,
           NEW pool \in Nat \cup {NoPool}, NEW trace \in Seq(Nat),
           ctx' = Append(ctx, NewCtx(pool, trace)), value' = NewValue(Len(ctx) + 1)
    PROVE  /\ ValueTyped' /\ RefsCountValues'
           /\ Held' = Held \cup {Len(value) + 1} /\ Len(value') = Len(value) + 1
  <1> DEFINE new == NewCtx(pool, trace)
             val == [ctx |-> Len(ctx) + 1, alloc |-> TRUE]
  <1>0. /\ DOMAIN value = 1 .. Len(value) /\ Len(value) \in Nat
        /\ DOMAIN ctx = 1 .. Len(ctx) /\ Len(ctx) \in Nat
        /\ \A v \in DOMAIN value : value[v] \in [ctx : DOMAIN ctx, alloc : BOOLEAN]
    BY HoldingFinite
  <1>1. new \in Context /\ new.refs = 1 /\ new.alloc = TRUE
    BY DEF Context, NewCtx
  <1>2. val \in [ctx : 1 .. Len(ctx) + 1, alloc : BOOLEAN] /\ val.ctx = Len(ctx) + 1 /\ val.alloc = TRUE
    BY <1>0
  <1>3. /\ ctx' \in Seq(Context) /\ Len(ctx') = Len(ctx) + 1
        /\ DOMAIN ctx' = 1 .. Len(ctx) + 1 /\ DOMAIN ctx' = DOMAIN ctx \cup {Len(ctx) + 1}
        /\ ctx'[Len(ctx) + 1] = new /\ \A c \in DOMAIN ctx : ctx'[c] = ctx[c]
    <2> HIDE DEF new
    <2>1. ctx \in Seq(Context)
      BY DEF ValueTyped
    <2>2. ctx' = Append(ctx, new)
      BY DEF new
    <2> QED BY <1>1, <2>1, <2>2, AppendElements
  <1> DEFINE T == [ctx : 1 .. Len(ctx) + 1, alloc : BOOLEAN]
  <1>4. /\ value' \in Seq(T) /\ Len(value') = Len(value) + 1
        /\ DOMAIN value' = DOMAIN value \cup {Len(value) + 1}
        /\ Len(value) + 1 \notin DOMAIN value
        /\ value'[Len(value) + 1] = val /\ \A v \in DOMAIN value : value'[v] = value[v]
    <2>1. \A v \in DOMAIN value : value[v] \in T
      BY <1>0
    <2>2. value \in Seq(T)
      <3>1. PICK U : value \in Seq(U)
        BY DEF ValueTyped
      <3> HIDE DEF T
      <3> QED BY <2>1, <3>1, SeqOfElements, Zenon
    <2>3. val \in T
      BY <1>2
    <2> HIDE DEF T, val
    <2>4. value' = Append(value, val)
      BY DEF NewValue, val
    <2> DEFINE u == Append(value, val)
    <2>5. /\ u \in Seq(T) /\ Len(u) = Len(value) + 1 /\ DOMAIN u = 1 .. Len(value) + 1
          /\ u[Len(value) + 1] = val /\ \A k \in DOMAIN value : u[k] = value[k]
          /\ DOMAIN u = DOMAIN value \cup {Len(value) + 1} /\ Len(value) + 1 \notin DOMAIN value
      BY <2>2, <2>3, AppendElements
    <2>6. value' = u
      BY <2>4
    <2> HIDE DEF u
    <2> QED BY <2>5, <2>6
  <1>5. ValueTyped'
    BY <1>3, <1>4 DEF ValueTyped
  <1> HIDE DEF new, val, T
  <1>6. Held' = Held \cup {Len(value) + 1}
    BY <1>2, <1>4, Zenon DEF Held
  <1>a. \A v \in DOMAIN value : value[v].ctx \in DOMAIN ctx
    BY <1>0
  <1>b. Len(ctx) + 1 \notin DOMAIN ctx
    BY <1>0
  <1>7. \A c \in DOMAIN ctx : Holding(c)' = Holding(c)
    BY <1>2, <1>4, <1>6, <1>b, ZenonT(60) DEF Holding, Held
  <1>8. ASSUME NEW c, c = Len(ctx) + 1 PROVE Holding(c)' = {Len(value) + 1}
    <2>1. Len(value) + 1 \in Holding(c)'
      BY <1>2, <1>4, <1>6, <1>8, Zenon DEF Holding
    <2>2. ASSUME NEW v \in Held, value'[v].ctx = c PROVE FALSE
      BY <2>2, <1>4, <1>8, <1>a, <1>b, Zenon DEF Held
    <2> QED BY <2>1, <2>2, <1>6, Zenon DEF Holding
  <1>9. RefsCountValues'
    <2> SUFFICES ASSUME NEW c \in DOMAIN ctx'
                 PROVE  /\ ctx'[c].refs = Cardinality(Holding(c)')
                        /\ ctx'[c].alloc <=> ctx'[c].refs > 0
      BY DEF RefsCountValues, Holding
    <2>1. CASE c \in DOMAIN ctx
      BY <2>1, <1>3, <1>7, Zenon DEF RefsCountValues, Holding
    <2>2. CASE c = Len(ctx) + 1
      <3>1. Cardinality(Holding(c)') = 1
        BY <1>8, <2>2, FS_Singleton, Zenon
      <3>2. ctx'[c].refs = 1 /\ ctx'[c].alloc = TRUE
        BY <2>2, <1>1, <1>3, Zenon
      <3> QED BY <3>1, <3>2
    <2> QED BY <2>1, <2>2, <1>3
  <1> QED
    BY <1>4, <1>5, <1>6, <1>9

\* A step that leaves the values, and of every context the references and
\* whether it is allocated
LEMMA SameReferences ==
    ASSUME ValueTyped, RefsCountValues, value' = value,
           ctx' \in Seq(Context), DOMAIN ctx' = DOMAIN ctx,
           \A c \in DOMAIN ctx : ctx'[c].refs = ctx[c].refs /\ ctx'[c].alloc = ctx[c].alloc
    PROVE  ValueTyped' /\ RefsCountValues' /\ Held' = Held
  <1>1. Held' = Held
    BY DEF Held
  <1>2. \A c : Holding(c)' = Holding(c)
    BY <1>1 DEF Holding
  <1>3. RefsCountValues'
    BY <1>2, Zenon DEF RefsCountValues, Holding
  <1>4. Len(ctx') = Len(ctx)
    <2>1. ctx \in Seq(Context)
      BY DEF ValueTyped
    <2> QED BY <2>1, SeqIsFunction
  <1> QED
    BY <1>1, <1>3, <1>4 DEF ValueTyped

\* A new value of a context that is allocated, with its reference counted
LEMMA SharedContext ==
    ASSUME ValueTyped, RefsCountValues, NEW c \in DOMAIN ctx, ctx[c].alloc,
           NEW new \in Context, new.refs = ctx[c].refs + 1, new.alloc = ctx[c].alloc,
           ctx' = [ctx EXCEPT ![c] = new], value' = NewValue(c)
    PROVE  /\ ValueTyped' /\ RefsCountValues'
           /\ Held' = Held \cup {Len(value) + 1} /\ Len(value') = Len(value) + 1
  <1> DEFINE val == [ctx |-> c, alloc |-> TRUE]
             T == [ctx : 1 .. Len(ctx), alloc : BOOLEAN]
             w == Len(value) + 1
  <1>0. /\ DOMAIN value = 1 .. Len(value) /\ Len(value) \in Nat
        /\ DOMAIN ctx = 1 .. Len(ctx) /\ Len(ctx) \in Nat
        /\ ctx[c] \in Context /\ Held \subseteq DOMAIN value
        /\ IsFiniteSet(Holding(c))
    BY HoldingFinite
  <1>2. val \in T /\ val.ctx = c /\ val.alloc = TRUE
    BY <1>0
  <1>3. /\ ctx' \in Seq(Context) /\ Len(ctx') = Len(ctx) /\ DOMAIN ctx' = DOMAIN ctx
        /\ ctx'[c] = new /\ \A d \in DOMAIN ctx : d # c => ctx'[d] = ctx[d]
    BY ExceptElements DEF ValueTyped
  <1>4. /\ value' \in Seq(T) /\ Len(value') = Len(value) + 1
        /\ DOMAIN value' = DOMAIN value \cup {w} /\ w \notin DOMAIN value
        /\ value'[w] = val /\ \A v \in DOMAIN value : value'[v] = value[v]
    <2>1. value \in Seq(T)
      BY DEF ValueTyped
    <2>2. value' = Append(value, val)
      BY DEF NewValue
    <2> HIDE DEF T, val
    <2> DEFINE u == Append(value, val)
    <2>3. /\ u \in Seq(T) /\ Len(u) = Len(value) + 1
          /\ u[Len(value) + 1] = val /\ \A k \in DOMAIN value : u[k] = value[k]
          /\ DOMAIN u = DOMAIN value \cup {Len(value) + 1} /\ Len(value) + 1 \notin DOMAIN value
      BY <1>2, <2>1, AppendElements
    <2> HIDE DEF u
    <2>4. value' = u
      BY <2>2 DEF u
    <2> QED BY <2>3, <2>4
  <1>5. ValueTyped'
    BY <1>3, <1>4 DEF ValueTyped
  <1> HIDE DEF val, T, w
  <1>6. Held' = Held \cup {w}
    BY <1>2, <1>4, Zenon DEF Held
  <1>7. \A d \in DOMAIN ctx : d # c => Holding(d)' = Holding(d)
    BY <1>0, <1>2, <1>4, <1>6, ZenonT(60) DEF Holding
  <1>8. Holding(c)' = Holding(c) \cup {w} /\ w \notin Holding(c)
    BY <1>0, <1>2, <1>4, <1>6, Zenon DEF Holding
  <1>9. Cardinality(Holding(c)') = Cardinality(Holding(c)) + 1
    BY <1>0, <1>8, FS_AddElement
  <1>10. ctx[c].refs = Cardinality(Holding(c)) /\ ctx[c].refs > 0 /\ ctx[c].refs \in Nat
    BY <1>0 DEF RefsCountValues, Holding, Context
  <1>11. RefsCountValues'
    <2> SUFFICES ASSUME NEW d \in DOMAIN ctx
                 PROVE  /\ ctx'[d].refs = Cardinality(Holding(d)')
                        /\ ctx'[d].alloc <=> ctx'[d].refs > 0
      BY <1>3, Zenon DEF RefsCountValues, Holding
    <2>1. CASE d # c
      BY <2>1, <1>3, <1>7, Zenon DEF RefsCountValues, Holding
    <2>2. CASE d = c
      <3>1. ctx'[d].refs = ctx[c].refs + 1 /\ ctx'[d].alloc = ctx[c].alloc
        BY <2>2, <1>3, Zenon
      <3>2. Cardinality(Holding(d)') = ctx[c].refs + 1
        BY <2>2, <1>9, <1>10
      <3>3. ctx'[d].refs > 0 /\ ctx'[d].refs = Cardinality(Holding(d)')
        BY <3>1, <3>2, <1>10
      <3> QED BY <3>1, <3>3, Zenon
    <2> QED BY <2>1, <2>2
  <1> QED
    BY <1>4, <1>5, <1>6, <1>11 DEF w

\* The value v is freed, and its reference released.
LEMMA ValueFreed ==
    ASSUME ValueTyped, RefsCountValues, NEW v \in Held,
           value' = [value EXCEPT ![v].alloc = FALSE], ctx' = Release(ctx, value[v].ctx)
    PROVE  /\ ValueTyped' /\ RefsCountValues'
           /\ Held' = Held \ {v} /\ Len(value') = Len(value)
  <1> DEFINE c == value[v].ctx
             val == [value[v] EXCEPT !.alloc = FALSE]
             new == [ctx[c] EXCEPT !.refs = @ - 1, !.alloc = ctx[c].refs > 1]
             T == [ctx : 1 .. Len(ctx), alloc : BOOLEAN]
  <1>0. /\ DOMAIN ctx = 1 .. Len(ctx) /\ Len(ctx) \in Nat
        /\ v \in DOMAIN value /\ value[v] \in T /\ value[v].alloc
        /\ c \in DOMAIN ctx /\ ctx[c] \in Context
        /\ IsFiniteSet(Holding(c))
    BY HoldingFinite DEF Held
  <1>1. v \in Holding(c)
    BY Zenon DEF Holding
  <1>2. /\ Cardinality(Holding(c) \ {v}) = Cardinality(Holding(c)) - 1
        /\ Cardinality(Holding(c)) \in Nat /\ Cardinality(Holding(c) \ {v}) \in Nat
    BY <1>0, <1>1, FS_RemoveElement, FS_CardinalityType
  <1>3. ctx[c].refs = Cardinality(Holding(c))
    BY <1>0 DEF RefsCountValues, Holding
  <1>4. new \in Context /\ new.refs = ctx[c].refs - 1 /\ (new.alloc <=> ctx[c].refs > 1)
    <2>1. (ctx[c].refs > 1) \in BOOLEAN
      BY <1>2, <1>3
    <2>2. ctx[c].refs - 1 \in Nat
      BY <1>2, <1>3
    <2>3. ASSUME NEW more \in BOOLEAN, NEW r, r = [ctx[c] EXCEPT !.refs = @ - 1, !.alloc = more]
          PROVE  r \in Context /\ r.refs = ctx[c].refs - 1 /\ r.alloc = more
      BY <1>0, <2>2, <2>3 DEF Context
    <2> QED BY <2>1, <2>3, Zenon
  <1>5. val \in T /\ val.ctx = value[v].ctx /\ val.alloc = FALSE
    BY <1>0
  <1>6. /\ ctx' \in Seq(Context) /\ Len(ctx') = Len(ctx) /\ DOMAIN ctx' = DOMAIN ctx
        /\ ctx'[c] = new /\ \A d \in DOMAIN ctx : d # c => ctx'[d] = ctx[d]
    <2>1. ctx' = [ctx EXCEPT ![c] = new]
      BY DEF Release
    <2>2. ctx \in Seq(Context)
      BY DEF ValueTyped
    <2> HIDE DEF new, c
    <2> QED BY <1>0, <1>4, <2>1, <2>2, ExceptElements
  <1>7. /\ value' \in Seq(T) /\ Len(value') = Len(value) /\ DOMAIN value' = DOMAIN value
        /\ value'[v] = val /\ \A w \in DOMAIN value : w # v => value'[w] = value[w]
    <2>1. value' = [value EXCEPT ![v] = val]
      OBVIOUS
    <2>2. value \in Seq(T)
      BY DEF ValueTyped
    <2> HIDE DEF val, T
    <2> DEFINE u == [value EXCEPT ![v] = val]
    <2>3. /\ u \in Seq(T) /\ Len(u) = Len(value) /\ DOMAIN u = DOMAIN value
          /\ u[v] = val /\ \A w \in DOMAIN value : w # v => u[w] = value[w]
      BY <1>0, <1>5, <2>2, ExceptElements, Zenon
    <2> QED BY <2>1, <2>3, Zenon
  <1>8. ValueTyped'
    BY <1>6, <1>7 DEF ValueTyped
  <1>9. Held' = Held \ {v}
    <2> HIDE DEF val, T
    <2> QED BY <1>5, <1>7, Zenon DEF Held
  <1>10. ASSUME NEW d PROVE Holding(d)' = Holding(d) \ {v}
    <2> HIDE DEF val, T, c
    <2> QED BY <1>5, <1>7, <1>9, Zenon DEF Holding, Held
  <1>11. \A d : d # c => Holding(d) \ {v} = Holding(d)
    BY Zenon DEF Holding
  <1>12. RefsCountValues'
    <2> SUFFICES ASSUME NEW d \in DOMAIN ctx
                 PROVE  /\ ctx'[d].refs = Cardinality(Holding(d)')
                        /\ ctx'[d].alloc <=> ctx'[d].refs > 0
      BY <1>6, Zenon DEF RefsCountValues, Holding
    <2>1. CASE d # c
      <3>1. Holding(d)' = Holding(d)
        BY <2>1, <1>10, <1>11, Zenon
      <3> QED BY <2>1, <1>6, <3>1, Zenon DEF RefsCountValues, Holding
    <2>2. CASE d = c
      <3>1. Cardinality(Holding(d)') = ctx[c].refs - 1
        BY <2>2, <1>10, <1>2, <1>3
      <3>2. ctx'[d].refs = ctx[c].refs - 1 /\ (ctx'[d].alloc <=> ctx[c].refs > 1)
        BY <2>2, <1>4, <1>6, Zenon
      <3>3. ctx[c].refs \in Nat
        BY <1>2, <1>3
      <3> QED BY <3>1, <3>2, <3>3
    <2> QED BY <2>1, <2>2
  <1> QED
    BY <1>7, <1>8, <1>9, <1>12

-----------------------------------------------------------------------------
(* What follows from the invariant in one state *)

\* A line the parser lets through
LEMMA LineParts ==
    ASSUME NEW l \in Line
    PROVE  /\ l.var \in Name \cup {""} /\ l.cmd \in DOMAIN Kinds
           /\ \E k \in 0 .. 2 : l.args \in [1 .. k -> {"num", "str"} \cup Name]
  <1> DEFINE A == UNION {[1 .. k -> {"num", "str"} \cup Name] : k \in 0 .. 2}
  <1>1. l.var \in Name \cup {""} /\ l.cmd \in DOMAIN Kinds /\ l.args \in A
    <2>1. l \in [var : Name \cup {""}, cmd : DOMAIN Kinds, args : A]
      BY Zenon DEF Line
    <2> HIDE DEF A
    <2> QED BY <2>1
  <1>2. PICK k \in 0 .. 2 : l.args \in [1 .. k -> {"num", "str"} \cup Name]
    BY <1>1, Zenon
  <1> QED
    BY <1>1, <1>2, Zenon

\* The invariant has the types, and its other parts the other properties, as parts.
LEMMA InvImplies ==
    ASSUME ReplInv
    PROVE  ReplTypeOK /\ RefsCountValues /\ ValuesBoundOnce /\ ArgsOutliveLine
  <1>1. /\ DOMAIN value = 1 .. Len(value) /\ Len(value) \in Nat
        /\ Held \subseteq DOMAIN value
        /\ \A v \in DOMAIN value : value[v].ctx \in DOMAIN ctx
        /\ \A c : IsFiniteSet(Holding(c))
    BY HoldingFinite DEF ReplInv
  <1>2. ReplTypeOK
    <2>1. \A i \in DOMAIN dict : dict[i] \in [key : Name, val : DOMAIN value]
      <3>1. \A i \in DOMAIN dict : dict[i] \in Nodes /\ dict[i].val \in DOMAIN value
        BY <1>1, SeqIsFunction DEF ReplInv, Binding, Vals
      <3> QED BY <3>1 DEF Nodes
    <2>2. dict \in Seq([key : Name, val : DOMAIN value])
      BY <2>1, SeqOfElements, Zenon DEF ReplInv
    <2>3. line.cmd \in DOMAIN Kinds /\ line.var \in Name \cup {""}
      BY LineParts DEF ReplInv, Control
    <2> QED
      BY <2>2, <2>3, Zenon DEF ReplTypeOK, ReplInv, Control, ValueTyped, Context, Phases
  <1>3. ValuesBoundOnce
    BY Zenon DEF ValuesBoundOnce, ReplInv, Binding, Distinct, Bound
  <1>4. ASSUME phase = "call", NEW i \in DOMAIN argv, argv[i].kind = "ctx"
        PROVE  value[argv[i].v].alloc /\ ctx[CtxOf(i)].alloc
    <2> DEFINE v == argv[i].v
               c == value[v].ctx
    <2>1. v \in Held
      <3>1. line.args[i] \in Keys(dict) /\ v = DictGet(dict, line.args[i])
        BY <1>4 DEF ReplInv, Arguments
      <3>2. v \in Vals(dict)
        BY <3>1, DictGetValue DEF ReplInv, Binding
      <3> QED BY <3>2 DEF ReplInv, Binding
    <2>2. c \in DOMAIN ctx /\ v \in Holding(c)
      BY <1>1, <2>1 DEF Holding
    <2> HIDE DEF c
    <2>3. Cardinality(Holding(c)) # 0 /\ Cardinality(Holding(c)) \in Nat
      BY <1>1, <2>2, FS_EmptySet, FS_CardinalityType
    <2>4. ctx[c].refs > 0
      BY <2>2, <2>3 DEF ReplInv, RefsCountValues, Holding
    <2>5. ctx[c].alloc
      BY <2>2, <2>4, Zenon DEF ReplInv, RefsCountValues
    <2> QED BY <2>1, <2>5, Zenon DEF Held, CtxOf, c
  <1>5. ArgsOutliveLine
    BY <1>4, Zenon DEF ArgsOutliveLine, ReplInv, CleanArgs
  <1> QED
    BY <1>2, <1>3, <1>5, Zenon DEF ReplInv

\* An argument that has to be a context is one that exists and is allocated.
LEMMA CommandArgs ==
    ASSUME ReplInv, phase = "call"
    PROVE  /\ Len(argv) \in Nat /\ DOMAIN argv = 1 .. Len(argv)
           /\ \A i \in DOMAIN argv : argv[i].kind = "ctx" =>
                 CtxOf(i) \in DOMAIN ctx /\ ctx[CtxOf(i)].alloc /\ ctx[CtxOf(i)] \in Context
           /\ Accepted("fuzz") /\ Len(argv) = 2 => 2 \in DOMAIN argv /\ argv[2].kind = "ctx"
           /\ Accepted("var_mut") => 2 \in DOMAIN argv /\ argv[2].kind = "ctx"
           /\ Accepted("min") \/ Accepted("save") => 1 \in DOMAIN argv /\ argv[1].kind = "ctx"
  <1>1. Len(argv) \in Nat /\ DOMAIN argv = 1 .. Len(argv)
    BY SeqIsFunction DEF ReplInv, Control
  <1>2. \A i \in DOMAIN argv : argv[i].kind = "ctx" => ctx[CtxOf(i)].alloc
    BY InvImplies, Zenon DEF ArgsOutliveLine
  <1>3. \A i \in DOMAIN argv : argv[i].kind = "ctx" => CtxOf(i) \in DOMAIN ctx
    <2>1. \A v \in DOMAIN value : value[v].ctx \in DOMAIN ctx
      BY HoldingFinite DEF ReplInv
    <2>2. \A i \in DOMAIN argv : argv[i].kind = "ctx" => argv[i].v \in DOMAIN value
      BY Zenon DEF ReplInv, Control
    <2> QED BY <2>1, <2>2, Zenon DEF CtxOf
  <1>4. \A c \in DOMAIN ctx : ctx[c] \in Context
    BY HoldingFinite DEF ReplInv
  <1>5. /\ Kinds["fuzz"] = <<"num", "ctx">> /\ Kinds["var_mut"] = <<"num", "ctx">>
        /\ Kinds["min"] = <<"ctx", "num">> /\ Kinds["save"] = <<"ctx", "str">>
    BY DEF Kinds
  <1>6. Needed["var_mut"] = 2 /\ Needed["min"] = 1 /\ Needed["save"] = 1
    BY DEF Needed, Kinds
  <1>7. \A cmd : Accepted(cmd) =>
           /\ Len(argv) >= Needed[cmd]
           /\ \A i \in DOMAIN argv : i \in DOMAIN Kinds[cmd] => argv[i].kind = Kinds[cmd][i]
    BY DEF Accepted
  <1>8. Accepted("fuzz") /\ Len(argv) = 2 => 2 \in DOMAIN argv /\ argv[2].kind = "ctx"
    BY <1>1, <1>5, <1>7
  <1>9. Accepted("var_mut") => 2 \in DOMAIN argv /\ argv[2].kind = "ctx"
    BY <1>1, <1>5, <1>6, <1>7
  <1>10. Accepted("min") \/ Accepted("save") => 1 \in DOMAIN argv /\ argv[1].kind = "ctx"
    BY <1>1, <1>5, <1>6, <1>7
  <1> QED
    BY <1>1, <1>2, <1>3, <1>4, <1>8, <1>9, <1>10, Zenon

-----------------------------------------------------------------------------
(* The invariant holds at the start and is kept *)

LEMMA NoLineTyped == NoLine \in Line
  <1>1. NoLine.args \in [1 .. 0 -> {"num", "str"} \cup Name]
    BY EmptyIsFunction DEF NoLine
  <1>2. NoLine.args \in UNION {[1 .. k -> {"num", "str"} \cup Name] : k \in 0 .. 2}
    BY <1>1
  <1>3. NoLine.var \in Name \cup {""} /\ NoLine.cmd \in DOMAIN Kinds
        /\ NoLine = [var |-> NoLine.var, cmd |-> NoLine.cmd, args |-> NoLine.args]
    BY DEF NoLine, Kinds
  <1> QED
    BY <1>2, <1>3, Zenon DEF Line

LEMMA ReplInitInv == ReplInit => ReplInv
  <1> SUFFICES ASSUME ReplInit PROVE ReplInv
    OBVIOUS
  <1> USE DEF ReplInit
  <1>1. Held = {} /\ Vals(dict) = {} /\ Bound = {}
    BY DEF Held, Vals, Bound
  <1>2. Control
    <2>1. line \in Line
      BY NoLineTyped
    <2> QED BY <2>1 DEF Control, Phases, Gone, None
  <1>3. ValueTyped /\ dict \in Seq(Nodes) /\ Arguments /\ CleanArgs /\ RefsCountValues
    BY DEF ValueTyped, Arguments, CleanArgs, RefsCountValues
  <1>4. Binding
    BY <1>1 DEF Binding, Distinct
  <1> QED
    BY <1>2, <1>3, <1>4 DEF ReplInv

\* A step that changes no value, no name, and of no context the references
LEMMA QuietStep ==
    ASSUME ReplInv, UNCHANGED <<dict, value>>, Bound' = Bound,
           ctx' \in Seq(Context), DOMAIN ctx' = DOMAIN ctx,
           \A c \in DOMAIN ctx : ctx'[c].refs = ctx[c].refs /\ ctx'[c].alloc = ctx[c].alloc
    PROVE  ValueTyped' /\ (dict \in Seq(Nodes))' /\ Binding' /\ RefsCountValues'
  <1>1. ValueTyped' /\ RefsCountValues' /\ Held' = Held
    BY SameReferences DEF ReplInv
  <1>2. Vals(dict') = Vals(dict) /\ Distinct(dict')
    BY DEF ReplInv, Binding
  <1> QED
    BY <1>1, <1>2 DEF ReplInv, Binding

\* The same for a step that leaves the contexts alone
LEMMA StillStep ==
    ASSUME ReplInv, UNCHANGED <<dict, value, ctx>>, Bound' = Bound
    PROVE  ValueTyped' /\ (dict \in Seq(Nodes))' /\ Binding' /\ RefsCountValues'
  BY QuietStep DEF ReplInv, ValueTyped

\* The steps that leave the dictionary, the values and the contexts alone
StillSteps ==
    \/ \E l \in Typed : ReadLine(l)
    \/ Lookup \/ LookupFails
    \/ Dies \/ Save \/ Mismatch \/ ReadTrace \/ ReadFuncs \/ ReadPool \/ NoContext
    \/ NothingToBind \/ Cleanup \/ CleanupAstray \/ Quit \/ ReplHalted
    \/ UNCHANGED replVars

LEMMA StillKeeps == ReplInv /\ StillSteps => ReplInv'
  <1> SUFFICES ASSUME ReplInv, StillSteps PROVE ReplInv'
    OBVIOUS
  <1>C. /\ Control /\ Arguments /\ CleanArgs /\ Distinct(dict) /\ dict \in Seq(Nodes)
        /\ DOMAIN value = 1 .. Len(value) /\ Len(value) \in Nat
        /\ Vals(dict) \subseteq DOMAIN value
    BY HoldingFinite DEF ReplInv, Binding, Held
  <1>Q. ASSUME UNCHANGED <<dict, value, ctx>>, Bound' = Bound,
               Control', Arguments', CleanArgs'
        PROVE  ReplInv'
    BY <1>Q, StillStep DEF ReplInv
  <1>1. ASSUME NEW l \in Typed, ReadLine(l) PROVE ReplInv'
    <2>1. l \in Line
      BY ReplConstants
    <2> QED
      BY <1>1, <2>1, <1>C, <1>Q
      DEF ReadLine, Bound, Control, Phases, Gone, Arguments, CleanArgs
  <1>2. ASSUME Lookup PROVE ReplInv'
    <2>1. \E k \in 0 .. 2 : line.args \in [1 .. k -> {"num", "str"} \cup Name]
      BY <1>C, LineParts DEF Control
    <2>2. \A i \in DOMAIN line.args : line.args[i] \in Name =>
             DictGet(dict, line.args[i]) \in Vals(dict)
      BY <1>2, <1>C, DictGetValue, Zenon DEF Lookup
    <2>3. /\ argv' \in Seq(Arg) /\ DOMAIN argv' = DOMAIN line.args
          /\ \A i \in DOMAIN argv' : argv'[i].kind = "ctx" =>
                line.args[i] \in Name /\ argv'[i].v = DictGet(dict, line.args[i])
      <3> DEFINE a(i) == IF line.args[i] \in Name
                         THEN [kind |-> "ctx", v |-> DictGet(dict, line.args[i])]
                         ELSE [kind |-> line.args[i], v |-> None]
      <3>1. \A i \in DOMAIN line.args : a(i) \in Arg
        BY <1>C, <2>1, <2>2 DEF Arg, None
      <3>2. argv' = [i \in DOMAIN line.args |-> a(i)]
        BY <1>2, Zenon DEF Lookup
      <3>3. \A i \in DOMAIN line.args : a(i).kind = "ctx" =>
                line.args[i] \in Name /\ a(i).v = DictGet(dict, line.args[i])
        BY <2>1
      <3> HIDE DEF a
      <3> QED BY <2>1, <3>1, <3>2, <3>3
    <2>4. Control'
      BY <1>2, <2>2, <2>3, <1>C DEF Lookup, Control, Phases, Gone
    <2>5. Arguments'
      BY <1>2, <2>3, Zenon DEF Lookup, Arguments
    <2>6. Bound' = Bound /\ CleanArgs' /\ UNCHANGED <<dict, value, ctx>>
      BY <1>2 DEF Lookup, Bound, CleanArgs
    <2> QED BY <2>4, <2>5, <2>6, <1>Q, Zenon
  <1>3. ASSUME LookupFails PROVE ReplInv'
    <2>1. NoLine \in Line
      BY NoLineTyped
    <2> QED
      BY <1>3, <1>C, <1>Q, <2>1
      DEF LookupFails, LineDestroy, Bound, Control, Phases, Gone, Arguments, CleanArgs
  <1>4. ASSUME Dies PROVE ReplInv'
    BY <1>4, <1>C, <1>Q DEF Dies, Bound, Control, Phases, Gone, Arguments, CleanArgs
  <1>5. ASSUME Save PROVE ReplInv'
    <2>1. ctx[CtxOf(1)].trace \in Seq(Nat)
      BY <1>5, CommandArgs DEF Save, Context
    <2> QED
      BY <1>5, <2>1, <1>C, <1>Q
      DEF Save, NoResult, Bound, Control, Phases, Gone, Arguments, CleanArgs, None
  <1>6. ASSUME Mismatch PROVE ReplInv'
    BY <1>6, <1>C, <1>Q DEF Mismatch, Bound, Control, Phases, Gone, Arguments, CleanArgs, None
  <1>7. ASSUME ReadTrace \/ ReadFuncs \/ ReadPool \/ NoContext PROVE ReplInv'
    BY <1>7, <1>C, <1>Q
    DEF ReadTrace, ReadFuncs, ReadPool, NoContext, NoResult, Bound, Control, Phases, Gone,
        Arguments, CleanArgs, None
  <1>8. ASSUME NothingToBind PROVE ReplInv'
    <2>1. ~ FreedArg
      <3>1. \A i \in DOMAIN argv : argv[i].kind = "ctx" => argv[i].v \in Vals(dict)
        BY <1>8, <1>C, DictGetValue, ZenonT(60) DEF NothingToBind, Arguments
      <3>2. Vals(dict) \subseteq Held
        BY DEF ReplInv, Binding
      <3> QED BY <3>1, <3>2, Zenon DEF FreedArg, Held
    <2>2. CleanArgs'
      BY <1>8, <2>1, Zenon DEF NothingToBind, CleanArgs, FreedArg
    <2> QED
      BY <1>8, <2>2, <1>C, <1>Q DEF NothingToBind, Bound, Control, Phases, Gone, Arguments
  <1>9. ASSUME Cleanup PROVE ReplInv'
    <2>1. NoLine \in Line
      BY NoLineTyped
    <2> QED
      BY <1>9, <1>C, <1>Q, <2>1
      DEF Cleanup, LineDestroy, Bound, Control, Phases, Gone, Arguments, CleanArgs, None
  <1>10. ASSUME CleanupAstray \/ Quit PROVE ReplInv'
    BY <1>10, <1>C, <1>Q
    DEF CleanupAstray, Quit, Bound, Control, Phases, Gone, Arguments, CleanArgs
  <1>11. ASSUME ReplHalted \/ UNCHANGED replVars PROVE ReplInv'
    <2>1. UNCHANGED replVars
      BY <1>11 DEF ReplHalted
    <2>2. FreedArg' = FreedArg /\ Target' = Target
      BY <2>1 DEF replVars, FreedArg, Target
    <2> QED
      BY <2>1, <2>2, <1>C, <1>Q DEF replVars, Bound, Control, Arguments, CleanArgs
  <1> QED
    BY <1>1, <1>2, <1>3, <1>4, <1>5, <1>6, <1>7, <1>8, <1>9, <1>10, <1>11, Zenon DEF StillSteps

\* A command whose result is a new value, whatever the context it holds
LEMMA ReturnKeeps ==
    ASSUME ReplInv, phase = "call", Returned,
           ValueTyped', RefsCountValues',
           Held' = Held \cup {Len(value) + 1}, Len(value') = Len(value) + 1
    PROVE  ReplInv'
  <1>C. /\ Control /\ Arguments /\ Distinct(dict) /\ dict \in Seq(Nodes)
        /\ DOMAIN value = 1 .. Len(value) /\ Len(value) \in Nat
        /\ Held \subseteq DOMAIN value /\ Held = Vals(dict) \cup Bound
    BY HoldingFinite DEF ReplInv, Binding
  <1>1. DOMAIN value' = 1 .. Len(value')
    BY SeqIsFunction DEF ValueTyped
  <1>2. Bound = {} /\ Bound' = {Len(value) + 1} /\ Vals(dict') = Vals(dict)
    BY <1>C DEF Bound, Returned, None
  <1>3. Binding'
    BY <1>C, <1>2 DEF Binding, Returned
  <1>4. Control'
    BY <1>C, <1>1 DEF Control, Returned, Phases, Gone
  <1>5. Arguments' /\ CleanArgs' /\ dict' \in Seq(Nodes)
    BY <1>C DEF Arguments, CleanArgs, Returned
  <1> QED
    BY <1>3, <1>4, <1>5, Zenon DEF ReplInv

\* The identifiers that n calls get are numbers.
LEMMA IssueType ==
    ASSUME NEW pool \in Nat, NEW n \in Nat
    PROVE  Issue(pool, n) \in Seq(Nat)
  <1>1. \A k \in 1 .. n : pool + k - 1 \in Nat
    OBVIOUS
  <1> QED
    BY <1>1, SMT DEF Issue

LEMMA FuzzKeeps ==
    ASSUME ReplInv, NEW n \in 0 .. MaxCall, FuzzNew(n) \/ FuzzOn(n) \/ VarMut(n)
    PROVE  ReplInv'
  <1>n. n \in Nat
    <2>1. MaxCall \in Nat
      BY ReplConstants, Zenon
    <2> QED BY <2>1
  <1>C. ValueTyped /\ RefsCountValues /\ ctx \in Seq(Context)
    BY DEF ReplInv, ValueTyped
  <1>1. CASE FuzzNew(n)
    <2>1. Issue(0, n) \in Seq(Nat) /\ n \in Nat \cup {NoPool}
      BY <1>n, IssueType
    <2>2. /\ ValueTyped' /\ RefsCountValues'
          /\ Held' = Held \cup {Len(value) + 1} /\ Len(value') = Len(value) + 1
      BY <1>1, <1>C, <2>1, NewContext, Zenon DEF FuzzNew
    <2> QED BY <1>1, <2>2, ReturnKeeps, Zenon DEF FuzzNew
  <1>2. CASE FuzzOn(n)
    <2> DEFINE c == CtxOf(2)
               refs == ctx[c].refs + 1
               pool == Pool(c) + n
               trace == ctx[c].trace \o Issue(Pool(c), n)
               new == [ctx[c] EXCEPT !.refs = refs, !.pool = pool, !.trace = trace]
    <2>1. c \in DOMAIN ctx /\ ctx[c].alloc /\ ctx[c] \in Context
      BY <1>2, CommandArgs DEF FuzzOn
    <2>2. Pool(c) \in Nat
      BY <2>1 DEF Pool, Context
    <2>3. Issue(Pool(c), n) \in Seq(Nat)
      BY <2>2, <1>n, IssueType
    <2>4. new \in Context /\ new.refs = ctx[c].refs + 1 /\ new.alloc = ctx[c].alloc
      <3>1. pool \in Nat /\ refs \in Nat
        BY <2>1, <2>2, <1>n DEF Context
      <3>2. trace \in Seq(Nat)
        BY <2>1, <2>3 DEF Context
      <3>3. refs = ctx[c].refs + 1
        OBVIOUS
      <3> DEFINE T == Seq(Nat)
      <3>4. Context = [refs : Nat, alloc : BOOLEAN, pool : Nat \cup {NoPool}, trace : T]
        BY DEF Context
      <3>5. trace \in T
        BY <3>2
      <3> HIDE DEF refs, pool, trace, c, T
      <3>6. new \in Context /\ new.refs = refs /\ new.alloc = ctx[c].alloc
        BY <2>1, <3>1, <3>4, <3>5
      <3> QED BY <3>3, <3>6
    <2>5. ctx' = [ctx EXCEPT ![c] = new] /\ value' = NewValue(c)
      BY <1>2 DEF FuzzOn
    <2> HIDE DEF new, c
    <2>6. /\ ValueTyped' /\ RefsCountValues'
          /\ Held' = Held \cup {Len(value) + 1} /\ Len(value') = Len(value) + 1
      BY <1>C, <2>1, <2>4, <2>5, SharedContext, Zenon
    <2> QED BY <1>2, <2>6, ReturnKeeps, Zenon DEF FuzzOn
  <1>3. CASE VarMut(n)
    <2> DEFINE c == CtxOf(2)
               pool == ctx[c].pool + n
               trace == ctx[c].trace \o Issue(ctx[c].pool, n)
               new == [ctx[c] EXCEPT !.pool = pool, !.trace = trace]
    <2>1. c \in DOMAIN ctx /\ ctx[c] \in Context
      BY <1>3, CommandArgs DEF VarMut
    <2>2. ctx[c].pool \in Nat
      BY <1>3, <2>1 DEF VarMut, Context
    <2>3. Issue(ctx[c].pool, n) \in Seq(Nat)
      BY <2>2, <1>n, IssueType
    <2>4. new \in Context /\ new.refs = ctx[c].refs /\ new.alloc = ctx[c].alloc
      <3>1. pool \in Nat /\ ctx[c].refs \in Nat
        BY <2>1, <2>2, <1>n DEF Context
      <3>2. trace \in Seq(Nat)
        BY <2>1, <2>3 DEF Context
      <3> DEFINE T == Seq(Nat)
      <3>3. Context = [refs : Nat, alloc : BOOLEAN, pool : Nat \cup {NoPool}, trace : T]
        BY DEF Context
      <3>4. trace \in T
        BY <3>2
      <3> HIDE DEF pool, trace, c, T
      <3> QED BY <2>1, <3>1, <3>3, <3>4
    <2>5. ctx' = [ctx EXCEPT ![c] = new]
      BY <1>3 DEF VarMut
    <2> HIDE DEF new, c
    <2>6. /\ ctx' \in Seq(Context) /\ DOMAIN ctx' = DOMAIN ctx
          /\ ctx'[c] = new /\ \A d \in DOMAIN ctx : d # c => ctx'[d] = ctx[d]
      BY <1>C, <2>1, <2>4, <2>5, ExceptElements, Zenon
    <2>7. \A d \in DOMAIN ctx : ctx'[d].refs = ctx[d].refs /\ ctx'[d].alloc = ctx[d].alloc
      BY <2>4, <2>6, Zenon
    <2>8. UNCHANGED <<dict, value, line, argv, file>> /\ phase = "call" /\ phase' = "bind" /\ result' = None
      BY <1>3 DEF VarMut, NoResult
    <2>9. Bound' = Bound
      BY <2>8 DEF Bound
    <2>10. ValueTyped' /\ (dict \in Seq(Nodes))' /\ Binding' /\ RefsCountValues'
      BY <2>6, <2>7, <2>8, <2>9, QuietStep, Zenon
    <2>11. Control' /\ Arguments' /\ CleanArgs'
      BY <2>8 DEF ReplInv, Control, Phases, Gone, Arguments, CleanArgs, None
    <2> QED BY <2>10, <2>11, Zenon DEF ReplInv
  <1> QED
    BY <1>1, <1>2, <1>3

LEMMA NewTraceKeeps ==
    ASSUME ReplInv,
           \/ Restore
           \/ \E n \in 0 .. MaxLen : \E kept \in [1 .. n -> 1 .. MaxLen] : Minimized(kept)
    PROVE  ReplInv'
  <1>C. ValueTyped /\ RefsCountValues
    BY DEF ReplInv
  <1>1. CASE Restore
    <2>1. (IF file = NoFile THEN <<>> ELSE file) \in Seq(Nat) /\ NoPool \in Nat \cup {NoPool}
      BY DEF ReplInv, Control
    <2>2. /\ ValueTyped' /\ RefsCountValues'
          /\ Held' = Held \cup {Len(value) + 1} /\ Len(value') = Len(value) + 1
      BY <1>1, <1>C, <2>1, NewContext, Zenon DEF Restore
    <2> QED BY <1>1, <2>2, ReturnKeeps, Zenon DEF Restore
  <1>2. ASSUME NEW n \in 0 .. MaxLen, NEW kept \in [1 .. n -> 1 .. MaxLen], Minimized(kept)
        PROVE  ReplInv'
    <2> DEFINE t == ctx[CtxOf(1)].trace
               part == [k \in DOMAIN kept |-> t[kept[k]]]
    <2>1. t \in Seq(Nat)
      BY <1>2, CommandArgs DEF Minimized, Context
    <2>2. \A k \in DOMAIN kept : kept[k] \in DOMAIN t
      BY <1>2 DEF Minimized
    <2>3. part \in Seq(Nat)
      <3>a. MaxLen \in Nat
        BY ReplConstants, Zenon
      <3>1. n \in Nat /\ DOMAIN kept = 1 .. n
        BY <3>a
      <3>2. \A k \in 1 .. n : t[kept[k]] \in Nat
        BY <2>1, <2>2, <3>1
      <3> HIDE DEF t
      <3> QED BY <3>1, <3>2
    <2>4. ctx' = Append(ctx, NewCtx(NoPool, part)) /\ value' = NewValue(Len(ctx) + 1)
      BY <1>2 DEF Minimized
    <2> HIDE DEF part, t
    <2>5. /\ ValueTyped' /\ RefsCountValues'
          /\ Held' = Held \cup {Len(value) + 1} /\ Len(value') = Len(value) + 1
      BY <1>C, <2>3, <2>4, NewContext
    <2> QED BY <1>2, <2>5, ReturnKeeps, Zenon DEF Minimized
  <1> QED
    BY <1>1, <1>2

\* Binding the result frees the value that had the name, and no other; an
\* argument that is freed by it had been looked up under that name.
LEMMA BindKeeps ==
    ASSUME ReplInv, Bind
    PROVE  ReplInv'
  <1> DEFINE v == DictGet(dict, Target)
  <1>C. /\ Control /\ Arguments /\ ValueTyped /\ RefsCountValues
        /\ Distinct(dict) /\ dict \in Seq(Nodes)
        /\ DOMAIN value = 1 .. Len(value) /\ Len(value) \in Nat
        /\ Held \subseteq DOMAIN value
    BY HoldingFinite DEF ReplInv, Binding
  <1>1. /\ Held = Vals(dict) \cup {result} /\ result \notin Vals(dict)
        /\ result \in Nat \ {None}
    BY <1>C DEF ReplInv, Binding, Bound, Bind, None
  <1>2. Target \in Name
    <2>1. line.var \in Name \cup {""} /\ "_" \in Name
      BY <1>C, LineParts, ReplConstants DEF Control
    <2> QED BY <2>1 DEF Target
  <1>3. /\ dict' \in Seq(Nodes) /\ Distinct(dict')
        /\ Vals(dict') = {result} \cup (Vals(dict) \ {v})
    <2>1. dict' = DictInsert(dict, Target, result)
      BY DEF Bind
    <2> QED BY <1>C, <1>1, <1>2, <2>1, DictInserted
  <1>4. v # None => v \in Vals(dict)
    BY <1>C, DictGetValue, Zenon DEF DictGet
  <1>5. DestroyVal(v)
    BY DEF Bind
  <1>6. /\ ValueTyped' /\ RefsCountValues' /\ Len(value') = Len(value)
        /\ Held' = Held \ {v}
    <2>1. CASE v = None
      <3>1. UNCHANGED <<value, ctx>>
        BY <1>5, <2>1 DEF DestroyVal
      <3>2. v \notin Held
        BY <1>C, <2>1 DEF None
      <3>3. Held' = Held /\ RefsCountValues' /\ ValueTyped'
        BY <3>1, <1>C DEF Held, RefsCountValues, ValueTyped
      <3> QED BY <3>1, <3>2, <3>3
    <2>2. CASE v # None
      <3>1. value' = [value EXCEPT ![v].alloc = FALSE] /\ ctx' = Release(ctx, value[v].ctx)
        BY <1>5, <2>2 DEF DestroyVal
      <3>2. v \in Held
        BY <1>1, <1>4, <2>2
      <3> HIDE DEF v
      <3> QED BY <1>C, <3>1, <3>2, ValueFreed
    <2> QED BY <2>1, <2>2
  <1> HIDE DEF v
  <1>7. UNCHANGED <<line, argv, result, file>> /\ phase' = "clean" /\ phase = "bind"
    BY DEF Bind
  <1>8. Binding'
    <2>1. v # result
      BY <1>1, <1>4
    <2>2. Bound' = {}
      BY <1>7 DEF Bound
    <2> QED BY <1>1, <1>3, <1>6, <2>1, <2>2 DEF Binding
  <1>9. DOMAIN value' = DOMAIN value
    <2>1. DOMAIN value' = 1 .. Len(value')
      BY <1>6, SeqIsFunction DEF ValueTyped
    <2> QED BY <2>1, <1>C, <1>6
  <1>10. Control'
    BY <1>C, <1>6, <1>7, <1>9 DEF Control, Phases, Gone
  <1>11. Arguments'
    BY <1>7 DEF Arguments
  <1>12. CleanArgs'
    <2> SUFFICES ASSUME NEW i \in DOMAIN argv, argv[i].kind = "ctx", ~ value'[argv[i].v].alloc
                 PROVE  \E k \in DOMAIN line.args : line.args[k] = Target
      <3>1. Target' = Target
        BY <1>7 DEF Target
      <3> QED BY <1>7, <3>1, Zenon DEF CleanArgs, FreedArg
    <2> DEFINE w == argv[i].v
    <2>1. /\ i \in DOMAIN line.args /\ line.args[i] \in Keys(dict)
          /\ w = DictGet(dict, line.args[i])
      BY <1>C, <1>7, Zenon DEF Arguments
    <2>2. w \in Vals(dict)
      BY <1>C, <2>1, DictGetValue
    <2>3. w \notin Held'
      BY Zenon DEF Held
    <2>4. w = v
      BY <1>1, <1>6, <2>2, <2>3
    <2>5. Target \in Keys(dict)
      <3>1. w # None
        BY <1>C, <2>1, DictGetValue
      <3> QED BY <2>4, <3>1, Zenon DEF v, DictGet
    <2>6. line.args[i] = Target
      BY <1>C, <2>1, <2>4, <2>5, DictGetValue, Zenon DEF v
    <2> QED BY <2>1, <2>6, Zenon
  <1> QED
    BY <1>3, <1>6, <1>8, <1>10, <1>11, <1>12, Zenon DEF ReplInv

\* The end of input takes the names down one by one.
LEMMA EndKeeps ==
    ASSUME ReplInv, EndOfInput
    PROVE  ReplInv'
  <1> DEFINE v == dict[1].val
  <1>C. /\ Control /\ ValueTyped /\ RefsCountValues
        /\ Distinct(dict) /\ dict \in Seq(Nodes)
        /\ DOMAIN value = 1 .. Len(value) /\ Len(value) \in Nat
    BY HoldingFinite DEF ReplInv, Binding
  <1>1. Held = Vals(dict)
    BY DEF ReplInv, Binding, Bound, EndOfInput
  <1>2. /\ dict' \in Seq(Nodes) /\ Distinct(dict')
        /\ v \in Vals(dict) /\ Vals(dict') = Vals(dict) \ {v}
    BY <1>C, DictTail DEF EndOfInput
  <1>3. v # None
    <2>1. dict[1] \in Nodes
      BY <1>C DEF EndOfInput
    <2> QED BY <2>1 DEF Nodes
  <1>4. /\ ValueTyped' /\ RefsCountValues' /\ Len(value') = Len(value)
        /\ Held' = Held \ {v}
    <2>1. value' = [value EXCEPT ![v].alloc = FALSE] /\ ctx' = Release(ctx, value[v].ctx)
      BY <1>3 DEF EndOfInput, DestroyVal
    <2> HIDE DEF v
    <2> QED BY <1>C, <1>1, <1>2, <2>1, ValueFreed
  <1> HIDE DEF v
  <1>5. UNCHANGED <<line, argv, result, file>> /\ phase' = "eof"
    BY DEF EndOfInput
  <1>6. Bound' = {}
    BY <1>5 DEF Bound
  <1>7. Binding'
    BY <1>1, <1>2, <1>4, <1>6 DEF Binding
  <1>8. DOMAIN value' = DOMAIN value
    <2>1. DOMAIN value' = 1 .. Len(value')
      BY <1>4, SeqIsFunction DEF ValueTyped
    <2> QED BY <2>1, <1>C, <1>4
  <1>9. Control' /\ Arguments' /\ CleanArgs'
    BY <1>C, <1>4, <1>5, <1>8 DEF Control, Phases, Gone, Arguments, CleanArgs
  <1> QED
    BY <1>2, <1>4, <1>7, <1>9, Zenon DEF ReplInv

LEMMA ReplStepInv == ReplInv /\ [ReplNext]_replVars => ReplInv'
  <1> SUFFICES ASSUME ReplInv, [ReplNext]_replVars PROVE ReplInv'
    OBVIOUS
  <1>1. CASE StillSteps
    BY <1>1, StillKeeps
  <1>2. CASE \E n \in 0 .. MaxCall : FuzzNew(n) \/ FuzzOn(n) \/ VarMut(n)
    BY <1>2, FuzzKeeps
  <1>3. CASE \/ Restore
             \/ \E n \in 0 .. MaxLen : \E kept \in [1 .. n -> 1 .. MaxLen] : Minimized(kept)
    BY <1>3, NewTraceKeeps
  <1>4. CASE Bind
    BY <1>4, BindKeeps
  <1>5. CASE EndOfInput
    BY <1>5, EndKeeps
  <1> QED
    BY <1>1, <1>2, <1>3, <1>4, <1>5, Zenon DEF ReplNext, Command, StillSteps

-----------------------------------------------------------------------------
(* The shell implements Sharing *)

Env == [n \in Keys(dict) |-> ContextOf(n)]
Pend == IF phase = "bind" /\ result # None THEN {value[result].ctx} ELSE {}
Live == {d \in DOMAIN ctx : ctx[d].alloc}
Logs == [c \in Live |-> ctx[c].trace]
Led == {ContextOf(n) : n \in Keys(dict)} \cup Pend

\* A name stands for an allocated value that holds a context.
LEMMA NamesLead ==
    ASSUME ReplInv
    PROVE  /\ \A n \in Keys(dict) :
                 /\ DictGet(dict, n) \in Vals(dict) /\ DictGet(dict, n) \in Held
                 /\ ContextOf(n) \in DOMAIN ctx
           /\ \A v \in Vals(dict) : \E n \in Keys(dict) : DictGet(dict, n) = v
           /\ Pend = {value[v].ctx : v \in Bound}
  <1>1. dict \in Seq(Nodes) /\ Distinct(dict) /\ Held = Vals(dict) \cup Bound
    BY DEF ReplInv, Binding
  <1>2. \A v \in Held : value[v].ctx \in DOMAIN ctx
    BY HoldingFinite DEF ReplInv
  <1>3. \A n \in Keys(dict) : DictGet(dict, n) \in Vals(dict)
    BY <1>1, DictGetValue, Zenon
  <1>4. ASSUME NEW v \in Vals(dict) PROVE \E n \in Keys(dict) : DictGet(dict, n) = v
    <2>1. PICK i \in DOMAIN dict : v = dict[i].val
      BY Zenon DEF Vals
    <2>2. DictGet(dict, dict[i].key) = v /\ dict[i].key \in Keys(dict)
      BY <1>1, <2>1, DictGetNode, Zenon DEF Keys
    <2> QED BY <2>2, Zenon
  <1>5. Pend = {value[v].ctx : v \in Bound}
    BY DEF Pend, Bound
  <1> QED
    BY <1>1, <1>2, <1>3, <1>4, <1>5, Zenon DEF ContextOf

\* The contexts that are allocated are those that a name or a result leads to.
LEMMA LiveIsLed == ReplInv => Live = Led
  <1> SUFFICES ASSUME ReplInv PROVE Live = Led
    OBVIOUS
  <1>1. /\ Held = Vals(dict) \cup Bound
        /\ \A c \in DOMAIN ctx : ctx[c] \in Context
        /\ \A v \in Held : value[v].ctx \in DOMAIN ctx
        /\ \A c : IsFiniteSet(Holding(c))
    BY HoldingFinite DEF ReplInv, Binding
  <1>2. ASSUME NEW c \in DOMAIN ctx PROVE ctx[c].alloc <=> Holding(c) # {}
    <2>1. ctx[c].refs = Cardinality(Holding(c)) /\ (ctx[c].alloc <=> ctx[c].refs > 0)
      BY Zenon DEF ReplInv, RefsCountValues, Holding
    <2>2. Cardinality(Holding(c)) \in Nat /\ (Cardinality(Holding(c)) = 0 <=> Holding(c) = {})
      BY <1>1, FS_EmptySet, FS_CardinalityType
    <2> QED BY <2>1, <2>2
  <1>3. ASSUME NEW c \in Live PROVE c \in Led
    <2>1. PICK v \in Held : value[v].ctx = c
      BY <1>2, <1>3, Zenon DEF Live, Holding
    <2>2. CASE v \in Vals(dict)
      BY <2>1, <2>2, NamesLead, Zenon DEF Led, ContextOf
    <2>3. CASE v \in Bound
      BY <2>1, <2>3, NamesLead, Zenon DEF Led
    <2> QED BY <1>1, <2>2, <2>3, Zenon
  <1>4. ASSUME NEW c \in Led PROVE c \in Live
    <2>1. PICK v \in Held : value[v].ctx = c
      BY <1>1, <1>4, NamesLead, Zenon DEF Led, ContextOf
    <2>2. v \in Holding(c) /\ c \in DOMAIN ctx
      BY <1>1, <2>1, Zenon DEF Holding
    <2> QED BY <1>2, <2>2, Zenon DEF Live
  <1> QED
    BY <1>3, <1>4, Zenon

LEMMA LiveIsLedNext == ReplInv' => Live' = Led'
  <1>1. (ReplInv => Live = Led)'
    BY LiveIsLed, PTL
  <1> QED
    BY <1>1

LEMMA LedIsLeads == Led = Promise!Leads
  <1>1. {Env[n] : n \in DOMAIN Env} = {ContextOf(n) : n \in Keys(dict)}
    BY DEF Env
  <1> QED
    BY <1>1, Zenon DEF Led, Promise!Leads, Env, Pend

LEMMA LedIsLeadsNext == Led' = Promise!Leads'
  <1>1. (Led = Promise!Leads)'
    BY LedIsLeads, PTL
  <1> QED
    BY <1>1

LEMMA SharingStarts == ReplInit => Promise!Init
  <1> SUFFICES ASSUME ReplInit PROVE Promise!Init
    OBVIOUS
  <1>1. Keys(dict) = {} /\ Live = {} /\ Pend = {} /\ Len(ctx) = 0
    BY DEF ReplInit, Keys, Live, Pend
  <1>2. Env = Promise!Nothing /\ Logs = Promise!Nothing
    BY <1>1, Zenon DEF Env, Logs, Promise!Nothing
  <1> QED
    BY <1>1, <1>2, Zenon DEF Promise!Init, Env, Logs, Live, Pend

\* The steps of one line that change nothing a name leads to
LEMMA StillMaps ==
    ASSUME ReplInv, ReplInv', StillSteps
    PROVE  UNCHANGED Promise!vars
  <1>1. UNCHANGED <<dict, value, ctx>> /\ Bound' = Bound
    BY DEF StillSteps, ReadLine, Lookup, LookupFails, Dies, Save, Mismatch, ReadTrace, ReadFuncs,
           ReadPool, NoContext, NoResult, NothingToBind, Cleanup, CleanupAstray, Quit, ReplHalted,
           replVars, Bound
  <1>2. Pend = {value[v].ctx : v \in Bound} /\ Pend' = {value'[v].ctx : v \in Bound'}
    BY DEF Pend, Bound
  <1>3. Env' = Env /\ Pend' = Pend /\ Len(ctx)' = Len(ctx) /\ Logs' = Logs
    BY <1>1, <1>2 DEF Env, ContextOf, Logs, Live
  <1> QED
    BY <1>3, Zenon DEF Promise!vars, Env, Pend, Logs, Live

\* A command that returns a new value leaves what every name leads to.
LEMMA ReturnLeads ==
    ASSUME ReplInv, phase = "call", Returned,
           Len(value') = Len(value) + 1, \A v \in DOMAIN value : value'[v] = value[v]
    PROVE  /\ Keys(dict') = Keys(dict) /\ Env' = Env
           /\ Pend = {} /\ Pend' = {value'[Len(value) + 1].ctx}
  <1>1. \A n \in Keys(dict) : DictGet(dict, n) \in DOMAIN value
    BY NamesLead, Zenon DEF Held
  <1>2. dict' = dict /\ result' = Len(value) + 1 /\ phase' = "bind"
    BY DEF Returned
  <1>3. \A n \in Keys(dict) : ContextOf(n)' = ContextOf(n)
    BY <1>1, <1>2, Zenon DEF ContextOf
  <1>4. Len(value) + 1 # None
    <2>1. Len(value) \in Nat
      BY HoldingFinite DEF ReplInv
    <2> QED BY <2>1 DEF None
  <1>5. Env' = Env
    BY <1>2, <1>3, Zenon DEF Env
  <1> QED
    BY <1>2, <1>4, <1>5 DEF Pend

\* A result with a context of its own
LEMMA MakeMaps ==
    ASSUME ReplInv, phase = "call", Returned, NEW pool, NEW trace,
           ctx' = Append(ctx, NewCtx(pool, trace)), value' = NewValue(Len(ctx) + 1)
    PROVE  Promise!Make
  <1> DEFINE new == NewCtx(pool, trace)
             val == [ctx |-> Len(ctx) + 1, alloc |-> TRUE]
             U == Context \cup {new}
  <1>1. /\ DOMAIN ctx = 1 .. Len(ctx) /\ Len(ctx) \in Nat
        /\ \A c \in DOMAIN ctx : ctx[c] \in U
        /\ DOMAIN value = 1 .. Len(value) /\ Len(value) \in Nat
    BY HoldingFinite DEF ReplInv
  <1>2. new.alloc = TRUE /\ new \in U
    BY DEF NewCtx
  <1>3. /\ Len(ctx') = Len(ctx) + 1 /\ DOMAIN ctx' = DOMAIN ctx \cup {Len(ctx) + 1}
        /\ ctx'[Len(ctx) + 1] = new /\ \A c \in DOMAIN ctx : ctx'[c] = ctx[c]
        /\ Len(ctx) + 1 \notin DOMAIN ctx
    <2>1. ctx \in Seq(U)
      <3>1. ctx \in Seq(Context)
        BY DEF ReplInv, ValueTyped
      <3> QED BY <3>1, <1>1, SeqOfElements, Zenon
    <2> HIDE DEF new, U
    <2>2. ctx' = Append(ctx, new)
      BY DEF new
    <2> QED BY <1>2, <2>1, <2>2, AppendElements
  <1>4. /\ Len(value') = Len(value) + 1 /\ value'[Len(value) + 1].ctx = Len(ctx) + 1
        /\ \A v \in DOMAIN value : value'[v] = value[v]
    <2>1. PICK T : value \in Seq(T)
      BY DEF ReplInv, ValueTyped
    <2>2. value' = Append(value, val) /\ val.ctx = Len(ctx) + 1
      BY DEF NewValue
    <2> HIDE DEF val
    <2> DEFINE V == T \cup {val}
    <2>3. value \in Seq(V) /\ val \in V
      BY <2>1
    <2> HIDE DEF V
    <2> QED BY <2>2, <2>3, AppendElements
  <1> HIDE DEF new, val, U
  <1>5. Env' = Env /\ Pend = {} /\ Pend' = {Len(ctx) + 1}
    BY <1>4, ReturnLeads, Zenon
  <1>6. Live' = Live \cup {Len(ctx) + 1} /\ \A c \in Live : c \in DOMAIN ctx /\ c \in Live'
    BY <1>2, <1>3 DEF Live
  <1>7. DOMAIN Logs' = DOMAIN Logs \cup {Len(ctx')}
    BY <1>3, <1>6 DEF Logs
  <1>8. \A c \in DOMAIN Logs : Logs'[c] = Logs[c]
    BY <1>3, <1>6, Zenon DEF Logs
  <1> QED
    BY <1>3, <1>5, <1>7, <1>8, Zenon DEF Promise!Make, Env, Pend, Logs, Live

\* The calls that a loop adds go behind those the context has.
LEMMA PrefixKept ==
    ASSUME NEW s \in Seq(Nat), NEW t \in Seq(Nat)
    PROVE  IsPrefix(s, s \o t)
  BY DEF IsPrefix

\* The trace of one allocated context gets longer, no other context changes.
LEMMA ExtendMaps ==
    ASSUME ReplInv, NEW c \in DOMAIN ctx, ctx[c].alloc, NEW new, NEW more \in Seq(Nat),
           new.alloc = ctx[c].alloc, new.trace = ctx[c].trace \o more,
           ctx' = [ctx EXCEPT ![c] = new]
    PROVE  /\ Len(ctx') = Len(ctx) /\ DOMAIN Logs' = DOMAIN Logs
           /\ Logs' = [Logs EXCEPT ![c] = Logs'[c]] /\ IsPrefix(Logs[c], Logs'[c])
  <1>1. PICK T : ctx \in Seq(T)
    BY DEF ReplInv, ValueTyped
  <1> DEFINE U == T \cup {new}
  <1>2. ctx \in Seq(U) /\ new \in U
    BY <1>1
  <1> HIDE DEF U
  <1>3. /\ Len(ctx') = Len(ctx) /\ DOMAIN ctx' = DOMAIN ctx
        /\ ctx'[c] = new /\ \A d \in DOMAIN ctx : d # c => ctx'[d] = ctx[d]
    <2> DEFINE u == [ctx EXCEPT ![c] = new]
    <2>1. /\ Len(u) = Len(ctx) /\ DOMAIN u = DOMAIN ctx
          /\ u[c] = new /\ \A d \in DOMAIN ctx : d # c => u[d] = ctx[d]
      BY <1>2, ExceptElements
    <2>2. ctx' = u
      OBVIOUS
    <2> HIDE DEF u
    <2> QED BY <2>1, <2>2
  <1>4. Live' = Live /\ c \in Live
    BY <1>3, Zenon DEF Live
  <1>5. /\ DOMAIN Logs = Live /\ DOMAIN Logs' = Live
        /\ \A d \in Live : Logs[d] = ctx[d].trace /\ Logs'[d] = ctx'[d].trace
    BY <1>4, Zenon DEF Logs
  <1>6. \A d \in Live : d # c => Logs'[d] = Logs[d]
    BY <1>3, <1>5, Zenon DEF Live
  <1>7. Logs' = [d \in Live |-> Logs'[d]] /\ Logs = [d \in Live |-> Logs[d]]
    BY <1>4, <1>5 DEF Logs
  <1>8. Logs' = [Logs EXCEPT ![c] = Logs'[c]]
    <2> DEFINE L == Logs
               M == Logs'
    <2>1. L = [d \in Live |-> L[d]] /\ M = [d \in Live |-> M[d]] /\ \A d \in Live : d # c => M[d] = L[d]
      BY <1>6, <1>7
    <2> HIDE DEF L, M
    <2>2. M = [L EXCEPT ![c] = M[c]]
      BY <1>4, <2>1
    <2> QED BY <2>2 DEF L, M
  <1>9. ctx[c].trace \in Seq(Nat)
    BY HoldingFinite DEF ReplInv, Context
  <1>10. IsPrefix(Logs[c], Logs'[c])
    <2>1. Logs[c] = ctx[c].trace /\ Logs'[c] = ctx[c].trace \o more
      BY <1>3, <1>4, <1>5, Zenon
    <2> QED BY <1>9, <2>1, PrefixKept, Zenon
  <1> QED
    BY <1>3, <1>5, <1>8, <1>10, Zenon

\* A command's context is one that a name leads to.
LEMMA ArgLeads ==
    ASSUME ReplInv, phase = "call", NEW i \in DOMAIN argv, argv[i].kind = "ctx"
    PROVE  \E n \in Keys(dict) : Env[n] = CtxOf(i)
  <1>1. line.args[i] \in Keys(dict) /\ argv[i].v = DictGet(dict, line.args[i])
    BY Zenon DEF ReplInv, Arguments
  <1>2. Env[line.args[i]] = ContextOf(line.args[i])
    BY <1>1, Zenon DEF Env
  <1> QED
    BY <1>1, <1>2, Zenon DEF ContextOf, CtxOf

LEMMA NewMaps ==
    ASSUME ReplInv,
           \/ \E n \in 0 .. MaxCall : FuzzNew(n)
           \/ Restore
           \/ \E n \in 0 .. MaxLen : \E kept \in [1 .. n -> 1 .. MaxLen] : Minimized(kept)
    PROVE  Promise!Make
  <1>1. CASE \E n \in 0 .. MaxCall : FuzzNew(n)
    BY <1>1, MakeMaps, Zenon DEF FuzzNew
  <1>2. CASE Restore
    BY <1>2, MakeMaps, Zenon DEF Restore
  <1>3. CASE \E n \in 0 .. MaxLen : \E kept \in [1 .. n -> 1 .. MaxLen] : Minimized(kept)
    <2>1. PICK kept : Minimized(kept)
      BY <1>3, Zenon
    <2> DEFINE part == [k \in DOMAIN kept |-> ctx[CtxOf(1)].trace[kept[k]]]
    <2>2. /\ ctx' = Append(ctx, NewCtx(NoPool, part)) /\ value' = NewValue(Len(ctx) + 1)
          /\ phase = "call" /\ Returned
      BY <2>1 DEF Minimized
    <2> HIDE DEF part
    <2> QED BY <2>2, MakeMaps, Zenon
  <1> QED
    BY <1>1, <1>2, <1>3, Zenon

LEMMA FuzzOnMaps ==
    ASSUME ReplInv, NEW n \in 0 .. MaxCall, FuzzOn(n)
    PROVE  \E name \in DOMAIN Env : Promise!Share(name)
  <1> DEFINE c == CtxOf(2)
             more == Issue(Pool(c), n)
             new == [ctx[c] EXCEPT !.refs = @ + 1, !.pool = Pool(c) + n, !.trace = @ \o more]
  <1>1. n \in Nat
    <2>1. MaxCall \in Nat
      BY ReplConstants, Zenon
    <2> QED BY <2>1
  <1>2. /\ 2 \in DOMAIN argv /\ argv[2].kind = "ctx"
        /\ c \in DOMAIN ctx /\ ctx[c].alloc /\ ctx[c] \in Context
    BY CommandArgs DEF FuzzOn
  <1>3. more \in Seq(Nat)
    <2>1. Pool(c) \in Nat
      BY <1>2 DEF Pool, Context
    <2> QED BY <1>1, <2>1, IssueType
  <1>4. new.alloc = ctx[c].alloc /\ new.trace = ctx[c].trace \o more
    BY <1>2 DEF Context
  <1>5. ctx' = [ctx EXCEPT ![c] = new] /\ value' = NewValue(c) /\ phase = "call" /\ Returned
    BY DEF FuzzOn
  <1> HIDE DEF c, more, new
  <1>6. /\ Len(ctx') = Len(ctx) /\ DOMAIN Logs' = DOMAIN Logs
        /\ Logs' = [Logs EXCEPT ![c] = Logs'[c]] /\ IsPrefix(Logs[c], Logs'[c])
    BY <1>2, <1>3, <1>4, <1>5, ExtendMaps, Zenon
  <1>7. /\ Len(value') = Len(value) + 1 /\ value'[Len(value) + 1].ctx = c
        /\ \A v \in DOMAIN value : value'[v] = value[v]
    <2> DEFINE val == [ctx |-> c, alloc |-> TRUE]
    <2>1. PICK T : value \in Seq(T)
      BY DEF ReplInv, ValueTyped
    <2>2. value' = Append(value, val) /\ val.ctx = c
      BY <1>5 DEF NewValue
    <2> HIDE DEF val
    <2> DEFINE V == T \cup {val}
    <2>3. value \in Seq(V) /\ val \in V
      BY <2>1
    <2> HIDE DEF V
    <2> QED BY <2>2, <2>3, AppendElements
  <1>8. Env' = Env /\ Pend = {} /\ Pend' = {c}
    BY <1>5, <1>7, ReturnLeads, Zenon
  <1>9. PICK name \in Keys(dict) : Env[name] = c
    BY <1>2, <1>5, ArgLeads, Zenon DEF c
  <1>10. /\ Env' = Env /\ Pend = {} /\ Pend' = {Env[name]} /\ Len(ctx') = Len(ctx)
         /\ DOMAIN Logs' = DOMAIN Logs /\ Logs' = [Logs EXCEPT ![Env[name]] = Logs'[Env[name]]]
         /\ IsPrefix(Logs[Env[name]], Logs'[Env[name]])
    BY <1>6, <1>8, <1>9
  <1>11. Promise!Share(name)
    BY <1>10, Zenon
    DEF Promise!Share, Promise!Extended, Promise!IsPrefix, IsPrefix, Env, Pend, Logs, Live
  <1> QED
    BY <1>9, <1>11, Zenon DEF Env

LEMMA VarMutMaps ==
    ASSUME ReplInv, NEW n \in 0 .. MaxCall, VarMut(n)
    PROVE  \E name \in DOMAIN Env : Promise!Extend(name)
  <1> DEFINE c == CtxOf(2)
             more == Issue(ctx[c].pool, n)
             new == [ctx[c] EXCEPT !.pool = @ + n, !.trace = @ \o more]
  <1>1. n \in Nat
    <2>1. MaxCall \in Nat
      BY ReplConstants, Zenon
    <2> QED BY <2>1
  <1>2. /\ 2 \in DOMAIN argv /\ argv[2].kind = "ctx"
        /\ c \in DOMAIN ctx /\ ctx[c].alloc /\ ctx[c] \in Context
    BY CommandArgs DEF VarMut
  <1>3. more \in Seq(Nat)
    <2>1. ctx[c].pool \in Nat
      BY <1>2 DEF VarMut, Context
    <2> QED BY <1>1, <2>1, IssueType
  <1>4. new.alloc = ctx[c].alloc /\ new.trace = ctx[c].trace \o more
    BY <1>2 DEF Context
  <1>5. /\ ctx' = [ctx EXCEPT ![c] = new] /\ UNCHANGED <<dict, value>>
        /\ phase = "call" /\ phase' = "bind" /\ result' = None
    BY DEF VarMut, NoResult
  <1> HIDE DEF c, more, new
  <1>6. /\ Len(ctx') = Len(ctx) /\ DOMAIN Logs' = DOMAIN Logs
        /\ Logs' = [Logs EXCEPT ![c] = Logs'[c]] /\ IsPrefix(Logs[c], Logs'[c])
    BY <1>2, <1>3, <1>4, <1>5, ExtendMaps, Zenon
  <1>7. Env' = Env /\ Pend = {} /\ Pend' = {}
    BY <1>5 DEF Env, Pend, ContextOf
  <1>8. PICK name \in Keys(dict) : Env[name] = c
    BY <1>2, <1>5, ArgLeads, Zenon DEF c
  <1>9. /\ Env' = Env /\ Pend = {} /\ Pend' = Pend /\ Len(ctx') = Len(ctx)
        /\ DOMAIN Logs' = DOMAIN Logs /\ Logs' = [Logs EXCEPT ![Env[name]] = Logs'[Env[name]]]
        /\ IsPrefix(Logs[Env[name]], Logs'[Env[name]])
    BY <1>6, <1>7, <1>8
  <1>10. Promise!Extend(name)
    BY <1>9, Zenon
    DEF Promise!Extend, Promise!Extended, Promise!IsPrefix, IsPrefix, Env, Pend, Logs, Live
  <1> QED
    BY <1>8, <1>10, Zenon DEF Env

\* Whatever DestroyVal frees, of the contexts only references and allocations change.
LEMMA DestroyKeepsTraces ==
    ASSUME ReplInv, NEW v, v = None \/ v \in Held, DestroyVal(v)
    PROVE  /\ Len(ctx') = Len(ctx) /\ DOMAIN ctx' = DOMAIN ctx
           /\ \A c \in DOMAIN ctx : ctx'[c].trace = ctx[c].trace /\ (ctx'[c].alloc => ctx[c].alloc)
           /\ \A w \in DOMAIN value : value'[w].ctx = value[w].ctx
  <1>1. CASE v = None
    BY <1>1 DEF DestroyVal
  <1>2. CASE v # None
    <2> DEFINE c == value[v].ctx
               val == [value[v] EXCEPT !.alloc = FALSE]
               new == [ctx[c] EXCEPT !.refs = @ - 1, !.alloc = ctx[c].refs > 1]
    <2>1. /\ v \in DOMAIN value /\ value[v] \in [ctx : DOMAIN ctx, alloc : BOOLEAN]
          /\ c \in DOMAIN ctx /\ ctx[c] \in Context /\ v \in Held /\ v \in Holding(c)
          /\ IsFiniteSet(Holding(c))
      BY <1>2, HoldingFinite, NamesLead DEF ReplInv, Held, Holding
    <2>2. ctx[c].alloc
      <3>1. Cardinality(Holding(c)) # 0 /\ Cardinality(Holding(c)) \in Nat
        BY <2>1, FS_EmptySet, FS_CardinalityType
      <3>2. ctx[c].refs = Cardinality(Holding(c)) /\ (ctx[c].alloc <=> ctx[c].refs > 0)
        BY <2>1, Zenon DEF ReplInv, RefsCountValues, Holding
      <3> QED BY <3>1, <3>2
    <2>3. value' = [value EXCEPT ![v] = val] /\ ctx' = [ctx EXCEPT ![c] = new]
      BY <1>2 DEF DestroyVal, Release
    <2>4. val.ctx = value[v].ctx /\ new.trace = ctx[c].trace
      BY <2>1 DEF Context
    <2> HIDE DEF c, val, new
    <2>5. /\ Len(ctx') = Len(ctx) /\ DOMAIN ctx' = DOMAIN ctx
          /\ ctx'[c] = new /\ \A d \in DOMAIN ctx : d # c => ctx'[d] = ctx[d]
      <3>1. PICK T : ctx \in Seq(T)
        BY DEF ReplInv, ValueTyped
      <3> DEFINE U == T \cup {new}
                 u == [ctx EXCEPT ![c] = new]
      <3>2. ctx \in Seq(U) /\ new \in U
        BY <3>1
      <3> HIDE DEF U
      <3>3. /\ Len(u) = Len(ctx) /\ DOMAIN u = DOMAIN ctx
            /\ u[c] = new /\ \A d \in DOMAIN ctx : d # c => u[d] = ctx[d]
        BY <2>1, <3>2, ExceptElements
      <3>4. ctx' = u
        BY <2>3
      <3> HIDE DEF u
      <3> QED BY <3>3, <3>4
    <2>6. value'[v] = val /\ \A w \in DOMAIN value : w # v => value'[w] = value[w]
      BY <2>1, <2>3
    <2> QED BY <2>2, <2>4, <2>5, <2>6, Zenon
  <1> QED
    BY <1>1, <1>2

\* In a step that frees, the contexts that stay are those something still leads to.
LEMMA CollectMaps ==
    ASSUME ReplInv, ReplInv', DOMAIN ctx' = DOMAIN ctx,
           \A c \in DOMAIN ctx : ctx'[c].trace = ctx[c].trace /\ (ctx'[c].alloc => ctx[c].alloc)
    PROVE  Promise!Collect
  <1>1. Live' = Led'
    BY LiveIsLedNext
  <1>2. Live' \subseteq Live /\ Live \subseteq DOMAIN ctx
    BY DEF Live
  <1>3. DOMAIN Logs = Live /\ Live \cap Live' = Live'
    BY <1>2 DEF Logs
  <1>4. \A c \in Live' : ctx'[c].trace = Logs[c]
    BY <1>2 DEF Logs
  <1>5. Logs' = [c \in DOMAIN Logs \cap Promise!Leads' |-> Logs[c]]
    BY <1>1, <1>3, <1>4, LedIsLeadsNext DEF Logs
  <1> QED
    BY <1>5, Zenon DEF Promise!Collect, Logs, Live

LEMMA BindMaps ==
    ASSUME ReplInv, ReplInv', Bind
    PROVE  \E n \in DOMAIN Env' : Promise!Bind(n)
  <1> DEFINE v == DictGet(dict, Target)
             c == value[result].ctx
  <1>C. /\ dict \in Seq(Nodes) /\ Distinct(dict)
        /\ Held = Vals(dict) \cup {result} /\ result \notin Vals(dict)
        /\ result \in Nat \ {None} /\ Held \subseteq DOMAIN value
    BY DEF ReplInv, Binding, Bound, Bind, None, Control, Held
  <1>1. Target \in Name
    <2>1. line.var \in Name \cup {""} /\ "_" \in Name
      BY LineParts, ReplConstants DEF ReplInv, Control
    <2> QED BY <2>1 DEF Target
  <1>2. v = None \/ v \in Held
    BY <1>C, DictGetValue, Zenon DEF DictGet
  <1>3. /\ Len(ctx') = Len(ctx) /\ DOMAIN ctx' = DOMAIN ctx
        /\ \A d \in DOMAIN ctx : ctx'[d].trace = ctx[d].trace /\ (ctx'[d].alloc => ctx[d].alloc)
        /\ \A w \in DOMAIN value : value'[w].ctx = value[w].ctx
    BY <1>2, DestroyKeepsTraces DEF Bind
  <1>4. Promise!Collect
    BY <1>3, CollectMaps, Zenon
  <1>5. Pend = {c} /\ Pend' = {}
    BY DEF Bind, Pend
  <1>6. /\ Keys(dict') = Keys(dict) \cup {Target} /\ DictGet(dict', Target) = result
        /\ \A n \in Keys(dict) \ {Target} : DictGet(dict', n) = DictGet(dict, n)
    <2>1. dict' = DictInsert(dict, Target, result)
      BY DEF Bind
    <2> QED BY <1>C, <1>1, <2>1, DictInsertedGets
  <1>7. PICK name : name = Target
    OBVIOUS
  <1>8. \A n \in Keys(dict) \ {name} : ContextOf(n)' = ContextOf(n)
    <2>1. \A n \in Keys(dict) : DictGet(dict, n) \in DOMAIN value
      BY NamesLead, Zenon DEF Held
    <2> QED BY <1>3, <1>6, <1>7, <2>1 DEF ContextOf
  <1>9. ContextOf(name)' = c
    BY <1>3, <1>6, <1>7, <1>C DEF ContextOf
  <1> HIDE DEF c
  <1>10. Env' = [m \in DOMAIN Env \cup {name} |-> IF m = name THEN c ELSE Env[m]]
    BY <1>6, <1>7, <1>8, <1>9 DEF Env
  <1>11. Promise!Bind(name)
    BY <1>3, <1>4, <1>5, <1>10, Zenon
    DEF Promise!Bind, Env, Pend
  <1> QED
    BY <1>6, <1>7, <1>11 DEF Env

LEMMA EndMaps ==
    ASSUME ReplInv, ReplInv', EndOfInput
    PROVE  \E n \in DOMAIN Env : Promise!Drop(n)
  <1> DEFINE v == dict[1].val
             name == dict[1].key
  <1>C. /\ dict \in Seq(Nodes) /\ Distinct(dict) /\ dict # <<>> /\ dict' = Tail(dict)
        /\ Held = Vals(dict) /\ phase \in {"prompt", "eof"} /\ phase' = "eof"
    BY DEF ReplInv, Binding, Bound, EndOfInput
  <1>1. v \in Held
    BY <1>C, DictTail
  <1>2. /\ Len(ctx') = Len(ctx) /\ DOMAIN ctx' = DOMAIN ctx
        /\ \A d \in DOMAIN ctx : ctx'[d].trace = ctx[d].trace /\ (ctx'[d].alloc => ctx[d].alloc)
        /\ \A w \in DOMAIN value : value'[w].ctx = value[w].ctx
    BY <1>1, DestroyKeepsTraces DEF EndOfInput
  <1>3. Promise!Collect
    BY <1>2, CollectMaps, Zenon
  <1>4. Pend = {} /\ Pend' = {}
    BY <1>C DEF Pend
  <1>5. /\ name \in Keys(dict) /\ Keys(dict') = Keys(dict) \ {name}
        /\ \A n \in Keys(dict') : DictGet(dict', n) = DictGet(dict, n)
    BY <1>C, DictTailGets
  <1>6. \A n \in Keys(dict') : ContextOf(n)' = ContextOf(n)
    <2>1. \A n \in Keys(dict) : DictGet(dict, n) \in DOMAIN value
      BY NamesLead, Zenon DEF Held
    <2> QED BY <1>2, <1>5, <2>1 DEF ContextOf
  <1> HIDE DEF name
  <1>7. PICK n \in Keys(dict) : n = name
    BY <1>5
  <1>8. Env' = [m \in DOMAIN Env \ {n} |-> Env[m]]
    BY <1>5, <1>6, <1>7 DEF Env
  <1>9. Promise!Drop(n)
    BY <1>2, <1>3, <1>4, <1>8, Zenon
    DEF Promise!Drop, Env, Pend
  <1> QED
    BY <1>9, Zenon DEF Env

\* Every step is a step of Sharing or leaves its variables alone.
LEMMA SharingStep ==
    ASSUME ReplInv, ReplInv', [ReplNext]_replVars
    PROVE  [Promise!Next]_(Promise!vars)
  <1>1. CASE StillSteps
    BY <1>1, StillMaps, Zenon
  <1>2. CASE \/ \E n \in 0 .. MaxCall : FuzzNew(n)
             \/ Restore
             \/ \E n \in 0 .. MaxLen : \E kept \in [1 .. n -> 1 .. MaxLen] : Minimized(kept)
    BY <1>2, NewMaps, Zenon DEF Promise!Next
  <1>3. CASE \E n \in 0 .. MaxCall : FuzzOn(n) \/ VarMut(n)
    <2>1. \E n \in DOMAIN Env : Promise!Share(n) \/ Promise!Extend(n)
      BY <1>3, FuzzOnMaps, VarMutMaps, Zenon
    <2> QED BY <2>1, Zenon DEF Promise!Next, Env
  <1>4. CASE Bind
    <2>1. \E n \in DOMAIN Env' : Promise!Bind(n)
      BY <1>4, BindMaps, Zenon
    <2> QED BY <2>1, Zenon DEF Promise!Next, Env
  <1>5. CASE EndOfInput
    <2>1. \E n \in DOMAIN Env : Promise!Drop(n)
      BY <1>5, EndMaps, Zenon
    <2> QED BY <2>1, Zenon DEF Promise!Next, Env
  <1> QED
    BY <1>1, <1>2, <1>3, <1>4, <1>5, Zenon DEF ReplNext, Command, StillSteps

-----------------------------------------------------------------------------
(* Theorems *)

LEMMA ReplAlways == ReplSpec => []ReplInv
  BY ReplInitInv, ReplStepInv, PTL DEF ReplSpec

\* In every session names, values, contexts, arguments and results keep their
\* types, whatever is typed and wherever the process ends.
THEOREM ReplTypeCorrect == ReplSpec => []ReplTypeOK
  BY ReplAlways, InvImplies, PTL

\* The reference counts of minerva_refs.h are right in every state: a context
\* has as many references as there are allocated values that hold it, and it is
\* freed with the last of them and never before.
THEOREM ReferencesCounted == ReplSpec => []RefsCountValues
  BY ReplAlways, InvImplies, PTL

\* The dictionary is the only owner of the values: each allocated value has
\* exactly one name, but for the result that is about to get one.
THEOREM ValuesHaveOneName == ReplSpec => []ValuesBoundOnce
  BY ReplAlways, InvImplies, PTL

\* No command is given a freed value or a freed context, and the clean-up of a
\* line looks at a freed value only where the line rebinds one of its arguments.
THEOREM ArgumentsOutliveTheLine == ReplSpec => []ArgsOutliveLine
  BY ReplAlways, InvImplies, PTL
\* The shell implements Sharing: whatever is typed, and with every command that
\* may fail or end the process, its values, nodes and reference counts behave as
\* names for shared contexts, each of which goes with the last name that leads to it.
THEOREM ShellImplementsSharing == ReplSpec => ImplementsSharing
  <1>1. ReplInit => Promise!Init
    BY SharingStarts
  <1>2. ReplInv /\ ReplInv' /\ [ReplNext]_replVars => [Promise!Next]_(Promise!vars)
    BY SharingStep, Zenon
  <1> QED
    BY <1>1, <1>2, ReplAlways, PTL DEF ReplSpec, ImplementsSharing, Promise!Spec
=============================================================================
