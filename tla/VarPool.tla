------------------------------ MODULE VarPool ------------------------------
(***************************************************************************)
(* The pool of variables of one type (core/minerva_var.c), down to the     *)
(* pointers of its tree.  FuzzLoop and TracePlay take the tree for a set   *)
(* of identifiers; here it is shown when it is one.                        *)
(*                                                                         *)
(* A round of a loop in RB_INSERT or RB_REMOVE is one step.  A ^C cuts it  *)
(* short after any of its stores, each of which sets one pointer or color: *)
(* the build is -O0 (mk/config.mk:20).                                     *)
(***************************************************************************)
EXTENDS RBTree

CONSTANTS
    TraceIds,    \* identifiers a played trace asks for; 0 asks for the next one
    MaxSigint    \* bound: how often the user presses ^C

ASSUME PoolConstants == TraceIds \subseteq Ids /\ MaxSigint \in Nat

VARIABLES
    heap,      \* the tree, and the fields of all elements
    freed,     \* elements that are not allocated
    len, curId,
    ids,       \* the identifiers the tree is taken to hold (history)
    pc,        \* where minerva_var_new, minerva_var_destroy are
    var,       \* the variable they are about; new_var, if the tree refused it
    elm, par,  \* elm and parent in the loops that recolor
    leaving,   \* is minerva_vars_destroy at work?
    sigints,
    hurt       \* "fault": a pointer that is NULL was followed; "stray": a variable
               \* was removed from a tree that did not hold it (history)

frame == <<var, elm, par>>
vars == <<heap, freed, len, curId, ids, pc, frame, leaving, sigints, hurt>>

Init ==
    /\ heap = EmptyHeap /\ freed = Node /\ len = 0 /\ curId = 0 /\ ids = {}
    /\ pc = "idle" /\ var = Null /\ elm = Null /\ par = Null
    /\ leaving = FALSE /\ sigints = 0 /\ hurt = {}

Clear == var' = Null /\ elm' = Null /\ par' = Null

\* Elements that are allocated and neither in the tree nor at hand
Lost == Node \ (freed \cup Reach(heap) \cup {var})

\* Bounds: after the first variable that is lost for good, nothing new is made and
\* no ^C comes.
InBounds == Lost = {} /\ "stray" \notin hurt

Rest == IF leaving THEN "empty" ELSE "idle"

AllOf(stores) == heap' = Apply(heap, stores)

\* ^C during the loop or a play: longjmp.  When minerva_vars_destroy is at work
\* main's handler ends the process instead.
Cut(stores) ==
    /\ ~leaving /\ sigints < MaxSigint /\ InBounds
    /\ sigints' = sigints + 1
    /\ \E k \in 0 .. Len(stores) : AllOf(SubSeq(stores, 1, k))
    /\ Clear /\ pc' = "idle"
    /\ UNCHANGED <<freed, len, curId, ids, leaving, hurt>>

\* SIGSEGV: the loop takes it for a crash of the target.
Fault ==
    /\ hurt' = hurt \cup {"fault"}
    /\ Clear /\ pc' = IF leaving THEN "dead" ELSE "idle"
    /\ UNCHANGED <<heap, freed, len, curId, ids, leaving, sigints>>

-----------------------------------------------------------------------------
(* minerva_var_new *)

\* What a removal or an insertion relies on besides the colors.  Where a ^C has
\* left a tree without it, the model shows the next of them as undefined.
Sound == IsSearchTree(heap) /\ ParentsRight(heap)

Astray ==
    /\ pc \in {"idle", "empty"} /\ ~Sound
    /\ pc' = "undefined"
    /\ UNCHANGED <<heap, freed, len, curId, ids, frame, leaving, sigints, hurt>>

\* The loop asks for the next identifier, a play for the one in the trace, where
\* 0 means the next; nobody checks whether it is taken.
New(id) ==
    /\ pc = "idle" /\ Sound /\ InBounds
    /\ LET k == IF id = 0 THEN curId ELSE id IN
       \E n \in freed :
           /\ Key(n) = k /\ \A m \in freed : Key(m) = k => n[2] <= m[2]
           /\ freed' = freed \ {n}
           /\ var' = n
    /\ len' = len + 1
    /\ curId' = IF id = 0 THEN curId + 1 ELSE curId
    /\ pc' = "insert"
    /\ UNCHANGED <<heap, ids, elm, par, leaving, sigints, hurt>>

\* RB_INSERT returns the element that has the key; the new one stays outside.
InsertRefused ==
    /\ pc = "insert" /\ Find(heap, Key(var)) # Null
    /\ pc' = "idle"
    /\ UNCHANGED <<heap, freed, len, curId, ids, frame, leaving, sigints, hurt>>

Insert ==
    /\ pc = "insert" /\ Find(heap, Key(var)) = Null
    /\ LET stores == Link(heap, var) IN
       \/ /\ AllOf(stores)
          /\ ids' = ids \cup {Key(var)}
          /\ elm' = var /\ pc' = "color"
          /\ UNCHANGED <<freed, len, curId, var, par, leaving, sigints, hurt>>
       \/ Cut(stores)

\* A round of RB_INSERT_COLOR
InsertRound ==
    /\ pc = "color" /\ Red(heap, heap.parent[elm])
    /\ IF InsertFaults(heap, elm) THEN Fault
       ELSE LET round == InsertColor(heap, elm) IN
            \/ /\ AllOf(round.stores)
               /\ elm' = round.next
               /\ UNCHANGED <<freed, len, curId, ids, pc, var, par, leaving, sigints, hurt>>
            \/ Cut(round.stores)

InsertDone ==
    /\ pc = "color" /\ ~Red(heap, heap.parent[elm])
    /\ LET stores == <<<<"color", heap.root, "black">>>> IN
       \/ /\ AllOf(stores)
          /\ Clear /\ pc' = "idle"
          /\ UNCHANGED <<freed, len, curId, ids, leaving, sigints, hurt>>
       \/ Cut(stores)

-----------------------------------------------------------------------------
(* minerva_var_destroy *)

\* Mutant of Destroy: the counter is forgotten.
DestroyUncounted(n) ==
    /\ pc = Rest /\ Sound
    /\ ids' = IF n \in Reach(heap) THEN ids \ {Key(n)} ELSE ids
    /\ hurt' = IF n \in Reach(heap) THEN hurt ELSE hurt \cup {"stray"}
    /\ var' = n /\ elm' = Null /\ par' = Null
    /\ pc' = "remove"
    /\ UNCHANGED <<heap, freed, len, curId, leaving, sigints>>

\* An argument, which was found through the tree; the result of a call that
\* failed; the root, when the pool is given up.
Destroy(n) ==
    /\ pc = Rest /\ Sound
    /\ len' = len - 1
    /\ ids' = IF n \in Reach(heap) THEN ids \ {Key(n)} ELSE ids
    /\ hurt' = IF n \in Reach(heap) THEN hurt ELSE hurt \cup {"stray"}
    /\ var' = n /\ elm' = Null /\ par' = Null
    /\ pc' = "remove"
    /\ UNCHANGED <<heap, freed, curId, leaving, sigints>>

RemoveVar ==
    /\ pc = "remove"
    /\ LET gap == Spliced(heap, var)
           stores == TakeOut(heap, var)
       IN  \/ /\ AllOf(stores)
              /\ elm' = OnlyChild(heap, gap)
              /\ par' = IF heap.parent[gap] = var THEN gap ELSE heap.parent[gap]
              /\ pc' = IF Red(heap, gap) THEN "free" ELSE "balance"
              /\ UNCHANGED <<freed, len, curId, ids, var, leaving, sigints, hurt>>
           \/ Cut(stores)

Short == ChildSide(heap, par, elm)
Sibling == heap[Other[Short]][par]
Deficient == elm # heap.root /\ ~Red(heap, elm)

\* The loop of RB_REMOVE_COLOR is over.
RemoveDone ==
    /\ pc = "balance" /\ ~Deficient
    /\ LET stores == PutIf("color", elm, "black") IN
       \/ /\ AllOf(stores)
          /\ pc' = "free"
          /\ UNCHANGED <<freed, len, curId, ids, frame, leaving, sigints, hurt>>
       \/ Cut(stores)

RemoveFaults ==
    /\ (pc = "balance" /\ Deficient) \/ pc = "nephews"
    /\ par = Null \/ Sibling = Null
    /\ Fault

RemoveRedSibling ==
    /\ pc = "balance" /\ Deficient
    /\ par # Null /\ Red(heap, Sibling)
    /\ LET stores == RedSibling(heap, par, Short) IN
       \/ /\ AllOf(stores)
          /\ pc' = "nephews"
          /\ UNCHANGED <<freed, len, curId, ids, frame, leaving, sigints, hurt>>
       \/ Cut(stores)

\* The rest of a round, once the sibling is black
RemoveRound ==
    /\ pc \in {"balance", "nephews"} /\ par # Null /\ Sibling # Null
    /\ pc = "balance" => Deficient /\ ~Red(heap, Sibling)
    /\ LET round == RemoveColor(heap, par, elm) IN
       \/ /\ AllOf(round.stores)
          /\ elm' = IF round.last THEN heap'.root ELSE round.elm
          /\ par' = round.par
          /\ pc' = round.pc
          /\ UNCHANGED <<freed, len, curId, ids, var, leaving, sigints, hurt>>
       \/ Cut(round.stores)

Freed(h, n) ==
    [h EXCEPT !.left[n] = Null, !.right[n] = Null, !.parent[n] = Null, !.color[n] = "black"]

\* Mutant of Free: the caller's pointer outlives the variable.
FreeKeepsPointer ==
    /\ pc = "free"
    /\ \/ /\ freed' = freed \cup {var}
          /\ heap' = Freed(heap, var)
          /\ pc' = Rest
          /\ UNCHANGED <<len, curId, ids, frame, leaving, sigints, hurt>>
       \/ Cut(<<>>)

\* xfree
Free ==
    /\ pc = "free"
    /\ \/ /\ freed' = freed \cup {var}
          /\ heap' = Freed(heap, var)
          /\ Clear /\ pc' = Rest
          /\ UNCHANGED <<len, curId, ids, leaving, sigints, hurt>>
       \/ Cut(<<>>)

-----------------------------------------------------------------------------
(* What the pool is asked *)

\* minerva_var_get, where __rand() gives r
VarGet(h, r) == NFind(h, r % (Key(MinMax(h, "right")) + 1))

\* RB_FOREACH in minerva_vars_stringify and minerva_vars_print_stats
VarsDump(h) == LET w == Walk(h, "right") IN [i \in DOMAIN w |-> Key(w[i])]

-----------------------------------------------------------------------------
(* minerva_vars_destroy *)

Leave ==
    /\ pc = "idle"
    /\ leaving' = TRUE /\ Clear /\ pc' = "empty"
    /\ UNCHANGED <<heap, freed, len, curId, ids, sigints, hurt>>

\* assert(len == 0), in a build with DEBUG
LeaveDone ==
    /\ pc = "empty" /\ heap.root = Null
    /\ pc' = IF len = 0 THEN "gone" ELSE "abort"
    /\ UNCHANGED <<heap, freed, len, curId, ids, frame, leaving, sigints, hurt>>

Next ==
    \/ InsertRefused \/ Insert \/ InsertRound \/ InsertDone
    \/ RemoveVar \/ RemoveDone \/ RemoveFaults \/ RemoveRedSibling \/ RemoveRound \/ Free
    \/ Astray
    \/ \E id \in TraceIds \cup {0} : New(id)
    \/ pc = "idle" /\ \E n \in Reach(heap) \cup ({var} \ {Null}) : Destroy(n)
    \/ Leave
    \/ pc = "empty" /\ heap.root # Null /\ Destroy(heap.root)
    \/ LeaveDone
    \/ pc \in {"gone", "abort", "dead", "undefined"} /\ UNCHANGED vars

Spec == Init /\ [][Next]_vars

-----------------------------------------------------------------------------
(* Properties *)

Quiet == pc \in {"idle", "empty"}

\* Types, and the variable at hand is not one that was freed.
PoolTypeOK ==
    /\ heap \in Heap /\ freed \subseteq Node /\ len \in Int /\ curId \in Nat
    /\ pc \in {"idle", "insert", "color", "remove", "balance", "nephews", "free",
               "empty", "gone", "abort", "dead", "undefined"}
    /\ {var, elm, par} \subseteq Pointer /\ var \notin freed /\ sigints \in 0 .. MaxSigint

\* Without ^C the tree is a red-black tree whenever an operation is over, and no
\* operation follows a pointer that is NULL (the sibling, the grandparent),
\* whichever identifiers a trace asks for and in whichever order variables go.
TreeStaysRedBlack == sigints = 0 => "fault" \notin hurt /\ (Quiet => IsRedBlack(heap))

\* Without ^C the tree holds the variables that were made and not destroyed, and
\* none that was freed, as FuzzLoop and TracePlay take for granted.  The one
\* exception: where the tree refused a variable because a trace asked for its
\* identifier twice, and the call then failed, RB_REMOVE of a variable that is not
\* in the tree forgets the whole tree (minerva_var.c:87, 100).
TreeHoldsIds ==
    (sigints = 0 /\ Quiet /\ "stray" \notin hurt) =>
        Reach(heap) \cap freed = {} /\ {Key(n) : n \in Reach(heap)} = ids

\* In a tree whose links are right, colored well or not, the statistics and the
\* dump visit each variable once, in order, and RB_FIND and RB_NFIND say what is
\* true of the set of identifiers.  A ^C that cuts a rotation short may leave
\* parents that are wrong: then RB_FOREACH may miss variables, or never end.
SearchesAgree ==
    (Quiet /\ Sound) =>
        LET S == {Key(n) : n \in Reach(heap)} IN
        /\ LET w == VarsDump(heap) IN
           /\ {w[i] : i \in DOMAIN w} = S
           /\ \A i, j \in DOMAIN w : i < j => w[i] < w[j]
        /\ \A k \in Ids :
              /\ Find(heap, k) # Null <=> k \in S
              /\ LET n == NFind(heap, k) IN
                 IF n = Null THEN \A m \in S : m < k
                 ELSE Key(n) >= k /\ ~\E m \in S : k <= m /\ m < Key(n)

\* Wherever a ^C lands, going down the tree ends and stays in order, so that
\* minerva_var_get finds a variable whatever number it draws: the order in which
\* the macros make their stores sees to it (assert(ret != NULL),
\* minerva_var.c:170).
GetFinds ==
    Quiet => /\ IsSearchTree(heap)
             /\ heap.root # Null => \A r \in 0 .. 2 * Cardinality(Ids) : VarGet(heap, r) # Null

\* Without ^C, giving a pool up ends in the assertion exactly if a variable is
\* left over that the tree had refused or forgotten; the counter is right about it.
LeavesNothing ==
    (sigints = 0 /\ pc \in {"gone", "abort", "dead"}) =>
        pc = IF freed = Node THEN "gone" ELSE "abort"
=============================================================================
