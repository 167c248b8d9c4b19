--------------------------- MODULE WanderingTree ---------------------------
(***************************************************************************)
(* WanderingTree of interface/wandering_bst.h: an AVL tree whose nodes are *)
(* shared between the copies of the tree.  An operation builds new nodes   *)
(* along its path and leaves the others to the copies that hold them; only *)
(* a node's height is ever assigned.                                       *)
(*                                                                         *)
(* The heap maps the nodes in use to their contents; nodes no root reaches *)
(* are freed (they are counted by shared_ptr).  Addresses mean nothing to  *)
(* the code but equality, so Settle gives a node a canonical one after     *)
(* each call: the first copy that holds it and its key.                    *)
(***************************************************************************)
EXTENDS Integers, Sequences, FiniteSets, FiniteSetsExt

CONSTANTS
    Keys,          \* keys that are inserted
    Values,
    Items,         \* the pairs of them that are inserted
    Copies,        \* copies of the tree, numbered from 1
    Less(_, _)     \* Cmp

ASSUME CopiesAssumption == Copies \subseteq Nat \ {0}
ASSUME ItemsAssumption == Items \subseteq Keys \X Values
ASSUME LessAssumption ==
    \A a, b, c \in Keys :
        /\ ~Less(a, a)
        /\ Less(a, b) /\ Less(b, c) => Less(a, c)
        /\ Less(a, b) \/ Less(b, a) \/ a = b

VARIABLES
    heap,          \* the nodes, by address
    roots,         \* _root of each copy
    changed,       \* what the last insert, replace or erase returned
    dangling       \* an insertion has read finkey after its node was freed

vars == <<heap, roots, changed, dangling>>

Map == INSTANCE SortedMap

Null == <<0, 0>>
Links == (Copies \X Keys) \cup {Null}
Node == [key : Keys, value : Values, height : Nat, left : Links, right : Links]

Other(side) == IF side = "left" THEN "right" ELSE "left"

\* The side of the key other on which key belongs.
Side(key, other) == IF Less(key, other) THEN "left" ELSE "right"

Same(a, b) == ~Less(a, b) /\ ~Less(b, a)

\* The nodes from n down.
Reach(h, n) ==
    LET reach[m \in DOMAIN h \cup {Null}] ==
            IF m = Null THEN {} ELSE {m} \cup reach[h[m].left] \cup reach[h[m].right]
    IN  reach[n]

-----------------------------------------------------------------------------
(* Nodes.  An operation on nodes returns the heap it leaves and a node. *)

Got(h, n) == [heap |-> h, node |-> n]

CreateNode(h, contents) ==
    LET n == <<0, 1 + Cardinality({m \in DOMAIN h : m[1] = 0})>>
    IN  Got(Map!With(h, n, contents), n)

\* A faulty variant: writes into the node instead of copying it.
DuplicateNodeInPlace(h, src, side, child) ==
    Got([h EXCEPT ![src][side] = child], src)

\* duplicate_node: every call replaces one child and keeps the other.
DuplicateNode(h, src, side, child) ==
    IF h[src][side] = child THEN Got(h, src)
    ELSE CreateNode(h, [h[src] EXCEPT ![side] = child])

\* A faulty variant: counts edges instead of nodes, but leaves are created with 1.
HeightInEdges(h, n) == IF n = Null THEN -1 ELSE h[n].height

Height(h, n) == IF n = Null THEN 0 ELSE h[n].height

BalanceFactor(h, n) ==
    IF n = Null THEN 0 ELSE Height(h, h[n].left) - Height(h, h[n].right)

UpdateHeight(h, n) ==
    [h EXCEPT ![n].height = 1 + Max({Height(h, h[n].left), Height(h, h[n].right)})]

\* The side that is too high, if one is.
HeavySide(h, n) ==
    LET balance == BalanceFactor(h, n)
    IN  IF balance > 1 THEN "left" ELSE IF balance < -1 THEN "right" ELSE "none"

\* A faulty variant: the heights are updated from the top down.
RotateTopFirst(h, n, side) ==
    LET up    == h[n][side]
        lower == DuplicateNode(h, n, side, h[up][Other(side)])
        upper == DuplicateNode(lower.heap, up, Other(side), lower.node)
    IN  Got(UpdateHeight(UpdateHeight(upper.heap, upper.node), lower.node), upper.node)

\* rotateRight for side = "left", rotateLeft for side = "right": the child on that side comes up.
Rotate(h, n, side) ==
    LET up    == h[n][side]
        lower == DuplicateNode(h, n, side, h[up][Other(side)])
        upper == DuplicateNode(lower.heap, up, Other(side), lower.node)
    IN  Got(UpdateHeight(UpdateHeight(upper.heap, lower.node), upper.node), upper.node)

\* The Left Right and the Right Left Case.
RotateTwice(h, n, side) ==
    LET inner == Rotate(h, h[n][side], Other(side))
        outer == DuplicateNode(inner.heap, n, side, inner.node)
    IN  Rotate(outer.heap, outer.node, side)

-----------------------------------------------------------------------------
(* insert_internal and delete_internal. *)

\* The four cases at the end of insert_internal; key is what finkey points to.
RebalanceInserted(h, n, key) ==
    LET side  == HeavySide(h, n)
        child == h[h[n][side]].key
    IN  IF side = "none" \/ Same(key, child) THEN Got(h, n)
        ELSE IF Side(key, child) = side THEN Rotate(h, n, side)
        ELSE RotateTwice(h, n, side)

(***************************************************************************)
(* The result also has finkey, the node whose key the caller compares when *)
(* it is out of balance, and stale: finkey was then read although a        *)
(* rotation further down had replaced that node, which frees it.           *)
(***************************************************************************)
Inserted(got, finkey, stale) ==
    [heap |-> got.heap, node |-> got.node, finkey |-> finkey, stale |-> stale]

\* What insert_internal makes of an equal key.
InsertHere(h, n, key, value, replace) ==
    LET found == IF replace THEN CreateNode(h, [h[n] EXCEPT !.key = key, !.value = value])
                 ELSE Got(h, n)
    IN  Inserted(found, found.node, FALSE)

\* What it makes of the result for the child on a side.
InsertAbove(n, side, sub) ==
    LET dup  == DuplicateNode(sub.heap, n, side, sub.node)
        high == UpdateHeight(dup.heap, dup.node)
        read == HeavySide(high, dup.node) # "none"
    IN  Inserted(RebalanceInserted(high, dup.node, high[sub.finkey].key), sub.finkey,
                 sub.stale \/ (read /\ sub.finkey \notin Reach(high, dup.node)))

InsertInternal(h, root, key, value, replace) ==
    LET leaf == CreateNode(h, [key |-> key, value |-> value, height |-> 1, left |-> Null, right |-> Null])
        insert[n \in DOMAIN h \cup {Null}] ==
            IF n = Null THEN Inserted(leaf, leaf.node, FALSE)
            ELSE IF Same(key, h[n].key) THEN InsertHere(h, n, key, value, replace)
            ELSE LET side == Side(key, h[n].key) IN InsertAbove(n, side, insert[h[n][side]])
    IN  insert[root]

MinValueNode(h, n) ==
    LET least[m \in DOMAIN h] == IF h[m].left = Null THEN m ELSE least[h[m].left]
    IN  least[n]

\* The four cases at the end of delete_internal: twice if the high child leans the other way.
RebalanceErased(h, n) ==
    LET side == HeavySide(h, n)
        lean == BalanceFactor(h, h[n][side])
    IN  IF side = "none" THEN Got(h, n)
        ELSE IF (side = "left" /\ lean < 0) \/ (side = "right" /\ lean > 0)
             THEN RotateTwice(h, n, side)
             ELSE Rotate(h, n, side)

\* What delete_internal does with a root, which may be null.
DeleteAt(r) == IF r.node = Null THEN r ELSE RebalanceErased(UpdateHeight(r.heap, r.node), r.node)

DeleteInternal(h, root, key) ==
    LET OneChild(x) == IF x.left # Null THEN x.left ELSE x.right
        WithChild(n, side, sub) == DuplicateNode(sub.heap, n, side, sub.node)
        \* duplicate_node with the height of the node replaced: the children differ, so it copies.
        WithSuccessor(x, least, sub) ==
            CreateNode(sub.heap, [x EXCEPT !.key = least.key, !.value = least.value, !.right = sub.node])
        erase[p \in (DOMAIN h \cup {Null}) \X Keys] ==
            IF p[1] = Null THEN Got(h, Null)
            ELSE LET x     == h[p[1]]
                     side  == Side(p[2], x.key)
                     least == h[MinValueNode(h, x.right)]
                 IN  DeleteAt(IF ~Same(p[2], x.key) THEN WithChild(p[1], side, erase[<<x[side], p[2]>>])
                              ELSE IF Null \in {x.left, x.right} THEN Got(h, OneChild(x))
                              ELSE WithSuccessor(x, least, erase[<<x.right, least.key>>]))
    IN  erase[<<root, key>>]

-----------------------------------------------------------------------------
(* Iterators: _levels, the path from the root to the node they are at; empty at the end. *)

\* The path from n down on one side.
Descend(h, n, side) ==
    LET path[m \in DOMAIN h \cup {Null}] == IF m = Null THEN <<>> ELSE <<m>> \o path[h[m][side]]
    IN  path[n]

\* Up to the first node that is reached from its other side.
Climb(h, levels, side) ==
    SubSeq(levels, 1, Max({0} \cup {i \in 1 .. Len(levels) - 1 : h[levels[i]][Other(side)] = levels[i + 1]}))

\* go_right for side = "right", go_left for side = "left", not at the end.
Go(h, levels, side) ==
    LET child == h[levels[Len(levels)]][side]
    IN  IF child # Null THEN levels \o Descend(h, child, Other(side)) ELSE Climb(h, levels, side)

GoRight(h, levels) == IF levels = <<>> THEN <<>> ELSE Go(h, levels, "right")

GoLeft(h, root, levels) == IF levels = <<>> THEN Descend(h, root, "right") ELSE Go(h, levels, "left")

Begin(h, root) == Descend(h, root, "left")

Search(h, root, key) ==
    LET path[n \in DOMAIN h \cup {Null}] ==
            IF n = Null THEN <<>>
            ELSE IF Same(key, h[n].key) THEN <<n>>
            ELSE <<n>> \o path[h[n][Side(key, h[n].key)]]
    IN  path[root]

\* A faulty variant: lower_bound stays where the search ends.
BoundStays(h, root, key, upper) ==
    LET levels == Search(h, root, key)
    IN  IF levels # <<>> /\ Same(key, h[levels[Len(levels)]].key) /\ upper
        THEN GoLeft(h, root, levels) ELSE levels

\* The iterator that lower_bound and upper_bound construct.
Bound(h, root, key, upper) ==
    LET levels == Search(h, root, key)
        last   == h[levels[Len(levels)]].key
    IN  IF levels = <<>> THEN <<>>
        ELSE IF Same(key, last) THEN IF upper THEN GoLeft(h, root, levels) ELSE levels
        ELSE IF Less(last, key) /\ ~upper THEN GoRight(h, levels)
        ELSE levels

\* The keys at which an iterator is: none at the end.
At(h, levels) == IF levels = <<>> THEN {} ELSE {h[levels[Len(levels)]].key}

Find(h, root, key) ==
    LET levels == Bound(h, root, key, FALSE)
    IN  IF \E k \in At(h, levels) : Less(key, k) THEN <<>> ELSE levels

-----------------------------------------------------------------------------
(* The calls. *)

\* Nodes that no root reaches are freed, the others get their addresses.
Settle(h, rs) ==
    \E reach \in {UNION {{c} \X Reach(h, rs[c]) : c \in Copies}} :
        LET held    == {r[2] : r \in reach}
            Name(n) == IF n = Null THEN Null ELSE <<Min({c \in Copies : <<c, n>> \in reach}), h[n].key>>
        IN  /\ roots' = [c \in Copies |-> Name(rs[c])]
            /\ heap' = [a \in {Name(n) : n \in held} |->
                           LET n == CHOOSE m \in held : h[m].key = a[2] /\ Name(m) = a
                           IN  [h[n] EXCEPT !.left = Name(@), !.right = Name(@)]]

\* The end of insert, replace and erase: the new root is stored if it is another one.
Assign(c, result) ==
    /\ changed' = (result.node # roots[c])
    /\ Settle(result.heap, [roots EXCEPT ![c] = result.node])

Init ==
    /\ heap = <<>>
    /\ roots = [c \in Copies |-> Null]
    /\ changed = FALSE
    /\ dangling = FALSE

\* insert for replacing = FALSE, replace for replacing = TRUE.
Insert(c, key, value, replacing) ==
    \E result \in {InsertInternal(heap, roots[c], key, value, replacing)} :
        /\ Assign(c, result)
        /\ dangling' = (dangling \/ result.stale)

Erase(c, key) ==
    \E result \in {DeleteInternal(heap, roots[c], key)} :
        /\ Assign(c, result)
        /\ UNCHANGED dangling

\* The copy constructor or assignment: the nodes are shared.
Copy(from, to) ==
    /\ Settle(heap, [roots EXCEPT ![to] = roots[from]])
    /\ UNCHANGED <<changed, dangling>>

Next ==
    \E c \in Copies :
        \/ \E item \in Items, replacing \in BOOLEAN : Insert(c, item[1], item[2], replacing)
        \/ \E key \in Keys : Erase(c, key)
        \/ \E to \in Copies \ {c} : Copy(c, to)

Spec == Init /\ [][Next]_vars

-----------------------------------------------------------------------------
(* Properties. *)

\* The map that the nodes from root on hold.
Contents(root) ==
    LET nodes == Reach(heap, root)
    IN  [key \in {heap[n].key : n \in nodes} |-> heap[CHOOSE n \in nodes : heap[n].key = key].value]

\* Every node has the fields of Node and a height of at least one, and every address held is a node's.
TypeOK ==
    /\ \A n \in DOMAIN heap : heap[n] \in Node /\ heap[n].height > 0
    /\ roots \in [Copies -> DOMAIN heap \cup {Null}]
    /\ {heap[n].left : n \in DOMAIN heap} \cup {heap[n].right : n \in DOMAIN heap}
           \subseteq DOMAIN heap \cup {Null}
    /\ changed \in BOOLEAN /\ dangling \in BOOLEAN

(***************************************************************************)
(* Every version of the tree, old ones included, is a search tree whose    *)
(* stored heights are right and differ by at most one between siblings:    *)
(* erase can need a rotation at every level, and heights are assigned in   *)
(* nodes that other versions may share.                                    *)
(***************************************************************************)
Balanced ==
    \A n \in DOMAIN heap :
        /\ \A m \in Reach(heap, heap[n].left)  : Less(heap[m].key, heap[n].key)
        /\ \A m \in Reach(heap, heap[n].right) : Less(heap[n].key, heap[m].key)
        /\ UpdateHeight(heap, n) = heap
        /\ HeavySide(heap, n) = "none"

(***************************************************************************)
(* insert_internal compares *finkey on the way up to choose a rotation.    *)
(* The node finkey points into is replaced by an inner rotation; it must   *)
(* not be read again after that, so an insertion rotates at one level only.*)
(***************************************************************************)
FinkeyAlive == ~dangling

(***************************************************************************)
(* The copies are independent sorted maps although they share nodes, and   *)
(* the calls return what maps would: insert and erase whether they changed *)
(* anything, replace always true.                                          *)
(***************************************************************************)
Maps == INSTANCE MapCopies WITH maps <- [c \in Copies |-> Contents(roots[c])]
RefinesMapCopies == Maps!Spec

\* The iterator at a key, of at most one key, and the end for none.
Located(root, keys) == UNION {{Find(heap, root, key) : key \in keys}, {<<>> : none \in {keys} \cap {{}}}}

(***************************************************************************)
(* An iterator goes through the keys in order, forth from begin and back   *)
(* from end, with no parent links: from each key it goes to the next and   *)
(* to the previous one, by the levels that find gives it there.  find and  *)
(* lower_bound find what a sorted map has, and upper_bound one of the keys *)
(* that SortedMap allows, on which OrderBook's trim is built.              *)
(***************************************************************************)
IteratorsFollowMap ==
    \A c \in Copies :
        LET root == roots[c]
            map  == Contents(root)
        IN  /\ {Begin(heap, root)} = Located(root, Map!First(map))
            /\ {GoLeft(heap, root, <<>>)} = Located(root, Map!Greatest(DOMAIN map))
            /\ \A key \in DOMAIN map :
                   LET levels == Find(heap, root, key)
                   IN  /\ {GoRight(heap, levels)} = Located(root, Map!Least(Map!After(map, key)))
                       /\ {GoLeft(heap, root, levels)} = Located(root, Map!Greatest(Map!Before(map, key)))
            /\ \A key \in Keys :
                   /\ At(heap, Find(heap, root, key)) = Map!Find(map, key)
                   /\ At(heap, Bound(heap, root, key, FALSE)) = Map!LowerBound(map, key)
                   /\ At(heap, Bound(heap, root, key, TRUE)) \in Map!UpperBounds(map, key)
=============================================================================
