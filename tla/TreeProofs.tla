---------------------------- MODULE TreeProofs ----------------------------
(***************************************************************************)
(* Proofs about WanderingTree: every operation builds balanced search      *)
(* trees from balanced search trees and leaves those it was given alone.   *)
(* A tree is known by its height and its items, the pairs of a key and a   *)
(* value that its nodes hold; recursive definitions are reasoned about by  *)
(* the height of the node they are at.                                     *)
(***************************************************************************)
EXTENDS WanderingTree, TLAPS, WellFoundedInduction, FiniteSetTheorems

-----------------------------------------------------------------------------
(* The nodes from a node down: the least set of nodes that is closed       *)
(* under children and has it.                                              *)

Nodes(h) == DOMAIN h \cup {Null}

Down(h, C) == \A m \in C : h[m].left \in C \cup {Null} /\ h[m].right \in C \cup {Null}

Sub(h, n) == {m \in DOMAIN h : \A C \in SUBSET DOMAIN h : Down(h, C) /\ n \in C \cup {Null} => m \in C}

Record(x) == x = [key |-> x.key, value |-> x.value, height |-> x.height, left |-> x.left, right |-> x.right]

\* A heap: no address held leads out of it.
Closed(h) ==
  /\ h = [m \in DOMAIN h |-> h[m]] /\ \A m \in DOMAIN h : Record(h[m])
  /\ Null \notin DOMAIN h /\ Down(h, DOMAIN h)

\* Nothing is below no node.
LEMMA SubNull ==
  ASSUME NEW h
  PROVE  Sub(h, Null) = {}
<1>1. {} \in SUBSET DOMAIN h /\ Down(h, {}) /\ Null \in {} \cup {Null}
  BY DEF Down
<1> QED
  BY <1>1 DEF Sub

\* The nodes from n down are closed under children, and n is one of them.
LEMMA SubDown ==
  ASSUME NEW h, Closed(h), NEW n \in Nodes(h)
  PROVE  Sub(h, n) \in SUBSET DOMAIN h /\ Down(h, Sub(h, n)) /\ n \in Sub(h, n) \cup {Null}
<1>1. Null \notin DOMAIN h /\ Down(h, DOMAIN h)
  BY DEF Closed
<1>2. ASSUME NEW m \in Sub(h, n), NEW k, k = h[m].left \/ k = h[m].right
      PROVE  k \in Sub(h, n) \cup {Null}
  <2>1. m \in DOMAIN h /\ k \in Nodes(h)
    BY <1>1, <1>2 DEF Sub, Down, Nodes
  <2> SUFFICES ASSUME k # Null PROVE k \in Sub(h, n)
    OBVIOUS
  <2> SUFFICES ASSUME NEW C \in SUBSET DOMAIN h, Down(h, C), n \in C \cup {Null} PROVE k \in C
    BY <2>1 DEF Sub, Nodes
  <2>2. m \in C
    BY DEF Sub
  <2> QED
    BY <1>2, <2>2 DEF Down
<1>3. n # Null => n \in Sub(h, n)
  BY DEF Sub, Nodes
<1> QED
  BY <1>2, <1>3 DEF Sub, Down

\* They are the least such set.
LEMMA SubLeast ==
  ASSUME NEW h, NEW n, NEW C \in SUBSET DOMAIN h, Down(h, C), n \in C \cup {Null}
  PROVE  Sub(h, n) \subseteq C
BY DEF Sub

\* The nodes from a node down are it and those from its children down.
LEMMA SubNode ==
  ASSUME NEW h, Closed(h), NEW n \in DOMAIN h
  PROVE  /\ Sub(h, n) = {n} \cup Sub(h, h[n].left) \cup Sub(h, h[n].right)
         /\ h[n].left \in Nodes(h) /\ h[n].right \in Nodes(h)
<1> DEFINE C == {n} \cup Sub(h, h[n].left) \cup Sub(h, h[n].right)
<1>1. h[n].left \in Nodes(h) /\ h[n].right \in Nodes(h) /\ n # Null
  BY DEF Closed, Down, Nodes
<1>2. /\ Sub(h, h[n].left) \in SUBSET DOMAIN h /\ Down(h, Sub(h, h[n].left))
      /\ h[n].left \in Sub(h, h[n].left) \cup {Null}
  BY <1>1, SubDown
<1>3. /\ Sub(h, h[n].right) \in SUBSET DOMAIN h /\ Down(h, Sub(h, h[n].right))
      /\ h[n].right \in Sub(h, h[n].right) \cup {Null}
  BY <1>1, SubDown
<1>4. C \in SUBSET DOMAIN h /\ Down(h, C) /\ n \in C \cup {Null}
  BY <1>2, <1>3 DEF Down
<1>5. Sub(h, n) \subseteq C
  BY <1>4, SubLeast
<1>6. /\ Sub(h, n) \in SUBSET DOMAIN h /\ Down(h, Sub(h, n)) /\ n \in Sub(h, n)
  BY <1>1, SubDown DEF Nodes
<1>7. Sub(h, h[n].left) \subseteq Sub(h, n)
  BY <1>6, SubLeast DEF Down
<1>8. Sub(h, h[n].right) \subseteq Sub(h, n)
  BY <1>6, SubLeast DEF Down
<1> QED
  BY <1>1, <1>5, <1>6, <1>7, <1>8

\* What is below a node of a tree is in the tree.
LEMMA SubOfSub ==
  ASSUME NEW h, Closed(h), NEW n \in Nodes(h), NEW m \in Sub(h, n)
  PROVE  Sub(h, m) \subseteq Sub(h, n) /\ m \in DOMAIN h
<1>1. Sub(h, n) \in SUBSET DOMAIN h /\ Down(h, Sub(h, n))
  BY SubDown
<1> QED
  BY <1>1, SubLeast

\* A heap with the same nodes as another, and maybe more.
Extends(h, g) == DOMAIN h \subseteq DOMAIN g /\ \A m \in DOMAIN h : g[m] = h[m]

\* In such a heap every tree has the nodes it had.
LEMMA SubFrame ==
  ASSUME NEW h, Closed(h), NEW g, Closed(g), Extends(h, g), NEW n \in Nodes(h)
  PROVE  Sub(g, n) = Sub(h, n) /\ n \in Nodes(g)
<1>1. Sub(h, n) \in SUBSET DOMAIN h /\ Down(h, Sub(h, n)) /\ n \in Sub(h, n) \cup {Null}
  BY SubDown
<1>2. Sub(h, n) \in SUBSET DOMAIN g /\ Down(g, Sub(h, n))
  BY <1>1 DEF Extends, Down
<1>3. Sub(g, n) \subseteq Sub(h, n)
  BY <1>1, <1>2, SubLeast
<1>4. n \in Nodes(g)
  BY DEF Nodes, Extends
<1>5. Sub(g, n) \in SUBSET DOMAIN g /\ Down(g, Sub(g, n)) /\ n \in Sub(g, n) \cup {Null}
  BY <1>4, SubDown
<1>6. Sub(g, n) \in SUBSET DOMAIN h /\ Down(h, Sub(g, n))
  BY <1>1, <1>3, <1>5 DEF Extends, Down
<1> QED
  BY <1>3, <1>4, <1>5, <1>6, SubLeast

-----------------------------------------------------------------------------
(* Balanced search trees. *)

\* The height of a node above trees of these heights.
Above(a, b) == 1 + (IF a > b THEN a ELSE b)

ItemsOf(h, n) == {<<h[m].key, h[m].value>> : m \in Sub(h, n)}

\* The order of the keys, read towards a side.
Before(side, a, b) == IF side = "left" THEN Less(a, b) ELSE Less(b, a)

\* Do the items belong on a side of a key?
Beside(side, I, key) == \A i \in I : Before(side, i[1], key)

Sides == {"left", "right"}

Near(a, b) == a <= b + 1 /\ b <= a + 1

\* What a node knows of its children: its height, and that they are balanced and in order.
Local(h, m) ==
  /\ h[m].key \in Keys /\ h[m].value \in Values /\ h[m].height \in Nat
  /\ h[m].height = Above(Height(h, h[m].left), Height(h, h[m].right))
  /\ Near(Height(h, h[m].left), Height(h, h[m].right))
  /\ Beside("left", ItemsOf(h, h[m].left), h[m].key) /\ Beside("right", ItemsOf(h, h[m].right), h[m].key)

AVL(h, n) == n \in Nodes(h) /\ \A m \in Sub(h, n) : Local(h, m)

\* The nodes from n down are a balanced search tree of this height with these items.
Tree(h, n, H, I) == AVL(h, n) /\ H = Height(h, n) /\ I = ItemsOf(h, n)

\* The heights and the items of trees, and when a tree is empty.
LEMMA TreeParts ==
  ASSUME NEW h, Closed(h), NEW n, NEW H, NEW I, Tree(h, n, H, I)
  PROVE  /\ n \in Nodes(h) /\ H \in Nat /\ I \in SUBSET (Keys \X Values)
         /\ n = Null <=> H = 0
         /\ n = Null <=> I = {}
<1>1. n \in Nodes(h) /\ \A m \in Sub(h, n) : Local(h, m)
  BY DEF Tree, AVL
<1>2. CASE n = Null
  BY <1>2, <1>1, SubNull DEF Tree, Height, ItemsOf
<1>3. CASE n # Null
  <2>1. n \in DOMAIN h /\ n \in Sub(h, n)
    BY <1>1, <1>3, SubDown DEF Nodes
  <2>2. h[n].left \in Nodes(h) /\ h[n].right \in Nodes(h)
    BY <2>1, SubNode
  <2>3. \A m \in Sub(h, n) : h[m].key \in Keys /\ h[m].value \in Values /\ h[m].height \in Nat
    BY <1>1 DEF Local
  <2>4. \A k \in Nodes(h) : k \in Sub(h, n) \cup {Null} => Height(h, k) \in Nat
    BY <2>3 DEF Height
  <2>5. Height(h, h[n].left) \in Nat /\ Height(h, h[n].right) \in Nat
    BY <2>1, <2>2, <2>4, SubDown DEF Down, Nodes
  <2>6. h[n].height = Above(Height(h, h[n].left), Height(h, h[n].right))
    BY <1>1, <2>1 DEF Local
  <2>7. h[n].height > 0 /\ h[n].height \in Nat
    BY <2>5, <2>6 DEF Above
  <2>8. H = h[n].height
    BY <1>3 DEF Tree, Height
  <2>9. I = {<<h[m].key, h[m].value>> : m \in Sub(h, n)}
    BY DEF Tree, ItemsOf
  <2>10. I \in SUBSET (Keys \X Values)
    BY <2>3, <2>9
  <2>11. I # {}
    BY <2>1, <2>9
  <2> QED
    BY <1>1, <1>3, <2>7, <2>8, <2>10, <2>11
<1> QED
  BY <1>2, <1>3

\* The empty tree.
LEMMA TreeNull ==
  ASSUME NEW h
  PROVE  Tree(h, Null, 0, {})
BY SubNull DEF Tree, AVL, Height, ItemsOf, Nodes

\* Two trees, with a node between them, are a tree.
LEMMA Join ==
  ASSUME NEW h, Closed(h), NEW n \in DOMAIN h, h[n].key \in Keys, h[n].value \in Values,
         NEW a, NEW A, Tree(h, h[n].left, a, A), NEW b, NEW B, Tree(h, h[n].right, b, B),
         Near(a, b), h[n].height = Above(a, b),
         Beside("left", A, h[n].key), Beside("right", B, h[n].key)
  PROVE  Tree(h, n, Above(a, b), A \cup B \cup {<<h[n].key, h[n].value>>})
<1>1. n # Null /\ n \in Nodes(h)
  BY DEF Closed, Nodes
<1>2. Sub(h, n) = {n} \cup Sub(h, h[n].left) \cup Sub(h, h[n].right)
  BY SubNode
<1>3. a \in Nat /\ b \in Nat
  BY TreeParts
<1>4. Local(h, n)
  BY <1>3 DEF Local, Tree, Above
<1>5. \A m \in Sub(h, h[n].left) \cup Sub(h, h[n].right) : Local(h, m)
  BY DEF Tree, AVL
<1>6. AVL(h, n)
  BY <1>1, <1>2, <1>4, <1>5 DEF AVL
<1>7. ItemsOf(h, n) = A \cup B \cup {<<h[n].key, h[n].value>>}
  BY <1>2 DEF Tree, ItemsOf
<1>8. Height(h, n) = Above(a, b)
  BY <1>1 DEF Height
<1> QED
  BY <1>6, <1>7, <1>8 DEF Tree

\* The same, by side.
LEMMA JoinSides ==
  ASSUME NEW h, Closed(h), NEW n \in DOMAIN h, h[n].key \in Keys, h[n].value \in Values, NEW side \in Sides,
         NEW a, NEW A, Tree(h, h[n][side], a, A), NEW b, NEW B, Tree(h, h[n][Other(side)], b, B),
         Near(a, b), h[n].height = Above(a, b),
         Beside(side, A, h[n].key), Beside(Other(side), B, h[n].key)
  PROVE  Tree(h, n, Above(a, b), A \cup B \cup {<<h[n].key, h[n].value>>})
<1>0. a \in Nat /\ b \in Nat
  BY TreeParts
<1>1. CASE side = "left"
  BY <1>1, Join DEF Other
<1>2. CASE side = "right"
  <2>1. Above(a, b) = Above(b, a) /\ Near(b, a)
    BY <1>0 DEF Above, Near
  <2>2. Tree(h, h[n].left, b, B) /\ Tree(h, h[n].right, a, A) /\ Beside("left", B, h[n].key) /\ Beside("right", A, h[n].key)
    BY <1>2 DEF Other
  <2>3. Tree(h, n, Above(b, a), B \cup A \cup {<<h[n].key, h[n].value>>})
    BY <2>1, <2>2, Join
  <2>4. B \cup A \cup {<<h[n].key, h[n].value>>} = A \cup B \cup {<<h[n].key, h[n].value>>}
    OBVIOUS
  <2> QED
    BY <2>1, <2>3, <2>4
<1> QED
  BY <1>1, <1>2 DEF Sides

\* A tree that is not empty has a tree on each side of its root.
LEMMA Split ==
  ASSUME NEW h, Closed(h), NEW n \in DOMAIN h, AVL(h, n), NEW side \in Sides,
         NEW l, l = h[n][side], NEW r, r = h[n][Other(side)]
  PROVE  /\ Tree(h, l, Height(h, l), ItemsOf(h, l)) /\ Tree(h, r, Height(h, r), ItemsOf(h, r))
         /\ Near(Height(h, l), Height(h, r)) /\ h[n].height = Above(Height(h, l), Height(h, r))
         /\ Beside(side, ItemsOf(h, l), h[n].key) /\ Beside(Other(side), ItemsOf(h, r), h[n].key)
         /\ h[n].key \in Keys /\ h[n].value \in Values /\ Height(h, n) = h[n].height
         /\ ItemsOf(h, n) = ItemsOf(h, l) \cup ItemsOf(h, r) \cup {<<h[n].key, h[n].value>>}
<1>1. /\ Sub(h, n) = {n} \cup Sub(h, h[n].left) \cup Sub(h, h[n].right)
      /\ h[n].left \in Nodes(h) /\ h[n].right \in Nodes(h)
  BY SubNode
<1>2. \A m \in Sub(h, n) : Local(h, m)
  BY DEF AVL
<1>3. Tree(h, h[n].left, Height(h, h[n].left), ItemsOf(h, h[n].left))
  BY <1>1, <1>2 DEF Tree, AVL
<1>4. Tree(h, h[n].right, Height(h, h[n].right), ItemsOf(h, h[n].right))
  BY <1>1, <1>2 DEF Tree, AVL
<1>5. Height(h, h[n].left) \in Nat /\ Height(h, h[n].right) \in Nat
  BY <1>3, <1>4, TreeParts
<1>6. Local(h, n)
  BY <1>1, <1>2
<1>7. Height(h, n) = h[n].height
  BY DEF Closed, Height
<1>8. ItemsOf(h, n) = ItemsOf(h, h[n].left) \cup ItemsOf(h, h[n].right) \cup {<<h[n].key, h[n].value>>}
  BY <1>1 DEF ItemsOf
<1>9. CASE side = "left"
  BY <1>3, <1>4, <1>6, <1>7, <1>8, <1>9 DEF Local, Other
<1>10. CASE side = "right"
  <2>1. l = h[n].right /\ r = h[n].left
    BY <1>10 DEF Other
  <2>2. Above(Height(h, l), Height(h, r)) = Above(Height(h, r), Height(h, l))
    BY <1>5, <2>1 DEF Above
  <2>3. Near(Height(h, l), Height(h, r))
    BY <1>6, <2>1 DEF Local, Near
  <2> QED
    BY <1>3, <1>4, <1>6, <1>7, <1>8, <1>10, <2>1, <2>2, <2>3 DEF Local, Other
<1> QED
  BY <1>9, <1>10 DEF Sides

\* A tree is still there in a heap with more nodes.
LEMMA TreeFrame ==
  ASSUME NEW h, Closed(h), NEW g, Closed(g), Extends(h, g), NEW n, NEW H, NEW I, Tree(h, n, H, I)
  PROVE  Tree(g, n, H, I)
<1>1. n \in Nodes(h) /\ \A m \in Sub(h, n) : Local(h, m)
  BY DEF Tree, AVL
<1>2. \A k \in Nodes(h) : Sub(g, k) = Sub(h, k) /\ k \in Nodes(g) /\ Sub(h, k) \in SUBSET DOMAIN h
  BY SubFrame, SubDown
<1>3. \A k \in Nodes(h) : ItemsOf(g, k) = ItemsOf(h, k)
  BY <1>2 DEF ItemsOf, Extends
<1>4. \A k \in Nodes(h) : Height(g, k) = Height(h, k)
  BY DEF Height, Extends, Nodes
<1>5. ASSUME NEW m \in Sub(h, n)
      PROVE  Local(g, m)
  <2>1. m \in DOMAIN h /\ g[m] = h[m]
    BY <1>1, <1>2 DEF Extends
  <2>2. h[m].left \in Nodes(h) /\ h[m].right \in Nodes(h)
    BY <2>1, SubNode
  <2> QED
    BY <1>1, <1>3, <1>4, <2>1, <2>2 DEF Local
<1>6. AVL(g, n)
  BY <1>1, <1>2, <1>5 DEF AVL
<1> QED
  BY <1>1, <1>3, <1>4, <1>6 DEF Tree

-----------------------------------------------------------------------------
(* The heap during a call: the nodes created have the addresses <<0, 1>>,  *)
(* <<0, 2>> and so on.                                                     *)

Created(h) == {m \in DOMAIN h : m[1] = 0}
Numbered(k) == {<<0, i>> : i \in 1 .. k}

Sane(h) == Closed(h) /\ \E k \in Nat : Created(h) = Numbered(k)

\* As many nodes as there are numbers.
LEMMA CountNumbered ==
  ASSUME NEW k \in Nat
  PROVE  Cardinality(Numbered(k)) = k
<1> DEFINE number == [i \in 1 .. k |-> <<0, i>>]
<1>1. number \in Bijection(1 .. k, Numbered(k))
  BY DEF Bijection, Injection, Surjection, IsInjective, Numbered
<1> QED
  BY <1>1, FS_CountingElements DEF ExistsBijection

\* The larger of two numbers.
LEMMA MaxAbove ==
  ASSUME NEW a \in Nat, NEW b \in Nat
  PROVE  1 + Max({a, b}) = Above(a, b)
<1> DEFINE larger == IF a > b THEN a ELSE b
<1>1. larger \in {a, b} /\ \A y \in {a, b} : larger >= y
  OBVIOUS
<1>2. \A x \in {a, b} : (\A y \in {a, b} : x >= y) => x = larger
  OBVIOUS
<1>3. Max({a, b}) = larger
  BY <1>1, <1>2 DEF Max
<1> QED
  BY <1>3 DEF Above

\* Heights.
LEMMA AboveNat ==
  ASSUME NEW a \in Nat, NEW b \in Nat
  PROVE  /\ Above(a, b) \in Nat /\ Above(a, b) = Above(b, a)
         /\ Above(a, b) # a /\ Above(a, b) # b
         /\ Near(a, b) => Near(b, a)
BY DEF Above, Near

\* A heap with one node more.
Added(h, g, n, x) ==
  /\ Sane(g) /\ Extends(h, g) /\ n \notin Nodes(h) /\ n # Null
  /\ DOMAIN g = DOMAIN h \cup {n} /\ g[n] = x

\* What CreateNode does: the node is a new one.
LEMMA Creates ==
  ASSUME NEW h, Sane(h), NEW x, Record(x), x.left \in Nodes(h), x.right \in Nodes(h), NEW r, r = CreateNode(h, x)
  PROVE  Added(h, r.heap, r.node, x)
<1>1. PICK k \in Nat : Created(h) = Numbered(k)
  BY DEF Sane
<1> DEFINE n == <<0, k + 1>>
           g == [m \in DOMAIN h \cup {n} |-> IF m = n THEN x ELSE h[m]]
<1>2. r.node = n /\ r.heap = g
  <2>1. Cardinality({m \in DOMAIN h : m[1] = 0}) = k
    BY <1>1, CountNumbered DEF Created
  <2>2. 1 + k = k + 1
    OBVIOUS
  <2>3. r = Got(Map!With(h, n, x), n)
    BY <2>1, <2>2 DEF CreateNode
  <2> QED
    BY <2>3 DEF Got, Map!With
<1>3. n \notin DOMAIN h
  <2>1. n \notin Numbered(k)
    BY DEF Numbered
  <2> QED
    BY <1>1, <2>1 DEF Created
<1>4. n # Null /\ n \notin Nodes(h)
  BY <1>3 DEF Null, Nodes
<1>5. Extends(h, g) /\ DOMAIN g = DOMAIN h \cup {n} /\ g[n] = x
  BY <1>3 DEF Extends
<1>6. Created(g) = Numbered(k + 1)
  <2>1. Created(g) = Created(h) \cup {n}
    BY DEF Created
  <2>2. \A i : i \in 1 .. k + 1 <=> i \in 1 .. k \/ i = k + 1
    OBVIOUS
  <2>3. Numbered(k + 1) = Numbered(k) \cup {n}
    BY <2>2 DEF Numbered
  <2> QED
    BY <1>1, <2>1, <2>3
<1>7. Closed(g)
  <2>1. Closed(h)
    BY DEF Sane
  <2>2. \A m \in DOMAIN g : Record(g[m])
    BY <1>5, <2>1 DEF Closed
  <2>3. Null \notin DOMAIN g /\ g = [m \in DOMAIN g |-> g[m]]
    BY <1>4, <2>1 DEF Closed
  <2>4. Down(g, DOMAIN g)
    BY <1>5, <2>1 DEF Closed, Down, Extends, Nodes
  <2> QED
    BY <2>2, <2>3, <2>4 DEF Closed
<1>8. k + 1 \in Nat
  OBVIOUS
<1> HIDE DEF n, g
<1> QED
  BY <1>2, <1>4, <1>5, <1>6, <1>7, <1>8 DEF Added, Sane

\* The record of a node with another child.
LEMMA RecordChild ==
  ASSUME NEW x, Record(x), NEW side \in Sides, NEW child, NEW y, y = [x EXCEPT ![side] = child]
  PROVE  /\ Record(y) /\ y[side] = child /\ y[Other(side)] = x[Other(side)]
         /\ y.key = x.key /\ y.value = x.value /\ y.height = x.height
         /\ y.left \in {x.left, child} /\ y.right \in {x.right, child}
BY DEF Record, Sides, Other

\* What DuplicateNode does: nothing if the child is the one that is there.
LEMMA Duplicates ==
  ASSUME NEW h, Sane(h), NEW n \in DOMAIN h, NEW side \in Sides, NEW child \in Nodes(h),
         NEW r, r = DuplicateNode(h, n, side, child)
  PROVE  /\ child = h[n][side] => r.heap = h /\ r.node = n
         /\ child # h[n][side] => Added(h, r.heap, r.node, [h[n] EXCEPT ![side] = child])
<1>1. CASE h[n][side] = child
  BY <1>1 DEF DuplicateNode, Got
<1>2. CASE h[n][side] # child
  <2> DEFINE y == [h[n] EXCEPT ![side] = child]
  <2>1. r = CreateNode(h, y)
    BY <1>2 DEF DuplicateNode
  <2>2. Record(h[n]) /\ h[n].left \in Nodes(h) /\ h[n].right \in Nodes(h)
    BY DEF Sane, Closed, Down, Nodes
  <2>3. Record(y) /\ y.left \in {h[n].left, child} /\ y.right \in {h[n].right, child}
    BY <2>2, RecordChild
  <2> HIDE DEF y
  <2>4. Added(h, r.heap, r.node, y)
    BY <2>1, <2>2, <2>3, Creates
  <2> QED
    BY <1>2, <2>4 DEF y
<1> QED
  BY <1>1, <1>2

\* What UpdateHeight does: the other nodes, and the other fields, stay.
LEMMA Updates ==
  ASSUME NEW h, Sane(h), NEW n \in DOMAIN h, NEW a \in Nat, NEW b \in Nat, NEW side \in Sides,
         a = Height(h, h[n][side]), b = Height(h, h[n][Other(side)]), NEW g, g = UpdateHeight(h, n)
  PROVE  /\ Sane(g) /\ DOMAIN g = DOMAIN h /\ \A m \in DOMAIN h : m # n => g[m] = h[m]
         /\ g[n].height = Above(a, b) /\ g[n].key = h[n].key /\ g[n].value = h[n].value
         /\ g[n].left = h[n].left /\ g[n].right = h[n].right
         /\ h[n].height = Above(a, b) => g = h
<1>1. Closed(h) /\ Record(h[n])
  BY DEF Sane, Closed
<1>2. 1 + Max({Height(h, h[n].left), Height(h, h[n].right)}) = Above(a, b)
  <2>1. CASE side = "left"
    BY <2>1, MaxAbove DEF Other
  <2>2. CASE side = "right"
    <3>1. Above(a, b) = Above(b, a)
      BY DEF Above
    <3> QED
      BY <2>2, <3>1, MaxAbove DEF Other
  <2> QED
    BY <2>1, <2>2 DEF Sides
<1>3. g = [h EXCEPT ![n].height = Above(a, b)]
  BY <1>2 DEF UpdateHeight
<1>4. DOMAIN g = DOMAIN h /\ \A m \in DOMAIN h : m # n => g[m] = h[m]
  BY <1>1, <1>3 DEF Closed
<1>5. g[n] = [h[n] EXCEPT !.height = Above(a, b)]
  BY <1>1, <1>3 DEF Closed
<1>6. /\ g[n].height = Above(a, b) /\ g[n].key = h[n].key /\ g[n].value = h[n].value
      /\ g[n].left = h[n].left /\ g[n].right = h[n].right /\ Record(g[n])
  BY <1>1, <1>5 DEF Record
<1>7. Closed(g)
  <2>1. \A m \in DOMAIN g : Record(g[m])
    BY <1>1, <1>4, <1>6 DEF Closed
  <2>2. Down(g, DOMAIN g)
    BY <1>1, <1>4, <1>6 DEF Closed, Down
  <2>3. g = [m \in DOMAIN g |-> g[m]]
    BY <1>3
  <2> QED
    BY <1>1, <1>4, <2>1, <2>2, <2>3 DEF Closed
<1>8. Sane(g)
  BY <1>4, <1>7 DEF Sane, Created
<1>9. ASSUME h[n].height = Above(a, b)
      PROVE  g = h
  <2>1. g[n] = h[n]
    BY <1>1, <1>5, <1>9 DEF Record
  <2> QED
    BY <1>1, <1>3, <1>4, <2>1 DEF Closed
<1> QED
  BY <1>4, <1>6, <1>8, <1>9

-----------------------------------------------------------------------------
(* Rotations. *)

\* The other side of the other side.
LEMMA OtherSide ==
  ASSUME NEW side \in Sides
  PROVE  Other(side) \in Sides /\ Other(Other(side)) = side /\ Other(side) # side
BY DEF Sides, Other

\* A node with the key and the value of another, a height, and children on a side and on the other.
Holds(h, n, old, H, side, l, r) ==
  /\ n \in DOMAIN h /\ h[n].key = old.key /\ h[n].value = old.value /\ h[n].height = H
  /\ h[n][side] = l /\ h[n][Other(side)] = r

\* A copy of a node with another child has this shape.
LEMMA AddedHolds ==
  ASSUME NEW h, Sane(h), NEW n \in DOMAIN h, NEW side \in Sides, NEW child, NEW g, NEW m,
         Added(h, g, m, [h[n] EXCEPT ![side] = child])
  PROVE  Sane(g) /\ Extends(h, g) /\ m \notin Nodes(h) /\ m # Null /\ Holds(g, m, h[n], h[n].height, side, child, h[n][Other(side)])
<1>1. Record(h[n])
  BY DEF Sane, Closed
<1> DEFINE y == [h[n] EXCEPT ![side] = child]
<1>2. y[side] = child /\ y[Other(side)] = h[n][Other(side)] /\ y.key = h[n].key /\ y.value = h[n].value /\ y.height = h[n].height
  BY <1>1 DEF Record, Sides, Other
<1> HIDE DEF y
<1>3. Added(h, g, m, y)
  BY DEF y
<1> QED
  BY <1>2, <1>3 DEF Added, Holds

\* UpdateHeight by side: the node has the shape it had, but the right height.
LEMMA UpdatesHolds ==
  ASSUME NEW h, Sane(h), NEW n, NEW old, NEW H, NEW side \in Sides, NEW l, NEW r, Holds(h, n, old, H, side, l, r),
         NEW a \in Nat, a = Height(h, l), NEW b \in Nat, b = Height(h, r), NEW g, g = UpdateHeight(h, n)
  PROVE  /\ Sane(g) /\ Holds(g, n, old, Above(a, b), side, l, r)
         /\ DOMAIN g = DOMAIN h /\ \A m \in DOMAIN h : m # n => g[m] = h[m]
         /\ H = Above(a, b) => g = h
<1>1. n \in DOMAIN h /\ l = h[n][side] /\ r = h[n][Other(side)] /\ H = h[n].height /\ h[n].key = old.key /\ h[n].value = old.value
  BY DEF Holds
<1>2. /\ Sane(g) /\ DOMAIN g = DOMAIN h /\ \A m \in DOMAIN h : m # n => g[m] = h[m]
      /\ g[n].height = Above(a, b) /\ g[n].key = h[n].key /\ g[n].value = h[n].value
      /\ g[n].left = h[n].left /\ g[n].right = h[n].right
      /\ h[n].height = Above(a, b) => g = h
  BY <1>1, Updates
<1>3. g[n][side] = h[n][side] /\ g[n][Other(side)] = h[n][Other(side)]
  BY <1>2 DEF Sides, Other
<1> QED
  BY <1>1, <1>2, <1>3 DEF Holds

\* The shape of a node that another heap has too.
LEMMA HoldsFrame ==
  ASSUME NEW h, NEW g, Extends(h, g), NEW n, NEW old, NEW H, NEW side, NEW l, NEW r, Holds(h, n, old, H, side, l, r)
  PROVE  Holds(g, n, old, H, side, l, r)
BY DEF Extends, Holds

\* The height of a node that another heap has too.
LEMMA HeightFrame ==
  ASSUME NEW h, NEW g, Extends(h, g), NEW n \in Nodes(h)
  PROVE  Height(g, n) = Height(h, n) /\ n \in Nodes(g)
BY DEF Extends, Height, Nodes

\* What Rotate does: two nodes are made, nothing else.
LEMMA RotateShape ==
  ASSUME NEW h, Sane(h), NEW n \in DOMAIN h, NEW side \in Sides,
         NEW up, up = h[n][side], up \in DOMAIN h, NEW mid, mid = h[up][Other(side)], mid # up,
         NEW a \in Nat, a = Height(h, h[up][side]), NEW b \in Nat, b = Height(h, mid),
         NEW c \in Nat, c = Height(h, h[n][Other(side)]),
         NEW r, r = Rotate(h, n, side), NEW g, g = r.heap, NEW upper, upper = r.node
  PROVE  \E lower \in DOMAIN g :
           /\ Sane(g) /\ Extends(h, g) /\ upper \notin Nodes(h) /\ lower \notin Nodes(h)
           /\ Holds(g, upper, h[up], Above(a, Above(b, c)), side, h[up][side], lower)
           /\ Holds(g, lower, h[n], Above(b, c), side, mid, h[n][Other(side)])
<1>1. PICK other : other = Other(side)
  OBVIOUS
<1>2. PICK r1 : r1 = DuplicateNode(h, n, side, mid)
  OBVIOUS
<1>3. PICK g1, lower : g1 = r1.heap /\ lower = r1.node
  OBVIOUS
<1>4. PICK r2 : r2 = DuplicateNode(g1, up, other, lower)
  OBVIOUS
<1>5. PICK g2, top : g2 = r2.heap /\ top = r2.node
  OBVIOUS
<1>6. PICK low, out : low = h[n][other] /\ out = h[up][side]
  OBVIOUS
<1>7. PICK g3 : g3 = UpdateHeight(g2, lower)
  OBVIOUS
<1>8. g = UpdateHeight(g3, top) /\ upper = top
  <2>1. r = Got(UpdateHeight(g3, top), top)
    BY <1>1, <1>2, <1>3, <1>4, <1>5, <1>7 DEF Rotate
  <2>2. \A x, y : Got(x, y).heap = x /\ Got(x, y).node = y
    BY DEF Got
  <2> QED
    BY <2>1, <2>2
<1>9. other \in Sides /\ Other(other) = side /\ mid \in Nodes(h) /\ low \in Nodes(h) /\ out \in Nodes(h)
  BY <1>1, <1>6, OtherSide DEF Sane, Closed, Down, Nodes, Sides
<1>10. Added(h, g1, lower, [h[n] EXCEPT ![side] = mid])
  BY <1>2, <1>3, <1>9, Duplicates
<1>11. Sane(g1) /\ Extends(h, g1) /\ lower \notin Nodes(h) /\ lower # Null /\ Holds(g1, lower, h[n], h[n].height, side, mid, low)
  BY <1>1, <1>6, <1>10, AddedHolds
<1>12. up \in DOMAIN g1 /\ g1[up] = h[up] /\ lower \in Nodes(g1) /\ lower # g1[up][other]
  BY <1>1, <1>9, <1>11 DEF Extends, Holds, Nodes
<1>13. Added(g1, g2, top, [g1[up] EXCEPT ![other] = lower])
  BY <1>4, <1>5, <1>9, <1>11, <1>12, Duplicates
<1>14. /\ Sane(g2) /\ Extends(g1, g2) /\ top \notin Nodes(g1) /\ top # Null
       /\ Holds(g2, top, g1[up], g1[up].height, other, lower, g1[up][Other(other)])
  BY <1>9, <1>11, <1>12, <1>13, AddedHolds
<1>15. Holds(g2, top, h[up], h[up].height, side, out, lower)
  BY <1>1, <1>6, <1>9, <1>12, <1>14 DEF Holds
<1>16. Extends(h, g2) /\ top \notin Nodes(h) /\ top # lower
  BY <1>11, <1>14 DEF Extends, Nodes, Holds
<1>17. Holds(g2, lower, h[n], h[n].height, side, mid, low)
  BY <1>11, <1>14, HoldsFrame
<1>18. b = Height(g2, mid) /\ c = Height(g2, low) /\ a = Height(g2, out)
  BY <1>1, <1>6, <1>9, <1>16, HeightFrame
<1>19. /\ Sane(g3) /\ Holds(g3, lower, h[n], Above(b, c), side, mid, low)
       /\ DOMAIN g3 = DOMAIN g2 /\ \A m \in DOMAIN g2 : m # lower => g3[m] = g2[m]
  BY <1>7, <1>14, <1>17, <1>18, UpdatesHolds, SMTT(60)
<1>20. Extends(h, g3)
  BY <1>11, <1>16, <1>19 DEF Extends, Nodes
<1>21. Holds(g3, top, h[up], h[up].height, side, out, lower)
  BY <1>15, <1>16, <1>19 DEF Holds
<1>22. a = Height(g3, out)
  BY <1>6, <1>9, <1>20, HeightFrame
<1>23. Above(b, c) = Height(g3, lower)
  BY <1>11, <1>19 DEF Height, Holds
<1>24. Above(b, c) \in Nat
  BY DEF Above
<1>25. /\ Sane(g) /\ Holds(g, top, h[up], Above(a, Above(b, c)), side, out, lower)
       /\ DOMAIN g = DOMAIN g3 /\ \A m \in DOMAIN g3 : m # top => g[m] = g3[m]
  BY <1>8, <1>19, <1>21, <1>22, <1>23, <1>24, UpdatesHolds
<1>26. Extends(h, g)
  BY <1>16, <1>20, <1>25 DEF Extends, Nodes
<1>27. Holds(g, lower, h[n], Above(b, c), side, mid, low)
  BY <1>16, <1>19, <1>25 DEF Holds
<1>28. lower \in DOMAIN g
  BY <1>27 DEF Holds
<1> QED
  BY <1>1, <1>6, <1>8, <1>11, <1>16, <1>25, <1>26, <1>27, <1>28

\* Joining trees below a node of this shape.
LEMMA JoinHolds ==
  ASSUME NEW g, Closed(g), NEW n, NEW old, old.key \in Keys, old.value \in Values, NEW side \in Sides, NEW l, NEW r,
         NEW a, NEW A, Tree(g, l, a, A), NEW b, NEW B, Tree(g, r, b, B), Holds(g, n, old, Above(a, b), side, l, r),
         Near(a, b), Beside(side, A, old.key), Beside(Other(side), B, old.key)
  PROVE  Tree(g, n, Above(a, b), A \cup B \cup {<<old.key, old.value>>})
<1>1. /\ n \in DOMAIN g /\ g[n].key = old.key /\ g[n].value = old.value /\ g[n].height = Above(a, b)
      /\ g[n][side] = l /\ g[n][Other(side)] = r
  BY DEF Holds
<1> QED
  BY <1>1, JoinSides

\* Turning to the other side turns the order.
LEMMA BeforeOther ==
  ASSUME NEW side \in Sides, NEW a, NEW b
  PROVE  Before(Other(side), a, b) <=> Before(side, b, a)
BY DEF Before, Sides, Other

\* The order of the keys, read towards a side.
LEMMA BeforeOrder ==
  ASSUME NEW side \in Sides, NEW a \in Keys, NEW b \in Keys, NEW c \in Keys
  PROVE  /\ ~Before(side, a, a) /\ (Before(side, a, b) /\ Before(side, b, c) => Before(side, a, c))
         /\ Before(side, a, b) \/ Before(side, b, a) \/ a = b
BY LessAssumption DEF Before, Sides, Other

\* Items beside a key are beside the keys further on.
LEMMA BesideFurther ==
  ASSUME NEW side \in Sides, NEW I \in SUBSET (Keys \X Values), NEW k \in Keys, NEW m \in Keys,
         Beside(side, I, k), Before(side, k, m)
  PROVE  Beside(side, I, m)
<1> SUFFICES ASSUME NEW i \in I PROVE Before(side, i[1], m)
  BY DEF Beside
<1>1. i[1] \in Keys /\ Before(side, i[1], k)
  BY DEF Beside
<1> QED
  BY <1>1, BeforeOrder

\* Some of the items beside a key, and one of them.
LEMMA BesideSome ==
  ASSUME NEW side, NEW I, NEW k, Beside(side, I, k)
  PROVE  /\ \A J \in SUBSET I : Beside(side, J, k)
         /\ \A key, value : <<key, value>> \in I => Before(side, key, k)
<1>1. \A key, value : <<key, value>>[1] = key
  OBVIOUS
<1> QED
  BY <1>1 DEF Beside

\* Items and one item beside a key.
LEMMA BesideJoin ==
  ASSUME NEW side, NEW A, NEW B, NEW key, NEW value, NEW k,
         Beside(side, A, k), Beside(side, B, k), Before(side, key, k)
  PROVE  Beside(side, A \cup B \cup {<<key, value>>}, k)
<1>1. <<key, value>>[1] = key
  OBVIOUS
<1> QED
  BY <1>1 DEF Beside

\* A single rotation of balanced search trees makes one, if the heights are such.
LEMMA RotateTree ==
  ASSUME NEW h, Sane(h), NEW n \in DOMAIN h, NEW side \in Sides, h[n].key \in Keys, h[n].value \in Values,
         NEW up, up = h[n][side], up # Null, AVL(h, up), Beside(side, ItemsOf(h, up), h[n].key),
         NEW low, low = h[n][Other(side)], AVL(h, low), Beside(Other(side), ItemsOf(h, low), h[n].key),
         NEW a, a = Height(h, h[up][side]), NEW b, b = Height(h, h[up][Other(side)]), NEW c, c = Height(h, low),
         Near(b, c), Near(a, Above(b, c)), NEW r, r = Rotate(h, n, side)
  PROVE  /\ Sane(r.heap) /\ Extends(h, r.heap) /\ r.node \notin Nodes(h)
         /\ Tree(r.heap, r.node, Above(a, Above(b, c)),
                 ItemsOf(h, up) \cup ItemsOf(h, low) \cup {<<h[n].key, h[n].value>>})
<1> DEFINE other == Other(side)
           mid == h[up][other]
           out == h[up][side]
           A == ItemsOf(h, out)
           B == ItemsOf(h, mid)
           C == ItemsOf(h, low)
           g == r.heap
           H == Above(b, c)
           U == <<h[up].key, h[up].value>>
           N == <<h[n].key, h[n].value>>
<1>1. Closed(h) /\ up \in DOMAIN h /\ other \in Sides /\ Other(other) = side
  BY OtherSide DEF AVL, Nodes, Sane
<1>2. /\ Tree(h, out, a, A) /\ Tree(h, mid, b, B) /\ Beside(side, A, h[up].key) /\ Beside(other, B, h[up].key)
      /\ h[up].key \in Keys /\ h[up].value \in Values /\ Height(h, up) = h[up].height
      /\ h[up].height = Above(a, b) /\ ItemsOf(h, up) = A \cup B \cup {U}
  BY <1>1, Split
<1>3. Tree(h, low, c, C)
  BY DEF Tree
<1>4. a \in Nat /\ b \in Nat /\ c \in Nat /\ A \in SUBSET (Keys \X Values) /\ B \in SUBSET (Keys \X Values) /\ C \in SUBSET (Keys \X Values)
  BY <1>1, <1>2, <1>3, TreeParts
<1>5. mid # up
  <2>1. b = Height(h, mid) /\ Height(h, up) = Above(a, b)
    BY <1>2 DEF Tree
  <2>2. Above(a, b) # b
    BY <1>4 DEF Above
  <2> QED
    BY <2>1, <2>2
<1>6. PICK lower \in DOMAIN g :
           /\ Sane(g) /\ Extends(h, g) /\ r.node \notin Nodes(h) /\ lower \notin Nodes(h)
           /\ Holds(g, r.node, h[up], Above(a, Above(b, c)), side, out, lower)
           /\ Holds(g, lower, h[n], Above(b, c), side, mid, low)
  BY <1>1, <1>4, <1>5, RotateShape
<1>7. Tree(g, out, a, A) /\ Tree(g, mid, b, B) /\ Tree(g, low, c, C) /\ Closed(g)
  BY <1>1, <1>2, <1>3, <1>6, TreeFrame DEF Sane
<1>8. /\ Beside(side, A, h[n].key) /\ Beside(side, B, h[n].key) /\ Before(side, h[up].key, h[n].key)
      /\ Beside(Other(side), C, h[n].key)
  <2>1. A \in SUBSET ItemsOf(h, up) /\ B \in SUBSET ItemsOf(h, up) /\ U \in ItemsOf(h, up)
    BY <1>2
  <2> QED
    BY <2>1, BesideSome
<1> HIDE DEF A, B, C, g, U, N, other, mid, out
<1>9. Tree(g, lower, H, B \cup C \cup {N})
  <2>1. Holds(g, lower, h[n], H, side, mid, low)
    BY <1>6
  <2>2. Tree(g, lower, H, B \cup C \cup {<<h[n].key, h[n].value>>})
    BY <2>1, <1>7, <1>8, JoinHolds
  <2> QED
    BY <2>2 DEF N
<1>10. Beside(other, C, h[up].key) /\ Before(other, h[n].key, h[up].key)
  <2>1. Before(other, h[n].key, h[up].key)
    BY <1>2, <1>8, BeforeOther DEF other
  <2>2. Beside(other, C, h[n].key)
    BY DEF C, other
  <2> QED
    BY <1>1, <1>2, <1>4, <2>1, <2>2, BesideFurther
<1>11. Beside(other, B \cup C \cup {N}, h[up].key)
  BY <1>2, <1>10, BesideJoin DEF N
<1>12. Tree(g, r.node, Above(a, H), A \cup (B \cup C \cup {N}) \cup {U})
  BY <1>2, <1>6, <1>7, <1>9, <1>11, JoinHolds DEF U, other
<1>13. A \cup (B \cup C \cup {N}) \cup {U} = ItemsOf(h, up) \cup C \cup {N}
  BY <1>2
<1> QED
  BY <1>6, <1>12, <1>13 DEF g, N, C

\* Balanced search trees below a node, and the heights at which a double rotation balances it.
Bent(h, n, side, up, low, mid, a, b, c, d) ==
  /\ h[n].key \in Keys /\ h[n].value \in Values
  /\ up = h[n][side] /\ up # Null /\ AVL(h, up) /\ Beside(side, ItemsOf(h, up), h[n].key)
  /\ low = h[n][Other(side)] /\ AVL(h, low) /\ Beside(Other(side), ItemsOf(h, low), h[n].key)
  /\ mid = h[up][Other(side)] /\ mid # Null
  /\ a = Height(h, h[up][side]) /\ b = Height(h, h[mid][side])
  /\ c = Height(h, h[mid][Other(side)]) /\ d = Height(h, low)
  /\ Near(a, b) /\ Near(c, d) /\ Near(Above(a, b), Above(c, d))

\* A double rotation of balanced search trees makes one, if the heights are such.
LEMMA RotateTwiceTree ==
  ASSUME NEW h, Sane(h), NEW n \in DOMAIN h, NEW side \in Sides, NEW up, NEW low, NEW mid,
         NEW a, NEW b, NEW c, NEW d, Bent(h, n, side, up, low, mid, a, b, c, d), NEW r, r = RotateTwice(h, n, side)
  PROVE  /\ Sane(r.heap) /\ Extends(h, r.heap) /\ r.node \notin Nodes(h)
         /\ Tree(r.heap, r.node, Above(Above(a, b), Above(c, d)),
                 ItemsOf(h, up) \cup ItemsOf(h, low) \cup {<<h[n].key, h[n].value>>})
<1> DEFINE other == Other(side)
           out == h[up][side]
           in1 == h[mid][side]
           in2 == h[mid][other]
           A == ItemsOf(h, out)
           B == ItemsOf(h, in1)
           C == ItemsOf(h, in2)
           D == ItemsOf(h, low)
           U == <<h[up].key, h[up].value>>
           M == <<h[mid].key, h[mid].value>>
           N == <<h[n].key, h[n].value>>
           r1 == Rotate(h, up, other)
           r2 == DuplicateNode(r1.heap, n, side, r1.node)
           r3 == Rotate(r2.heap, r2.node, side)
           g == r3.heap
           F == Above(a, b)
           G == Above(c, d)
           K == Above(c, F)
<1>1. /\ h[n].key \in Keys /\ h[n].value \in Values /\ Beside(side, ItemsOf(h, up), h[n].key)
       /\ Beside(Other(side), ItemsOf(h, low), h[n].key) /\ AVL(h, low) /\ d = Height(h, low)
  BY DEF Bent
<1>2. Near(a, b) /\ Near(c, d) /\ Near(Above(a, b), Above(c, d)) /\ mid # Null
  BY DEF Bent
<1>3. up = h[n][side] /\ up # Null /\ AVL(h, up) /\ low = h[n][Other(side)]
  BY DEF Bent
<1>4. mid = h[up][Other(side)] /\ a = Height(h, out) /\ b = Height(h, in1) /\ c = Height(h, in2)
  BY DEF Bent
<1>5. Closed(h) /\ up \in DOMAIN h /\ other \in Sides /\ Other(other) = side
  BY <1>3, OtherSide DEF AVL, Nodes, Sane
<1>6. /\ Tree(h, out, a, A) /\ Beside(side, A, h[up].key)
      /\ Tree(h, mid, Height(h, mid), ItemsOf(h, mid)) /\ Beside(other, ItemsOf(h, mid), h[up].key)
      /\ h[up].key \in Keys /\ h[up].value \in Values /\ ItemsOf(h, up) = A \cup ItemsOf(h, mid) \cup {U}
  BY <1>3, <1>4, <1>5, Split, SMTT(60)
<1>7. mid \in DOMAIN h /\ AVL(h, mid)
  BY <1>2, <1>6 DEF Tree, AVL, Nodes
<1>8. /\ Tree(h, in1, b, B) /\ Beside(side, B, h[mid].key) /\ Tree(h, in2, c, C) /\ Beside(other, C, h[mid].key)
      /\ h[mid].key \in Keys /\ h[mid].value \in Values /\ ItemsOf(h, mid) = B \cup C \cup {M}
      /\ Height(h, mid) = Above(b, c)
  BY <1>4, <1>5, <1>7, Split
<1>9. Tree(h, low, d, D)
  BY <1>1 DEF Tree
<1>10. /\ a \in Nat /\ b \in Nat /\ c \in Nat /\ d \in Nat /\ in1 \in Nodes(h) /\ in2 \in Nodes(h)
      /\ A \in SUBSET (Keys \X Values) /\ B \in SUBSET (Keys \X Values) /\ C \in SUBSET (Keys \X Values)
      /\ D \in SUBSET (Keys \X Values) /\ out \in Nodes(h) /\ low \in Nodes(h)
  <2>1. \A m, H, I : Tree(h, m, H, I) => m \in Nodes(h) /\ H \in Nat /\ I \in SUBSET (Keys \X Values)
    BY <1>5, TreeParts
  <2> HIDE DEF out, in1, in2, A, B, C, D
  <2>2. a \in Nat /\ out \in Nodes(h) /\ A \in SUBSET (Keys \X Values)
    BY <1>6, <2>1
  <2>3. b \in Nat /\ in1 \in Nodes(h) /\ B \in SUBSET (Keys \X Values)
    BY <1>8, <2>1
  <2>4. c \in Nat /\ in2 \in Nodes(h) /\ C \in SUBSET (Keys \X Values)
    BY <1>8, <2>1
  <2>5. d \in Nat /\ low \in Nodes(h) /\ D \in SUBSET (Keys \X Values)
    BY <1>9, <2>1
  <2> QED
    BY <2>2, <2>3, <2>4, <2>5
<1>11. in1 # mid
  <2>1. Height(h, mid) = Above(b, c) /\ b = Height(h, in1) /\ b \in Nat /\ c \in Nat
    BY <1>4, <1>8, <1>10
  <2> QED
    BY <2>1, AboveNat
<1>12. /\ ItemsOf(h, mid) \in SUBSET ItemsOf(h, up) /\ U \in ItemsOf(h, up) /\ A \in SUBSET ItemsOf(h, up)
      /\ B \in SUBSET ItemsOf(h, mid) /\ C \in SUBSET ItemsOf(h, mid) /\ M \in ItemsOf(h, mid)
      /\ C \in SUBSET ItemsOf(h, up) /\ M \in ItemsOf(h, up)
  BY <1>6, <1>8
<1>13. /\ Beside(side, C, h[n].key) /\ Before(side, h[mid].key, h[n].key)
      /\ Before(other, h[mid].key, h[up].key) /\ Beside(other, B, h[up].key)
  BY <1>1, <1>6, <1>12, BesideSome
<1> HIDE DEF A, B, C, D, U, M, N, other
<1> HIDE DEF r1, in1, out
<1>14. F \in Nat /\ G \in Nat /\ K \in Nat /\ Above(b, a) = F
  BY <1>10, AboveNat
<1>15. PICK lo \in DOMAIN r1.heap :
           /\ Sane(r1.heap) /\ Extends(h, r1.heap) /\ r1.node \notin Nodes(h) /\ lo \notin Nodes(h)
           /\ Holds(r1.heap, r1.node, h[mid], K, other, in2, lo)
           /\ Holds(r1.heap, lo, h[up], F, other, in1, out)
  <2>1. in1 = h[mid][Other(other)] /\ out = h[up][Other(other)] /\ mid = h[up][other]
    BY <1>4, <1>5 DEF in1, out, other
  <2>2. c = Height(h, h[mid][other]) /\ b = Height(h, in1) /\ a = Height(h, out)
    BY <1>4 DEF in1, out, other
  <2> QED
    BY <1>5, <1>7, <1>10, <1>11, <1>14, <2>1, <2>2, RotateShape DEF r1
<1> HIDE DEF F, G, K
<1> DEFINE h1 == r1.heap
           mid1 == r1.node
<1>16. n \in DOMAIN h1 /\ h1[n] = h[n] /\ mid1 \in Nodes(h1) /\ mid1 # h1[n][side]
  <2>1. n \in DOMAIN h1 /\ h1[n] = h[n]
    BY <1>15 DEF Extends
  <2>2. mid1 \in DOMAIN h1
    BY <1>15 DEF Holds
  <2> QED
    BY <1>3, <1>5, <1>15, <2>1, <2>2 DEF Nodes
<1> HIDE DEF h1, mid1, r2
<1>17. Added(h1, r2.heap, r2.node, [h1[n] EXCEPT ![side] = mid1])
  BY <1>15, <1>16, Duplicates DEF r2, h1, mid1
<1> DEFINE h2 == r2.heap
           n2 == r2.node
<1>18. /\ Sane(h2) /\ Extends(h1, h2) /\ n2 \notin Nodes(h1) /\ n2 # Null
       /\ Holds(h2, n2, h1[n], h1[n].height, side, mid1, h1[n][Other(side)])
  BY <1>15, <1>16, <1>17, AddedHolds DEF h1
<1> HIDE DEF h2, n2
<1>19. Extends(h, h2) /\ n2 \notin Nodes(h)
  BY <1>15, <1>18 DEF Extends, Nodes, h1
<1>20. /\ n2 \in DOMAIN h2 /\ h2[n2].key = h[n].key /\ h2[n2].value = h[n].value /\ h2[n2][side] = mid1 /\ h2[n2][Other(side)] = low
       /\ Holds(h2, mid1, h[mid], K, other, in2, lo)
       /\ Holds(h2, lo, h[up], F, other, in1, out)
  <2>1. Holds(h1, mid1, h[mid], K, other, in2, lo) /\ Holds(h1, lo, h[up], F, other, in1, out)
    BY <1>15 DEF h1, mid1
  <2>2. Holds(h2, mid1, h[mid], K, other, in2, lo) /\ Holds(h2, lo, h[up], F, other, in1, out)
    BY <1>18, <2>1, HoldsFrame
  <2> QED
    BY <1>3, <1>16, <1>18, <2>2 DEF Holds
<1>21. /\ mid1 \in DOMAIN h2 /\ h2[mid1].key = h[mid].key /\ h2[mid1].value = h[mid].value
       /\ h2[mid1][Other(side)] = in2 /\ h2[mid1][side] = lo /\ in2 # mid1
  BY <1>5, <1>10, <1>15, <1>20 DEF Holds, other, mid1
<1>22. Height(h2, lo) = F /\ c = Height(h2, in2) /\ d = Height(h2, low)
  <2>1. c = Height(h2, in2) /\ d = Height(h2, low)
    BY <1>1, <1>4, <1>10, <1>19, HeightFrame DEF other
  <2>2. lo # Null
    BY <1>15 DEF Nodes
  <2> QED
    BY <1>20, <2>1, <2>2 DEF Height, Holds
<1> HIDE DEF in2
<1>23. r3 = Rotate(h2, n2, side)
  BY DEF h2, n2
<1> HIDE DEF r3
<1>24. PICK low3 \in DOMAIN g :
           /\ Sane(g) /\ Extends(h2, g) /\ r3.node \notin Nodes(h2) /\ low3 \notin Nodes(h2)
           /\ Holds(g, r3.node, h2[mid1], Above(F, G), side, lo, low3)
           /\ Holds(g, low3, h2[n2], G, side, in2, low)
  <2>1. n2 \in DOMAIN h2 /\ mid1 = h2[n2][side] /\ mid1 \in DOMAIN h2 /\ in2 = h2[mid1][Other(side)] /\ in2 # mid1
    BY <1>20, <1>21
  <2>2. /\ F \in Nat /\ F = Height(h2, h2[mid1][side]) /\ c \in Nat /\ c = Height(h2, in2)
        /\ d \in Nat /\ d = Height(h2, h2[n2][Other(side)])
    BY <1>10, <1>14, <1>20, <1>21, <1>22
  <2>3. h2[mid1][side] = lo /\ h2[n2][Other(side)] = low
    BY <1>20, <1>21
  <2>4. \E lower \in DOMAIN g :
           /\ Sane(g) /\ Extends(h2, g) /\ r3.node \notin Nodes(h2) /\ lower \notin Nodes(h2)
           /\ Holds(g, r3.node, h2[mid1], Above(F, Above(c, d)), side, h2[mid1][side], lower)
           /\ Holds(g, lower, h2[n2], Above(c, d), side, in2, h2[n2][Other(side)])
    BY <1>18, <1>23, <2>1, <2>2, RotateShape
  <2> QED
    BY <2>3, <2>4 DEF G
<1> HIDE DEF g
<1>25. /\ Closed(g) /\ Extends(h, g)
       /\ Holds(g, r3.node, h[mid], Above(F, G), side, lo, low3)
       /\ Holds(g, low3, h[n], G, side, in2, low)
       /\ Holds(g, lo, h[up], F, other, in1, out)
  <2>1. Closed(g) /\ Extends(h, g)
    BY <1>19, <1>24 DEF Extends, Sane
  <2>2. Holds(g, lo, h[up], F, other, in1, out)
    BY <1>20, <1>24, HoldsFrame
  <2> QED
    BY <1>20, <1>21, <1>24, <2>1, <2>2 DEF Holds
<1>26. Tree(g, out, a, A) /\ Tree(g, in1, b, B) /\ Tree(g, in2, c, C) /\ Tree(g, low, d, D)
  <2>1. \A m, H, I : Tree(h, m, H, I) => Tree(g, m, H, I)
    BY <1>5, <1>25, TreeFrame
  <2> QED
    BY <1>6, <1>8, <1>9, <2>1
<1>27. Tree(g, lo, F, B \cup A \cup {U})
  <2>1. Near(b, a) /\ Beside(Other(other), A, h[up].key)
    BY <1>2, <1>5, <1>6, <1>10, AboveNat
  <2>2. Holds(g, lo, h[up], Above(b, a), other, in1, out)
    BY <1>14, <1>25
  <2>3. Tree(g, lo, Above(b, a), B \cup A \cup {<<h[up].key, h[up].value>>})
    BY <1>5, <1>6, <1>13, <1>25, <1>26, <2>1, <2>2, JoinHolds
  <2> QED
    BY <1>14, <2>3 DEF U
<1>28. Tree(g, low3, G, C \cup D \cup {N})
  <2>1. Beside(Other(side), D, h[n].key) /\ Holds(g, low3, h[n], Above(c, d), side, in2, low)
    BY <1>1, <1>25 DEF D, G
  <2>2. Tree(g, low3, Above(c, d), C \cup D \cup {<<h[n].key, h[n].value>>})
    BY <1>1, <1>2, <1>13, <1>25, <1>26, <2>1, JoinHolds
  <2> QED
    BY <2>2 DEF N, G
<1>29. Beside(side, B \cup A \cup {U}, h[mid].key)
  <2>1. Before(side, h[up].key, h[mid].key)
    <3>1. h[up].key \in Keys /\ h[mid].key \in Keys /\ Before(Other(side), h[mid].key, h[up].key)
      BY <1>6, <1>8, <1>13 DEF other
    <3> QED
      BY <3>1, BeforeOther
  <2>2. Beside(side, A, h[mid].key)
    BY <1>6, <1>8, <1>10, <2>1, BesideFurther
  <2> QED
    BY <1>8, <2>1, <2>2, BesideJoin DEF U
<1>30. Beside(other, C \cup D \cup {N}, h[mid].key)
  <2>1. Before(other, h[n].key, h[mid].key)
    <3>1. h[mid].key \in Keys /\ Before(side, h[mid].key, h[n].key)
      BY <1>8, <1>13
    <3> QED
      BY <3>1, BeforeOther DEF other
  <2>2. Beside(other, D, h[n].key)
    BY <1>1 DEF D, other
  <2>3. Beside(other, D, h[mid].key)
    BY <1>1, <1>5, <1>8, <1>10, <2>1, <2>2, BesideFurther
  <2> QED
    BY <1>8, <2>1, <2>3, BesideJoin DEF N
<1>31. Tree(g, r3.node, Above(F, G), (B \cup A \cup {U}) \cup (C \cup D \cup {N}) \cup {M})
  <2>1. Near(F, G) /\ Beside(Other(side), C \cup D \cup {N}, h[mid].key)
    BY <1>2, <1>30 DEF F, G, other
  <2> HIDE DEF N
  <2>2. Tree(g, r3.node, Above(F, G), (B \cup A \cup {U}) \cup (C \cup D \cup {N}) \cup {<<h[mid].key, h[mid].value>>})
    BY <1>8, <1>25, <1>27, <1>28, <1>29, <2>1, JoinHolds
  <2> QED
    BY <2>2 DEF M
<1>32. (B \cup A \cup {U}) \cup (C \cup D \cup {N}) \cup {M} = ItemsOf(h, up) \cup D \cup {N}
  BY <1>6, <1>8
<1>33. r = r3
  BY <1>3 DEF RotateTwice, r3, r2, r1, h1, mid1, h2, n2, other
<1>34. r.node \notin Nodes(h) /\ r.heap = g
  BY <1>19, <1>24, <1>33 DEF Nodes, Extends, g
<1> QED
  BY <1>24, <1>25, <1>31, <1>32, <1>33, <1>34 DEF N, D, F, G

-----------------------------------------------------------------------------
(* Rebalancing. *)

\* A node over two balanced search trees, with its height right, balanced or not.
Root(h, n, side, a, A, b, B) ==
  /\ n \in DOMAIN h /\ h[n].key \in Keys /\ h[n].value \in Values /\ h[n].height = Above(a, b)
  /\ Tree(h, h[n][side], a, A) /\ Beside(side, A, h[n].key)
  /\ Tree(h, h[n][Other(side)], b, B) /\ Beside(Other(side), B, h[n].key)

Below(h, n, A, B) == A \cup B \cup {<<h[n].key, h[n].value>>}

\* A call has made a balanced search tree with a new root, and kept the nodes there were.
Makes(h, r, H, I) == Sane(r.heap) /\ Extends(h, r.heap) /\ r.node \notin Nodes(h) /\ Tree(r.heap, r.node, H, I)

\* Such a node from the other side.
LEMMA RootOther ==
  ASSUME NEW h, NEW n, NEW side \in Sides, NEW a \in Nat, NEW A, NEW b \in Nat, NEW B, Root(h, n, side, a, A, b, B)
  PROVE  Root(h, n, Other(side), b, B, a, A) /\ Below(h, n, A, B) = Below(h, n, B, A)
<1>1. Other(Other(side)) = side /\ Above(a, b) = Above(b, a)
  BY OtherSide, AboveNat
<1>2. Below(h, n, A, B) = Below(h, n, B, A)
  BY DEF Below
<1> QED
  BY <1>1, <1>2 DEF Root

\* What is known of it.
LEMMA RootParts ==
  ASSUME NEW h, Sane(h), NEW n, NEW side \in Sides, NEW a, NEW A, NEW b, NEW B, Root(h, n, side, a, A, b, B)
  PROVE  /\ a \in Nat /\ b \in Nat /\ n \in DOMAIN h /\ n # Null /\ n \in Nodes(h)
         /\ a = Height(h, h[n][side]) /\ b = Height(h, h[n][Other(side)])
         /\ Height(h, n) = Above(a, b)
         /\ A \in SUBSET (Keys \X Values) /\ B \in SUBSET (Keys \X Values)
         /\ Below(h, n, A, B) \in SUBSET (Keys \X Values)
<1>1. Closed(h) /\ n \in DOMAIN h /\ h[n].key \in Keys /\ h[n].value \in Values /\ h[n].height = Above(a, b)
  BY DEF Root, Sane
<1>2. Tree(h, h[n][side], a, A) /\ Tree(h, h[n][Other(side)], b, B)
  BY DEF Root
<1>3. n # Null /\ n \in Nodes(h) /\ Height(h, n) = Above(a, b)
  BY <1>1 DEF Closed, Nodes, Height
<1>4. a \in Nat /\ b \in Nat /\ A \in SUBSET (Keys \X Values) /\ B \in SUBSET (Keys \X Values)
  BY <1>1, <1>2, TreeParts
<1>5. a = Height(h, h[n][side]) /\ b = Height(h, h[n][Other(side)])
  BY <1>2 DEF Tree
<1>6. Below(h, n, A, B) \in SUBSET (Keys \X Values)
  BY <1>1, <1>4 DEF Below
<1> QED
  BY <1>1, <1>3, <1>4, <1>5, <1>6

\* It is a balanced search tree itself if the heights are near each other.
LEMMA RootNear ==
  ASSUME NEW h, Sane(h), NEW n, NEW side \in Sides, NEW a, NEW A, NEW b, NEW B, Root(h, n, side, a, A, b, B), Near(a, b)
  PROVE  Tree(h, n, Above(a, b), Below(h, n, A, B))
<1>1. /\ n \in DOMAIN h /\ h[n].key \in Keys /\ h[n].value \in Values /\ h[n].height = Above(a, b)
      /\ Tree(h, h[n][side], a, A) /\ Beside(side, A, h[n].key)
      /\ Tree(h, h[n][Other(side)], b, B) /\ Beside(Other(side), B, h[n].key)
  BY DEF Root
<1> QED
  BY <1>1, JoinSides DEF Below, Sane

\* The balance factor of a node, by side.
LEMMA Balances ==
  ASSUME NEW h, NEW n, n # Null, NEW side \in Sides, NEW a \in Nat, a = Height(h, h[n][side]),
         NEW b \in Nat, b = Height(h, h[n][Other(side)])
  PROVE  BalanceFactor(h, n) = IF side = "left" THEN a - b ELSE b - a
BY DEF BalanceFactor, Sides, Other

\* HeavySide is a side that is more than one higher.
LEMMA Heavy ==
  ASSUME NEW h, Sane(h), NEW n, NEW side \in Sides, NEW a, NEW A, NEW b, NEW B, Root(h, n, side, a, A, b, B)
  PROVE  /\ a > b + 1 => HeavySide(h, n) = side
         /\ Near(a, b) => HeavySide(h, n) = "none"
<1>1. a \in Nat /\ b \in Nat /\ n # Null /\ a = Height(h, h[n][side]) /\ b = Height(h, h[n][Other(side)])
  BY RootParts
<1> DEFINE balance == BalanceFactor(h, n)
<1>2. balance = IF side = "left" THEN a - b ELSE b - a
  BY <1>1, Balances
<1>3. HeavySide(h, n) = IF balance > 1 THEN "left" ELSE IF balance < -1 THEN "right" ELSE "none"
  BY DEF HeavySide
<1> HIDE DEF balance
<1>4. a \in Nat /\ b \in Nat
  BY <1>1
<1> QED
  BY <1>2, <1>3, <1>4 DEF Sides, Near

\* Rotations balance a node that is too high on a side by one.
LEMMA RotateHeavy ==
  ASSUME NEW h, Sane(h), NEW n, NEW side \in Sides, NEW a, NEW A, NEW b, NEW B, Root(h, n, side, a, A, b, B), a = b + 2,
         NEW up, up = h[n][side], NEW x, x = Height(h, h[up][side]), NEW y, y = Height(h, h[up][Other(side)])
  PROVE  /\ up \in DOMAIN h /\ up # Null /\ x \in Nat /\ y \in Nat /\ AVL(h, up)
         /\ x > y => Makes(h, Rotate(h, n, side), b + 2, Below(h, n, A, B))
         /\ x = y => Makes(h, Rotate(h, n, side), b + 3, Below(h, n, A, B))
         /\ x < y => Makes(h, RotateTwice(h, n, side), b + 2, Below(h, n, A, B))
<1> DEFINE low == h[n][Other(side)]
           mid == h[up][Other(side)]
           out == h[up][side]
           in1 == h[mid][side]
           in2 == h[mid][Other(side)]
           c == Height(h, in1)
           d == Height(h, in2)
<1>1. Closed(h) /\ a \in Nat /\ b \in Nat /\ n \in DOMAIN h
  BY RootParts DEF Sane
<1>2. /\ h[n].key \in Keys /\ h[n].value \in Values
      /\ Tree(h, up, a, A) /\ Beside(side, A, h[n].key) /\ Tree(h, low, b, B) /\ Beside(Other(side), B, h[n].key)
  BY DEF Root
<1> HIDE DEF low
<1>3. /\ AVL(h, up) /\ A = ItemsOf(h, up) /\ a = Height(h, up) /\ up \in Nodes(h)
      /\ AVL(h, low) /\ B = ItemsOf(h, low) /\ b = Height(h, low)
  BY <1>2 DEF Tree, AVL
<1>4. up \in DOMAIN h /\ up # Null
  <2>1. a # 0
    BY <1>1
  <2> QED
    BY <1>1, <1>2, <2>1, TreeParts DEF Nodes
<1>5. /\ Tree(h, out, x, ItemsOf(h, out)) /\ Tree(h, mid, y, ItemsOf(h, mid))
      /\ Near(x, y) /\ h[up].height = Above(x, y) /\ Height(h, up) = h[up].height
  BY <1>1, <1>3, <1>4, Split
<1>6. x \in Nat /\ y \in Nat /\ mid \in Nodes(h) /\ AVL(h, mid) /\ (mid = Null <=> y = 0)
  <2>1. \A m, H, I : Tree(h, m, H, I) => m \in Nodes(h) /\ H \in Nat /\ AVL(h, m) /\ (m = Null <=> H = 0)
    BY <1>1, TreeParts DEF Tree
  <2> QED
    BY <1>5, <2>1
<1>7. b + 2 = Above(x, y)
  BY <1>3, <1>5
<1>8. /\ Beside(side, ItemsOf(h, up), h[n].key) /\ Beside(Other(side), ItemsOf(h, low), h[n].key)
      /\ Below(h, n, A, B) = ItemsOf(h, up) \cup ItemsOf(h, low) \cup {<<h[n].key, h[n].value>>}
  BY <1>2, <1>3 DEF Below
<1> HIDE DEF out, mid
<1>9. ASSUME x > y
      PROVE  Makes(h, Rotate(h, n, side), b + 2, Below(h, n, A, B))
  <2>1. Near(y, b) /\ Near(x, Above(y, b)) /\ Above(x, Above(y, b)) = b + 2
    BY <1>1, <1>5, <1>6, <1>7, <1>9 DEF Near, Above
  <2> DEFINE r == Rotate(h, n, side)
  <2>2. /\ Sane(r.heap) /\ Extends(h, r.heap) /\ r.node \notin Nodes(h)
        /\ Tree(r.heap, r.node, Above(x, Above(y, b)), ItemsOf(h, up) \cup ItemsOf(h, low) \cup {<<h[n].key, h[n].value>>})
    BY <1>1, <1>2, <1>3, <1>4, <1>8, <2>1, RotateTree DEF low
  <2> QED
    BY <1>8, <2>1, <2>2 DEF Makes
<1>10. ASSUME x = y
       PROVE  Makes(h, Rotate(h, n, side), b + 3, Below(h, n, A, B))
  <2>1. Near(y, b) /\ Near(x, Above(y, b)) /\ Above(x, Above(y, b)) = b + 3
    BY <1>1, <1>5, <1>6, <1>7, <1>10 DEF Near, Above
  <2> DEFINE r == Rotate(h, n, side)
  <2>2. /\ Sane(r.heap) /\ Extends(h, r.heap) /\ r.node \notin Nodes(h)
        /\ Tree(r.heap, r.node, Above(x, Above(y, b)), ItemsOf(h, up) \cup ItemsOf(h, low) \cup {<<h[n].key, h[n].value>>})
    BY <1>1, <1>2, <1>3, <1>4, <1>8, <2>1, RotateTree DEF low
  <2> QED
    BY <1>8, <2>1, <2>2 DEF Makes
<1>11. ASSUME x < y
       PROVE  Makes(h, RotateTwice(h, n, side), b + 2, Below(h, n, A, B))
  <2>1. mid \in DOMAIN h /\ mid # Null
    BY <1>6, <1>11 DEF Nodes
  <2>2. Tree(h, in1, c, ItemsOf(h, in1)) /\ Tree(h, in2, d, ItemsOf(h, in2)) /\ Near(c, d) /\ Height(h, mid) = Above(c, d)
    BY <1>1, <1>6, <2>1, Split
  <2>3. c \in Nat /\ d \in Nat
    BY <1>1, <2>2, TreeParts
  <2>4. Above(c, d) = y
    BY <1>5, <2>2 DEF Tree
  <2> HIDE DEF in1, in2, c, d
  <2>5. Near(x, c) /\ Near(d, b) /\ Near(Above(x, c), Above(d, b)) /\ Above(Above(x, c), Above(d, b)) = b + 2
    BY <1>1, <1>5, <1>6, <1>7, <1>11, <2>2, <2>3, <2>4 DEF Near, Above
  <2>6. Bent(h, n, side, up, low, mid, x, c, d, b)
    BY <1>1, <1>2, <1>3, <1>4, <1>8, <2>1, <2>5 DEF Bent, in1, in2, c, d, low, mid
  <2> DEFINE r == RotateTwice(h, n, side)
  <2>7. /\ Sane(r.heap) /\ Extends(h, r.heap) /\ r.node \notin Nodes(h)
        /\ Tree(r.heap, r.node, Above(Above(x, c), Above(d, b)), ItemsOf(h, up) \cup ItemsOf(h, low) \cup {<<h[n].key, h[n].value>>})
    BY <1>1, <2>6, RotateTwiceTree
  <2> QED
    BY <1>8, <2>5, <2>7 DEF Makes
<1> QED
  BY <1>3, <1>4, <1>6, <1>9, <1>10, <1>11

\* The four cases of delete_internal, for the side that is too high.
LEMMA RebalancesErased ==
  ASSUME NEW h, Sane(h), NEW n, NEW side \in Sides, NEW a, NEW A, NEW b, NEW B, Root(h, n, side, a, A, b, B), a = b + 2,
         NEW r, r = RebalanceErased(h, n)
  PROVE  Makes(h, r, b + 2, Below(h, n, A, B)) \/ Makes(h, r, b + 3, Below(h, n, A, B))
<1> DEFINE up == h[n][side]
           x == Height(h, h[up][side])
           y == Height(h, h[up][Other(side)])
           lean == BalanceFactor(h, up)
<1>1. /\ up # Null /\ x \in Nat /\ y \in Nat
      /\ x > y => Makes(h, Rotate(h, n, side), b + 2, Below(h, n, A, B))
      /\ x = y => Makes(h, Rotate(h, n, side), b + 3, Below(h, n, A, B))
      /\ x < y => Makes(h, RotateTwice(h, n, side), b + 2, Below(h, n, A, B))
  BY RotateHeavy
<1>2. lean = IF side = "left" THEN x - y ELSE y - x
  BY <1>1, Balances
<1>3. HeavySide(h, n) = side
  <2>1. a \in Nat /\ b \in Nat
    BY RootParts
  <2> QED
    BY <2>1, Heavy
<1>4. r = IF (side = "left" /\ lean < 0) \/ (side = "right" /\ lean > 0) THEN RotateTwice(h, n, side) ELSE Rotate(h, n, side)
  BY <1>3 DEF RebalanceErased, Sides
<1> HIDE DEF up, x, y, lean
<1>5. x < y => r = RotateTwice(h, n, side)
  BY <1>1, <1>2, <1>4 DEF Sides
<1>6. ~(x < y) => r = Rotate(h, n, side)
  BY <1>1, <1>2, <1>4 DEF Sides
<1>7. x < y \/ x = y \/ x > y
  BY <1>1
<1> QED
  BY <1>1, <1>5, <1>6, <1>7

\* The four cases of insert_internal, when the key has made its own side of the high child the higher one.
LEMMA RebalancesInserted ==
  ASSUME NEW h, Sane(h), NEW n, NEW side \in Sides, NEW a, NEW A, NEW b, NEW B, Root(h, n, side, a, A, b, B), a = b + 2,
         NEW key, NEW up, up = h[n][side], ~Same(key, h[up].key), NEW inner, inner = Side(key, h[up].key),
         Height(h, h[up][inner]) > Height(h, h[up][Other(inner)]),
         NEW r, r = RebalanceInserted(h, n, key)
  PROVE  Makes(h, r, b + 2, Below(h, n, A, B))
<1> DEFINE x == Height(h, h[up][side])
           y == Height(h, h[up][Other(side)])
<1>1. /\ x \in Nat /\ y \in Nat
      /\ x > y => Makes(h, Rotate(h, n, side), b + 2, Below(h, n, A, B))
      /\ x < y => Makes(h, RotateTwice(h, n, side), b + 2, Below(h, n, A, B))
  BY RotateHeavy
<1>2. HeavySide(h, n) = side
  <2>1. a \in Nat /\ b \in Nat
    BY RootParts
  <2> QED
    BY <2>1, Heavy
<1>3. r = IF inner = side THEN Rotate(h, n, side) ELSE RotateTwice(h, n, side)
  BY <1>2 DEF RebalanceInserted, Sides
<1>4. inner \in Sides
  BY DEF Side, Sides
<1>5. CASE inner = side
  <2>1. x > y
    BY <1>5
  <2> QED
    BY <1>1, <1>3, <1>5, <2>1
<1>6. CASE inner # side
  <2>1. inner = Other(side) /\ Other(inner) = side
    BY <1>4, <1>6 DEF Sides, Other
  <2>2. y > x
    BY <2>1
  <2>3. x < y
    BY <1>1, <2>2
  <2> QED
    BY <1>1, <1>3, <1>6, <2>3
<1> QED
  BY <1>5, <1>6

\* Neither does anything where the heights are near each other.
LEMMA RebalancesNear ==
  ASSUME NEW h, Sane(h), NEW n, NEW side \in Sides, NEW a, NEW A, NEW b, NEW B, Root(h, n, side, a, A, b, B), Near(a, b)
  PROVE  RebalanceErased(h, n) = Got(h, n) /\ \A key : RebalanceInserted(h, n, key) = Got(h, n)
<1>1. HeavySide(h, n) = "none"
  BY Heavy
<1> QED
  BY <1>1 DEF RebalanceErased, RebalanceInserted

-----------------------------------------------------------------------------
(* A node over a new child: duplicate_node and updateHeight.               *)

\* With the child it has, nothing is done.
LEMMA RebuildSame ==
  ASSUME NEW h, Sane(h), NEW n \in DOMAIN h, AVL(h, n), NEW side \in Sides, NEW child, child = h[n][side]
  PROVE  DuplicateNode(h, n, side, child) = Got(h, n) /\ UpdateHeight(h, n) = h
<1> DEFINE l == h[n].left
           r == h[n].right
           a == Height(h, l)
           b == Height(h, r)
<1>1. "left" \in Sides /\ Other("left") = "right" /\ Closed(h)
  BY DEF Sides, Other, Sane
<1>2. /\ Tree(h, l, a, ItemsOf(h, l)) /\ Tree(h, r, b, ItemsOf(h, r)) /\ h[n].height = Above(a, b)
  BY <1>1, Split
<1>3. a \in Nat /\ b \in Nat
  BY <1>1, <1>2, TreeParts
<1>4. UpdateHeight(h, n) = h
  BY <1>1, <1>2, <1>3, Updates
<1> QED
  BY <1>4 DEF DuplicateNode

\* With another one, a new node is made.
LEMMA Rebuild ==
  ASSUME NEW h, Sane(h), NEW n \in DOMAIN h, AVL(h, n), NEW side \in Sides, NEW child, child # h[n][side],
         NEW a, NEW A, Tree(h, child, a, A), Beside(side, A, h[n].key),
         NEW low, low = h[n][Other(side)], NEW r, r = DuplicateNode(h, n, side, child),
         NEW g, g = UpdateHeight(r.heap, r.node)
  PROVE  /\ Sane(g) /\ Extends(h, g) /\ r.node \notin Nodes(h)
         /\ Root(g, r.node, side, a, A, Height(h, low), ItemsOf(h, low))
         /\ g[r.node].key = h[n].key /\ g[r.node].value = h[n].value /\ g[r.node][side] = child
<1> DEFINE b == Height(h, low)
           B == ItemsOf(h, low)
           h1 == r.heap
           m == r.node
<1>1. Closed(h) /\ child \in Nodes(h) /\ a \in Nat /\ a = Height(h, child)
  BY TreeParts DEF Sane, Tree
<1>2. Tree(h, low, b, B) /\ Beside(Other(side), B, h[n].key) /\ h[n].key \in Keys /\ h[n].value \in Values
  BY <1>1, Split
<1>3. b \in Nat /\ low \in Nodes(h)
  BY <1>1, <1>2, TreeParts
<1>4. Added(h, h1, m, [h[n] EXCEPT ![side] = child])
  BY <1>1, Duplicates
<1> HIDE DEF h1, m
<1>5. Sane(h1) /\ Extends(h, h1) /\ m \notin Nodes(h) /\ m # Null /\ Holds(h1, m, h[n], h[n].height, side, child, low)
  BY <1>4, AddedHolds
<1>6. a = Height(h1, child) /\ b = Height(h1, low)
  BY <1>1, <1>3, <1>5, HeightFrame
<1> HIDE DEF b, B
<1>7. /\ Sane(g) /\ Holds(g, m, h[n], Above(a, b), side, child, low)
      /\ DOMAIN g = DOMAIN h1 /\ \A k \in DOMAIN h1 : k # m => g[k] = h1[k]
  BY <1>1, <1>3, <1>5, <1>6, UpdatesHolds DEF h1, m
<1>8. Extends(h, g)
  BY <1>5, <1>7 DEF Extends, Nodes
<1>9. Tree(g, child, a, A) /\ Tree(g, low, b, B)
  BY <1>1, <1>2, <1>7, <1>8, TreeFrame DEF Sane
<1>10. /\ m \in DOMAIN g /\ g[m].key = h[n].key /\ g[m].value = h[n].value /\ g[m].height = Above(a, b)
       /\ g[m][side] = child /\ g[m][Other(side)] = low
  BY <1>7 DEF Holds
<1>11. Root(g, m, side, a, A, b, B)
  BY <1>2, <1>9, <1>10 DEF Root
<1> QED
  BY <1>5, <1>7, <1>8, <1>10, <1>11 DEF m, b, B

-----------------------------------------------------------------------------
(* Induction on the height of a tree. *)

\* A set of natural numbers has a least member.
LEMMA LeastNat ==
  ASSUME NEW T \in SUBSET Nat, T # {}
  PROVE  \E x \in T : \A y \in T : x <= y
<1> DEFINE Lower == {ss \in Nat \X Nat : ss[1] < ss[2]}
<1>1. IsWellFoundedOn(Lower, Nat)
  BY NatLessThanWellFounded DEF OpToRel
<1>2. \A y, x \in Nat : <<y, x>> \in Lower <=> y < x
  OBVIOUS
<1> HIDE DEF Lower
<1>3. PICK x \in T : \A y \in T : <<y, x>> \notin Lower
  BY <1>1, WFMin
<1>4. \A y \in T : x \in Nat /\ y \in Nat /\ ~(y < x)
  BY <1>2, <1>3
<1> QED
  BY <1>4

\* The children of a balanced search tree are some, and less high.
LEMMA Children ==
  ASSUME NEW h, Closed(h), NEW n \in DOMAIN h, AVL(h, n), NEW side \in Sides, NEW k, k = h[n][side]
  PROVE  /\ AVL(h, k) /\ k \in Nodes(h) /\ n \in Nodes(h) /\ n # Null
         /\ Height(h, k) \in Nat /\ Height(h, n) \in Nat /\ Height(h, k) < Height(h, n)
<1> DEFINE l == h[n][Other(side)]
           a == Height(h, k)
           b == Height(h, l)
<1>1. /\ Tree(h, k, a, ItemsOf(h, k)) /\ Tree(h, l, b, ItemsOf(h, l)) /\ h[n].height = Above(a, b) /\ Height(h, n) = h[n].height
  BY Split
<1>2. a \in Nat /\ b \in Nat /\ k \in Nodes(h)
  BY <1>1, TreeParts
<1>3. n \in Nodes(h) /\ n # Null
  BY DEF Nodes, Closed
<1> HIDE DEF a, b
<1>4. Above(a, b) \in Nat /\ a < Above(a, b)
  BY <1>2 DEF Above
<1> QED
  BY <1>1, <1>2, <1>3, <1>4 DEF Tree, a

\* Balanced search trees of which none is the smallest are none.
LEMMA HeightInduction ==
  ASSUME NEW h, Closed(h), NEW Bad,
         \A m \in Bad : m \in DOMAIN h /\ AVL(h, m) /\ \E side \in Sides : h[m][side] \in Bad
  PROVE  Bad = {}
<1> SUFFICES ASSUME Bad # {} PROVE FALSE
  OBVIOUS
<1>1. \A m \in Bad : Height(h, m) \in Nat
  BY Children
<1> DEFINE Heights == {Height(h, m) : m \in Bad}
<1>2. Heights \in SUBSET Nat /\ Heights # {}
  BY <1>1
<1>3. PICK x \in Heights : \A y \in Heights : x <= y
  BY <1>2, LeastNat
<1>4. PICK m \in Bad : x = Height(h, m)
  BY <1>3
<1>5. PICK side \in Sides : h[m][side] \in Bad
  BY <1>4
<1> DEFINE k == h[m][side]
<1>6. k \in Bad /\ Height(h, k) \in Nat /\ Height(h, m) \in Nat /\ Height(h, k) < Height(h, m)
  BY <1>4, <1>5, Children
<1>7. x <= Height(h, k)
  BY <1>3, <1>6
<1> QED
  BY <1>4, <1>6, <1>7

\* Reach solves its equation.
LEMMA ReachStep ==
  ASSUME NEW h, Closed(h)
  PROVE  /\ Reach(h, Null) = {}
         /\ \A n \in DOMAIN h : Reach(h, n) = {n} \cup Reach(h, h[n].left) \cup Reach(h, h[n].right)
<1> DEFINE Turn(f, m) == IF m = Null THEN {} ELSE {m} \cup f[h[m].left] \cup f[h[m].right]
           reach[m \in DOMAIN h \cup {Null}] == IF m = Null THEN {} ELSE {m} \cup reach[h[m].left] \cup reach[h[m].right]
           solved == [m \in DOMAIN h \cup {Null} |-> Sub(h, m)]
<1>1. \A n : Reach(h, n) = reach[n]
  BY DEF Reach
<1>2. \A m \in DOMAIN h \cup {Null} : Turn(solved, m) = Sub(h, m)
  <2> TAKE m \in DOMAIN h \cup {Null}
  <2>1. CASE m = Null
    BY <2>1, SubNull
  <2>2. CASE m # Null
    <3>1. /\ Sub(h, m) = {m} \cup Sub(h, h[m].left) \cup Sub(h, h[m].right)
          /\ h[m].left \in Nodes(h) /\ h[m].right \in Nodes(h)
      BY <2>2, SubNode
    <3>2. solved[h[m].left] = Sub(h, h[m].left) /\ solved[h[m].right] = Sub(h, h[m].right)
      BY <3>1 DEF Nodes
    <3> HIDE DEF solved
    <3> QED
      BY <2>2, <3>1, <3>2
  <2> QED
    BY <2>1, <2>2
<1>3. solved = [m \in DOMAIN h \cup {Null} |-> Turn(solved, m)]
  BY <1>2
<1>4. reach = [m \in DOMAIN h \cup {Null} |-> Turn(reach, m)]
  BY <1>3
<1> HIDE DEF reach
<1>5. reach[Null] = {} /\ \A m \in DOMAIN h : m # Null => reach[m] = {m} \cup reach[h[m].left] \cup reach[h[m].right]
  BY <1>4
<1> QED
  BY <1>1, <1>5 DEF Closed

\* It gives the nodes of a balanced search tree.
LEMMA Reaches ==
  ASSUME NEW h, Closed(h), NEW n, AVL(h, n)
  PROVE  Reach(h, n) = Sub(h, n)
<1> DEFINE Bad == {m \in DOMAIN h : AVL(h, m) /\ Reach(h, m) # Sub(h, m)}
<1>1. Reach(h, Null) = Sub(h, Null)
  BY ReachStep, SubNull
<1>2. ASSUME NEW m \in Bad
      PROVE  \E side \in Sides : h[m][side] \in Bad
  <2>1. SUFFICES ASSUME h[m].left \notin Bad, h[m].right \notin Bad PROVE FALSE
    BY DEF Sides
  <2>2. m \in DOMAIN h /\ AVL(h, m) /\ Reach(h, m) # Sub(h, m)
    OBVIOUS
  <2>3. AVL(h, h[m].left) /\ AVL(h, h[m].right) /\ h[m].left \in Nodes(h) /\ h[m].right \in Nodes(h)
    BY <2>2, Children DEF Sides
  <2>4. Reach(h, h[m].left) = Sub(h, h[m].left)
    BY <1>1, <2>1, <2>3 DEF Nodes
  <2>5. Reach(h, h[m].right) = Sub(h, h[m].right)
    BY <1>1, <2>1, <2>3 DEF Nodes
  <2>6. Reach(h, m) = {m} \cup Reach(h, h[m].left) \cup Reach(h, h[m].right)
    BY <2>2, ReachStep
  <2> QED
    BY <2>2, <2>4, <2>5, <2>6, SubNode
<1>3. Bad = {}
  <2>1. \A m \in Bad : m \in DOMAIN h /\ AVL(h, m) /\ \E side \in Sides : h[m][side] \in Bad
    BY <1>2
  <2> HIDE DEF Bad
  <2> QED
    BY <2>1, HeightInduction
<1> QED
  BY <1>1, <1>3 DEF AVL, Nodes


-----------------------------------------------------------------------------
(* insert_internal. *)

Kept(I, key, replace) == ~replace /\ \E i \in I : i[1] = key

\* The items of a tree once a key is inserted.
Stored(I, key, value, replace) ==
  IF Kept(I, key, replace) THEN I ELSE {i \in I : i[1] # key} \cup {<<key, value>>}

\* A tree that an insertion has made higher: it has the key at its root, or it is higher where the key is.
Leaning(h, n, key) ==
  IF h[n].key = key THEN Height(h, n) = 1
  ELSE Height(h, h[n][Side(key, h[n].key)]) > Height(h, h[n][Other(Side(key, h[n].key))])

Grown(h, n, key, s) ==
  Height(s.heap, s.node) = Height(h, n) + 1 => s.finkey \in Sub(s.heap, s.node) /\ Leaning(s.heap, s.node, key)

\* What insert_internal returns for the tree from n down: the tree is the old one, or its root is new.
InsertedInto(h, n, key, value, replace, s) ==
  /\ Sane(s.heap) /\ Extends(h, s.heap)
  /\ Tree(s.heap, s.node, Height(s.heap, s.node), Stored(ItemsOf(h, n), key, value, replace))
  /\ Height(s.heap, s.node) \in {Height(h, n), Height(h, n) + 1}
  /\ IF Kept(ItemsOf(h, n), key, replace) THEN s.node = n /\ s.heap = h ELSE s.node \notin Nodes(h)
  /\ s.finkey \in DOMAIN s.heap /\ s.heap[s.finkey].key = key /\ s.stale = FALSE
  /\ Grown(h, n, key, s)

\* Comparing keys.
LEMMA SideOf ==
  ASSUME NEW a \in Keys, NEW b \in Keys
  PROVE  /\ Same(a, b) <=> a = b
         /\ Side(a, b) \in Sides
         /\ a # b => Before(Side(a, b), a, b)
BY LessAssumption DEF Same, Side, Sides, Before

\* A key that belongs on a side is not among the items on the other.
LEMMA NotBeyond ==
  ASSUME NEW side \in Sides, NEW key \in Keys, NEW k \in Keys, Before(side, key, k),
         NEW B \in SUBSET (Keys \X Values), Beside(Other(side), B, k)
  PROVE  \A i \in B : i[1] # key
<1> SUFFICES ASSUME NEW i \in B, i[1] = key PROVE FALSE
  OBVIOUS
<1>1. Before(Other(side), key, k)
  BY DEF Beside
<1>2. Before(side, k, key)
  BY <1>1, BeforeOther
<1> QED
  BY <1>2, BeforeOrder

\* The items of a node and of the trees below it.
Over(k, v, A, B, I) == I = A \cup B \cup {<<k, v>>}

\* Inserting below a node leaves the other items of the node alone.
LEMMA StoredBelow ==
  ASSUME NEW side \in Sides, NEW key \in Keys, NEW value \in Values, NEW replace \in BOOLEAN, NEW k \in Keys, NEW v, Before(side, key, k),
         NEW A \in SUBSET (Keys \X Values), Beside(side, A, k), NEW B \in SUBSET (Keys \X Values), Beside(Other(side), B, k),
         NEW I, Over(k, v, A, B, I)
  PROVE  /\ Kept(I, key, replace) <=> Kept(A, key, replace)
         /\ Over(k, v, Stored(A, key, value, replace), B, Stored(I, key, value, replace))
         /\ Beside(side, Stored(A, key, value, replace), k)
<1>1. \A i \in B : i[1] # key
  BY NotBeyond
<1>2. k # key /\ <<k, v>>[1] = k /\ <<key, value>>[1] = key
  BY BeforeOrder
<1>3. \A i \in I : i[1] = key <=> i \in A /\ i[1] = key
  BY <1>1, <1>2 DEF Over
<1>4. Kept(I, key, replace) <=> Kept(A, key, replace)
  BY <1>3 DEF Kept, Over
<1>5. {i \in I : i[1] # key} = {i \in A : i[1] # key} \cup B \cup {<<k, v>>}
  BY <1>1, <1>2 DEF Over
<1>6. Over(k, v, Stored(A, key, value, replace), B, Stored(I, key, value, replace))
  BY <1>4, <1>5 DEF Stored, Over
<1>7. Beside(side, Stored(A, key, value, replace), k)
  BY <1>2 DEF Stored, Beside
<1> QED
  BY <1>4, <1>6, <1>7

\* A null pointer: the leaf is inserted.
LEMMA InsertsLeaf ==
  ASSUME NEW h, Sane(h), NEW key \in Keys, NEW value \in Values, NEW replace \in BOOLEAN,
         NEW leaf, leaf = CreateNode(h, [key |-> key, value |-> value, height |-> 1, left |-> Null, right |-> Null])
  PROVE  InsertedInto(h, Null, key, value, replace, Inserted(leaf, leaf.node, FALSE))
<1> DEFINE x == [key |-> key, value |-> value, height |-> 1, left |-> Null, right |-> Null]
           s == Inserted(leaf, leaf.node, FALSE)
           g == leaf.heap
           n == leaf.node
<1>1. Record(x) /\ x.left \in Nodes(h) /\ x.right \in Nodes(h)
  BY DEF Record, Nodes
<1>2. Added(h, g, n, x)
  BY <1>1, Creates
<1>3. s.heap = g /\ s.node = n /\ s.finkey = n /\ s.stale = FALSE
  BY DEF Inserted
<1>4. /\ Sane(g) /\ Extends(h, g) /\ n \notin Nodes(h) /\ n \in DOMAIN g /\ Closed(g) /\ n # Null /\ n \in Nodes(g)
      /\ g[n].key = key /\ g[n].value = value /\ g[n].height = 1 /\ g[n].left = Null /\ g[n].right = Null
  BY <1>2 DEF Added, Sane, Nodes
<1> HIDE DEF s, g, n
<1>5. Tree(g, g[n].left, 0, {}) /\ Tree(g, g[n].right, 0, {})
  BY <1>4, TreeNull
<1>6. Near(0, 0) /\ Above(0, 0) = 1 /\ \A side : Beside(side, {}, key)
  BY DEF Near, Above, Beside
<1>7. Tree(g, n, Above(0, 0), {} \cup {} \cup {<<key, value>>})
  BY <1>4, <1>5, <1>6, Join
<1>8. Height(g, n) = 1 /\ Height(h, Null) = 0
  BY <1>4 DEF Height
<1>9. ItemsOf(h, Null) = {}
  BY SubNull DEF ItemsOf
<1>10. ~Kept({}, key, replace) /\ Stored({}, key, value, replace) = {} \cup {} \cup {<<key, value>>}
  BY DEF Kept, Stored
<1>11. n \in Sub(g, n)
  BY <1>4, SubDown
<1>12. Grown(h, Null, key, s)
  BY <1>3, <1>4, <1>8, <1>11 DEF Grown, Leaning
<1>13. Tree(g, n, Height(g, n), Stored(ItemsOf(h, Null), key, value, replace))
  BY <1>6, <1>7, <1>8, <1>9, <1>10
<1>14. Height(g, n) \in {Height(h, Null), Height(h, Null) + 1}
  BY <1>8
<1>15. InsertedInto(h, Null, key, value, replace, s)
  BY <1>3, <1>4, <1>9, <1>10, <1>12, <1>13, <1>14 DEF InsertedInto
<1> QED
  BY <1>15 DEF s

\* An equal key: the node is kept, or replaced by one with the same children.
LEMMA InsertsHere ==
  ASSUME NEW h, Sane(h), NEW n \in DOMAIN h, AVL(h, n), NEW key \in Keys, key = h[n].key,
         NEW value \in Values, NEW replace \in BOOLEAN
  PROVE  InsertedInto(h, n, key, value, replace, InsertHere(h, n, key, value, replace))
<1> DEFINE l == h[n].left
           r == h[n].right
           a == Height(h, l)
           b == Height(h, r)
           L == ItemsOf(h, l)
           R == ItemsOf(h, r)
           I == ItemsOf(h, n)
           H == Height(h, n)
           s == InsertHere(h, n, key, value, replace)
<1>1. Closed(h) /\ "left" \in Sides /\ Other("left") = "right" /\ n \in Nodes(h) /\ n # Null /\ Record(h[n])
  BY DEF Sane, Closed, Sides, Other, Nodes
<1>2. /\ Tree(h, l, a, L) /\ Tree(h, r, b, R) /\ Near(a, b) /\ H = Above(a, b) /\ h[n].height = Above(a, b)
      /\ Beside("left", L, key) /\ Beside("right", R, key) /\ I = L \cup R \cup {<<key, h[n].value>>}
  BY <1>1, Split
<1>3. a \in Nat /\ b \in Nat /\ H \in Nat /\ L \in SUBSET (Keys \X Values) /\ R \in SUBSET (Keys \X Values)
  <2>1. a \in Nat /\ b \in Nat /\ L \in SUBSET (Keys \X Values) /\ R \in SUBSET (Keys \X Values)
    BY <1>1, <1>2, TreeParts
  <2> HIDE DEF a, b, H
  <2> QED
    BY <1>2, <2>1, AboveNat
<1>4. <<key, h[n].value>>[1] = key /\ <<key, value>>[1] = key /\ H # H + 1
  BY <1>3
<1> HIDE DEF l, r, a, b, L, R, I, H
<1>5. CASE ~replace
  <2>1. Kept(I, key, replace)
    BY <1>2, <1>4, <1>5 DEF Kept
  <2>2. s.heap = h /\ s.node = n /\ s.finkey = n /\ s.stale = FALSE
    BY <1>5 DEF InsertHere, Inserted, Got
  <2>3. Stored(I, key, value, replace) = I
    BY <2>1 DEF Stored
  <2>4. Tree(h, n, H, I)
    BY DEF Tree, H, I
  <2> HIDE DEF s
  <2>5. Grown(h, n, key, s)
    BY <1>4, <2>2 DEF Grown, H
  <2>6. InsertedInto(h, n, key, value, replace, s)
    BY <1>1, <2>1, <2>2, <2>3, <2>4, <2>5 DEF InsertedInto, Extends, H, I
  <2> QED
    BY <2>6 DEF s
<1>6. CASE replace
  <2> DEFINE x == [h[n] EXCEPT !.key = key, !.value = value]
             c == CreateNode(h, x)
             g == c.heap
             m == c.node
  <2>1. /\ Record(x) /\ x.left = l /\ x.right = r /\ x.key = key /\ x.value = value /\ x.height = h[n].height
    <3> DEFINE old == h[n]
    <3>1. Record(old) /\ old.left = l /\ old.right = r /\ old.height = h[n].height
      BY <1>1 DEF l, r
    <3> HIDE DEF old
    <3>2. x = [old EXCEPT !.key = key, !.value = value]
      BY DEF old
    <3> HIDE DEF x
    <3> QED
      BY <3>1, <3>2 DEF Record
  <2>2. l \in Nodes(h) /\ r \in Nodes(h)
    BY <1>1, <1>2, TreeParts
  <2> HIDE DEF x
  <2>3. Added(h, g, m, x)
    BY <2>1, <2>2, Creates
  <2>4. s.heap = g /\ s.node = m /\ s.finkey = m /\ s.stale = FALSE
    BY <1>6 DEF InsertHere, Inserted, x
  <2>5. /\ Sane(g) /\ Extends(h, g) /\ Closed(g) /\ m \notin Nodes(h) /\ m \in DOMAIN g /\ m # Null
        /\ g[m].key = key /\ g[m].value = value /\ g[m].height = Above(a, b) /\ g[m].left = l /\ g[m].right = r
    BY <1>2, <2>1, <2>3 DEF Added, Sane
  <2> HIDE DEF s, c
  <2>6. Tree(g, l, a, L) /\ Tree(g, r, b, R)
    BY <1>1, <1>2, <2>5, TreeFrame
  <2>7. Tree(g, m, Above(a, b), L \cup R \cup {<<key, value>>})
    BY <1>2, <2>5, <2>6, Join
  <2>8. Height(g, m) = H
    BY <1>2, <2>5 DEF Height
  <2>9. (\A i \in L : i[1] # key) /\ (\A i \in R : i[1] # key)
    BY <1>2, <1>3, BeforeOrder DEF Beside, Sides
  <2>10. {i \in I : i[1] # key} = L \cup R
    BY <1>2, <1>4, <2>9
  <2>11. ~Kept(I, key, replace) /\ Stored(I, key, value, replace) = L \cup R \cup {<<key, value>>}
    BY <1>6, <2>10 DEF Kept, Stored
  <2>12. Tree(g, m, H, Stored(I, key, value, replace))
    BY <1>2, <2>7, <2>11
  <2>13. Grown(h, n, key, s)
    BY <1>4, <2>4, <2>8 DEF Grown, H
  <2>14. InsertedInto(h, n, key, value, replace, s)
    BY <2>4, <2>5, <2>8, <2>11, <2>12, <2>13 DEF InsertedInto, H, I
  <2> QED
    BY <2>14 DEF s
<1> QED
  BY <1>5, <1>6

\* A result for the child on the side of the key makes one for the node.
LEMMA InsertsAbove ==
  ASSUME NEW h, Sane(h), NEW n \in DOMAIN h, AVL(h, n), NEW key \in Keys, key # h[n].key,
         NEW value \in Values, NEW replace \in BOOLEAN, NEW side, side = Side(key, h[n].key),
         NEW child, child = h[n][side], NEW s, InsertedInto(h, child, key, value, replace, s)
  PROVE  InsertedInto(h, n, key, value, replace, InsertAbove(n, side, s))
<1> DEFINE low == h[n][Other(side)]
           a == Height(h, child)
           b == Height(h, low)
           A == ItemsOf(h, child)
           B == ItemsOf(h, low)
           I == ItemsOf(h, n)
           H == Height(h, n)
           k == h[n].key
           N == <<h[n].key, h[n].value>>
           S == Stored(A, key, value, replace)
           hs == s.heap
           c == Height(hs, s.node)
           dup == DuplicateNode(hs, n, side, s.node)
           m == dup.node
           g == UpdateHeight(dup.heap, dup.node)
           read == HeavySide(g, m) # "none"
           made == RebalanceInserted(g, m, g[s.finkey].key)
           t == InsertAbove(n, side, s)
<1>1. Closed(h) /\ n \in Nodes(h) /\ n # Null /\ side \in Sides /\ k \in Keys /\ Before(side, key, k)
  <2>1. Closed(h) /\ n \in Nodes(h) /\ n # Null /\ "left" \in Sides
    BY DEF Sane, Closed, Nodes, Sides
  <2>2. h[n].key \in Keys
    BY <2>1, Split
  <2> QED
    BY <2>1, <2>2, SideOf
<1>2. t = Inserted(made, s.finkey, s.stale \/ (read /\ s.finkey \notin Reach(g, m)))
  BY DEF InsertAbove
<1>3. /\ t.heap = made.heap /\ t.node = made.node /\ t.finkey = s.finkey
      /\ s.stale = FALSE /\ (~read \/ s.finkey \in Reach(g, m)) => t.stale = FALSE
  <2>1. t.heap = made.heap /\ t.node = made.node /\ t.finkey = s.finkey /\ t.stale = (s.stale \/ (read /\ s.finkey \notin Reach(g, m)))
    <3> DEFINE z == s.stale \/ (read /\ s.finkey \notin Reach(g, m))
    <3>1. t = Inserted(made, s.finkey, z)
      BY <1>2
    <3> HIDE DEF t, made, read, g, m, z
    <3>2. t.heap = made.heap /\ t.node = made.node /\ t.finkey = s.finkey /\ t.stale = z
      BY <3>1 DEF Inserted
    <3> QED
      BY <3>2 DEF z
  <2> HIDE DEF t, made, read, g, m
  <2> QED
    BY <2>1, Zenon
<1>4. /\ Tree(h, child, a, A) /\ Tree(h, low, b, B) /\ Near(a, b) /\ H = Above(a, b)
      /\ Beside(side, A, k) /\ Beside(Other(side), B, k) /\ I = A \cup B \cup {N} /\ h[n].value \in Values
  BY <1>1, Split
<1>5. a \in Nat /\ b \in Nat /\ A \in SUBSET (Keys \X Values) /\ B \in SUBSET (Keys \X Values) /\ H \in Nat /\ low \in Nodes(h)
  <2>1. a \in Nat /\ b \in Nat /\ A \in SUBSET (Keys \X Values) /\ B \in SUBSET (Keys \X Values) /\ low \in Nodes(h)
    BY <1>1, <1>4, TreeParts
  <2> HIDE DEF a, b, H
  <2> QED
    BY <1>4, <2>1, AboveNat
<1> HIDE DEF a, b, A, B, I, H, S, t, made, read
<1>6. Over(k, h[n].value, A, B, I)
  BY <1>4 DEF Over
<1>7. /\ Kept(I, key, replace) <=> Kept(A, key, replace)
      /\ Over(k, h[n].value, Stored(A, key, value, replace), B, Stored(I, key, value, replace))
      /\ Beside(side, Stored(A, key, value, replace), k)
  BY <1>1, <1>4, <1>5, <1>6, StoredBelow, SMTT(60)
<1>8. Beside(side, S, k)
  BY <1>7 DEF S
<1>9. Stored(I, key, value, replace) = S \cup B \cup {N}
  BY <1>7 DEF S, Over
<1>10. /\ Sane(hs) /\ Extends(h, hs) /\ Tree(hs, s.node, c, S) /\ c \in {a, a + 1}
      /\ IF Kept(A, key, replace) THEN s.node = child /\ hs = h ELSE s.node \notin Nodes(h)
      /\ s.finkey \in DOMAIN hs /\ hs[s.finkey].key = key /\ s.stale = FALSE
  BY DEF InsertedInto, a, A, S
<1>11. s.stale = FALSE /\ s.finkey \in DOMAIN hs /\ hs[s.finkey].key = key
  BY DEF InsertedInto
<1>12. c = a + 1 => s.finkey \in Sub(hs, s.node) /\ Leaning(hs, s.node, key)
  BY DEF InsertedInto, Grown, a
<1>13. CASE Kept(A, key, replace)
  <2>1. dup = Got(h, n) /\ UpdateHeight(h, n) = h
    BY <1>1, <1>10, <1>13, RebuildSame
  <2>2. m = n /\ g = h
    BY <2>1 DEF Got
  <2>3. /\ h[n].height = Above(a, b) /\ Height(h, n) = h[n].height
    BY <1>1, Split DEF a, b
  <2>4. Root(h, n, side, a, A, b, B)
    BY <1>1, <1>4, <2>3 DEF Root
  <2>5. HeavySide(h, n) = "none" /\ \A x : RebalanceInserted(h, n, x) = Got(h, n)
    BY <1>1, <1>4, <2>4, Heavy, RebalancesNear
  <2>6. ~read /\ made.heap = h /\ made.node = n
    BY <2>2, <2>5 DEF read, made, Got
  <2>7. Stored(I, key, value, replace) = I /\ Kept(I, key, replace)
    BY <1>7, <1>13 DEF Stored
  <2>8. Tree(h, n, H, I)
    BY DEF Tree, H, I
  <2>9. t.heap = h /\ t.node = n /\ t.finkey \in DOMAIN h /\ h[t.finkey].key = key /\ t.stale = FALSE
    <3>1. hs = h
      BY <1>10, <1>13
    <3>2. t.heap = h /\ t.node = n /\ t.finkey = s.finkey /\ t.stale = FALSE
      BY <1>3, <1>11, <2>6
    <3> QED
      BY <1>11, <3>1, <3>2
  <2>10. Grown(h, n, key, t)
    <3>1. H # H + 1
      BY <1>5
    <3> QED
      BY <2>9, <3>1 DEF Grown, H
  <2>11. InsertedInto(h, n, key, value, replace, t)
    BY <1>10, <1>13, <2>7, <2>8, <2>9, <2>10 DEF InsertedInto, H, I
  <2> QED
    BY <2>11 DEF t
<1>14. CASE ~Kept(A, key, replace)
  <2>1. n \in DOMAIN hs /\ hs[n] = h[n] /\ low \in Nodes(hs) /\ Height(hs, low) = b /\ ItemsOf(hs, low) = B
    <3>1. Tree(hs, low, b, B)
      BY <1>1, <1>4, <1>10, TreeFrame DEF Sane
    <3> QED
      BY <1>10, <3>1 DEF Extends, Tree, AVL
  <2>2. AVL(hs, n)
    <3>1. Tree(h, n, H, I)
      BY DEF Tree, H, I
    <3>2. Tree(hs, n, H, I)
      BY <1>1, <1>10, <3>1, TreeFrame DEF Sane
    <3> QED
      BY <3>2 DEF Tree
  <2>3. s.node # hs[n][side]
    <3>1. child \in Nodes(h)
      BY <1>1, <1>4, TreeParts
    <3> QED
      BY <1>10, <1>14, <2>1, <3>1
  <2>4. /\ Sane(g) /\ Extends(hs, g) /\ m \notin Nodes(hs) /\ Root(g, m, side, c, S, b, B)
        /\ g[m].key = k /\ g[m].value = h[n].value /\ g[m][side] = s.node
    BY <1>1, <1>8, <1>10, <2>1, <2>2, <2>3, Rebuild
  <2>5. Below(g, m, S, B) = S \cup B \cup {N} /\ Closed(g) /\ Closed(hs)
    BY <1>10, <2>4 DEF Below, Sane
  <2>6. Below(g, m, S, B) = Stored(I, key, value, replace)
    BY <1>9, <2>5
  <2>7. s.finkey \in DOMAIN g /\ g[s.finkey].key = key
    <3> HIDE DEF g, m, hs
    <3> QED
      BY <1>11, <2>4 DEF Extends
  <2> HIDE DEF g, m, hs, c
  <2>8. c \in Nat /\ m \in DOMAIN g /\ Height(g, m) = Above(c, b) /\ c = Height(g, g[m][side]) /\ b = Height(g, g[m][Other(side)])
    <3>1. Sane(g) /\ Root(g, m, side, c, S, b, B) /\ side \in Sides
      BY <1>1, <2>4
    <3> QED
      BY <3>1, RootParts
  <2>9. m \notin Nodes(h) /\ Extends(h, g)
    BY <1>10, <2>4 DEF Nodes, Extends
  <2>10. CASE Near(c, b)
    <3>1. ~read /\ made = Got(g, m)
      <4>1. HeavySide(g, m) = "none" /\ \A x : RebalanceInserted(g, m, x) = Got(g, m)
        BY <1>1, <2>4, <2>10, Heavy, RebalancesNear
      <4> QED
        BY <4>1 DEF read, made
    <3>2. t.heap = g /\ t.node = m /\ t.finkey = s.finkey /\ t.stale = FALSE
      <4>1. made.heap = g /\ made.node = m
        BY <3>1 DEF Got
      <4> QED
        BY <1>3, <1>11, <3>1, <4>1 DEF g, m
    <3>3. Tree(g, m, Above(c, b), Below(g, m, S, B))
      BY <1>1, <2>4, <2>10, RootNear
    <3>4. Above(c, b) \in {H, H + 1} /\ (Above(c, b) = H + 1 => c = a + 1 /\ c > b)
      BY <1>4, <1>5, <1>10 DEF Above
    <3>5. Grown(h, n, key, t)
      <4>1. SUFFICES ASSUME c = a + 1, c > b PROVE s.finkey \in Sub(g, m) /\ Leaning(g, m, key)
        BY <2>8, <3>2, <3>4 DEF Grown, H
      <4>2. s.finkey \in Sub(hs, s.node)
        BY <1>12, <4>1
      <4>3. s.node \in Nodes(hs)
        BY <1>10 DEF Tree, AVL
      <4>4. Sub(g, s.node) = Sub(hs, s.node)
        BY <2>4, <2>5, <4>3, SubFrame
      <4>5. Sub(g, s.node) \subseteq Sub(g, m)
        BY <1>1, <2>4, <2>5, <2>8, SubNode DEF Sides
      <4>6. Leaning(g, m, key)
        BY <2>4, <2>8, <4>1 DEF Leaning
      <4> QED
        BY <4>2, <4>4, <4>5, <4>6
    <3>6. InsertedInto(h, n, key, value, replace, t)
      <4>1. Tree(t.heap, t.node, Height(t.heap, t.node), Stored(ItemsOf(h, n), key, value, replace))
        BY <2>6, <2>8, <3>2, <3>3 DEF I
      <4>2. Height(t.heap, t.node) \in {Height(h, n), Height(h, n) + 1}
        BY <2>8, <3>2, <3>4 DEF H
      <4> QED
        BY <1>7, <1>14, <2>4, <2>7, <2>9, <3>2, <3>5, <4>1, <4>2 DEF InsertedInto, I
    <3> QED
      BY <3>6 DEF t
  <2>11. CASE ~Near(c, b)
    <3>1. c = b + 2 /\ c = a + 1 /\ H = b + 2 /\ c > 1
      BY <1>4, <1>5, <1>10, <2>11 DEF Near, Above
    <3>2. s.finkey \in Sub(hs, s.node) /\ Leaning(hs, s.node, key)
      BY <1>12, <3>1
    <3>3. AVL(hs, s.node) /\ s.node \in DOMAIN hs /\ c = Height(hs, s.node)
      <4>1. Tree(hs, s.node, c, S)
        BY <1>10
      <4>2. c # 0
        BY <3>1
      <4>3. s.node # Null
        BY <2>5, <4>1, <4>2, TreeParts
      <4> QED
        BY <4>1, <4>3 DEF Tree, AVL, Nodes
    <3> DEFINE u == s.node
               inner == Side(key, hs[u].key)
    <3>4. hs[u].key \in Keys /\ hs[u].key # key
      <4>1. hs[u].key \in Keys
        BY <1>1, <2>5, <3>3, Split
      <4> QED
        BY <3>1, <3>2, <3>3, <4>1 DEF Leaning
    <3>5. ~Same(key, hs[u].key) /\ inner \in Sides /\ Height(hs, hs[u][inner]) > Height(hs, hs[u][Other(inner)])
      BY <3>2, <3>4, SideOf DEF Leaning
    <3>6. g[u] = hs[u] /\ Height(g, hs[u][inner]) = Height(hs, hs[u][inner]) /\ Height(g, hs[u][Other(inner)]) = Height(hs, hs[u][Other(inner)])
      <4>1. hs[u][inner] \in Nodes(hs) /\ hs[u][Other(inner)] \in Nodes(hs)
        BY <2>5, <3>3, <3>5, SubNode DEF Sides, Other
      <4> QED
        BY <2>4, <3>3, <4>1, HeightFrame DEF Extends
    <3>7. made = RebalanceInserted(g, m, key)
      BY <2>7 DEF made, g, m
    <3> HIDE DEF u, inner
    <3>8. u = g[m][side] /\ ~Same(key, g[u].key) /\ inner = Side(key, g[u].key) /\ Height(g, g[u][inner]) > Height(g, g[u][Other(inner)])
      BY <2>4, <3>5, <3>6 DEF u, inner
    <3>9. Makes(g, made, b + 2, Below(g, m, S, B))
      BY <1>1, <2>4, <3>1, <3>7, <3>8, RebalancesInserted
    <3>10. /\ Sane(made.heap) /\ Extends(g, made.heap) /\ made.node \notin Nodes(g)
           /\ Tree(made.heap, made.node, b + 2, Below(g, m, S, B))
      BY <3>9 DEF Makes
    <3>11. s.finkey \in Reach(g, m)
      <4>1. Tree(g, s.node, c, S) /\ g[m][side] = s.node
        BY <2>4 DEF Root
      <4>2. Reach(g, s.node) = Sub(g, s.node)
        BY <2>5, <4>1, Reaches DEF Tree
      <4>3. Sub(g, s.node) = Sub(hs, s.node)
        BY <2>4, <2>5, <3>3, SubFrame DEF Nodes
      <4>4. Reach(g, m) = {m} \cup Reach(g, g[m].left) \cup Reach(g, g[m].right)
        BY <2>5, <2>8, ReachStep
      <4>5. Reach(g, g[m][side]) \subseteq Reach(g, m)
        BY <1>1, <4>4 DEF Sides
      <4> QED
        BY <3>2, <4>1, <4>2, <4>3, <4>5
    <3>12. t.heap = made.heap /\ t.node = made.node /\ t.finkey = s.finkey /\ t.stale = FALSE
      BY <1>3, <1>11, <3>11 DEF g, m
    <3>13. /\ Extends(h, t.heap) /\ t.node \notin Nodes(h) /\ t.finkey \in DOMAIN t.heap /\ t.heap[t.finkey].key = key
      BY <2>7, <2>9, <3>10, <3>12 DEF Extends, Nodes
    <3>14. Height(t.heap, t.node) = H
      BY <3>1, <3>10, <3>12 DEF Tree
    <3>15. Grown(h, n, key, t)
      <4>1. H # H + 1
        BY <1>5
      <4> QED
        BY <3>14, <4>1 DEF Grown, H
    <3>16. InsertedInto(h, n, key, value, replace, t)
      <4>1. Tree(t.heap, t.node, Height(t.heap, t.node), Stored(ItemsOf(h, n), key, value, replace))
        BY <2>6, <3>1, <3>10, <3>12, <3>14 DEF I
      <4>2. Height(t.heap, t.node) \in {Height(h, n), Height(h, n) + 1}
        BY <3>14 DEF H
      <4> QED
        BY <1>7, <1>14, <3>10, <3>12, <3>13, <3>15, <4>1, <4>2 DEF InsertedInto, I
    <3> QED
      BY <3>16 DEF t
  <2> QED
    BY <2>10, <2>11
<1> QED
  BY <1>13, <1>14

\* insert_internal inserts.
LEMMA Inserts ==
  ASSUME NEW h, Sane(h), \A m \in DOMAIN h : AVL(h, m), NEW key \in Keys, NEW value \in Values,
         NEW replace \in BOOLEAN, NEW root \in Nodes(h)
  PROVE  InsertedInto(h, root, key, value, replace, InsertInternal(h, root, key, value, replace))
<1> DEFINE leaf == CreateNode(h, [key |-> key, value |-> value, height |-> 1, left |-> Null, right |-> Null])
           next(m) == h[m][Side(key, h[m].key)]
           Turn(f, m) == IF m = Null THEN Inserted(leaf, leaf.node, FALSE)
                         ELSE IF Same(key, h[m].key) THEN InsertHere(h, m, key, value, replace)
                         ELSE InsertAbove(m, Side(key, h[m].key), f[next(m)])
           insert[n \in DOMAIN h \cup {Null}] ==
            IF n = Null THEN Inserted(leaf, leaf.node, FALSE)
            ELSE IF Same(key, h[n].key) THEN InsertHere(h, n, key, value, replace)
            ELSE LET side == Side(key, h[n].key) IN InsertAbove(n, side, insert[h[n][side]])
           Upto(i) == {m \in Nodes(h) : Height(h, m) <= i}
           Solves(f, i) == \A m \in Upto(i) : f[m] = Turn(f, m)
<1>1. Closed(h) /\ Null \in Nodes(h) /\ Height(h, Null) = 0
  BY DEF Sane, Nodes, Height
<1>2. \A m \in Nodes(h) : Height(h, m) \in Nat
  <2>1. \A m \in DOMAIN h : Height(h, m) \in Nat
    BY <1>1, Children DEF Sides
  <2> QED
    BY <1>1, <2>1 DEF Nodes
<1>3. ASSUME NEW m \in DOMAIN h
      PROVE  /\ h[m].key \in Keys /\ Side(key, h[m].key) \in Sides /\ next(m) \in Nodes(h)
             /\ Height(h, next(m)) < Height(h, m)
  <2>1. h[m].key \in Keys
    <3>1. "left" \in Sides
      BY DEF Sides
    <3> QED
      BY <1>1, <3>1, Split
  <2>2. Side(key, h[m].key) \in Sides
    BY <2>1, SideOf
  <2> QED
    BY <1>1, <2>1, <2>2, Children
<1>4. \A m \in Nodes(h) : m = Null \/ m \in DOMAIN h
  BY DEF Nodes
<1>5. \A f, g : \A m \in Nodes(h) : m = Null \/ f[next(m)] = g[next(m)] => Turn(f, m) = Turn(g, m)
  OBVIOUS
<1> HIDE DEF Turn, next
<1>6. \A i \in Nat : \E f : Solves(f, i)
  <2> DEFINE Bad == {i \in Nat : ~\E f : Solves(f, i)}
  <2> SUFFICES ASSUME Bad # {} PROVE FALSE
    OBVIOUS
  <2>1. PICK i \in Bad : \A j \in Bad : i <= j
    BY LeastNat
  <2>2. PICK f : i > 0 => Solves(f, i - 1)
    <3>1. i \in Nat
      OBVIOUS
    <3>2. CASE i > 0
      <4>1. i - 1 \in Nat /\ ~(i <= i - 1)
        BY <3>1, <3>2
      <4> QED
        BY <2>1, <4>1
    <3> QED
      BY <3>2
  <2> DEFINE g == [m \in Nodes(h) |-> Turn(f, m)]
  <2>3. ASSUME NEW m \in Upto(i)
        PROVE  g[m] = Turn(g, m)
    <3>1. m \in Nodes(h) /\ Height(h, m) <= i /\ g[m] = Turn(f, m)
      OBVIOUS
    <3>2. CASE m = Null
      BY <1>5, <3>1, <3>2
    <3>3. CASE m \in DOMAIN h
      <4> DEFINE k == next(m)
      <4>1. k \in Nodes(h) /\ Height(h, k) < Height(h, m) /\ Height(h, k) \in Nat /\ Height(h, m) \in Nat /\ i \in Nat
        BY <1>2, <1>3, <3>1, <3>3
      <4>2. i > 0 /\ k \in Upto(i - 1)
        BY <3>1, <4>1
      <4>3. g[k] = f[k]
        BY <2>2, <4>1, <4>2
      <4> QED
        BY <1>5, <3>1, <4>3
    <3> QED
      BY <1>4, <3>1, <3>2, <3>3
  <2>4. Solves(g, i)
    BY <2>3
  <2> QED
    BY <2>4
<1>7. ASSUME NEW f, NEW g, NEW i \in Nat, NEW j \in Nat, Solves(f, i), Solves(g, j)
      PROVE  \A m \in Upto(i) \cap Upto(j) : f[m] = g[m]
  <2> DEFINE Bad == {m \in DOMAIN h : m \in Upto(i) /\ m \in Upto(j) /\ f[m] # g[m]}
  <2>1. f[Null] = g[Null]
    <3>1. Null \in Upto(i) /\ Null \in Upto(j)
      BY <1>1
    <3> QED
      BY <1>1, <1>5, <1>7, <3>1
  <2>2. ASSUME NEW m \in Bad
        PROVE  m \in DOMAIN h /\ AVL(h, m) /\ \E side \in Sides : h[m][side] \in Bad
    <3> DEFINE k == next(m)
    <3>1. m \in DOMAIN h /\ m \in Upto(i) /\ m \in Upto(j) /\ f[m] # g[m]
      OBVIOUS
    <3>2. k \in Nodes(h) /\ Height(h, k) < Height(h, m) /\ Height(h, k) \in Nat /\ Height(h, m) \in Nat
      BY <1>2, <1>3, <3>1 DEF Nodes
    <3>3. k \in Upto(i) /\ k \in Upto(j)
      BY <3>1, <3>2
    <3>4. f[k] # g[k]
      BY <1>5, <1>7, <3>1 DEF Nodes
    <3>5. k \in Bad
      BY <1>4, <2>1, <3>2, <3>3, <3>4
    <3> QED
      BY <1>3, <3>1, <3>5 DEF next
  <2>3. Bad = {}
    <3> HIDE DEF Bad
    <3> QED
      BY <1>1, <2>2, HeightInduction
  <2> QED
    BY <1>4, <2>1, <2>3
<1> DEFINE F(i) == CHOOSE f : Solves(f, i)
           solved == [m \in Nodes(h) |-> F(Height(h, m))[m]]
<1>8. \A i \in Nat : Solves(F(i), i)
  BY <1>6
<1> HIDE DEF F, Solves
<1>9. ASSUME NEW m \in Nodes(h)
      PROVE  solved[m] = Turn(solved, m)
  <2> DEFINE H == Height(h, m)
  <2>1. H \in Nat /\ m \in Upto(H) /\ solved[m] = F(H)[m]
    BY <1>2
  <2>2. F(H)[m] = Turn(F(H), m)
    BY <1>8, <2>1 DEF Solves
  <2>3. CASE m = Null
    BY <1>5, <2>1, <2>2, <2>3
  <2>4. CASE m \in DOMAIN h
    <3> DEFINE k == next(m)
               K == Height(h, k)
    <3>1. k \in Nodes(h) /\ K < H /\ K \in Nat
      BY <1>2, <1>3, <2>4
    <3>2. k \in Upto(H) /\ k \in Upto(K)
      BY <2>1, <3>1
    <3>3. F(H)[k] = F(K)[k]
      BY <1>7, <1>8, <2>1, <3>1, <3>2
    <3>4. solved[k] = F(H)[k]
      BY <3>1, <3>3
    <3> HIDE DEF solved, H
    <3> QED
      BY <1>5, <2>1, <2>2, <3>4
  <2> QED
    BY <1>4, <2>3, <2>4
<1>10. solved = [m \in DOMAIN h \cup {Null} |-> Turn(solved, m)]
  <2> HIDE DEF Upto
  <2>1. \A m \in DOMAIN h \cup {Null} : solved[m] = Turn(solved, m)
    BY <1>9 DEF Nodes
  <2>2. solved = [m \in DOMAIN h \cup {Null} |-> solved[m]]
    BY DEF Nodes
  <2> HIDE DEF solved
  <2> QED
    BY <2>1, <2>2
<1> HIDE DEF solved
<1>11. insert = [m \in DOMAIN h \cup {Null} |-> Turn(insert, m)]
  BY <1>10 DEF Turn, next
<1>12. InsertInternal(h, root, key, value, replace) = insert[root]
  BY DEF InsertInternal
<1> HIDE DEF insert, leaf
<1>13. \A m \in Nodes(h) : insert[m] = Turn(insert, m)
  BY <1>11 DEF Nodes
<1> DEFINE Good(m) == InsertedInto(h, m, key, value, replace, insert[m])
           Bad == {m \in DOMAIN h : ~Good(m)}
<1>14. Good(Null)
  <2>1. insert[Null] = Inserted(leaf, leaf.node, FALSE)
    BY <1>1, <1>13 DEF Turn
  <2> QED
    BY <2>1, InsertsLeaf DEF leaf
<1>15. ASSUME NEW m \in DOMAIN h, Good(next(m))
       PROVE  Good(m)
  <2>1. insert[m] = Turn(insert, m) /\ m # Null /\ AVL(h, m) /\ h[m].key \in Keys
    BY <1>1, <1>3, <1>13 DEF Nodes, Closed
  <2>2. CASE key = h[m].key
    <3>1. insert[m] = InsertHere(h, m, key, value, replace)
      BY <2>1, <2>2, SideOf DEF Turn
    <3> QED
      BY <2>1, <2>2, <3>1, InsertsHere
  <2>3. CASE key # h[m].key
    <3>1. insert[m] = InsertAbove(m, Side(key, h[m].key), insert[next(m)])
      BY <2>1, <2>3, SideOf DEF Turn
    <3>2. InsertedInto(h, h[m][Side(key, h[m].key)], key, value, replace, insert[next(m)])
      BY <1>15 DEF next
    <3> QED
      BY <2>1, <2>3, <3>1, <3>2, InsertsAbove
  <2> QED
    BY <2>2, <2>3
<1>16. ASSUME NEW m \in Bad
       PROVE  m \in DOMAIN h /\ AVL(h, m) /\ \E side \in Sides : h[m][side] \in Bad
  <2>1. next(m) \in Bad
    BY <1>3, <1>4, <1>14, <1>15
  <2> QED
    BY <1>3, <2>1 DEF next
<1>17. Bad = {}
  <2> HIDE DEF Bad
  <2> QED
    BY <1>1, <1>16, HeightInduction
<1> QED
  BY <1>4, <1>12, <1>14, <1>17

-----------------------------------------------------------------------------
(* delete_internal. *)

\* A node of a tree with the least key.
First(h, n, k) == k \in Sub(h, n) /\ \A j \in Sub(h, n) : j = k \/ Less(h[k].key, h[j].key)

\* The least key of a tree is that of the left subtree, or at its root.
LEMMA FirstStep ==
  ASSUME NEW h, Closed(h), NEW n \in DOMAIN h, AVL(h, n)
  PROVE  /\ h[n].left = Null => First(h, n, n)
         /\ \A k : h[n].left # Null /\ First(h, h[n].left, k) => First(h, n, k)
         /\ \A k, l : First(h, n, k) /\ First(h, n, l) => k = l
<1>1. "left" \in Sides /\ Other("left") = "right"
  BY DEF Sides, Other
<1>2. Sub(h, n) = {n} \cup Sub(h, h[n].left) \cup Sub(h, h[n].right)
  BY SubNode
<1>3. /\ Beside("left", ItemsOf(h, h[n].left), h[n].key) /\ Beside("right", ItemsOf(h, h[n].right), h[n].key)
      /\ h[n].key \in Keys
  BY <1>1, Split
<1>4. ASSUME NEW j \in Sub(h, n)
      PROVE  h[j].key \in Keys
  BY DEF AVL, Local
<1>5. ASSUME NEW j \in Sub(h, h[n].right)
      PROVE  Less(h[n].key, h[j].key)
  <2>1. <<h[j].key, h[j].value>> \in ItemsOf(h, h[n].right)
    BY DEF ItemsOf
  <2> QED
    BY <1>3, <2>1, BesideSome DEF Before
<1>6. ASSUME NEW j \in Sub(h, h[n].left)
      PROVE  Less(h[j].key, h[n].key)
  <2>1. <<h[j].key, h[j].value>> \in ItemsOf(h, h[n].left)
    BY DEF ItemsOf
  <2> QED
    BY <1>3, <2>1, BesideSome DEF Before
<1>7. h[n].left = Null => First(h, n, n)
  BY <1>2, <1>5, SubNull DEF First
<1>8. ASSUME NEW k, First(h, h[n].left, k)
      PROVE  First(h, n, k)
  <2>1. k \in Sub(h, h[n].left) /\ k \in Sub(h, n) /\ n \in Sub(h, n)
    BY <1>2, <1>8 DEF First
  <2>2. ASSUME NEW j \in Sub(h, n)
        PROVE  j = k \/ Less(h[k].key, h[j].key)
    <3>1. Less(h[k].key, h[n].key) /\ h[k].key \in Keys /\ h[j].key \in Keys
      BY <1>4, <1>6, <2>1
    <3>2. CASE j \in Sub(h, h[n].right)
      BY <1>3, <1>5, <3>1, <3>2, LessAssumption
    <3> QED
      BY <1>2, <1>8, <3>1, <3>2 DEF First
  <2> QED
    BY <2>1, <2>2 DEF First
<1>9. ASSUME NEW k, NEW l, First(h, n, k), First(h, n, l)
      PROVE  k = l
  <2>1. k \in Sub(h, n) /\ l \in Sub(h, n) /\ (k = l \/ Less(h[k].key, h[l].key)) /\ (k = l \/ Less(h[l].key, h[k].key))
    BY <1>9 DEF First
  <2>2. h[k].key \in Keys /\ h[l].key \in Keys
    BY <1>4, <2>1
  <2> QED
    BY <2>1, <2>2, LessAssumption
<1> QED
  BY <1>7, <1>8, <1>9

\* MinValueNode finds the least key.
LEMMA MinValueFirst ==
  ASSUME NEW h, Closed(h), \A m \in DOMAIN h : AVL(h, m), NEW n \in DOMAIN h
  PROVE  First(h, n, MinValueNode(h, n))
<1> DEFINE Turn(f, m) == IF h[m].left = Null THEN m ELSE f[h[m].left]
           least[m \in DOMAIN h] == IF h[m].left = Null THEN m ELSE least[h[m].left]
           M(m) == CHOOSE k : First(h, m, k)
           solved == [m \in DOMAIN h |-> M(m)]
<1>1. \A m \in DOMAIN h : m \in Nodes(h) /\ h[m].left \in Nodes(h) /\ (h[m].left # Null => h[m].left \in DOMAIN h)
  BY SubNode DEF Nodes
<1> DEFINE Bad == {m \in DOMAIN h : ~\E k : First(h, m, k)}
<1>2. Bad = {}
  <2>1. ASSUME NEW m \in Bad
        PROVE  m \in DOMAIN h /\ AVL(h, m) /\ \E side \in Sides : h[m][side] \in Bad
    <3>1. m \in DOMAIN h /\ AVL(h, m) /\ ~\E k : First(h, m, k)
      OBVIOUS
    <3>2. h[m].left # Null /\ ~\E k : First(h, h[m].left, k)
      BY <3>1, FirstStep
    <3>3. h[m].left \in Bad
      BY <1>1, <3>1, <3>2
    <3> QED
      BY <3>1, <3>3 DEF Sides
  <2> HIDE DEF Bad
  <2> QED
    BY <2>1, HeightInduction
<1>3. \A m \in DOMAIN h : First(h, m, M(m))
  BY <1>2
<1> HIDE DEF M
<1>4. \A m \in DOMAIN h : Turn(solved, m) = M(m)
  <2> TAKE m \in DOMAIN h
  <2>1. CASE h[m].left = Null
    <3>1. First(h, m, m) /\ First(h, m, M(m))
      BY <1>3, <2>1, FirstStep
    <3>2. m = M(m)
      BY <3>1, FirstStep
    <3> QED
      BY <2>1, <3>2
  <2>2. CASE h[m].left # Null
    <3> DEFINE l == h[m].left
    <3>1. l \in DOMAIN h /\ solved[l] = M(l)
      BY <1>1, <2>2
    <3>2. First(h, m, M(l)) /\ First(h, m, M(m))
      BY <1>3, <2>2, <3>1, FirstStep
    <3>3. M(l) = M(m)
      BY <3>2, FirstStep
    <3> HIDE DEF solved
    <3> QED
      BY <2>2, <3>1, <3>3
  <2> QED
    BY <2>1, <2>2
<1>5. solved = [m \in DOMAIN h |-> Turn(solved, m)]
  BY <1>4
<1>6. least = [m \in DOMAIN h |-> Turn(least, m)]
  BY <1>5
<1>7. MinValueNode(h, n) = least[n]
  BY DEF MinValueNode
<1> HIDE DEF least
<1> DEFINE Wrong == {m \in DOMAIN h : ~First(h, m, least[m])}
<1>8. Wrong = {}
  <2>1. ASSUME NEW m \in Wrong
        PROVE  m \in DOMAIN h /\ AVL(h, m) /\ \E side \in Sides : h[m][side] \in Wrong
    <3>1. m \in DOMAIN h /\ AVL(h, m) /\ ~First(h, m, least[m]) /\ least[m] = Turn(least, m)
      BY <1>6
    <3>2. h[m].left # Null /\ ~First(h, h[m].left, least[h[m].left])
      BY <3>1, FirstStep
    <3>3. h[m].left \in Wrong
      BY <1>1, <3>1, <3>2
    <3> QED
      BY <3>1, <3>3 DEF Sides
  <2> HIDE DEF Wrong
  <2> QED
    BY <2>1, HeightInduction
<1> QED
  BY <1>7, <1>8

\* Items whose first, by their keys, is this one.
Leads(I, key, value) == <<key, value>> \in I /\ \A i \in I : i = <<key, value>> \/ Less(key, i[1])

\* The item of the node with the least key.
LEMMA FirstItem ==
  ASSUME NEW h, NEW n, AVL(h, n), NEW k, First(h, n, k)
  PROVE  Leads(ItemsOf(h, n), h[k].key, h[k].value) /\ h[k].key \in Keys /\ h[k].value \in Values
<1>1. k \in Sub(h, n) /\ Local(h, k)
  BY DEF First, AVL
<1>2. <<h[k].key, h[k].value>> \in ItemsOf(h, n)
  BY <1>1 DEF ItemsOf
<1>3. ASSUME NEW i \in ItemsOf(h, n)
      PROVE  i = <<h[k].key, h[k].value>> \/ Less(h[k].key, i[1])
  <2>1. PICK j \in Sub(h, n) : i = <<h[j].key, h[j].value>>
    BY DEF ItemsOf
  <2> QED
    BY <2>1 DEF First
<1> QED
  BY <1>1, <1>2, <1>3 DEF Leads, Local

Has(I, key) == \E i \in I : i[1] = key

Without(I, key) == {i \in I : i[1] # key}

\* What delete_internal returns for the tree from n down: the tree is the old one, or its root is another.
ErasedFrom(h, n, key, s) ==
  /\ Sane(s.heap) /\ Extends(h, s.heap)
  /\ Tree(s.heap, s.node, Height(s.heap, s.node), Without(ItemsOf(h, n), key))
  /\ Height(s.heap, s.node) \in {Height(h, n), Height(h, n) - 1}
  /\ IF Has(ItemsOf(h, n), key) THEN s.node # n ELSE s.node = n /\ s.heap = h

\* Erasing below a node leaves the other items of the node alone.
LEMMA WithoutBelow ==
  ASSUME NEW side \in Sides, NEW key \in Keys, NEW k \in Keys, NEW v, Before(side, key, k),
         NEW A \in SUBSET (Keys \X Values), Beside(side, A, k), NEW B \in SUBSET (Keys \X Values), Beside(Other(side), B, k),
         NEW I, Over(k, v, A, B, I)
  PROVE  /\ Has(I, key) <=> Has(A, key)
         /\ Over(k, v, Without(A, key), B, Without(I, key))
         /\ Beside(side, Without(A, key), k)
<1>1. \A i \in B : i[1] # key
  BY NotBeyond
<1>2. k # key /\ <<k, v>>[1] = k
  BY BeforeOrder
<1>3. Has(I, key) <=> Has(A, key)
  BY <1>1, <1>2 DEF Has, Over
<1>4. Without(I, key) = Without(A, key) \cup B \cup {<<k, v>>}
  BY <1>1, <1>2 DEF Without, Over
<1>5. Without(A, key) \in SUBSET A
  BY DEF Without
<1> QED
  BY <1>3, <1>4, <1>5, BesideSome DEF Over

\* The least item of the right subtree takes the place of an item.
LEMMA WithoutSuccessor ==
  ASSUME NEW k \in Keys, NEW v, NEW A \in SUBSET (Keys \X Values), Beside("left", A, k),
         NEW B \in SUBSET (Keys \X Values), Beside("right", B, k), NEW I, Over(k, v, A, B, I),
         NEW lk \in Keys, NEW lv, Leads(B, lk, lv)
  PROVE  /\ Has(I, k) /\ Has(B, lk)
         /\ Over(lk, lv, A, Without(B, lk), Without(I, k))
         /\ Beside("left", A, lk) /\ Beside("right", Without(B, lk), lk)
<1>1. <<k, v>>[1] = k /\ <<lk, lv>>[1] = lk /\ <<lk, lv>> \in B
  BY DEF Leads
<1>2. Before("right", lk, k)
  BY <1>1 DEF Beside
<1>3. Less(k, lk) /\ Before("left", k, lk) /\ "left" \in Sides /\ "right" \in Sides
  BY <1>2 DEF Before, Sides
<1>4. Beside("left", A, lk)
  BY <1>3, BesideFurther
<1>5. \A i \in B : i[1] \in Keys /\ Less(k, i[1])
  BY DEF Beside, Before
<1>6. \A i \in A : i[1] \in Keys /\ Less(i[1], k)
  BY DEF Beside, Before
<1>7. \A i \in B : i = <<lk, lv>> \/ i[1] # lk
  BY <1>5, LessAssumption DEF Leads
<1>8. \A i \in Without(B, lk) : Less(lk, i[1])
  BY <1>1 DEF Without, Leads
<1>9. Beside("right", Without(B, lk), lk)
  BY <1>8 DEF Beside, Before
<1>10. Without(I, k) = A \cup B
  BY <1>1, <1>5, <1>6, LessAssumption DEF Without, Over
<1>11. B = Without(B, lk) \cup {<<lk, lv>>}
  BY <1>1, <1>7 DEF Without
<1>12. Over(lk, lv, A, Without(B, lk), Without(I, k))
  BY <1>10, <1>11 DEF Over
<1>13. Has(I, k) /\ Has(B, lk)
  BY <1>1 DEF Has, Over
<1> QED
  BY <1>4, <1>9, <1>12, <1>13

\* The contents of a node over two trees.
Covers(h, x, a, A, b, B) ==
  /\ Record(x) /\ x.key \in Keys /\ x.value \in Values
  /\ Tree(h, x.left, a, A) /\ Beside("left", A, x.key)
  /\ Tree(h, x.right, b, B) /\ Beside("right", B, x.key)

\* A new node over two trees, and its height.
LEMMA Renew ==
  ASSUME NEW h, Sane(h), NEW x, NEW a, NEW A, NEW b, NEW B, Covers(h, x, a, A, b, B),
         NEW r, r = CreateNode(h, x), NEW g, g = UpdateHeight(r.heap, r.node)
  PROVE  /\ Sane(g) /\ Extends(h, g) /\ r.node \notin Nodes(h) /\ r.node # Null
         /\ Root(g, r.node, "left", a, A, b, B)
         /\ g[r.node].key = x.key /\ g[r.node].value = x.value
<1> DEFINE h1 == r.heap
           m == r.node
           l == x.left
           k == x.right
<1>0. /\ Record(x) /\ x.key \in Keys /\ x.value \in Values
      /\ Tree(h, x.left, a, A) /\ Beside("left", A, x.key)
      /\ Tree(h, x.right, b, B) /\ Beside("right", B, x.key)
  BY DEF Covers
<1>1. Closed(h) /\ "left" \in Sides /\ Other("left") = "right"
  BY DEF Sane, Sides, Other
<1>2. l \in Nodes(h) /\ k \in Nodes(h) /\ a \in Nat /\ b \in Nat /\ a = Height(h, l) /\ b = Height(h, k)
  BY <1>0, <1>1, TreeParts DEF Tree
<1>3. Added(h, h1, m, x)
  BY <1>0, <1>2, Creates
<1>4. /\ Sane(h1) /\ Extends(h, h1) /\ m \notin Nodes(h) /\ m # Null /\ Holds(h1, m, x, x.height, "left", l, k)
  BY <1>1, <1>3 DEF Added, Holds
<1> HIDE DEF h1, m, l, k
<1>5. a = Height(h1, l) /\ b = Height(h1, k)
  BY <1>2, <1>4, HeightFrame
<1>6. /\ Sane(g) /\ Holds(g, m, x, Above(a, b), "left", l, k)
      /\ DOMAIN g = DOMAIN h1 /\ \A j \in DOMAIN h1 : j # m => g[j] = h1[j]
  BY <1>1, <1>2, <1>4, <1>5, UpdatesHolds DEF h1, m
<1>7. Extends(h, g)
  BY <1>4, <1>6 DEF Extends, Nodes
<1>8. Tree(g, l, a, A) /\ Tree(g, k, b, B)
  BY <1>0, <1>1, <1>6, <1>7, TreeFrame DEF Sane, l, k
<1>9. /\ m \in DOMAIN g /\ g[m].key = x.key /\ g[m].value = x.value /\ g[m].height = Above(a, b)
      /\ g[m]["left"] = l /\ g[m][Other("left")] = k
  BY <1>6 DEF Holds
<1>10. Root(g, m, "left", a, A, b, B)
  BY <1>0, <1>1, <1>8, <1>9 DEF Root
<1> QED
  BY <1>4, <1>6, <1>7, <1>9, <1>10 DEF m

\* The end of delete_internal, where a subtree may have become lower by one.
LEMMA Rebalanced ==
  ASSUME NEW h, Sane(h), NEW n, NEW side \in Sides, NEW c, NEW A, NEW b, NEW B, Root(h, n, side, c, A, b, B),
         NEW a \in Nat, Near(a, b), c \in {a, a - 1}, NEW r, r = RebalanceErased(h, n)
  PROVE  /\ Sane(r.heap) /\ Extends(h, r.heap) /\ (r.node = n \/ r.node \notin Nodes(h))
         /\ Tree(r.heap, r.node, Height(r.heap, r.node), Below(h, n, A, B))
         /\ Height(r.heap, r.node) \in {Above(a, b), Above(a, b) - 1}
<1>1. c \in Nat /\ b \in Nat
  BY RootParts
<1>2. CASE Near(c, b)
  <2>1. r = Got(h, n)
    BY <1>2, RebalancesNear
  <2>2. r.heap = h /\ r.node = n
    BY <2>1 DEF Got
  <2>3. Tree(h, n, Above(c, b), Below(h, n, A, B))
    BY <1>2, RootNear
  <2>4. Height(h, n) = Above(c, b)
    BY <2>3 DEF Tree
  <2>5. Above(c, b) \in {Above(a, b), Above(a, b) - 1}
    BY <1>1 DEF Above
  <2>6. Extends(h, h)
    BY DEF Extends
  <2> QED
    BY <2>2, <2>3, <2>4, <2>5, <2>6
<1>3. CASE ~Near(c, b)
  <2>1. b = c + 2 /\ Above(a, b) = c + 3
    BY <1>1, <1>3 DEF Near, Above
  <2>2. Root(h, n, Other(side), b, B, c, A) /\ Below(h, n, A, B) = Below(h, n, B, A) /\ Other(side) \in Sides
    BY <1>1, RootOther, OtherSide
  <2>3. Makes(h, r, c + 2, Below(h, n, B, A)) \/ Makes(h, r, c + 3, Below(h, n, B, A))
    BY <2>1, <2>2, RebalancesErased
  <2>4. c + 2 = Above(a, b) - 1 /\ c + 3 = Above(a, b)
    BY <1>1, <2>1
  <2>5. \A H : Makes(h, r, H, Below(h, n, B, A)) =>
            Sane(r.heap) /\ Extends(h, r.heap) /\ r.node \notin Nodes(h) /\ H = Height(r.heap, r.node) /\ Tree(r.heap, r.node, H, Below(h, n, A, B))
    BY <2>2 DEF Makes, Tree
  <2> QED
    BY <2>3, <2>4, <2>5
<1> QED
  BY <1>2, <1>3

\* At a node that has been left as it was, nothing is done.
LEMMA DeleteSame ==
  ASSUME NEW h, Sane(h), NEW n \in Nodes(h), AVL(h, n), NEW r, r = Got(h, n)
  PROVE  DeleteAt(r) = r
<1>1. r.heap = h /\ r.node = n
  BY DEF Got
<1>2. CASE n = Null
  BY <1>1, <1>2 DEF DeleteAt
<1>3. CASE n # Null
  <2>1. n \in DOMAIN h /\ "left" \in Sides /\ Closed(h)
    BY <1>3 DEF Nodes, Sides, Sane
  <2> DEFINE l == h[n]["left"]
             k == h[n][Other("left")]
             a == Height(h, l)
             b == Height(h, k)
  <2>2. /\ Tree(h, l, a, ItemsOf(h, l)) /\ Tree(h, k, b, ItemsOf(h, k)) /\ Near(a, b) /\ h[n].height = Above(a, b)
        /\ Beside("left", ItemsOf(h, l), h[n].key) /\ Beside(Other("left"), ItemsOf(h, k), h[n].key)
        /\ h[n].key \in Keys /\ h[n].value \in Values
    BY <2>1, Split
  <2>3. UpdateHeight(h, n) = h
    BY <2>1, RebuildSame
  <2>4. Root(h, n, "left", a, ItemsOf(h, l), b, ItemsOf(h, k))
    BY <2>1, <2>2 DEF Root
  <2>5. RebalanceErased(h, n) = Got(h, n)
    BY <2>1, <2>2, <2>4, RebalancesNear
  <2> QED
    BY <1>1, <1>3, <2>3, <2>5 DEF DeleteAt
<1> QED
  BY <1>2, <1>3

\* A result for the child on the side of the key makes one for the node.
LEMMA DeletesAbove ==
  ASSUME NEW h, Sane(h), NEW n \in DOMAIN h, AVL(h, n), NEW key \in Keys, key # h[n].key,
         NEW side, side = Side(key, h[n].key), NEW child, child = h[n][side], NEW s, ErasedFrom(h, child, key, s)
  PROVE  ErasedFrom(h, n, key, DeleteAt(DuplicateNode(s.heap, n, side, s.node)))
<1> DEFINE low == h[n][Other(side)]
           a == Height(h, child)
           b == Height(h, low)
           A == ItemsOf(h, child)
           B == ItemsOf(h, low)
           I == ItemsOf(h, n)
           H == Height(h, n)
           k == h[n].key
           v == h[n].value
           S == Without(A, key)
           hs == s.heap
           c == Height(hs, s.node)
           dup == DuplicateNode(hs, n, side, s.node)
           m == dup.node
           g == UpdateHeight(dup.heap, dup.node)
           t == DeleteAt(dup)
<1>1. Closed(h) /\ n \in Nodes(h) /\ n # Null /\ side \in Sides /\ k \in Keys /\ Before(side, key, k)
  <2>1. Closed(h) /\ n \in Nodes(h) /\ n # Null /\ "left" \in Sides
    BY DEF Sane, Closed, Nodes, Sides
  <2>2. h[n].key \in Keys
    BY <2>1, Split
  <2> QED
    BY <2>1, <2>2, SideOf
<1>2. /\ Tree(h, child, a, A) /\ Tree(h, low, b, B) /\ Near(a, b) /\ H = Above(a, b)
      /\ Beside(side, A, k) /\ Beside(Other(side), B, k) /\ I = A \cup B \cup {<<k, v>>} /\ v \in Values
  BY <1>1, Split
<1>3. a \in Nat /\ b \in Nat /\ A \in SUBSET (Keys \X Values) /\ B \in SUBSET (Keys \X Values) /\ low \in Nodes(h)
  BY <1>1, <1>2, TreeParts
<1>4. Over(k, v, A, B, I)
  BY <1>2 DEF Over
<1> HIDE DEF a, b, A, B, I, H, S, t
<1>5. (Has(I, key) <=> Has(A, key)) /\ Over(k, v, Without(A, key), B, Without(I, key)) /\ Beside(side, Without(A, key), k)
  BY <1>1, <1>2, <1>3, <1>4, WithoutBelow
<1>6. Beside(side, S, k) /\ Without(I, key) = S \cup B \cup {<<k, v>>}
  BY <1>5 DEF S, Over
<1>7. /\ Sane(hs) /\ Extends(h, hs) /\ Tree(hs, s.node, c, S) /\ c \in {a, a - 1}
      /\ IF Has(A, key) THEN s.node # child ELSE s.node = child /\ hs = h
  BY DEF ErasedFrom, a, A, S
<1>8. CASE ~Has(A, key)
  <2>1. dup = Got(h, n)
    BY <1>1, <1>7, <1>8, RebuildSame
  <2>2. t = Got(h, n)
    BY <1>1, <2>1, DeleteSame DEF t
  <2>3. t.heap = h /\ t.node = n
    BY <2>2 DEF Got
  <2>4. ~Has(I, key)
    BY <1>5, <1>8
  <2>5. Without(I, key) = I
    BY <2>4 DEF Without, Has
  <2>6. Tree(h, n, H, I)
    BY DEF Tree, H, I
  <2>7. ErasedFrom(h, n, key, t)
    BY <1>7, <1>8, <2>3, <2>4, <2>5, <2>6 DEF ErasedFrom, H, I
  <2> QED
    BY <2>7 DEF t
<1>9. CASE Has(A, key)
  <2>1. n \in DOMAIN hs /\ hs[n] = h[n] /\ low \in Nodes(hs) /\ Height(hs, low) = b /\ ItemsOf(hs, low) = B
    <3>1. Tree(hs, low, b, B)
      BY <1>1, <1>2, <1>7, TreeFrame DEF Sane
    <3> QED
      BY <1>7, <3>1 DEF Extends, Tree, AVL
  <2>2. AVL(hs, n)
    <3>1. Tree(h, n, H, I)
      BY DEF Tree, H, I
    <3>2. Tree(hs, n, H, I)
      BY <1>1, <1>7, <3>1, TreeFrame DEF Sane
    <3> QED
      BY <3>2 DEF Tree
  <2>3. s.node # hs[n][side]
    BY <1>7, <1>9, <2>1
  <2>4. /\ Sane(g) /\ Extends(hs, g) /\ m \notin Nodes(hs) /\ Root(g, m, side, c, S, b, B)
        /\ g[m].key = k /\ g[m].value = v
    BY <1>1, <1>6, <1>7, <2>1, <2>2, <2>3, Rebuild
  <2>5. Below(g, m, S, B) = Without(I, key) /\ m # Null
    BY <1>6, <2>4 DEF Below, Nodes
  <2>6. t = RebalanceErased(g, m)
    BY <2>5 DEF t, DeleteAt
  <2> HIDE DEF g, m, hs, c
  <2>7. /\ Sane(t.heap) /\ Extends(g, t.heap) /\ (t.node = m \/ t.node \notin Nodes(g))
        /\ Tree(t.heap, t.node, Height(t.heap, t.node), Below(g, m, S, B))
        /\ Height(t.heap, t.node) \in {Above(a, b), Above(a, b) - 1}
    BY <1>1, <1>2, <1>3, <1>7, <2>4, <2>6, Rebalanced
  <2>8. Extends(h, t.heap) /\ t.node # n
    BY <1>7, <2>1, <2>4, <2>7 DEF Extends, Nodes
  <2>9. ErasedFrom(h, n, key, t)
    BY <1>2, <1>5, <1>9, <2>5, <2>7, <2>8 DEF ErasedFrom, H, I
  <2> QED
    BY <2>9 DEF t, m, g, hs
<1> QED
  BY <1>8, <1>9

\* A node with no child, or with one: the child takes its place.
LEMMA DeletesOne ==
  ASSUME NEW h, Sane(h), NEW n \in DOMAIN h, AVL(h, n), NEW l, l = h[n].left, NEW r, r = h[n].right,
         l = Null \/ r = Null, NEW child, child = IF l # Null THEN l ELSE r
  PROVE  ErasedFrom(h, n, h[n].key, DeleteAt(Got(h, child)))
<1> DEFINE a == Height(h, l)
           b == Height(h, r)
           A == ItemsOf(h, l)
           B == ItemsOf(h, r)
           k == h[n].key
           v == h[n].value
           t == DeleteAt(Got(h, child))
<1>1. Closed(h) /\ "left" \in Sides /\ "right" \in Sides /\ Other("left") = "right"
  BY DEF Sane, Sides, Other
<1>2. /\ Tree(h, l, a, A) /\ Tree(h, r, b, B) /\ Near(a, b) /\ Height(h, n) = Above(a, b)
      /\ Beside("left", A, k) /\ Beside("right", B, k) /\ ItemsOf(h, n) = A \cup B \cup {<<k, v>>} /\ k \in Keys
  BY <1>1, Split
<1>3. /\ AVL(h, l) /\ l \in Nodes(h) /\ Height(h, l) < Height(h, n) /\ AVL(h, r) /\ r \in Nodes(h) /\ Height(h, r) < Height(h, n)
      /\ Height(h, n) \in Nat /\ a \in Nat /\ b \in Nat
  BY <1>1, Children
<1>4. A \in SUBSET (Keys \X Values) /\ B \in SUBSET (Keys \X Values) /\ (l = Null <=> a = 0) /\ (r = Null <=> b = 0)
      /\ (l = Null <=> A = {}) /\ (r = Null <=> B = {})
  BY <1>1, <1>2, TreeParts
<1>5. t = Got(h, child)
  BY <1>3, DeleteSame
<1>6. t.heap = h /\ t.node = child
  BY <1>5 DEF Got
<1> HIDE DEF a, b, A, B, t
<1>7. Tree(h, child, Height(h, child), A \cup B)
  <2>1. CASE l # Null
    <3>1. A \cup B = A
      BY <1>4, <2>1
    <3> QED
      BY <1>2, <2>1, <3>1 DEF a
  <2>2. CASE l = Null
    <3>1. A \cup B = B
      BY <1>4, <2>2
    <3> QED
      BY <1>2, <2>2, <3>1 DEF b
  <2> QED
    BY <2>1, <2>2
<1>8. Has(ItemsOf(h, n), k) /\ Without(ItemsOf(h, n), k) = A \cup B
  <2>1. <<k, v>>[1] = k
    OBVIOUS
  <2>2. \A i \in A \cup B : i[1] # k
    BY <1>1, <1>2, <1>4, BeforeOrder DEF Beside
  <2> QED
    BY <1>2, <2>1, <2>2 DEF Has, Without
<1>9. child # n
  BY <1>3
<1>10. Height(h, child) = Height(h, n) - 1
  <2>1. CASE l # Null
    <3>1. b = 0 /\ Height(h, child) = a
      BY <1>4, <2>1 DEF a
    <3> QED
      BY <1>2, <1>3, <3>1 DEF Above
  <2>2. CASE l = Null
    <3>1. a = 0 /\ Height(h, child) = b
      BY <1>4, <2>2 DEF b
    <3> QED
      BY <1>2, <1>3, <3>1 DEF Above
  <2> QED
    BY <2>1, <2>2
<1>11. Extends(h, h)
  BY DEF Extends
<1>12. ErasedFrom(h, n, k, t)
  BY <1>6, <1>7, <1>8, <1>9, <1>10, <1>11 DEF ErasedFrom
<1> QED
  BY <1>12 DEF t

\* A node with two children: the least node of the right subtree takes its place.
LEMMA DeletesTwo ==
  ASSUME NEW h, Sane(h), NEW n \in DOMAIN h, AVL(h, n), NEW r, r = h[n].right, NEW j, First(h, r, j),
         NEW s, ErasedFrom(h, r, h[j].key, s),
         NEW x, Record(x), x.key = h[j].key, x.value = h[j].value, x.left = h[n].left, x.right = s.node
  PROVE  ErasedFrom(h, n, h[n].key, DeleteAt(CreateNode(s.heap, x)))
<1> DEFINE l == h[n].left
           a == Height(h, l)
           b == Height(h, r)
           A == ItemsOf(h, l)
           B == ItemsOf(h, r)
           I == ItemsOf(h, n)
           k == h[n].key
           v == h[n].value
           lk == h[j].key
           lv == h[j].value
           S == Without(B, lk)
           hs == s.heap
           c == Height(hs, s.node)
           new == CreateNode(hs, x)
           m == new.node
           g == UpdateHeight(new.heap, new.node)
           t == DeleteAt(new)
<1>1. Closed(h) /\ Record(h[n]) /\ "left" \in Sides /\ "right" \in Sides /\ Other("left") = "right" /\ Other("right") = "left"
  BY DEF Sane, Closed, Sides, Other
<1>2. /\ Tree(h, l, a, A) /\ Tree(h, r, b, B) /\ Near(a, b) /\ Height(h, n) = Above(a, b)
      /\ Beside("left", A, k) /\ Beside("right", B, k) /\ I = A \cup B \cup {<<k, v>>} /\ k \in Keys
  BY <1>1, Split
<1>3. a \in Nat /\ b \in Nat /\ A \in SUBSET (Keys \X Values) /\ B \in SUBSET (Keys \X Values)
  BY <1>1, <1>2, TreeParts
<1>4. Over(k, v, A, B, I)
  BY <1>2 DEF Over
<1>5. Leads(B, lk, lv) /\ lk \in Keys /\ lv \in Values
  <2>1. AVL(h, r)
    BY <1>2 DEF Tree
  <2> QED
    BY <2>1, FirstItem
<1> HIDE DEF a, b, A, B, I, S, t, c
<1>6. /\ Has(I, k) /\ Has(B, lk) /\ Over(lk, lv, A, Without(B, lk), Without(I, k))
      /\ Beside("left", A, lk) /\ Beside("right", Without(B, lk), lk)
  BY <1>2, <1>3, <1>4, <1>5, WithoutSuccessor, ZenonT(60)
<1>7. Without(I, k) = A \cup S \cup {<<lk, lv>>} /\ Beside("right", S, lk)
  BY <1>6 DEF S, Over
<1>8. Sane(hs) /\ Extends(h, hs) /\ Tree(hs, s.node, c, S) /\ c \in {b, b - 1}
  BY DEF ErasedFrom, b, B, S, c
<1>9. Record(x) /\ x.key = lk /\ x.value = lv /\ x.left = l /\ x.right = s.node
  OBVIOUS
<1> HIDE DEF hs, l, lk, lv
<1>10. Tree(hs, l, a, A)
  BY <1>1, <1>2, <1>8, TreeFrame DEF Sane
<1>11. /\ Sane(g) /\ Extends(hs, g) /\ m \notin Nodes(hs) /\ m # Null
       /\ Root(g, m, "left", a, A, c, S) /\ g[m].key = lk /\ g[m].value = lv
  <2>1. x.key \in Keys /\ x.value \in Values /\ Beside("left", A, x.key) /\ Beside("right", S, x.key)
    BY <1>5, <1>6, <1>7, <1>9 DEF lk, lv
  <2>2. Tree(hs, x.left, a, A) /\ Tree(hs, x.right, c, S)
    BY <1>8, <1>9, <1>10
  <2>3. Covers(hs, x, a, A, c, S)
    BY <2>1, <2>2 DEF Covers
  <2>4. Sane(hs) /\ Record(x) /\ x.key = lk /\ x.value = lv
    BY <1>8, <1>9
  <2> HIDE DEF new
  <2>5. new = CreateNode(hs, x)
    BY DEF new
  <2>6. /\ Sane(g) /\ Extends(hs, g) /\ m \notin Nodes(hs) /\ m # Null
        /\ Root(g, m, "left", a, A, c, S) /\ g[m].key = x.key /\ g[m].value = x.value
    BY <2>3, <2>4, <2>5, Renew
  <2> QED
    BY <2>4, <2>6
<1> HIDE DEF g, m
<1>12. Root(g, m, "right", c, S, a, A) /\ Below(g, m, S, A) = Without(I, k) /\ Near(b, a) /\ Above(b, a) = Above(a, b)
  <2>1. c \in Nat
    BY <1>1, <1>11, RootParts
  <2>2. Root(g, m, Other("left"), c, S, a, A)
    BY <1>1, <1>3, <1>11, <2>1, RootOther
  <2>3. Below(g, m, S, A) = Without(I, k)
    BY <1>7, <1>11 DEF Below
  <2> QED
    BY <1>1, <1>2, <1>3, <2>2, <2>3, AboveNat
<1>13. t = RebalanceErased(g, m)
  BY <1>11 DEF t, DeleteAt, g, m
<1>14. /\ Sane(t.heap) /\ Extends(g, t.heap) /\ (t.node = m \/ t.node \notin Nodes(g))
       /\ Tree(t.heap, t.node, Height(t.heap, t.node), Below(g, m, S, A))
       /\ Height(t.heap, t.node) \in {Above(b, a), Above(b, a) - 1}
  BY <1>1, <1>3, <1>8, <1>11, <1>12, <1>13, Rebalanced
<1>15. Extends(h, t.heap) /\ t.node # n
  BY <1>8, <1>11, <1>14 DEF Extends, Nodes
<1>16. ErasedFrom(h, n, k, t)
  BY <1>2, <1>6, <1>12, <1>14, <1>15 DEF ErasedFrom, I
<1> QED
  BY <1>16 DEF t, hs

\* What delete_internal does at a node, from what it returns for the nodes below.
DeleteStep(h, n, key) ==
  LET Erased(m, k) == DeleteInternal(h, m, k)
      x     == h[n]
      side  == Side(key, x.key)
      least == h[MinValueNode(h, x.right)]
      below == Erased(x[side], key)
      next  == Erased(x.right, least.key)
  IN  IF ~Same(key, x.key) THEN DeleteAt(DuplicateNode(below.heap, n, side, below.node))
      ELSE IF Null \in {x.left, x.right} THEN DeleteAt(Got(h, IF x.left # Null THEN x.left ELSE x.right))
      ELSE DeleteAt(CreateNode(next.heap, [x EXCEPT !.key = least.key, !.value = least.value, !.right = next.node]))

\* delete_internal solves its equation.
LEMMA DeleteSolves ==
  ASSUME NEW h, Sane(h), \A m \in DOMAIN h : AVL(h, m), NEW key \in Keys
  PROVE  /\ DeleteInternal(h, Null, key) = Got(h, Null)
         /\ \A n \in DOMAIN h : DeleteInternal(h, n, key) = DeleteStep(h, n, key)
<1> DEFINE OneChild(x) == IF x.left # Null THEN x.left ELSE x.right
           WithChild(n, side, sub) == DuplicateNode(sub.heap, n, side, sub.node)
           WithSuccessor(x, least, sub) ==
               CreateNode(sub.heap, [x EXCEPT !.key = least.key, !.value = least.value, !.right = sub.node])
           erase[p \in (DOMAIN h \cup {Null}) \X Keys] ==
               IF p[1] = Null THEN Got(h, Null)
               ELSE LET x     == h[p[1]]
                        side  == Side(p[2], x.key)
                        least == h[MinValueNode(h, x.right)]
                    IN  DeleteAt(IF ~Same(p[2], x.key) THEN WithChild(p[1], side, erase[<<x[side], p[2]>>])
                                 ELSE IF Null \in {x.left, x.right} THEN Got(h, OneChild(x))
                                 ELSE WithSuccessor(x, least, erase[<<x.right, least.key>>]))
           Turn(f, p) ==
               IF p[1] = Null THEN Got(h, Null)
               ELSE LET x     == h[p[1]]
                        side  == Side(p[2], x.key)
                        least == h[MinValueNode(h, x.right)]
                    IN  DeleteAt(IF ~Same(p[2], x.key) THEN WithChild(p[1], side, f[<<x[side], p[2]>>])
                                 ELSE IF Null \in {x.left, x.right} THEN Got(h, OneChild(x))
                                 ELSE WithSuccessor(x, least, f[<<x.right, least.key>>]))
           Differs(p) == ~Same(p[2], h[p[1]].key)
           Ends(p) == p[1] = Null \/ (~Differs(p) /\ Null \in {h[p[1]].left, h[p[1]].right})
           next(p) == IF Differs(p) THEN <<h[p[1]][Side(p[2], h[p[1]].key)], p[2]>>
                      ELSE <<h[p[1]].right, h[MinValueNode(h, h[p[1]].right)].key>>
           Pairs == Nodes(h) \X Keys
           Rank(p) == Height(h, p[1])
           Upto(i) == {p \in Pairs : Rank(p) <= i}
           Solves(f, i) == \A p \in Upto(i) : f[p] = Turn(f, p)
<1>1. Closed(h) /\ Null \in Nodes(h) /\ "right" \in Sides
  BY DEF Sane, Nodes, Sides
<1>2. \A p \in Pairs : Rank(p) \in Nat
  <2>1. \A m \in DOMAIN h : Height(h, m) \in Nat
    BY <1>1, Children
  <2> QED
    BY <2>1 DEF Nodes, Height
<1>3. ASSUME NEW p \in Pairs, ~Ends(p)
      PROVE  next(p) \in Pairs /\ Rank(next(p)) < Rank(p) /\ \E side \in Sides : next(p)[1] = h[p[1]][side]
  <2> DEFINE n == p[1]
  <2>1. n \in DOMAIN h /\ p[2] \in Keys
    BY <1>3 DEF Nodes
  <2>2. h[n].key \in Keys
    BY <1>1, <2>1, Split
  <2>3. Side(p[2], h[n].key) \in Sides
    BY <2>1, <2>2, SideOf
  <2> HIDE DEF n
  <2>4. CASE Differs(p)
    <3> DEFINE side == Side(p[2], h[n].key)
               k == h[n][side]
    <3>1. k \in Nodes(h) /\ Height(h, k) < Height(h, n)
      BY <1>1, <2>1, <2>3, Children
    <3>2. next(p) = <<k, p[2]>>
      BY <2>4 DEF n
    <3> QED
      BY <2>1, <2>3, <3>1, <3>2 DEF n
  <2>5. CASE ~Differs(p)
    <3> DEFINE k == h[n].right
               j == MinValueNode(h, k)
    <3>1. k \in Nodes(h) /\ Height(h, k) < Height(h, n)
      BY <1>1, <2>1, Children
    <3>2. k \in DOMAIN h
      BY <1>3, <2>5, <3>1 DEF Nodes, n
    <3>3. First(h, k, j)
      BY <1>1, <3>2, MinValueFirst
    <3>4. h[j].key \in Keys
      BY <3>2, <3>3, FirstItem
    <3>5. next(p) = <<k, h[j].key>>
      BY <2>5 DEF n
    <3> HIDE DEF j
    <3>6. next(p)[1] = h[p[1]]["right"]
      BY <3>5 DEF n
    <3> HIDE DEF k
    <3> QED
      BY <1>1, <3>1, <3>4, <3>5, <3>6 DEF n
  <2> QED
    BY <2>4, <2>5
<1>4. ASSUME NEW f, NEW g, NEW p \in Pairs, Ends(p) \/ f[next(p)] = g[next(p)]
      PROVE  Turn(f, p) = Turn(g, p)
  <2>1. CASE Ends(p)
    BY <2>1
  <2>2. CASE ~Ends(p) /\ Differs(p)
    <3>1. f[<<h[p[1]][Side(p[2], h[p[1]].key)], p[2]>>] = g[<<h[p[1]][Side(p[2], h[p[1]].key)], p[2]>>]
      BY <1>4, <2>2
    <3> QED
      BY <2>2, <3>1
  <2>3. CASE ~Ends(p) /\ ~Differs(p)
    <3> DEFINE x == h[p[1]]
               q == <<x.right, h[MinValueNode(h, x.right)].key>>
    <3>1. f[q] = g[q]
      BY <1>4, <2>3
    <3>2. \A e : ~Ends(p) /\ ~Differs(p) => Turn(e, p) = DeleteAt(WithSuccessor(x, h[MinValueNode(h, x.right)], e[q]))
      OBVIOUS
    <3> HIDE DEF Turn, Ends, Differs, q, WithSuccessor, x
    <3> QED
      BY <2>3, <3>1, <3>2
  <2> QED
    BY <2>1, <2>2, <2>3
<1>5. \A p \in Pairs : p[1] = Null => Ends(p)
  BY DEF Ends
<1> HIDE DEF Turn, next, Ends
<1>6. \A i \in Nat : \E f : Solves(f, i)
  <2> DEFINE Bad == {i \in Nat : ~\E f : Solves(f, i)}
  <2> SUFFICES ASSUME Bad # {} PROVE FALSE
    OBVIOUS
  <2>1. PICK i \in Bad : \A j \in Bad : i <= j
    BY LeastNat
  <2>2. PICK f : i > 0 => Solves(f, i - 1)
    <3>1. i \in Nat
      OBVIOUS
    <3>2. CASE i > 0
      <4>1. i - 1 \in Nat /\ ~(i <= i - 1)
        BY <3>1, <3>2
      <4> QED
        BY <2>1, <4>1
    <3> QED
      BY <3>2
  <2> DEFINE g == [p \in Pairs |-> Turn(f, p)]
  <2>3. ASSUME NEW p \in Upto(i)
        PROVE  g[p] = Turn(g, p)
    <3>1. p \in Pairs /\ Rank(p) <= i /\ g[p] = Turn(f, p) /\ i \in Nat
      OBVIOUS
    <3>2. CASE ~Ends(p)
      <4> DEFINE q == next(p)
      <4>1. q \in Pairs /\ Rank(q) < Rank(p) /\ Rank(q) \in Nat /\ Rank(p) \in Nat
        BY <1>2, <1>3, <3>1, <3>2
      <4> HIDE DEF Rank
      <4>2. i > 0 /\ q \in Upto(i - 1)
        BY <3>1, <4>1
      <4>3. g[q] = f[q]
        BY <2>2, <4>1, <4>2
      <4> HIDE DEF g
      <4> QED
        BY <1>4, <3>1, <4>3
    <3> HIDE DEF g
    <3> QED
      BY <1>4, <3>1, <3>2
  <2>4. Solves(g, i)
    BY <2>3
  <2> QED
    BY <2>4
<1>7. ASSUME NEW f, NEW g, NEW i \in Nat, NEW j \in Nat, Solves(f, i), Solves(g, j)
      PROVE  \A p \in Upto(i) \cap Upto(j) : f[p] = g[p]
  <2> DEFINE Wrong(p) == p \in Upto(i) /\ p \in Upto(j) /\ f[p] # g[p]
             Bad == {m \in DOMAIN h : \E p \in Pairs : p[1] = m /\ Wrong(p)}
  <2>1. ASSUME NEW p \in Pairs, Wrong(p)
        PROVE  ~Ends(p) /\ Wrong(next(p)) /\ next(p) \in Pairs
    <3>1. Turn(f, p) # Turn(g, p)
      BY <1>7, <2>1
    <3>2. ~Ends(p) /\ f[next(p)] # g[next(p)]
      BY <1>4, <3>1
    <3>3. next(p) \in Pairs /\ Rank(next(p)) < Rank(p) /\ Rank(next(p)) \in Nat /\ Rank(p) \in Nat
      BY <1>2, <1>3, <3>2
    <3> HIDE DEF Rank
    <3>4. next(p) \in Upto(i) /\ next(p) \in Upto(j)
      BY <2>1, <3>3
    <3> QED
      BY <3>2, <3>3, <3>4
  <2> HIDE DEF Wrong
  <2>2. \A p \in Pairs : Wrong(p) => p[1] \in DOMAIN h
    BY <1>5, <2>1 DEF Nodes
  <2>3. ASSUME NEW m \in Bad
        PROVE  m \in DOMAIN h /\ AVL(h, m) /\ \E side \in Sides : h[m][side] \in Bad
    <3>1. PICK p \in Pairs : p[1] = m /\ Wrong(p)
      OBVIOUS
    <3>2. ~Ends(p) /\ Wrong(next(p)) /\ next(p) \in Pairs
      BY <2>1, <3>1
    <3>3. PICK side \in Sides : next(p)[1] = h[p[1]][side]
      BY <1>3, <3>2
    <3>4. h[m][side] \in Bad
      BY <2>2, <3>1, <3>2, <3>3
    <3> QED
      BY <3>4
  <2>4. Bad = {}
    <3> HIDE DEF Bad
    <3> QED
      BY <1>1, <2>3, HeightInduction
  <2>5. \A p \in Pairs : ~Wrong(p)
    BY <2>2, <2>4
  <2> QED
    BY <2>5 DEF Wrong
<1> DEFINE F(i) == CHOOSE f : Solves(f, i)
           solved == [p \in Pairs |-> F(Rank(p))[p]]
<1>8. \A i \in Nat : Solves(F(i), i)
  BY <1>6
<1> HIDE DEF F, Solves
<1>9. ASSUME NEW p \in Pairs
      PROVE  solved[p] = Turn(solved, p)
  <2> DEFINE H == Rank(p)
  <2>1. H \in Nat /\ p \in Upto(H) /\ solved[p] = F(H)[p]
    BY <1>2
  <2>2. F(H)[p] = Turn(F(H), p)
    BY <1>8, <2>1 DEF Solves
  <2>3. CASE Ends(p)
    BY <1>4, <2>1, <2>2, <2>3
  <2>4. CASE ~Ends(p)
    <3> DEFINE q == next(p)
               K == Rank(q)
    <3>1. q \in Pairs /\ K < H /\ K \in Nat
      BY <1>2, <1>3, <2>4
    <3>2. q \in Upto(H) /\ q \in Upto(K)
      <4> HIDE DEF Rank
      <4> QED
        BY <2>1, <3>1
    <3>3. F(H)[q] = F(K)[q]
      BY <1>7, <1>8, <2>1, <3>1, <3>2
    <3>4. solved[q] = F(H)[q]
      BY <3>1, <3>3
    <3> HIDE DEF solved, H
    <3> QED
      BY <1>4, <2>1, <2>2, <3>4
  <2> QED
    BY <2>3, <2>4
<1>10. solved = [p \in (DOMAIN h \cup {Null}) \X Keys |-> Turn(solved, p)]
  <2> HIDE DEF Upto
  <2>1. \A p \in (DOMAIN h \cup {Null}) \X Keys : solved[p] = Turn(solved, p)
    BY <1>9 DEF Nodes
  <2>2. solved = [p \in (DOMAIN h \cup {Null}) \X Keys |-> solved[p]]
    BY DEF Nodes
  <2> HIDE DEF solved
  <2> QED
    BY <2>1, <2>2
<1> HIDE DEF solved
<1>11. erase = [p \in (DOMAIN h \cup {Null}) \X Keys |-> Turn(erase, p)]
  BY <1>10 DEF Turn
<1>12. \A n, k : DeleteInternal(h, n, k) = erase[<<n, k>>]
  BY DEF DeleteInternal
<1> HIDE DEF erase
<1>13. \A p \in Pairs : erase[p] = Turn(erase, p)
  BY <1>11 DEF Nodes
<1>14. DeleteInternal(h, Null, key) = Got(h, Null)
  <2>1. <<Null, key>> \in Pairs /\ <<Null, key>>[1] = Null
    BY <1>1
  <2>2. \A p \in Pairs : p[1] = Null => Turn(erase, p) = Got(h, Null)
    BY DEF Turn
  <2> QED
    BY <1>12, <1>13, <2>1, <2>2
<1>15. ASSUME NEW n \in DOMAIN h
       PROVE  DeleteInternal(h, n, key) = DeleteStep(h, n, key)
  <2> DEFINE p == <<n, key>>
  <2>1. p \in Pairs /\ p[1] = n /\ p[2] = key /\ n # Null
    BY <1>1 DEF Nodes, Closed
  <2>2. DeleteInternal(h, n, key) = Turn(erase, p)
    BY <1>12, <1>13, <2>1
  <2> HIDE DEF p
  <2>3. Turn(erase, p) = DeleteStep(h, n, key)
    BY <1>12, <2>1 DEF Turn, DeleteStep
  <2> QED
    BY <2>2, <2>3
<1> QED
  BY <1>14, <1>15

\* delete_internal erases.
LEMMA Erases ==
  ASSUME NEW h, Sane(h), \A m \in DOMAIN h : AVL(h, m), NEW key \in Keys, NEW root \in Nodes(h)
  PROVE  ErasedFrom(h, root, key, DeleteInternal(h, root, key))
<1> DEFINE Erased(n, k) == DeleteInternal(h, n, k)
           Good(n) == \A k \in Keys : ErasedFrom(h, n, k, Erased(n, k))
           Bad == {m \in DOMAIN h : ~Good(m)}
<1>1. Closed(h)
  BY DEF Sane
<1>2. Good(Null)
  <2> SUFFICES ASSUME NEW k \in Keys PROVE ErasedFrom(h, Null, k, Erased(Null, k))
    OBVIOUS
  <2>1. Erased(Null, k) = Got(h, Null)
    BY DeleteSolves
  <2> DEFINE s == Erased(Null, k)
  <2>2. s.heap = h /\ s.node = Null
    BY <2>1 DEF Got
  <2>3. ItemsOf(h, Null) = {} /\ Tree(h, Null, 0, {}) /\ Height(h, Null) = 0 /\ Extends(h, h)
    BY TreeNull, SubNull DEF ItemsOf, Height, Extends
  <2>4. ~Has({}, k) /\ Without({}, k) = {}
    BY DEF Has, Without
  <2> HIDE DEF s
  <2>5. ErasedFrom(h, Null, k, s)
    BY <2>2, <2>3, <2>4 DEF ErasedFrom
  <2> QED
    BY <2>5 DEF s
<1>3. ASSUME NEW n \in DOMAIN h, Good(h[n].left), Good(h[n].right)
      PROVE  Good(n)
  <2> SUFFICES ASSUME NEW k \in Keys PROVE ErasedFrom(h, n, k, Erased(n, k))
    OBVIOUS
  <2> HIDE DEF Erased
  <2> DEFINE x == h[n]
             side == Side(k, x.key)
             j == MinValueNode(h, x.right)
             below == Erased(x[side], k)
             next == Erased(x.right, h[j].key)
  <2>1. AVL(h, n) /\ x.key \in Keys /\ Record(x)
    <3>1. "left" \in Sides
      BY DEF Sides
    <3> QED
      BY <1>1, <3>1, Split DEF Closed
  <2>2. Erased(n, k) = DeleteStep(h, n, k)
    BY DeleteSolves DEF Erased
  <2>3. CASE k # x.key
    <3>1. ~Same(k, x.key) /\ side \in Sides
      BY <2>1, <2>3, SideOf
    <3>2. Erased(n, k) = DeleteAt(DuplicateNode(below.heap, n, side, below.node))
      BY <2>2, <3>1 DEF DeleteStep, Erased
    <3>3. ErasedFrom(h, x[side], k, below)
      BY <1>3, <3>1 DEF Sides
    <3> QED
      BY <2>1, <2>3, <3>2, <3>3, DeletesAbove
  <2>4. CASE k = x.key /\ Null \in {x.left, x.right}
    <3>1. Same(k, x.key)
      BY <2>1, <2>4, SideOf
    <3>2. Erased(n, k) = DeleteAt(Got(h, IF x.left # Null THEN x.left ELSE x.right))
      BY <2>2, <2>4, <3>1 DEF DeleteStep
    <3> QED
      BY <2>1, <2>4, <3>2, DeletesOne
  <2>5. CASE k = x.key /\ Null \notin {x.left, x.right}
    <3> DEFINE y == [x EXCEPT !.key = h[j].key, !.value = h[j].value, !.right = next.node]
    <3>1. Same(k, x.key)
      BY <2>1, <2>5, SideOf
    <3>2. Erased(n, k) = DeleteAt(CreateNode(next.heap, y))
      BY <2>2, <2>5, <3>1 DEF DeleteStep, Erased
    <3>3. x.right \in DOMAIN h
      BY <1>1, <2>5, SubNode DEF Nodes
    <3>4. First(h, x.right, j) /\ h[j].key \in Keys
      BY <1>1, <3>3, MinValueFirst, FirstItem
    <3>5. ErasedFrom(h, x.right, h[j].key, next)
      BY <1>3, <3>4
    <3>6. Record(y) /\ y.key = h[j].key /\ y.value = h[j].value /\ y.left = x.left /\ y.right = next.node
      <4> DEFINE lk == h[j].key
                 lv == h[j].value
                 right == next.node
      <4>1. Record(x) /\ lk = h[j].key /\ lv = h[j].value /\ right = next.node
        BY <2>1
      <4>2. y = [x EXCEPT !.key = lk, !.value = lv, !.right = right]
        OBVIOUS
      <4> HIDE DEF y, lk, lv, right, next, j, x
      <4>3. Record(y) /\ y.key = lk /\ y.value = lv /\ y.left = x.left /\ y.right = right
        BY <4>1, <4>2 DEF Record
      <4> QED
        BY <4>1, <4>3
    <3> HIDE DEF y, next, j
    <3>7. ErasedFrom(h, n, h[n].key, DeleteAt(CreateNode(next.heap, y)))
      BY <2>1, <3>4, <3>5, <3>6, DeletesTwo
    <3> QED
      BY <2>5, <3>2, <3>7
  <2> QED
    BY <2>3, <2>4, <2>5
<1>4. ASSUME NEW m \in Bad
      PROVE  m \in DOMAIN h /\ AVL(h, m) /\ \E side \in Sides : h[m][side] \in Bad
  <2>1. m \in DOMAIN h /\ AVL(h, m) /\ ~Good(m)
    OBVIOUS
  <2>2. h[m].left \in Nodes(h) /\ h[m].right \in Nodes(h)
    BY <1>1, <2>1, SubNode
  <2> HIDE DEF Good
  <2>3. h[m].left \in Bad \/ h[m].right \in Bad
    BY <1>2, <1>3, <2>1, <2>2 DEF Nodes
  <2> QED
    BY <2>1, <2>3 DEF Sides
<1>5. Bad = {}
  <2> HIDE DEF Bad
  <2> QED
    BY <1>1, <1>4, HeightInduction
<1> QED
  BY <1>2, <1>5 DEF Nodes
=============================================================================
