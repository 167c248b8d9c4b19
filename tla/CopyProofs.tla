----------------------------- MODULE CopyProofs -----------------------------
(***************************************************************************)
(* Proofs about the copies of WanderingTree: giving the nodes their        *)
(* addresses keeps every tree, so each copy is a balanced search tree, and *)
(* holds what a sorted map of its own would; its iterators go through the  *)
(* keys of that map in order.                                              *)
(***************************************************************************)
EXTENDS TreeProofs

-----------------------------------------------------------------------------
(* Addresses. *)

\* No two nodes of a tree have the same key.
LEMMA UniqueKeys ==
  ASSUME NEW h, Closed(h), NEW n, AVL(h, n)
  PROVE  \A m, k \in Sub(h, n) : h[m].key = h[k].key => m = k
<1> DEFINE Once(r) == \A m, k \in Sub(h, r) : h[m].key = h[k].key => m = k
           Bad == {r \in DOMAIN h : AVL(h, r) /\ ~Once(r)}
<1>1. Once(Null)
  BY SubNull
<1>2. ASSUME NEW r \in DOMAIN h, AVL(h, r), Once(h[r].left), Once(h[r].right)
      PROVE  Once(r)
  <2> DEFINE L == Sub(h, h[r].left)
             R == Sub(h, h[r].right)
  <2>1. Sub(h, r) = {r} \cup L \cup R
    BY SubNode
  <2>2. /\ Beside("left", ItemsOf(h, h[r].left), h[r].key) /\ Beside("right", ItemsOf(h, h[r].right), h[r].key)
        /\ h[r].key \in Keys
    BY <1>2, Split DEF Sides, Other
  <2>3. \A m \in Sub(h, r) : h[m].key \in Keys
    BY <1>2 DEF AVL, Local
  <2>4. \A m \in L : Less(h[m].key, h[r].key)
    <3> TAKE m \in L
    <3>1. <<h[m].key, h[m].value>> \in ItemsOf(h, h[r].left)
      BY DEF ItemsOf
    <3> QED
      BY <2>2, <3>1, BesideSome DEF Before
  <2>5. \A m \in R : Less(h[r].key, h[m].key)
    <3> TAKE m \in R
    <3>1. <<h[m].key, h[m].value>> \in ItemsOf(h, h[r].right)
      BY DEF ItemsOf
    <3> QED
      BY <2>2, <3>1, BesideSome DEF Before
  <2>6. \A m \in L, k \in R : h[m].key # h[k].key
    BY <2>1, <2>2, <2>3, <2>4, <2>5, LessAssumption
  <2>7. \A m \in L \cup R : h[m].key # h[r].key
    BY <2>1, <2>2, <2>3, <2>4, <2>5, LessAssumption
  <2> QED
    BY <1>2, <2>1, <2>6, <2>7
<1> HIDE DEF Once
<1>3. ASSUME NEW m \in Bad
      PROVE  m \in DOMAIN h /\ AVL(h, m) /\ \E side \in Sides : h[m][side] \in Bad
  <2>1. m \in DOMAIN h /\ AVL(h, m) /\ ~Once(m)
    OBVIOUS
  <2>2. \A side \in Sides : AVL(h, h[m][side]) /\ h[m][side] \in Nodes(h)
    BY <2>1, Children
  <2>3. ~Once(h[m].left) \/ ~Once(h[m].right)
    BY <1>2, <2>1
  <2>4. h[m].left \in Bad \/ h[m].right \in Bad
    BY <1>1, <2>2, <2>3 DEF Nodes, Sides
  <2> QED
    BY <2>1, <2>4 DEF Sides
<1>4. Bad = {}
  <2> HIDE DEF Bad
  <2> QED
    BY <1>3, HeightInduction
<1>5. Once(n)
  BY <1>1, <1>4 DEF AVL, Nodes
<1> QED
  BY <1>5 DEF Once

\* The nodes of one heap are those of another under other addresses.
Renamed(h, S, f, g) ==
  /\ S \subseteq DOMAIN h /\ Down(h, S) /\ f[Null] = Null
  /\ \A m, k \in S \cup {Null} : f[m] = f[k] => m = k
  /\ g = [a \in DOMAIN g |-> g[a]] /\ DOMAIN g = {f[m] : m \in S}
  /\ \A m \in S :
       /\ Record(g[f[m]]) /\ g[f[m]].key = h[m].key /\ g[f[m]].value = h[m].value /\ g[f[m]].height = h[m].height
       /\ g[f[m]].left = f[h[m].left] /\ g[f[m]].right = f[h[m].right]

\* The heap with the other addresses is one, too.
LEMMA RenamedClosed ==
  ASSUME NEW h, Closed(h), NEW S, NEW f, NEW g, Renamed(h, S, f, g)
  PROVE  /\ Closed(g) /\ \A m \in S \cup {Null} : f[m] \in Nodes(g)
         /\ \A m \in S : f[m] \in DOMAIN g /\ f[m] # Null
<1>1. /\ S \subseteq DOMAIN h /\ Down(h, S) /\ f[Null] = Null
      /\ \A m, k \in S \cup {Null} : f[m] = f[k] => m = k
      /\ g = [a \in DOMAIN g |-> g[a]] /\ DOMAIN g = {f[m] : m \in S}
      /\ \A m \in S :
           /\ Record(g[f[m]])
           /\ g[f[m]].left = f[h[m].left] /\ g[f[m]].right = f[h[m].right]
  BY DEF Renamed
<1>2. Null \notin S /\ \A m \in S : f[m] # Null /\ f[m] \in DOMAIN g
  BY <1>1 DEF Closed
<1>3. \A m \in S \cup {Null} : f[m] \in DOMAIN g \cup {Null}
  BY <1>1
<1>4. Down(g, DOMAIN g)
  BY <1>1, <1>3 DEF Down
<1>5. \A a \in DOMAIN g : Record(g[a])
  BY <1>1
<1>6. Null \notin DOMAIN g
  BY <1>1, <1>2
<1>7. Closed(g)
  BY <1>1, <1>4, <1>5, <1>6 DEF Closed
<1> QED
  BY <1>2, <1>3, <1>7 DEF Nodes

Image(f, T) == {f[m] : m \in T}

\* The nodes below a node are the same under the other addresses.
LEMMA RenamedSub ==
  ASSUME NEW h, Closed(h), NEW S, NEW f, NEW g, Renamed(h, S, f, g), NEW n \in S \cup {Null}
  PROVE  Sub(h, n) \subseteq S /\ Sub(g, f[n]) = Image(f, Sub(h, n))
<1>1. /\ S \subseteq DOMAIN h /\ Down(h, S) /\ f[Null] = Null
      /\ \A m, k \in S \cup {Null} : f[m] = f[k] => m = k
      /\ DOMAIN g = {f[m] : m \in S}
      /\ \A m \in S : g[f[m]].left = f[h[m].left] /\ g[f[m]].right = f[h[m].right]
  BY DEF Renamed
<1>2. Closed(g) /\ f[n] \in Nodes(g) /\ n \in Nodes(h) /\ \A m \in S : f[m] \in DOMAIN g /\ f[m] # Null
  BY <1>1, RenamedClosed DEF Nodes
<1>3. Sub(h, n) \subseteq S
  BY <1>1, SubLeast
<1> DEFINE Renames == {f[m] : m \in Sub(h, n)}
           Source == {m \in S : f[m] \in Sub(g, f[n])}
<1>4. Sub(h, n) \in SUBSET DOMAIN h /\ Down(h, Sub(h, n)) /\ n \in Sub(h, n) \cup {Null}
  BY <1>2, SubDown
<1>5. Sub(g, f[n]) \subseteq Renames
  <2>1. Renames \in SUBSET DOMAIN g /\ f[n] \in Renames \cup {Null}
    BY <1>1, <1>2, <1>3, <1>4
  <2>2. Down(g, Renames)
    BY <1>1, <1>3, <1>4 DEF Down
  <2> QED
    BY <2>1, <2>2, SubLeast
<1>6. Renames \subseteq Sub(g, f[n])
  <2>1. Sub(g, f[n]) \in SUBSET DOMAIN g /\ Down(g, Sub(g, f[n])) /\ f[n] \in Sub(g, f[n]) \cup {Null}
    BY <1>2, SubDown
  <2>2. Source \in SUBSET DOMAIN h /\ n \in Source \cup {Null}
    BY <1>1, <1>2, <2>1
  <2>3. ASSUME NEW m \in Source, NEW k, k = h[m].left \/ k = h[m].right
        PROVE  k \in Source \cup {Null}
    <3>1. m \in S /\ f[m] \in Sub(g, f[n]) /\ k \in S \cup {Null}
      BY <1>1, <2>3 DEF Down
    <3>2. f[k] \in Sub(g, f[n]) \cup {Null}
      BY <1>1, <2>1, <2>3, <3>1 DEF Down
    <3> QED
      BY <1>1, <1>2, <3>1, <3>2
  <2>4. Down(h, Source)
    BY <2>3 DEF Down
  <2>5. Sub(h, n) \subseteq Source
    BY <2>2, <2>4, SubLeast
  <2> QED
    BY <2>5
<1> QED
  BY <1>3, <1>5, <1>6 DEF Image

\* Trees are the same trees under the other addresses.
LEMMA RenamedTree ==
  ASSUME NEW h, Closed(h), NEW S, NEW f, NEW g, Renamed(h, S, f, g), NEW n \in S \cup {Null},
         NEW H, NEW I, Tree(h, n, H, I)
  PROVE  Tree(g, f[n], H, I)
<1>1. /\ S \subseteq DOMAIN h /\ Down(h, S) /\ f[Null] = Null
      /\ \A m \in S :
           /\ g[f[m]].key = h[m].key /\ g[f[m]].value = h[m].value /\ g[f[m]].height = h[m].height
           /\ g[f[m]].left = f[h[m].left] /\ g[f[m]].right = f[h[m].right]
  BY DEF Renamed
<1>2. Closed(g) /\ f[n] \in Nodes(g) /\ \A m \in S : f[m] \in DOMAIN g /\ f[m] # Null
  BY RenamedClosed
<1>3. \A k \in S \cup {Null} : Sub(h, k) \subseteq S /\ Sub(g, f[k]) = Image(f, Sub(h, k))
  BY RenamedSub
<1>4. \A k \in S \cup {Null} : Height(g, f[k]) = Height(h, k)
  BY <1>1, <1>2 DEF Height, Closed
<1>5. \A k \in S \cup {Null} : ItemsOf(g, f[k]) = ItemsOf(h, k)
  <2> TAKE k \in S \cup {Null}
  <2>1. Sub(h, k) \subseteq S /\ Sub(g, f[k]) = {f[m] : m \in Sub(h, k)}
    BY <1>3 DEF Image
  <2>2. \A m \in Sub(h, k) : <<g[f[m]].key, g[f[m]].value>> = <<h[m].key, h[m].value>>
    BY <1>1, <2>1
  <2> QED
    BY <2>1, <2>2 DEF ItemsOf
<1>6. ASSUME NEW m \in Sub(h, n)
      PROVE  Local(g, f[m])
  <2>1. m \in S /\ Local(h, m) /\ h[m].left \in S \cup {Null} /\ h[m].right \in S \cup {Null}
    BY <1>1, <1>3 DEF Tree, AVL, Down
  <2> QED
    BY <1>1, <1>4, <1>5, <2>1 DEF Local
<1>7. AVL(g, f[n])
  BY <1>2, <1>3, <1>6 DEF AVL, Image
<1> QED
  BY <1>4, <1>5, <1>7 DEF Tree

\* The copies are at roots of a heap that holds balanced search trees and nothing else.
Kin(g, rs) ==
  /\ Closed(g) /\ DOMAIN g \subseteq Copies \X Keys /\ \A m \in DOMAIN g : AVL(g, m)
  /\ rs \in [Copies -> Nodes(g)]

\* Each copy has the tree it had.
Kindred(h, rs, g, new) == \A c \in Copies : Tree(g, new[c], Height(h, rs[c]), ItemsOf(h, rs[c]))

\* Settle gives the nodes in use other addresses, and keeps the trees.
LEMMA Settles ==
  ASSUME NEW h, Closed(h), NEW rs, rs \in [Copies -> Nodes(h)], \A c \in Copies : AVL(h, rs[c]), Settle(h, rs)
  PROVE  Kin(heap', roots') /\ Kindred(h, rs, heap', roots')
<1>1. PICK reach \in {UNION {{c} \X Reach(h, rs[c]) : c \in Copies}} :
         LET held     == {r[2] : r \in reach}
             Named(n) == IF n = Null THEN Null ELSE <<Min({c \in Copies : <<c, n>> \in reach}), h[n].key>>
         IN  /\ roots' = [c \in Copies |-> Named(rs[c])]
             /\ heap' = [a \in {Named(n) : n \in held} |->
                            LET n == CHOOSE m \in held : h[m].key = a[2] /\ Named(m) = a
                            IN  [h[n] EXCEPT !.left = Named(@), !.right = Named(@)]]
  BY Zenon DEF Settle
<1> DEFINE held == {r[2] : r \in reach}
           Owners(n) == {c \in Copies : <<c, n>> \in reach}
           Name(n) == IF n = Null THEN Null ELSE <<Min(Owners(n)), h[n].key>>
           f == [n \in held \cup {Null} |-> Name(n)]
           Source(a) == CHOOSE m \in held : h[m].key = a[2] /\ Name(m) = a
           Moved(n) == [h[n] EXCEPT !.left = Name(@), !.right = Name(@)]
           g == heap'
<1>2. roots' = [c \in Copies |-> Name(rs[c])] /\ g = [a \in {Name(n) : n \in held} |-> Moved(Source(a))]
  BY <1>1, Zenon
<1>3. reach = UNION {{c} \X Reach(h, rs[c]) : c \in Copies}
  OBVIOUS
<1>4. \A c \in Copies : \A n : <<c, n>> \in reach <=> n \in Reach(h, rs[c])
  BY <1>3
<1> HIDE DEF Source, Moved
<1>5. \A c \in Copies : Reach(h, rs[c]) = Sub(h, rs[c]) /\ Sub(h, rs[c]) \in SUBSET DOMAIN h
                        /\ Down(h, Sub(h, rs[c])) /\ rs[c] \in Sub(h, rs[c]) \cup {Null}
  BY Reaches, SubDown
<1>6. \A c \in Copies : \A n : <<c, n>> \in reach <=> n \in Sub(h, rs[c])
  BY <1>4, <1>5, ZenonT(60)
<1>7. \A n : n \in held <=> \E c \in Copies : n \in Sub(h, rs[c])
  <2>1. ASSUME NEW n \in held
        PROVE  \E c \in Copies : n \in Sub(h, rs[c])
    <3>1. PICK r \in reach : n = r[2]
      OBVIOUS
    <3>2. PICK c \in Copies : r \in {c} \X Reach(h, rs[c])
      BY <1>3, <3>1
    <3> QED
      BY <1>5, <3>1, <3>2
  <2>2. ASSUME NEW n, NEW c \in Copies, n \in Sub(h, rs[c])
        PROVE  n \in held
    <3>1. <<c, n>> \in reach /\ <<c, n>>[2] = n
      BY <1>6, <2>2
    <3> QED
      BY <3>1
  <2> QED
    BY <2>1, <2>2
<1> HIDE DEF held
<1>8. held \subseteq DOMAIN h /\ Down(h, held) /\ \A c \in Copies : rs[c] \in held \cup {Null}
  BY <1>5, <1>7 DEF Down
<1>9. ASSUME NEW n \in held
      PROVE  Min(Owners(n)) \in Copies /\ n \in Sub(h, rs[Min(Owners(n))])
  <2>1. Owners(n) # {} /\ Owners(n) \subseteq Copies
    BY <1>6, <1>7
  <2>2. Owners(n) \subseteq Nat
    BY <2>1, CopiesAssumption
  <2>3. \E x \in Owners(n) : \A y \in Owners(n) : x <= y
    <3> HIDE DEF Owners
    <3> QED
      BY <2>1, <2>2, LeastNat
  <2>4. Min(Owners(n)) \in Owners(n)
    BY <2>3 DEF Min
  <2> HIDE DEF Owners
  <2>5. Min(Owners(n)) \in Copies /\ <<Min(Owners(n)), n>> \in reach
    BY <2>4 DEF Owners
  <2> QED
    BY <1>6, <2>5
<1> DEFINE owner(n) == Min(Owners(n))
<1> HIDE DEF Owners
<1>10. \A n \in held : owner(n) \in Copies /\ n \in Sub(h, rs[owner(n)]) /\ h[n].key \in Keys /\ n # Null
  BY <1>8, <1>9 DEF AVL, Local, Closed
<1>11. \A n \in held : Name(n) = <<owner(n), h[n].key>>
  BY <1>10
<1>12. Null \notin held /\ Name(Null) = Null
  BY <1>10
<1> HIDE DEF owner, Name
<1>13. \A n \in held : Name(n) # Null /\ Name(n) \in Copies \X Keys
  BY <1>10, <1>11, CopiesAssumption DEF Null
<1>14. \A m, n \in held : Name(m) = Name(n) => m = n
  <2> SUFFICES ASSUME NEW m \in held, NEW n \in held, Name(m) = Name(n) PROVE m = n
    OBVIOUS
  <2>1. owner(m) = owner(n) /\ h[m].key = h[n].key
    BY <1>11
  <2>2. AVL(h, rs[owner(m)]) /\ m \in Sub(h, rs[owner(m)]) /\ n \in Sub(h, rs[owner(m)])
    BY <1>10, <2>1
  <2> QED
    BY <2>1, <2>2, UniqueKeys
<1>15. \A m, k \in held \cup {Null} : f[m] = f[k] => m = k
  BY <1>12, <1>13, <1>14
<1>16. \A m \in held \cup {Null} : f[m] = Name(m)
  OBVIOUS
<1>17. DOMAIN g = {f[m] : m \in held} /\ g = [a \in DOMAIN g |-> g[a]]
  <2>1. DOMAIN g = {Name(n) : n \in held} /\ g = [a \in DOMAIN g |-> g[a]]
    BY <1>2
  <2>2. {Name(n) : n \in held} = {f[m] : m \in held}
    BY <1>16
  <2> QED
    BY <2>1, <2>2
<1>18. ASSUME NEW m \in held
       PROVE  g[f[m]] = [h[m] EXCEPT !.left = Name(@), !.right = Name(@)]
  <2> DEFINE a == Name(m)
             n == CHOOSE k \in held : h[k].key = a[2] /\ Name(k) = a
  <2>1. h[m].key = a[2] /\ Name(m) = a
    BY <1>11
  <2>2. n \in held /\ Name(n) = a
    BY <2>1
  <2>3. n = m
    BY <1>14, <2>2
  <2>4. g[a] = Moved(Source(a))
    BY <1>2
  <2> QED
    BY <2>3, <2>4 DEF Source, Moved
<1>19. ASSUME NEW m \in held
       PROVE  /\ Record(g[f[m]]) /\ g[f[m]].key = h[m].key /\ g[f[m]].value = h[m].value /\ g[f[m]].height = h[m].height
              /\ g[f[m]].left = f[h[m].left] /\ g[f[m]].right = f[h[m].right]
  <2> DEFINE old == h[m]
             new == g[f[m]]
  <2>1. Record(old) /\ old.left \in held \cup {Null} /\ old.right \in held \cup {Null}
    BY <1>8 DEF Closed, Down
  <2>2. new = [old EXCEPT !.left = Name(old.left), !.right = Name(old.right)]
    BY <1>18
  <2>3. Name(old.left) = f[old.left] /\ Name(old.right) = f[old.right]
    BY <1>16, <2>1
  <2> HIDE DEF old, new, f
  <2>4. /\ Record(new) /\ new.key = old.key /\ new.value = old.value /\ new.height = old.height
        /\ new.left = Name(old.left) /\ new.right = Name(old.right)
    BY <2>1, <2>2 DEF Record
  <2> QED
    BY <2>3, <2>4 DEF old, new
<1>20. f[Null] = Null
  BY <1>12
<1> HIDE DEF f
<1>21. Renamed(h, held, f, g)
  BY <1>8, <1>15, <1>17, <1>19, <1>20 DEF Renamed
<1>22. Closed(g) /\ \A m \in held \cup {Null} : f[m] \in Nodes(g)
  BY <1>21, RenamedClosed
<1>23. DOMAIN g \subseteq Copies \X Keys
  BY <1>13, <1>16, <1>17
<1>24. ASSUME NEW a \in DOMAIN g
       PROVE  AVL(g, a)
  <2>1. PICK m \in held : a = f[m]
    BY <1>17
  <2>2. Sub(h, m) \subseteq Sub(h, rs[owner(m)]) /\ m \in DOMAIN h
    BY <1>10, SubOfSub
  <2>3. Tree(h, m, Height(h, m), ItemsOf(h, m))
    BY <1>10, <2>2 DEF Tree, AVL, Nodes
  <2>4. Tree(g, a, Height(h, m), ItemsOf(h, m))
    BY <1>21, <2>1, <2>3, RenamedTree
  <2> QED
    BY <2>4 DEF Tree
<1>25. \A c \in Copies : roots'[c] = f[rs[c]] /\ rs[c] \in held \cup {Null}
  BY <1>2, <1>8, <1>16
<1>26. roots' \in [Copies -> Nodes(g)]
  BY <1>2, <1>22, <1>25
<1>27. ASSUME NEW c \in Copies
       PROVE  Tree(g, roots'[c], Height(h, rs[c]), ItemsOf(h, rs[c]))
  <2>1. Tree(h, rs[c], Height(h, rs[c]), ItemsOf(h, rs[c]))
    BY DEF Tree
  <2> QED
    BY <1>21, <1>25, <2>1, RenamedTree
<1> HIDE DEF g
<1>28. Kin(g, roots') /\ Kindred(h, rs, g, roots')
  BY <1>22, <1>23, <1>24, <1>26, <1>27 DEF Kin, Kindred
<1> QED
  BY <1>28 DEF g

-----------------------------------------------------------------------------
(* The calls. *)

\* Between calls: every node is in a balanced search tree, and nothing that was freed has been read.
TreeInv == Kin(heap, roots) /\ changed \in BOOLEAN /\ dangling = FALSE

\* The items of a copy.
Held(c) == ItemsOf(heap, roots[c])

\* One copy gets these items, the others keep theirs.
Becomes(c, I) == Held(c)' = I /\ \A d \in Copies \ {c} : Held(d)' = Held(d)

\* Between calls there are no new nodes.
LEMMA KinSane ==
  ASSUME NEW h, NEW rs, Kin(h, rs)
  PROVE  Sane(h) /\ \A c \in Copies : AVL(h, rs[c]) /\ rs[c] \in Nodes(h) /\ Tree(h, rs[c], Height(h, rs[c]), ItemsOf(h, rs[c]))
<1>1. Closed(h) /\ DOMAIN h \subseteq Copies \X Keys /\ (\A m \in DOMAIN h : AVL(h, m)) /\ rs \in [Copies -> Nodes(h)]
  BY DEF Kin
<1>2. Created(h) = {}
  BY <1>1, CopiesAssumption DEF Created
<1>3. Numbered(0) = {}
  BY DEF Numbered
<1>4. \A c \in Copies : rs[c] \in Nodes(h) /\ AVL(h, rs[c])
  BY <1>1, TreeNull DEF Nodes, Tree
<1> QED
  BY <1>1, <1>2, <1>3, <1>4 DEF Sane, Tree

\* The end of a call: the copy has the tree that was made, the others have theirs.
LEMMA Assigns ==
  ASSUME Kin(heap, roots), NEW c \in Copies, NEW r, Sane(r.heap), Extends(heap, r.heap),
         NEW H, NEW I, Tree(r.heap, r.node, H, I), Assign(c, r)
  PROVE  Kin(heap', roots') /\ Becomes(c, I) /\ changed' = (r.node # roots[c])
<1> DEFINE h == r.heap
           rs == [roots EXCEPT ![c] = r.node]
<1>1. Settle(h, rs) /\ changed' = (r.node # roots[c])
  BY DEF Assign
<1>2. Closed(heap) /\ Closed(h) /\ roots \in [Copies -> Nodes(heap)]
  BY KinSane DEF Sane, Kin
<1>3. \A d \in Copies : Tree(heap, roots[d], Height(heap, roots[d]), Held(d))
  BY KinSane DEF Held
<1>4. rs[c] = r.node /\ \A d \in Copies \ {c} : rs[d] = roots[d]
  BY <1>2
<1>5. r.node \in Nodes(h) /\ AVL(h, r.node) /\ I = ItemsOf(h, r.node)
  BY DEF Tree, AVL
<1>6. Nodes(heap) \subseteq Nodes(h)
  BY DEF Nodes, Extends
<1>7. rs \in [Copies -> Nodes(h)]
  BY <1>2, <1>5, <1>6
<1>8. \A d \in Copies : Tree(h, roots[d], Height(heap, roots[d]), Held(d))
  BY <1>2, <1>3, TreeFrame
<1>9. \A d \in Copies : AVL(h, rs[d])
  BY <1>4, <1>5, <1>8 DEF Tree
<1> HIDE DEF h, rs
<1>10. Kin(heap', roots') /\ Kindred(h, rs, heap', roots')
  BY <1>1, <1>2, <1>7, <1>9, Settles
<1>11. \A d \in Copies : ItemsOf(heap', roots'[d]) = ItemsOf(h, rs[d])
  BY <1>10 DEF Kindred, Tree
<1>12. Held(c)' = I
  BY <1>4, <1>5, <1>11 DEF Held, h
<1>13. \A d \in Copies \ {c} : Held(d)' = Held(d)
  <2> TAKE d \in Copies \ {c}
  <2>1. ItemsOf(heap', roots'[d]) = ItemsOf(h, roots[d])
    BY <1>4, <1>11
  <2>2. ItemsOf(h, roots[d]) = Held(d)
    BY <1>8 DEF Tree, h
  <2> QED
    BY <2>1, <2>2 DEF Held
<1> QED
  BY <1>1, <1>10, <1>12, <1>13 DEF Becomes

\* insert and replace.
LEMMA InsertStep ==
  ASSUME TreeInv, NEW c \in Copies, NEW key \in Keys, NEW value \in Values, NEW replacing \in BOOLEAN,
         Insert(c, key, value, replacing)
  PROVE  /\ TreeInv' /\ Becomes(c, Stored(Held(c), key, value, replacing))
         /\ changed' = ~Kept(Held(c), key, replacing)
<1>1. Kin(heap, roots) /\ dangling = FALSE
  BY DEF TreeInv
<1>2. Sane(heap) /\ roots[c] \in Nodes(heap) /\ \A m \in DOMAIN heap : AVL(heap, m)
  BY <1>1, KinSane DEF Kin
<1> DEFINE s == InsertInternal(heap, roots[c], key, value, replacing)
           n == roots[c]
<1>3. Assign(c, s) /\ dangling' = (dangling \/ s.stale)
  BY DEF Insert
<1>4. InsertedInto(heap, n, key, value, replacing, s)
  BY <1>2, Inserts
<1> HIDE DEF s
<1>5. /\ Sane(s.heap) /\ Extends(heap, s.heap) /\ s.stale = FALSE
      /\ Tree(s.heap, s.node, Height(s.heap, s.node), Stored(Held(c), key, value, replacing))
      /\ IF Kept(Held(c), key, replacing) THEN s.node = n ELSE s.node \notin Nodes(heap)
  BY <1>4 DEF InsertedInto, Held
<1>6. /\ Kin(heap', roots') /\ Becomes(c, Stored(Held(c), key, value, replacing))
      /\ changed' = (s.node # roots[c])
  BY <1>1, <1>3, <1>5, Assigns
<1>7. changed' = ~Kept(Held(c), key, replacing) /\ changed' \in BOOLEAN
  <2>1. s.node # roots[c] <=> ~Kept(Held(c), key, replacing)
    BY <1>2, <1>5
  <2>2. Kept(Held(c), key, replacing) \in BOOLEAN
    BY DEF Kept
  <2> QED
    BY <1>6, <2>1, <2>2
<1> QED
  BY <1>1, <1>3, <1>5, <1>6, <1>7 DEF TreeInv

\* erase.
LEMMA EraseStep ==
  ASSUME TreeInv, NEW c \in Copies, NEW key \in Keys, Erase(c, key)
  PROVE  TreeInv' /\ Becomes(c, Without(Held(c), key)) /\ (changed' = TRUE <=> Has(Held(c), key))
<1>1. Kin(heap, roots) /\ dangling = FALSE
  BY DEF TreeInv
<1>2. Sane(heap) /\ roots[c] \in Nodes(heap) /\ \A m \in DOMAIN heap : AVL(heap, m)
  BY <1>1, KinSane DEF Kin
<1> DEFINE s == DeleteInternal(heap, roots[c], key)
           n == roots[c]
<1>3. Assign(c, s) /\ dangling' = dangling
  BY DEF Erase
<1>4. ErasedFrom(heap, n, key, s)
  BY <1>2, Erases
<1> HIDE DEF s
<1>5. /\ Sane(s.heap) /\ Extends(heap, s.heap)
      /\ Tree(s.heap, s.node, Height(s.heap, s.node), Without(Held(c), key))
      /\ IF Has(Held(c), key) THEN s.node # n ELSE s.node = n
  BY <1>4 DEF ErasedFrom, Held
<1>6. Kin(heap', roots') /\ Becomes(c, Without(Held(c), key)) /\ changed' = (s.node # roots[c])
  BY <1>1, <1>3, <1>5, Assigns
<1>7. (changed' = TRUE <=> Has(Held(c), key)) /\ changed' \in BOOLEAN
  <2>1. s.node # roots[c] <=> Has(Held(c), key)
    BY <1>5
  <2> QED
    BY <1>6, <2>1
<1> QED
  BY <1>1, <1>3, <1>6, <1>7 DEF TreeInv

\* Copying.
LEMMA CopyStep ==
  ASSUME TreeInv, NEW from \in Copies, NEW to \in Copies, Copy(from, to)
  PROVE  TreeInv' /\ Becomes(to, Held(from)) /\ changed' = changed
<1> DEFINE rs == [roots EXCEPT ![to] = roots[from]]
<1>1. Kin(heap, roots) /\ dangling = FALSE /\ changed \in BOOLEAN
  BY DEF TreeInv
<1>2. Settle(heap, rs) /\ changed' = changed /\ dangling' = dangling
  BY DEF Copy
<1>3. Closed(heap) /\ roots \in [Copies -> Nodes(heap)] /\ \A d \in Copies : AVL(heap, roots[d])
  BY <1>1, KinSane DEF Sane, Kin
<1>4. rs \in [Copies -> Nodes(heap)] /\ rs[to] = roots[from] /\ \A d \in Copies \ {to} : rs[d] = roots[d]
  BY <1>3
<1>5. \A d \in Copies : AVL(heap, rs[d])
  BY <1>3, <1>4
<1> HIDE DEF rs
<1>6. Kin(heap', roots') /\ Kindred(heap, rs, heap', roots')
  BY <1>2, <1>3, <1>4, <1>5, Settles
<1>7. \A d \in Copies : ItemsOf(heap', roots'[d]) = ItemsOf(heap, rs[d])
  BY <1>6 DEF Kindred, Tree
<1>8. Becomes(to, Held(from))
  BY <1>4, <1>7 DEF Becomes, Held
<1> QED
  BY <1>1, <1>2, <1>6, <1>8 DEF TreeInv

\* At the start the copies are empty.
LEMMA TreeInit ==
  ASSUME Init
  PROVE  TreeInv /\ \A c \in Copies : roots[c] = Null /\ Held(c) = {}
<1>1. heap = <<>> /\ roots = [c \in Copies |-> Null] /\ changed = FALSE /\ dangling = FALSE
  BY DEF Init
<1>2. DOMAIN heap = {} /\ heap = [m \in DOMAIN heap |-> heap[m]]
  BY <1>1
<1>3. Closed(heap)
  BY <1>2 DEF Closed, Down
<1>4. Kin(heap, roots)
  BY <1>1, <1>2, <1>3 DEF Kin, Nodes
<1>5. \A c \in Copies : Held(c) = {}
  BY <1>1, SubNull DEF Held, ItemsOf
<1> QED
  BY <1>1, <1>4, <1>5 DEF TreeInv

\* Every call keeps every copy of the tree a balanced search tree.
LEMMA TreeNext ==
  ASSUME TreeInv, [Next]_vars
  PROVE  TreeInv'
<1>1. ASSUME NEW c \in Copies, NEW item \in Items, NEW replacing \in BOOLEAN, Insert(c, item[1], item[2], replacing)
      PROVE  TreeInv'
  <2>1. item[1] \in Keys /\ item[2] \in Values
    BY ItemsAssumption
  <2> QED
    BY <1>1, <2>1, InsertStep
<1>2. ASSUME NEW c \in Copies, NEW key \in Keys, Erase(c, key)
      PROVE  TreeInv'
  BY <1>2, EraseStep
<1>3. ASSUME NEW c \in Copies, NEW to \in Copies, Copy(c, to)
      PROVE  TreeInv'
  BY <1>3, CopyStep
<1>4. CASE UNCHANGED vars
  BY <1>4 DEF vars, TreeInv
<1> QED
  BY <1>1, <1>2, <1>3, <1>4 DEF Next

\* Nodes have the fields of nodes, addresses lead to nodes, whatever the keys, the values and the copies.
THEOREM TreeTypeOK == Spec => []TypeOK
<1>1. ASSUME TreeInv
      PROVE  TypeOK
  <2>1. Kin(heap, roots) /\ changed \in BOOLEAN /\ dangling = FALSE
    BY <1>1 DEF TreeInv
  <2>2. /\ Closed(heap) /\ DOMAIN heap \subseteq Copies \X Keys /\ (\A m \in DOMAIN heap : AVL(heap, m))
        /\ roots \in [Copies -> Nodes(heap)]
    BY <2>1 DEF Kin
  <2>3. ASSUME NEW n \in DOMAIN heap
        PROVE  /\ heap[n] \in Node /\ heap[n].height > 0
               /\ heap[n].left \in DOMAIN heap \cup {Null} /\ heap[n].right \in DOMAIN heap \cup {Null}
    <3>1. Local(heap, n) /\ n # Null
      <4>1. n \in Nodes(heap) /\ n # Null
        BY <2>2 DEF Nodes, Closed
      <4> QED
        BY <2>2, <4>1, SubDown DEF AVL
    <3>2. Record(heap[n]) /\ heap[n].left \in DOMAIN heap \cup {Null} /\ heap[n].right \in DOMAIN heap \cup {Null}
      BY <2>2 DEF Closed, Down
    <3>3. heap[n].left \in Links /\ heap[n].right \in Links
      BY <2>2, <3>2 DEF Links
    <3>4. heap[n].height > 0
      <4>1. Height(heap, n) = heap[n].height /\ Tree(heap, n, Height(heap, n), ItemsOf(heap, n))
        BY <2>2, <3>1 DEF Height, Tree
      <4>2. Height(heap, n) # 0 /\ Height(heap, n) \in Nat
        BY <2>2, <3>1, <4>1, TreeParts
      <4> QED
        BY <4>1, <4>2
    <3>5. heap[n] \in Node
      <4> DEFINE x == heap[n]
      <4>1. x.key \in Keys /\ x.value \in Values /\ x.height \in Nat /\ Record(x) /\ x.left \in Links /\ x.right \in Links
        BY <3>1, <3>2, <3>3 DEF Local
      <4> HIDE DEF x
      <4>2. x \in Node
        BY <4>1 DEF Node, Record
      <4> QED
        BY <4>2 DEF x
    <3> QED
      BY <3>2, <3>4, <3>5
  <2>4. roots \in [Copies -> DOMAIN heap \cup {Null}]
    BY <2>2 DEF Nodes
  <2>5. {heap[n].left : n \in DOMAIN heap} \cup {heap[n].right : n \in DOMAIN heap} \subseteq DOMAIN heap \cup {Null}
    BY <2>3
  <2> QED
    BY <2>1, <2>3, <2>4, <2>5 DEF TypeOK
<1> QED
  BY <1>1, TreeInit, TreeNext, PTL DEF Spec

\* Every version of the tree is a balanced search tree with the right heights, whatever is inserted, erased and copied.
THEOREM TreeBalanced == Spec => []Balanced
<1>1. ASSUME TreeInv
      PROVE  Balanced
  <2>1. Kin(heap, roots)
    BY <1>1 DEF TreeInv
  <2>2. Closed(heap) /\ Sane(heap) /\ \A m \in DOMAIN heap : AVL(heap, m)
    BY <2>1, KinSane DEF Kin
  <2> SUFFICES ASSUME NEW n \in DOMAIN heap
               PROVE  /\ \A m \in Reach(heap, heap[n].left)  : Less(heap[m].key, heap[n].key)
                      /\ \A m \in Reach(heap, heap[n].right) : Less(heap[n].key, heap[m].key)
                      /\ UpdateHeight(heap, n) = heap
                      /\ HeavySide(heap, n) = "none"
    BY DEF Balanced
  <2> DEFINE l == heap[n].left
             r == heap[n].right
             a == Height(heap, l)
             b == Height(heap, r)
             A == ItemsOf(heap, l)
             B == ItemsOf(heap, r)
  <2>3. "left" \in Sides /\ Other("left") = "right"
    BY DEF Sides, Other
  <2>4. /\ Tree(heap, l, a, A) /\ Tree(heap, r, b, B) /\ Near(a, b) /\ heap[n].height = Above(a, b)
        /\ Beside("left", A, heap[n].key) /\ Beside("right", B, heap[n].key)
        /\ heap[n].key \in Keys /\ heap[n].value \in Values
    BY <2>2, <2>3, Split
  <2>5. Reach(heap, l) = Sub(heap, l) /\ Reach(heap, r) = Sub(heap, r)
    BY <2>2, <2>4, Reaches DEF Tree
  <2>6. ASSUME NEW m \in Reach(heap, l)
        PROVE  Less(heap[m].key, heap[n].key)
    <3>1. <<heap[m].key, heap[m].value>> \in A
      BY <2>5 DEF ItemsOf
    <3> QED
      BY <2>4, <3>1, BesideSome DEF Before
  <2>7. ASSUME NEW m \in Reach(heap, r)
        PROVE  Less(heap[n].key, heap[m].key)
    <3>1. <<heap[m].key, heap[m].value>> \in B
      BY <2>5 DEF ItemsOf
    <3> QED
      BY <2>4, <3>1, BesideSome DEF Before
  <2>8. UpdateHeight(heap, n) = heap
    BY <2>2, <2>3, RebuildSame
  <2>9. HeavySide(heap, n) = "none"
    <3>1. Root(heap, n, "left", a, A, b, B)
      BY <2>3, <2>4 DEF Root
    <3> QED
      BY <2>2, <2>3, <2>4, <3>1, Heavy
  <2> QED
    BY <2>6, <2>7, <2>8, <2>9
<1> QED
  BY <1>1, TreeInit, TreeNext, PTL DEF Spec

\* No insertion reads finkey after the node it points into was freed.
THEOREM TreeFinkeyAlive == Spec => []FinkeyAlive
<1>1. TreeInv => FinkeyAlive
  BY DEF TreeInv, FinkeyAlive
<1> QED
  BY <1>1, TreeInit, TreeNext, PTL DEF Spec

-----------------------------------------------------------------------------
(* The maps that the copies stand for. *)

ValueOf(I, k) == CHOOSE v : <<k, v>> \in I

Mapping(I) == [k \in {i[1] : i \in I} |-> ValueOf(I, k)]

\* Items of which no two have the same key.
Single(I) == I \in SUBSET (Keys \X Values) /\ \A i, j \in I : i[1] = j[1] => i = j

\* A copy holds one item for a key, and its contents are those items.
LEMMA HeldMapping ==
  ASSUME TreeInv, NEW c \in Copies
  PROVE  Single(Held(c)) /\ Contents(roots[c]) = Mapping(Held(c))
<1> DEFINE root == roots[c]
           nodes == Sub(heap, root)
           I == Held(c)
<1>1. Kin(heap, roots)
  BY DEF TreeInv
<1>2. Closed(heap) /\ AVL(heap, root) /\ Tree(heap, root, Height(heap, root), I)
  BY <1>1, KinSane DEF Sane, Held
<1>3. I \in SUBSET (Keys \X Values) /\ Reach(heap, root) = nodes
  BY <1>2, TreeParts, Reaches
<1>4. \A m, k \in nodes : heap[m].key = heap[k].key => m = k
  BY <1>2, UniqueKeys
<1>5. I = {<<heap[m].key, heap[m].value>> : m \in nodes}
  BY DEF Held, ItemsOf
<1> HIDE DEF I, nodes
<1>6. Single(I)
  BY <1>3, <1>4, <1>5 DEF Single
<1>7. {heap[n].key : n \in nodes} = {i[1] : i \in I}
  <2>1. \A n \in nodes : heap[n].key = <<heap[n].key, heap[n].value>>[1]
    OBVIOUS
  <2>2. \A n \in nodes : \E i \in I : heap[n].key = i[1]
    BY <1>5, <2>1
  <2>3. \A i \in I : \E n \in nodes : heap[n].key = i[1]
    BY <1>5, <2>1
  <2> QED
    BY <2>2, <2>3
<1>8. ASSUME NEW key \in {heap[n].key : n \in nodes}
      PROVE  heap[CHOOSE n \in nodes : heap[n].key = key].value = ValueOf(I, key)
  <2>1. PICK n \in nodes : heap[n].key = key
    BY <1>8
  <2>2. (CHOOSE k \in nodes : heap[k].key = key) = n
    BY <1>4, <2>1
  <2>3. \A v : <<key, v>> \in I <=> v = heap[n].value
    BY <1>4, <1>5, <2>1
  <2>4. ValueOf(I, key) = heap[n].value
    BY <2>3 DEF ValueOf
  <2> QED
    BY <2>2, <2>4
<1>9. Contents(root) = [key \in {heap[n].key : n \in nodes} |-> heap[CHOOSE n \in nodes : heap[n].key = key].value]
  BY <1>3 DEF Contents
<1>10. Contents(root) = Mapping(I)
  <2> DEFINE found == {heap[n].key : n \in nodes}
             at(key) == heap[CHOOSE n \in nodes : heap[n].key = key].value
  <2>1. Contents(root) = [key \in found |-> at(key)] /\ \A key \in found : at(key) = ValueOf(I, key)
    BY <1>8, <1>9
  <2>2. Mapping(I) = [key \in found |-> ValueOf(I, key)]
    BY <1>7 DEF Mapping
  <2> HIDE DEF found, at
  <2> QED
    BY <2>1, <2>2
<1> QED
  BY <1>6, <1>10 DEF I

\* The value of a key.
LEMMA MappingAt ==
  ASSUME NEW I, Single(I)
  PROVE  /\ \A k : k \in DOMAIN Mapping(I) <=> Has(I, k)
         /\ \A k, v : <<k, v>> \in I => k \in DOMAIN Mapping(I) /\ Mapping(I)[k] = v
         /\ \A k \in DOMAIN Mapping(I) : <<k, Mapping(I)[k]>> \in I
<1>1. DOMAIN Mapping(I) = {i[1] : i \in I}
  BY DEF Mapping
<1>2. \A k : k \in DOMAIN Mapping(I) <=> Has(I, k)
  BY <1>1 DEF Has
<1>3. ASSUME NEW k, NEW v, <<k, v>> \in I
      PROVE  k \in DOMAIN Mapping(I) /\ Mapping(I)[k] = v
  <2>1. <<k, v>>[1] = k
    OBVIOUS
  <2>2. k \in DOMAIN Mapping(I)
    BY <1>1, <1>3, <2>1
  <2>3. \A w : <<k, w>> \in I => w = v
    <3> SUFFICES ASSUME NEW w, <<k, w>> \in I PROVE w = v
      OBVIOUS
    <3>1. <<k, w>> = <<k, v>>
      BY <1>3 DEF Single
    <3> QED
      BY <3>1
  <2>4. (CHOOSE w : <<k, w>> \in I) = v
    BY <1>3, <2>3
  <2>5. ValueOf(I, k) = v
    BY <2>4 DEF ValueOf
  <2> QED
    BY <1>1, <2>2, <2>5 DEF Mapping
<1>4. ASSUME NEW k \in DOMAIN Mapping(I)
      PROVE  <<k, Mapping(I)[k]>> \in I
  <2>1. PICK i \in I : i[1] = k
    BY <1>1
  <2>2. i \in Keys \X Values
    BY DEF Single
  <2>3. i = <<k, i[2]>>
    BY <2>1, <2>2
  <2> QED
    BY <1>3, <2>3
<1> QED
  BY <1>2, <1>3, <1>4

\* Inserting, in the items and in the map.
LEMMA MappingStored ==
  ASSUME NEW I, Single(I), NEW key \in Keys, NEW value \in Values, NEW replace \in BOOLEAN
  PROVE  /\ Kept(I, key, replace) <=> ~replace /\ key \in DOMAIN Mapping(I)
         /\ Single(Stored(I, key, value, replace))
         /\ Mapping(Stored(I, key, value, replace)) =
               IF Kept(I, key, replace) THEN Mapping(I) ELSE Map!With(Mapping(I), key, value)
<1> DEFINE J == {i \in I : i[1] # key} \cup {<<key, value>>}
<1>1. Kept(I, key, replace) <=> ~replace /\ key \in DOMAIN Mapping(I)
  BY MappingAt DEF Kept, Has
<1>2. Single(J)
  BY DEF Single
<1>3. Mapping(J) = Map!With(Mapping(I), key, value)
  <2> DEFINE M == Mapping(I)
             N == Mapping(J)
  <2>1. N = [k \in DOMAIN N |-> N[k]]
    BY DEF Mapping
  <2>2. DOMAIN N = DOMAIN M \cup {key}
    <3>1. \A k : Has(J, k) <=> Has(I, k) \/ k = key
      <4>1. <<key, value>> \in J /\ <<key, value>>[1] = key
        OBVIOUS
      <4>2. \A i : i \in J <=> (i \in I /\ i[1] # key) \/ i = <<key, value>>
        OBVIOUS
      <4> HIDE DEF J
      <4> QED
        BY <4>1, <4>2 DEF Has
    <3> HIDE DEF J
    <3> QED
      BY <1>2, <3>1, MappingAt
  <2>3. ASSUME NEW k \in DOMAIN M \cup {key}
        PROVE  N[k] = IF k = key THEN value ELSE M[k]
    <3>1. CASE k = key
      <4>1. <<key, value>> \in J
        OBVIOUS
      <4> HIDE DEF J
      <4> QED
        BY <1>2, <3>1, <4>1, MappingAt
    <3>2. CASE k # key
      <4>1. <<k, M[k]>> \in I
        BY <3>2, MappingAt
      <4> HIDE DEF M
      <4>2. <<k, M[k]>> \in J
        BY <3>2, <4>1
      <4> HIDE DEF J
      <4> QED
        BY <1>2, <3>2, <4>2, MappingAt
    <3> QED
      BY <3>1, <3>2
  <2> HIDE DEF M, N
  <2>4. N = [k \in DOMAIN M \cup {key} |-> IF k = key THEN value ELSE M[k]]
    BY <2>1, <2>2, <2>3
  <2> QED
    BY <2>4 DEF M, N, Map!With
<1>4. Stored(I, key, value, replace) = IF Kept(I, key, replace) THEN I ELSE J
  BY DEF Stored
<1> HIDE DEF J
<1> QED
  BY <1>1, <1>2, <1>3, <1>4

\* Erasing, in the items and in the map.
LEMMA MappingWithout ==
  ASSUME NEW I, Single(I), NEW key
  PROVE  Single(Without(I, key)) /\ Mapping(Without(I, key)) = Map!Without(Mapping(I), key)
<1> DEFINE J == Without(I, key)
           M == Mapping(I)
           N == Mapping(J)
<1>1. Single(J)
  BY DEF Single, Without
<1>2. N = [k \in DOMAIN N |-> N[k]]
  BY DEF Mapping
<1>3. DOMAIN N = DOMAIN M \ {key}
  <2>1. \A k : Has(J, k) <=> Has(I, k) /\ k # key
    BY DEF Has, Without
  <2> HIDE DEF J
  <2> QED
    BY <1>1, <2>1, MappingAt
<1>4. ASSUME NEW k \in DOMAIN M \ {key}
      PROVE  N[k] = M[k]
  <2>1. <<k, M[k]>> \in I /\ k # key
    BY MappingAt
  <2> HIDE DEF M
  <2>2. <<k, M[k]>> \in J
    BY <2>1 DEF Without
  <2> HIDE DEF J
  <2> QED
    BY <1>1, <2>2, MappingAt
<1> HIDE DEF M, N
<1>5. N = [k \in DOMAIN M \ {key} |-> M[k]]
  BY <1>2, <1>3, <1>4
<1> QED
  BY <1>1, <1>5 DEF M, N, J, Map!Without

\* The maps that the refinement mapping gives.
Copied == [c \in Copies |-> Contents(roots[c])]

Mapped == \A c \in Copies : Contents(roots[c]) = Mapping(Held(c))

\* They are those of the items, now and after the next call.
LEMMA IsMapped == TreeInv => Mapped
BY HeldMapping DEF Mapped

\* When one copy gets items, its map becomes theirs and the other maps stay.
LEMMA BecomesMap ==
  ASSUME TreeInv, TreeInv', NEW c \in Copies, NEW I, Becomes(c, I)
  PROVE  /\ Copied' = [Copied EXCEPT ![c] = Mapping(I)] /\ Copied'[c] = Mapping(I)
         /\ Copied[c] = Mapping(Held(c))
<1>1. Mapped /\ Mapped'
  BY IsMapped, PTL
<1>2. \A d \in Copies : Contents(roots[d]) = Mapping(Held(d))
  BY <1>1 DEF Mapped
<1>3. \A d \in Copies : Contents(roots[d])' = Mapping(Held(d)')
  BY <1>1 DEF Mapped, Mapping, ValueOf
<1>4. Held(c)' = I /\ \A d \in Copies \ {c} : Held(d)' = Held(d)
  BY DEF Becomes
<1>5. Copied' = [d \in Copies |-> Contents(roots[d])']
  BY DEF Copied
<1>6. Copied = [d \in Copies |-> Contents(roots[d])]
  BY DEF Copied
<1> QED
  BY <1>2, <1>3, <1>4, <1>5, <1>6

\* What one copy becomes is a step of the maps, if it is one of that map.
LEMMA OneMap ==
  ASSUME TreeInv, TreeInv', NEW c \in Copies, NEW I, Becomes(c, I), Maps!Operation(c, Mapping(Held(c)), Mapping(I))
  PROVE  Maps!Next
<1>1. Copied' = [Copied EXCEPT ![c] = Mapping(I)] /\ Copied'[c] = Mapping(I) /\ Copied[c] = Mapping(Held(c))
  BY BecomesMap
<1> DEFINE map == Mapping(Held(c))
           new == Mapping(I)
<1>2. map \in {Copied[c]} /\ new \in {Copied'[c]} /\ Copied' = [Copied EXCEPT ![c] = new] /\ Maps!Operation(c, map, new)
  BY <1>1
<1> HIDE DEF map, new
<1> QED
  BY <1>2 DEF Maps!Next, Copied

\* The copies of the tree are sorted maps of their own, and the calls return what those of maps would.
THEOREM TreeRefinesMaps == Spec => RefinesMapCopies
<1>1. ASSUME Init
      PROVE  Maps!Init
  <2>1. TreeInv /\ changed = FALSE /\ \A c \in Copies : Held(c) = {}
    BY <1>1, TreeInit DEF Init
  <2>2. \A c \in Copies : Contents(roots[c]) = Mapping({})
    BY <2>1, HeldMapping
  <2>3. Mapping({}) = Map!Empty
    BY DEF Mapping, Map!Empty
  <2> QED
    BY <2>1, <2>2, <2>3 DEF Maps!Init, Maps!Empty, Map!Empty
<1>2. ASSUME TreeInv, TreeInv', NEW c \in Copies, NEW item \in Items, NEW replacing \in BOOLEAN,
             Insert(c, item[1], item[2], replacing)
      PROVE  Maps!Next
  <2> DEFINE key == item[1]
             value == item[2]
             I == Held(c)
             J == Stored(I, key, value, replacing)
             M == Mapping(I)
             N == Mapping(J)
  <2>1. key \in Keys /\ value \in Values
    BY ItemsAssumption
  <2>2. Becomes(c, J) /\ changed' = ~Kept(I, key, replacing)
    BY <1>2, <2>1, InsertStep
  <2>3. /\ Kept(I, key, replacing) <=> ~replacing /\ key \in DOMAIN M
        /\ N = IF Kept(I, key, replacing) THEN M ELSE Map!With(M, key, value)
    BY <1>2, <2>1, HeldMapping, MappingStored
  <2> HIDE DEF I, J, M, N
  <2>4. Maps!Insert(M, key, value, N) \/ Maps!Replace(M, key, value, N)
    <3>1. CASE replacing
      <4>1. changed' = TRUE /\ N = Map!With(M, key, value)
        BY <2>2, <2>3, <3>1
      <4> QED
        BY <4>1 DEF Maps!Replace, Maps!With, Map!With
    <3>2. CASE ~replacing
      <4>1. changed' = (key \notin DOMAIN M) /\ N = IF key \in DOMAIN M THEN M ELSE Map!With(M, key, value)
        BY <2>2, <2>3, <3>2
      <4> QED
        BY <4>1 DEF Maps!Insert, Maps!With, Map!With
    <3> QED
      BY <3>1, <3>2
  <2>5. Maps!Operation(c, M, N)
    BY <2>4 DEF Maps!Operation
  <2> QED
    BY <1>2, <2>2, <2>5, OneMap DEF I, J, M, N
<1>3. ASSUME TreeInv, TreeInv', NEW c \in Copies, NEW key \in Keys, Erase(c, key)
      PROVE  Maps!Next
  <2> DEFINE I == Held(c)
             J == Without(I, key)
             M == Mapping(I)
             N == Mapping(J)
  <2>1. Becomes(c, J) /\ (changed' = TRUE <=> Has(I, key)) /\ changed' \in BOOLEAN
    BY <1>3, EraseStep DEF TreeInv
  <2>2. Single(I)
    BY <1>3, HeldMapping
  <2>3. N = Map!Without(M, key) /\ (Has(I, key) <=> key \in DOMAIN M)
    BY <2>2, MappingWithout, MappingAt
  <2>4. changed' = (key \in DOMAIN M)
    <3>1. Has(I, key) <=> key \in DOMAIN M
      BY <2>3
    <3> HIDE DEF I, M
    <3> QED
      BY <2>1, <3>1
  <2> HIDE DEF I, J, M, N
  <2>5. Maps!Erase(M, key, N)
    BY <2>3, <2>4 DEF Maps!Erase, Maps!Without, Map!Without
  <2>6. Maps!Operation(c, M, N)
    BY <2>5 DEF Maps!Operation
  <2> QED
    BY <1>3, <2>1, <2>6, OneMap DEF I, J, M, N
<1>4. ASSUME TreeInv, TreeInv', NEW from \in Copies, NEW to \in Copies \ {from}, Copy(from, to)
      PROVE  Maps!Next
  <2> DEFINE M == Mapping(Held(to))
             N == Mapping(Held(from))
  <2>1. Becomes(to, Held(from)) /\ changed' = changed
    BY <1>4, CopyStep
  <2>2. Contents(roots[from]) = N
    BY <1>4, HeldMapping
  <2> HIDE DEF M, N
  <2>3. Maps!CopyFrom(Copied[from], N)
    BY <2>1, <2>2 DEF Maps!CopyFrom, Copied
  <2>4. Maps!Operation(to, M, N)
    BY <2>3 DEF Maps!Operation, Copied
  <2> QED
    BY <1>4, <2>1, <2>4, OneMap DEF M, N
<1>5. ASSUME UNCHANGED vars
      PROVE  UNCHANGED Maps!vars
  BY <1>5 DEF vars, Maps!vars, Contents
<1>6. ASSUME TreeInv, TreeInv', [Next]_vars
      PROVE  [Maps!Next]_(Maps!vars)
  BY <1>2, <1>3, <1>4, <1>5, <1>6 DEF Next
<1>7. Init => Maps!Init
  BY <1>1
<1>8. TreeInv /\ TreeInv' /\ [Next]_vars => [Maps!Next]_(Maps!vars)
  BY <1>6
<1> QED
  BY <1>7, <1>8, TreeInit, TreeNext, PTL DEF Spec, RefinesMapCopies, Maps!Spec

-----------------------------------------------------------------------------
(* Iterators: sequences of nodes. *)

\* The path with a node put before it.
Cons(n, q) == <<n>> \o q

\* A path below a node: its nodes, and where it begins and ends.
LEMMA ConsParts ==
  ASSUME NEW S, NEW n \in S, NEW q \in Seq(S)
  PROVE  /\ Cons(n, q) \in Seq(S) /\ Len(Cons(n, q)) = Len(q) + 1
         /\ Cons(n, q)[1] = n /\ \A i \in 1 .. Len(q) : Cons(n, q)[i + 1] = q[i]
BY DEF Cons

\* Two paths are the same if they have the same nodes.
LEMMA SamePath ==
  ASSUME NEW S, NEW p \in Seq(S), NEW q \in Seq(S), Len(p) = Len(q), \A i \in 1 .. Len(p) : p[i] = q[i]
  PROVE  p = q
OBVIOUS

\* One path after another.
LEMMA ConcatParts ==
  ASSUME NEW S, NEW p \in Seq(S), NEW q \in Seq(S)
  PROVE  /\ p \o q \in Seq(S) /\ Len(p \o q) = Len(p) + Len(q)
         /\ \A i \in 1 .. Len(p) + Len(q) : (p \o q)[i] = IF i <= Len(p) THEN p[i] ELSE q[i - Len(p)]
OBVIOUS

\* Going on below a longer path.
LEMMA ConsConcat ==
  ASSUME NEW S, NEW n \in S, NEW q \in Seq(S), NEW d \in Seq(S)
  PROVE  Cons(n, q) \o d = Cons(n, q \o d)
<1> DEFINE e == q \o d
           p == Cons(n, q)
           r == Cons(n, e)
           s == p \o d
<1>1. /\ e \in Seq(S) /\ Len(e) = Len(q) + Len(d)
      /\ \A i \in 1 .. Len(q) + Len(d) : e[i] = IF i <= Len(q) THEN q[i] ELSE d[i - Len(q)]
  BY ConcatParts
<1>2. p \in Seq(S) /\ Len(p) = Len(q) + 1 /\ p[1] = n /\ \A i \in 1 .. Len(q) : p[i + 1] = q[i]
  BY ConsParts
<1> HIDE DEF e, p
<1>3. r \in Seq(S) /\ Len(r) = Len(e) + 1 /\ r[1] = n /\ \A i \in 1 .. Len(e) : r[i + 1] = e[i]
  <2>1. e \in Seq(S)
    BY <1>1
  <2> QED
    BY <2>1, ConsParts
<1>4. /\ s \in Seq(S) /\ Len(s) = Len(p) + Len(d)
      /\ \A i \in 1 .. Len(p) + Len(d) : s[i] = IF i <= Len(p) THEN p[i] ELSE d[i - Len(p)]
  BY <1>2, ConcatParts
<1>5. Len(q) \in Nat /\ Len(d) \in Nat
  OBVIOUS
<1> HIDE DEF r, s
<1>6. ASSUME NEW i \in 1 .. Len(s)
      PROVE  s[i] = r[i]
  <2> DEFINE j == i - 1
  <2>1. i \in 1 .. Len(p) + Len(d) /\ Len(p) = Len(q) + 1 /\ Len(e) = Len(q) + Len(d)
    BY <1>1, <1>2, <1>4
  <2>2. s[i] = IF i <= Len(p) THEN p[i] ELSE d[i - Len(p)]
    BY <1>4, <2>1
  <2>3. CASE i = 1
    BY <1>2, <1>3, <1>5, <2>1, <2>2, <2>3
  <2>4. CASE i # 1
    <3>1. j \in 1 .. Len(e) /\ j \in 1 .. Len(q) + Len(d) /\ i = j + 1
      BY <1>5, <2>1, <2>4
    <3>2. r[i] = IF j <= Len(q) THEN q[j] ELSE d[j - Len(q)]
      BY <1>1, <1>3, <3>1
    <3>3. CASE j <= Len(q)
      <4>1. j \in 1 .. Len(q) /\ i <= Len(p)
        BY <1>5, <2>1, <3>1, <3>3
      <4> QED
        BY <1>2, <2>2, <3>1, <3>2, <3>3, <4>1
    <3>4. CASE ~(j <= Len(q))
      <4>1. ~(i <= Len(p)) /\ i - Len(p) = j - Len(q)
        BY <1>5, <2>1, <3>1, <3>4
      <4> QED
        BY <2>2, <3>2, <3>4, <4>1
    <3> QED
      BY <3>3, <3>4
  <2> QED
    BY <2>3, <2>4
<1>7. s = r
  <2>1. s \in Seq(S) /\ r \in Seq(S) /\ Len(s) = Len(r)
    BY <1>1, <1>2, <1>3, <1>4, <1>5
  <2> QED
    BY <1>6, <2>1, SamePath
<1> QED
  BY <1>7 DEF p, r, s, e

-----------------------------------------------------------------------------
(* Climbing. *)

\* The greatest number of a set.
LEMMA MaxIs ==
  ASSUME NEW T \in SUBSET Nat, NEW m \in T, \A y \in T : y <= m
  PROVE  Max(T) = m
<1>1. \A x \in T : (\A y \in T : x >= y) => x = m
  OBVIOUS
<1>2. \A y \in T : m >= y
  OBVIOUS
<1> QED
  BY <1>1, <1>2 DEF Max

\* Numbers up to a bound have a greatest.
LEMMA MaxExists ==
  ASSUME NEW n \in Nat, NEW T \in SUBSET (0 .. n), T # {}
  PROVE  Max(T) \in T /\ \A y \in T : y <= Max(T)
<1> DEFINE U == {k \in 0 .. n : n - k \in T}
<1>1. U \in SUBSET Nat /\ U # {}
  <2>1. PICK t \in T : TRUE
    OBVIOUS
  <2>2. n - t \in 0 .. n /\ n - (n - t) = t
    BY <2>1
  <2> QED
    BY <2>1, <2>2
<1>2. PICK k \in U : \A j \in U : k <= j
  <2> HIDE DEF U
  <2> QED
    BY <1>1, LeastNat
<1>3. n - k \in T /\ k \in 0 .. n
  OBVIOUS
<1>4. ASSUME NEW y \in T
      PROVE  y <= n - k
  <2>1. n - y \in U /\ y \in 0 .. n
    <3>1. y \in 0 .. n /\ n - y \in 0 .. n /\ n - (n - y) = y
      OBVIOUS
    <3> QED
      BY <3>1
  <2>2. k <= n - y
    BY <1>2, <2>1
  <2> QED
    BY <1>3, <2>1, <2>2
<1>5. T \in SUBSET Nat
  OBVIOUS
<1>6. Max(T) = n - k
  BY <1>3, <1>4, <1>5, MaxIs
<1> QED
  BY <1>3, <1>4, <1>6

\* The places of a path from which it goes on to this side.
Marks(h, q, o) == {i \in 1 .. Len(q) - 1 : h[q[i]][o] = q[i + 1]}

Last(h, q, side) == Max({0} \cup Marks(h, q, Other(side)))

\* Climbing from a path ends at the last of them.
LEMMA Climbs ==
  ASSUME NEW S, NEW q \in Seq(S), q # <<>>, NEW h, NEW side, NEW M, M = Last(h, q, side), NEW I, I = Marks(h, q, Other(side))
  PROVE  /\ M \in Nat /\ M < Len(q) /\ (M = 0 \/ M \in I) /\ \A i \in I : i \in 1 .. M
         /\ Climb(h, q, side) \in Seq(S) /\ Len(Climb(h, q, side)) = M /\ \A i \in 1 .. M : Climb(h, q, side)[i] = q[i]
<1> DEFINE T == {0} \cup I
           n == Len(q) - 1
<1>1. n \in Nat /\ Len(q) = n + 1
  OBVIOUS
<1>2. I \in SUBSET (1 .. n)
  BY DEF Marks
<1>3. T \in SUBSET (0 .. n) /\ T # {}
  BY <1>1, <1>2
<1>4. M = Max(T)
  BY DEF Last
<1>5. M \in T /\ \A y \in T : y <= M
  <2> HIDE DEF T, n
  <2> QED
    BY <1>1, <1>3, <1>4, MaxExists
<1>6. M \in Nat /\ M < Len(q) /\ (M = 0 \/ M \in I) /\ \A i \in I : i \in 1 .. M
  BY <1>1, <1>2, <1>5
<1>7. Climb(h, q, side) = SubSeq(q, 1, M)
  BY DEF Climb, Last, Marks
<1> HIDE DEF T, n
<1>8. \A i \in 1 .. M : q[i] \in S
  BY <1>6
<1>9. SubSeq(q, 1, M) \in Seq(S) /\ Len(SubSeq(q, 1, M)) = M /\ \A i \in 1 .. M : SubSeq(q, 1, M)[i] = q[i]
  BY <1>6, <1>8
<1> QED
  BY <1>6, <1>7, <1>9

\* Climbing from a longer path: further up, or to the node above.
LEMMA ClimbBelow ==
  ASSUME NEW S, NEW n \in S, NEW q \in Seq(S), q # <<>>, NEW h, NEW side,
         NEW p, p = Climb(h, q, side), NEW r, r = Climb(h, Cons(n, q), side)
  PROVE  /\ p \in Seq(S) /\ (p # <<>> => r = Cons(n, p))
         /\ p = <<>> /\ h[n][Other(side)] = q[1] => r = <<n>>
         /\ p = <<>> /\ h[n][Other(side)] # q[1] => r = <<>>
<1> DEFINE o == Other(side)
           I == Marks(h, q, o)
           M == Last(h, q, side)
           L == Cons(n, q)
           J == Marks(h, L, o)
           N == Last(h, L, side)
<1>1. L \in Seq(S) /\ Len(L) = Len(q) + 1 /\ L[1] = n /\ \A i \in 1 .. Len(q) : L[i + 1] = q[i]
  BY ConsParts
<1>2. Len(q) \in Nat /\ Len(q) > 0 /\ L # <<>>
  BY <1>1
<1> HIDE DEF L
<1>3. \A i : i \in I <=> i \in 1 .. Len(q) - 1 /\ h[q[i]][o] = q[i + 1]
  BY DEF Marks
<1>4. \A i : i \in J <=> i \in 1 .. Len(q) /\ h[L[i]][o] = L[i + 1]
  BY <1>1, <1>2 DEF Marks
<1> HIDE DEF I, M, J, N
<1>5. /\ M \in Nat /\ M < Len(q) /\ (M = 0 \/ M \in I) /\ \A i \in I : i \in 1 .. M
      /\ p \in Seq(S) /\ Len(p) = M /\ \A i \in 1 .. M : p[i] = q[i]
  BY <1>2, Climbs DEF I, M
<1>6. /\ N \in Nat /\ N < Len(L) /\ (N = 0 \/ N \in J) /\ \A i \in J : i \in 1 .. N
      /\ r \in Seq(S) /\ Len(r) = N /\ \A i \in 1 .. N : r[i] = L[i]
  BY <1>1, <1>2, Climbs DEF J, N, L
<1>7. 1 \in J <=> h[n][o] = q[1]
  <2>1. 1 \in 1 .. Len(q)
    BY <1>2
  <2> QED
    BY <1>1, <1>4, <2>1
<1>8. \A i \in 1 .. Len(q) - 1 : i + 1 \in J <=> i \in I
  <2> TAKE i \in 1 .. Len(q) - 1
  <2>1. i \in 1 .. Len(q) /\ i + 1 \in 1 .. Len(q)
    BY <1>2
  <2>2. L[i + 1] = q[i] /\ L[(i + 1) + 1] = q[i + 1]
    BY <1>1, <2>1
  <2> QED
    BY <1>3, <1>4, <2>1, <2>2
<1>9. \A i \in J : i = 1 \/ (i - 1 \in I /\ i - 1 \in 1 .. Len(q) - 1)
  <2> TAKE i \in J
  <2>1. i \in 1 .. Len(q)
    BY <1>4
  <2>2. CASE i # 1
    <3>1. i - 1 \in 1 .. Len(q) - 1 /\ (i - 1) + 1 = i
      BY <1>2, <2>1, <2>2
    <3> QED
      BY <1>8, <3>1
  <2> QED
    BY <2>2
<1>10. ASSUME p # <<>>
       PROVE  r = Cons(n, p)
  <2>1. M \in I /\ M \in 1 .. Len(q) - 1
    BY <1>2, <1>3, <1>5, <1>10
  <2>2. M + 1 \in J
    BY <1>8, <2>1
  <2>3. N = M + 1
    BY <1>5, <1>6, <1>9, <2>1, <2>2
  <2>4. /\ Cons(n, p) \in Seq(S) /\ Len(Cons(n, p)) = Len(p) + 1 /\ Cons(n, p)[1] = n
        /\ \A i \in 1 .. Len(p) : Cons(n, p)[i + 1] = p[i]
    <3>1. p \in Seq(S)
      BY <1>5
    <3>2. \A x \in Seq(S) : /\ Cons(n, x) \in Seq(S) /\ Len(Cons(n, x)) = Len(x) + 1 /\ Cons(n, x)[1] = n
                            /\ \A i \in 1 .. Len(x) : Cons(n, x)[i + 1] = x[i]
      BY ConsParts
    <3> QED
      BY <3>1, <3>2
  <2> DEFINE s == Cons(n, p)
  <2>5. s \in Seq(S) /\ Len(s) = M + 1 /\ s[1] = n /\ \A i \in 1 .. M : s[i + 1] = q[i]
    BY <1>5, <2>4
  <2> HIDE DEF s
  <2>6. ASSUME NEW i \in 1 .. Len(r)
        PROVE  r[i] = s[i]
    <3>1. i \in 1 .. N /\ r[i] = L[i]
      BY <1>6
    <3>2. CASE i = 1
      BY <1>1, <2>5, <3>1, <3>2
    <3>3. CASE i # 1
      <4>1. i - 1 \in 1 .. M /\ i - 1 \in 1 .. Len(q) /\ (i - 1) + 1 = i
        BY <1>5, <2>3, <3>1, <3>3
      <4> QED
        BY <1>1, <2>5, <3>1, <4>1
    <3> QED
      BY <3>2, <3>3
  <2>7. r \in Seq(S) /\ Len(r) = Len(s)
    BY <1>6, <2>3, <2>5
  <2>8. r = s
    BY <2>5, <2>6, <2>7, SamePath
  <2> QED
    BY <2>8 DEF s
<1>11. ASSUME p = <<>>
       PROVE  I = {}
  BY <1>5, <1>11
<1>12. ASSUME p = <<>>, h[n][o] = q[1]
       PROVE  r = <<n>>
  <2>1. 1 \in J /\ N = 1
    BY <1>6, <1>7, <1>9, <1>11, <1>12
  <2>2. r \in Seq(S) /\ Len(r) = 1 /\ r[1] = n
    BY <1>1, <1>6, <2>1
  <2> QED
    BY <2>2
<1>13. ASSUME p = <<>>, h[n][o] # q[1]
       PROVE  r = <<>>
  <2>1. J = {} /\ N = 0
    BY <1>6, <1>7, <1>9, <1>11, <1>13
  <2> QED
    BY <1>6, <2>1
<1> QED
  BY <1>5, <1>10, <1>12, <1>13

-----------------------------------------------------------------------------
(* The paths that the iterators follow down. *)

\* A heap of balanced search trees.
Forest(h) == Closed(h) /\ \A m \in DOMAIN h : AVL(h, m)

\* Paths that go on from each node to the next one, and end at a node of E or where there is no next one.
Follows(h, E, next, f) ==
  f = [m \in Nodes(h) |-> IF m = Null THEN <<>> ELSE IF m \in E THEN <<m>> ELSE Cons(m, f[next[m]])]

\* There are such paths, if the next nodes are children.
LEMMA PathsExist ==
  ASSUME NEW h, Forest(h), NEW E, NEW next, \A m \in DOMAIN h : \E side \in Sides : next[m] = h[m][side]
  PROVE  \E f : Follows(h, E, next, f)
<1> DEFINE Turn(f, m) == IF m = Null THEN <<>> ELSE IF m \in E THEN <<m>> ELSE Cons(m, f[next[m]])
           Upto(i) == {m \in Nodes(h) : Height(h, m) <= i}
           Solves(f, i) == \A m \in Upto(i) : f[m] = Turn(f, m)
<1>1. Closed(h) /\ Null \in Nodes(h) /\ Height(h, Null) = 0 /\ \A m \in DOMAIN h : AVL(h, m)
  BY DEF Forest, Nodes, Height
<1>2. \A m \in Nodes(h) : Height(h, m) \in Nat
  <2>1. \A m \in DOMAIN h : Height(h, m) \in Nat
    BY <1>1, Children DEF Sides
  <2> QED
    BY <1>1, <2>1 DEF Nodes
<1>3. \A m \in DOMAIN h : next[m] \in Nodes(h) /\ Height(h, next[m]) < Height(h, m)
  BY <1>1, Children
<1>4. \A m \in Nodes(h) : m = Null \/ m \in DOMAIN h
  BY DEF Nodes
<1>5. \A f, g : \A m \in Nodes(h) : m = Null \/ f[next[m]] = g[next[m]] => Turn(f, m) = Turn(g, m)
  OBVIOUS
<1> HIDE DEF Turn
<1>6. \A i \in Nat : \E f : Solves(f, i)
  <2> DEFINE Bad == {i \in Nat : ~\E f : Solves(f, i)}
  <2> SUFFICES ASSUME Bad # {} PROVE FALSE
    OBVIOUS
  <2>1. PICK i \in Bad : \A j \in Bad : i <= j
    BY LeastNat
  <2>2. PICK f : i > 0 => Solves(f, i - 1)
    <3>1. i \in Nat
      OBVIOUS
    <3>2. CASE i > 0
      <4>1. i - 1 \in Nat /\ ~(i <= i - 1)
        BY <3>1, <3>2
      <4> QED
        BY <2>1, <4>1
    <3> QED
      BY <3>2
  <2> DEFINE g == [m \in Nodes(h) |-> Turn(f, m)]
  <2>3. ASSUME NEW m \in Upto(i)
        PROVE  g[m] = Turn(g, m)
    <3>1. m \in Nodes(h) /\ Height(h, m) <= i /\ g[m] = Turn(f, m)
      OBVIOUS
    <3>2. CASE m = Null
      BY <1>5, <3>1, <3>2
    <3>3. CASE m \in DOMAIN h
      <4> DEFINE k == next[m]
      <4>1. k \in Nodes(h) /\ Height(h, k) < Height(h, m) /\ Height(h, k) \in Nat /\ Height(h, m) \in Nat /\ i \in Nat
        BY <1>2, <1>3, <3>1, <3>3
      <4>2. i > 0 /\ k \in Upto(i - 1)
        BY <3>1, <4>1
      <4>3. g[k] = f[k]
        BY <2>2, <4>1, <4>2
      <4> QED
        BY <1>5, <3>1, <4>3
    <3> QED
      BY <1>4, <3>1, <3>2, <3>3
  <2>4. Solves(g, i)
    BY <2>3
  <2> QED
    BY <2>4
<1>7. ASSUME NEW f, NEW g, NEW i \in Nat, NEW j \in Nat, Solves(f, i), Solves(g, j)
      PROVE  \A m \in Upto(i) \cap Upto(j) : f[m] = g[m]
  <2> DEFINE Bad == {m \in DOMAIN h : m \in Upto(i) /\ m \in Upto(j) /\ f[m] # g[m]}
  <2>1. f[Null] = g[Null]
    <3>1. Null \in Upto(i) /\ Null \in Upto(j)
      BY <1>1
    <3> QED
      BY <1>1, <1>5, <1>7, <3>1
  <2>2. ASSUME NEW m \in Bad
        PROVE  m \in DOMAIN h /\ AVL(h, m) /\ \E side \in Sides : h[m][side] \in Bad
    <3> DEFINE k == next[m]
    <3>1. m \in DOMAIN h /\ m \in Upto(i) /\ m \in Upto(j) /\ f[m] # g[m]
      OBVIOUS
    <3>2. k \in Nodes(h) /\ Height(h, k) < Height(h, m) /\ Height(h, k) \in Nat /\ Height(h, m) \in Nat
      BY <1>2, <1>3, <3>1 DEF Nodes
    <3>3. k \in Upto(i) /\ k \in Upto(j)
      BY <3>1, <3>2
    <3>4. f[k] # g[k]
      BY <1>5, <1>7, <3>1 DEF Nodes
    <3>5. k \in Bad
      BY <1>4, <2>1, <3>2, <3>3, <3>4
    <3> QED
      BY <1>1, <3>1, <3>5
  <2>3. Bad = {}
    <3> HIDE DEF Bad
    <3> QED
      BY <1>1, <2>2, HeightInduction
  <2> QED
    BY <1>4, <2>1, <2>3
<1> DEFINE F(i) == CHOOSE f : Solves(f, i)
           solved == [m \in Nodes(h) |-> F(Height(h, m))[m]]
<1>8. \A i \in Nat : Solves(F(i), i)
  BY <1>6
<1> HIDE DEF F, Solves
<1>9. ASSUME NEW m \in Nodes(h)
      PROVE  solved[m] = Turn(solved, m)
  <2> DEFINE H == Height(h, m)
  <2>1. H \in Nat /\ m \in Upto(H) /\ solved[m] = F(H)[m]
    BY <1>2
  <2>2. F(H)[m] = Turn(F(H), m)
    BY <1>8, <2>1 DEF Solves
  <2>3. CASE m = Null
    BY <1>5, <2>1, <2>2, <2>3
  <2>4. CASE m \in DOMAIN h
    <3> DEFINE k == next[m]
               K == Height(h, k)
    <3>1. k \in Nodes(h) /\ K < H /\ K \in Nat
      BY <1>2, <1>3, <2>4
    <3>2. k \in Upto(H) /\ k \in Upto(K)
      BY <2>1, <3>1
    <3>3. F(H)[k] = F(K)[k]
      BY <1>7, <1>8, <2>1, <3>1, <3>2
    <3>4. solved[k] = F(H)[k]
      BY <3>1, <3>3
    <3> HIDE DEF solved, H
    <3> QED
      BY <1>5, <2>1, <2>2, <3>4
  <2> QED
    BY <1>4, <2>3, <2>4
<1>10. solved = [m \in Nodes(h) |-> Turn(solved, m)]
  <2> HIDE DEF Upto
  <2>1. solved = [m \in Nodes(h) |-> solved[m]]
    OBVIOUS
  <2> HIDE DEF solved
  <2> QED
    BY <1>9, <2>1
<1> HIDE DEF solved
<1>11. Follows(h, E, next, solved)
  BY <1>10 DEF Follows, Turn
<1> QED
  BY <1>11

\* The path down on one side.
LEMMA Descends ==
  ASSUME NEW h, Forest(h), NEW side \in Sides
  PROVE  /\ Descend(h, Null, side) = <<>>
         /\ \A n \in DOMAIN h : Descend(h, n, side) = Cons(n, Descend(h, h[n][side], side))
<1> DEFINE next == [m \in DOMAIN h |-> h[m][side]]
           path[m \in DOMAIN h \cup {Null}] == IF m = Null THEN <<>> ELSE <<m>> \o path[h[m][side]]
<1>1. PICK f : Follows(h, {}, next, f)
  BY PathsExist
<1>2. f = [m \in DOMAIN h \cup {Null} |-> IF m = Null THEN <<>> ELSE <<m>> \o f[h[m][side]]]
  <2>1. f = [m \in Nodes(h) |-> IF m = Null THEN <<>> ELSE IF m \in {} THEN <<m>> ELSE Cons(m, f[next[m]])]
    BY <1>1 DEF Follows
  <2>2. \A m \in Nodes(h) : (IF m = Null THEN <<>> ELSE IF m \in {} THEN <<m>> ELSE Cons(m, f[next[m]]))
                              = (IF m = Null THEN <<>> ELSE <<m>> \o f[h[m][side]])
    BY DEF Nodes, Cons
  <2> QED
    BY <2>1, <2>2 DEF Nodes
<1>3. path = [m \in DOMAIN h \cup {Null} |-> IF m = Null THEN <<>> ELSE <<m>> \o path[h[m][side]]]
  BY <1>2
<1>4. \A n : Descend(h, n, side) = path[n]
  BY DEF Descend
<1> HIDE DEF path
<1>5. Null \notin DOMAIN h
  BY DEF Forest, Closed
<1>6. path[Null] = <<>>
  BY <1>3
<1>7. \A n \in DOMAIN h : path[n] = Cons(n, path[h[n][side]])
  BY <1>3, <1>5 DEF Cons
<1> QED
  BY <1>4, <1>6, <1>7

\* The path of a search.
LEMMA Searches ==
  ASSUME NEW h, Forest(h), NEW key \in Keys
  PROVE  /\ Search(h, Null, key) = <<>>
         /\ \A n \in DOMAIN h :
              /\ key = h[n].key => Search(h, n, key) = <<n>>
              /\ \A side \in Sides : Before(side, key, h[n].key) => Search(h, n, key) = Cons(n, Search(h, h[n][side], key))
<1> DEFINE next == [m \in DOMAIN h |-> h[m][Side(key, h[m].key)]]
           E == {m \in DOMAIN h : Same(key, h[m].key)}
           path[n \in DOMAIN h \cup {Null}] ==
             IF n = Null THEN <<>>
             ELSE IF Same(key, h[n].key) THEN <<n>>
             ELSE <<n>> \o path[h[n][Side(key, h[n].key)]]
<1>1. \A m \in DOMAIN h : Side(key, h[m].key) \in Sides
  BY DEF Side, Sides
<1>2. PICK f : Follows(h, E, next, f)
  <2>1. \A m \in DOMAIN h : \E side \in Sides : next[m] = h[m][side]
    BY <1>1
  <2> HIDE DEF next, E
  <2> QED
    BY <2>1, PathsExist
<1>3. f = [n \in DOMAIN h \cup {Null} |->
             IF n = Null THEN <<>>
             ELSE IF Same(key, h[n].key) THEN <<n>>
             ELSE <<n>> \o f[h[n][Side(key, h[n].key)]]]
  <2>1. f = [m \in Nodes(h) |-> IF m = Null THEN <<>> ELSE IF m \in E THEN <<m>> ELSE Cons(m, f[next[m]])]
    BY <1>2 DEF Follows
  <2>2. \A m \in Nodes(h) : (IF m = Null THEN <<>> ELSE IF m \in E THEN <<m>> ELSE Cons(m, f[next[m]]))
                              = (IF m = Null THEN <<>> ELSE IF Same(key, h[m].key) THEN <<m>>
                                 ELSE <<m>> \o f[h[m][Side(key, h[m].key)]])
    BY DEF Nodes, Cons
  <2> QED
    BY <2>1, <2>2 DEF Nodes
<1>4. path = [n \in DOMAIN h \cup {Null} |->
                IF n = Null THEN <<>>
                ELSE IF Same(key, h[n].key) THEN <<n>>
                ELSE <<n>> \o path[h[n][Side(key, h[n].key)]]]
  BY <1>3
<1>5. \A n : Search(h, n, key) = path[n]
  BY DEF Search
<1> HIDE DEF path
<1>6. Null \notin DOMAIN h /\ \A n \in DOMAIN h : h[n].key \in Keys
  <2>1. \A n \in DOMAIN h : h[n].key \in Keys
    BY Split DEF Forest, Sides
  <2> QED
    BY <2>1 DEF Forest, Closed
<1>7. ASSUME NEW n \in DOMAIN h
      PROVE  /\ key = h[n].key => Same(key, h[n].key)
             /\ \A side \in Sides : Before(side, key, h[n].key) => ~Same(key, h[n].key) /\ Side(key, h[n].key) = side
  <2>1. h[n].key \in Keys
    BY <1>6
  <2>2. Same(key, h[n].key) <=> key = h[n].key
    BY <2>1, SideOf
  <2>3. ASSUME NEW side \in Sides, Before(side, key, h[n].key)
        PROVE  ~Same(key, h[n].key) /\ Side(key, h[n].key) = side
    BY <2>1, <2>3, LessAssumption DEF Same, Side, Sides, Before
  <2> QED
    BY <2>2, <2>3
<1>8. path[Null] = <<>>
  BY <1>4
<1>9. ASSUME NEW n \in DOMAIN h
      PROVE  path[n] = IF Same(key, h[n].key) THEN <<n>> ELSE Cons(n, path[h[n][Side(key, h[n].key)]])
  BY <1>4, <1>6 DEF Cons
<1> QED
  BY <1>5, <1>7, <1>8, <1>9

-----------------------------------------------------------------------------
(* The keys around a key. *)

KeysOf(h, n) == {h[m].key : m \in Sub(h, n)}

\* The keys of a node, of those on this side of it and on the other.
Parted(side, C, D, k, K) ==
  /\ K = C \cup D \cup {k} /\ K \subseteq Keys
  /\ (\A c \in C : Before(side, c, k)) /\ \A d \in D : Before(side, k, d)

\* The nearest of some keys on a side of a key.
Nearest(side, K, k, j) == j \in K /\ Before(side, j, k) /\ \A m \in K : Before(side, m, k) => m = j \/ Before(side, m, j)

NoneBeyond(side, K, k) == \A m \in K : ~Before(side, m, k)

\* The last of some keys on a side.
End(side, K, j) == j \in K /\ \A m \in K : m = j \/ Before(side, j, m)

\* The keys below a node are on its sides.
LEMMA KeysParted ==
  ASSUME NEW h, Forest(h), NEW n \in DOMAIN h, NEW side \in Sides
  PROVE  Parted(side, KeysOf(h, h[n][side]), KeysOf(h, h[n][Other(side)]), h[n].key, KeysOf(h, n))
<1> DEFINE l == h[n][side]
           r == h[n][Other(side)]
           k == h[n].key
<1>1. Closed(h) /\ AVL(h, n)
  BY DEF Forest
<1>2. Sub(h, n) = {n} \cup Sub(h, l) \cup Sub(h, r)
  BY <1>1, SubNode DEF Sides, Other
<1>3. Beside(side, ItemsOf(h, l), k) /\ Beside(Other(side), ItemsOf(h, r), k)
  BY <1>1, Split
<1>4. \A m \in Sub(h, n) : h[m].key \in Keys
  BY <1>1 DEF AVL, Local
<1>5. \A m \in Sub(h, l) : Before(side, h[m].key, k)
  <2> TAKE m \in Sub(h, l)
  <2>1. <<h[m].key, h[m].value>> \in ItemsOf(h, l)
    BY DEF ItemsOf
  <2> QED
    BY <1>3, <2>1, BesideSome
<1>6. \A m \in Sub(h, r) : Before(side, k, h[m].key)
  <2> TAKE m \in Sub(h, r)
  <2>1. <<h[m].key, h[m].value>> \in ItemsOf(h, r)
    BY DEF ItemsOf
  <2>2. Before(Other(side), h[m].key, k)
    BY <1>3, <2>1, BesideSome
  <2> QED
    BY <2>2, BeforeOther
<1> HIDE DEF l, r
<1> DEFINE C == KeysOf(h, l)
           D == KeysOf(h, r)
           K == KeysOf(h, n)
<1>7. K = C \cup D \cup {k}
  BY <1>2 DEF KeysOf
<1>8. K \subseteq Keys
  BY <1>4 DEF KeysOf
<1>9. \A c \in C : Before(side, c, k)
  BY <1>5 DEF KeysOf
<1>10. \A d \in D : Before(side, k, d)
  BY <1>6 DEF KeysOf
<1> HIDE DEF C, D, K, k
<1>11. Parted(side, C, D, k, K)
  BY <1>7, <1>8, <1>9, <1>10 DEF Parted
<1> QED
  BY <1>11 DEF C, D, K, k, l, r

\* The nearest keys of a key among those on its side of the node, and among all.
LEMMA NearestBelow ==
  ASSUME NEW side \in Sides, NEW C, NEW D, NEW k, NEW K, Parted(side, C, D, k, K), NEW x \in Keys, Before(side, x, k)
  PROVE  /\ \A s \in Sides : \A j : Nearest(s, C, x, j) => Nearest(s, K, x, j) /\ Before(side, j, k)
         /\ NoneBeyond(Other(side), C, x) => Nearest(Other(side), K, x, k)
         /\ NoneBeyond(side, C, x) => NoneBeyond(side, K, x)
<1>1. /\ K = C \cup D \cup {k} /\ K \subseteq Keys /\ k \in Keys
      /\ (\A c \in C : Before(side, c, k)) /\ \A d \in D : Before(side, k, d)
  BY DEF Parted
<1>2. \A d \in D : Before(side, x, d) /\ ~Before(side, d, x)
  BY <1>1, BeforeOrder
<1>3. ~Before(side, k, x)
  BY <1>1, BeforeOrder
<1>4. \A a, b \in Keys : Before(Other(side), a, b) <=> Before(side, b, a)
  BY BeforeOther
<1>5. ASSUME NEW j, Nearest(side, C, x, j)
      PROVE  Nearest(side, K, x, j) /\ Before(side, j, k)
  BY <1>1, <1>2, <1>3, <1>5 DEF Nearest
<1>6. ASSUME NEW j, Nearest(Other(side), C, x, j)
      PROVE  Nearest(Other(side), K, x, j) /\ Before(side, j, k)
  <2>1. j \in C /\ Before(side, x, j) /\ \A m \in C : Before(side, x, m) => m = j \/ Before(side, j, m)
    BY <1>1, <1>4, <1>6 DEF Nearest
  <2>2. Before(side, j, k) /\ \A d \in D : Before(side, j, d)
    BY <1>1, <2>1, BeforeOrder
  <2>3. j \in K /\ \A m \in K : Before(side, x, m) => m = j \/ Before(side, j, m)
    BY <1>1, <2>1, <2>2
  <2> QED
    BY <1>1, <1>4, <2>1, <2>2, <2>3 DEF Nearest
<1>7. ASSUME NoneBeyond(Other(side), C, x)
      PROVE  Nearest(Other(side), K, x, k)
  <2>1. \A m \in C : ~Before(side, x, m)
    BY <1>1, <1>4, <1>7 DEF NoneBeyond
  <2>2. k \in K /\ \A m \in K : Before(side, x, m) => m = k \/ Before(side, k, m)
    BY <1>1, <2>1
  <2> QED
    BY <1>1, <1>4, <2>2 DEF Nearest
<1>8. ASSUME NoneBeyond(side, C, x)
      PROVE  NoneBeyond(side, K, x)
  BY <1>1, <1>2, <1>3, <1>8 DEF NoneBeyond
<1>9. \A s \in Sides : s = side \/ s = Other(side)
  BY DEF Sides, Other
<1> QED
  BY <1>5, <1>6, <1>7, <1>8, <1>9

\* The nearest keys of the key of the node.
LEMMA NearestHere ==
  ASSUME NEW side \in Sides, NEW C, NEW D, NEW k, NEW K, Parted(side, C, D, k, K)
  PROVE  /\ C = {} => NoneBeyond(side, K, k) /\ End(side, K, k)
         /\ \A j : End(Other(side), C, j) => Nearest(side, K, k, j) /\ Before(side, j, k)
         /\ \A j : End(side, C, j) => End(side, K, j) /\ Before(side, j, k)
<1>1. /\ K = C \cup D \cup {k} /\ K \subseteq Keys /\ k \in Keys
      /\ (\A c \in C : Before(side, c, k)) /\ \A d \in D : Before(side, k, d)
  BY DEF Parted
<1>2. ~Before(side, k, k) /\ \A d \in D : ~Before(side, d, k)
  BY <1>1, BeforeOrder
<1>3. C = {} => NoneBeyond(side, K, k) /\ End(side, K, k)
  BY <1>1, <1>2 DEF NoneBeyond, End
<1>4. \A a, b \in Keys : Before(Other(side), a, b) <=> Before(side, b, a)
  BY BeforeOther
<1>5. ASSUME NEW j, End(Other(side), C, j)
      PROVE  Nearest(side, K, k, j) /\ Before(side, j, k)
  <2>1. j \in C /\ \A m \in C : m = j \/ Before(side, m, j)
    BY <1>1, <1>4, <1>5 DEF End
  <2> QED
    BY <1>1, <1>2, <2>1 DEF Nearest
<1>6. ASSUME NEW j, End(side, C, j)
      PROVE  End(side, K, j) /\ Before(side, j, k)
  <2>1. j \in C /\ \A m \in C : m = j \/ Before(side, j, m)
    BY <1>6 DEF End
  <2>2. \A d \in D : Before(side, j, d)
    BY <1>1, <2>1, BeforeOrder
  <2> QED
    BY <1>1, <2>1, <2>2 DEF End
<1> QED
  BY <1>3, <1>5, <1>6

-----------------------------------------------------------------------------
(* Iterators and keys. *)

\* What holds of the empty tree, and of a node if it holds of its children, holds of every tree.
LEMMA TreeInduction ==
  ASSUME NEW h, Forest(h), NEW G, Null \in G,
         \A n \in DOMAIN h : (\A side \in Sides : h[n][side] \in Nodes(h) /\ h[n][side] \in G) => n \in G
  PROVE  \A n \in Nodes(h) : n \in G
<1> DEFINE Bad == {n \in DOMAIN h : n \notin G}
<1>1. Closed(h) /\ \A n \in DOMAIN h : AVL(h, n)
  BY DEF Forest
<1>2. ASSUME NEW n \in Bad
      PROVE  n \in DOMAIN h /\ AVL(h, n) /\ \E side \in Sides : h[n][side] \in Bad
  <2>1. n \in DOMAIN h /\ n \notin G
    OBVIOUS
  <2>2. \A side \in Sides : h[n][side] \in Nodes(h)
    BY <1>1, <2>1, Children
  <2>3. PICK side \in Sides : h[n][side] \notin G
    BY <2>1, <2>2
  <2>4. h[n][side] \in DOMAIN h
    BY <2>2, <2>3 DEF Nodes
  <2> QED
    BY <1>1, <2>1, <2>3, <2>4
<1>3. Bad = {}
  <2> HIDE DEF Bad
  <2> QED
    BY <1>1, <1>2, HeightInduction
<1> QED
  BY <1>3 DEF Nodes

\* A node of a forest: it is none below it, and its children are nodes or none.
LEMMA ForestNode ==
  ASSUME NEW h, Forest(h), NEW n \in DOMAIN h, NEW side \in Sides
  PROVE  /\ n # Null /\ h[n].key \in Keys /\ h[n].key \in KeysOf(h, n) /\ n \in Nodes(h)
         /\ h[n][side] \in Nodes(h) /\ (h[n][side] # Null => h[n][side] \in DOMAIN h)
<1>1. Closed(h) /\ AVL(h, n) /\ n \in Nodes(h) /\ n # Null
  BY DEF Forest, Closed, Nodes
<1>2. h[n].key \in Keys /\ h[n][side] \in Nodes(h)
  BY <1>1, Split, Children
<1>3. n \in Sub(h, n)
  BY <1>1, SubNode
<1> QED
  BY <1>1, <1>2, <1>3 DEF KeysOf, Nodes

\* There are no keys below no node.
LEMMA KeysOfNull ==
  ASSUME NEW h
  PROVE  KeysOf(h, Null) = {}
BY SubNull DEF KeysOf

\* Going down to a side is a path of nodes.
LEMMA DescendPath ==
  ASSUME NEW h, Forest(h), NEW n \in Nodes(h), NEW side \in Sides
  PROVE  Descend(h, n, side) \in Seq(DOMAIN h) /\ (n # Null => Descend(h, n, side) # <<>>)
<1> DEFINE G == {m \in Nodes(h) : Descend(h, m, side) \in Seq(DOMAIN h)}
<1>1. Null \in G
  <2>1. Descend(h, Null, side) = <<>> /\ Null \in Nodes(h)
    BY Descends DEF Nodes
  <2> QED
    BY <2>1
<1>2. \A m \in DOMAIN h : (\A s \in Sides : h[m][s] \in Nodes(h) /\ h[m][s] \in G) => m \in G
  <2> SUFFICES ASSUME NEW m \in DOMAIN h, \A s \in Sides : h[m][s] \in Nodes(h) /\ h[m][s] \in G
               PROVE  m \in G
    OBVIOUS
  <2> DEFINE d == Descend(h, h[m][side], side)
  <2>1. d \in Seq(DOMAIN h) /\ Descend(h, m, side) = Cons(m, d)
    BY Descends
  <2> HIDE DEF d
  <2>2. Cons(m, d) \in Seq(DOMAIN h)
    BY <2>1, ConsParts
  <2> QED
    BY <2>1, <2>2 DEF Nodes
<1>3. \A m \in Nodes(h) : m \in G
  <2> HIDE DEF G
  <2> QED
    BY <1>1, <1>2, TreeInduction
<1>4. ASSUME n # Null
      PROVE  Descend(h, n, side) # <<>>
  <2> DEFINE d == Descend(h, h[n][side], side)
  <2>1. n \in DOMAIN h
    BY <1>4 DEF Nodes
  <2>2. d \in Seq(DOMAIN h) /\ Descend(h, n, side) = Cons(n, d)
    BY <1>3, <2>1, Descends, ForestNode
  <2> HIDE DEF d
  <2>3. Len(Cons(n, d)) = Len(d) + 1 /\ Len(d) \in Nat
    BY <2>1, <2>2, ConsParts
  <2> QED
    BY <2>2, <2>3
<1> QED
  BY <1>3, <1>4

\* A path that leads from node n to the one with key k.
Arrives(h, n, k, q) == q \in Seq(DOMAIN h) /\ q # <<>> /\ q[1] = n /\ h[q[Len(q)]].key = k

\* A search for a key of the tree leads to it.
LEMMA SearchLeads ==
  ASSUME NEW h, Forest(h), NEW n \in Nodes(h), NEW k \in KeysOf(h, n)
  PROVE  Arrives(h, n, k, Search(h, n, k)) /\ n \in DOMAIN h /\ k \in Keys
<1> DEFINE G == {m \in Nodes(h) : \A x \in KeysOf(h, m) : Arrives(h, m, x, Search(h, m, x))}
<1>1. Null \in G
  BY KeysOfNull DEF Nodes
<1>2. \A m \in DOMAIN h : (\A s \in Sides : h[m][s] \in Nodes(h) /\ h[m][s] \in G) => m \in G
  <2> SUFFICES ASSUME NEW m \in DOMAIN h, \A s \in Sides : h[m][s] \in Nodes(h) /\ h[m][s] \in G,
                      NEW x \in KeysOf(h, m)
               PROVE  Arrives(h, m, x, Search(h, m, x))
    BY DEF Nodes
  <2>1. Parted("left", KeysOf(h, h[m].left), KeysOf(h, h[m].right), h[m].key, KeysOf(h, m))
    BY KeysParted DEF Sides, Other
  <2>2. x \in Keys /\ h[m].key \in Keys
    BY <2>1 DEF Parted
  <2>3. CASE x = h[m].key
    <3>1. Search(h, m, x) = <<m>>
      BY <2>2, <2>3, Searches
    <3> QED
      BY <2>3, <3>1 DEF Arrives
  <2>4. ASSUME NEW side \in Sides, x \in KeysOf(h, h[m][side]), Before(side, x, h[m].key)
        PROVE  Arrives(h, m, x, Search(h, m, x))
    <3> DEFINE q == Search(h, h[m][side], x)
    <3>1. Arrives(h, h[m][side], x, q) /\ Search(h, m, x) = Cons(m, q)
      BY <2>2, <2>4, Searches
    <3> HIDE DEF q
    <3>2. q \in Seq(DOMAIN h) /\ q # <<>> /\ h[q[Len(q)]].key = x
      BY <3>1 DEF Arrives
    <3>3. /\ Cons(m, q) \in Seq(DOMAIN h) /\ Len(Cons(m, q)) = Len(q) + 1
          /\ Cons(m, q)[1] = m /\ \A i \in 1 .. Len(q) : Cons(m, q)[i + 1] = q[i]
      BY <3>2, ConsParts
    <3>4. Len(q) \in 1 .. Len(q)
      BY <3>2
    <3>5. Cons(m, q) # <<>> /\ Cons(m, q)[Len(Cons(m, q))] = q[Len(q)]
      BY <3>3, <3>4
    <3> QED
      BY <3>1, <3>2, <3>3, <3>5 DEF Arrives
  <2>5. x = h[m].key \/ (\E side \in Sides : x \in KeysOf(h, h[m][side]) /\ Before(side, x, h[m].key))
    <3>1. /\ KeysOf(h, m) = KeysOf(h, h[m].left) \cup KeysOf(h, h[m].right) \cup {h[m].key}
          /\ (\A c \in KeysOf(h, h[m].left) : Before("left", c, h[m].key))
          /\ \A d \in KeysOf(h, h[m].right) : Before("left", h[m].key, d)
      BY <2>1 DEF Parted
    <3>2. \A d \in KeysOf(h, h[m].right) : Before("right", d, h[m].key)
      BY <3>1 DEF Before
    <3> QED
      BY <3>1, <3>2 DEF Sides
  <2> QED
    BY <2>3, <2>4, <2>5
<1>3. n \in G
  <2> HIDE DEF G
  <2> QED
    BY <1>1, <1>2, TreeInduction
<1>4. n # Null
  BY KeysOfNull
<1>5. n \in DOMAIN h
  BY <1>4 DEF Nodes
<1>6. k \in Keys
  BY <1>5, KeysParted DEF Parted, Sides
<1> QED
  BY <1>3, <1>5, <1>6

\* The keys of a node, and where each of them is.
LEMMA KeyBelow ==
  ASSUME NEW h, Forest(h), NEW n \in DOMAIN h, NEW k \in KeysOf(h, n)
  PROVE  /\ k \in Keys
         /\ k = h[n].key \/ \E side \in Sides : k \in KeysOf(h, h[n][side]) /\ Before(side, k, h[n].key)
<1>1. Parted("left", KeysOf(h, h[n].left), KeysOf(h, h[n].right), h[n].key, KeysOf(h, n))
  BY KeysParted DEF Sides, Other
<1>2. /\ KeysOf(h, n) = KeysOf(h, h[n].left) \cup KeysOf(h, h[n].right) \cup {h[n].key} /\ KeysOf(h, n) \subseteq Keys
      /\ (\A c \in KeysOf(h, h[n].left) : Before("left", c, h[n].key))
      /\ \A d \in KeysOf(h, h[n].right) : Before("left", h[n].key, d)
  BY <1>1 DEF Parted
<1>3. \A d \in KeysOf(h, h[n].right) : Before("right", d, h[n].key)
  BY <1>2 DEF Before
<1> QED
  BY <1>2, <1>3 DEF Sides

\* The path to the last key on a side.
EndsAt(h, n, side, q) == \E j : End(side, KeysOf(h, n), j) /\ q = Search(h, n, j)

\* Going down to a side ends there.
LEMMA DescendsToEnd ==
  ASSUME NEW h, Forest(h), NEW n \in Nodes(h), n # Null, NEW side \in Sides
  PROVE  EndsAt(h, n, side, Descend(h, n, side))
<1> DEFINE G == {m \in Nodes(h) : m = Null \/ EndsAt(h, m, side, Descend(h, m, side))}
<1>1. Null \in G
  BY DEF Nodes
<1>2. \A m \in DOMAIN h : (\A s \in Sides : h[m][s] \in Nodes(h) /\ h[m][s] \in G) => m \in G
  <2> SUFFICES ASSUME NEW m \in DOMAIN h, \A s \in Sides : h[m][s] \in Nodes(h) /\ h[m][s] \in G
               PROVE  EndsAt(h, m, side, Descend(h, m, side))
    BY DEF Nodes
  <2> DEFINE c == h[m][side]
             C == KeysOf(h, c)
             D == KeysOf(h, h[m][Other(side)])
             k == h[m].key
             K == KeysOf(h, m)
  <2>1. Parted(side, C, D, k, K)
    BY KeysParted
  <2>2. Descend(h, m, side) = Cons(m, Descend(h, c, side)) /\ k \in Keys /\ c \in Nodes(h)
    BY Descends, ForestNode
  <2> HIDE DEF c
  <2>3. CASE c = Null
    <3>1. C = {}
      BY <2>3, KeysOfNull
    <3> HIDE DEF C, D, K, k
    <3>2. End(side, K, k)
      BY <2>1, <3>1, NearestHere
    <3>3. Search(h, m, k) = <<m>>
      BY <2>2, Searches DEF k
    <3>4. Descend(h, c, side) = <<>>
      BY <2>3, Descends
    <3>5. Descend(h, m, side) = <<m>>
      BY <2>2, <3>4 DEF Cons
    <3> QED
      BY <3>2, <3>3, <3>5 DEF EndsAt, K
  <2>4. CASE c # Null
    <3>1. EndsAt(h, c, side, Descend(h, c, side))
      BY <2>4 DEF c
    <3>2. PICK j : End(side, C, j) /\ Descend(h, c, side) = Search(h, c, j)
      BY <3>1 DEF EndsAt
    <3>3. End(side, K, j) /\ Before(side, j, k)
      <4> HIDE DEF C, D, K, k
      <4> QED
        BY <2>1, <3>2, NearestHere
    <3>4. j \in Keys
      BY <2>1, <3>3 DEF End, Parted
    <3>5. Search(h, m, j) = Cons(m, Search(h, c, j))
      BY <3>3, <3>4, Searches DEF c
    <3> QED
      BY <2>2, <3>2, <3>3, <3>5 DEF EndsAt
  <2> QED
    BY <2>3, <2>4
<1>3. n \in G
  <2> HIDE DEF G
  <2> QED
    BY <1>1, <1>2, TreeInduction
<1> QED
  BY <1>3

\* Going on from a node itself.
LEMMA GoHere ==
  ASSUME NEW h, Forest(h), NEW n \in DOMAIN h, NEW side \in Sides, NEW c, c = h[n][side]
  PROVE  /\ c = Null => Go(h, <<n>>, side) = <<>>
         /\ c # Null => Go(h, <<n>>, side) = Cons(n, Descend(h, c, Other(side)))
<1> DEFINE q == <<n>>
<1>1. q \in Seq(DOMAIN h) /\ Len(q) = 1 /\ q[1] = n /\ q # <<>>
  OBVIOUS
<1>2. Go(h, q, side) = IF c # Null THEN q \o Descend(h, c, Other(side)) ELSE Climb(h, q, side)
  BY <1>1 DEF Go
<1> HIDE DEF q
<1>3. Climb(h, q, side) = <<>>
  <2>1. Last(h, q, side) < 1 /\ Last(h, q, side) \in Nat /\ Climb(h, q, side) \in Seq(DOMAIN h) /\ Len(Climb(h, q, side)) = Last(h, q, side)
    BY <1>1, Climbs
  <2> QED
    BY <2>1
<1>4. q \o Descend(h, c, Other(side)) = Cons(n, Descend(h, c, Other(side)))
  BY DEF q, Cons
<1> QED
  BY <1>2, <1>3, <1>4 DEF q

\* Going on from a node further down: in the tree there, or up to the node above.
LEMMA GoBelow ==
  ASSUME NEW h, Forest(h), NEW n \in DOMAIN h, NEW q \in Seq(DOMAIN h), q # <<>>, NEW side \in Sides,
         NEW p, p = Go(h, q, side), NEW r, r = Go(h, Cons(n, q), side)
  PROVE  /\ p \in Seq(DOMAIN h)
         /\ p # <<>> => r = Cons(n, p)
         /\ p = <<>> /\ h[n][Other(side)] = q[1] => r = <<n>>
         /\ p = <<>> /\ h[n][Other(side)] # q[1] => r = <<>>
<1> DEFINE L == Cons(n, q)
           c == h[q[Len(q)]][side]
           d == Descend(h, c, Other(side))
<1>1. L \in Seq(DOMAIN h) /\ Len(L) = Len(q) + 1 /\ \A i \in 1 .. Len(q) : L[i + 1] = q[i]
  BY ConsParts
<1>2. Len(q) \in 1 .. Len(q) /\ q[Len(q)] \in DOMAIN h
  OBVIOUS
<1> HIDE DEF L
<1>3. L[Len(L)] = q[Len(q)]
  BY <1>1, <1>2
<1>4. p = (IF c # Null THEN q \o d ELSE Climb(h, q, side)) /\ r = (IF c # Null THEN L \o d ELSE Climb(h, L, side))
  BY <1>3 DEF Go, L
<1>5. c \in Nodes(h) /\ Other(side) \in Sides
  BY <1>2, ForestNode, OtherSide
<1> HIDE DEF c, d
<1>6. CASE c = Null
  <2>1. p = Climb(h, q, side) /\ r = Climb(h, Cons(n, q), side)
    BY <1>4, <1>6 DEF L
  <2> QED
    BY <2>1, ClimbBelow
<1>7. CASE c # Null
  <2>1. d \in Seq(DOMAIN h) /\ d # <<>>
    BY <1>5, <1>7, DescendPath DEF d
  <2>2. p = q \o d /\ r = Cons(n, q) \o d
    BY <1>4, <1>7 DEF L
  <2>3. p \in Seq(DOMAIN h) /\ Len(p) = Len(q) + Len(d)
    BY <2>1, <2>2, ConcatParts
  <2>4. p # <<>>
    <3>1. Len(q) \in Nat /\ Len(q) > 0 /\ Len(d) \in Nat
      BY <2>1
    <3> QED
      BY <2>3, <3>1
  <2>5. r = Cons(n, p)
    <3>1. \A x \in Seq(DOMAIN h) : Cons(n, q) \o x = Cons(n, q \o x)
      BY ConsConcat
    <3> QED
      BY <2>1, <2>2, <3>1
  <2> QED
    BY <2>3, <2>4, <2>5
<1> QED
  BY <1>6, <1>7

\* Where an iterator is that has left key k of the tree from n down to a side: at the nearest key there, or at the end.
WentOn(h, n, side, k, q) ==
  \/ \E j : Nearest(side, KeysOf(h, n), k, j) /\ q = Search(h, n, j)
  \/ NoneBeyond(side, KeysOf(h, n), k) /\ q = <<>>

\* From the key of the node.
LEMMA GoesOnHere ==
  ASSUME NEW h, Forest(h), NEW n \in DOMAIN h, NEW side \in Sides
  PROVE  WentOn(h, n, side, h[n].key, Go(h, Search(h, n, h[n].key), side))
<1> DEFINE c == h[n][side]
           C == KeysOf(h, c)
           D == KeysOf(h, h[n][Other(side)])
           k == h[n].key
           K == KeysOf(h, n)
           o == Other(side)
<1>1. Parted(side, C, D, k, K)
  BY KeysParted
<1>2. k \in Keys /\ c \in Nodes(h) /\ o \in Sides
  BY ForestNode, OtherSide
<1>3. Search(h, n, k) = <<n>>
  BY <1>2, Searches
<1>4. (c = Null => Go(h, <<n>>, side) = <<>>) /\ (c # Null => Go(h, <<n>>, side) = Cons(n, Descend(h, c, o)))
  BY GoHere
<1>5. CASE c = Null
  <2>1. C = {}
    BY <1>5, KeysOfNull
  <2>2. NoneBeyond(side, K, k)
    <3> HIDE DEF C, D, K, k
    <3> QED
      BY <1>1, <2>1, NearestHere
  <2> QED
    BY <1>3, <1>4, <1>5, <2>2 DEF WentOn
<1>6. CASE c # Null
  <2>1. EndsAt(h, c, o, Descend(h, c, o))
    BY <1>2, <1>6, DescendsToEnd
  <2>2. PICK j : End(o, C, j) /\ Descend(h, c, o) = Search(h, c, j)
    BY <2>1 DEF EndsAt
  <2>3. Nearest(side, K, k, j) /\ Before(side, j, k)
    <3> HIDE DEF C, D, K, k
    <3> QED
      BY <1>1, <2>2, NearestHere DEF o
  <2>4. j \in Keys
    BY <1>1, <2>3 DEF Nearest, Parted
  <2>5. Search(h, n, j) = Cons(n, Search(h, c, j))
    BY <2>3, <2>4, Searches
  <2>6. Go(h, Search(h, n, k), side) = Search(h, n, j)
    BY <1>3, <1>4, <1>6, <2>2, <2>5
  <2> QED
    BY <2>3, <2>6 DEF WentOn
<1> QED
  BY <1>5, <1>6

\* From a key below it.
LEMMA GoesOnBelow ==
  ASSUME NEW h, Forest(h), NEW n \in DOMAIN h, NEW side \in Sides, NEW t \in Sides, NEW c, c = h[n][t],
         NEW x \in KeysOf(h, c), Before(t, x, h[n].key), WentOn(h, c, side, x, Go(h, Search(h, c, x), side))
  PROVE  WentOn(h, n, side, x, Go(h, Search(h, n, x), side))
<1> DEFINE C == KeysOf(h, c)
           D == KeysOf(h, h[n][Other(t)])
           k == h[n].key
           K == KeysOf(h, n)
           q == Search(h, c, x)
           p == Go(h, q, side)
           r == Go(h, Cons(n, q), side)
<1>1. Parted(t, C, D, k, K)
  BY KeysParted
<1>2. k \in Keys /\ c \in Nodes(h) /\ h[n][Other(t)] \in Nodes(h)
  BY ForestNode, OtherSide
<1>3. Arrives(h, c, x, q) /\ c \in DOMAIN h /\ x \in Keys
  BY <1>2, SearchLeads
<1>4. Search(h, n, x) = Cons(n, q)
  BY <1>3, Searches
<1>5. q \in Seq(DOMAIN h) /\ q # <<>> /\ q[1] = c
  BY <1>3 DEF Arrives
<1> HIDE DEF q
<1>6. /\ p # <<>> => r = Cons(n, p)
      /\ p = <<>> /\ h[n][Other(side)] = c => r = <<n>>
      /\ p = <<>> /\ h[n][Other(side)] # c => r = <<>>
  BY <1>5, GoBelow
<1> HIDE DEF p, r
<1>7. /\ \A s \in Sides : \A j : Nearest(s, C, x, j) => Nearest(s, K, x, j) /\ Before(t, j, k)
      /\ NoneBeyond(Other(t), C, x) => Nearest(Other(t), K, x, k)
      /\ NoneBeyond(t, C, x) => NoneBeyond(t, K, x)
  <2> HIDE DEF C, D, k, K
  <2>1. Before(t, x, k)
    BY DEF k
  <2> QED
    BY <1>1, <1>3, <2>1, NearestBelow
<1>8. WentOn(h, n, side, x, r)
  <2>1. CASE \E j : Nearest(side, C, x, j) /\ p = Search(h, c, j)
    <3>1. PICK j : Nearest(side, C, x, j) /\ p = Search(h, c, j)
      BY <2>1
    <3>2. Nearest(side, K, x, j) /\ Before(t, j, k)
      BY <1>7, <3>1
    <3>3. j \in C /\ j \in Keys
      BY <1>1, <3>1, <3>2 DEF Nearest, Parted
    <3>4. p # <<>>
      BY <1>2, <3>1, <3>3, SearchLeads DEF Arrives
    <3>5. Search(h, n, j) = Cons(n, p)
      BY <3>1, <3>2, <3>3, Searches
    <3> QED
      BY <1>6, <3>2, <3>4, <3>5 DEF WentOn
  <2>2. CASE NoneBeyond(side, C, x) /\ p = <<>>
    <3>1. CASE side = t
      <4>1. NoneBeyond(side, K, x)
        BY <1>7, <2>2, <3>1
      <4>2. h[n][Other(side)] # c
        <5>1. h[c].key \in C /\ h[c].key \in Keys
          BY <1>3, ForestNode DEF Sides
        <5>2. Before(t, h[c].key, k) /\ (h[n][Other(t)] = c => Before(t, k, h[c].key))
          BY <1>1, <5>1 DEF Parted
        <5> QED
          BY <1>2, <3>1, <5>1, <5>2, BeforeOrder
      <4> QED
        BY <1>6, <2>2, <4>1, <4>2 DEF WentOn
    <3>2. CASE side # t
      <4>1. side = Other(t) /\ t = Other(side)
        BY <3>2 DEF Sides, Other
      <4>2. Nearest(side, K, x, k)
        BY <1>7, <2>2, <4>1
      <4>3. Search(h, n, k) = <<n>>
        BY <1>2, Searches
      <4>4. r = <<n>>
        BY <1>6, <2>2, <4>1
      <4> QED
        BY <4>2, <4>3, <4>4 DEF WentOn
    <3> QED
      BY <3>1, <3>2
  <2>3. WentOn(h, c, side, x, p)
    BY DEF p, q
  <2> QED
    BY <2>1, <2>2, <2>3 DEF WentOn
<1> QED
  BY <1>4, <1>8 DEF r

\* An iterator at a key goes on to the nearest key on either side.
LEMMA GoesOn ==
  ASSUME NEW h, Forest(h), NEW n \in Nodes(h), NEW k \in KeysOf(h, n), NEW side \in Sides
  PROVE  WentOn(h, n, side, k, Go(h, Search(h, n, k), side))
<1> DEFINE G == {m \in Nodes(h) : \A x \in KeysOf(h, m) : WentOn(h, m, side, x, Go(h, Search(h, m, x), side))}
<1>1. Null \in G
  BY KeysOfNull DEF Nodes
<1>2. \A m \in DOMAIN h : (\A s \in Sides : h[m][s] \in Nodes(h) /\ h[m][s] \in G) => m \in G
  <2> SUFFICES ASSUME NEW m \in DOMAIN h, \A s \in Sides : h[m][s] \in Nodes(h) /\ h[m][s] \in G,
                      NEW x \in KeysOf(h, m)
               PROVE  WentOn(h, m, side, x, Go(h, Search(h, m, x), side))
    BY DEF Nodes
  <2>1. CASE x = h[m].key
    BY <2>1, GoesOnHere
  <2>2. ASSUME NEW t \in Sides, x \in KeysOf(h, h[m][t]), Before(t, x, h[m].key)
        PROVE  WentOn(h, m, side, x, Go(h, Search(h, m, x), side))
    <3>1. WentOn(h, h[m][t], side, x, Go(h, Search(h, h[m][t], x), side))
      BY <2>2
    <3> QED
      BY <2>2, <3>1, GoesOnBelow
  <2> QED
    BY <2>1, <2>2, KeyBelow
<1>3. n \in G
  <2> HIDE DEF G
  <2> QED
    BY <1>1, <1>2, TreeInduction
<1> QED
  BY <1>3

\* The path to a nearest key of a key, on one side or the other.
NextTo(h, n, k, q) == \E side \in Sides : \E j : Nearest(side, KeysOf(h, n), k, j) /\ q = Search(h, n, j)

\* A search for a key that the tree does not have ends there.
LEMMA SearchMisses ==
  ASSUME NEW h, Forest(h), NEW n \in Nodes(h), n # Null, NEW k \in Keys, k \notin KeysOf(h, n)
  PROVE  NextTo(h, n, k, Search(h, n, k))
<1> DEFINE G == {m \in Nodes(h) : m = Null \/ k \in KeysOf(h, m) \/ NextTo(h, m, k, Search(h, m, k))}
<1>1. Null \in G
  BY DEF Nodes
<1>2. \A m \in DOMAIN h : (\A s \in Sides : h[m][s] \in Nodes(h) /\ h[m][s] \in G) => m \in G
  <2> SUFFICES ASSUME NEW m \in DOMAIN h, \A s \in Sides : h[m][s] \in Nodes(h) /\ h[m][s] \in G,
                      k \notin KeysOf(h, m)
               PROVE  NextTo(h, m, k, Search(h, m, k))
    BY DEF Nodes
  <2>1. h[m].key \in Keys /\ h[m].key \in KeysOf(h, m)
    BY ForestNode DEF Sides
  <2> DEFINE t == Side(k, h[m].key)
             c == h[m][t]
             C == KeysOf(h, c)
             D == KeysOf(h, h[m][Other(t)])
             j == h[m].key
             K == KeysOf(h, m)
  <2>2. t \in Sides /\ Before(t, k, j)
    BY <2>1, SideOf
  <2> HIDE DEF t
  <2>3. Parted(t, C, D, j, K)
    BY <2>2, KeysParted
  <2>4. Search(h, m, k) = Cons(m, Search(h, c, k)) /\ c \in Nodes(h) /\ c \in G
    BY <2>2, Searches
  <2>5. /\ \A s \in Sides : \A i : Nearest(s, C, k, i) => Nearest(s, K, k, i) /\ Before(t, i, j)
        /\ NoneBeyond(Other(t), C, k) => Nearest(Other(t), K, k, j)
    <3> HIDE DEF C, D, j, K
    <3> QED
      BY <2>2, <2>3, NearestBelow
  <2>6. CASE c = Null
    <3>1. C = {}
      BY <2>6, KeysOfNull
    <3>2. Nearest(Other(t), K, k, j)
      BY <2>5, <3>1 DEF NoneBeyond
    <3>3. Search(h, m, j) = <<m>>
      BY <2>1, Searches
    <3>4. Search(h, c, k) = <<>>
      BY <2>6, Searches
    <3>5. Search(h, m, k) = Search(h, m, j)
      BY <2>4, <3>3, <3>4 DEF Cons
    <3>6. Other(t) \in Sides
      BY <2>2, OtherSide
    <3> QED
      BY <3>2, <3>5, <3>6 DEF NextTo
  <2>7. CASE c # Null
    <3>1. k \notin C
      BY <2>3 DEF Parted
    <3>2. NextTo(h, c, k, Search(h, c, k))
      BY <2>4, <2>7, <3>1
    <3>3. PICK s \in Sides : \E i : Nearest(s, C, k, i) /\ Search(h, c, k) = Search(h, c, i)
      BY <3>2 DEF NextTo
    <3>4. PICK i : Nearest(s, C, k, i) /\ Search(h, c, k) = Search(h, c, i)
      BY <3>3
    <3>5. Nearest(s, K, k, i) /\ Before(t, i, j)
      BY <2>5, <3>4
    <3>6. i \in Keys
      BY <2>3, <3>5 DEF Nearest, Parted
    <3>7. Search(h, m, i) = Cons(m, Search(h, c, i))
      BY <2>2, <3>5, <3>6, Searches
    <3>8. Search(h, m, k) = Search(h, m, i)
      BY <2>4, <3>4, <3>7
    <3> QED
      BY <3>5, <3>8 DEF NextTo
  <2> QED
    BY <2>6, <2>7
<1>3. n \in G
  <2> HIDE DEF G
  <2> QED
    BY <1>1, <1>2, TreeInduction
<1> QED
  BY <1>3

-----------------------------------------------------------------------------
(* What the iterators of a copy find, and what a sorted map has. *)

\* The nearest keys of a key are the greatest before it and the least after it, and the ends are the least and the greatest.
LEMMA NearestOfMap ==
  ASSUME NEW map, DOMAIN map \subseteq Keys, NEW k \in Keys
  PROVE  /\ \A j : Nearest("left", DOMAIN map, k, j) => Map!Greatest(Map!Before(map, k)) = {j}
         /\ \A j : Nearest("right", DOMAIN map, k, j) => Map!Least(Map!After(map, k)) = {j}
         /\ NoneBeyond("left", DOMAIN map, k) => Map!Greatest(Map!Before(map, k)) = {}
         /\ NoneBeyond("right", DOMAIN map, k) => Map!Least(Map!After(map, k)) = {}
<1> DEFINE K == DOMAIN map
<1>1. \A a, b \in Keys : ~Less(a, a) /\ (Less(a, b) => ~Less(b, a))
  BY LessAssumption
<1>2. ASSUME NEW j, Nearest("left", K, k, j)
      PROVE  Map!Greatest(Map!Before(map, k)) = {j}
  <2>1. j \in K /\ Less(j, k) /\ \A m \in K : Less(m, k) => m = j \/ Less(m, j)
    BY <1>2 DEF Nearest, Before
  <2> QED
    BY <1>1, <2>1 DEF Map!Greatest, Map!Before
<1>3. ASSUME NEW j, Nearest("right", K, k, j)
      PROVE  Map!Least(Map!After(map, k)) = {j}
  <2>1. j \in K /\ Less(k, j) /\ \A m \in K : Less(k, m) => m = j \/ Less(j, m)
    BY <1>3 DEF Nearest, Before
  <2> QED
    BY <1>1, <2>1 DEF Map!Least, Map!After
<1>4. ASSUME NoneBeyond("left", K, k)
      PROVE  Map!Greatest(Map!Before(map, k)) = {}
  BY <1>4 DEF NoneBeyond, Before, Map!Greatest, Map!Before
<1>5. ASSUME NoneBeyond("right", K, k)
      PROVE  Map!Least(Map!After(map, k)) = {}
  BY <1>5 DEF NoneBeyond, Before, Map!Least, Map!After
<1> QED
  BY <1>2, <1>3, <1>4, <1>5

\* The last keys on the sides are the least and the greatest of a map.
LEMMA EndsOfMap ==
  ASSUME NEW map, DOMAIN map \subseteq Keys
  PROVE  /\ \A j : End("left", DOMAIN map, j) => Map!First(map) = {j}
         /\ \A j : End("right", DOMAIN map, j) => Map!Greatest(DOMAIN map) = {j}
         /\ DOMAIN map = {} => Map!First(map) = {} /\ Map!Greatest(DOMAIN map) = {}
<1> DEFINE K == DOMAIN map
<1>1. \A a, b \in Keys : ~Less(a, a) /\ (Less(a, b) => ~Less(b, a))
  BY LessAssumption
<1>2. ASSUME NEW j, End("left", K, j)
      PROVE  Map!First(map) = {j}
  <2>1. j \in K /\ \A m \in K : m = j \/ Less(j, m)
    BY <1>2 DEF End, Before
  <2> QED
    BY <1>1, <2>1 DEF Map!First, Map!Least
<1>3. ASSUME NEW j, End("right", K, j)
      PROVE  Map!Greatest(K) = {j}
  <2>1. j \in K /\ \A m \in K : m = j \/ Less(m, j)
    BY <1>3 DEF End, Before
  <2> QED
    BY <1>1, <2>1 DEF Map!Greatest
<1>4. K = {} => Map!First(map) = {} /\ Map!Greatest(K) = {}
  BY DEF Map!First, Map!Least, Map!Greatest
<1> QED
  BY <1>2, <1>3, <1>4

\* The first key that is not before a key is that key or the next one.
LEMMA LowerBoundOfMap ==
  ASSUME NEW map, DOMAIN map \subseteq Keys, NEW k \in Keys
  PROVE  /\ k \in DOMAIN map => Map!LowerBound(map, k) = {k}
         /\ k \notin DOMAIN map => Map!LowerBound(map, k) = Map!Least(Map!After(map, k))
<1>1. \A a, b \in Keys : ~Less(a, a) /\ (Less(a, b) => ~Less(b, a)) /\ (Less(a, b) \/ Less(b, a) \/ a = b)
  BY LessAssumption
<1> DEFINE rest == DOMAIN map \ Map!Before(map, k)
<1>2. \A m : m \in rest <=> m \in DOMAIN map /\ (m = k \/ Less(k, m))
  BY <1>1 DEF Map!Before
<1>3. Map!LowerBound(map, k) = Map!Least(rest)
  BY DEF Map!LowerBound
<1> HIDE DEF rest
<1>4. ASSUME k \in DOMAIN map
      PROVE  Map!Least(rest) = {k}
  BY <1>1, <1>2, <1>4 DEF Map!Least
<1>5. ASSUME k \notin DOMAIN map
      PROVE  rest = Map!After(map, k)
  BY <1>2, <1>5 DEF Map!After
<1> QED
  BY <1>3, <1>4, <1>5

\* A path to a key at which find and lower_bound end, and upper_bound goes on from it.
Hits(h, n, k, q) ==
  /\ k \in Keys /\ q # <<>> /\ At(h, q) = {k}
  /\ Bound(h, n, k, FALSE) = q /\ Bound(h, n, k, TRUE) = GoLeft(h, n, q) /\ Find(h, n, k) = q

\* The search for a key of the tree ends there.
LEMMA SearchHits ==
  ASSUME NEW h, Forest(h), NEW n \in Nodes(h), NEW k \in KeysOf(h, n)
  PROVE  Hits(h, n, k, Search(h, n, k))
<1> DEFINE q == Search(h, n, k)
<1>1. Arrives(h, n, k, q) /\ k \in Keys
  BY SearchLeads
<1>2. q # <<>> /\ h[q[Len(q)]].key = k
  BY <1>1 DEF Arrives
<1>3. ~Less(k, k)
  BY <1>1, LessAssumption
<1>4. Same(k, h[q[Len(q)]].key)
  BY <1>2, <1>3 DEF Same
<1>5. At(h, q) = {k}
  BY <1>2 DEF At
<1>6. Bound(h, n, k, FALSE) = q /\ Bound(h, n, k, TRUE) = GoLeft(h, n, q)
  BY <1>2, <1>4 DEF Bound
<1>7. Find(h, n, k) = q
  BY <1>3, <1>5, <1>6 DEF Find
<1> QED
  BY <1>1, <1>2, <1>5, <1>6, <1>7 DEF Hits

\* From the nearest key before an absent key, the next one is the nearest after it.
LEMMA NextOfNearest ==
  ASSUME NEW K \in SUBSET Keys, NEW k \in Keys, k \notin K, NEW j, Nearest("left", K, k, j)
  PROVE  /\ \A i : Nearest("right", K, j, i) => Nearest("right", K, k, i)
         /\ NoneBeyond("right", K, j) => NoneBeyond("right", K, k)
<1>1. j \in K /\ Less(j, k) /\ \A m \in K : Less(m, k) => m = j \/ Less(m, j)
  BY DEF Nearest, Before
<1>2. \A a, b, c \in Keys : ~Less(a, a) /\ (Less(a, b) /\ Less(b, c) => Less(a, c)) /\ (Less(a, b) \/ Less(b, a) \/ a = b)
  BY LessAssumption
<1>3. \A m \in K : Less(j, m) <=> Less(k, m)
  BY <1>1, <1>2
<1> QED
  BY <1>3 DEF Nearest, NoneBeyond, Before

\* The lower bound of an absent key is at the nearest key after it, or at the end, and the search for it finds nothing.
LEMMA BoundMisses ==
  ASSUME NEW h, Forest(h), NEW n \in Nodes(h), NEW k \in Keys, k \notin KeysOf(h, n)
  PROVE  /\ WentOn(h, n, "right", k, Bound(h, n, k, FALSE)) /\ Find(h, n, k) = <<>>
         /\ n # Null => NextTo(h, n, k, Bound(h, n, k, TRUE))
         /\ n = Null => Bound(h, n, k, TRUE) = <<>>
<1> DEFINE K == KeysOf(h, n)
           q == Search(h, n, k)
           b == Bound(h, n, k, FALSE)
           t == Bound(h, n, k, TRUE)
<1>1. CASE n = Null
  <2>1. K = {} /\ q = <<>>
    BY <1>1, KeysOfNull, Searches
  <2>2. b = <<>> /\ t = <<>>
    BY <2>1 DEF Bound
  <2>3. NoneBeyond("right", K, k)
    BY <2>1 DEF NoneBeyond
  <2>4. Find(h, n, k) = <<>>
    BY <2>2 DEF Find
  <2> QED
    BY <1>1, <2>2, <2>3, <2>4 DEF WentOn
<1>2. CASE n # Null
  <2>1. NextTo(h, n, k, q)
    BY <1>2, SearchMisses
  <2>2. PICK side \in Sides : \E j : Nearest(side, K, k, j) /\ q = Search(h, n, j)
    BY <2>1 DEF NextTo
  <2>3. PICK j : Nearest(side, K, k, j) /\ q = Search(h, n, j)
    BY <2>2
  <2>4. j \in K /\ Before(side, j, k)
    BY <2>3 DEF Nearest
  <2>5. j \in Keys /\ q # <<>> /\ h[q[Len(q)]].key = j
    BY <2>3, <2>4, SearchLeads DEF Arrives
  <2>6. K \in SUBSET Keys
    <3>1. n \in DOMAIN h
      BY <1>2 DEF Nodes
    <3> QED
      BY <3>1, KeysParted DEF Parted, Sides
  <2>7. ~Same(k, h[q[Len(q)]].key)
    BY <2>4, <2>5 DEF Before, Same
  <2>8. t = q /\ b = (IF Less(j, k) THEN GoRight(h, q) ELSE q)
    BY <2>5, <2>7 DEF Bound
  <2>9. WentOn(h, n, "right", k, b)
    <3>1. CASE side = "left"
      <4>1. Less(j, k) /\ b = Go(h, Search(h, n, j), "right")
        BY <2>3, <2>4, <2>5, <2>8, <3>1 DEF Before, GoRight
      <4>2. WentOn(h, n, "right", j, b)
        BY <2>4, <4>1, GoesOn DEF Sides
      <4>3. /\ \A i : Nearest("right", K, j, i) => Nearest("right", K, k, i)
            /\ NoneBeyond("right", K, j) => NoneBeyond("right", K, k)
        <5> HIDE DEF K
        <5>1. k \notin K
          BY DEF K
        <5> QED
          BY <2>3, <2>6, <3>1, <5>1, NextOfNearest
      <4> QED
        BY <4>2, <4>3 DEF WentOn
    <3>2. CASE side = "right"
      <4>1. Less(k, j)
        BY <2>4, <3>2 DEF Before
      <4>2. ~Less(j, k)
        BY <2>5, <4>1, LessAssumption
      <4>3. b = q
        BY <2>8, <4>2
      <4> QED
        BY <2>3, <3>2, <4>3 DEF WentOn
    <3> QED
      BY <3>1, <3>2 DEF Sides
  <2>10. Find(h, n, k) = <<>>
    <3>1. CASE \E i : Nearest("right", K, k, i) /\ b = Search(h, n, i)
      <4>1. PICK i : Nearest("right", K, k, i) /\ b = Search(h, n, i)
        BY <3>1
      <4>2. i \in K /\ Less(k, i)
        BY <4>1 DEF Nearest, Before
      <4>3. Hits(h, n, i, Search(h, n, i))
        BY <4>2, SearchHits
      <4>4. At(h, b) = {i}
        BY <4>1, <4>3 DEF Hits
      <4> QED
        BY <4>2, <4>4 DEF Find
    <3>2. CASE b = <<>>
      BY <3>2 DEF Find
    <3> QED
      BY <2>9, <3>1, <3>2 DEF WentOn
  <2> QED
    BY <1>2, <2>1, <2>8, <2>9, <2>10
<1> QED
  BY <1>1, <1>2

\* The nodes are balanced search trees, and a copy's keys are those from its root down.
LEMMA CopyForest ==
  ASSUME TreeInv, NEW c \in Copies
  PROVE  /\ Forest(heap) /\ roots[c] \in Nodes(heap)
         /\ DOMAIN Contents(roots[c]) = KeysOf(heap, roots[c]) /\ KeysOf(heap, roots[c]) \subseteq Keys
<1> DEFINE n == roots[c]
<1>1. Kin(heap, roots)
  BY DEF TreeInv
<1>2. Closed(heap) /\ (\A m \in DOMAIN heap : AVL(heap, m)) /\ n \in Nodes(heap)
  BY <1>1 DEF Kin
<1>3. Forest(heap)
  BY <1>2 DEF Forest
<1>4. Reach(heap, n) = Sub(heap, n)
  BY <1>1, <1>2, KinSane, Reaches
<1>5. DOMAIN Contents(n) = KeysOf(heap, n)
  BY <1>4 DEF Contents, KeysOf
<1>6. KeysOf(heap, n) \subseteq Keys
  <2>1. CASE n = Null
    BY <2>1, KeysOfNull
  <2>2. CASE n \in DOMAIN heap
    BY <1>3, <2>2, KeysParted DEF Parted, Sides
  <2> QED
    BY <1>2, <2>1, <2>2 DEF Nodes
<1> QED
  BY <1>2, <1>3, <1>5, <1>6

\* Located is the search path of a key of the tree, and the end for none.
LEMMA LocatedAt ==
  ASSUME Forest(heap), NEW n \in Nodes(heap)
  PROVE  /\ Located(n, {}) = {<<>>}
         /\ \A j \in KeysOf(heap, n) : Located(n, {j}) = {Search(heap, n, j)}
<1>1. Located(n, {}) = {<<>>}
  BY DEF Located
<1>2. ASSUME NEW j \in KeysOf(heap, n)
      PROVE  Located(n, {j}) = {Search(heap, n, j)}
  <2>1. Find(heap, n, j) = Search(heap, n, j)
    BY SearchHits DEF Hits
  <2>2. Located(n, {j}) = {Find(heap, n, j)}
    BY DEF Located
  <2> QED
    BY <2>1, <2>2
<1> QED
  BY <1>1, <1>2

\* Where an iterator is that went on is where Located has the nearest key.
LEMMA WentOnLocated ==
  ASSUME Forest(heap), NEW n \in Nodes(heap), NEW map, DOMAIN map = KeysOf(heap, n), DOMAIN map \subseteq Keys,
         NEW k \in Keys
  PROVE  /\ \A q : WentOn(heap, n, "right", k, q) => {q} = Located(n, Map!Least(Map!After(map, k)))
                                                      /\ At(heap, q) = Map!Least(Map!After(map, k))
         /\ \A q : WentOn(heap, n, "left", k, q) => {q} = Located(n, Map!Greatest(Map!Before(map, k)))
                                                     /\ At(heap, q) = Map!Greatest(Map!Before(map, k))
<1> DEFINE K == DOMAIN map
<1>1. ASSUME NEW j \in K, NEW S, S = {j}, NEW q, q = Search(heap, n, j)
      PROVE  {q} = Located(n, S) /\ At(heap, q) = S
  <2>1. j \in KeysOf(heap, n)
    OBVIOUS
  <2> QED
    BY <1>1, <2>1, LocatedAt, SearchHits, ZenonT(60) DEF Hits
<1>2. ASSUME NEW S, S = {}, NEW q, q = <<>>
      PROVE  {q} = Located(n, S) /\ At(heap, q) = S
  BY <1>2, LocatedAt DEF At
<1>3. ASSUME NEW side, NEW q, NEW S, WentOn(heap, n, side, k, q),
             \A j : Nearest(side, K, k, j) => S = {j}, NoneBeyond(side, K, k) => S = {}
      PROVE  {q} = Located(n, S) /\ At(heap, q) = S
  <2>1. CASE \E j : Nearest(side, K, k, j) /\ q = Search(heap, n, j)
    <3>1. PICK j : Nearest(side, K, k, j) /\ q = Search(heap, n, j)
      BY <2>1
    <3>2. j \in K
      BY <3>1 DEF Nearest
    <3> QED
      BY <1>1, <1>3, <3>1, <3>2
  <2>2. CASE NoneBeyond(side, K, k) /\ q = <<>>
    BY <1>2, <1>3, <2>2
  <2> QED
    BY <1>3, <2>1, <2>2 DEF WentOn
<1> DEFINE above == Map!Least(Map!After(map, k))
           below == Map!Greatest(Map!Before(map, k))
<1>4. /\ \A j : Nearest("left", K, k, j) => below = {j}
      /\ \A j : Nearest("right", K, k, j) => above = {j}
      /\ NoneBeyond("left", K, k) => below = {}
      /\ NoneBeyond("right", K, k) => above = {}
  BY NearestOfMap
<1> HIDE DEF above, below, K
<1>5. \A q : WentOn(heap, n, "right", k, q) => {q} = Located(n, above) /\ At(heap, q) = above
  BY <1>3, <1>4
<1>6. \A q : WentOn(heap, n, "left", k, q) => {q} = Located(n, below) /\ At(heap, q) = below
  BY <1>3, <1>4
<1> QED
  BY <1>5, <1>6 DEF above, below

\* Where begin and the step back from the end are.
LEMMA EndsLocated ==
  ASSUME Forest(heap), NEW n \in Nodes(heap), NEW map, DOMAIN map = KeysOf(heap, n), DOMAIN map \subseteq Keys
  PROVE  /\ {Begin(heap, n)} = Located(n, Map!First(map))
         /\ {GoLeft(heap, n, <<>>)} = Located(n, Map!Greatest(DOMAIN map))
<1> DEFINE first == Map!First(map)
           last == Map!Greatest(DOMAIN map)
<1>1. Begin(heap, n) = Descend(heap, n, "left") /\ GoLeft(heap, n, <<>>) = Descend(heap, n, "right")
  BY DEF Begin, GoLeft
<1>2. /\ \A j : End("left", DOMAIN map, j) => first = {j}
      /\ \A j : End("right", DOMAIN map, j) => last = {j}
      /\ DOMAIN map = {} => first = {} /\ last = {}
  BY EndsOfMap
<1> HIDE DEF first, last
<1>3. CASE n = Null
  <2>1. Descend(heap, n, "left") = <<>> /\ Descend(heap, n, "right") = <<>>
    BY <1>3, Descends DEF Sides
  <2>2. first = {} /\ last = {}
    BY <1>2, <1>3, KeysOfNull
  <2> QED
    BY <1>1, <2>1, <2>2, LocatedAt DEF first, last
<1>4. ASSUME n # Null, NEW side \in Sides, NEW S, \A j : End(side, KeysOf(heap, n), j) => S = {j}
      PROVE  {Descend(heap, n, side)} = Located(n, S)
  <2>1. EndsAt(heap, n, side, Descend(heap, n, side))
    BY <1>4, DescendsToEnd
  <2>2. PICK j : End(side, KeysOf(heap, n), j) /\ Descend(heap, n, side) = Search(heap, n, j)
    BY <2>1 DEF EndsAt
  <2>3. S = {j} /\ j \in KeysOf(heap, n)
    BY <1>4, <2>2 DEF End
  <2> QED
    BY <2>2, <2>3, LocatedAt
<1>5. CASE n # Null
  <2>1. {Descend(heap, n, "left")} = Located(n, first)
    BY <1>2, <1>4, <1>5 DEF Sides
  <2>2. {Descend(heap, n, "right")} = Located(n, last)
    BY <1>2, <1>4, <1>5 DEF Sides
  <2> QED
    BY <1>1, <2>1, <2>2 DEF first, last
<1> QED
  BY <1>3, <1>5

\* Where an iterator at a key of the tree goes on to.
LEMMA StepsLocated ==
  ASSUME Forest(heap), NEW n \in Nodes(heap), NEW map, DOMAIN map = KeysOf(heap, n), DOMAIN map \subseteq Keys,
         NEW key \in DOMAIN map, NEW levels, levels = Find(heap, n, key)
  PROVE  /\ {GoRight(heap, levels)} = Located(n, Map!Least(Map!After(map, key)))
         /\ {GoLeft(heap, n, levels)} = Located(n, Map!Greatest(Map!Before(map, key)))
         /\ At(heap, GoLeft(heap, n, levels)) = Map!Greatest(Map!Before(map, key))
<1>1. Hits(heap, n, key, Search(heap, n, key))
  BY SearchHits
<1>2. levels = Search(heap, n, key) /\ levels # <<>> /\ key \in Keys
  BY <1>1 DEF Hits
<1>3. GoRight(heap, levels) = Go(heap, levels, "right") /\ GoLeft(heap, n, levels) = Go(heap, levels, "left")
  BY <1>2 DEF GoRight, GoLeft
<1>4. \A side \in Sides : WentOn(heap, n, side, key, Go(heap, Search(heap, n, key), side))
  BY GoesOn
<1>5. WentOn(heap, n, "right", key, GoRight(heap, levels)) /\ WentOn(heap, n, "left", key, GoLeft(heap, n, levels))
  BY <1>2, <1>3, <1>4 DEF Sides
<1> QED
  BY <1>2, <1>5, WentOnLocated

\* What find and the bounds find.
LEMMA FoundAt ==
  ASSUME Forest(heap), NEW n \in Nodes(heap), NEW map, DOMAIN map = KeysOf(heap, n), DOMAIN map \subseteq Keys,
         NEW key \in Keys
  PROVE  /\ At(heap, Find(heap, n, key)) = Map!Find(map, key)
         /\ At(heap, Bound(heap, n, key, FALSE)) = Map!LowerBound(map, key)
         /\ At(heap, Bound(heap, n, key, TRUE)) \in Map!UpperBounds(map, key)
<1> DEFINE above == Map!Least(Map!After(map, key))
           below == Map!Greatest(Map!Before(map, key))
           found == Find(heap, n, key)
           lower == Bound(heap, n, key, FALSE)
           upper == Bound(heap, n, key, TRUE)
<1>1. /\ key \in DOMAIN map => Map!LowerBound(map, key) = {key}
      /\ key \notin DOMAIN map => Map!LowerBound(map, key) = above
  BY LowerBoundOfMap
<1>2. Map!UpperBounds(map, key) =
        IF key \in DOMAIN map THEN {below} ELSE IF DOMAIN map = {} THEN {{}} ELSE {below, above} \ {{}}
  BY DEF Map!UpperBounds
<1>3. CASE key \in DOMAIN map
  <2>1. Hits(heap, n, key, Search(heap, n, key))
    BY <1>3, SearchHits
  <2>2. found = lower /\ At(heap, found) = {key} /\ upper = GoLeft(heap, n, found)
    BY <2>1 DEF Hits
  <2>3. At(heap, GoLeft(heap, n, found)) = below
    BY <1>3, StepsLocated
  <2>4. Map!Find(map, key) = {key}
    BY <1>3 DEF Map!Find
  <2> QED
    BY <1>1, <1>2, <1>3, <2>2, <2>3, <2>4
<1>4. CASE key \notin DOMAIN map
  <2>1. key \notin KeysOf(heap, n)
    BY <1>4
  <2>2. /\ WentOn(heap, n, "right", key, lower) /\ found = <<>>
        /\ n # Null => NextTo(heap, n, key, upper)
        /\ n = Null => upper = <<>>
    BY <2>1, BoundMisses
  <2>3. At(heap, lower) = above
    <3> HIDE DEF lower
    <3>1. \A q : WentOn(heap, n, "right", key, q) => At(heap, q) = above
      BY WentOnLocated
    <3> QED
      BY <2>2, <3>1
  <2>4. At(heap, found) = {} /\ Map!Find(map, key) = {}
    BY <1>4, <2>2 DEF At, Map!Find
  <2>5. At(heap, upper) \in Map!UpperBounds(map, key)
    <3>1. CASE n = Null
      <4>1. At(heap, upper) = {} /\ DOMAIN map = {}
        BY <2>2, <3>1, KeysOfNull DEF At
      <4> QED
        BY <1>2, <4>1
    <3>2. CASE n # Null
      <4> HIDE DEF upper
      <4>1. PICK side \in Sides : \E j : Nearest(side, KeysOf(heap, n), key, j) /\ upper = Search(heap, n, j)
        BY <2>2, <3>2 DEF NextTo
      <4>2. PICK j : Nearest(side, KeysOf(heap, n), key, j) /\ upper = Search(heap, n, j)
        BY <4>1
      <4>3. j \in KeysOf(heap, n)
        BY <4>2 DEF Nearest
      <4>4. Hits(heap, n, j, Search(heap, n, j))
        BY <4>3, SearchHits
      <4>5. At(heap, upper) = {j}
        BY <4>2, <4>4 DEF Hits
      <4>6. {j} \in {below, above}
        BY <4>2, NearestOfMap DEF Sides
      <4>7. DOMAIN map # {}
        BY <4>3
      <4> QED
        BY <1>2, <1>4, <4>5, <4>6, <4>7
    <3> QED
      BY <3>1, <3>2
  <2> QED
    BY <1>1, <1>4, <2>3, <2>4, <2>5
<1> QED
  BY <1>3, <1>4

\* The iterators, find and the bounds of every copy follow its map: they go through its keys in order, both ways.
THEOREM TreeIterators == Spec => []IteratorsFollowMap
<1>1. ASSUME TreeInv
      PROVE  IteratorsFollowMap
  <2> SUFFICES ASSUME NEW c \in Copies, NEW root, root = roots[c], NEW map, map = Contents(root)
               PROVE  /\ {Begin(heap, root)} = Located(root, Map!First(map))
                      /\ {GoLeft(heap, root, <<>>)} = Located(root, Map!Greatest(DOMAIN map))
                      /\ \A key \in DOMAIN map :
                           /\ {GoRight(heap, Find(heap, root, key))} = Located(root, Map!Least(Map!After(map, key)))
                           /\ {GoLeft(heap, root, Find(heap, root, key))} = Located(root, Map!Greatest(Map!Before(map, key)))
                      /\ \A key \in Keys :
                           /\ At(heap, Find(heap, root, key)) = Map!Find(map, key)
                           /\ At(heap, Bound(heap, root, key, FALSE)) = Map!LowerBound(map, key)
                           /\ At(heap, Bound(heap, root, key, TRUE)) \in Map!UpperBounds(map, key)
    BY DEF IteratorsFollowMap
  <2>1. Forest(heap) /\ root \in Nodes(heap) /\ DOMAIN map = KeysOf(heap, root) /\ DOMAIN map \subseteq Keys
    BY <1>1, CopyForest
  <2>2. /\ {Begin(heap, root)} = Located(root, Map!First(map))
        /\ {GoLeft(heap, root, <<>>)} = Located(root, Map!Greatest(DOMAIN map))
    BY <2>1, EndsLocated
  <2>3. \A key \in DOMAIN map :
          /\ {GoRight(heap, Find(heap, root, key))} = Located(root, Map!Least(Map!After(map, key)))
          /\ {GoLeft(heap, root, Find(heap, root, key))} = Located(root, Map!Greatest(Map!Before(map, key)))
    BY <2>1, StepsLocated
  <2>4. \A key \in Keys :
          /\ At(heap, Find(heap, root, key)) = Map!Find(map, key)
          /\ At(heap, Bound(heap, root, key, FALSE)) = Map!LowerBound(map, key)
          /\ At(heap, Bound(heap, root, key, TRUE)) \in Map!UpperBounds(map, key)
    BY <2>1, FoundAt
  <2> QED
    BY <2>2, <2>3, <2>4
<1> QED
  BY <1>1, TreeInit, TreeNext, PTL DEF Spec
=============================================================================
