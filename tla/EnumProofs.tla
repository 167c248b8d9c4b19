----------------------------- MODULE EnumProofs -----------------------------
(***************************************************************************)
(* Proofs about the names of enumerators: the parser finds in the text of  *)
(* a declaration what the compiler makes of it, and in a table of any      *)
(* length the search without branches finds the first item of a key and    *)
(* the name sought, whatever std::sort has done with equal elements.       *)
(***************************************************************************)
EXTENDS NamedEnum, TLAPS, WellFoundedInduction, FiniteSetTheorems

-----------------------------------------------------------------------------
(* Recursive functions. *)

\* A set of natural numbers has a least member.
LEMMA LeastOfNats ==
  ASSUME NEW T \in SUBSET Nat, T # {}
  PROVE  \E x \in T : \A y \in T : x <= y
<1> DEFINE Lower == {ss \in Nat \X Nat : ss[1] < ss[2]}
<1>1. IsWellFoundedOn(Lower, Nat)
  BY NatLessThanWellFounded DEF OpToRel
<1>2. \A y, x \in Nat : <<y, x>> \in Lower <=> y < x
  OBVIOUS
<1> HIDE DEF Lower
<1>3. PICK x \in T : \A y \in T : <<y, x>> \notin Lower
  BY <1>1, WFMin
<1>4. \A y \in T : x \in Nat /\ y \in Nat /\ ~(y < x)
  BY <1>2, <1>3
<1> QED
  BY <1>4

\* G gives the value of a function at x from its values at arguments of a lower rank.
Recursive(D, rank, V, G) ==
  /\ rank \in [D -> Nat] /\ V # {} /\ G \in [[D -> V] \X D -> V]
  /\ \A f, g \in [D -> V] : \A x \in D :
       (\A y \in D : rank[y] < rank[x] => f[y] = g[y]) => G[<<f, x>>] = G[<<g, x>>]

\* There is such a function.
LEMMA RecursiveFunction ==
  ASSUME NEW D, NEW rank, NEW V, NEW G, Recursive(D, rank, V, G)
  PROVE  \E f \in [D -> V] : \A x \in D : f[x] = G[<<f, x>>]
<1> DEFINE Solves(f, i) == \A x \in D : rank[x] <= i => f[x] = G[<<f, x>>]
<1>1. /\ \A x \in D : rank[x] \in Nat
      /\ \A f \in [D -> V] : \A x \in D : G[<<f, x>>] \in V
  BY DEF Recursive
<1>2. \A f, g \in [D -> V] : \A x \in D :
        (\A y \in D : rank[y] < rank[x] => f[y] = g[y]) => G[<<f, x>>] = G[<<g, x>>]
  BY DEF Recursive
<1>3. \A i \in Nat : \E f \in [D -> V] : Solves(f, i)
  <2> DEFINE Bad == {i \in Nat : ~\E f \in [D -> V] : Solves(f, i)}
  <2> SUFFICES ASSUME Bad # {} PROVE FALSE
    OBVIOUS
  <2>1. PICK i \in Bad : \A j \in Bad : i <= j
    BY LeastOfNats
  <2>2. i \in Nat
    OBVIOUS
  <2>3. PICK f \in [D -> V] : i > 0 => Solves(f, i - 1)
    <3>1. CASE i > 0
      <4>1. i - 1 \in Nat /\ ~(i <= i - 1)
        BY <2>2, <3>1
      <4> QED
        BY <2>1, <4>1
    <3>2. CASE ~(i > 0)
      <4>1. PICK v \in V : TRUE
        BY DEF Recursive
      <4>2. [x \in D |-> v] \in [D -> V]
        OBVIOUS
      <4> QED
        BY <3>2, <4>2
    <3> QED
      BY <3>1, <3>2
  <2> DEFINE g == [x \in D |-> G[<<f, x>>]]
  <2>4. g \in [D -> V] /\ \A x \in D : g[x] = G[<<f, x>>]
    BY <1>1
  <2> HIDE DEF g
  <2>5. ASSUME NEW x \in D, rank[x] <= i
        PROVE  g[x] = G[<<g, x>>]
    <3>1. \A y \in D : rank[y] < rank[x] => i > 0 /\ rank[y] <= i - 1
      BY <1>1, <2>2, <2>5
    <3>2. \A y \in D : rank[y] < rank[x] => f[y] = g[y]
      BY <2>3, <2>4, <3>1
    <3> QED
      BY <1>2, <2>4, <3>2
  <2> QED
    BY <2>4, <2>5
<1>4. ASSUME NEW f \in [D -> V], NEW g \in [D -> V], NEW i \in Nat, NEW j \in Nat, Solves(f, i), Solves(g, j)
      PROVE  \A x \in D : rank[x] <= i /\ rank[x] <= j => f[x] = g[x]
  <2> DEFINE Bad == {k \in Nat : \E x \in D : rank[x] = k /\ k <= i /\ k <= j /\ f[x] # g[x]}
  <2>1. CASE Bad = {}
    BY <1>1, <2>1
  <2>2. CASE Bad # {}
    <3>1. PICK k \in Bad : \A m \in Bad : k <= m
      BY <2>2, LeastOfNats
    <3>2. PICK x \in D : rank[x] = k /\ k <= i /\ k <= j /\ f[x] # g[x]
      OBVIOUS
    <3>3. ASSUME NEW y \in D, rank[y] < rank[x]
          PROVE  f[y] = g[y]
      <4>1. rank[y] \in Nat /\ k \in Nat /\ rank[y] <= i /\ rank[y] <= j /\ ~(k <= rank[y])
        BY <1>1, <3>2, <3>3
      <4> QED
        BY <3>1, <4>1
    <3>4. f[x] = G[<<f, x>>] /\ g[x] = G[<<g, x>>]
      BY <1>4, <3>2
    <3> QED
      BY <1>2, <3>2, <3>3, <3>4
  <2> QED
    BY <2>1, <2>2
<1> DEFINE F(i) == CHOOSE f \in [D -> V] : Solves(f, i)
           s == [x \in D |-> F(rank[x])[x]]
<1>5. \A i \in Nat : F(i) \in [D -> V] /\ Solves(F(i), i)
  BY <1>3
<1> HIDE DEF F
<1>6. s \in [D -> V] /\ \A x \in D : s[x] = F(rank[x])[x]
  BY <1>1, <1>5
<1> HIDE DEF s
<1>7. ASSUME NEW x \in D
      PROVE  s[x] = G[<<s, x>>]
  <2> DEFINE f == F(rank[x])
  <2>1. f \in [D -> V] /\ Solves(f, rank[x]) /\ rank[x] \in Nat
    BY <1>1, <1>5
  <2>2. f[x] = G[<<f, x>>]
    BY <2>1
  <2>3. ASSUME NEW y \in D, rank[y] < rank[x]
        PROVE  s[y] = f[y]
    <3> DEFINE g == F(rank[y])
    <3>1. g \in [D -> V] /\ Solves(g, rank[y]) /\ rank[y] \in Nat /\ s[y] = g[y]
      BY <1>1, <1>5, <1>6
    <3> HIDE DEF f, g, Solves
    <3>2. rank[y] <= rank[y] /\ rank[y] <= rank[x]
      BY <2>1, <2>3, <3>1
    <3> QED
      BY <1>4, <2>1, <3>1, <3>2
  <2> HIDE DEF f
  <2>4. G[<<s, x>>] = G[<<f, x>>]
    BY <1>2, <1>6, <2>1, <2>3
  <2> QED
    BY <1>6, <2>2, <2>4 DEF f
<1> QED
  BY <1>6, <1>7

-----------------------------------------------------------------------------
(* The search. *)

\* A number is halved once more than its half.
LEMMA Log2Is ==
  /\ log2[0] = 0
  /\ \A x \in Nat : log2[x] \in Nat /\ (x > 0 => log2[x] = 1 + log2[x \div 2])
<1> DEFINE rank == [x \in Nat |-> x]
           Turn(f, x) == IF x = 0 THEN 0 ELSE 1 + f[x \div 2]
           G == [a \in [Nat -> Nat] \X Nat |-> Turn(a[1], a[2])]
<1>1. \A x \in Nat : x \div 2 \in Nat /\ (x > 0 => x \div 2 < x)
  OBVIOUS
<1>2. \A f \in [Nat -> Nat] : \A x \in Nat : Turn(f, x) \in Nat /\ G[<<f, x>>] = Turn(f, x)
  BY <1>1
<1>3. Recursive(Nat, rank, Nat, G)
  <2>1. G \in [[Nat -> Nat] \X Nat -> Nat]
    BY <1>2
  <2>2. ASSUME NEW f \in [Nat -> Nat], NEW g \in [Nat -> Nat], NEW x \in Nat, \A y \in Nat : rank[y] < rank[x] => f[y] = g[y]
        PROVE  G[<<f, x>>] = G[<<g, x>>]
    <3>1. x = 0 \/ f[x \div 2] = g[x \div 2]
      BY <1>1, <2>2
    <3>2. Turn(f, x) = Turn(g, x)
      BY <3>1
    <3> HIDE DEF G, Turn
    <3> QED
      BY <1>2, <3>2
  <2> HIDE DEF G
  <2> QED
    BY <2>1, <2>2 DEF Recursive
<1>4. PICK f \in [Nat -> Nat] : \A x \in Nat : f[x] = G[<<f, x>>]
  <2> HIDE DEF G, rank
  <2> QED
    BY <1>3, RecursiveFunction
<1>5. f = [x \in Nat |-> IF x = 0 THEN 0 ELSE 1 + f[x \div 2]]
  <2>1. \A x \in Nat : f[x] = IF x = 0 THEN 0 ELSE 1 + f[x \div 2]
    BY <1>2, <1>4
  <2>2. f = [x \in Nat |-> f[x]]
    OBVIOUS
  <2> QED
    BY <2>1, <2>2
<1>6. log2 = [x \in Nat |-> IF x = 0 THEN 0 ELSE 1 + log2[x \div 2]]
  BY <1>5 DEF log2
<1>7. \A x \in Nat : log2[x] = IF x = 0 THEN 0 ELSE 1 + log2[x \div 2]
  BY <1>6
<1>8. \A x \in Nat : log2[x] \in Nat
  <2> DEFINE Bad == {x \in Nat : log2[x] \notin Nat}
  <2> SUFFICES ASSUME Bad # {} PROVE FALSE
    OBVIOUS
  <2>1. PICK x \in Bad : \A y \in Bad : x <= y
    BY LeastOfNats
  <2>2. x \in Nat /\ log2[x] \notin Nat
    OBVIOUS
  <2>3. x # 0 /\ x \div 2 \in Nat /\ x \div 2 < x
    BY <1>1, <1>7, <2>2
  <2>4. log2[x \div 2] \in Nat
    BY <2>1, <2>2, <2>3
  <2> QED
    BY <1>7, <2>2, <2>3, <2>4
<1> QED
  BY <1>7, <1>8

\* A part of a table: where it begins and how long it is.
Part == [first : Nat, count : Nat]

\* What a halving makes of it.
Halved(was, below) ==
  LET step == was.count \div 2
  IN  IF was.first + step \in below THEN [first |-> was.first + step, count |-> was.count - step]
      ELSE [first |-> was.first, count |-> step]

\* The part that is left after the search's halvings, of which search[i] is the part after i of them.
LEMMA SearchIs ==
  ASSUME NEW n \in Nat, NEW below, NEW equal
  PROVE  \E search \in [Nat -> Part] :
           /\ search[0] = [first |-> 0, count |-> n]
           /\ \A i \in Nat : search[i + 1] = Halved(search[i], below)
           /\ LowerBound(n, below, equal) =
                LET first == search[log2[n]].first + search[log2[n]].count
                IN  IF first < n /\ first \in equal THEN first ELSE n
<1> DEFINE rank == [i \in Nat |-> i]
           Turn(f, i) == IF i = 0 THEN [first |-> 0, count |-> n] ELSE Halved(f[i - 1], below)
           G == [a \in [Nat -> Part] \X Nat |-> Turn(a[1], a[2])]
           search[i \in Nat] ==
             IF i = 0 THEN [first |-> 0, count |-> n]
             ELSE LET was  == search[i - 1]
                      step == was.count \div 2
                  IN  IF was.first + step \in below
                      THEN [first |-> was.first + step, count |-> was.count - step]
                      ELSE [first |-> was.first, count |-> step]
<1>1. \A was \in Part : Halved(was, below) \in Part
  <2> TAKE was \in Part
  <2>1. was.count \div 2 \in Nat /\ was.count - (was.count \div 2) \in Nat /\ was.first \in Nat
    BY DEF Part
  <2> QED
    BY <2>1 DEF Halved, Part
<1>2. \A f \in [Nat -> Part] : \A i \in Nat : Turn(f, i) \in Part /\ G[<<f, i>>] = Turn(f, i)
  <2>1. [first |-> 0, count |-> n] \in Part
    BY DEF Part
  <2>2. \A i \in Nat : i # 0 => i - 1 \in Nat
    OBVIOUS
  <2> QED
    BY <1>1, <2>1, <2>2
<1>3. Recursive(Nat, rank, Part, G)
  <2>1. G \in [[Nat -> Part] \X Nat -> Part]
    BY <1>2
  <2>2. ASSUME NEW f \in [Nat -> Part], NEW g \in [Nat -> Part], NEW i \in Nat, \A y \in Nat : rank[y] < rank[i] => f[y] = g[y]
        PROVE  G[<<f, i>>] = G[<<g, i>>]
    <3>1. i = 0 \/ f[i - 1] = g[i - 1]
      BY <2>2
    <3>2. Turn(f, i) = Turn(g, i)
      BY <3>1
    <3> HIDE DEF G, Turn
    <3> QED
      BY <1>2, <3>2
  <2>3. Part # {}
    <3>1. [first |-> 0, count |-> n] \in Part
      BY DEF Part
    <3> QED
      BY <3>1
  <2> HIDE DEF G
  <2> QED
    BY <2>1, <2>2, <2>3 DEF Recursive
<1>4. PICK f \in [Nat -> Part] : \A i \in Nat : f[i] = G[<<f, i>>]
  <2> HIDE DEF G, rank
  <2> QED
    BY <1>3, RecursiveFunction
<1>5. f = [i \in Nat |-> Turn(f, i)]
  <2>1. \A i \in Nat : f[i] = Turn(f, i)
    BY <1>2, <1>4
  <2>2. f = [i \in Nat |-> f[i]]
    OBVIOUS
  <2> HIDE DEF Turn
  <2> QED
    BY <2>1, <2>2
<1>6. search = [i \in Nat |-> Turn(search, i)]
  <2>1. \E s : s = [i \in Nat |-> Turn(s, i)]
    BY <1>5
  <2> QED
    BY <2>1 DEF Halved
<1>7. LowerBound(n, below, equal) =
        LET first == search[log2[n]].first + search[log2[n]].count
        IN  IF first < n /\ first \in equal THEN first ELSE n
  BY DEF LowerBound
<1> HIDE DEF search
<1>8. \A i \in Nat : search[i] = Turn(search, i)
  <2> HIDE DEF Turn
  <2> QED
    BY <1>6
<1>9. search[0] = [first |-> 0, count |-> n] /\ \A i \in Nat : search[i + 1] = Halved(search[i], below)
  BY <1>8
<1>10. search \in [Nat -> Part]
  <2> DEFINE Bad == {i \in Nat : search[i] \notin Part}
  <2>1. Bad = {}
    <3> SUFFICES ASSUME Bad # {} PROVE FALSE
      OBVIOUS
    <3>1. PICK i \in Bad : \A j \in Bad : i <= j
      BY LeastOfNats
    <3>2. i \in Nat /\ search[i] \notin Part
      OBVIOUS
    <3>3. i # 0
      <4>1. [first |-> 0, count |-> n] \in Part
        BY DEF Part
      <4> QED
        BY <1>9, <3>2, <4>1
    <3>4. i - 1 \in Nat /\ ~(i <= i - 1) /\ search[i] = Halved(search[i - 1], below)
      BY <1>8, <3>2, <3>3
    <3>5. search[i - 1] \in Part
      BY <3>1, <3>4
    <3> QED
      BY <1>1, <3>2, <3>4, <3>5
  <2>2. \A i \in Nat : search[i] \in Part
    BY <2>1
  <2> HIDE DEF Turn
  <2>3. search = [i \in Nat |-> search[i]]
    BY <1>6, <1>8
  <2> QED
    BY <2>2, <2>3
<1> QED
  BY <1>7, <1>9, <1>10

\* The part still holds the boundary p between what is below and what is not, and it can be halved down to nothing.
Narrowed(part, m, p) ==
  /\ part.first <= p /\ p <= part.first + part.count
  /\ part.count <= m \/ (part.count = m + 1 /\ part.first < p)

\* So it is after another halving.
LEMMA HalvedNarrowed ==
  ASSUME NEW part \in Part, NEW m \in Nat, NEW p \in Nat, Narrowed(part, m, p), m > 0,
         NEW below, \A i \in Nat : i \in below <=> i < p
  PROVE  Narrowed(Halved(part, below), m \div 2, p)
<1> DEFINE a == part.first
           c == part.count
           h == c \div 2
           k == m \div 2
<1>1. a \in Nat /\ c \in Nat /\ a <= p /\ p <= a + c /\ (c <= m \/ (c = m + 1 /\ a < p))
  BY DEF Part, Narrowed
<1>2. h \in Nat /\ k \in Nat /\ 2 * h <= c /\ c <= 2 * h + 1 /\ 2 * k <= m /\ m <= 2 * k + 1
  BY <1>1
<1>3. a + h \in below <=> a + h < p
  <2>1. a + h \in Nat
    BY <1>1, <1>2
  <2> QED
    BY <2>1
<1>4. CASE a + h \in below
  <2>1. Halved(part, below) = [first |-> a + h, count |-> c - h]
    BY <1>4 DEF Halved
  <2> HIDE DEF a, c, h, k
  <2>2. a + h < p /\ p <= (a + h) + (c - h) /\ (c - h <= k \/ c - h = k + 1)
    BY <1>1, <1>2, <1>3, <1>4
  <2>3. a + h <= p
    BY <1>1, <1>2, <2>2
  <2> QED
    BY <2>1, <2>2, <2>3 DEF Narrowed, k
<1>5. CASE a + h \notin below
  <2>1. Halved(part, below) = [first |-> a, count |-> h]
    BY <1>5 DEF Halved
  <2> HIDE DEF a, c, h, k
  <2>2. a <= p /\ p <= a + h /\ (h <= k \/ (h = k + 1 /\ a < p))
    BY <1>1, <1>2, <1>3, <1>5
  <2> QED
    BY <2>1, <2>2 DEF Narrowed, k
<1> QED
  BY <1>4, <1>5

\* For a table of any length, the search ends at the boundary, and finds what is there if it is equal.
LEMMA LowerBoundIs ==
  ASSUME NEW n \in Nat, NEW p \in 0 .. n, NEW below, \A i \in Nat : i \in below <=> i < p, NEW equal
  PROVE  LowerBound(n, below, equal) = IF p < n /\ p \in equal THEN p ELSE n
<1>1. PICK search \in [Nat -> Part] :
         /\ search[0] = [first |-> 0, count |-> n]
         /\ \A i \in Nat : search[i + 1] = Halved(search[i], below)
         /\ LowerBound(n, below, equal) =
              LET first == search[log2[n]].first + search[log2[n]].count
              IN  IF first < n /\ first \in equal THEN first ELSE n
  BY SearchIs
<1> DEFINE Good(i, m) == m \in Nat /\ log2[n] = i + log2[m] /\ Narrowed(search[i], m, p)
           Bad == {i \in Nat : i <= log2[n] /\ ~\E m : Good(i, m)}
<1>2. p \in Nat /\ p <= n /\ log2[n] \in Nat
  BY Log2Is
<1>3. Bad = {}
  <2> SUFFICES ASSUME Bad # {} PROVE FALSE
    OBVIOUS
  <2>1. PICK i \in Bad : \A j \in Bad : i <= j
    BY LeastOfNats
  <2>2. i \in Nat /\ i <= log2[n] /\ ~\E m : Good(i, m)
    OBVIOUS
  <2>3. CASE i = 0
    <3>1. Narrowed(search[0], n, p)
      BY <1>1, <1>2 DEF Narrowed
    <3>2. Good(0, n)
      BY <1>2, <3>1
    <3> QED
      BY <2>2, <2>3, <3>2
  <2>4. CASE i # 0
    <3>1. i - 1 \in Nat /\ i - 1 <= log2[n] /\ ~(i <= i - 1) /\ (i - 1) + 1 = i
      BY <1>2, <2>2, <2>4
    <3>2. PICK m : Good(i - 1, m)
      BY <2>1, <3>1
    <3>3. m > 0
      <4>1. CASE m = 0
        <5>1. log2[n] = i - 1
          BY <3>1, <3>2, <4>1, Log2Is
        <5> QED
          BY <2>2, <3>1, <5>1
      <4> QED
        BY <3>2, <4>1
    <3>4. m \div 2 \in Nat /\ log2[m] = 1 + log2[m \div 2] /\ log2[m \div 2] \in Nat
      <4>1. m \in Nat /\ m \div 2 \in Nat
        BY <3>2
      <4> QED
        BY <3>3, <4>1, Log2Is
    <3>5. search[i] = Halved(search[i - 1], below) /\ search[i - 1] \in Part
      BY <1>1, <3>1
    <3>6. Narrowed(search[i], m \div 2, p)
      BY <1>2, <3>2, <3>3, <3>5, HalvedNarrowed
    <3>7. log2[n] = i + log2[m \div 2]
      BY <1>2, <2>2, <3>1, <3>2, <3>4
    <3>8. Good(i, m \div 2)
      BY <3>4, <3>6, <3>7
    <3> QED
      BY <2>2, <3>8
  <2> QED
    BY <2>3, <2>4
<1>4. PICK m : Good(log2[n], m)
  BY <1>2, <1>3
<1>5. m = 0
  <2>1. log2[m] \in Nat /\ log2[m] = 0
    BY <1>2, <1>4, Log2Is
  <2>2. m > 0 => log2[m] = 1 + log2[m \div 2] /\ log2[m \div 2] \in Nat
    <3>1. m \in Nat /\ m \div 2 \in Nat
      BY <1>4
    <3> QED
      BY <3>1, Log2Is
  <2> QED
    BY <1>4, <2>1, <2>2
<1> DEFINE part == search[log2[n]]
<1>6. part \in Part /\ Narrowed(part, 0, p)
  BY <1>1, <1>2, <1>4, <1>5
<1> HIDE DEF part
<1>7. part.first + part.count = p
  BY <1>2, <1>6 DEF Part, Narrowed
<1> QED
  BY <1>1, <1>7 DEF part

-----------------------------------------------------------------------------
(* What std::sort leaves. *)

\* The sequence has every element of R once, and none before one that precedes it.
Sorts(s, R, before) ==
  /\ s \in Seq(R) /\ Len(s) = Cardinality(R)
  /\ \A x \in R : \E i \in 1 .. Len(s) : s[i] = x
  /\ \A i, j \in 1 .. Len(s) : i < j => s[i] # s[j] /\ <<s[j], s[i]>> \notin before

\* One that nothing precedes, and then the others.
LEMMA SortsCons ==
  ASSUME NEW R, IsFiniteSet(R), NEW before, NEW x \in R, \A k \in R : <<k, x>> \notin before,
         NEW rest, Sorts(rest, R \ {x}, before)
  PROVE  Sorts(<<x>> \o rest, R, before)
<1> DEFINE s == <<x>> \o rest
           n == Len(rest)
<1>1. rest \in Seq(R \ {x}) /\ n \in Nat /\ \A i \in 1 .. n : rest[i] \in R \ {x}
  <2>1. rest \in Seq(R \ {x})
    BY DEF Sorts
  <2> QED
    BY <2>1
<1>2. rest \in Seq(R) /\ <<x>> \in Seq(R) /\ Len(<<x>>) = 1
  BY <1>1
<1>3. s \in Seq(R) /\ Len(s) = n + 1 /\ s[1] = x /\ \A i \in 1 .. n : s[i + 1] = rest[i]
  BY <1>2
<1>4. n + 1 = Cardinality(R)
  <2>1. Cardinality(R \ {x}) = Cardinality(R) - 1 /\ Cardinality(R) \in Nat
    BY FS_RemoveElement, FS_CardinalityType
  <2> QED
    BY <1>1, <2>1 DEF Sorts
<1> HIDE DEF s
<1>5. ASSUME NEW y \in R
      PROVE  \E i \in 1 .. Len(s) : s[i] = y
  <2>1. CASE y = x
    BY <1>1, <1>3, <2>1
  <2>2. CASE y # x
    <3>1. PICK i \in 1 .. n : rest[i] = y
      BY <2>2 DEF Sorts
    <3>2. i + 1 \in 1 .. Len(s) /\ s[i + 1] = y
      BY <1>1, <1>3, <3>1
    <3> QED
      BY <3>2
  <2> QED
    BY <2>1, <2>2
<1>6. ASSUME NEW i \in 1 .. Len(s), NEW j \in 1 .. Len(s), i < j
      PROVE  s[i] # s[j] /\ <<s[j], s[i]>> \notin before
  <2>1. j - 1 \in 1 .. n /\ s[j] = rest[j - 1] /\ rest[j - 1] \in R \ {x}
    <3>1. j - 1 \in 1 .. n /\ (j - 1) + 1 = j
      BY <1>1, <1>3, <1>6
    <3> QED
      BY <1>1, <1>3, <3>1
  <2>2. CASE i = 1
    BY <1>3, <2>1, <2>2
  <2>3. CASE i # 1
    <3>1. i - 1 \in 1 .. n /\ (i - 1) + 1 = i /\ i - 1 < j - 1
      BY <1>1, <1>3, <1>6, <2>3
    <3>2. s[i] = rest[i - 1]
      BY <1>3, <3>1
    <3>3. rest[i - 1] # rest[j - 1] /\ <<rest[j - 1], rest[i - 1]>> \notin before
      BY <2>1, <3>1 DEF Sorts
    <3> QED
      BY <2>1, <3>2, <3>3
  <2> QED
    BY <2>2, <2>3
<1>7. Sorts(s, R, before)
  BY <1>3, <1>4, <1>5, <1>6 DEF Sorts
<1> QED
  BY <1>7 DEF s

\* Sortings are sorted.
LEMMA SortingsSort ==
  ASSUME NEW S, IsFiniteSet(S), NEW before, NEW s \in Sortings(S, before)
  PROVE  Sorts(s, S, before)
<1> DEFINE V == SUBSET Seq(S)
           D == SUBSET S
           rank == [R \in D |-> Cardinality(R)]
           Mins(R) == {j \in R : \A k \in R : <<k, j>> \notin before}
           Puts(i, T) == {<<i>> \o rest : rest \in T}
           Turn(f, R) == IF R = {} THEN {<<>>} ELSE UNION {Puts(i, f[R \ {i}]) : i \in Mins(R)}
           G == [a \in [D -> V] \X D |-> Turn(a[1], a[2])]
           sorted[R \in SUBSET S] ==
             IF R = {} THEN {<<>>}
             ELSE UNION {{<<i>> \o rest : rest \in sorted[R \ {i}]} :
                             i \in {j \in R : \A k \in R : <<k, j>> \notin before}}
<1>1. \A R \in D : /\ IsFiniteSet(R) /\ Cardinality(R) \in Nat
                   /\ \A i \in R : R \ {i} \in D /\ Cardinality(R \ {i}) < Cardinality(R)
  <2> TAKE R \in D
  <2>1. IsFiniteSet(R) /\ Cardinality(R) \in Nat
    BY FS_Subset, FS_CardinalityType
  <2>2. \A i \in R : Cardinality(R \ {i}) = Cardinality(R) - 1
    BY <2>1, FS_RemoveElement
  <2> QED
    BY <2>1, <2>2
<1>2. \A i \in S, T \in V : Puts(i, T) \in V
  <2> TAKE i \in S, T \in V
  <2>1. <<i>> \in Seq(S)
    OBVIOUS
  <2>2. \A rest \in T : <<i>> \o rest \in Seq(S)
    BY <2>1
  <2> QED
    BY <2>2
<1> HIDE DEF Puts
<1>3. \A f \in [D -> V] : \A R \in D : Turn(f, R) \in V
  <2> TAKE f \in [D -> V]
  <2> TAKE R \in D
  <2>1. {<<>>} \in V
    OBVIOUS
  <2>2. \A i \in Mins(R) : i \in S /\ f[R \ {i}] \in V
    BY <1>1
  <2>3. \A i \in Mins(R) : Puts(i, f[R \ {i}]) \in V
    BY <1>2, <2>2
  <2> HIDE DEF Mins, V
  <2>4. UNION {Puts(i, f[R \ {i}]) : i \in Mins(R)} \in V
    BY <2>3 DEF V
  <2> QED
    BY <2>1, <2>4
<1>4. \A f, g \in [D -> V] : \A R \in D : (\A Q \in D : Cardinality(Q) < Cardinality(R) => f[Q] = g[Q]) => Turn(f, R) = Turn(g, R)
  <2> SUFFICES ASSUME NEW f \in [D -> V], NEW g \in [D -> V], NEW R \in D,
                      \A Q \in D : Cardinality(Q) < Cardinality(R) => f[Q] = g[Q]
               PROVE  Turn(f, R) = Turn(g, R)
    OBVIOUS
  <2>1. \A i \in Mins(R) : f[R \ {i}] = g[R \ {i}]
    BY <1>1
  <2> HIDE DEF Mins, V, D
  <2> QED
    BY <2>1
<1> HIDE DEF Turn, V
<1>5. \A f \in [D -> V] : \A R \in D : G[<<f, R>>] = Turn(f, R)
  OBVIOUS
<1>6. G \in [[D -> V] \X D -> V]
  BY <1>3
<1> HIDE DEF G
<1>7. Recursive(D, rank, V, G)
  <2>1. rank \in [D -> Nat]
    BY <1>1
  <2>2. V # {}
    BY DEF V
  <2>3. \A f, g \in [D -> V] : \A R \in D :
          (\A Q \in D : rank[Q] < rank[R] => f[Q] = g[Q]) => G[<<f, R>>] = G[<<g, R>>]
    <3>1. \A R \in D : rank[R] = Cardinality(R)
      OBVIOUS
    <3> HIDE DEF rank, D
    <3> QED
      BY <1>4, <1>5, <3>1
  <2> HIDE DEF rank, D
  <2> QED
    BY <1>6, <2>1, <2>2, <2>3 DEF Recursive
<1>8. \E f : f = [R \in D |-> Turn(f, R)]
  <2>1. PICK f \in [D -> V] : \A R \in D : f[R] = G[<<f, R>>]
    <3> HIDE DEF rank, D
    <3> QED
      BY <1>7, RecursiveFunction
  <2>2. \A R \in D : f[R] = Turn(f, R)
    BY <1>5, <2>1
  <2>3. f = [R \in D |-> f[R]]
    OBVIOUS
  <2>4. f = [R \in D |-> Turn(f, R)]
    BY <2>2, <2>3
  <2> QED
    BY <2>4
<1>9. sorted = [R \in D |-> Turn(sorted, R)]
  BY <1>8 DEF Turn, Puts
<1>10. Sortings(S, before) = sorted[S]
  BY DEF Sortings
<1> HIDE DEF sorted
<1>11. \A R \in D : sorted[R] = Turn(sorted, R)
  BY <1>9
<1> DEFINE Bad == {k \in Nat : \E R \in D : Cardinality(R) = k /\ \E q \in sorted[R] : ~Sorts(q, R, before)}
<1>12. Bad = {}
  <2> SUFFICES ASSUME Bad # {} PROVE FALSE
    OBVIOUS
  <2>1. PICK k \in Bad : \A m \in Bad : k <= m
    BY LeastOfNats
  <2>2. PICK R \in D : Cardinality(R) = k /\ \E q \in sorted[R] : ~Sorts(q, R, before)
    OBVIOUS
  <2>3. PICK q \in sorted[R] : ~Sorts(q, R, before)
    BY <2>2
  <2>4. q \in Turn(sorted, R)
    BY <1>11, <2>3
  <2>5. CASE R = {}
    <3>1. q = <<>>
      BY <2>4, <2>5 DEF Turn
    <3>2. Len(<<>>) = 0 /\ <<>> \in Seq(R) /\ Cardinality(R) = 0
      BY <2>5, FS_EmptySet
    <3> QED
      BY <2>3, <2>5, <3>1, <3>2 DEF Sorts
  <2>6. CASE R # {}
    <3>1. PICK i \in Mins(R) : q \in Puts(i, sorted[R \ {i}])
      BY <2>4, <2>6 DEF Turn
    <3>2. PICK rest \in sorted[R \ {i}] : q = <<i>> \o rest
      BY <3>1 DEF Puts
    <3>3. i \in R /\ (\A m \in R : <<m, i>> \notin before) /\ R \ {i} \in D /\ Cardinality(R \ {i}) < k
      BY <1>1, <2>2
    <3>4. Cardinality(R \ {i}) \in Nat /\ k \in Nat /\ ~(k <= Cardinality(R \ {i}))
      BY <1>1, <3>3
    <3>5. Sorts(rest, R \ {i}, before)
      BY <2>1, <3>2, <3>3, <3>4
    <3>6. IsFiniteSet(R)
      BY <1>1
    <3> QED
      BY <2>3, <3>2, <3>3, <3>5, <3>6, SortsCons
  <2> QED
    BY <2>5, <2>6
<1> QED
  BY <1>1, <1>10, <1>12

-----------------------------------------------------------------------------
(* What a table finds. *)

\* Items of any values, with integers for keys.
Keyed(items) == (\E V : items \in Seq(V)) /\ \A i \in 1 .. Len(items) : items[i].key \in Int

\* No item before this one has its key.
IsFirst(items, p) == p \in 1 .. Len(items) /\ \A j \in 1 .. p - 1 : items[j].key # items[p].key

\* A table over items sorted by key finds the first item of a key, as a sequence or by the search.
LEMMA FindsFirst ==
  ASSUME NEW items, Keyed(items), \A i, j \in 1 .. Len(items) : i < j => items[i].key <= items[j].key,
         NEW t, t.items = items, t.sequence <=> IsSequence(items), NEW p, IsFirst(items, p)
  PROVE  FindKey(t, items[p].key) = p - 1
<1> DEFINE n == Len(items)
           k == items[p].key
           below == {i \in 0 .. n - 1 : items[i + 1].key < k}
           equal == {i \in 0 .. n - 1 : items[i + 1].key = k}
<1>1. n \in Nat /\ DOMAIN items = 1 .. n /\ \A i \in 1 .. n : items[i].key \in Int
  <2>1. PICK V : items \in Seq(V)
    BY DEF Keyed
  <2> QED
    BY <2>1 DEF Keyed
<1>2. p \in 1 .. n /\ k \in Int /\ \A j \in 1 .. p - 1 : items[j].key # k
  BY <1>1 DEF IsFirst
<1>3. FindKey(t, k) =
        IF t.sequence THEN IF k >= items[0 + 1].key /\ k <= items[n - 1 + 1].key THEN k - items[0 + 1].key ELSE n
        ELSE LowerBound(n, below, equal)
  BY DEF FindKey
<1>4. CASE t.sequence
  <2>1. \A i \in 1 .. n : items[i].key = items[1].key + i - 1
    BY <1>1, <1>4 DEF IsSequence
  <2>2. k = items[1].key + p - 1 /\ items[n].key = items[1].key + n - 1 /\ items[1].key \in Int
    BY <1>1, <1>2, <2>1
  <2>3. items[0 + 1] = items[1] /\ items[n - 1 + 1] = items[n]
    BY <1>1
  <2> HIDE DEF k, n
  <2>4. k >= items[1].key /\ k <= items[n].key /\ k - items[1].key = p - 1
    BY <1>1, <1>2, <2>2
  <2> QED
    BY <1>3, <1>4, <2>3, <2>4 DEF k
<1>5. CASE ~t.sequence
  <2>1. \A i \in Nat : i \in below <=> i < p - 1
    <3> TAKE i \in Nat
    <3>1. ASSUME i < p - 1
          PROVE  i \in below
      <4>1. i + 1 \in 1 .. p - 1 /\ i + 1 \in 1 .. n /\ i + 1 < p
        BY <1>1, <1>2, <3>1
      <4>2. items[i + 1].key <= k /\ items[i + 1].key # k /\ items[i + 1].key \in Int
        BY <1>1, <1>2, <4>1
      <4> QED
        BY <1>1, <1>2, <4>1, <4>2
    <3>2. ASSUME i \in below
          PROVE  i < p - 1
      <4>1. i + 1 \in 1 .. n /\ items[i + 1].key < k /\ items[i + 1].key \in Int
        BY <1>1, <3>2
      <4>2. ~(p < i + 1) /\ p # i + 1
        BY <1>1, <1>2, <4>1
      <4> QED
        BY <1>2, <4>1, <4>2
    <3> QED
      BY <3>1, <3>2
  <2>2. p - 1 \in 0 .. n /\ p - 1 < n /\ p - 1 \in equal
    <3>1. p - 1 \in 0 .. n - 1 /\ (p - 1) + 1 = p
      BY <1>1, <1>2
    <3> QED
      BY <1>1, <3>1
  <2> HIDE DEF below, equal
  <2>3. LowerBound(n, below, equal) = p - 1
    BY <1>1, <2>1, <2>2, LowerBoundIs
  <2> QED
    BY <1>3, <1>5, <2>3 DEF k
<1> QED
  BY <1>4, <1>5

\* Items in the order that sorts their positions by key are sorted, and each of them is somewhere.
LEMMA InOrderSorted ==
  ASSUME NEW items, Keyed(items), NEW before, NEW order, Sorts(order, DOMAIN items, before),
         \A i, j \in DOMAIN items : items[i].key < items[j].key => <<i, j>> \in before,
         NEW ordered, ordered = InOrder(items, order)
  PROVE  /\ Keyed(ordered) /\ Len(ordered) = Len(items) /\ Len(order) = Len(items)
         /\ \A i \in 1 .. Len(items) : order[i] \in 1 .. Len(items) /\ ordered[i] = items[order[i]]
         /\ \A i, j \in 1 .. Len(items) : i < j => ordered[i].key <= ordered[j].key
<1> DEFINE n == Len(items)
<1>1. PICK V : items \in Seq(V)
  BY DEF Keyed
<1>2. n \in Nat /\ DOMAIN items = 1 .. n /\ \A i \in 1 .. n : items[i].key \in Int
  BY <1>1 DEF Keyed
<1>3. order \in Seq(1 .. n) /\ Len(order) = Cardinality(1 .. n)
  BY <1>2 DEF Sorts
<1>4. Cardinality(1 .. n) = n
  <2>1. 1 \in Int /\ n \in Int
    BY <1>2
  <2>2. Cardinality(1 .. n) = IF 1 > n THEN 0 ELSE n - 1 + 1
    BY <2>1, FS_Interval
  <2> QED
    BY <1>2, <2>2
<1>5. \A i \in 1 .. n : order[i] \in 1 .. n
  BY <1>3, <1>4
<1>6. ordered = [i \in 1 .. n |-> items[order[i]]]
  BY <1>2 DEF InOrder
<1>7. ordered \in Seq(V)
  <2>1. \A i \in 1 .. n : items[order[i]] \in V
    BY <1>1, <1>2, <1>5
  <2> QED
    BY <1>2, <1>6, <2>1
<1>8. Len(ordered) = n /\ \A i \in 1 .. n : ordered[i] = items[order[i]]
  BY <1>2, <1>6
<1>9. Keyed(ordered)
  BY <1>2, <1>5, <1>7, <1>8 DEF Keyed
<1>10. ASSUME NEW i \in 1 .. n, NEW j \in 1 .. n, i < j
       PROVE  ordered[i].key <= ordered[j].key
  <2>1. <<order[j], order[i]>> \notin before
    BY <1>3, <1>4, <1>10 DEF Sorts
  <2>2. ~(items[order[j]].key < items[order[i]].key)
    BY <1>2, <1>5, <2>1
  <2> QED
    BY <1>2, <1>5, <1>8, <2>2
<1> QED
  BY <1>3, <1>4, <1>5, <1>8, <1>9, <1>10

\* A table constructed from items finds the first item of every key.
LEMMA ConstructedFinds ==
  ASSUME NEW items, Keyed(items), NEW t \in Constructed(items), NEW i, IsFirst(items, i), NEW default
  PROVE  GetValue(t, items[i].key, default) = items[i].value
<1> DEFINE Before(a, b) == items[a].key < items[b].key \/ (items[a].key = items[b].key /\ a < b)
           S == DOMAIN items
           before == {p \in S \X S : Before(p[1], p[2])}
           n == Len(items)
<1>1. PICK order \in Sortings(S, before) : t \in Indexed(InOrder(items, order))
  BY DEF Constructed
<1> DEFINE ordered == InOrder(items, order)
           k == items[i].key
<1>2. n \in Nat /\ S = 1 .. n /\ \A j \in 1 .. n : items[j].key \in Int
  <2>1. PICK V : items \in Seq(V)
    BY DEF Keyed
  <2> QED
    BY <2>1 DEF Keyed
<1>3. \A a, b \in S : <<a, b>> \in before <=> Before(a, b)
  OBVIOUS
<1> HIDE DEF before
<1>4. Sorts(order, S, before)
  <2>1. IsFiniteSet(S)
    <3>1. 1 \in Int /\ n \in Int
      BY <1>2
    <3> QED
      BY <1>2, <3>1, FS_Interval
  <2> QED
    BY <1>1, <2>1, SortingsSort
<1>5. /\ Keyed(ordered) /\ Len(ordered) = n /\ Len(order) = n
      /\ \A j \in 1 .. n : order[j] \in 1 .. n /\ ordered[j] = items[order[j]]
      /\ \A a, b \in 1 .. n : a < b => ordered[a].key <= ordered[b].key
  <2>1. \A a, b \in S : items[a].key < items[b].key => <<a, b>> \in before
    BY <1>3
  <2> HIDE DEF ordered, S
  <2>2. ordered = InOrder(items, order)
    BY DEF ordered
  <2> QED
    BY <1>4, <2>1, <2>2, InOrderSorted DEF S
<1>6. t.items = ordered /\ (t.sequence <=> IsSequence(ordered))
  <2>1. PICK pos : t = [items |-> ordered, pos |-> pos, sequence |-> IsSequence(ordered)]
    BY <1>1 DEF Indexed
  <2> QED
    BY <2>1
<1> HIDE DEF ordered
<1>7. i \in 1 .. n /\ \A j \in 1 .. i - 1 : items[j].key # k
  BY DEF IsFirst
<1>8. PICK p \in 1 .. n : order[p] = i
  <2>1. i \in S /\ Len(order) = n
    BY <1>2, <1>5, <1>7
  <2> QED
    BY <1>4, <2>1 DEF Sorts
<1>9. ASSUME NEW q \in 1 .. p - 1
      PROVE  ordered[q].key # k
  <2> DEFINE j == order[q]
  <2>1. q \in 1 .. n /\ q < p
    BY <1>2, <1>8
  <2>2. j \in 1 .. n /\ ordered[q] = items[j]
    BY <1>5, <2>1
  <2>3. j # i /\ <<i, j>> \notin before
    BY <1>4, <1>5, <1>8, <2>1 DEF Sorts
  <2>4. ~Before(i, j)
    <3>1. i \in S /\ j \in S
      BY <1>2, <1>7, <2>2
    <3> HIDE DEF Before, S, j
    <3> QED
      BY <1>3, <2>3, <3>1
  <2>5. ~(items[j].key = k /\ i < j)
    BY <2>4
  <2>6. j < i => items[j].key # k
    BY <1>2, <1>7, <2>2
  <2>7. items[j].key # k
    BY <1>2, <1>7, <2>2, <2>3, <2>5, <2>6
  <2> QED
    BY <2>2, <2>7
<1>10. ordered[p] = items[i] /\ ordered[p].key = k
  BY <1>5, <1>8
<1>11. IsFirst(ordered, p)
  BY <1>5, <1>8, <1>9, <1>10 DEF IsFirst
<1>12. FindKey(t, k) = p - 1
  <2>1. \A a, b \in 1 .. Len(ordered) : a < b => ordered[a].key <= ordered[b].key
    BY <1>5
  <2>2. FindKey(t, ordered[p].key) = p - 1
    BY <1>5, <1>6, <1>11, <2>1, FindsFirst
  <2> QED
    BY <1>10, <2>2
<1>13. p - 1 # Len(t.items) /\ p - 1 + 1 = p
  BY <1>2, <1>5, <1>6, <1>8
<1> HIDE DEF k
<1>14. GetValue(t, k, default) = t.items[p].value
  BY <1>12, <1>13 DEF GetValue
<1> QED
  BY <1>6, <1>10, <1>14 DEF k

-----------------------------------------------------------------------------
(* What the parser calls fn with. *)

\* One more call.
LEMMA KeyedAppend ==
  ASSUME NEW items, Keyed(items), NEW key \in Int, NEW value, NEW more, more = Append(items, [key |-> key, value |-> value])
  PROVE  Keyed(more)
<1> DEFINE e == [key |-> key, value |-> value]
<1>1. PICK V : items \in Seq(V)
  BY DEF Keyed
<1>2. e.key = key
  OBVIOUS
<1> HIDE DEF e
<1>3. more = Append(items, e)
  BY DEF e
<1>4. items \in Seq(V \cup {e})
  BY <1>1
<1>5. more \in Seq(V \cup {e})
  BY <1>3, <1>4
<1>6. Len(more) = Len(items) + 1 /\ Len(items) \in Nat /\ more[Len(items) + 1] = e
      /\ \A i \in 1 .. Len(items) : more[i] = items[i]
  BY <1>3, <1>4
<1>7. \A i \in 1 .. Len(more) : more[i].key \in Int
  <2> TAKE i \in 1 .. Len(more)
  <2>1. CASE i = Len(items) + 1
    BY <1>2, <1>6, <2>1
  <2>2. CASE i # Len(items) + 1
    <3>1. i \in 1 .. Len(items)
      BY <1>6, <2>2
    <3> QED
      BY <1>6, <3>1 DEF Keyed
  <2> QED
    BY <2>1, <2>2
<1> QED
  BY <1>5, <1>7 DEF Keyed

\* A digit has a value.
LEMMA DigitValues ==
  ASSUME NEW base \in {8, 10, 16}, NEW c \in DOMAIN DigitsOf(base)
  PROVE  DigitsOf(base)[c] \in Nat
<1> DEFINE CharsOf(i) == {Small[i + 1], Big[i + 1]}
           Chosen == CHOOSE i \in 0 .. base - 1 : c \in CharsOf(i)
<1>1. c \in UNION {CharsOf(i) : i \in 0 .. base - 1} /\ DigitsOf(base)[c] = Chosen
  BY DEF DigitsOf
<1>2. \E i \in 0 .. base - 1 : c \in CharsOf(i)
  BY <1>1
<1>3. Chosen \in 0 .. base - 1
  BY <1>2
<1> QED
  BY <1>1, <1>3

\* Keys are integers, and so are the values that become keys.
EnumInv == idx \in Int /\ newidx \in Int /\ Keyed(found)

\* They are at the start.
LEMMA EnumInit ==
  ASSUME Init
  PROVE  EnumInv
<1>1. <<>> \in Seq({}) /\ Len(<<>>) = 0
  OBVIOUS
<1> QED
  BY <1>1 DEF Init, EnumInv, Keyed

\* They are after every step.
LEMMA EnumNext ==
  ASSUME EnumInv, [Next]_vars
  PROVE  EnumInv'
<1>1. idx \in Int /\ newidx \in Int /\ Keyed(found)
  BY DEF EnumInv
<1>2. Enumerator \in Int
  BY <1>1 DEF Enumerator
<1>3. Keyed(FoundNow)
  BY <1>1, <1>2, KeyedAppend DEF FoundNow
<1>4. \A x \in Int : x % Modulus \in Int
  BY DEF Modulus
<1>5. CASE Comma
  <2>1. idx' \in Int
    <3>1. idx' = IF collect = <<>> THEN idx ELSE (Enumerator + 1) % Modulus
      BY <1>5 DEF Comma
    <3>2. (Enumerator + 1) % Modulus \in Int
      BY <1>2, <1>4
    <3> QED
      BY <1>1, <3>1, <3>2
  <2> QED
    BY <1>1, <1>3, <1>5, <2>1 DEF Comma, EnumInv, Keyed
<1>6. CASE End
  BY <1>1, <1>3, <1>6 DEF End, EnumInv, Keyed
<1>7. CASE FirstDigit
  <2>1. newidx' \in Int
    BY <1>7, DigitValues DEF FirstDigit, At, Decimal
  <2> QED
    BY <1>1, <1>7, <2>1 DEF FirstDigit, EnumInv, Keyed
<1>8. ASSUME NEW state, NEW base \in {8, 10, 16}, NextDigit(state, DigitsOf(base), base)
      PROVE  EnumInv'
  <2>1. DigitsOf(base)[Head(text)] \in Int
    BY <1>8, DigitValues DEF NextDigit, At
  <2>2. newidx' \in Int
    <3>1. newidx * base + DigitsOf(base)[Head(text)] \in Int
      BY <1>1, <2>1
    <3> QED
      BY <1>4, <1>8, <3>1 DEF NextDigit
  <2> QED
    BY <1>1, <1>8, <2>2 DEF NextDigit, EnumInv, Keyed
<1>9. CASE Ident \/ Assign \/ HexMark \/ Ignore
  BY <1>1, <1>9 DEF Ident, Assign, HexMark, Ignore, EnumInv, Keyed
<1>10. CASE UNCHANGED vars
  BY <1>1, <1>10 DEF vars, EnumInv, Keyed
<1> QED
  BY <1>5, <1>6, <1>7, <1>8, <1>9, <1>10 DEF Next, Octal, Decimal, Hex

\* A table constructed from what the parser has found finds the first item of every key, whatever std::sort does.
THEOREM FirstKeysFound == Spec => []FirstOfEqualKeys
<1>1. ASSUME EnumInv
      PROVE  FirstOfEqualKeys
  <2> SUFFICES ASSUME NEW t \in Constructed(found), NEW i \in DOMAIN found,
                      \A j \in 1 .. i - 1 : found[j].key # found[i].key
               PROVE  GetValue(t, found[i].key, <<>>) = found[i].value
    BY DEF FirstOfEqualKeys
  <2>1. Keyed(found)
    BY <1>1 DEF EnumInv
  <2>2. i \in 1 .. Len(found)
    BY <2>1 DEF Keyed
  <2>3. IsFirst(found, i)
    BY <2>2 DEF IsFirst
  <2> QED
    BY <2>1, <2>3, ConstructedFinds
<1> QED
  BY <1>1, EnumInit, EnumNext, PTL DEF Spec

-----------------------------------------------------------------------------
(* Functions that count up. *)

\* A first value, and how each of the others follows from the one before it.
Counting(n, V, a, H) == n \in Nat /\ a \in V /\ H \in [V \X (1 .. n) -> V]

\* There is a function from 0 to n that counts in this way.
LEMMA CountedFunction ==
  ASSUME NEW n, NEW V, NEW a, NEW H, Counting(n, V, a, H)
  PROVE  \E f \in [0 .. n -> V] : f[0] = a /\ \A i \in 1 .. n : f[i] = H[<<f[i - 1], i>>]
<1> USE DEF Counting
<1> DEFINE D == 0 .. n
           rank == [i \in D |-> i]
           Turn(f, i) == IF i = 0 THEN a ELSE H[<<f[i - 1], i>>]
           G == [p \in [D -> V] \X D |-> Turn(p[1], p[2])]
<1>1. \A i \in D : i # 0 => i \in 1 .. n /\ i - 1 \in D /\ i - 1 < i
  OBVIOUS
<1>2. \A f \in [D -> V] : \A i \in D : Turn(f, i) \in V
  <2> TAKE f \in [D -> V]
  <2> TAKE i \in D
  <2>1. CASE i = 0
    BY <2>1
  <2>2. CASE i # 0
    <3>1. i \in 1 .. n /\ f[i - 1] \in V
      BY <1>1, <2>2
    <3>2. <<f[i - 1], i>> \in V \X (1 .. n)
      BY <3>1
    <3> QED
      BY <2>2, <3>2
  <2> QED
    BY <2>1, <2>2
<1> HIDE DEF Turn
<1>3. \A f \in [D -> V] : \A i \in D : G[<<f, i>>] = Turn(f, i)
  OBVIOUS
<1>4. G \in [[D -> V] \X D -> V]
  BY <1>2
<1> HIDE DEF G
<1>5. Recursive(D, rank, V, G)
  <2>1. ASSUME NEW f \in [D -> V], NEW g \in [D -> V], NEW i \in D, \A y \in D : rank[y] < rank[i] => f[y] = g[y]
        PROVE  G[<<f, i>>] = G[<<g, i>>]
    <3>1. i = 0 \/ f[i - 1] = g[i - 1]
      BY <1>1, <2>1
    <3>2. Turn(f, i) = Turn(g, i)
      BY <3>1 DEF Turn
    <3> QED
      BY <1>3, <3>2
  <2>2. rank \in [D -> Nat]
    OBVIOUS
  <2> HIDE DEF rank, D
  <2> QED
    BY <1>4, <2>1, <2>2 DEF Recursive
<1>6. PICK f \in [D -> V] : \A i \in D : f[i] = G[<<f, i>>]
  <2> HIDE DEF rank, D
  <2> QED
    BY <1>5, RecursiveFunction
<1>7. \A i \in D : f[i] = Turn(f, i)
  BY <1>3, <1>6
<1>8. f[0] = a
  <2>1. 0 \in D
    OBVIOUS
  <2> QED
    BY <1>7, <2>1 DEF Turn
<1>9. \A i \in 1 .. n : f[i] = H[<<f[i - 1], i>>]
  <2>1. \A i \in 1 .. n : i \in D /\ i # 0
    OBVIOUS
  <2> HIDE DEF D
  <2> QED
    BY <1>7, <2>1 DEF Turn
<1> QED
  BY <1>8, <1>9

\* What holds for 0 and for each number after one for which it holds, holds up to n.
LEMMA CountsUp ==
  ASSUME NEW n \in Nat, NEW T, 0 \in T, \A i \in 1 .. n : i - 1 \in T => i \in T
  PROVE  \A i \in 0 .. n : i \in T
<1> DEFINE Bad == {i \in 0 .. n : i \notin T}
<1> SUFFICES ASSUME Bad # {} PROVE FALSE
  OBVIOUS
<1>1. Bad \in SUBSET Nat
  OBVIOUS
<1>2. PICK i \in Bad : \A j \in Bad : i <= j
  BY <1>1, LeastOfNats
<1>3. i \in 0 .. n /\ i \notin T /\ i # 0
  BY <1>2
<1>4. i \in 1 .. n /\ i - 1 \in 0 .. n /\ ~(i <= i - 1)
  BY <1>3
<1>5. i - 1 \in T
  BY <1>2, <1>4
<1> QED
  BY <1>3, <1>4, <1>5

-----------------------------------------------------------------------------
(* Texts. *)

\* Sequences that agree.
LEMMA SameSequences ==
  ASSUME NEW C, NEW x \in Seq(C), NEW y \in Seq(C), Len(x) = Len(y), \A i \in 1 .. Len(x) : x[i] = y[i]
  PROVE  x = y
OBVIOUS

\* Texts put together, and short ones.
Together(C, x, y, z) == x \in Seq(C) /\ y \in Seq(C) /\ z = x \o y

LEMMA Concat ==
  ASSUME NEW C, NEW x, NEW y, NEW z, Together(C, x, y, z)
  PROVE  /\ z \in Seq(C) /\ Len(z) = Len(x) + Len(y)
         /\ \A j \in 1 .. Len(x) : z[j] = x[j]
         /\ \A j \in 1 .. Len(y) : z[Len(x) + j] = y[j]
BY DEF Together

LEMMA Tuples ==
  ASSUME NEW C, NEW a \in C, NEW b \in C
  PROVE  /\ <<a, b>> \in Seq(C) /\ Len(<<a, b>>) = 2 /\ <<a, b>>[1] = a /\ <<a, b>>[2] = b
         /\ <<a, b, a>> \in Seq(C) /\ Len(<<a, b, a>>) = 3
         /\ <<a, b, a>>[1] = a /\ <<a, b, a>>[2] = b /\ <<a, b, a>>[3] = a
<1>1. <<a, b>> \in Seq(C) /\ Len(<<a, b>>) = 2 /\ <<a, b>>[1] = a /\ <<a, b>>[2] = b
  OBVIOUS
<1>2. <<a, b, a>>[1] = a /\ <<a, b, a>>[2] = b /\ <<a, b, a>>[3] = a
  OBVIOUS
<1>3. Len(<<a, b, a>>) = 3
  OBVIOUS
<1>4. <<a, b, a>> \in Seq(C)
  OBVIOUS
<1> QED
  BY <1>1, <1>2, <1>3, <1>4

\* What is left of a text behind the first p characters.
Behind(T, p) == SubSeq(T, p + 1, Len(T))

\* Reading the next character.
LEMMA BehindOne ==
  ASSUME NEW C, NEW T \in Seq(C), NEW p \in 0 .. Len(T)
  PROVE  /\ Behind(T, p) \in Seq(C) /\ (Behind(T, p) = <<>> <=> p = Len(T))
         /\ p < Len(T) => Head(Behind(T, p)) = T[p + 1] /\ Tail(Behind(T, p)) = Behind(T, p + 1)
<1> DEFINE x == Behind(T, p)
           y == Behind(T, p + 1)
<1>1. x \in Seq(C) /\ Len(x) = Len(T) - p /\ \A i \in 1 .. Len(T) - p : x[i] = T[p + i]
  BY DEF Behind
<1>2. CASE p = Len(T)
  <2>1. Len(x) = 0
    BY <1>1, <1>2
  <2> HIDE DEF x
  <2>2. x = <<>>
    BY <1>1, <2>1
  <2> QED
    BY <1>1, <1>2, <2>2 DEF x
<1>3. CASE p < Len(T)
  <2>1. y \in Seq(C) /\ Len(y) = Len(T) - (p + 1) /\ \A i \in 1 .. Len(T) - (p + 1) : y[i] = T[p + 1 + i]
    BY <1>3 DEF Behind
  <2> HIDE DEF x, y
  <2>2. x # <<>> /\ Head(x) = x[1] /\ Tail(x) \in Seq(C) /\ Len(Tail(x)) = Len(x) - 1
        /\ \A i \in 1 .. Len(x) - 1 : Tail(x)[i] = x[i + 1]
    BY <1>1, <1>3
  <2>3. \A i \in 1 .. Len(Tail(x)) : Tail(x)[i] = y[i]
    <3> TAKE i \in 1 .. Len(Tail(x))
    <3>1. i \in 1 .. Len(T) - (p + 1) /\ i + 1 \in 1 .. Len(T) - p /\ p + 1 + i = p + (i + 1)
      BY <1>1, <1>3, <2>2
    <3> QED
      BY <1>1, <2>1, <2>2, <3>1
  <2>4. Len(Tail(x)) = Len(y)
    BY <1>1, <2>1, <2>2
  <2>5. Tail(x) = y
    BY <2>1, <2>2, <2>3, <2>4, SameSequences
  <2>6. Head(x) = T[p + 1]
    BY <1>1, <1>3, <2>2
  <2> QED
    BY <1>1, <1>3, <2>2, <2>5, <2>6 DEF x, y
<1> QED
  BY <1>2, <1>3

\* The beginnings of a text that is put together from others.
Joined(F, C, s, n) == F \in [0 .. n -> Seq(C)] /\ F[0] = <<>> /\ \A i \in 1 .. n : F[i] = F[i - 1] \o s[i]

\* A flattened sequence of texts is the last of those.
LEMMA FlattenIs ==
  ASSUME NEW C, NEW s, s \in Seq(Seq(C)), s # <<>>
  PROVE  \E F : Joined(F, C, s, Len(s)) /\ FlattenSeq(s) = F[Len(s)]
<1> DEFINE n == Len(s)
           H == [p \in Seq(C) \X (1 .. n) |-> p[1] \o s[p[2]]]
           flatten[i \in 1 .. Len(s)] == IF i = 1 THEN s[i] ELSE flatten[i - 1] \o s[i]
<1>1. n \in Nat /\ n > 0 /\ \A i \in 1 .. n : s[i] \in Seq(C)
  OBVIOUS
<1>2. <<>> \in Seq(C) /\ \A x, y \in Seq(C) : x \o y \in Seq(C) /\ <<>> \o x = x
  OBVIOUS
<1>3. H \in [Seq(C) \X (1 .. n) -> Seq(C)] /\ \A x \in Seq(C) : \A i \in 1 .. n : H[<<x, i>>] = x \o s[i]
  BY <1>1, <1>2
<1> HIDE DEF H, n
<1>4. PICK F \in [0 .. n -> Seq(C)] : F[0] = <<>> /\ \A i \in 1 .. n : F[i] = H[<<F[i - 1], i>>]
  <2> DEFINE V == Seq(C)
             a == <<>>
  <2>1. a \in V
    BY <1>2
  <2>2. n \in Nat
    BY <1>1
  <2>3. H \in [V \X (1 .. n) -> V]
    BY <1>3
  <2> HIDE DEF V, a
  <2>4. \E f \in [0 .. n -> V] : f[0] = a /\ \A i \in 1 .. n : f[i] = H[<<f[i - 1], i>>]
    <3>1. Counting(n, V, a, H)
      BY <2>1, <2>2, <2>3 DEF Counting
    <3> QED
      BY <3>1, CountedFunction
  <2> QED
    BY <2>4 DEF V, a
<1>5. \A i \in 1 .. n : i - 1 \in 0 .. n /\ i \in 0 .. n
  BY <1>1
<1>6. \A i \in 1 .. n : F[i] = F[i - 1] \o s[i]
  BY <1>3, <1>4, <1>5
<1>7. F[1] = s[1]
  <2>1. 1 \in 1 .. n /\ 1 - 1 = 0
    BY <1>1
  <2>2. F[1] = <<>> \o s[1] /\ s[1] \in Seq(C)
    BY <1>1, <1>4, <1>6, <2>1
  <2> QED
    BY <1>2, <2>2
<1> DEFINE g == [i \in 1 .. n |-> F[i]]
<1>8. g = [i \in 1 .. n |-> IF i = 1 THEN s[i] ELSE g[i - 1] \o s[i]]
  <2>1. \A i \in 1 .. n : i # 1 => i - 1 \in 1 .. n
    BY <1>1
  <2>2. \A i \in 1 .. n : g[i] = IF i = 1 THEN s[i] ELSE g[i - 1] \o s[i]
    BY <1>6, <1>7, <2>1
  <2>3. g = [i \in 1 .. n |-> g[i]]
    OBVIOUS
  <2> HIDE DEF g
  <2> QED
    BY <2>2, <2>3
<1>9. flatten = [i \in 1 .. n |-> IF i = 1 THEN s[i] ELSE flatten[i - 1] \o s[i]]
  <2> HIDE DEF g
  <2> QED
    BY <1>8 DEF n
<1> HIDE DEF flatten
<1>10. \A i \in 1 .. n : flatten[i] = IF i = 1 THEN s[i] ELSE flatten[i - 1] \o s[i]
  BY <1>9
<1> DEFINE T == {i \in 0 .. n : i > 0 => flatten[i] = F[i]}
<1>11. \A i \in 0 .. n : i \in T
  <2>1. 0 \in T
    BY <1>1
  <2>2. ASSUME NEW i \in 1 .. n, i - 1 \in T
        PROVE  i \in T
    <3>1. flatten[i] = F[i]
      <4>1. CASE i = 1
        BY <1>7, <1>10, <4>1
      <4>2. CASE i # 1
        <5>1. flatten[i - 1] = F[i - 1]
          BY <1>1, <2>2, <4>2
        <5> QED
          BY <1>6, <1>10, <4>2, <5>1
      <4> QED
        BY <4>1, <4>2
    <3> QED
      BY <1>5, <3>1
  <2> HIDE DEF T
  <2> QED
    BY <1>1, <2>1, <2>2, CountsUp
<1>12. flatten[n] = F[n]
  <2>1. n \in 0 .. n
    BY <1>1
  <2> QED
    BY <1>1, <1>11, <2>1
<1>13. FlattenSeq(s) = flatten[n]
  <2>1. Len(s) # 0
    BY <1>1 DEF n
  <2> QED
    BY <2>1 DEF FlattenSeq, flatten, n
<1>14. Joined(F, C, s, n)
  BY <1>4, <1>6 DEF Joined
<1> QED
  BY <1>12, <1>13, <1>14 DEF n

\* Each of those begins the later ones.
LEMMA JoinedBegins ==
  ASSUME NEW C, NEW n \in Nat, NEW s, \A i \in 1 .. n : s[i] \in Seq(C), NEW F, Joined(F, C, s, n), NEW i \in 0 .. n
  PROVE  \A j \in i .. n : Len(F[i]) <= Len(F[j]) /\ \A q \in 1 .. Len(F[i]) : F[j][q] = F[i][q]
<1> DEFINE Begins(j) == Len(F[i]) <= Len(F[j]) /\ \A q \in 1 .. Len(F[i]) : F[j][q] = F[i][q]
           T == {j \in 0 .. n : i <= j => Begins(j)}
<1>1. \A j \in 0 .. n : F[j] \in Seq(C) /\ Len(F[j]) \in Nat
  <2>1. \A j \in 0 .. n : F[j] \in Seq(C)
    BY DEF Joined
  <2> QED
    BY <2>1
<1>2. ASSUME NEW j \in 1 .. n, j - 1 \in T
      PROVE  j \in T
  <2> SUFFICES ASSUME i <= j PROVE Begins(j)
    OBVIOUS
  <2>1. CASE i = j
    BY <1>1, <2>1
  <2>2. CASE i # j
    <3>1. j - 1 \in 0 .. n /\ i <= j - 1
      BY <2>2
    <3>2. Begins(j - 1)
      BY <1>2, <3>1
    <3>3. F[j] = F[j - 1] \o s[j]
      BY DEF Joined
    <3> DEFINE x == F[j - 1]
               y == s[j]
               z == F[i]
    <3>4. x \in Seq(C) /\ y \in Seq(C) /\ z \in Seq(C) /\ Len(z) <= Len(x) /\ \A q \in 1 .. Len(z) : x[q] = z[q]
      BY <1>1, <3>1, <3>2
    <3> HIDE DEF x, y, z
    <3>5. Len(z) <= Len(x \o y) /\ \A q \in 1 .. Len(z) : (x \o y)[q] = z[q]
      BY <3>4
    <3> QED
      BY <3>3, <3>5 DEF x, y, z
  <2> QED
    BY <2>1, <2>2
<1>3. 0 \in T
  BY <1>1
<1>4. \A j \in 0 .. n : j \in T
  <2> HIDE DEF T
  <2> QED
    BY <1>2, <1>3, CountsUp
<1>5. \A j \in i .. n : j \in 0 .. n /\ i <= j
  OBVIOUS
<1> QED
  BY <1>4, <1>5

-----------------------------------------------------------------------------
(* Digits and numbers. *)

\* The digits of a base and their values.
LEMMA DigitsAre ==
  ASSUME NEW base \in {8, 10, 16}
  PROVE  /\ DOMAIN DigitsOf(base) = {Small[i] : i \in 1 .. base} \cup {Big[i] : i \in 1 .. base}
         /\ \A c \in DOMAIN DigitsOf(base) : DigitsOf(base)[c] \in 0 .. base - 1
         /\ "0" \in DOMAIN DigitsOf(base) /\ DigitsOf(base)["0"] = 0
<1> DEFINE CharsOf(i) == {Small[i + 1], Big[i + 1]}
           D == UNION {CharsOf(i) : i \in 0 .. base - 1}
           Chosen(c) == CHOOSE i \in 0 .. base - 1 : c \in CharsOf(i)
<1>1. DigitsOf(base) = [c \in D |-> Chosen(c)]
  BY DEF DigitsOf
<1>2. D = {Small[i] : i \in 1 .. base} \cup {Big[i] : i \in 1 .. base}
  <2>1. \A i \in 1 .. base : i - 1 \in 0 .. base - 1 /\ (i - 1) + 1 = i
    OBVIOUS
  <2>2. \A i \in 0 .. base - 1 : i + 1 \in 1 .. base
    OBVIOUS
  <2>3. ASSUME NEW i \in 1 .. base
        PROVE  Small[i] \in D /\ Big[i] \in D
    BY <2>1
  <2>4. ASSUME NEW c \in D
        PROVE  \E i \in 1 .. base : c = Small[i] \/ c = Big[i]
    BY <2>2
  <2> HIDE DEF D
  <2> QED
    BY <2>3, <2>4
<1>3. \A c \in D : Chosen(c) \in 0 .. base - 1
  <2> TAKE c \in D
  <2>1. \E i \in 0 .. base - 1 : c \in CharsOf(i)
    OBVIOUS
  <2> QED
    BY <2>1
<1>4. "0" \in D /\ Chosen("0") = 0
  <2>1. 0 \in 0 .. base - 1 /\ Small[0 + 1] = "0"
    BY DEF Small, Big
  <2>2. \A i \in 0 .. base - 1 : "0" \in CharsOf(i) => i = 0
    BY DEF Small, Big
  <2>3. "0" \in CharsOf(0)
    BY <2>1
  <2> QED
    BY <2>1, <2>2, <2>3
<1> HIDE DEF D, Chosen
<1> QED
  BY <1>1, <1>2, <1>3, <1>4

\* The digits of a base are digits of the greater ones, and none of them is among the other characters.
LEMMA DigitFacts ==
  /\ DOMAIN Octal \subseteq DOMAIN Decimal /\ DOMAIN Decimal \subseteq DOMAIN Hex
  /\ \A c \in DOMAIN Hex : c \notin Others /\ c # "x"
  /\ Octal["0"] = 0 /\ Decimal["0"] = 0 /\ "0" \in DOMAIN Octal /\ "0" \in DOMAIN Decimal
  /\ \A c \in DOMAIN Octal : Octal[c] \in Nat /\ Octal[c] < 16
  /\ \A c \in DOMAIN Decimal : Decimal[c] \in Nat /\ Decimal[c] < 16
  /\ \A c \in DOMAIN Hex : Hex[c] \in Nat /\ Hex[c] < 16
<1>1. 8 \in {8, 10, 16} /\ 10 \in {8, 10, 16} /\ 16 \in {8, 10, 16}
  OBVIOUS
<1> DEFINE Chars(b) == {Small[i] : i \in 1 .. b} \cup {Big[i] : i \in 1 .. b}
<1>2. DOMAIN Octal = Chars(8) /\ DOMAIN Decimal = Chars(10) /\ DOMAIN Hex = Chars(16)
  BY <1>1, DigitsAre DEF Octal, Decimal, Hex
<1>3. Chars(8) \subseteq Chars(10) /\ Chars(10) \subseteq Chars(16)
  <2>1. \A i \in 1 .. 8 : i \in 1 .. 10
    OBVIOUS
  <2>2. \A i \in 1 .. 10 : i \in 1 .. 16
    OBVIOUS
  <2> QED
    BY <2>1, <2>2
<1>4. \A i \in 1 .. 16 : Small[i] \notin Others /\ Small[i] # "x" /\ Big[i] \notin Others /\ Big[i] # "x"
  <2> DEFINE Plain == {"0", "1", "2", "3", "4", "5", "6", "7", "8", "9"}
             Signs == {"a", "b", "c", "d", "e", "f", "A", "B", "C", "D", "E", "F"}
  <2>1. \A i \in 1 .. 10 : Small[i] \in Plain /\ Big[i] \in Plain
    BY DEF Small, Big
  <2>2. \A i \in 11 .. 16 : Small[i] \in Signs /\ Big[i] \in Signs
    BY DEF Small, Big
  <2>3. \A c \in Plain \cup Signs : c \notin Others /\ c # "x"
    BY DEF Others
  <2>4. \A i \in 1 .. 16 : i \in 1 .. 10 \/ i \in 11 .. 16
    OBVIOUS
  <2> HIDE DEF Plain, Signs
  <2> QED
    BY <2>1, <2>2, <2>3, <2>4
<1>5. \A c \in Chars(16) : c \notin Others /\ c # "x"
  BY <1>4
<1> HIDE DEF Chars
<1> QED
  BY <1>1, <1>2, <1>3, <1>5, DigitsAre DEF Octal, Decimal, Hex

\* A literal is a decimal, an octal or a hexadecimal number.
LEMMA LiteralIs ==
  ASSUME NEW v \in Seq(Characters), v # <<>>, Literal(v)
  PROVE  \/ /\ v[1] # "0" /\ Notation(v) = [digits |-> Decimal, base |-> 10, from |-> 1]
            /\ \A i \in 1 .. Len(v) : v[i] \in DOMAIN Decimal \cup {"'"}
         \/ /\ v[1] = "0" /\ Notation(v) = [digits |-> Octal, base |-> 8, from |-> 1]
            /\ \A i \in 1 .. Len(v) : v[i] \in DOMAIN Octal \cup {"'"}
         \/ /\ v[1] = "0" /\ Notation(v) = [digits |-> Hex, base |-> 16, from |-> 3]
            /\ Len(v) > 1 /\ v[2] = "x"
            /\ \A i \in 3 .. Len(v) : v[i] \in DOMAIN Hex \cup {"'"}
<1> DEFINE n == Notation(v)
<1>1. (n.from > 1 => v[2] = "x") /\ \A i \in n.from .. Len(v) : v[i] \in DOMAIN n.digits \cup {"'"}
  BY DEF Literal
<1>2. CASE v[1] # "0"
  <2>1. n = [digits |-> Decimal, base |-> 10, from |-> 1]
    BY <1>2 DEF Notation
  <2> HIDE DEF n
  <2> QED
    BY <1>1, <1>2, <2>1 DEF n
<1>3. CASE v[1] = "0" /\ Len(v) > 1 /\ v[2] \in {"x", "X"}
  <2>1. n = [digits |-> Hex, base |-> 16, from |-> 3]
    BY <1>3 DEF Notation
  <2> HIDE DEF n
  <2> QED
    BY <1>1, <1>3, <2>1 DEF n
<1>4. CASE v[1] = "0" /\ ~(Len(v) > 1 /\ v[2] \in {"x", "X"})
  <2>1. n = [digits |-> Octal, base |-> 8, from |-> 1]
    BY <1>4 DEF Notation
  <2> HIDE DEF n
  <2> QED
    BY <1>1, <1>4, <2>1 DEF n
<1> QED
  BY <1>2, <1>3, <1>4

\* The number a literal has in the notation, from digit to digit.
LEMMA NumberIs ==
  ASSUME NEW v \in Seq(Characters), v # <<>>, Literal(v)
  PROVE  /\ Number(v)[0] = 0 /\ \A i \in 0 .. Len(v) : Number(v)[i] \in Nat
         /\ \A i \in 1 .. Len(v) :
              Number(v)[i] = IF i < Notation(v).from THEN 0
                             ELSE IF v[i] \in Others THEN Number(v)[i - 1]
                             ELSE Number(v)[i - 1] * Notation(v).base + Notation(v).digits[v[i]]
<1> DEFINE n == Notation(v)
           len == Len(v)
           Turn(x, i) == IF i < n.from THEN 0 ELSE IF v[i] \in Others THEN x ELSE x * n.base + n.digits[v[i]]
           H == [p \in Nat \X (1 .. len) |-> Turn(p[1], p[2])]
<1>1. len \in Nat /\ len > 0
  OBVIOUS
<1>2. ASSUME NEW x \in Nat, NEW i \in 1 .. len
      PROVE  Turn(x, i) \in Nat
  <2>1. /\ n.base \in Nat /\ n.from \in Nat /\ \A c \in DOMAIN n.digits : n.digits[c] \in Nat
        /\ i >= n.from => v[i] \in DOMAIN n.digits \cup {"'"}
    <3> HIDE DEF n
    <3> QED
      BY <1>1, LiteralIs, DigitFacts DEF n
  <2> HIDE DEF n
  <2>2. CASE i < n.from \/ v[i] \in Others
    BY <1>2, <2>2
  <2>3. CASE ~(i < n.from) /\ v[i] \notin Others
    <3>1. v[i] \in DOMAIN n.digits
      <4>1. i >= n.from
        BY <1>1, <2>1, <2>3
      <4>2. "'" \in Others
        BY DEF Others
      <4> QED
        BY <2>1, <2>3, <4>1, <4>2
    <3> DEFINE g == n.digits[v[i]]
               b == n.base
    <3>2. g \in Nat /\ b \in Nat
      BY <2>1, <3>1
    <3> HIDE DEF g, b
    <3>3. x * b + g \in Nat
      BY <3>2
    <3> QED
      BY <2>3, <3>3 DEF g, b
  <2> QED
    BY <2>2, <2>3
<1> HIDE DEF Turn
<1>3. H \in [Nat \X (1 .. len) -> Nat] /\ \A x \in Nat : \A i \in 1 .. len : H[<<x, i>>] = Turn(x, i)
  BY <1>2
<1> HIDE DEF H
<1>4. PICK f \in [0 .. len -> Nat] : f[0] = 0 /\ \A i \in 1 .. len : f[i] = H[<<f[i - 1], i>>]
  <2>1. Counting(len, Nat, 0, H)
    BY <1>1, <1>3 DEF Counting
  <2> HIDE DEF len
  <2> QED
    BY <2>1, CountedFunction
<1> DEFINE Body(g, i) == IF i < n.from THEN 0
                         ELSE IF v[i] \in Others THEN g[i - 1]
                         ELSE g[i - 1] * n.base + n.digits[v[i]]
           number[i \in 0 .. Len(v)] == IF i < n.from THEN 0
                         ELSE IF v[i] \in Others THEN number[i - 1]
                         ELSE number[i - 1] * n.base + n.digits[v[i]]
<1>5. Number(v) = number
  BY DEF Number
<1>6. n.from \in Nat /\ n.from > 0
  BY LiteralIs
<1>7. f = [i \in 0 .. len |-> Body(f, i)]
  <2>1. \A i \in 1 .. len : f[i] = Body(f, i)
    <3> TAKE i \in 1 .. len
    <3>1. i - 1 \in 0 .. len
      BY <1>1
    <3>2. f[i - 1] \in Nat
      BY <3>1
    <3>3. f[i] = Turn(f[i - 1], i)
      BY <1>3, <1>4, <3>2
    <3> QED
      BY <3>3 DEF Turn
  <2>2. f[0] = Body(f, 0)
    BY <1>4, <1>6
  <2>3. \A i \in 0 .. len : i = 0 \/ i \in 1 .. len
    BY <1>1
  <2> HIDE DEF Body, len
  <2>4. \A i \in 0 .. len : f[i] = Body(f, i)
    BY <2>1, <2>2, <2>3
  <2>5. f = [i \in 0 .. len |-> f[i]]
    OBVIOUS
  <2> QED
    BY <2>4, <2>5
<1>8. number = [i \in 0 .. len |-> Body(number, i)]
  BY <1>7
<1> HIDE DEF number
<1>9. \A i \in 0 .. len : number[i] = Body(number, i)
  <2> HIDE DEF Body
  <2> QED
    BY <1>8
<1>10. number[0] = 0
  BY <1>1, <1>6, <1>9
<1>11. \A i \in 0 .. len : number[i] \in Nat
  <2> DEFINE T == {i \in 0 .. len : number[i] \in Nat}
  <2>1. 0 \in T
    BY <1>1, <1>10
  <2>2. ASSUME NEW i \in 1 .. len, i - 1 \in T
        PROVE  i \in T
    <3>1. Turn(number[i - 1], i) \in Nat
      BY <1>2, <2>2 DEF Turn
    <3>2. i \in 0 .. len
      BY <1>1
    <3>3. number[i] = Turn(number[i - 1], i)
      BY <1>9, <3>2 DEF Turn
    <3> QED
      BY <3>1, <3>2, <3>3
  <2> HIDE DEF T, len
  <2>3. \A i \in 0 .. len : i \in T
    BY <1>1, <2>1, <2>2, CountsUp
  <2> QED
    BY <2>3 DEF T
<1>12. \A i \in 1 .. len : i \in 0 .. len
  BY <1>1
<1> QED
  BY <1>5, <1>9, <1>10, <1>11, <1>12

\* An enumerator has a name.
LEMMA DeclaredName ==
  ASSUME NEW e, Declared(e)
  PROVE  e.name # <<>>
<1>1. Len(e.name) > 0
  <2>1. Len(e.name) \in 1 .. Longest
    BY DEF Declared
  <2>2. \A n \in 1 .. Longest : n > 0
    BY DEF Longest
  <2> QED
    BY <2>1, <2>2
<1>2. Len(<<>>) = 0
  OBVIOUS
<1> QED
  BY <1>1, <1>2

\* A declaration as it may be written.
Written(d) == d \in Seq([name : Seq(Characters), value : Seq(Characters)]) /\ d # <<>> /\ \A i \in 1 .. Len(d) : Declared(d[i])

\* Its items.
LEMMA WrittenItem ==
  ASSUME NEW d, Written(d)
  PROVE  /\ Len(d) \in Nat /\ Len(d) > 0 /\ DOMAIN d = 1 .. Len(d)
         /\ \A i \in 1 .. Len(d) : d[i] \in [name : Seq(Characters), value : Seq(Characters)] /\ Declared(d[i])
<1> DEFINE Items == [name : Seq(Characters), value : Seq(Characters)]
<1>1. d \in Seq(Items) /\ d # <<>> /\ \A i \in 1 .. Len(d) : Declared(d[i])
  BY DEF Written
<1> HIDE DEF Items
<1>2. Len(d) \in Nat /\ Len(d) > 0 /\ DOMAIN d = 1 .. Len(d) /\ \A i \in 1 .. Len(d) : d[i] \in Items
  BY <1>1
<1> QED
  BY <1>1, <1>2 DEF Items

\* An item whose value the parser does not see.
Blank(e) == e.value = <<>> \/ e.value \in ConstantNames

\* The keys of a declaration without its constants, from item to item.
LEMMA KeysIs ==
  ASSUME NEW d, Written(d)
  PROVE  /\ Keys(AsRead(d))[0] = -1 /\ \A i \in 0 .. Len(d) : Keys(AsRead(d))[i] \in Int
         /\ \A i \in 1 .. Len(d) :
              Keys(AsRead(d))[i] = IF Blank(d[i]) THEN Keys(AsRead(d))[i - 1] + 1 ELSE Number(d[i].value)[Len(d[i].value)]
         /\ Enumerators(AsRead(d)) = [i \in 1 .. Len(d) |-> [key |-> Keys(AsRead(d))[i], value |-> d[i].name]]
<1> DEFINE n == Len(d)
           Shown == AsRead(d)
           Turn(x, i) == IF Shown[i].value = <<>> THEN x + 1 ELSE Value(Shown[i].value)
           H == [p \in Int \X (1 .. n) |-> Turn(p[1], p[2])]
<1>1. n \in Nat /\ n > 0 /\ DOMAIN d = 1 .. n
      /\ \A i \in 1 .. n : d[i] \in [name : Seq(Characters), value : Seq(Characters)] /\ Declared(d[i])
  BY WrittenItem
<1>2. DOMAIN Shown = 1 .. n /\ Len(Shown) = n
      /\ \A i \in 1 .. n : Shown[i] = IF d[i].value \in ConstantNames THEN [d[i] EXCEPT !.value = <<>>] ELSE d[i]
  <2>1. Shown = [i \in 1 .. n |-> IF d[i].value \in ConstantNames THEN [d[i] EXCEPT !.value = <<>>] ELSE d[i]]
    BY <1>1 DEF AsRead
  <2> HIDE DEF Shown
  <2> QED
    BY <1>1, <2>1
<1>3. \A i \in 1 .. n : /\ Shown[i].name = d[i].name
                        /\ Shown[i].value = IF d[i].value \in ConstantNames THEN <<>> ELSE d[i].value
  <2> TAKE i \in 1 .. n
  <2> DEFINE e == d[i]
             r == Shown[i]
  <2>1. e \in [name : Seq(Characters), value : Seq(Characters)]
        /\ r = IF e.value \in ConstantNames THEN [e EXCEPT !.value = <<>>] ELSE e
    BY <1>1, <1>2
  <2> HIDE DEF e, r
  <2>2. r.name = e.name /\ r.value = IF e.value \in ConstantNames THEN <<>> ELSE e.value
    BY <2>1
  <2> QED
    BY <2>2 DEF e, r
<1> HIDE DEF Shown
<1>4. \A i \in 1 .. n : ~Blank(d[i]) => Value(Shown[i].value) = Number(d[i].value)[Len(d[i].value)]
                                       /\ Number(d[i].value)[Len(d[i].value)] \in Nat
  <2> SUFFICES ASSUME NEW i \in 1 .. n, ~Blank(d[i])
               PROVE  Value(Shown[i].value) = Number(d[i].value)[Len(d[i].value)]
                      /\ Number(d[i].value)[Len(d[i].value)] \in Nat
    OBVIOUS
  <2> DEFINE v == d[i].value
  <2>1. v \in Seq(Characters) /\ v # <<>> /\ v \notin ConstantNames /\ Shown[i].value = v /\ Literal(v)
    <3>1. v \in Seq(Characters) /\ Shown[i].value = IF v \in ConstantNames THEN <<>> ELSE v
      BY <1>1, <1>3
    <3>2. v # <<>> /\ v \notin ConstantNames
      BY DEF Blank
    <3>3. Literal(v)
      BY <1>1, <3>2 DEF Declared
    <3> QED
      BY <3>1, <3>2, <3>3
  <2> HIDE DEF v
  <2>2. Value(v) = Number(v)[Len(v)]
    BY <2>1 DEF Value
  <2>3. Len(v) \in 0 .. Len(v)
    BY <2>1
  <2> QED
    BY <2>1, <2>2, <2>3, NumberIs DEF v
<1>5. \A i \in 1 .. n : Shown[i].value = <<>> <=> Blank(d[i])
  BY <1>3 DEF Blank
<1>6. \A x \in Int : \A i \in 1 .. n : Turn(x, i) \in Int
  BY <1>4, <1>5
<1> HIDE DEF Turn
<1>7. H \in [Int \X (1 .. n) -> Int] /\ \A x \in Int : \A i \in 1 .. n : H[<<x, i>>] = Turn(x, i)
  BY <1>6
<1> HIDE DEF H
<1>8. PICK f \in [0 .. n -> Int] : f[0] = -1 /\ \A i \in 1 .. n : f[i] = H[<<f[i - 1], i>>]
  <2>1. Counting(n, Int, -1, H)
    BY <1>1, <1>7 DEF Counting
  <2> HIDE DEF n
  <2> QED
    BY <2>1, CountedFunction
<1> DEFINE Body(g, i) == IF i = 0 THEN -1 ELSE IF Shown[i].value = <<>> THEN g[i - 1] + 1 ELSE Value(Shown[i].value)
           key[i \in 0 .. n] == IF i = 0 THEN -1 ELSE IF Shown[i].value = <<>> THEN key[i - 1] + 1 ELSE Value(Shown[i].value)
<1>9. Keys(Shown) = key
  BY <1>2 DEF Keys
<1>10. f = [i \in 0 .. n |-> Body(f, i)]
  <2>1. \A i \in 1 .. n : f[i] = Body(f, i)
    <3> TAKE i \in 1 .. n
    <3>1. i - 1 \in 0 .. n /\ i # 0
      BY <1>1
    <3>2. f[i - 1] \in Int
      BY <3>1
    <3>3. f[i] = Turn(f[i - 1], i)
      BY <1>7, <1>8, <3>2
    <3> QED
      BY <3>1, <3>3 DEF Turn
  <2>2. f[0] = Body(f, 0)
    BY <1>8
  <2>3. \A i \in 0 .. n : i = 0 \/ i \in 1 .. n
    BY <1>1
  <2> HIDE DEF Body, n
  <2>4. \A i \in 0 .. n : f[i] = Body(f, i)
    BY <2>1, <2>2, <2>3
  <2>5. f = [i \in 0 .. n |-> f[i]]
    OBVIOUS
  <2> QED
    BY <2>4, <2>5
<1>11. key = [i \in 0 .. n |-> Body(key, i)]
  BY <1>10
<1> HIDE DEF key
<1>12. \A i \in 0 .. n : key[i] = Body(key, i)
  <2> HIDE DEF Body
  <2> QED
    BY <1>11
<1>13. \A i \in 1 .. n : i \in 0 .. n /\ i # 0
  BY <1>1
<1>14. key[0] = -1
  BY <1>1, <1>12
<1>15. \A i \in 1 .. n : key[i] = Turn(key[i - 1], i)
  BY <1>12, <1>13 DEF Turn
<1>16. \A i \in 0 .. n : key[i] \in Int
  <2> DEFINE T == {i \in 0 .. n : key[i] \in Int}
  <2>1. 0 \in T
    BY <1>1, <1>14
  <2>2. ASSUME NEW i \in 1 .. n, i - 1 \in T
        PROVE  i \in T
    BY <1>6, <1>13, <1>15, <2>2
  <2> HIDE DEF T, n
  <2>3. \A i \in 0 .. n : i \in T
    BY <1>1, <2>1, <2>2, CountsUp
  <2> QED
    BY <2>3 DEF T
<1>17. \A i \in 1 .. n : key[i] = IF Blank(d[i]) THEN key[i - 1] + 1 ELSE Number(d[i].value)[Len(d[i].value)]
  BY <1>4, <1>5, <1>15 DEF Turn
<1>18. Enumerators(Shown) = [i \in 1 .. n |-> [key |-> key[i], value |-> d[i].name]]
  BY <1>2, <1>3, <1>9 DEF Enumerators
<1> QED
  BY <1>9, <1>14, <1>16, <1>17, <1>18 DEF Shown

-----------------------------------------------------------------------------
(* The text of a declaration. *)

\* The characters of an item.
LEMMA ItemIs ==
  ASSUME NEW e \in [name : Seq(Characters), value : Seq(Characters)]
  PROVE  /\ Item(e) \in Seq(Characters)
         /\ Len(Item(e)) = Len(e.name) + (IF e.value = <<>> THEN 0 ELSE 3 + Len(e.value))
         /\ \A j \in 1 .. Len(e.name) : Item(e)[j] = e.name[j]
         /\ e.value # <<>> => /\ Item(e)[Len(e.name) + 1] = " " /\ Item(e)[Len(e.name) + 2] = "="
                              /\ Item(e)[Len(e.name) + 3] = " "
                              /\ \A j \in 1 .. Len(e.value) : Item(e)[Len(e.name) + 3 + j] = e.value[j]
<1> DEFINE x == e.name
           y == e.value
           eq == <<" ", "=", " ">>
<1>1. x \in Seq(Characters) /\ y \in Seq(Characters)
  OBVIOUS
<1>2. eq \in Seq(Characters) /\ Len(eq) = 3 /\ eq[1] = " " /\ eq[2] = "=" /\ eq[3] = " "
  <2>1. " " \in Characters /\ "=" \in Characters
    BY DEF Characters, Others
  <2> QED
    BY <2>1, Tuples
<1>3. Item(e) = IF y = <<>> THEN x \o <<>> ELSE x \o (eq \o y)
  BY DEF Item
<1> HIDE DEF x, y, eq
<1>4. CASE y = <<>>
  <2>1. x \o <<>> = x
    BY <1>1
  <2> QED
    BY <1>1, <1>3, <1>4, <2>1 DEF x, y
<1>5. CASE y # <<>>
  <2> DEFINE z == eq \o y
             w == x \o z
  <2>1. Together(Characters, eq, y, z)
    BY <1>1, <1>2 DEF Together
  <2> HIDE DEF z
  <2>2. z \in Seq(Characters) /\ Len(z) = 3 + Len(y) /\ z[1] = " " /\ z[2] = "=" /\ z[3] = " "
        /\ \A j \in 1 .. Len(y) : z[3 + j] = y[j]
    <3>1. z \in Seq(Characters) /\ Len(z) = Len(eq) + Len(y) /\ (\A j \in 1 .. Len(eq) : z[j] = eq[j])
          /\ \A j \in 1 .. Len(y) : z[Len(eq) + j] = y[j]
      BY <2>1, Concat
    <3>2. 1 \in 1 .. 3 /\ 2 \in 1 .. 3 /\ 3 \in 1 .. 3
      OBVIOUS
    <3> QED
      BY <1>2, <3>1, <3>2
  <2>3. Together(Characters, x, z, w)
    BY <1>1, <2>2 DEF Together
  <2> HIDE DEF w
  <2>4. w \in Seq(Characters) /\ Len(w) = Len(x) + Len(z) /\ (\A j \in 1 .. Len(x) : w[j] = x[j])
        /\ \A j \in 1 .. Len(z) : w[Len(x) + j] = z[j]
    BY <2>3, Concat
  <2>5. Item(e) = w
    BY <1>3, <1>5 DEF w, z
  <2>6. Len(x) \in Nat /\ Len(y) \in Nat
    BY <1>1
  <2> DEFINE l == Len(x)
             k == Len(y)
  <2>7. 1 \in 1 .. Len(z) /\ 2 \in 1 .. Len(z) /\ 3 \in 1 .. Len(z)
        /\ \A j \in 1 .. k : 3 + j \in 1 .. Len(z) /\ l + 3 + j = l + (3 + j)
    <3>1. l \in Nat /\ k \in Nat /\ Len(z) = 3 + k
      BY <2>2, <2>6
    <3> HIDE DEF l, k
    <3> QED
      BY <3>1
  <2>8. \A j \in 1 .. Len(y) : w[Len(x) + 3 + j] = y[j]
    <3> TAKE j \in 1 .. Len(y)
    <3>1. 3 + j \in 1 .. Len(z) /\ Len(x) + 3 + j = Len(x) + (3 + j)
      BY <2>7
    <3>2. w[Len(x) + (3 + j)] = z[3 + j] /\ z[3 + j] = y[j]
      BY <2>2, <2>4, <3>1
    <3> QED
      BY <3>1, <3>2
  <2>9. w[Len(x) + 1] = " " /\ w[Len(x) + 2] = "=" /\ w[Len(x) + 3] = " "
    BY <2>2, <2>4, <2>7
  <2>10. Len(w) = Len(x) + (3 + Len(y))
    BY <2>2, <2>4
  <2> QED
    BY <1>5, <2>4, <2>5, <2>8, <2>9, <2>10 DEF x, y
<1> QED
  BY <1>4, <1>5

\* An item with the comma and the blank before it.
Piece(d, i) == IF i = 1 THEN Item(d[i]) ELSE <<",", " ">> \o Item(d[i])

LEMMA PieceIs ==
  ASSUME NEW d, Written(d), NEW i \in 1 .. Len(d)
  PROVE  /\ Piece(d, i) \in Seq(Characters)
         /\ i = 1 => Piece(d, i) = Item(d[i])
         /\ i # 1 => /\ Len(Piece(d, i)) = 2 + Len(Item(d[i])) /\ Piece(d, i)[1] = "," /\ Piece(d, i)[2] = " "
                     /\ \A j \in 1 .. Len(Item(d[i])) : Piece(d, i)[2 + j] = Item(d[i])[j]
<1> DEFINE x == Item(d[i])
           comma == <<",", " ">>
<1>1. x \in Seq(Characters)
  <2>1. d[i] \in [name : Seq(Characters), value : Seq(Characters)]
    BY WrittenItem
  <2> QED
    BY <2>1, ItemIs DEF Written
<1>2. comma \in Seq(Characters) /\ Len(comma) = 2 /\ comma[1] = "," /\ comma[2] = " "
  <2>1. "," \in Characters /\ " " \in Characters
    BY DEF Characters, Others
  <2> QED
    BY <2>1, Tuples
<1>3. Piece(d, i) = IF i = 1 THEN x ELSE comma \o x
  BY DEF Piece
<1> HIDE DEF x, comma
<1>4. comma \o x \in Seq(Characters) /\ Len(comma \o x) = 2 + Len(x) /\ (comma \o x)[1] = "," /\ (comma \o x)[2] = " "
      /\ \A j \in 1 .. Len(x) : (comma \o x)[2 + j] = x[j]
  <2> DEFINE z == comma \o x
  <2>1. Together(Characters, comma, x, z)
    BY <1>1, <1>2 DEF Together
  <2> HIDE DEF z
  <2>2. z \in Seq(Characters) /\ Len(z) = Len(comma) + Len(x) /\ (\A j \in 1 .. Len(comma) : z[j] = comma[j])
        /\ \A j \in 1 .. Len(x) : z[Len(comma) + j] = x[j]
    BY <2>1, Concat
  <2>3. 1 \in 1 .. 2 /\ 2 \in 1 .. 2
    OBVIOUS
  <2>4. z \in Seq(Characters) /\ Len(z) = 2 + Len(x) /\ z[1] = "," /\ z[2] = " " /\ \A j \in 1 .. Len(x) : z[2 + j] = x[j]
    BY <1>2, <2>2, <2>3
  <2> QED
    BY <2>4 DEF z
<1> QED
  BY <1>1, <1>3, <1>4 DEF x

\* How long it is.
LEMMA PieceLength ==
  ASSUME NEW d, Written(d), NEW i \in 1 .. Len(d)
  PROVE  /\ Len(Item(d[i])) \in Nat /\ Len(Item(d[i])) > 0
         /\ Len(Piece(d, i)) = IF i = 1 THEN Len(Item(d[i])) ELSE 2 + Len(Item(d[i]))
         /\ Len(Piece(d, i)) \in Nat /\ Len(Piece(d, i)) > 0
<1> DEFINE x == d[i].name
           y == d[i].value
<1>1. d[i] \in [name : Seq(Characters), value : Seq(Characters)] /\ Declared(d[i])
  BY WrittenItem
<1>2. x \in Seq(Characters) /\ y \in Seq(Characters) /\ x # <<>>
  BY <1>1, DeclaredName DEF Declared
<1>3. Len(Item(d[i])) = Len(x) + (IF y = <<>> THEN 0 ELSE 3 + Len(y))
  BY <1>1, ItemIs
<1> HIDE DEF x, y
<1>4. Len(x) \in Nat /\ Len(x) > 0 /\ Len(y) \in Nat
  BY <1>2
<1>5. Len(Item(d[i])) \in Nat /\ Len(Item(d[i])) > 0
  BY <1>3, <1>4
<1>6. Len(Piece(d, i)) = IF i = 1 THEN Len(Item(d[i])) ELSE 2 + Len(Item(d[i]))
  <2>1. i = 1 => Piece(d, i) = Item(d[i])
    BY PieceIs
  <2>2. i # 1 => Len(Piece(d, i)) = 2 + Len(Item(d[i]))
    BY PieceIs
  <2> QED
    BY <2>1, <2>2
<1> QED
  BY <1>5, <1>6

\* Where each item ends in the text, and what is before it there.
Laid(d, at) ==
  /\ Text(d) \in Seq(Characters) /\ at[0] = 0 /\ at[Len(d)] = Len(Text(d))
  /\ \A i \in 0 .. Len(d) : at[i] \in 0 .. Len(Text(d))
  /\ \A i \in 1 .. Len(d) : /\ at[i] = at[i - 1] + Len(Piece(d, i))
                            /\ \A j \in 1 .. Len(Piece(d, i)) : Text(d)[at[i - 1] + j] = Piece(d, i)[j]

LEMMA TextIs ==
  ASSUME NEW d, Written(d)
  PROVE  \E at : Laid(d, at)
<1> DEFINE n == Len(d)
           C == Characters
           s == [i \in 1 .. n |-> Piece(d, i)]
<1>1. n \in Nat /\ n > 0 /\ DOMAIN d = 1 .. n
  BY WrittenItem
<1>2. s \in Seq(Seq(C)) /\ Len(s) = n /\ s # <<>> /\ \A i \in 1 .. n : s[i] = Piece(d, i) /\ s[i] \in Seq(C)
  <2>1. \A i \in 1 .. n : Piece(d, i) \in Seq(C)
    BY PieceIs
  <2> HIDE DEF C, n
  <2>2. s \in Seq(Seq(C)) /\ Len(s) = n /\ \A i \in 1 .. n : s[i] = Piece(d, i) /\ s[i] \in Seq(C)
    BY <1>1, <2>1
  <2> QED
    BY <1>1, <2>2
<1>3. Text(d) = FlattenSeq(s)
  BY <1>1 DEF Text, Piece
<1> HIDE DEF s, n, C
<1>4. PICK F : Joined(F, C, s, n) /\ Text(d) = F[n]
  BY <1>2, <1>3, FlattenIs
<1>5. (\A i \in 0 .. n : F[i] \in Seq(C)) /\ F[0] = <<>> /\ \A i \in 1 .. n : F[i] = F[i - 1] \o s[i]
  BY <1>4 DEF Joined
<1> DEFINE at == [i \in 0 .. n |-> Len(F[i])]
<1>6. n \in 0 .. n /\ 0 \in 0 .. n /\ \A i \in 1 .. n : i \in 0 .. n /\ i - 1 \in 0 .. n
  BY <1>1
<1>7. Text(d) \in Seq(C) /\ at[0] = 0 /\ at[n] = Len(Text(d))
  BY <1>4, <1>5, <1>6
<1>8. ASSUME NEW i \in 0 .. n
      PROVE  at[i] \in 0 .. Len(Text(d)) /\ at[i] = Len(F[i]) /\ \A q \in 1 .. at[i] : Text(d)[q] = F[i][q]
  <2>1. n \in i .. n
    BY <1>1
  <2>2. Len(F[i]) <= Len(F[n]) /\ \A q \in 1 .. Len(F[i]) : F[n][q] = F[i][q]
    <3>1. n \in Nat /\ \A j \in 1 .. n : s[j] \in Seq(C)
      BY <1>1, <1>2
    <3>2. \A j \in i .. n : Len(F[i]) <= Len(F[j]) /\ \A q \in 1 .. Len(F[i]) : F[j][q] = F[i][q]
      <4> HIDE DEF at
      <4> QED
        BY <1>4, <3>1, JoinedBegins
    <3> QED
      BY <2>1, <3>2
  <2>3. Len(F[i]) \in Nat /\ Len(F[n]) \in Nat
    BY <1>5, <1>6
  <2> QED
    BY <1>4, <2>2, <2>3
<1>9. ASSUME NEW i \in 1 .. n
      PROVE  at[i] = at[i - 1] + Len(Piece(d, i)) /\ \A j \in 1 .. Len(Piece(d, i)) : Text(d)[at[i - 1] + j] = Piece(d, i)[j]
  <2> DEFINE x == F[i - 1]
             y == s[i]
  <2>1. x \in Seq(C) /\ y \in Seq(C) /\ F[i] = x \o y /\ y = Piece(d, i) /\ at[i] = Len(F[i]) /\ at[i - 1] = Len(x)
    BY <1>2, <1>5, <1>6
  <2> HIDE DEF x, y, at
  <2>2. Len(x \o y) = Len(x) + Len(y) /\ (\A j \in 1 .. Len(y) : (x \o y)[Len(x) + j] = y[j])
        /\ \A j \in 1 .. Len(y) : Len(x) + j \in 1 .. Len(x) + Len(y)
    BY <2>1
  <2>3. \A q \in 1 .. at[i] : Text(d)[q] = F[i][q]
    BY <1>6, <1>8
  <2> QED
    BY <2>1, <2>2, <2>3
<1> HIDE DEF at
<1>10. Laid(d, at)
  BY <1>7, <1>8, <1>9 DEF Laid, n, C
<1> QED
  BY <1>10

-----------------------------------------------------------------------------
(* What each character does. *)

\* There is one to read.
Reading == Next /\ text # <<>> /\ table = {}

\* All but the named variables stay.
Ahead == text' = Tail(text) /\ UNCHANGED <<decl, table>>

\* The states have different names, and none means what another one does.
LEMMA MeantIs ==
  /\ Meant["ident"] = {"="} /\ Meant["number"] = DOMAIN Decimal /\ Meant["decimal"] = DOMAIN Decimal
  /\ Meant["octal"] = DOMAIN Octal \cup {"x"} /\ Meant["hex"] = DOMAIN Hex
BY DEF Meant

\* A character of a name is collected.
LEMMA NameCharacter ==
  ASSUME Reading, st = "ident", Head(text) \in Letters
  PROVE  Ahead /\ collect' = Append(collect, Head(text)) /\ UNCHANGED <<st, idx, newidx, newidx_set, found>>
<1>1. Head(text) # "," /\ Head(text) # "="
  BY LettersAlone DEF Others
<1>2. Ident
  BY <1>1, MeantIs DEF Reading, Next, Comma, Assign, FirstDigit, HexMark, NextDigit, Ignore, End, At
<1> QED
  BY <1>2 DEF Ident, Ahead, Reads

\* One without a meaning is ignored.
LEMMA NoMeaning ==
  ASSUME Reading, Head(text) # ",",
         \/ st = "ident" /\ Head(text) = " "
         \/ st = "number" /\ Head(text) \notin DOMAIN Decimal
         \/ st \in {"decimal", "octal", "hex"} /\ Head(text) = "'"
  PROVE  Ahead /\ UNCHANGED <<st, collect, idx, newidx, newidx_set, found>>
<1>1. "'" \notin DOMAIN Decimal /\ "'" \notin DOMAIN Octal /\ "'" \notin DOMAIN Hex /\ " " \notin Letters
  <2>1. "'" \in Others /\ " " \in Others
    BY DEF Others
  <2> QED
    BY <2>1, DigitFacts, LettersAlone
<1>2. Ignore
  BY <1>1, MeantIs DEF Reading, Next, Comma, Ident, Assign, FirstDigit, HexMark, NextDigit, Ignore, End, At
<1> QED
  BY <1>2 DEF Ignore, Ahead, Reads

\* What is behind an equality sign is a value.
LEMMA EqualitySign ==
  ASSUME Reading, st = "ident", Head(text) = "="
  PROVE  Ahead /\ st' = "number" /\ UNCHANGED <<collect, idx, newidx, newidx_set, found>>
<1>1. "=" \notin Letters
  BY LettersAlone DEF Others
<1>2. Assign
  BY <1>1, MeantIs DEF Reading, Next, Comma, Ident, Assign, FirstDigit, HexMark, NextDigit, Ignore, End, At
<1> QED
  BY <1>2 DEF Assign, Ahead, Reads

\* The first digit of a value.
LEMMA FirstOfDigits ==
  ASSUME Reading, st = "number", Head(text) \in DOMAIN Decimal
  PROVE  /\ Ahead /\ st' = (IF Head(text) = "0" THEN "octal" ELSE "decimal")
         /\ newidx' = Decimal[Head(text)] /\ newidx_set' = TRUE /\ UNCHANGED <<collect, idx, found>>
<1>1. Head(text) # ","
  <2>1. "," \in Others
    BY DEF Others
  <2> QED
    BY <2>1, DigitFacts
<1>2. FirstDigit
  BY <1>1, MeantIs DEF Reading, Next, Comma, Ident, Assign, FirstDigit, HexMark, NextDigit, Ignore, End, At
<1> QED
  BY <1>2 DEF FirstDigit, Ahead, Reads

\* A later one.
LEMMA LaterDigit ==
  ASSUME Reading, NEW n \in {[state |-> "decimal", digits |-> Decimal, base |-> 10],
                             [state |-> "octal", digits |-> Octal, base |-> 8],
                             [state |-> "hex", digits |-> Hex, base |-> 16]},
         st = n.state, Head(text) \in DOMAIN n.digits
  PROVE  /\ Ahead /\ newidx' = (newidx * n.base + n.digits[Head(text)]) % Modulus
         /\ UNCHANGED <<st, collect, idx, newidx_set, found>>
<1>1. Head(text) # "," /\ Head(text) # "x"
  <2>1. "," \in Others
    BY DEF Others
  <2>2. n.digits \in {Decimal, Octal, Hex}
    OBVIOUS
  <2>3. Head(text) \in DOMAIN Hex
    BY <2>2, DigitFacts
  <2> QED
    BY <2>1, <2>3, DigitFacts
<1>2. NextDigit(n.state, n.digits, n.base)
  <2>1. CASE n = [state |-> "decimal", digits |-> Decimal, base |-> 10]
    BY <1>1, <2>1, MeantIs DEF Reading, Next, Comma, Ident, Assign, FirstDigit, HexMark, NextDigit, Ignore, End, At
  <2>2. CASE n = [state |-> "octal", digits |-> Octal, base |-> 8]
    BY <1>1, <2>2, MeantIs DEF Reading, Next, Comma, Ident, Assign, FirstDigit, HexMark, NextDigit, Ignore, End, At
  <2>3. CASE n = [state |-> "hex", digits |-> Hex, base |-> 16]
    BY <1>1, <2>3, MeantIs DEF Reading, Next, Comma, Ident, Assign, FirstDigit, HexMark, NextDigit, Ignore, End, At
  <2> QED
    BY <2>1, <2>2, <2>3
<1> QED
  BY <1>2 DEF NextDigit, Ahead, Reads

\* The mark of a hexadecimal number.
LEMMA MarkOfHex ==
  ASSUME Reading, st = "octal", Head(text) = "x"
  PROVE  Ahead /\ st' = "hex" /\ UNCHANGED <<collect, idx, newidx, newidx_set, found>>
<1>1. Head(text) \notin DOMAIN Octal
  BY DigitFacts
<1>2. HexMark
  BY <1>1, MeantIs DEF Reading, Next, Comma, Ident, Assign, FirstDigit, HexMark, NextDigit, Ignore, End, At
<1> QED
  BY <1>2 DEF HexMark, Ahead, Reads

\* A comma.
LEMMA AtComma ==
  ASSUME Reading, Head(text) = ","
  PROVE  /\ Ahead /\ found' = FoundNow
         /\ idx' = (IF collect = <<>> THEN idx ELSE (Enumerator + 1) % Modulus)
         /\ collect' = <<>> /\ newidx_set' = FALSE /\ st' = "ident"
<1>1. Head(text) \notin Letters /\ Head(text) \notin DOMAIN Decimal /\ Head(text) \notin DOMAIN Octal
      /\ Head(text) \notin DOMAIN Hex /\ Head(text) # "x" /\ Head(text) # "="
  <2>1. "," \in Others
    BY DEF Others
  <2>2. \A c \in Others : c \notin DOMAIN Decimal /\ c \notin DOMAIN Octal /\ c \notin DOMAIN Hex
    BY DigitFacts
  <2>3. "," # "x" /\ "," # "="
    OBVIOUS
  <2>4. "," \notin Letters
    BY <2>1, LettersAlone
  <2> QED
    BY <2>1, <2>2, <2>3, <2>4
<1>2. Comma
  BY <1>1, MeantIs DEF Reading, Next, Comma, Ident, Assign, FirstDigit, HexMark, NextDigit, Ignore, End, At
<1> QED
  BY <1>2 DEF Comma, Ahead, Reads

\* What the parser has made of the first k characters of a value.
ValueRead(v, k) ==
  IF k = 0 \/ v \in ConstantNames THEN st = "number" /\ newidx_set = FALSE
  ELSE /\ newidx_set = TRUE /\ newidx = Number(v)[k] % Modulus
       /\ st = IF Notation(v).base = 10 THEN "decimal" ELSE IF Notation(v).base = 8 \/ k < 2 THEN "octal" ELSE "hex"

\* A number is read up to its remainder.
LEMMA Remainders ==
  /\ \A a, c \in Nat : \A b \in {8, 10, 16} : ((a % Modulus) * b + c) % Modulus = (a * b + c) % Modulus
  /\ \A a \in Int : ((a % Modulus) + 1) % Modulus = (a + 1) % Modulus
  /\ \A c \in Nat : c < 16 => c % Modulus = c
<1>1. ASSUME NEW a \in Nat, NEW c \in Nat
      PROVE  /\ ((a % 256) * 8 + c) % 256 = (a * 8 + c) % 256 /\ ((a % 256) * 10 + c) % 256 = (a * 10 + c) % 256
             /\ ((a % 256) * 16 + c) % 256 = (a * 16 + c) % 256
  OBVIOUS
<1>2. \A a \in Int : ((a % 256) + 1) % 256 = (a + 1) % 256
  OBVIOUS
<1>3. \A c \in Nat : c < 16 => c % 256 = c
  OBVIOUS
<1> QED
  BY <1>1, <1>2, <1>3 DEF Modulus

\* Another character of a literal, in its notation.
LEMMA LiteralStep ==
  ASSUME NEW v \in Seq(Characters), v # <<>>, v \notin ConstantNames, Literal(v), NEW k \in 1 .. Len(v) - 1,
         Reading, ValueRead(v, k), Head(text) = v[k + 1]
  PROVE  Ahead /\ ValueRead(v, k + 1)' /\ UNCHANGED <<collect, idx, found>>
<1> DEFINE c == v[k + 1]
           n == Notation(v)
           name == IF n.base = 10 THEN "decimal" ELSE IF n.base = 8 THEN "octal" ELSE "hex"
<1>1. /\ k \in Nat /\ k > 0 /\ k + 1 \in 1 .. Len(v) /\ k + 1 \in 0 .. Len(v) /\ k \in 0 .. Len(v) /\ (k + 1) - 1 = k
      /\ k # 0 /\ k + 1 # 0 /\ ~(k + 1 < 2)
  OBVIOUS
<1>2. newidx_set = TRUE /\ newidx = Number(v)[k] % Modulus
      /\ st = IF n.base = 10 THEN "decimal" ELSE IF n.base = 8 \/ k < 2 THEN "octal" ELSE "hex"
  BY <1>1 DEF ValueRead
<1>3. /\ Number(v)[k] \in Nat /\ Number(v)[k + 1] \in Nat
      /\ Number(v)[k + 1] = IF k + 1 < n.from THEN 0
                            ELSE IF c \in Others THEN Number(v)[k] ELSE Number(v)[k] * n.base + n.digits[c]
  BY <1>1, NumberIs
<1>4. SUFFICES Ahead /\ newidx_set' = TRUE /\ newidx' = Number(v)[k + 1] % Modulus /\ st' = name
               /\ UNCHANGED <<collect, idx, found>>
  BY <1>1 DEF ValueRead
<1> HIDE DEF c, n
<1>5. CASE n.from = 3 /\ k = 1
  <2>1. n = [digits |-> Hex, base |-> 16, from |-> 3] /\ c = "x"
    BY <1>5, LiteralIs DEF n, c
  <2>2. st = "octal" /\ Head(text) = "x" /\ name = "hex"
    BY <1>2, <1>5, <2>1 DEF c
  <2>3. Ahead /\ st' = "hex" /\ UNCHANGED <<collect, idx, newidx, newidx_set, found>>
    BY <2>2, MarkOfHex
  <2>4. Number(v)[2] = 0 /\ Number(v)[1] = 0
    <3>1. 1 \in 1 .. Len(v) /\ 1 < n.from
      BY <1>1, <1>5
    <3>2. Number(v)[1] = 0
      BY <3>1, NumberIs DEF n
    <3> QED
      BY <1>3, <1>5, <3>2
  <2> QED
    BY <1>2, <1>5, <2>2, <2>3, <2>4
<1>6. CASE ~(n.from = 3 /\ k = 1)
  <2>1. /\ n \in {[digits |-> Decimal, base |-> 10, from |-> 1], [digits |-> Octal, base |-> 8, from |-> 1],
                  [digits |-> Hex, base |-> 16, from |-> 3]}
        /\ c \in DOMAIN n.digits \cup {"'"}
    <3>1. k + 1 >= 1 /\ (n.from = 3 => k + 1 >= 3)
      BY <1>1, <1>6
    <3>2. \/ n = [digits |-> Decimal, base |-> 10, from |-> 1] /\ c \in DOMAIN Decimal \cup {"'"}
          \/ n = [digits |-> Octal, base |-> 8, from |-> 1] /\ c \in DOMAIN Octal \cup {"'"}
          \/ n = [digits |-> Hex, base |-> 16, from |-> 3] /\ c \in DOMAIN Hex \cup {"'"}
      <4>1. n.from = 3 => k + 1 \in 3 .. Len(v)
        BY <1>1, <3>1
      <4> QED
        BY <1>1, <4>1, LiteralIs DEF n, c
    <3> QED
      BY <3>2
  <2>2. st = name /\ ~(k + 1 < n.from)
    <3>1. n.base = 16 => n.from = 3
      BY <2>1
    <3>2. n.from = 1 \/ (n.from = 3 /\ k > 1)
      BY <1>1, <1>6, <2>1
    <3>3. n.base \in {8, 10, 16}
      BY <2>1
    <3> QED
      BY <1>1, <1>2, <3>1, <3>2, <3>3
  <2>3. CASE c = "'"
    <3>1. Number(v)[k + 1] = Number(v)[k]
      BY <1>3, <2>2, <2>3 DEF Others
    <3>2. st \in {"decimal", "octal", "hex"} /\ Head(text) = "'" /\ Head(text) # ","
      BY <2>2, <2>3 DEF c
    <3>3. Ahead /\ UNCHANGED <<st, collect, idx, newidx, newidx_set, found>>
      BY <3>2, NoMeaning
    <3> QED
      BY <1>2, <2>2, <3>1, <3>3
  <2>4. CASE c # "'"
    <3>1. c \in DOMAIN n.digits
      BY <2>1, <2>4
    <3>2. c \notin Others /\ n.digits[c] \in Nat /\ n.base \in {8, 10, 16}
      <4>1. n.digits \in {Decimal, Octal, Hex} /\ n.base \in {8, 10, 16}
        BY <2>1
      <4>2. c \in DOMAIN Hex
        BY <3>1, <4>1, DigitFacts
      <4> QED
        BY <3>1, <4>1, <4>2, DigitFacts
    <3> DEFINE r == [state |-> name, digits |-> n.digits, base |-> n.base]
    <3>3. r \in {[state |-> "decimal", digits |-> Decimal, base |-> 10],
                 [state |-> "octal", digits |-> Octal, base |-> 8],
                 [state |-> "hex", digits |-> Hex, base |-> 16]}
      BY <2>1
    <3>4. r.state = name /\ r.digits = n.digits /\ r.base = n.base
      OBVIOUS
    <3> HIDE DEF r, name
    <3>5. /\ Ahead /\ newidx' = (newidx * n.base + n.digits[c]) % Modulus
          /\ UNCHANGED <<st, collect, idx, newidx_set, found>>
      <4>1. st = r.state /\ Head(text) \in DOMAIN r.digits
        BY <2>2, <3>1, <3>4 DEF c
      <4>2. /\ Ahead /\ newidx' = (newidx * r.base + r.digits[Head(text)]) % Modulus
            /\ UNCHANGED <<st, collect, idx, newidx_set, found>>
        BY <3>3, <4>1, LaterDigit
      <4> QED
        BY <3>4, <4>2 DEF c
    <3>6. Number(v)[k + 1] = Number(v)[k] * n.base + n.digits[c]
      BY <1>3, <2>2, <3>2
    <3>7. newidx' = Number(v)[k + 1] % Modulus
      <4> DEFINE a == Number(v)[k]
                 d == n.digits[c]
                 b == n.base
      <4>1. a \in Nat /\ d \in Nat /\ b \in {8, 10, 16} /\ newidx = a % Modulus /\ newidx' = (newidx * b + d) % Modulus
            /\ Number(v)[k + 1] = a * b + d
        BY <1>2, <1>3, <3>2, <3>5, <3>6
      <4> HIDE DEF a, d, b
      <4>2. ((a % Modulus) * b + d) % Modulus = (a * b + d) % Modulus
        BY <4>1, Remainders
      <4> QED
        BY <4>1, <4>2
    <3> QED
      BY <1>2, <2>2, <3>5, <3>7
  <2> QED
    BY <2>3, <2>4
<1> QED
  BY <1>5, <1>6

\* Another character of a value.
LEMMA ValueStep ==
  ASSUME NEW v \in Seq(Characters), v # <<>>, IF v \in ConstantNames THEN Unread(v) ELSE Literal(v),
         NEW k \in 0 .. Len(v) - 1, Reading, ValueRead(v, k), Head(text) = v[k + 1]
  PROVE  Ahead /\ ValueRead(v, k + 1)' /\ UNCHANGED <<collect, idx, found>>
<1>1. CASE v \in ConstantNames
  <2>1. st = "number" /\ newidx_set = FALSE
    BY <1>1 DEF ValueRead
  <2>2. Head(text) \notin DOMAIN Decimal /\ Head(text) # ","
    <3>1. k + 1 \in DOMAIN v /\ Unread(v)
      BY <1>1
    <3> QED
      BY <3>1 DEF Unread
  <2>3. Ahead /\ UNCHANGED <<st, collect, idx, newidx, newidx_set, found>>
    BY <2>1, <2>2, NoMeaning
  <2> QED
    BY <1>1, <2>1, <2>3 DEF ValueRead
<1>2. CASE v \notin ConstantNames /\ k # 0
  <2>1. k \in 1 .. Len(v) - 1 /\ Literal(v)
    BY <1>2
  <2> QED
    BY <1>2, <2>1, LiteralStep
<1>3. CASE v \notin ConstantNames /\ k = 0
  <2>1. st = "number" /\ newidx_set = FALSE /\ Head(text) = v[1] /\ v[1] \in DOMAIN Decimal /\ Literal(v)
    BY <1>3 DEF ValueRead, Literal
  <2>2. /\ Ahead /\ st' = (IF v[1] = "0" THEN "octal" ELSE "decimal")
        /\ newidx' = Decimal[v[1]] /\ newidx_set' = TRUE /\ UNCHANGED <<collect, idx, found>>
    BY <2>1, FirstOfDigits
  <2>3. 1 \in 1 .. Len(v) /\ 1 - 1 = 0
    OBVIOUS
  <2>4. v[1] \notin Others /\ Decimal[v[1]] \in Nat /\ Decimal[v[1]] % Modulus = Decimal[v[1]]
    BY <2>1, DigitFacts, Remainders
  <2>5. newidx' = Number(v)[1] % Modulus /\ st' = IF Notation(v).base = 10 THEN "decimal" ELSE "octal"
    <3> DEFINE n == Notation(v)
    <3>1. Number(v)[0] = 0 /\ Number(v)[1] = IF 1 < n.from THEN 0 ELSE Number(v)[0] * n.base + n.digits[v[1]]
      BY <1>3, <2>1, <2>3, <2>4, NumberIs
    <3>2. CASE v[1] # "0"
      <4>1. n = [digits |-> Decimal, base |-> 10, from |-> 1]
        BY <2>1, <3>2, LiteralIs
      <4>2. Number(v)[1] = Decimal[v[1]]
        BY <2>4, <3>1, <4>1
      <4> QED
        BY <2>2, <2>4, <3>2, <4>1, <4>2
    <3>3. CASE v[1] = "0"
      <4>1. n \in {[digits |-> Octal, base |-> 8, from |-> 1], [digits |-> Hex, base |-> 16, from |-> 3]}
        BY <2>1, <3>3, LiteralIs
      <4>2. Octal["0"] = 0 /\ Decimal["0"] = 0
        BY DigitFacts
      <4>3. Number(v)[1] = 0
        BY <3>1, <3>3, <4>1, <4>2
      <4>4. 0 % Modulus = 0
        BY Remainders
      <4> QED
        BY <2>2, <3>3, <4>1, <4>2, <4>3, <4>4
    <3> QED
      BY <3>2, <3>3
  <2>6. k + 1 = 1
    BY <1>3
  <2> QED
    BY <1>3, <2>2, <2>5, <2>6 DEF ValueRead
<1> QED
  BY <1>1, <1>2, <1>3

\* What the parser has made of the first q characters of an item.
ItemRead(e, q) ==
  LET l == Len(e.name)
  IN  IF q <= l + 1
      THEN st = "ident" /\ newidx_set = FALSE /\ collect = IF q < l THEN SubSeq(e.name, 1, q) ELSE e.name
      ELSE collect = e.name /\ ValueRead(e.value, IF q <= l + 3 THEN 0 ELSE q - (l + 3))

\* The beginnings of a name.
LEMMA Beginnings ==
  ASSUME NEW x \in Seq(Characters), x # <<>>
  PROVE  /\ SubSeq(x, 1, 0) = <<>>
         /\ \A q \in 0 .. Len(x) - 1 :
              Append(SubSeq(x, 1, q), x[q + 1]) = IF q + 1 < Len(x) THEN SubSeq(x, 1, q + 1) ELSE x
<1>1. SubSeq(x, 1, 0) = <<>>
  OBVIOUS
<1>2. ASSUME NEW q \in 0 .. Len(x) - 1
      PROVE  Append(SubSeq(x, 1, q), x[q + 1]) = IF q + 1 < Len(x) THEN SubSeq(x, 1, q + 1) ELSE x
  <2> DEFINE y == SubSeq(x, 1, q)
             z == SubSeq(x, 1, q + 1)
             w == Append(y, x[q + 1])
  <2>1. y \in Seq(Characters) /\ Len(y) = q /\ \A j \in 1 .. q : y[j] = x[j]
    OBVIOUS
  <2>2. z \in Seq(Characters) /\ Len(z) = q + 1 /\ \A j \in 1 .. q + 1 : z[j] = x[j]
    OBVIOUS
  <2>3. x[q + 1] \in Characters
    OBVIOUS
  <2> HIDE DEF y, z
  <2>4. w \in Seq(Characters) /\ Len(w) = q + 1 /\ \A j \in 1 .. q + 1 : w[j] = x[j]
    BY <2>1, <2>3
  <2> HIDE DEF w
  <2>5. w = z
    BY <2>2, <2>4, SameSequences
  <2>6. q + 1 = Len(x) => w = x
    BY <2>4, SameSequences
  <2> QED
    BY <2>5, <2>6 DEF w, y, z
<1> QED
  BY <1>1, <1>2

\* Another character of an item.
LEMMA ItemStep ==
  ASSUME NEW e \in [name : Seq(Characters), value : Seq(Characters)], Declared(e),
         NEW q \in 0 .. Len(Item(e)) - 1, Reading, ItemRead(e, q), Head(text) = Item(e)[q + 1]
  PROVE  Ahead /\ ItemRead(e, q + 1)' /\ UNCHANGED <<idx, found>>
<1> DEFINE x == e.name
           v == e.value
           l == Len(e.name)
<1>1. x \in Seq(Characters) /\ v \in Seq(Characters) /\ x # <<>> /\ l \in Nat /\ l > 0 /\ q \in Nat /\ Len(v) \in Nat
      /\ \A j \in 1 .. l : x[j] \in Letters
  <2>1. x \in Seq(Characters) /\ v \in Seq(Characters)
    OBVIOUS
  <2>2. x # <<>> /\ \A j \in DOMAIN x : x[j] \in Letters
    BY DeclaredName DEF Declared
  <2>3. q \in Nat
    OBVIOUS
  <2> HIDE DEF x, v
  <2>4. Len(x) \in Nat /\ Len(x) > 0 /\ Len(v) \in Nat /\ DOMAIN x = 1 .. Len(x)
    BY <2>1, <2>2
  <2> QED
    BY <2>1, <2>2, <2>3, <2>4 DEF x
<1>2. Len(Item(e)) = l + (IF v = <<>> THEN 0 ELSE 3 + Len(v))
  BY ItemIs
<1>3. CASE q < l
  <2>1. st = "ident" /\ newidx_set = FALSE /\ collect = SubSeq(x, 1, q)
    BY <1>1, <1>3 DEF ItemRead
  <2>2. Head(text) = x[q + 1] /\ x[q + 1] \in Letters
    <3>1. q + 1 \in 1 .. l
      BY <1>1, <1>3
    <3> QED
      BY <1>1, <3>1, ItemIs
  <2>3. Ahead /\ collect' = Append(collect, x[q + 1]) /\ UNCHANGED <<st, idx, newidx, newidx_set, found>>
    BY <2>1, <2>2, NameCharacter
  <2>4. collect' = IF q + 1 < l THEN SubSeq(x, 1, q + 1) ELSE x
    <3>1. q \in 0 .. Len(x) - 1
      BY <1>1, <1>3
    <3> QED
      BY <1>1, <2>1, <2>3, <3>1, Beginnings
  <2>5. q + 1 <= l + 1
    BY <1>1, <1>3
  <2> QED
    BY <2>1, <2>3, <2>4, <2>5 DEF ItemRead
<1>4. CASE q = l
  <2>1. v # <<>>
    BY <1>1, <1>2, <1>4
  <2>2. st = "ident" /\ newidx_set = FALSE /\ collect = x /\ Head(text) = " " /\ Head(text) # ","
    <3>1. q <= l + 1 /\ ~(q < l)
      BY <1>1, <1>4
    <3>2. Head(text) = " "
      BY <1>4, <2>1, ItemIs
    <3>3. " " # ","
      OBVIOUS
    <3> QED
      BY <3>1, <3>2, <3>3 DEF ItemRead
  <2>3. Ahead /\ UNCHANGED <<st, collect, idx, newidx, newidx_set, found>>
    BY <2>2, NoMeaning
  <2>4. q + 1 <= l + 1 /\ ~(q + 1 < l)
    BY <1>1, <1>4
  <2> QED
    BY <2>2, <2>3, <2>4 DEF ItemRead
<1>5. CASE q = l + 1
  <2>1. v # <<>>
    BY <1>1, <1>2, <1>5
  <2>2. q + 1 = l + 2 /\ ~(q < l) /\ q <= l + 1 /\ ~(q + 1 <= l + 1) /\ q + 1 <= l + 3
    BY <1>1, <1>5
  <2>3. st = "ident" /\ newidx_set = FALSE /\ collect = x /\ Head(text) = "="
    BY <2>1, <2>2, ItemIs DEF ItemRead
  <2>4. Ahead /\ st' = "number" /\ UNCHANGED <<collect, idx, newidx, newidx_set, found>>
    BY <2>3, EqualitySign
  <2>5. ValueRead(v, 0)' /\ collect' = x
    BY <2>3, <2>4 DEF ValueRead
  <2> QED
    BY <2>2, <2>4, <2>5 DEF ItemRead
<1>6. CASE q = l + 2
  <2>1. v # <<>>
    BY <1>1, <1>2, <1>6
  <2>2. q + 1 = l + 3 /\ ~(q <= l + 1) /\ q <= l + 3 /\ ~(q + 1 <= l + 1) /\ q + 1 <= l + 3
    BY <1>1, <1>6
  <2>3. st = "number" /\ newidx_set = FALSE /\ collect = x /\ Head(text) = " " /\ Head(text) # ","
    BY <2>1, <2>2, ItemIs DEF ItemRead, ValueRead
  <2>4. " " \notin DOMAIN Decimal
    <3>1. " " \in Others
      BY DEF Others
    <3> QED
      BY <3>1, DigitFacts
  <2>5. Ahead /\ UNCHANGED <<st, collect, idx, newidx, newidx_set, found>>
    BY <2>3, <2>4, NoMeaning
  <2>6. ValueRead(v, 0)' /\ collect' = x
    BY <2>3, <2>5 DEF ValueRead
  <2> QED
    BY <2>2, <2>5, <2>6 DEF ItemRead
<1>7. CASE q >= l + 3
  <2>1. v # <<>>
    BY <1>1, <1>2, <1>7
  <2> DEFINE k == q - (l + 3)
  <2>2. k \in 0 .. Len(v) - 1 /\ k + 1 \in 1 .. Len(v) /\ l + 3 + (k + 1) = q + 1 /\ ~(q <= l + 1) /\ ~(q + 1 <= l + 1)
        /\ ~(q + 1 <= l + 3) /\ (q + 1) - (l + 3) = k + 1 /\ (q <= l + 3 => k = 0)
    BY <1>1, <1>2, <1>7, <2>1
  <2>3. collect = x /\ ValueRead(v, IF q <= l + 3 THEN 0 ELSE k)
    BY <2>2 DEF ItemRead
  <2>4. ValueRead(v, k)
    BY <2>2, <2>3
  <2>5. Head(text) = v[k + 1]
    <3>1. \A j \in 1 .. Len(v) : Item(e)[l + 3 + j] = v[j]
      BY <2>1, ItemIs
    <3>2. Head(text) = Item(e)[l + 3 + (k + 1)]
      BY <2>2
    <3> HIDE DEF k, v, l
    <3> QED
      BY <2>2, <3>1, <3>2
  <2>6. IF v \in ConstantNames THEN Unread(v) ELSE Literal(v)
    BY <2>1 DEF Declared
  <2> HIDE DEF k, v
  <2>7. Ahead /\ ValueRead(v, k + 1)' /\ UNCHANGED <<collect, idx, found>>
    BY <1>1, <2>1, <2>2, <2>4, <2>5, <2>6, ValueStep
  <2> QED
    BY <2>2, <2>3, <2>7 DEF ItemRead, v
<1>8. q < l \/ q = l \/ q = l + 1 \/ q = l + 2 \/ q >= l + 3
  BY <1>1
<1> QED
  BY <1>3, <1>4, <1>5, <1>6, <1>7, <1>8

-----------------------------------------------------------------------------
(* What the parser finds. *)

\* The first i enumerators.
Compiled(d, i) == [h \in 1 .. i |-> [key |-> Keys(AsRead(d))[h] % Modulus, value |-> d[h].name]]

LEMMA CompiledIs ==
  ASSUME NEW d
  PROVE  /\ Compiled(d, 0) = <<>>
         /\ \A i \in Nat \ {0} :
              Append(Compiled(d, i - 1), [key |-> Keys(AsRead(d))[i] % Modulus, value |-> d[i].name]) = Compiled(d, i)
<1> DEFINE E(h) == [key |-> Keys(AsRead(d))[h] % Modulus, value |-> d[h].name]
           C == {E(h) : h \in Nat}
<1>1. ASSUME NEW i \in Nat
      PROVE  Compiled(d, i) \in Seq(C) /\ Len(Compiled(d, i)) = i /\ \A h \in 1 .. i : Compiled(d, i)[h] = E(h)
  <2>1. Compiled(d, i) = [h \in 1 .. i |-> E(h)]
    BY DEF Compiled
  <2>2. \A h \in 1 .. i : E(h) \in C
    OBVIOUS
  <2> HIDE DEF E, C
  <2> QED
    BY <2>1, <2>2
<1>2. Compiled(d, 0) = <<>>
  <2> DEFINE s == Compiled(d, 0)
  <2>1. s \in Seq(C) /\ Len(s) = 0
    BY <1>1
  <2> HIDE DEF s, C
  <2>2. s = <<>>
    BY <2>1
  <2> QED
    BY <2>2 DEF s
<1>3. ASSUME NEW i \in Nat \ {0}
      PROVE  Append(Compiled(d, i - 1), E(i)) = Compiled(d, i)
  <2> DEFINE s == Compiled(d, i - 1)
             t == Compiled(d, i)
             w == Append(s, E(i))
  <2>1. s \in Seq(C) /\ Len(s) = i - 1 /\ \A h \in 1 .. i - 1 : s[h] = E(h)
    <3>1. i - 1 \in Nat
      OBVIOUS
    <3> HIDE DEF E, C
    <3> QED
      BY <1>1, <3>1
  <2>2. t \in Seq(C) /\ Len(t) = i /\ \A h \in 1 .. i : t[h] = E(h)
    BY <1>1
  <2>3. E(i) \in C
    OBVIOUS
  <2> HIDE DEF s, t, E, C
  <2>4. w \in Seq(C) /\ Len(w) = i /\ \A h \in 1 .. i : w[h] = E(h)
    BY <2>1, <2>3
  <2> HIDE DEF w
  <2>5. w = t
    BY <2>2, <2>4, SameSequences
  <2> QED
    BY <2>5 DEF w, s, t
<1> QED
  BY <1>2, <1>3

\* An item read to its end has the key the compiler gives it, up to the end of the type.
LEMMA ItemDone ==
  ASSUME NEW d, Written(d), NEW i \in 1 .. Len(d), ItemRead(d[i], Len(Item(d[i]))),
         found = Compiled(d, i - 1), idx = (Keys(AsRead(d))[i - 1] + 1) % Modulus
  PROVE  collect # <<>> /\ FoundNow = Compiled(d, i) /\ (Enumerator + 1) % Modulus = (Keys(AsRead(d))[i] + 1) % Modulus
<1> DEFINE e == d[i]
           v == d[i].value
           l == Len(d[i].name)
           K == Keys(AsRead(d))
<1>1. e \in [name : Seq(Characters), value : Seq(Characters)] /\ Declared(e)
  BY WrittenItem
<1>2. v \in Seq(Characters) /\ e.name # <<>> /\ l \in Nat /\ Len(v) \in Nat /\ (v # <<>> => Len(v) > 0)
      /\ (v # <<>> => IF v \in ConstantNames THEN Unread(v) ELSE Literal(v))
  <2>1. e.name \in Seq(Characters) /\ v \in Seq(Characters)
    BY <1>1
  <2>2. e.name # <<>> /\ (v # <<>> => IF v \in ConstantNames THEN Unread(v) ELSE Literal(v))
    BY <1>1, DeclaredName DEF Declared
  <2> HIDE DEF v
  <2>3. l \in Nat /\ Len(v) \in Nat /\ (v # <<>> => Len(v) > 0)
    BY <2>1
  <2> QED
    BY <2>1, <2>2, <2>3
<1>3. Len(Item(e)) = l + (IF v = <<>> THEN 0 ELSE 3 + Len(v))
  BY <1>1, ItemIs
<1>4. collect = e.name /\ IF Blank(e) THEN newidx_set = FALSE ELSE newidx_set = TRUE /\ newidx = Number(v)[Len(v)] % Modulus
  <2>1. CASE v = <<>>
    <3>1. Len(Item(e)) = l /\ l <= l + 1 /\ ~(l < l)
      BY <1>2, <1>3, <2>1
    <3> QED
      BY <2>1, <3>1 DEF ItemRead, Blank
  <2>2. CASE v # <<>>
    <3> DEFINE q == Len(Item(e))
    <3>1. ~(q <= l + 1) /\ ~(q <= l + 3) /\ q - (l + 3) = Len(v) /\ Len(v) # 0
      BY <1>2, <1>3, <2>2
    <3>2. collect = e.name /\ ValueRead(v, Len(v))
      BY <3>1 DEF ItemRead
    <3> QED
      BY <2>2, <3>1, <3>2 DEF ValueRead, Blank
  <2> QED
    BY <2>1, <2>2
<1>5. /\ K[i - 1] \in Int /\ K[i] \in Int
      /\ K[i] = IF Blank(e) THEN K[i - 1] + 1 ELSE Number(v)[Len(v)]
  <2>1. i - 1 \in 0 .. Len(d) /\ i \in 0 .. Len(d)
    BY WrittenItem
  <2> QED
    BY <2>1, KeysIs
<1>6. Enumerator = K[i] % Modulus
  BY <1>4, <1>5 DEF Enumerator
<1>7. ((K[i] % Modulus) + 1) % Modulus = (K[i] + 1) % Modulus
  BY <1>5, Remainders
<1>8. FoundNow = Compiled(d, i)
  <2>1. collect # <<>> /\ collect = d[i].name
    BY <1>2, <1>4
  <2>2. FoundNow = Append(Compiled(d, i - 1), [key |-> K[i] % Modulus, value |-> d[i].name])
    BY <1>6, <2>1 DEF FoundNow
  <2>3. i \in Nat \ {0}
    BY WrittenItem
  <2> QED
    BY <2>2, <2>3, CompiledIs
<1> QED
  BY <1>2, <1>4, <1>6, <1>7, <1>8

\* How much of the i-th item is in the first m characters of its piece.
Past(i, m) == IF i = 1 THEN m ELSE IF m <= 2 THEN 0 ELSE m - 2

\* The parser has read the items before the i-th and m characters of its piece.
Within(d, at, i, m) ==
  /\ i \in 1 .. Len(d) /\ m \in 0 .. Len(Piece(d, i)) /\ (i # 1 => m > 0)
  /\ text = Behind(Text(d), at[i - 1] + m)
  /\ ItemRead(d[i], Past(i, m))
  /\ found = Compiled(d, i - 1) /\ idx = (Keys(AsRead(d))[i - 1] + 1) % Modulus

ParserInv ==
  \E d \in Declarations :
    /\ decl = d
    /\ table = {} => \E at : Laid(d, at) /\ \E i, m : Within(d, at, i, m)
    /\ table # {} => found = Compiled(d, Len(d))

\* Every declaration is written as it may be.
LEMMA AllWritten == \A d \in Declarations : Written(d)
<1> SUFFICES ASSUME NEW d \in Declarations PROVE Written(d)
  OBVIOUS
<1> DEFINE Items == [name : Seq(Characters), value : Seq(Characters)]
<1>1. d \in Seq(Items) /\ d # <<>> /\ \A i \in DOMAIN d : Declared(d[i])
  BY DeclarationsWritten
<1> HIDE DEF Items
<1>2. DOMAIN d = 1 .. Len(d)
  BY <1>1
<1> QED
  BY <1>1, <1>2 DEF Written, Items

\* The parser starts before the first item.
LEMMA ParserInit == Init => ParserInv
<1> SUFFICES ASSUME Init PROVE ParserInv
  OBVIOUS
<1>1. PICK d \in Declarations : decl = d
  BY DEF Init
<1>2. Written(d)
  BY AllWritten
<1>3. PICK at : Laid(d, at)
  BY <1>2, TextIs
<1>4. Len(d) \in Nat /\ Len(d) > 0 /\ 1 \in 1 .. Len(d) /\ 1 - 1 = 0
  BY <1>2, WrittenItem
<1>5. Len(Piece(d, 1)) \in Nat
  <2>1. Piece(d, 1) \in Seq(Characters)
    BY <1>2, <1>4, PieceIs
  <2> QED
    BY <2>1
<1>6. text = Behind(Text(d), at[0] + 0)
  <2> DEFINE T == Text(d)
  <2>1. T \in Seq(Characters) /\ at[0] = 0 /\ text = T
    BY <1>1, <1>3 DEF Laid, Init
  <2> HIDE DEF T
  <2>2. SubSeq(T, 1, Len(T)) = T
    BY <2>1
  <2> QED
    BY <2>1, <2>2 DEF Behind, T
<1>7. ItemRead(d[1], 0)
  <2> DEFINE x == d[1].name
  <2>1. x \in Seq(Characters) /\ x # <<>>
    <3>1. d[1] \in [name : Seq(Characters), value : Seq(Characters)] /\ Declared(d[1])
      BY <1>2, <1>4, WrittenItem
    <3> QED
      BY <3>1, DeclaredName DEF Declared
  <2> HIDE DEF x
  <2>2. Len(x) \in Nat /\ Len(x) > 0 /\ SubSeq(x, 1, 0) = <<>>
    BY <2>1, Beginnings
  <2>3. 0 <= Len(x) + 1 /\ 0 < Len(x)
    BY <2>2
  <2> QED
    BY <2>2, <2>3 DEF ItemRead, Init, x
<1>8. found = Compiled(d, 0) /\ idx = (Keys(AsRead(d))[0] + 1) % Modulus
  <2>1. Keys(AsRead(d))[0] = -1
    BY <1>2, KeysIs
  <2>2. (-1 + 1) % 256 = 0
    OBVIOUS
  <2> QED
    BY <2>1, <2>2, CompiledIs DEF Init, Modulus
<1>9. Within(d, at, 1, 0)
  BY <1>4, <1>5, <1>6, <1>7, <1>8 DEF Within, Past
<1> QED
  BY <1>1, <1>3, <1>9 DEF ParserInv, Init

\* Where the parser is in the text.
LEMMA Position ==
  ASSUME NEW d, Written(d), NEW at, Laid(d, at), NEW i, NEW m, Within(d, at, i, m)
  PROVE  /\ text = <<>> <=> m = Len(Piece(d, i)) /\ i = Len(d)
         /\ m < Len(Piece(d, i)) => /\ Head(text) = Piece(d, i)[m + 1]
                                    /\ Tail(text) = Behind(Text(d), at[i - 1] + (m + 1))
         /\ m = Len(Piece(d, i)) /\ i # Len(d) => /\ Head(text) = ","
                                                  /\ Tail(text) = Behind(Text(d), at[(i + 1) - 1] + 1)
<1> DEFINE T == Text(d)
           p == at[i - 1]
           len == Len(Piece(d, i))
<1>1. i \in 1 .. Len(d) /\ i - 1 \in 0 .. Len(d) /\ i \in 0 .. Len(d) /\ Len(d) \in Nat /\ m \in 0 .. len
      /\ text = Behind(T, p + m)
  BY WrittenItem DEF Within
<1>2. T \in Seq(Characters) /\ Len(T) \in Nat /\ at[Len(d)] = Len(T) /\ p \in 0 .. Len(T) /\ at[i] \in 0 .. Len(T)
      /\ at[i] = p + len /\ \A j \in 1 .. len : T[p + j] = Piece(d, i)[j]
  <2>1. T \in Seq(Characters)
    BY DEF Laid
  <2>2. Len(T) \in Nat
    BY <2>1
  <2>3. at[Len(d)] = Len(T) /\ p \in 0 .. Len(T) /\ at[i] \in 0 .. Len(T)
    BY <1>1 DEF Laid
  <2>4. at[i] = p + len /\ \A j \in 1 .. len : T[p + j] = Piece(d, i)[j]
    BY <1>1 DEF Laid
  <2> QED
    BY <2>1, <2>2, <2>3, <2>4
<1>3. \A j \in 1 .. Len(d) : Len(Piece(d, j)) \in Nat /\ Len(Piece(d, j)) > 0
  BY PieceLength
<1>4. len \in Nat /\ m \in Nat /\ m <= len /\ p \in Nat
  BY <1>1, <1>2, <1>3
<1> HIDE DEF T, p, len
<1>5. CASE m < len
  <2>1. p + m \in 0 .. Len(T) /\ p + m < Len(T) /\ m + 1 \in 1 .. len /\ (p + m) + 1 = p + (m + 1)
    BY <1>2, <1>4, <1>5
  <2>2. text # <<>> /\ Head(text) = T[p + (m + 1)] /\ Tail(text) = Behind(T, p + (m + 1))
    <3> DEFINE r == p + m
    <3>1. T \in Seq(Characters) /\ r \in 0 .. Len(T) /\ r < Len(T) /\ text = Behind(T, r) /\ r + 1 = p + (m + 1) /\ r # Len(T)
      BY <1>1, <1>2, <2>1
    <3> HIDE DEF r
    <3>2. text # <<>> /\ Head(text) = T[r + 1] /\ Tail(text) = Behind(T, r + 1)
      BY <3>1, BehindOne
    <3> QED
      BY <3>1, <3>2
  <2>3. Head(text) = Piece(d, i)[m + 1]
    BY <1>2, <2>1, <2>2
  <2>4. m # len
    BY <1>4, <1>5
  <2> QED
    BY <1>5, <2>2, <2>3, <2>4 DEF T, p, len
<1>6. CASE m = len /\ i = Len(d)
  <2>1. p + m = Len(T) /\ p + m \in 0 .. Len(T)
    BY <1>1, <1>2, <1>6
  <2>2. text = <<>>
    BY <1>1, <1>2, <2>1, BehindOne
  <2>3. ~(m < len)
    BY <1>4, <1>6
  <2> QED
    BY <1>6, <2>2, <2>3 DEF len
<1>7. CASE m = len /\ i # Len(d)
  <2>1. i + 1 \in 1 .. Len(d) /\ i + 1 \in 0 .. Len(d) /\ i + 1 # 1 /\ (i + 1) - 1 = i
    BY <1>1, <1>7
  <2>2. Len(Piece(d, i + 1)) \in Nat /\ 1 \in 1 .. Len(Piece(d, i + 1))
    BY <1>3, <2>1
  <2>3. at[i + 1] = at[i] + Len(Piece(d, i + 1)) /\ at[i + 1] \in 0 .. Len(T) /\ T[at[i] + 1] = Piece(d, i + 1)[1]
    BY <2>1, <2>2 DEF Laid, T
  <2>4. p + m = at[i] /\ at[i] < Len(T)
    BY <1>1, <1>2, <1>7, <2>2, <2>3
  <2>5. text # <<>> /\ Head(text) = T[at[i] + 1] /\ Tail(text) = Behind(T, at[i] + 1)
    <3> DEFINE r == at[i]
    <3>1. T \in Seq(Characters) /\ r \in 0 .. Len(T) /\ r < Len(T) /\ text = Behind(T, r) /\ r # Len(T)
      BY <1>1, <1>2, <2>4
    <3> HIDE DEF r
    <3>2. text # <<>> /\ Head(text) = T[r + 1] /\ Tail(text) = Behind(T, r + 1)
      BY <3>1, BehindOne
    <3> QED
      BY <3>2 DEF r
  <2>6. Piece(d, i + 1)[1] = ","
    BY <2>1, PieceIs
  <2>7. ~(m < len)
    BY <1>4, <1>7
  <2>8. Head(text) = "," /\ Tail(text) = Behind(T, at[(i + 1) - 1] + 1)
    BY <2>1, <2>3, <2>5, <2>6
  <2> QED
    BY <1>7, <2>5, <2>7, <2>8 DEF T, len
<1>8. m < len \/ (m = len /\ i = Len(d)) \/ (m = len /\ i # Len(d))
  BY <1>4
<1> QED
  BY <1>5, <1>6, <1>7, <1>8

\* Another character of a declaration.
LEMMA WithinNext ==
  ASSUME NEW d, Written(d), NEW at, Laid(d, at), NEW i, NEW m, Within(d, at, i, m), decl = d, Reading
  PROVE  Ahead /\ \E j, k : Within(d, at, j, k)'
<1>1. i \in 1 .. Len(d) /\ Len(d) \in Nat /\ m \in Nat /\ m <= Len(Piece(d, i)) /\ (i # 1 => m > 0)
      /\ ItemRead(d[i], Past(i, m)) /\ found = Compiled(d, i - 1) /\ idx = (Keys(AsRead(d))[i - 1] + 1) % Modulus
      /\ Len(Piece(d, i)) \in Nat
  <2>1. i \in 1 .. Len(d)
    BY DEF Within
  <2>2. Len(Piece(d, i)) \in Nat
    BY <2>1, PieceLength
  <2> QED
    BY <2>1, <2>2, WrittenItem DEF Within
<1>2. d[i] \in [name : Seq(Characters), value : Seq(Characters)] /\ Declared(d[i])
  BY <1>1, WrittenItem
<1>3. /\ Len(Item(d[i])) \in Nat
      /\ Len(Piece(d, i)) = IF i = 1 THEN Len(Item(d[i])) ELSE 2 + Len(Item(d[i]))
  BY <1>1, PieceLength
<1>4. ASSUME Ahead, ItemRead(d[i], Past(i, m + 1))', UNCHANGED <<idx, found>>, m < Len(Piece(d, i))
      PROVE  Within(d, at, i, m + 1)'
  <2>1. text' = Behind(Text(d), at[i - 1] + (m + 1))
    BY <1>4, Position DEF Ahead
  <2>2. m + 1 \in 0 .. Len(Piece(d, i)) /\ (i # 1 => m + 1 > 0)
    BY <1>1, <1>4
  <2> QED
    BY <1>1, <1>4, <2>1, <2>2 DEF Within
<1>5. CASE m < Len(Piece(d, i)) /\ (i = 1 \/ m >= 2)
  <2> DEFINE q == Past(i, m)
  <2>1. q \in 0 .. Len(Item(d[i])) - 1 /\ Past(i, m + 1) = q + 1 /\ Piece(d, i)[m + 1] = Item(d[i])[q + 1]
    <3>1. CASE i = 1
      <4>1. q = m /\ Past(i, m + 1) = m + 1 /\ Piece(d, i) = Item(d[i])
        BY <1>1, <3>1, PieceIs DEF Past
      <4>2. m \in 0 .. Len(Item(d[i])) - 1
        BY <1>1, <1>3, <1>5, <3>1
      <4> QED
        BY <4>1, <4>2
    <3>2. CASE i # 1
      <4>1. m >= 2 /\ q = m - 2 /\ Past(i, m + 1) = m - 1
        BY <1>1, <1>5, <3>2 DEF Past
      <4>2. Len(Piece(d, i)) = 2 + Len(Item(d[i])) /\ \A j \in 1 .. Len(Item(d[i])) : Piece(d, i)[2 + j] = Item(d[i])[j]
        <5> HIDE DEF q
        <5> QED
          BY <1>1, <1>3, <3>2, PieceIs
      <4>3. m - 1 \in 1 .. Len(Item(d[i])) /\ 2 + (m - 1) = m + 1 /\ q + 1 = m - 1 /\ q \in 0 .. Len(Item(d[i])) - 1
        <5> DEFINE a == Len(Item(d[i]))
                   b == Len(Piece(d, i))
        <5>1. a \in Nat /\ b = 2 + a /\ m \in Nat /\ m < b /\ m >= 2 /\ q = m - 2
          BY <1>1, <1>3, <1>5, <4>1, <4>2
        <5> HIDE DEF a, b, q
        <5>2. m - 1 \in 1 .. a /\ 2 + (m - 1) = m + 1 /\ q + 1 = m - 1 /\ q \in 0 .. a - 1
          BY <5>1
        <5> QED
          BY <5>2 DEF a
      <4> QED
        BY <4>1, <4>2, <4>3
    <3> QED
      BY <3>1, <3>2
  <2> HIDE DEF q
  <2>2. Head(text) = Item(d[i])[q + 1] /\ ItemRead(d[i], q)
    BY <1>1, <1>5, <2>1, Position DEF q
  <2>3. Ahead /\ ItemRead(d[i], q + 1)' /\ UNCHANGED <<idx, found>>
    BY <1>2, <2>1, <2>2, ItemStep
  <2> QED
    BY <1>4, <1>5, <2>1, <2>3
<1>6. CASE m < Len(Piece(d, i)) /\ ~(i = 1 \/ m >= 2)
  <2>1. m = 1 /\ i # 1 /\ Past(i, m) = 0 /\ Past(i, m + 1) = 0 /\ m + 1 = 2
    BY <1>1, <1>6 DEF Past
  <2>2. Head(text) = " " /\ Head(text) # ","
    <3>1. Piece(d, i)[2] = " "
      BY <1>1, <2>1, PieceIs
    <3>2. Head(text) = Piece(d, i)[2]
      BY <1>6, <2>1, Position
    <3>3. " " # ","
      OBVIOUS
    <3> QED
      BY <3>1, <3>2, <3>3
  <2>3. ItemRead(d[i], 0) /\ st = "ident"
    <3>1. ItemRead(d[i], 0)
      BY <1>1, <2>1
    <3>2. 0 <= Len(d[i].name) + 1
      <4> DEFINE x == d[i].name
      <4>1. x \in Seq(Characters)
        BY <1>2
      <4> HIDE DEF x
      <4> QED
        BY <4>1 DEF x
    <3> QED
      BY <3>1, <3>2 DEF ItemRead
  <2>4. Ahead /\ UNCHANGED <<st, collect, idx, newidx, newidx_set, found>>
    BY <2>2, <2>3, NoMeaning
  <2>5. ItemRead(d[i], 0)'
    BY <2>3, <2>4 DEF ItemRead, ValueRead
  <2> QED
    BY <1>4, <1>6, <2>1, <2>4, <2>5
<1>7. CASE m = Len(Piece(d, i))
  <2>1. i # Len(d)
    BY <1>7, Position DEF Reading
  <2>2. Head(text) = "," /\ Tail(text) = Behind(Text(d), at[(i + 1) - 1] + 1)
    BY <1>7, <2>1, Position
  <2>3. Past(i, m) = Len(Item(d[i]))
    <3>1. Len(Item(d[i])) > 0
      BY <1>1, PieceLength
    <3> QED
      BY <1>1, <1>3, <1>7, <3>1 DEF Past
  <2>4. ItemRead(d[i], Len(Item(d[i])))
    BY <1>1, <2>3
  <2>5. collect # <<>> /\ FoundNow = Compiled(d, i) /\ (Enumerator + 1) % Modulus = (Keys(AsRead(d))[i] + 1) % Modulus
    BY <1>1, <2>4, ItemDone
  <2>6. /\ Ahead /\ found' = Compiled(d, i) /\ idx' = (Keys(AsRead(d))[i] + 1) % Modulus
        /\ collect' = <<>> /\ newidx_set' = FALSE /\ st' = "ident"
    BY <2>2, <2>5, AtComma
  <2>7. i + 1 \in 1 .. Len(d) /\ (i + 1) - 1 = i /\ i + 1 # 1 /\ Past(i + 1, 1) = 0
    BY <1>1, <2>1 DEF Past
  <2>8. 1 \in 0 .. Len(Piece(d, i + 1))
    BY <2>7, PieceLength
  <2>9. ItemRead(d[i + 1], 0)'
    <3> DEFINE x == d[i + 1].name
    <3>1. x \in Seq(Characters) /\ x # <<>>
      <4>1. d[i + 1] \in [name : Seq(Characters), value : Seq(Characters)] /\ Declared(d[i + 1])
        BY <2>7, WrittenItem
      <4> QED
        BY <4>1, DeclaredName DEF Declared
    <3> HIDE DEF x
    <3>2. Len(x) \in Nat /\ Len(x) > 0 /\ SubSeq(x, 1, 0) = <<>>
      BY <3>1, Beginnings
    <3>3. 0 <= Len(x) + 1 /\ 0 < Len(x)
      BY <3>2
    <3> QED
      BY <2>6, <3>2, <3>3 DEF ItemRead, x
  <2>10. text' = Behind(Text(d), at[(i + 1) - 1] + 1)
    BY <2>2, <2>6 DEF Ahead
  <2>11. Within(d, at, i + 1, 1)'
    BY <2>6, <2>7, <2>8, <2>9, <2>10 DEF Within
  <2> QED
    BY <2>6, <2>11
<1> QED
  BY <1>1, <1>5, <1>6, <1>7

\* So every step keeps what the parser has found right.
LEMMA ParserNext == ParserInv /\ [Next]_vars => ParserInv'
<1> SUFFICES ASSUME ParserInv, [Next]_vars PROVE ParserInv'
  OBVIOUS
<1>1. PICK d \in Declarations :
        /\ decl = d
        /\ table = {} => \E at : Laid(d, at) /\ \E i, m : Within(d, at, i, m)
        /\ table # {} => found = Compiled(d, Len(d))
  BY DEF ParserInv
<1>2. Written(d)
  BY AllWritten
<1>3. CASE UNCHANGED vars
  <2>1. UNCHANGED <<decl, text, st, collect, idx, newidx, newidx_set, found, table>>
    BY <1>3 DEF vars
  <2>2. ASSUME NEW at, NEW i, NEW m, Within(d, at, i, m)
        PROVE  Within(d, at, i, m)'
    BY <2>1, <2>2 DEF Within, ItemRead, ValueRead
  <2>3. table' = {} => \E at : Laid(d, at) /\ \E i, m : Within(d, at, i, m)'
    BY <1>1, <2>1, <2>2
  <2> QED
    BY <1>1, <2>1, <2>3 DEF ParserInv
<1>4. ASSUME Next
      PROVE  table = {}
  BY <1>4 DEF Next, Comma, Ident, Assign, FirstDigit, HexMark, NextDigit, Ignore, End, Reads
<1>5. CASE Next /\ text # <<>>
  <2>1. PICK at : Laid(d, at) /\ \E i, m : Within(d, at, i, m)
    BY <1>1, <1>4, <1>5
  <2>2. PICK i, m : Within(d, at, i, m)
    BY <2>1
  <2>3. Reading
    BY <1>4, <1>5 DEF Reading
  <2>4. Ahead /\ \E j, k : Within(d, at, j, k)'
    BY <1>1, <1>2, <2>1, <2>2, <2>3, WithinNext
  <2> QED
    BY <1>1, <1>4, <1>5, <2>1, <2>4 DEF ParserInv, Ahead
<1>6. CASE Next /\ text = <<>>
  <2>1. PICK at : Laid(d, at) /\ \E i, m : Within(d, at, i, m)
    BY <1>1, <1>4, <1>6
  <2>2. PICK i, m : Within(d, at, i, m)
    BY <2>1
  <2>3. End
    BY <1>6 DEF Next, Comma, Ident, Assign, FirstDigit, HexMark, NextDigit, Ignore, At
  <2>4. found' = FoundNow /\ table' # {} /\ decl' = decl
    BY <2>3 DEF End
  <2>5. i = Len(d) /\ m = Len(Piece(d, i))
    BY <1>2, <1>6, <2>1, <2>2, Position
  <2>6. i \in 1 .. Len(d) /\ ItemRead(d[i], Past(i, m)) /\ found = Compiled(d, i - 1)
        /\ idx = (Keys(AsRead(d))[i - 1] + 1) % Modulus
    BY <2>2 DEF Within
  <2>7. Past(i, m) = Len(Item(d[i]))
    <3>1. Len(Item(d[i])) \in Nat /\ Len(Item(d[i])) > 0
          /\ Len(Piece(d, i)) = IF i = 1 THEN Len(Item(d[i])) ELSE 2 + Len(Item(d[i]))
      BY <1>2, <2>6, PieceLength
    <3> QED
      BY <2>5, <3>1 DEF Past
  <2>8. FoundNow = Compiled(d, i)
    BY <1>2, <2>6, <2>7, ItemDone
  <2> QED
    BY <1>1, <2>4, <2>5, <2>8 DEF ParserInv
<1> QED
  BY <1>3, <1>5, <1>6

(***************************************************************************)
(* Of every declaration that is written as the macro admits, the parser    *)
(* finds the enumerators with the values the compiler gives them, if the   *)
(* constants among these are left out, up to the end of the type.          *)
(***************************************************************************)
THEOREM EnumeratorsFound == Spec => []ParsedAsCompiled
<1>1. ASSUME ParserInv
      PROVE  ParsedAsCompiled
  <2> SUFFICES ASSUME table # {}
               PROVE  found = [i \in DOMAIN decl |-> [Enumerators(AsRead(decl))[i] EXCEPT !.key = @ % Modulus]]
    BY DEF ParsedAsCompiled
  <2>1. PICK d \in Declarations : decl = d /\ found = Compiled(d, Len(d))
    BY <1>1 DEF ParserInv
  <2>2. Written(d) /\ DOMAIN d = 1 .. Len(d)
    BY AllWritten, WrittenItem
  <2>3. Enumerators(AsRead(d)) = [i \in 1 .. Len(d) |-> [key |-> Keys(AsRead(d))[i], value |-> d[i].name]]
    BY <2>2, KeysIs
  <2>4. Compiled(d, Len(d)) = [i \in 1 .. Len(d) |-> [Enumerators(AsRead(d))[i] EXCEPT !.key = @ % Modulus]]
    BY <2>3 DEF Compiled
  <2> QED
    BY <2>1, <2>2, <2>4
<1> QED
  BY <1>1, ParserInit, ParserNext, PTL DEF Spec

-----------------------------------------------------------------------------
(* The order of names. *)

\* A character has a code of its own.
LEMMA CodeIs ==
  ASSUME NEW c \in Characters
  PROVE  Code(c) \in Nat /\ Codes[Code(c)] = c
<1>1. \E n \in DOMAIN Codes : Codes[n] = c
  BY CharactersCoded DEF ToSet
<1>2. Code(c) \in DOMAIN Codes /\ Codes[Code(c)] = c
  BY <1>1 DEF Code
<1>3. DOMAIN Codes = 1 .. Len(Codes) /\ Len(Codes) \in Nat
  BY CharactersCoded
<1> QED
  BY <1>2, <1>3

\* Of two texts one is less.
LEMMA NamesOrdered ==
  ASSUME NEW a \in Seq(Characters), NEW b \in Seq(Characters), a # b
  PROVE  NameLess(a, b) \/ NameLess(b, a)
<1> DEFINE T == {n \in Nat : n > 0 /\ (n > Len(a) \/ n > Len(b) \/ a[n] # b[n])}
<1>1. Len(a) \in Nat /\ Len(b) \in Nat /\ DOMAIN a = 1 .. Len(a) /\ DOMAIN b = 1 .. Len(b)
  OBVIOUS
<1>2. Len(a) + 1 \in T
  BY <1>1
<1>3. PICK n \in T : \A m \in T : n <= m
  <2>1. T \in SUBSET Nat /\ T # {}
    BY <1>2
  <2> HIDE DEF T
  <2> QED
    BY <2>1, LeastOfNats
<1>4. n \in Nat /\ n > 0 /\ (n > Len(a) \/ n > Len(b) \/ a[n] # b[n])
  OBVIOUS
<1>5. \A i \in 1 .. n - 1 : i <= Len(a) /\ i <= Len(b) /\ a[i] = b[i]
  <2> SUFFICES ASSUME NEW i \in 1 .. n - 1
               PROVE  i <= Len(a) /\ i <= Len(b) /\ a[i] = b[i]
    OBVIOUS
  <2>1. i \in Nat /\ i > 0 /\ ~(n <= i)
    BY <1>4
  <2>2. i \notin T
    BY <1>3, <2>1
  <2> QED
    BY <1>1, <2>1, <2>2
<1> HIDE DEF T
<1>6. CASE n \in DOMAIN a /\ n \in DOMAIN b
  <2>1. a[n] # b[n] /\ a[n] \in Characters /\ b[n] \in Characters
    BY <1>1, <1>4, <1>6
  <2>2. Code(a[n]) \in Nat /\ Code(b[n]) \in Nat /\ Code(a[n]) # Code(b[n])
    BY <2>1, CodeIs
  <2>3. Code(a[n]) < Code(b[n]) \/ Code(b[n]) < Code(a[n])
    BY <2>2
  <2> QED
    BY <1>5, <1>6, <2>3 DEF NameLess
<1>7. CASE n \notin DOMAIN a /\ n \in DOMAIN b
  <2>1. n > Len(a)
    BY <1>1, <1>4, <1>7
  <2> QED
    BY <1>5, <1>7, <2>1 DEF NameLess
<1>8. CASE n \in DOMAIN a /\ n \notin DOMAIN b
  <2>1. n > Len(b)
    BY <1>1, <1>4, <1>8
  <2> QED
    BY <1>5, <1>8, <2>1 DEF NameLess
<1>9. CASE n \notin DOMAIN a /\ n \notin DOMAIN b
  <2>1. n > Len(a) /\ n > Len(b)
    BY <1>1, <1>4, <1>9
  <2>2. ~(n - 1 > Len(a)) /\ ~(n - 1 > Len(b))
    <3>1. CASE n - 1 \in 1 .. n - 1
      BY <1>1, <1>4, <1>5, <3>1
    <3>2. CASE n - 1 \notin 1 .. n - 1
      BY <1>1, <1>4, <3>2
    <3> QED
      BY <3>1, <3>2
  <2>3. Len(a) = n - 1 /\ Len(b) = n - 1
    BY <1>1, <1>4, <2>1, <2>2
  <2>4. \A i \in 1 .. Len(a) : a[i] = b[i]
    BY <1>5, <2>3
  <2>5. a = b
    BY <2>3, <2>4, SameSequences
  <2> QED
    BY <2>5
<1> QED
  BY <1>6, <1>7, <1>8, <1>9

\* None is less than itself.
LEMMA NotBelowItself ==
  ASSUME NEW a \in Seq(Characters)
  PROVE  ~NameLess(a, a)
<1> SUFFICES ASSUME NameLess(a, a) PROVE FALSE
  OBVIOUS
<1>1. PICK n \in DOMAIN a : n > Len(a) \/ Code(a[n]) < Code(a[n])
  BY DEF NameLess
<1>2. n \in Nat /\ n <= Len(a) /\ Len(a) \in Nat /\ a[n] \in Characters
  OBVIOUS
<1>3. Code(a[n]) \in Nat
  BY <1>2, CodeIs
<1> QED
  BY <1>1, <1>2, <1>3

-----------------------------------------------------------------------------
(* Keys that have no name, and names. *)

\* Where nothing is equal to what is sought, nothing is found.
LEMMA NothingEqual ==
  ASSUME NEW n \in Nat, NEW below, NEW equal, equal = {}
  PROVE  LowerBound(n, below, equal) = n
<1>1. PICK search : LowerBound(n, below, equal) =
                      LET first == search[log2[n]].first + search[log2[n]].count
                      IN  IF first < n /\ first \in equal THEN first ELSE n
  BY SearchIs
<1> QED
  BY <1>1

\* A key that no item has is not found.
LEMMA FindsNoKey ==
  ASSUME NEW items, Keyed(items), Len(items) # 0, NEW t, t.items = items, t.sequence <=> IsSequence(items),
         NEW k \in Int, \A i \in 1 .. Len(items) : items[i].key # k
  PROVE  FindKey(t, k) = Len(items)
<1> DEFINE n == Len(items)
           below == {i \in 0 .. n - 1 : items[i + 1].key < k}
           equal == {i \in 0 .. n - 1 : items[i + 1].key = k}
<1>1. n \in Nat /\ DOMAIN items = 1 .. n /\ \A i \in 1 .. n : items[i].key \in Int
  <2>1. PICK V : items \in Seq(V)
    BY DEF Keyed
  <2> QED
    BY <2>1 DEF Keyed
<1>2. FindKey(t, k) =
        IF t.sequence THEN IF k >= items[0 + 1].key /\ k <= items[n - 1 + 1].key THEN k - items[0 + 1].key ELSE n
        ELSE LowerBound(n, below, equal)
  BY DEF FindKey
<1>3. 0 + 1 = 1 /\ n - 1 + 1 = n
  BY <1>1
<1>4. CASE t.sequence /\ k >= items[1].key /\ k <= items[n].key
  <2>1. \A i \in 1 .. n : items[i].key = items[1].key + i - 1
    BY <1>1, <1>4 DEF IsSequence
  <2>2. 1 \in 1 .. n /\ n \in 1 .. n
    BY <1>1
  <2>3. items[1].key \in Int /\ items[n].key = items[1].key + n - 1
    BY <1>1, <2>1, <2>2
  <2> HIDE DEF n
  <2>4. k - items[1].key + 1 \in 1 .. n
    BY <1>1, <1>4, <2>3
  <2>5. items[k - items[1].key + 1].key = items[1].key + (k - items[1].key + 1) - 1
    BY <2>1, <2>4
  <2>6. items[k - items[1].key + 1].key = k
    BY <2>3, <2>5
  <2> QED
    BY <2>4, <2>6 DEF n
<1>5. CASE t.sequence /\ ~(k >= items[1].key /\ k <= items[n].key)
  BY <1>2, <1>3, <1>5
<1>6. CASE ~t.sequence
  <2>1. equal = {}
    <3>1. \A i \in 0 .. n - 1 : i + 1 \in 1 .. n
      BY <1>1
    <3> QED
      BY <3>1
  <2> HIDE DEF below, equal
  <2> QED
    BY <1>1, <1>2, <1>6, <2>1, NothingEqual
<1> QED
  BY <1>4, <1>5, <1>6

\* Items with a text for a value each.
NamedItems(items) == Keyed(items) /\ \A i \in 1 .. Len(items) : items[i].value \in Seq(Characters)

\* Every position is in the index once, and none before that of a lesser name.
Index(items, pos) ==
  /\ \A i \in 1 .. Len(items) : pos[i] \in 0 .. Len(items) - 1
  /\ \A x \in 0 .. Len(items) - 1 : \E i \in 1 .. Len(items) : pos[i] = x
  /\ \A i, j \in 1 .. Len(items) :
       i < j => pos[i] # pos[j] /\ ~NameLess(items[pos[j] + 1].value, items[pos[i] + 1].value)

\* The table of some items.
LEMMA IndexedIs ==
  ASSUME NEW items, Keyed(items), NEW t \in Indexed(items)
  PROVE  t.items = items /\ (t.sequence <=> IsSequence(items)) /\ Len(items) \in Nat /\ Index(items, t.pos)
<1> DEFINE n == Len(items)
           positions == 0 .. n - 1
           by_value == {p \in positions \X positions : NameLess(items[p[1] + 1].value, items[p[2] + 1].value)}
<1>1. n \in Nat
  <2>1. PICK V : items \in Seq(V)
    BY DEF Keyed
  <2> QED
    BY <2>1
<1>2. PICK pos \in Sortings(positions, by_value) : t = [items |-> items, pos |-> pos, sequence |-> IsSequence(items)]
  BY DEF Indexed
<1>3. t.items = items /\ t.pos = pos /\ (t.sequence <=> IsSequence(items))
  BY <1>2
<1>4. \A x, y \in positions : NameLess(items[x + 1].value, items[y + 1].value) => <<x, y>> \in by_value
  OBVIOUS
<1> HIDE DEF by_value
<1>5. IsFiniteSet(positions) /\ Cardinality(positions) = n
  <2>1. 0 \in Int /\ n - 1 \in Int
    BY <1>1
  <2>2. IsFiniteSet(0 .. n - 1) /\ Cardinality(0 .. n - 1) = IF 0 > n - 1 THEN 0 ELSE (n - 1) - 0 + 1
    BY <2>1, FS_Interval
  <2> QED
    BY <1>1, <2>2
<1>6. Sorts(pos, positions, by_value)
  BY <1>2, <1>5, SortingsSort
<1>7. pos \in Seq(positions) /\ Len(pos) = n /\ \A i \in 1 .. n : pos[i] \in positions
  <2>1. pos \in Seq(positions) /\ Len(pos) = n
    BY <1>5, <1>6 DEF Sorts
  <2> HIDE DEF positions
  <2> QED
    BY <2>1
<1>8. \A x \in positions : \E i \in 1 .. n : pos[i] = x
  BY <1>6, <1>7 DEF Sorts
<1>9. \A i, j \in 1 .. n : i < j => pos[i] # pos[j] /\ ~NameLess(items[pos[j] + 1].value, items[pos[i] + 1].value)
  <2> SUFFICES ASSUME NEW i \in 1 .. n, NEW j \in 1 .. n, i < j
               PROVE  pos[i] # pos[j] /\ ~NameLess(items[pos[j] + 1].value, items[pos[i] + 1].value)
    OBVIOUS
  <2>1. pos[i] # pos[j] /\ <<pos[j], pos[i]>> \notin by_value
    BY <1>6, <1>7 DEF Sorts
  <2>2. pos[i] \in positions /\ pos[j] \in positions
    BY <1>7
  <2> HIDE DEF positions
  <2> QED
    BY <1>4, <2>1, <2>2
<1>10. Index(items, pos)
  BY <1>7, <1>8, <1>9 DEF Index
<1> QED
  BY <1>1, <1>3, <1>10

\* A text that no item has is not found.
LEMMA FindsNoName ==
  ASSUME NEW items, Keyed(items), NEW t \in Indexed(items), NEW v, \A i \in 1 .. Len(items) : items[i].value # v
  PROVE  FindValue(t, v) = Len(items)
<1> DEFINE n == Len(items)
           equal == {i \in 0 .. n - 1 : items[t.pos[i + 1] + 1].value = v}
           below == {i \in 0 .. n - 1 : NameLess(items[t.pos[i + 1] + 1].value, v)}
<1>1. t.items = items /\ n \in Nat /\ Index(items, t.pos)
  BY IndexedIs
<1>2. equal = {}
  <2>1. \A i \in 0 .. n - 1 : i + 1 \in 1 .. n
    BY <1>1
  <2>2. \A i \in 0 .. n - 1 : t.pos[i + 1] \in 0 .. n - 1
    BY <1>1, <2>1 DEF Index
  <2>3. \A i \in 0 .. n - 1 : t.pos[i + 1] + 1 \in 1 .. n
    BY <2>1, <2>2
  <2> QED
    BY <2>3
<1>3. FindValue(t, v) = IF LowerBound(n, below, equal) = n THEN n ELSE t.pos[LowerBound(n, below, equal) + 1]
  BY <1>1 DEF FindValue
<1> HIDE DEF below, equal
<1> QED
  BY <1>1, <1>2, <1>3, NothingEqual

\* The text that only one item has is found there.
LEMMA FindsName ==
  ASSUME NEW items, NamedItems(items), NEW t \in Indexed(items), NEW q \in 1 .. Len(items),
         \A i \in 1 .. Len(items) : i # q => items[i].value # items[q].value
  PROVE  FindValue(t, items[q].value) = q - 1
<1> DEFINE n == Len(items)
           v == items[q].value
           name(i) == items[t.pos[i] + 1].value
           below == {i \in 0 .. n - 1 : NameLess(items[t.pos[i + 1] + 1].value, v)}
           equal == {i \in 0 .. n - 1 : items[t.pos[i + 1] + 1].value = v}
<1>1. Keyed(items) /\ \A i \in 1 .. n : items[i].value \in Seq(Characters)
  BY DEF NamedItems
<1>2. t.items = items /\ n \in Nat /\ Index(items, t.pos)
  BY <1>1, IndexedIs
<1>3. /\ \A i \in 1 .. n : t.pos[i] \in 0 .. n - 1
      /\ \A x \in 0 .. n - 1 : \E i \in 1 .. n : t.pos[i] = x
      /\ \A i, j \in 1 .. n :
           i < j => t.pos[i] # t.pos[j] /\ ~NameLess(items[t.pos[j] + 1].value, items[t.pos[i] + 1].value)
  BY <1>2 DEF Index
<1>4. q \in 1 .. n /\ q - 1 \in 0 .. n - 1 /\ (q - 1) + 1 = q
  BY <1>2
<1>5. PICK p \in 1 .. n : t.pos[p] = q - 1
  BY <1>3, <1>4
<1>6. name(p) = v
  BY <1>4, <1>5
<1>7. \A i \in 1 .. n : t.pos[i] + 1 \in 1 .. n /\ name(i) \in Seq(Characters)
  <2>1. \A i \in 1 .. n : t.pos[i] + 1 \in 1 .. n
    BY <1>2, <1>3
  <2> QED
    BY <1>1, <2>1
<1>8. ASSUME NEW i \in 1 .. n, i < p
      PROVE  NameLess(name(i), v)
  <2>1. t.pos[i] # t.pos[p] /\ ~NameLess(name(p), name(i))
    BY <1>3, <1>8
  <2>2. t.pos[i] + 1 # q
    <3>1. t.pos[i] \in 0 .. n - 1
      BY <1>3
    <3>2. \A x \in Int : x # q - 1 => x + 1 # q
      BY <1>2, <1>4
    <3>3. t.pos[i] \in Int /\ t.pos[i] # q - 1
      BY <1>2, <1>5, <2>1, <3>1
    <3> QED
      BY <3>2, <3>3
  <2>3. name(i) # v
    BY <1>7, <2>2
  <2> QED
    BY <1>1, <1>4, <1>6, <1>7, <2>1, <2>3, NamesOrdered
<1>9. ASSUME NEW i \in 1 .. n, ~(i < p)
      PROVE  ~NameLess(name(i), v)
  <2>1. CASE i = p
    BY <1>6, <1>7, <2>1, NotBelowItself
  <2>2. CASE i # p
    <3>1. p < i
      BY <1>2, <1>9, <2>2
    <3>2. ~NameLess(name(i), name(p))
      BY <1>3, <3>1
    <3> QED
      BY <1>6, <3>2
  <2> QED
    BY <2>1, <2>2
<1>10. \A i \in Nat : i \in below <=> i < p - 1
  <2> TAKE i \in Nat
  <2>1. CASE i \in 0 .. n - 1
    <3>1. i + 1 \in 1 .. n /\ (i + 1 < p <=> i < p - 1)
      BY <1>2, <2>1
    <3>2. i \in below <=> NameLess(name(i + 1), v)
      BY <2>1
    <3> HIDE DEF below, name
    <3> QED
      BY <1>8, <1>9, <3>1, <3>2
  <2>2. CASE i \notin 0 .. n - 1
    BY <1>2, <2>2
  <2> QED
    BY <2>1, <2>2
<1>11. p - 1 \in 0 .. n /\ p - 1 < n /\ p - 1 \in 0 .. n - 1 /\ (p - 1) + 1 = p
  BY <1>2
<1>12. p - 1 \in equal
  BY <1>6, <1>11
<1>13. FindValue(t, v) = IF LowerBound(n, below, equal) = n THEN n ELSE t.pos[LowerBound(n, below, equal) + 1]
  BY <1>2 DEF FindValue
<1> HIDE DEF below, equal
<1>14. LowerBound(n, below, equal) = p - 1
  BY <1>2, <1>10, <1>11, <1>12, LowerBoundIs
<1>15. p - 1 # n
  BY <1>11
<1> HIDE DEF v
<1>16. FindValue(t, v) = t.pos[p]
  BY <1>11, <1>13, <1>14, <1>15
<1> QED
  BY <1>5, <1>16 DEF v

\* A name or the default is taken for a key: a name where it is one's key, and else the default.
LEMMA GetValueIs ==
  ASSUME NEW items, Keyed(items), Len(items) # 0, \A i, j \in 1 .. Len(items) : i < j => items[i].key <= items[j].key,
         NEW t, t.items = items, t.sequence <=> IsSequence(items), NEW k \in Int, NEW default
  PROVE  \/ (\A i \in 1 .. Len(items) : items[i].key # k) /\ GetValue(t, k, default) = default
         \/ \E p \in 1 .. Len(items) : items[p].key = k /\ GetValue(t, k, default) = items[p].value
<1>1. Len(items) \in Nat
  <2>1. PICK V : items \in Seq(V)
    BY DEF Keyed
  <2> QED
    BY <2>1
<1>2. CASE \A i \in 1 .. Len(items) : items[i].key # k
  <2>1. FindKey(t, k) = Len(items)
    BY <1>2, FindsNoKey
  <2> QED
    BY <1>2, <2>1 DEF GetValue
<1>3. CASE \E i \in 1 .. Len(items) : items[i].key = k
  <2> DEFINE T == {i \in 1 .. Len(items) : items[i].key = k}
  <2>1. T \in SUBSET Nat /\ T # {}
    BY <1>3
  <2>2. PICK p \in T : \A j \in T : p <= j
    <3> HIDE DEF T
    <3> QED
      BY <2>1, LeastOfNats
  <2>3. p \in 1 .. Len(items) /\ items[p].key = k
    OBVIOUS
  <2>4. ASSUME NEW j \in 1 .. p - 1
        PROVE  items[j].key # k
    <3>1. j \in 1 .. Len(items) /\ ~(p <= j)
      BY <1>1, <2>3
    <3>2. j \notin T
      BY <2>2, <3>1
    <3> QED
      BY <3>1, <3>2
  <2> HIDE DEF T
  <2>5. IsFirst(items, p)
    BY <2>3, <2>4 DEF IsFirst
  <2>6. FindKey(t, items[p].key) = p - 1
    BY <2>5, FindsFirst
  <2>7. FindKey(t, k) = p - 1 /\ p - 1 # Len(items) /\ p - 1 + 1 = p
    BY <1>1, <2>3, <2>6
  <2>8. GetValue(t, k, default) = items[p].value
    BY <2>7 DEF GetValue
  <2> QED
    BY <2>3, <2>8
<1> QED
  BY <1>2, <1>3

\* The table is one of those that what has been found becomes.
ByKey(items) == {p \in (DOMAIN items) \X (DOMAIN items) : items[p[1]].key < items[p[2]].key}
TableInv ==
  table # {} => \E order \in Sortings(DOMAIN found, ByKey(found)) : \E t \in Indexed(InOrder(found, order)) : table = {t}

\* There is no table at the start.
LEMMA TableInit == Init => TableInv
BY DEF Init, TableInv

\* What has been found stays as it is once there is a table.
LEMMA TableNext == TableInv /\ [Next]_vars => TableInv'
<1> SUFFICES ASSUME TableInv, [Next]_vars PROVE TableInv'
  OBVIOUS
<1>1. CASE End
  <2>1. \E order \in Sortings(DOMAIN found', ByKey(found')) : \E t \in Indexed(InOrder(found', order)) : table' = {t}
    BY <1>1 DEF End, ByKey
  <2> QED
    BY <2>1 DEF TableInv
<1>2. CASE UNCHANGED vars
  <2>1. found' = found /\ table' = table
    BY <1>2 DEF vars
  <2> QED
    BY <2>1 DEF TableInv
<1>3. CASE Next /\ ~End
  <2>1. table' = {}
    BY <1>3 DEF Next, Comma, Ident, Assign, FirstDigit, HexMark, NextDigit, Ignore, Reads
  <2> QED
    BY <2>1 DEF TableInv
<1> QED
  BY <1>1, <1>2, <1>3

\* Items in the order of their keys, each of them once.
Permutes(n, order, items, ordered) ==
  /\ \A i \in 1 .. n : order[i] \in 1 .. n /\ ordered[i] = items[order[i]]
  /\ \A j \in 1 .. n : \E i \in 1 .. n : order[i] = j
  /\ \A i, j \in 1 .. n : i # j => order[i] # order[j]
Reordered(items, ordered) ==
  /\ Keyed(ordered) /\ Len(ordered) = Len(items) /\ \A i, j \in 1 .. Len(items) : i < j => ordered[i].key <= ordered[j].key
  /\ \E order : Permutes(Len(items), order, items, ordered)

\* So are those of the table.
LEMMA TableIs ==
  ASSUME Keyed(found), TableInv, table # {}
  PROVE  \E ordered : Reordered(found, ordered) /\ \E t \in Indexed(ordered) : table = {t}
<1> DEFINE n == Len(found)
<1>1. n \in Nat /\ DOMAIN found = 1 .. n
  <2>1. PICK V : found \in Seq(V)
    BY DEF Keyed
  <2> QED
    BY <2>1
<1>2. PICK order \in Sortings(DOMAIN found, ByKey(found)) : \E t \in Indexed(InOrder(found, order)) : table = {t}
  BY DEF TableInv
<1> DEFINE ordered == InOrder(found, order)
<1>3. \A i, j \in DOMAIN found : found[i].key < found[j].key => <<i, j>> \in ByKey(found)
  BY DEF ByKey
<1>4. IsFiniteSet(DOMAIN found)
  <2>1. 1 \in Int /\ n \in Int
    BY <1>1
  <2> QED
    BY <1>1, <2>1, FS_Interval
<1>5. Sorts(order, DOMAIN found, ByKey(found))
  BY <1>2, <1>4, SortingsSort
<1>6. /\ Keyed(ordered) /\ Len(ordered) = n /\ Len(order) = n
      /\ \A i \in 1 .. n : order[i] \in 1 .. n /\ ordered[i] = found[order[i]]
      /\ \A i, j \in 1 .. n : i < j => ordered[i].key <= ordered[j].key
  <2>1. ordered = InOrder(found, order)
    OBVIOUS
  <2> HIDE DEF ordered, n
  <2>2. Keyed(ordered) /\ Len(ordered) = Len(found) /\ Len(order) = Len(found)
    BY <1>3, <1>5, <2>1, InOrderSorted
  <2>3. \A i \in 1 .. Len(found) : order[i] \in 1 .. Len(found) /\ ordered[i] = found[order[i]]
    BY <1>3, <1>5, <2>1, InOrderSorted
  <2>4. \A i, j \in 1 .. Len(found) : i < j => ordered[i].key <= ordered[j].key
    BY <1>3, <1>5, <2>1, InOrderSorted
  <2> QED
    BY <2>2, <2>3, <2>4 DEF n
<1>7. \A j \in 1 .. n : \E i \in 1 .. n : order[i] = j
  BY <1>1, <1>5, <1>6 DEF Sorts
<1>8. \A i, j \in 1 .. n : i # j => order[i] # order[j]
  <2>1. \A i, j \in 1 .. n : i < j => order[i] # order[j]
    BY <1>5, <1>6 DEF Sorts
  <2>2. \A i, j \in 1 .. n : i # j => i < j \/ j < i
    BY <1>1
  <2> QED
    BY <2>1, <2>2
<1>9. Reordered(found, ordered)
  <2> HIDE DEF ordered
  <2>1. Permutes(n, order, found, ordered)
    BY <1>6, <1>7, <1>8 DEF Permutes
  <2> QED
    BY <1>6, <2>1 DEF Reordered
<1> QED
  BY <1>2, <1>9

-----------------------------------------------------------------------------
(* Names and values, back and forth. *)

\* Of a declaration without constants, what the parser finds is what the compiler makes of it.
LEMMA NumbersCompiled ==
  ASSUME NEW d, Written(d), Compiles(d), Numbers(d)
  PROVE  /\ Compiled(d, Len(d)) = Enumerators(d)
         /\ \A i \in 1 .. Len(d) : Compiled(d, Len(d))[i].key \in Nat /\ Compiled(d, Len(d))[i].value = d[i].name
<1> DEFINE n == Len(d)
           key == Keys(AsRead(d))
           Items == [name : Seq(Characters), value : Seq(Characters)]
<1>1. n \in Nat /\ n > 0 /\ DOMAIN d = 1 .. n /\ \A i \in 1 .. n : d[i] \in Items /\ Declared(d[i])
  BY WrittenItem
<1>2. AsRead(d) = d
  <2>1. AsRead(d) = [i \in 1 .. n |-> d[i]]
    <3>1. \A i \in 1 .. n : d[i].value \notin ConstantNames
      BY <1>1 DEF Numbers
    <3> QED
      BY <1>1, <3>1 DEF AsRead
  <2>2. d \in Seq(Items)
    BY DEF Written
  <2> HIDE DEF Items
  <2>3. d = [i \in 1 .. n |-> d[i]]
    BY <2>2
  <2> QED
    BY <2>1, <2>3
<1>3. /\ key[0] = -1 /\ \A i \in 0 .. n : key[i] \in Int
      /\ \A i \in 1 .. n : key[i] = IF Blank(d[i]) THEN key[i - 1] + 1 ELSE Number(d[i].value)[Len(d[i].value)]
  BY KeysIs
<1>4. Enumerators(d) = [i \in 1 .. n |-> [key |-> key[i], value |-> d[i].name]]
  <2>1. Enumerators(AsRead(d)) = [i \in 1 .. n |-> [key |-> key[i], value |-> d[i].name]]
    BY KeysIs
  <2> QED
    BY <1>2, <2>1
<1> HIDE DEF key
<1>5. \A i \in 1 .. n : ~Blank(d[i]) => Number(d[i].value)[Len(d[i].value)] \in Nat
  <2> SUFFICES ASSUME NEW i \in 1 .. n, ~Blank(d[i])
               PROVE  Number(d[i].value)[Len(d[i].value)] \in Nat
    OBVIOUS
  <2> DEFINE v == d[i].value
  <2>1. v \in Seq(Characters)
    BY <1>1
  <2>2. v # <<>> /\ v \notin ConstantNames
    BY DEF Blank
  <2>3. Literal(v)
    BY <1>1, <2>2 DEF Declared
  <2> HIDE DEF v
  <2>4. Len(v) \in 0 .. Len(v)
    BY <2>1
  <2> QED
    BY <2>1, <2>2, <2>3, <2>4, NumberIs DEF v
<1>6. \A i \in 0 .. n : key[i] >= -1 /\ (i > 0 => key[i] >= 0)
  <2> DEFINE T == {i \in 0 .. n : key[i] >= -1 /\ (i > 0 => key[i] >= 0)}
  <2>1. 0 \in T
    BY <1>1, <1>3
  <2>2. ASSUME NEW i \in 1 .. n, i - 1 \in T
        PROVE  i \in T
    <3>1. i \in 0 .. n /\ i - 1 \in 0 .. n /\ key[i - 1] \in Int /\ key[i - 1] >= -1
      BY <1>1, <1>3, <2>2
    <3>2. key[i] >= 0
      <4>1. CASE Blank(d[i])
        BY <1>3, <3>1, <4>1
      <4>2. CASE ~Blank(d[i])
        <5>1. key[i] = Number(d[i].value)[Len(d[i].value)]
          BY <1>3, <4>2
        <5> QED
          BY <1>5, <4>2, <5>1
      <4> QED
        BY <4>1, <4>2
    <3>3. key[i] \in Int
      BY <1>3, <3>1
    <3> QED
      BY <3>1, <3>2, <3>3
  <2> HIDE DEF T, n
  <2>3. \A i \in 0 .. n : i \in T
    BY <1>1, <2>1, <2>2, CountsUp
  <2> QED
    BY <2>3 DEF T
<1>7. \A i \in 1 .. n : key[i] \in Nat /\ key[i] < Modulus
  <2> TAKE i \in 1 .. n
  <2>1. i \in 0 .. n /\ i > 0
    BY <1>1
  <2>2. key[i] \in Nat
    BY <1>3, <1>6, <2>1
  <2>3. Enumerators(d)[i] \in ToSet(Enumerators(d))
    BY <1>4 DEF ToSet
  <2>4. Enumerators(d)[i].key < Modulus
    BY <2>3 DEF Compiles
  <2> QED
    BY <1>4, <2>2, <2>4
<1>8. \A i \in 1 .. n : key[i] % Modulus = key[i]
  <2>1. \A x \in Nat : x < 256 => x % 256 = x
    OBVIOUS
  <2> QED
    BY <1>7, <2>1 DEF Modulus
<1>9. Compiled(d, n) = [i \in 1 .. n |-> [key |-> key[i] % Modulus, value |-> d[i].name]]
  BY DEF Compiled, key
<1>10. Compiled(d, n) = [i \in 1 .. n |-> [key |-> key[i], value |-> d[i].name]]
  <2> HIDE DEF n
  <2> QED
    BY <1>8, <1>9
<1> HIDE DEF n
<1>11. \A i \in 1 .. n : Compiled(d, n)[i].key \in Nat /\ Compiled(d, n)[i].value = d[i].name
  BY <1>7, <1>10
<1> QED
  BY <1>4, <1>10, <1>11 DEF n

(***************************************************************************)
(* Of every declaration of numbers, the table gives for a value one of     *)
(* the names that are declared for it, or none, and for a name its value,  *)
(* or zero.                                                                *)
(***************************************************************************)
THEOREM NamesConverted == Spec => []BackAndForth
<1>1. ASSUME ParserInv, EnumInv, TableInv
      PROVE  BackAndForth
  <2> DEFINE declared == ToSet(Enumerators(decl))
  <2> SUFFICES ASSUME table # {}, Numbers(decl)
               PROVE  /\ \A v \in 0 .. 2 * Len(decl) + 1 : IF NamesOf(v) = {} THEN to_string(v) = <<>> ELSE to_string(v) \in NamesOf(v)
                      /\ \A e \in declared : from_string(e.value) = e.key /\ to_string(e.key) # <<>>
                      /\ \A e, f \in declared : Declares(e.value \o f.value) \/ from_string(e.value \o f.value) = 0
    BY DEF BackAndForth
  <2>1. PICK d \in Declarations : decl = d /\ found = Compiled(d, Len(d))
    BY <1>1 DEF ParserInv
  <2> DEFINE n == Len(d)
  <2>2. Written(d) /\ n \in Nat /\ n > 0 /\ DOMAIN d = 1 .. n
        /\ \A i \in 1 .. n : d[i].name \in Seq(Characters) /\ d[i].name # <<>>
    <3>1. Written(d)
      BY AllWritten
    <3>2. n \in Nat /\ n > 0 /\ DOMAIN d = 1 .. n
          /\ \A i \in 1 .. n : d[i] \in [name : Seq(Characters), value : Seq(Characters)] /\ Declared(d[i])
      BY <3>1, WrittenItem
    <3> QED
      BY <3>1, <3>2, DeclaredName
  <2>3. Compiles(d) /\ Numbers(d)
    BY <2>1, DeclarationsCompile
  <2>4. found = Enumerators(d) /\ \A i \in 1 .. n : found[i].key \in Nat /\ found[i].value = d[i].name
    BY <2>1, <2>2, <2>3, NumbersCompiled
  <2>5. Len(found) = n /\ DOMAIN found = 1 .. n
    BY <2>1, <2>2 DEF Compiled
  <2>6. \A i, j \in 1 .. n : i # j => found[i].value # found[j].value
    BY <2>2, <2>3, <2>4 DEF Compiles
  <2>7. declared = {found[i] : i \in 1 .. n}
    BY <2>1, <2>4, <2>5 DEF ToSet
  <2> HIDE DEF n, declared
  <2>8. PICK ordered : Reordered(found, ordered) /\ \E t \in Indexed(ordered) : table = {t}
    BY <1>1, TableIs DEF EnumInv
  <2>9. PICK t \in Indexed(ordered) : table = {t}
    BY <2>8
  <2>10. Keyed(ordered) /\ Len(ordered) = n /\ \A i, j \in 1 .. n : i < j => ordered[i].key <= ordered[j].key
    BY <2>5, <2>8 DEF Reordered
  <2>11. PICK order : Permutes(n, order, found, ordered)
    BY <2>5, <2>8 DEF Reordered
  <2>12. /\ \A i \in 1 .. n : order[i] \in 1 .. n /\ ordered[i] = found[order[i]]
         /\ \A j \in 1 .. n : \E i \in 1 .. n : order[i] = j
         /\ \A i, j \in 1 .. n : i # j => order[i] # order[j]
    BY <2>11 DEF Permutes
  <2>13. \A i \in 1 .. n : ordered[i] \in declared
    BY <2>7, <2>12
  <2>14. \A e \in declared : \E q \in 1 .. n : ordered[q] = e
    <3> SUFFICES ASSUME NEW j \in 1 .. n
                 PROVE  \E q \in 1 .. n : ordered[q] = found[j]
      BY <2>7
    <3>1. PICK q \in 1 .. n : order[q] = j
      BY <2>12
    <3> QED
      BY <2>12, <3>1
  <2>15. t.items = ordered /\ (t.sequence <=> IsSequence(ordered))
    BY <2>9, <2>10, IndexedIs
  <2>16. \A e \in declared : e.key \in Nat /\ e.value \in Seq(Characters) /\ e.value # <<>>
    BY <2>2, <2>4, <2>7
  <2>17. \A v, name : to_string(v) = GetValue(t, v, <<>>) /\ from_string(name) = GetKey(t, name, 0)
    BY <2>9 DEF to_string, from_string
  <2>18. ASSUME NEW v \in Int
         PROVE  \/ (\A e \in declared : e.key # v) /\ to_string(v) = <<>>
                \/ \E e \in declared : e.key = v /\ to_string(v) = e.value
    <3> DEFINE name == GetValue(t, v, <<>>)
    <3>1. Keyed(ordered) /\ Len(ordered) # 0 /\ \A i, j \in 1 .. Len(ordered) : i < j => ordered[i].key <= ordered[j].key
      BY <2>2, <2>10 DEF n
    <3>2. \/ (\A i \in 1 .. Len(ordered) : ordered[i].key # v) /\ name = <<>>
          \/ \E p \in 1 .. Len(ordered) : ordered[p].key = v /\ name = ordered[p].value
      BY <2>15, <3>1, GetValueIs
    <3> HIDE DEF name
    <3>3. to_string(v) = name
      BY <2>17 DEF name
    <3> QED
      BY <2>10, <2>13, <2>14, <3>2, <3>3
  <2>19. ASSUME NEW v \in 0 .. 2 * Len(decl) + 1
         PROVE  IF NamesOf(v) = {} THEN to_string(v) = <<>> ELSE to_string(v) \in NamesOf(v)
    <3>1. v \in Int
      OBVIOUS
    <3>2. \/ (\A e \in declared : e.key # v) /\ to_string(v) = <<>>
          \/ \E e \in declared : e.key = v /\ to_string(v) = e.value
      BY <2>18, <3>1
    <3>3. NamesOf(v) = {e.value : e \in {x \in declared : x.key = v}}
      BY DEF NamesOf, declared
    <3> QED
      BY <3>2, <3>3
  <2>20. ASSUME NEW e \in declared
         PROVE  from_string(e.value) = e.key /\ to_string(e.key) # <<>>
    <3>1. PICK q \in 1 .. n : ordered[q] = e
      BY <2>14
    <3>2. NamedItems(ordered)
      BY <2>10, <2>13, <2>16 DEF NamedItems
    <3>3. \A i \in 1 .. n : i # q => ordered[i].value # ordered[q].value
      BY <2>6, <2>12
    <3>4. FindValue(t, ordered[q].value) = q - 1
      BY <2>10, <3>2, <3>3, FindsName
    <3>5. q - 1 # n /\ q - 1 + 1 = q
      BY <2>2 DEF n
    <3>6. GetKey(t, e.value, 0) = e.key
      BY <2>10, <2>15, <3>1, <3>4, <3>5 DEF GetKey
    <3>7. e.key \in Int
      BY <2>16
    <3>8. to_string(e.key) # <<>>
      BY <2>16, <2>18, <3>7
    <3> QED
      BY <2>17, <3>6, <3>8
  <2>21. ASSUME NEW name, \A e \in declared : e.value # name
         PROVE  from_string(name) = 0
    <3>1. \A i \in 1 .. Len(ordered) : ordered[i].value # name
      BY <2>10, <2>13, <2>21
    <3>2. FindValue(t, name) = Len(ordered)
      BY <2>10, <3>1, FindsNoName
    <3>3. GetKey(t, name, 0) = 0
      BY <2>15, <3>2 DEF GetKey
    <3> QED
      BY <2>17, <3>3
  <2>22. ASSUME NEW e \in declared, NEW f \in declared
         PROVE  Declares(e.value \o f.value) \/ from_string(e.value \o f.value) = 0
    BY <2>21 DEF Declares, declared
  <2> QED
    BY <2>19, <2>20, <2>22
<1> QED
  BY <1>1, ParserInit, ParserNext, EnumInit, EnumNext, TableInit, TableNext, PTL DEF Spec
=============================================================================
