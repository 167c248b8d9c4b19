---------------------------- MODULE RangeProofs ----------------------------
(* Theorems about what Storage reads of a range of keys: the order of the  *)
(* keys, the sorted keys of a range, and the fills, variables and orders   *)
(* that the strategies get of it.                                          *)
EXTENDS StorageProofs

-----------------------------------------------------------------------------
(* The order of keys. *)

(* At the n-th byte a is before b.                                         *)
BeforeAt(n, a, b) ==
  /\ \A i \in 1 .. n - 1 : i <= Len(a) /\ a[i] = b[i]
  /\ n > Len(a) \/ a[n] < b[n]

\* Before, with the place of the first difference named.
LEMMA BeforeMeans ==
  ASSUME NEW a \in Seq(Nat), NEW b \in Seq(Nat)
  PROVE  Before(a, b) <=> \E n \in 1 .. Len(b) : BeforeAt(n, a, b)
<1>1. DOMAIN b = 1 .. Len(b)
  OBVIOUS
<1> QED
  BY <1>1 DEF Before, BeforeAt

\* No byte string is before itself.
LEMMA BeforeIrreflexive ==
  ASSUME NEW a \in Seq(Nat)
  PROVE  ~Before(a, a)
<1>1. \A n \in 1 .. Len(a) : a[n] \in Nat
  OBVIOUS
<1> QED
  BY <1>1, BeforeMeans DEF BeforeAt

\* The order of the naturals is transitive.
LEMMA LessTransitive ==
  ASSUME NEW x \in Nat, NEW y \in Nat, NEW z \in Nat, x < y, y < z
  PROVE  x < z
OBVIOUS

\* The order of byte strings is transitive: the earlier of the two first differences decides.
LEMMA BeforeTransitive ==
  ASSUME NEW a \in Seq(Nat), NEW b \in Seq(Nat), NEW c \in Seq(Nat), Before(a, b), Before(b, c)
  PROVE  Before(a, c)
<1>1. PICK n \in 1 .. Len(b) : BeforeAt(n, a, b)
  BY BeforeMeans
<1>2. PICK m \in 1 .. Len(c) : BeforeAt(m, b, c)
  BY BeforeMeans
<1>3. /\ \A i \in 1 .. Len(a) : a[i] \in Nat
      /\ \A i \in 1 .. Len(b) : b[i] \in Nat
      /\ \A i \in 1 .. Len(c) : c[i] \in Nat
  BY SMTT(60)
<1>4. CASE n < m
  <2>1. BeforeAt(n, a, c)
    BY <1>1, <1>2, <1>4 DEF BeforeAt
  <2> QED
    BY <1>4, <2>1, BeforeMeans
<1>5. CASE m < n
  <2>1. BeforeAt(m, a, c)
    BY <1>1, <1>2, <1>5, SMTT(60) DEF BeforeAt
  <2> QED
    BY <2>1, BeforeMeans
<1>6. CASE n = m
  <2>1. \A i \in 1 .. m - 1 : i <= Len(a) /\ a[i] = c[i]
    BY <1>1, <1>2, <1>6 DEF BeforeAt
  <2>2. m <= Len(a) => a[m] < b[m] /\ a[m] \in Nat
    BY <1>1, <1>3, <1>6 DEF BeforeAt
  <2>3. b[m] < c[m] /\ b[m] \in Nat /\ c[m] \in Nat
    <3>1. m \in 1 .. Len(b) /\ m \in 1 .. Len(c) /\ ~(m > Len(b))
      BY <1>6
    <3>2. b[m] \in Nat /\ c[m] \in Nat
      BY <1>3, <3>1
    <3>3. m > Len(b) \/ b[m] < c[m]
      BY <1>2 DEF BeforeAt
    <3> QED
      BY <3>1, <3>2, <3>3
  <2>4. m > Len(a) \/ a[m] < c[m]
    <3>1. m \in Int /\ Len(a) \in Int
      OBVIOUS
    <3>2. CASE m <= Len(a)
      <4>1. a[m] < b[m] /\ a[m] \in Nat
        BY <2>2, <3>2
      <4> QED
        BY <2>3, <4>1, LessTransitive
    <3> QED
      BY <3>1, <3>2
  <2>5. BeforeAt(m, a, c)
    BY <2>1, <2>4 DEF BeforeAt
  <2> QED
    BY <2>5, BeforeMeans
<1> QED
  BY <1>4, <1>5, <1>6

\* Two byte strings are ordered one way or the other.
LEMMA BeforeTotal ==
  ASSUME NEW a \in Seq(Nat), NEW b \in Seq(Nat), a # b
  PROVE  Before(a, b) \/ Before(b, a)
<1> DEFINE T == {i \in Nat \ {0} : /\ i <= Len(a) \/ i <= Len(b)
                                   /\ i > Len(a) \/ i > Len(b) \/ a[i] # b[i]}
<1>1. T # {}
  <2>1. CASE Len(a) = Len(b)
    <3>1. PICK i \in 1 .. Len(a) : a[i] # b[i]
      BY <2>1, SameSequences
    <3> QED
      BY <3>1
  <2>2. CASE Len(a) < Len(b)
    BY <2>2, SMTT(60)
  <2>3. CASE Len(b) < Len(a)
    BY <2>3
  <2> QED
    BY <2>1, <2>2, <2>3
<1>2. T \in SUBSET Nat
  OBVIOUS
<1>3. PICK n \in T : \A i \in T : n <= i
  <2> HIDE DEF T
  <2> QED
    BY <1>1, <1>2, LeastNat
<1>4. n \in Nat \ {0} /\ (n <= Len(a) \/ n <= Len(b)) /\ (n > Len(a) \/ n > Len(b) \/ a[n] # b[n])
  OBVIOUS
<1>5. \A i \in 1 .. n - 1 : i <= Len(a) /\ i <= Len(b) /\ a[i] = b[i]
  <2> SUFFICES ASSUME NEW i \in 1 .. n - 1 PROVE i <= Len(a) /\ i <= Len(b) /\ a[i] = b[i]
    OBVIOUS
  <2>1. i \notin T /\ i \in Nat \ {0} /\ i < n
    BY <1>3, <1>4
  <2> QED
    BY <1>4, <2>1
<1> HIDE DEF T
<1>6. CASE n <= Len(b) /\ n > Len(a)
  <2>1. BeforeAt(n, a, b)
    BY <1>5, <1>6 DEF BeforeAt
  <2> QED
    BY <1>4, <1>6, <2>1, BeforeMeans
<1>7. CASE n <= Len(a) /\ n > Len(b)
  <2>1. BeforeAt(n, b, a)
    BY <1>5, <1>7 DEF BeforeAt
  <2> QED
    BY <1>4, <1>7, <2>1, BeforeMeans
<1>8. CASE n <= Len(a) /\ n <= Len(b)
  <2>1. a[n] \in Nat /\ b[n] \in Nat /\ a[n] # b[n]
    BY <1>4, <1>8
  <2>2. BeforeAt(n, a, b) \/ BeforeAt(n, b, a)
    BY <1>5, <2>1 DEF BeforeAt
  <2> QED
    BY <1>4, <1>8, <2>2, BeforeMeans
<1> QED
  BY <1>4, <1>6, <1>7, <1>8

\* Two byte strings are not ordered both ways.
LEMMA BeforeAsymmetric ==
  ASSUME NEW a \in Seq(Nat), NEW b \in Seq(Nat), Before(a, b)
  PROVE  ~Before(b, a)
<1> SUFFICES ASSUME Before(b, a) PROVE FALSE
  OBVIOUS
<1>1. Before(a, a)
  BY BeforeTransitive
<1> QED
  BY <1>1, BeforeIrreflexive

(* The bytes of two sequences, one after the other.                        *)
Joins(k, p, a) ==
  /\ k \in Seq(Nat) /\ Len(k) = Len(p) + Len(a)
  /\ \A i \in 1 .. Len(p) : k[i] = p[i]
  /\ \A i \in 1 .. Len(a) : k[Len(p) + i] = a[i]

\* A concatenation holds its first part, then its second.
LEMMA Joined ==
  ASSUME NEW p \in Seq(Nat), NEW a \in Seq(Nat)
  PROVE  Joins(p \o a, p, a) /\ IsPrefix(p, p \o a)
<1>1. PICK k : k = p \o a
  OBVIOUS
<1>2. /\ k \in Seq(Nat) /\ Len(k) = Len(p) + Len(a)
      /\ \A i \in 1 .. Len(p) : k[i] = p[i]
      /\ \A i \in 1 .. Len(a) : k[Len(p) + i] = a[i]
  BY <1>1
<1>3. Len(p) <= Len(k)
  BY <1>2
<1>4. IsPrefix(p, k)
  BY <1>2, <1>3, IsPrefixMeans
<1> QED
  BY <1>1, <1>2, <1>4 DEF Joins

(* What keys begin with alike does not matter.                             *)
LEMMA BeforeShifted ==
  ASSUME NEW p \in Seq(Nat), NEW a \in Seq(Nat), NEW b \in Seq(Nat), Before(a, b)
  PROVE  Before(p \o a, p \o b)
<1>1. PICK u : u = p \o a
  OBVIOUS
<1>2. PICK v : v = p \o b
  OBVIOUS
<1>3. /\ u \in Seq(Nat) /\ Len(u) = Len(p) + Len(a)
      /\ \A i \in 1 .. Len(p) : u[i] = p[i]
      /\ \A i \in 1 .. Len(a) : u[Len(p) + i] = a[i]
  <2>1. Joins(u, p, a)
    BY <1>1, Joined
  <2> QED
    BY <2>1 DEF Joins
<1>4. /\ v \in Seq(Nat) /\ Len(v) = Len(p) + Len(b)
      /\ \A i \in 1 .. Len(p) : v[i] = p[i]
      /\ \A i \in 1 .. Len(b) : v[Len(p) + i] = b[i]
  <2>1. Joins(v, p, b)
    BY <1>2, Joined
  <2> QED
    BY <2>1 DEF Joins
<1>5. PICK n \in 1 .. Len(b) : BeforeAt(n, a, b)
  BY BeforeMeans
<1>6. PICK m \in 1 .. Len(v) : m = Len(p) + n
  <2>1. Len(p) + n \in 1 .. Len(v)
    BY <1>4
  <2> QED
    BY <2>1
<1>7. ASSUME NEW i \in 1 .. m - 1
      PROVE  i <= Len(u) /\ u[i] = v[i]
  <2>1. CASE i <= Len(p)
    BY <1>3, <1>4, <2>1
  <2>2. CASE i > Len(p)
    <3>1. PICK j \in 1 .. n - 1 : i = Len(p) + j
      <4>1. i - Len(p) \in 1 .. n - 1 /\ i = Len(p) + (i - Len(p))
        BY <1>6, <2>2
      <4> QED
        BY <4>1
    <3>2. j <= Len(a) /\ a[j] = b[j]
      BY <1>5, <3>1 DEF BeforeAt
    <3>3. j \in 1 .. Len(a) /\ j \in 1 .. Len(b)
      BY <3>2
    <3> QED
      BY <1>3, <1>4, <3>1, <3>2, <3>3
  <2> QED
    BY <2>1, <2>2
<1>8. m > Len(u) \/ u[m] < v[m]
  <2>1. n > Len(a) \/ a[n] < b[n]
    BY <1>5 DEF BeforeAt
  <2>2. CASE n > Len(a)
    BY <1>3, <1>6, <2>2
  <2>3. CASE n <= Len(a) /\ a[n] < b[n]
    <3>1. n \in 1 .. Len(a)
      BY <2>3
    <3> QED
      BY <1>3, <1>4, <1>6, <2>3, <3>1
  <2> QED
    BY <2>1, <2>2, <2>3
<1>9. BeforeAt(m, u, v)
  BY <1>7, <1>8 DEF BeforeAt
<1> QED
  BY <1>1, <1>2, <1>3, <1>4, <1>9, BeforeMeans

\* A common prefix does not matter to the order.
LEMMA BeforeAfterPrefix ==
  ASSUME NEW p \in Seq(Nat), NEW a \in Seq(Nat), NEW b \in Seq(Nat)
  PROVE  Before(p \o a, p \o b) <=> Before(a, b)
<1>1. p \o a \in Seq(Nat) /\ p \o b \in Seq(Nat)
  OBVIOUS
<1>2. CASE Before(a, b)
  BY <1>2, BeforeShifted
<1>3. CASE a = b
  BY <1>1, <1>3, BeforeIrreflexive
<1>4. CASE Before(b, a)
  <2>1. ~Before(a, b) /\ Before(p \o b, p \o a)
    BY <1>4, BeforeShifted, BeforeAsymmetric
  <2>2. ~Before(p \o a, p \o b)
    BY <1>1, <2>1, BeforeAsymmetric
  <2> QED
    BY <2>1, <2>2
<1> QED
  BY <1>2, <1>3, <1>4, BeforeTotal

(* What stands between two keys that begin with q begins with q.           *)
LEMMA BetweenAlike ==
  ASSUME NEW q \in Seq(Nat), NEW l \in Seq(Nat), NEW h \in Seq(Nat), NEW k \in Seq(Nat),
         IsPrefix(q, l), IsPrefix(q, h), ~Before(k, l), ~Before(h, k)
  PROVE  IsPrefix(q, k)
<1> SUFFICES ASSUME ~IsPrefix(q, k) PROVE FALSE
  OBVIOUS
<1> DEFINE T == {i \in 1 .. Len(q) : i > Len(k) \/ k[i] # q[i]}
<1>1. T # {}
  <2>1. CASE Len(q) <= Len(k)
    BY <2>1, IsPrefixMeans
  <2>2. CASE Len(k) < Len(q)
    <3>1. Len(q) \in 1 .. Len(q) /\ Len(q) > Len(k)
      BY <2>2
    <3> QED
      BY <3>1
  <2> QED
    BY <2>1, <2>2
<1>2. T \in SUBSET Nat
  OBVIOUS
<1>3. PICK n \in T : \A i \in T : n <= i
  <2> HIDE DEF T
  <2> QED
    BY <1>1, <1>2, LeastNat
<1>4. n \in 1 .. Len(q) /\ (n > Len(k) \/ k[n] # q[n])
  OBVIOUS
<1>5. \A i \in 1 .. n - 1 : i <= Len(k) /\ k[i] = q[i]
  <2> SUFFICES ASSUME NEW i \in 1 .. n - 1 PROVE i <= Len(k) /\ k[i] = q[i]
    OBVIOUS
  <2>1. i \notin T /\ i \in 1 .. Len(q)
    BY <1>3, <1>4
  <2> QED
    BY <2>1
<1> HIDE DEF T
<1>6. Len(q) <= Len(l) /\ Len(q) <= Len(h) /\ \A i \in 1 .. Len(q) : q[i] = l[i] /\ q[i] = h[i]
  BY IsPrefixMeans
<1>7. \A i \in 1 .. n - 1 : i <= Len(k) /\ i <= Len(h) /\ k[i] = l[i] /\ h[i] = k[i]
  <2> SUFFICES ASSUME NEW i \in 1 .. n - 1
               PROVE  i <= Len(k) /\ i <= Len(h) /\ k[i] = l[i] /\ h[i] = k[i]
    OBVIOUS
  <2>1. i \in 1 .. Len(q)
    BY <1>4
  <2>2. q[i] = l[i] /\ q[i] = h[i]
    BY <1>6, <2>1
  <2>3. i <= Len(k) /\ k[i] = q[i]
    BY <1>5
  <2>4. i <= Len(h)
    BY <1>6, <2>1
  <2> QED
    BY <2>2, <2>3, <2>4
<1>8. n \in 1 .. Len(l)
  BY <1>4, <1>6
<1>9. ~BeforeAt(n, k, l)
  BY <1>8, BeforeMeans
<1>10. n <= Len(k) /\ ~(k[n] < l[n])
  BY <1>4, <1>7, <1>9 DEF BeforeAt
<1>11. ~BeforeAt(n, h, k)
  BY <1>4, <1>10, BeforeMeans
<1>12. ~(h[n] < k[n])
  BY <1>4, <1>7, <1>11 DEF BeforeAt
<1>13. q[n] \in Nat /\ k[n] \in Nat
  BY <1>4, <1>10
<1>14. q[n] = l[n] /\ q[n] = h[n] /\ k[n] # q[n]
  BY <1>4, <1>6, <1>10
<1> QED
  BY <1>10, <1>12, <1>13, <1>14

(* Numbers of one width before anything.                                   *)
LEMMA BeforeByNumber ==
  ASSUME NEW x \in Seq(Nat), NEW y \in Seq(Nat), Len(x) = Len(y), NEW n \in 1 .. Len(x), LessAt(n, x, y),
         NEW d \in Seq(Nat), NEW e \in Seq(Nat)
  PROVE  Before(x \o d, y \o e)
<1>1. PICK u : u = x \o d
  OBVIOUS
<1>2. PICK v : v = y \o e
  OBVIOUS
<1>3. /\ u \in Seq(Nat) /\ Len(u) = Len(x) + Len(d)
      /\ \A i \in 1 .. Len(x) : u[i] = x[i]
      /\ \A i \in 1 .. Len(d) : u[Len(x) + i] = d[i]
  <2>1. Joins(u, x, d)
    BY <1>1, Joined
  <2> QED
    BY <2>1 DEF Joins
<1>4. /\ v \in Seq(Nat) /\ Len(v) = Len(y) + Len(e)
      /\ \A i \in 1 .. Len(y) : v[i] = y[i]
      /\ \A i \in 1 .. Len(e) : v[Len(y) + i] = e[i]
  <2>1. Joins(v, y, e)
    BY <1>2, Joined
  <2> QED
    BY <2>1 DEF Joins
<1>5. \A i \in 1 .. n - 1 : i \in 1 .. Len(x)
  OBVIOUS
<1>6. BeforeAt(n, u, v)
  <2>1. \A i \in 1 .. n - 1 : i <= Len(u) /\ u[i] = v[i]
    <3> SUFFICES ASSUME NEW i \in 1 .. n - 1 PROVE i <= Len(u) /\ u[i] = v[i]
      OBVIOUS
    <3>1. x[i] = y[i] /\ i \in 1 .. Len(x) /\ i \in 1 .. Len(y)
      BY <1>5 DEF LessAt
    <3> QED
      BY <1>3, <1>4, <3>1, SMTT(60)
  <2>2. u[n] < v[n]
    BY <1>3, <1>4 DEF LessAt
  <2> QED
    BY <2>1, <2>2 DEF BeforeAt
<1>7. n \in 1 .. Len(v)
  BY <1>4
<1> QED
  BY <1>1, <1>2, <1>3, <1>4, <1>6, <1>7, BeforeMeans

\* An extension is not before what it extends.
LEMMA NotBeforeItself ==
  ASSUME NEW x \in Seq(Nat), NEW d \in Seq(Nat)
  PROVE  ~Before(x \o d, x)
<1>1. PICK u : u = x \o d
  OBVIOUS
<1>2. /\ u \in Seq(Nat) /\ Len(u) = Len(x) + Len(d)
      /\ \A i \in 1 .. Len(x) : u[i] = x[i]
      /\ \A i \in 1 .. Len(d) : u[Len(x) + i] = d[i]
  <2>1. Joins(u, x, d)
    BY <1>1, Joined
  <2> QED
    BY <2>1 DEF Joins
<1>3. ASSUME NEW n \in 1 .. Len(x)
      PROVE  ~BeforeAt(n, u, x)
  <2>1. u[n] = x[n] /\ x[n] \in Nat /\ n <= Len(u)
    BY <1>2
  <2> QED
    BY <1>2, <2>1 DEF BeforeAt
<1> QED
  BY <1>1, <1>2, <1>3, BeforeMeans

(* The order of numbers, whatever follows the first of them.               *)
LEMMA OrderByNumber ==
  ASSUME NEW v \in 0 .. Base ^ Width - 1, NEW w \in 0 .. Base ^ Width - 1, NEW d \in Seq(Nat)
  PROVE  /\ Before(Number(v) \o d, Number(w)) <=> v < w
         /\ \A e \in Seq(Nat) : v < w => Before(Number(v) \o d, Number(w) \o e)
<1>1. v \in Int /\ w \in Int
  BY Power, ConstantTypes
<1>2. PICK x \in Seq(Nat) : x = Number(v) /\ Len(x) = Width
  BY <1>1, NumberBytes
<1>3. PICK y \in Seq(Nat) : y = Number(w) /\ Len(y) = Width
  BY <1>1, NumberBytes
<1>4. y \o <<>> = y /\ <<>> \in Seq(Nat)
  OBVIOUS
<1>5. ASSUME v < w, NEW e \in Seq(Nat)
      PROVE  Before(x \o d, y \o e)
  <2>1. PICK n \in 1 .. Width : LessAt(n, x, y)
    BY <1>2, <1>3, <1>5, NumberOrder
  <2> QED
    BY <1>2, <1>3, <2>1, BeforeByNumber
<1>6. ASSUME v < w
      PROVE  Before(x \o d, y)
  BY <1>4, <1>5, <1>6
<1>7. ASSUME v = w
      PROVE  ~Before(x \o d, y)
  BY <1>2, <1>3, <1>7, NotBeforeItself
<1>8. ASSUME w < v
      PROVE  ~Before(x \o d, y)
  <2>1. PICK n \in 1 .. Width : LessAt(n, y, x)
    BY <1>2, <1>3, <1>8, NumberOrder
  <2>2. Before(y \o <<>>, x \o d)
    BY <1>2, <1>3, <1>4, <2>1, BeforeByNumber
  <2>3. x \o d \in Seq(Nat)
    OBVIOUS
  <2> QED
    BY <1>4, <2>2, <2>3, BeforeAsymmetric
<1> QED
  BY <1>1, <1>2, <1>3, <1>5, <1>6, <1>7, <1>8

-----------------------------------------------------------------------------
(* The sorted keys of a set. *)

Below(S, x) == {y \in S : Before(y, x)}

(* Where a key stands in its set.                                          *)
Rank(S, x) == Cardinality(Below(S, x)) + 1

\* The rank of a member lies between one and the number of members.
LEMMA RankRange ==
  ASSUME NEW S \in SUBSET Seq(Nat), IsFiniteSet(S), NEW x \in S
  PROVE  /\ IsFiniteSet(Below(S, x)) /\ Cardinality(Below(S, x)) \in Nat
         /\ Rank(S, x) \in 1 .. Cardinality(S) /\ Cardinality(S) \in Nat
<1>1. Below(S, x) \in SUBSET S /\ Below(S, x) # S
  <2>1. x \notin Below(S, x)
    BY BeforeIrreflexive DEF Below
  <2> QED
    BY <2>1 DEF Below
<1>2. IsFiniteSet(Below(S, x)) /\ Cardinality(Below(S, x)) <= Cardinality(S)
  BY <1>1, FS_Subset
<1>3. Cardinality(Below(S, x)) # Cardinality(S)
  BY <1>1, FS_Subset
<1>4. Cardinality(Below(S, x)) \in Nat /\ Cardinality(S) \in Nat
  BY <1>2, FS_CardinalityType
<1> QED
  BY <1>2, <1>3, <1>4 DEF Rank

\* Ranks are ordered as the members are.
LEMMA RankOrder ==
  ASSUME NEW S \in SUBSET Seq(Nat), IsFiniteSet(S), NEW x \in S, NEW y \in S
  PROVE  Before(x, y) <=> Rank(S, x) < Rank(S, y)
<1>1. ASSUME NEW u \in S, NEW v \in S, Before(u, v)
      PROVE  Rank(S, u) < Rank(S, v)
  <2>1. Below(S, u) \in SUBSET Below(S, v)
    BY <1>1, BeforeTransitive DEF Below
  <2>2. u \in Below(S, v) /\ u \notin Below(S, u)
    BY <1>1, BeforeIrreflexive DEF Below
  <2>3. IsFiniteSet(Below(S, v)) /\ Cardinality(Below(S, v)) \in Nat /\ Cardinality(Below(S, u)) \in Nat
    BY RankRange
  <2>4. Cardinality(Below(S, u)) <= Cardinality(Below(S, v))
    BY <2>1, <2>3, FS_Subset
  <2>5. Cardinality(Below(S, u)) # Cardinality(Below(S, v))
    BY <2>1, <2>2, <2>3, FS_Subset
  <2> QED
    BY <2>3, <2>4, <2>5 DEF Rank
<1>2. Rank(S, x) \in Int /\ Rank(S, y) \in Int
  BY RankRange
<1>3. CASE Before(x, y)
  BY <1>1, <1>3
<1>4. CASE Before(y, x)
  <2>1. Rank(S, y) < Rank(S, x) /\ ~Before(x, y)
    BY <1>1, <1>4, BeforeAsymmetric
  <2> QED
    BY <1>2, <2>1
<1>5. CASE x = y
  BY <1>2, <1>5, BeforeIrreflexive
<1> QED
  BY <1>3, <1>4, <1>5, BeforeTotal

\* Members of one rank are the same.
LEMMA RankDiffers ==
  ASSUME NEW S \in SUBSET Seq(Nat), IsFiniteSet(S), NEW x \in S, NEW y \in S, Rank(S, x) = Rank(S, y)
  PROVE  x = y
<1>1. Rank(S, x) \in Int
  BY RankRange
<1>2. ~(Rank(S, x) < Rank(S, y)) /\ ~(Rank(S, y) < Rank(S, x))
  BY <1>1
<1> QED
  BY <1>2, RankOrder, BeforeTotal

\* Every rank is the rank of some member.
LEMMA RankReached ==
  ASSUME NEW S \in SUBSET Seq(Nat), IsFiniteSet(S)
  PROVE  \A i \in 1 .. Cardinality(S) : \E x \in S : Rank(S, x) = i
<1> DEFINE r == [x \in S |-> Rank(S, x)]
           T == 1 .. Cardinality(S)
<1>1. Cardinality(S) \in Nat
  BY FS_CardinalityType
<1>2. IsFiniteSet(T) /\ Cardinality(T) = Cardinality(S)
  <2>1. 1 \in Int /\ Cardinality(S) \in Int /\ (~(1 > Cardinality(S)) \/ Cardinality(S) = 0)
    BY <1>1
  <2> QED
    BY <1>1, FS_Interval
<1>3. r \in Injection(S, T)
  <2>1. r \in [S -> T]
    BY RankRange
  <2>2. \A x, y \in S : r[x] = r[y] => x = y
    BY RankDiffers
  <2> HIDE DEF r, T
  <2> QED
    BY <2>1, <2>2 DEF Injection, IsInjective
<1>4. r \in Surjection(S, T)
  <2> HIDE DEF r, T
  <2> QED
    BY <1>2, <1>3, FS_Injection
<1>5. \A i \in T : \E x \in S : r[x] = i
  <2> HIDE DEF r, T
  <2> QED
    BY <1>4 DEF Surjection
<1> QED
  BY <1>5

(* A sorted enumeration of a set.                                          *)
Sorted(q, S) ==
  /\ q \in [1 .. Cardinality(S) -> S]
  /\ \A i, j \in 1 .. Cardinality(S) : i < j => Before(q[i], q[j])

\* Ascending lists a finite set in order, whatever CHOOSE picks.
LEMMA AscendingSorted ==
  ASSUME NEW S \in SUBSET Seq(Nat), IsFiniteSet(S)
  PROVE  Sorted(Ascending(S), S)
<1> DEFINE w == [i \in 1 .. Cardinality(S) |-> CHOOSE x \in S : Rank(S, x) = i]
<1>1. \A i \in 1 .. Cardinality(S) : w[i] \in S /\ Rank(S, w[i]) = i
  BY RankReached
<1>2. w \in [1 .. Cardinality(S) -> S]
  BY <1>1
<1>3. \A i, j \in 1 .. Cardinality(S) : i < j => Before(w[i], w[j])
  <2> HIDE DEF w
  <2> QED
    BY <1>1, RankOrder
<1>4. \E q \in [1 .. Cardinality(S) -> S] : \A i, j \in 1 .. Cardinality(S) : i < j => Before(q[i], q[j])
  <2> HIDE DEF w
  <2> QED
    BY <1>2, <1>3
<1> QED
  BY <1>4 DEF Ascending, Sorted

\* In a sorted listing every member stands at its rank.
LEMMA SortedByRank ==
  ASSUME NEW S \in SUBSET Seq(Nat), IsFiniteSet(S), NEW q, Sorted(q, S)
  PROVE  \A i \in 1 .. Cardinality(S) : q[i] \in S /\ Rank(S, q[i]) = i
<1> SUFFICES ASSUME NEW i \in 1 .. Cardinality(S) PROVE q[i] \in S /\ Rank(S, q[i]) = i
  OBVIOUS
<1>1. PICK n \in Nat : n = Cardinality(S)
  BY FS_CardinalityType
<1>2. /\ q \in [1 .. n -> S]
      /\ \A k, j \in 1 .. n : k < j => Before(q[k], q[j])
  BY <1>1 DEF Sorted
<1>3. \A k, j \in 1 .. n : Before(q[k], q[j]) => k < j
  <2> SUFFICES ASSUME NEW k \in 1 .. n, NEW j \in 1 .. n, Before(q[k], q[j]), ~(k < j) PROVE FALSE
    OBVIOUS
  <2>1. q[k] \in Seq(Nat) /\ q[j] \in Seq(Nat)
    BY <1>2
  <2>2. k = j \/ Before(q[j], q[k])
    BY <1>2
  <2> QED
    BY <2>1, <2>2, BeforeIrreflexive, BeforeAsymmetric
<1>4. \A k, j \in 1 .. n : q[k] = q[j] => k = j
  <2> SUFFICES ASSUME NEW k \in 1 .. n, NEW j \in 1 .. n, q[k] = q[j], k # j PROVE FALSE
    OBVIOUS
  <2>1. q[k] \in Seq(Nat)
    BY <1>2
  <2>2. Before(q[k], q[j]) \/ Before(q[j], q[k])
    BY <1>2
  <2> QED
    BY <2>1, <2>2, BeforeIrreflexive
<1>5. \A x \in S : \E j \in 1 .. n : q[j] = x
  <2>1. q \in Injection(1 .. n, S)
    BY <1>2, <1>4 DEF Injection, IsInjective
  <2>2. IsFiniteSet(1 .. n) /\ Cardinality(1 .. n) = n
    BY FS_Interval
  <2>3. q \in Surjection(1 .. n, S)
    BY <1>1, <2>1, <2>2, FS_Injection
  <2> QED
    BY <2>3 DEF Surjection
<1>6. Below(S, q[i]) = {q[j] : j \in 1 .. i - 1}
  <2>1. \A x \in Below(S, q[i]) : \E j \in 1 .. i - 1 : x = q[j]
    <3> SUFFICES ASSUME NEW x \in S, Before(x, q[i]) PROVE \E j \in 1 .. i - 1 : x = q[j]
      BY DEF Below
    <3>1. PICK j \in 1 .. n : q[j] = x
      BY <1>5
    <3>2. j < i
      BY <1>1, <1>3, <3>1
    <3> QED
      BY <1>1, <3>1, <3>2
  <2>2. \A j \in 1 .. i - 1 : q[j] \in Below(S, q[i])
    <3> SUFFICES ASSUME NEW j \in 1 .. i - 1 PROVE q[j] \in S /\ Before(q[j], q[i])
      BY DEF Below
    <3>1. j \in 1 .. n /\ i \in 1 .. n /\ j < i
      BY <1>1
    <3> QED
      BY <1>2, <3>1
  <2> QED
    BY <2>1, <2>2
<1>7. Cardinality(Below(S, q[i])) = i - 1
  <2> DEFINE p == [j \in 1 .. i - 1 |-> q[j]]
             B == {q[j] : j \in 1 .. i - 1}
             I == 1 .. i - 1
  <2>1. p \in Surjection(I, B)
    BY DEF Surjection
  <2>2. p \in Injection(I, B)
    <3>1. \A j \in I : j \in 1 .. n
      BY <1>1
    <3>2. \A k, j \in I : p[k] = p[j] => k = j
      BY <1>4, <3>1
    <3>3. p \in [I -> B]
      OBVIOUS
    <3> HIDE DEF p, I, B
    <3> QED
      BY <3>2, <3>3 DEF Injection, IsInjective
  <2>3. IsFiniteSet(I) /\ Cardinality(I) = i - 1
    <3>1. 1 \in Int /\ i - 1 \in Int
      BY <1>1
    <3>2. IF 1 > i - 1 THEN i - 1 = 0 ELSE i - 1 = (i - 1) - 1 + 1
      BY <1>1
    <3> QED
      BY <3>1, <3>2, FS_Interval
  <2> HIDE DEF p, I
  <2>4. Cardinality(B) = Cardinality(I)
    <3> HIDE DEF B
    <3> QED
      BY <2>1, <2>2, <2>3, FS_Surjection
  <2> QED
    BY <1>6, <2>3, <2>4
<1> QED
  BY <1>1, <1>2, <1>7 DEF Rank

(* All keys of the set, each at its rank.                                  *)
LEMMA AscendingIs ==
  ASSUME NEW S \in SUBSET Seq(Nat), IsFiniteSet(S)
  PROVE  /\ Cardinality(S) \in Nat /\ Ascending(S) \in Seq(S) /\ Len(Ascending(S)) = Cardinality(S)
         /\ DOMAIN Ascending(S) = 1 .. Cardinality(S)
         /\ \A i \in 1 .. Cardinality(S) : Ascending(S)[i] \in S /\ Rank(S, Ascending(S)[i]) = i
         /\ \A x \in S : Rank(S, x) \in 1 .. Cardinality(S) /\ Ascending(S)[Rank(S, x)] = x
         /\ \A i, j \in 1 .. Cardinality(S) : i < j => Before(Ascending(S)[i], Ascending(S)[j])
<1>1. PICK q : q = Ascending(S)
  OBVIOUS
<1>2. Sorted(q, S)
  BY <1>1, AscendingSorted
<1>3. PICK n \in Nat : n = Cardinality(S)
  BY FS_CardinalityType
<1>4. q \in [1 .. n -> S] /\ \A i, j \in 1 .. n : i < j => Before(q[i], q[j])
  BY <1>2, <1>3 DEF Sorted
<1>5. \A i \in 1 .. n : q[i] \in S /\ Rank(S, q[i]) = i
  BY <1>2, <1>3, SortedByRank
<1>6. \A x \in S : Rank(S, x) \in 1 .. n /\ q[Rank(S, x)] = x
  <2> SUFFICES ASSUME NEW x \in S PROVE Rank(S, x) \in 1 .. n /\ q[Rank(S, x)] = x
    OBVIOUS
  <2>1. Rank(S, x) \in 1 .. n
    BY <1>3, RankRange
  <2>2. q[Rank(S, x)] \in S /\ Rank(S, q[Rank(S, x)]) = Rank(S, x)
    BY <1>5, <2>1
  <2> QED
    BY <2>1, <2>2, RankDiffers
<1>7. q \in Seq(S) /\ Len(q) = n /\ DOMAIN q = 1 .. n
  BY <1>4
<1> QED
  BY <1>1, <1>3, <1>4, <1>5, <1>6, <1>7

(* The upper part of a set is the end of its sorted keys.                  *)
LEMMA UpperPart ==
  ASSUME NEW S \in SUBSET Seq(Nat), IsFiniteSet(S), NEW A \in SUBSET S,
         \A x \in S \ A, y \in A : Before(x, y)
  PROVE  /\ IsFiniteSet(A) /\ Cardinality(A) <= Cardinality(S)
         /\ \A j \in 1 .. Cardinality(A) :
               Ascending(S)[Cardinality(S) - Cardinality(A) + j] = Ascending(A)[j]
<1>1. IsFiniteSet(A) /\ Cardinality(A) <= Cardinality(S) /\ A \in SUBSET Seq(Nat)
  BY FS_Subset
<1>2. ASSUME NEW j \in 1 .. Cardinality(A)
      PROVE  Ascending(S)[Cardinality(S) - Cardinality(A) + j] = Ascending(A)[j]
  <2>1. PICK x : x = Ascending(A)[j]
    OBVIOUS
  <2>2. x \in A /\ Rank(A, x) = j
    BY <1>1, <2>1, AscendingIs
  <2>3. Below(S, x) = (S \ A) \cup Below(A, x)
    BY <2>2 DEF Below
  <2>4. IsFiniteSet(Below(A, x)) /\ Cardinality(Below(A, x)) \in Nat /\ Cardinality(A) \in Nat
    BY <1>1, <2>2, RankRange
  <2>5. IsFiniteSet(S \ A) /\ Cardinality(S \ A) = Cardinality(S) - Cardinality(A)
    <3>1. S \cap A = A
      OBVIOUS
    <3> QED
      BY <3>1, FS_Difference
  <2>6. (S \ A) \cap Below(A, x) = {}
    BY DEF Below
  <2>7. Cardinality(S) \in Nat
    BY FS_CardinalityType
  <2>8. Cardinality(Below(S, x)) = Cardinality(S) - Cardinality(A) + Cardinality(Below(A, x))
    <3>1. Cardinality((S \ A) \cup Below(A, x)) =
            Cardinality(S \ A) + Cardinality(Below(A, x)) - Cardinality((S \ A) \cap Below(A, x))
      BY <2>4, <2>5, FS_Union
    <3>2. Cardinality((S \ A) \cap Below(A, x)) = 0
      BY <2>6, FS_EmptySet
    <3> QED
      BY <2>3, <2>4, <2>5, <2>7, <3>1, <3>2
  <2>9. Rank(S, x) = Cardinality(S) - Cardinality(A) + j
    BY <2>2, <2>4, <2>7, <2>8 DEF Rank
  <2>10. Ascending(S)[Rank(S, x)] = x
    BY <2>2, AscendingIs
  <2> QED
    BY <2>1, <2>9, <2>10
<1> QED
  BY <1>1, <1>2

-----------------------------------------------------------------------------
(* What a range of the database has. *)

Within(low, high) == {k \in DOMAIN db : ~Before(k, low) /\ Before(k, high)}

\* Between lists upwards or, with the bounds swapped, downwards.
LEMMA BetweenIs ==
  ASSUME NEW from, NEW to
  PROVE  Between(from, to) = IF Before(to, from) THEN Reverse(Ascending(Within(to, from)))
                                                 ELSE Ascending(Within(from, to))
BY DEF Between, Within

\* Every key is a prefix, a mark and a name.
LEMMA KeysAreSequences ==
  ASSUME NEW s \in Strategies, NEW k \in Keys(s)
  PROVE  /\ k \in Seq(Nat)
         /\ \E m \in Nat, x \in Seq(Nat) : k = Marked(Prefix[s], m, x)
<1>1. \E m \in Nat, x \in Seq(Nat) : k = Marked(Prefix[s], m, x)
  BY OwnKeys, KeysAre
<1>2. PICK m \in Nat : \E x \in Seq(Nat) : k = Marked(Prefix[s], m, x)
  BY <1>1
<1>3. PICK x \in Seq(Nat) : k = Marked(Prefix[s], m, x)
  BY <1>2
<1>4. Consists(k, Prefix[s], m, x)
  BY <1>3, KeyParts, MarkedParts
<1> QED
  BY <1>1, <1>4 DEF Consists

\* The keys of the database are a finite set of byte strings.
LEMMA DatabaseKeys ==
  ASSUME DatabaseInv, NEW S \in SUBSET DOMAIN db
  PROVE  S \in SUBSET Seq(Nat) /\ IsFiniteSet(S)
<1>1. \A k \in DOMAIN db : k \in Seq(Nat)
  BY KeysAreSequences DEF DatabaseInv, AllKeys
<1> QED
  BY <1>1, FS_Subset DEF DatabaseInv

(* Two sequences that a third begins with.                                 *)
LEMMA PrefixesOfOne ==
  ASSUME NEW p \in Seq(Nat), NEW q \in Seq(Nat), NEW k \in Seq(Nat), IsPrefix(p, k), IsPrefix(q, k)
  PROVE  IsPrefix(p, q) \/ IsPrefix(q, p)
<1>1. Len(p) <= Len(k) /\ \A i \in 1 .. Len(p) : p[i] = k[i]
  BY IsPrefixMeans
<1>2. Len(q) <= Len(k) /\ \A i \in 1 .. Len(q) : q[i] = k[i]
  BY IsPrefixMeans
<1>3. Len(p) <= Len(q) => IsPrefix(p, q)
  BY <1>1, <1>2, IsPrefixMeans
<1>4. Len(q) <= Len(p) => IsPrefix(q, p)
  BY <1>1, <1>2, IsPrefixMeans
<1> QED
  BY <1>3, <1>4

(* A key that begins with a strategy's prefix is one of its keys, and has  *)
(* the mark it begins with.                                                *)
LEMMA OwnByPrefix ==
  ASSUME NEW s \in Strategies, NEW t \in Strategies, NEW k \in Keys(t), IsPrefix(Prefix[s], k)
  PROVE  s = t
<1>1. k \in Seq(Nat) /\ Prefix[s] \in Seq(Nat) /\ Prefix[t] \in Seq(Nat)
  BY KeysAreSequences, KeyParts
<1>2. IsPrefix(Prefix[t], k)
  <2>1. PICK m \in Nat : \E x \in Seq(Nat) : k = Marked(Prefix[t], m, x)
    BY KeysAreSequences
  <2>2. PICK x \in Seq(Nat) : k = Marked(Prefix[t], m, x)
    BY <2>1
  <2>3. Consists(k, Prefix[t], m, x)
    BY <1>1, <2>2, MarkedParts
  <2>4. PICK p \in Seq(Nat) : p = Prefix[t]
    BY <1>1
  <2>5. Len(p) <= Len(k) /\ \A i \in 1 .. Len(p) : p[i] = k[i]
    <3>1. Consists(k, p, m, x)
      BY <2>3, <2>4
    <3> QED
      BY <3>1 DEF Consists
  <2>6. IsPrefix(p, k)
    BY <1>1, <2>5, IsPrefixMeans
  <2> QED
    BY <2>4, <2>6
<1> QED
  BY <1>1, <1>2, PrefixesOfOne, PrefixesDiffer

\* A key that begins with a prefix and a mark has that mark.
LEMMA MarkByPrefix ==
  ASSUME NEW p \in Seq(Nat), NEW m \in Nat, NEW l \in Nat, NEW x \in Seq(Nat),
         IsPrefix(p \o <<l>>, Marked(p, m, x))
  PROVE  l = m
<1>1. PICK k : k = Marked(p, m, x)
  OBVIOUS
<1>2. Consists(k, p, m, x)
  BY <1>1, MarkedParts
<1>3. PICK q : q = p \o <<l>>
  OBVIOUS
<1>4. q \in Seq(Nat) /\ Len(q) = Len(p) + 1 /\ q[Len(p) + 1] = l
  BY <1>3
<1>5. k \in Seq(Nat) /\ k[Len(p) + 1] = m
  BY <1>2 DEF Consists
<1>6. q[Len(p) + 1] = k[Len(p) + 1]
  <2>1. IsPrefix(q, k)
    BY <1>1, <1>3
  <2>2. \A i \in 1 .. Len(q) : q[i] = k[i]
    BY <1>5, <1>4, <2>1, IsPrefixMeans
  <2>3. Len(p) + 1 \in 1 .. Len(q)
    BY <1>4
  <2> QED
    BY <2>2, <2>3
<1> QED
  BY <1>5, <1>6, <1>4

\* A key that begins with a strategy's prefix and a mark belongs to that strategy and kind.
LEMMA OwnByMark ==
  ASSUME NEW s \in Strategies, NEW k \in AllKeys, NEW l \in Nat, IsPrefix(Prefix[s] \o <<l>>, k)
  PROVE  /\ k \in Keys(s)
         /\ l = 35 => \E n \in Names : k = VarKey(s, n)
         /\ l = 64 => \E o \in Orders : k = OrderKey(s, o)
         /\ l = 36 => \E f \in Fills : k = FillKey(s, f)
<1>1. PICK t \in Strategies : k \in Keys(t)
  BY DEF AllKeys
<1>2. PICK p \in Seq(Nat) : p = Prefix[s]
  BY KeyParts
<1>3. PICK q : q = p \o <<l>>
  OBVIOUS
<1>4. q \in Seq(Nat) /\ Len(q) = Len(p) + 1 /\ \A i \in 1 .. Len(p) : q[i] = p[i]
  BY <1>3
<1>5. IsPrefix(p, k)
  <2>1. k \in Seq(Nat)
    BY <1>1, KeysAreSequences
  <2>2. Len(q) <= Len(k) /\ \A i \in 1 .. Len(q) : q[i] = k[i]
    BY <1>2, <1>3, <1>4, <2>1, IsPrefixMeans
  <2>3. Len(p) <= Len(k) /\ \A i \in 1 .. Len(p) : p[i] = k[i]
    BY <1>4, <2>1, <2>2, SMTT(60)
  <2> QED
    BY <2>1, <2>3, IsPrefixMeans
<1>6. k \in Keys(s)
  BY <1>1, <1>2, <1>5, OwnByPrefix
<1>7. \/ \E n \in Names : k = VarKey(s, n)
      \/ \E o \in Orders : k = OrderKey(s, o)
      \/ \E f \in Fills : k = FillKey(s, f)
  BY <1>6, OwnKeys
<1>8. ASSUME NEW n \in Names, k = VarKey(s, n)
      PROVE  l = 35
  <2>1. k = Marked(p, 35, n) /\ n \in Seq(Nat)
    BY <1>2, <1>8, KeysAre
  <2> QED
    BY <1>2, <2>1, MarkByPrefix
<1>9. ASSUME NEW o \in Orders, k = OrderKey(s, o)
      PROVE  l = 64
  <2>1. PICK x \in Seq(Nat) : k = Marked(p, 64, x)
    BY <1>2, <1>9, KeysAre
  <2> QED
    BY <1>2, <2>1, MarkByPrefix
<1>10. ASSUME NEW f \in Fills, k = FillKey(s, f)
       PROVE  l = 36
  <2>1. PICK x \in Seq(Nat) : k = Marked(p, 36, x)
    BY <1>2, <1>10, KeysAre
  <2> QED
    BY <1>2, <2>1, MarkByPrefix
<1> QED
  BY <1>6, <1>7, <1>8, <1>9, <1>10

-----------------------------------------------------------------------------
(* Fills. *)

(* What the keys of a strategy's fills begin with, and a bound among them. *)
FillPart(s) == Prefix[s] \o <<36>>
BoundAt(s, v) == FillPart(s) \o Number(v)

\* Keys and bounds of fills begin alike and differ in the time.
LEMMA FillParts ==
  ASSUME NEW s \in Strategies
  PROVE  /\ FillPart(s) \in Seq(Nat)
         /\ \A f \in Fills : FillKey(s, f) = FillPart(s) \o TimeAndId(f) /\ FillKey(s, f) \in Seq(Nat)
         /\ \A v \in Int : BoundAt(s, v) \in Seq(Nat) /\ IsPrefix(FillPart(s), BoundAt(s, v))
         /\ \A t \in Times \cup {0, MaxTime} : FillBound(s, t) = BoundAt(s, Micros(t))
<1>1. PICK p \in Seq(Nat) : p = Prefix[s]
  BY KeyParts
<1>2. p \o <<36>> \in Seq(Nat)
  OBVIOUS
<1>3. FillPart(s) \in Seq(Nat)
  BY <1>1, <1>2 DEF FillPart
<1>4. ASSUME NEW f \in Fills
      PROVE  FillKey(s, f) = FillPart(s) \o TimeAndId(f) /\ FillKey(s, f) \in Seq(Nat)
  <2>1. FillKey(s, f) = Marked(Prefix[s], 36, TimeAndId(f)) /\ TimeAndId(f) \in Seq(Nat)
    BY KeysAre
  <2>2. FillKey(s, f) = FillPart(s) \o TimeAndId(f)
    BY <2>1 DEF Marked, FillPart
  <2>3. PICK q \in Seq(Nat) : q = FillPart(s)
    BY <1>3
  <2>4. PICK x \in Seq(Nat) : x = TimeAndId(f)
    BY <2>1
  <2>5. q \o x \in Seq(Nat)
    OBVIOUS
  <2> QED
    BY <2>2, <2>3, <2>4, <2>5
<1>5. ASSUME NEW v \in Int
      PROVE  BoundAt(s, v) \in Seq(Nat) /\ IsPrefix(FillPart(s), BoundAt(s, v))
  <2>1. PICK x \in Seq(Nat) : x = Number(v)
    BY NumberBytes
  <2>2. IsPrefix(FillPart(s), FillPart(s) \o x) /\ FillPart(s) \o x \in Seq(Nat)
    BY <1>3, Joined
  <2> QED
    BY <2>1, <2>2 DEF BoundAt
<1>6. ASSUME NEW t \in Times \cup {0, MaxTime}
      PROVE  FillBound(s, t) = BoundAt(s, Micros(t))
  <2>1. NumberOf[Micros(t)] = Number(Micros(t))
    BY NumbersOf
  <2> QED
    BY <2>1 DEF FillBound, BoundAt, FillPart, FillPrefix
<1> QED
  BY <1>3, <1>4, <1>5, <1>6

\* Keys of fills are ordered against bounds, and among each other, as their times are.
LEMMA OrderOfFills ==
  ASSUME NEW s \in Strategies, NEW f \in Fills
  PROVE  /\ \A v \in 0 .. Base ^ Width - 1 : Before(FillKey(s, f), BoundAt(s, v)) <=> Micros(f.time) < v
         /\ \A g \in Fills : Micros(f.time) < Micros(g.time) => Before(FillKey(s, f), FillKey(s, g))
<1>1. PICK p \in Seq(Nat) : p = FillPart(s)
  BY FillParts
<1>2. \A g \in Fills : Micros(g.time) \in 0 .. Base ^ Width - 1
  BY MicrosRange
<1>3. \A g \in Fills : g.id \in Seq(Nat) /\ TimeAndId(g) = Number(Micros(g.time)) \o g.id /\ TimeAndId(g) \in Seq(Nat)
  BY KeysAre, KeyParts DEF TimeAndId
<1>4. ASSUME NEW v \in 0 .. Base ^ Width - 1
      PROVE  Before(FillKey(s, f), BoundAt(s, v)) <=> Micros(f.time) < v
  <2>1. PICK x \in Seq(Nat) : x = Number(v)
    BY NumberBytes, Power, ConstantTypes
  <2>2. Before(p \o TimeAndId(f), p \o x) <=> Before(TimeAndId(f), x)
    BY <1>3, BeforeAfterPrefix
  <2>3. Before(TimeAndId(f), x) <=> Micros(f.time) < v
    BY <1>2, <1>3, <2>1, OrderByNumber
  <2> QED
    BY <1>1, <2>1, <2>2, <2>3, FillParts DEF BoundAt
<1>5. ASSUME NEW g \in Fills, Micros(f.time) < Micros(g.time)
      PROVE  Before(FillKey(s, f), FillKey(s, g))
  <2>1. Before(TimeAndId(f), TimeAndId(g))
    BY <1>2, <1>3, <1>5, OrderByNumber
  <2>2. Before(p \o TimeAndId(f), p \o TimeAndId(g))
    BY <1>3, <2>1, BeforeAfterPrefix
  <2> QED
    BY <1>1, <2>2, FillParts
<1> QED
  BY <1>4, <1>5

(* The order of two bounds.                                                *)
LEMMA OrderOfBounds ==
  ASSUME NEW s \in Strategies, NEW v \in 0 .. Base ^ Width - 1, NEW w \in 0 .. Base ^ Width - 1
  PROVE  Before(BoundAt(s, v), BoundAt(s, w)) <=> v < w
<1>1. PICK p \in Seq(Nat) : p = FillPart(s)
  BY FillParts
<1>2. PICK x \in Seq(Nat) : x = Number(v)
  BY NumberBytes, Power, ConstantTypes
<1>3. PICK y \in Seq(Nat) : y = Number(w)
  BY NumberBytes, Power, ConstantTypes
<1>4. x \o <<>> = x /\ <<>> \in Seq(Nat)
  OBVIOUS
<1>5. Before(x \o <<>>, y) <=> v < w
  BY <1>2, <1>3, <1>4, OrderByNumber
<1>6. Before(p \o x, p \o y) <=> Before(x, y)
  BY BeforeAfterPrefix
<1> QED
  BY <1>1, <1>2, <1>3, <1>4, <1>5, <1>6 DEF BoundAt

KeysOfFills(s, F) == {FillKey(s, f) : f \in F}

\* Between two bounds lie the fills of the strategy between the two times.
LEMMA FillsWithin ==
  ASSUME DatabaseInv, NEW s \in Strategies, NEW v \in 0 .. Base ^ Width - 1, NEW w \in 0 .. Base ^ Width - 1
  PROVE  Within(BoundAt(s, v), BoundAt(s, w)) =
            KeysOfFills(s, {f \in FillsHeld(s) : v <= Micros(f.time) /\ Micros(f.time) < w})
<1>1. v \in Int /\ w \in Int
  BY Power, ConstantTypes
<1>2. ASSUME NEW k \in Within(BoundAt(s, v), BoundAt(s, w))
      PROVE  \E f \in Fills : k = FillKey(s, f)
  <2>1. k \in DOMAIN db /\ ~Before(k, BoundAt(s, v)) /\ Before(k, BoundAt(s, w))
    BY DEF Within
  <2>2. k \in Seq(Nat) /\ k \in AllKeys
    BY <2>1, DatabaseKeys DEF DatabaseInv
  <2>3. PICK l \in Seq(Nat) : l = BoundAt(s, v) /\ IsPrefix(FillPart(s), l)
    BY <1>1, FillParts
  <2>4. PICK h \in Seq(Nat) : h = BoundAt(s, w) /\ IsPrefix(FillPart(s), h)
    BY <1>1, FillParts
  <2>5. ~Before(h, k)
    BY <2>1, <2>2, <2>4, BeforeAsymmetric
  <2>6. IsPrefix(FillPart(s), k)
    BY <2>1, <2>2, <2>3, <2>4, <2>5, FillParts, BetweenAlike
  <2> QED
    BY <2>2, <2>6, OwnByMark DEF FillPart
<1>3. ASSUME NEW f \in Fills
      PROVE  FillKey(s, f) \in Within(BoundAt(s, v), BoundAt(s, w)) <=>
                f \in FillsHeld(s) /\ v <= Micros(f.time) /\ Micros(f.time) < w
  <2>1. Before(FillKey(s, f), BoundAt(s, v)) <=> Micros(f.time) < v
    BY OrderOfFills
  <2>2. Before(FillKey(s, f), BoundAt(s, w)) <=> Micros(f.time) < w
    BY OrderOfFills
  <2>3. Micros(f.time) \in Int
    BY MicrosRange
  <2> QED
    BY <1>1, <2>1, <2>2, <2>3 DEF Within, FillsHeld
<1>4. FillsHeld(s) \subseteq Fills
  BY DEF FillsHeld
<1> QED
  BY <1>2, <1>3, <1>4 DEF KeysOfFills

(* The fills at the sorted keys of some.                                   *)
ListsFills(keys, n, s, F) ==
  /\ KeysOfFills(s, F) \in SUBSET Seq(Nat) /\ IsFiniteSet(KeysOfFills(s, F)) /\ n \in Nat
  /\ keys \in Seq(Seq(Nat)) /\ Len(keys) = n /\ Cardinality(F) = n
  /\ \A i \in 1 .. n : keys[i] \in DOMAIN db /\ db[keys[i]].of \in F /\ keys[i] = FillKey(s, db[keys[i]].of)
  /\ \A f \in F : \E i \in 1 .. n : db[keys[i]].of = f
  /\ \A i, j \in 1 .. n : i < j => Before(keys[i], keys[j])

\* The fills extracted from listed keys are the ones listed, in time order.
LEMMA FillsExtracted ==
  ASSUME DatabaseInv, NEW s \in Strategies, NEW F \in SUBSET FillsHeld(s),
         NEW keys, keys = Ascending(KeysOfFills(s, F)), NEW n, n = Cardinality(KeysOfFills(s, F))
  PROVE  ListsFills(keys, n, s, F)
<1> DEFINE K == KeysOfFills(s, F)
<1>1. F \subseteq Fills /\ \A f \in F : FillKey(s, f) \in DOMAIN db
  BY DEF FillsHeld
<1>2. K \in SUBSET DOMAIN db
  BY <1>1 DEF KeysOfFills
<1>3. K \in SUBSET Seq(Nat) /\ IsFiniteSet(K)
  BY <1>2, DatabaseKeys
<1>4. \A f \in F : db[FillKey(s, f)].of = f
  BY <1>1, Kinds DEF DatabaseInv, Fitting
<1>5. /\ n \in Nat /\ keys \in Seq(K) /\ Len(keys) = n /\ DOMAIN keys = 1 .. n
      /\ \A i \in 1 .. n : keys[i] \in K
      /\ \A x \in K : Rank(K, x) \in 1 .. n /\ keys[Rank(K, x)] = x
      /\ \A i, j \in 1 .. n : i < j => Before(keys[i], keys[j])
  BY <1>3, AscendingIs
<1>6. keys \in Seq(Seq(Nat))
  BY <1>3, <1>5
<1>7. \A k \in K : \E f \in F : k = FillKey(s, f)
  BY DEF KeysOfFills
<1>8. \A f \in F : FillKey(s, f) \in K
  BY DEF KeysOfFills
<1> HIDE DEF K
<1>9. ASSUME NEW i \in 1 .. n
      PROVE  keys[i] \in DOMAIN db /\ db[keys[i]].of \in F /\ keys[i] = FillKey(s, db[keys[i]].of)
  <2>1. PICK f \in F : keys[i] = FillKey(s, f)
    BY <1>5, <1>7
  <2> QED
    BY <1>1, <1>4, <2>1
<1>10. ASSUME NEW f \in F
       PROVE  \E i \in 1 .. n : db[keys[i]].of = f
  <2>1. PICK i \in 1 .. n : keys[i] = FillKey(s, f)
    BY <1>5, <1>8
  <2> QED
    BY <1>4, <2>1
<1>11. Cardinality(F) = n
  <2> DEFINE b == [k \in K |-> db[k].of]
  <2>1. b \in Surjection(K, F)
    <3>1. \A k \in K : b[k] \in F
      BY <1>4, <1>7
    <3>2. \A f \in F : \E k \in K : b[k] = f
      BY <1>4, <1>8
    <3>3. b \in [K -> F]
      BY <3>1
    <3> HIDE DEF b
    <3> QED
      BY <3>2, <3>3 DEF Surjection
  <2>2. b \in Injection(K, F)
    <3>1. \A k, j \in K : b[k] = b[j] => k = j
      BY <1>4, <1>7
    <3>2. b \in [K -> F]
      BY <1>4, <1>7
    <3> HIDE DEF b
    <3> QED
      BY <3>1, <3>2 DEF Injection, IsInjective
  <2> HIDE DEF b
  <2>3. Cardinality(F) = Cardinality(K)
    BY <1>3, <2>1, <2>2, FS_Surjection
  <2> QED
    BY <2>3 DEF K
<1> QED
  BY <1>3, <1>5, <1>6, <1>9, <1>10, <1>11 DEF K, ListsFills

(* All fills of a strategy, and those since a microsecond.                 *)
FillsSince(s, v) == {f \in FillsHeld(s) : Micros(f.time) >= v}

\* The greatest time fits a key, and with it every time since 1970.
LEMMA LastMicros ==
  /\ Micros(MaxTime) \in 0 .. Base ^ Width - 1 /\ Micros(MaxTime) \in Nat
  /\ 0 \in 0 .. Base ^ Width - 1
  /\ \A t \in Times : t >= 0 => Micros(t) \in 0 .. Micros(MaxTime)
<1>1. PICK m \in Nat : m = Micros(MaxTime)
  BY MicrosRange
<1>2. PICK q \in Nat : q = Base ^ Width
  BY Power, ConstantTypes
<1>3. m \in 0 .. q - 1 /\ 0 \in 0 .. q - 1
  BY <1>1, <1>2, MicrosRange
<1>4. ASSUME NEW t \in Times, t >= 0
      PROVE  Micros(t) \in 0 .. m
  <2>1. t \in 0 .. MaxTime
    BY <1>4, NumbersFit, ConstantTypes
  <2> QED
    BY <1>1, <2>1, MicrosRange
<1> QED
  BY <1>1, <1>2, <1>3, <1>4

\* The keys since a time are those of the fills since its microsecond.
LEMMA KeysSince ==
  ASSUME DatabaseInv, NEW s \in Strategies, NEW t \in Times, t >= 0
  PROVE  Between(FillBound(s, t), FillBound(s, MaxTime)) = Ascending(KeysOfFills(s, FillsSince(s, Micros(t))))
<1>1. PICK m \in 0 .. Base ^ Width - 1 : m = Micros(MaxTime) /\ m \in Nat
  BY LastMicros
<1>2. FillBound(s, t) = BoundAt(s, Micros(t)) /\ FillBound(s, MaxTime) = BoundAt(s, m)
  BY <1>1, FillParts
<1>3. \A f \in FillsHeld(s) : Micros(f.time) \in 0 .. m - 1
  BY <1>1, MicrosRange DEF FillsHeld
<1>4. PICK v \in 0 .. m : v = Micros(t)
  BY <1>1, LastMicros
<1>5. v \in 0 .. Base ^ Width - 1
  BY <1>1, <1>4, MicrosRange
<1>6. ~Before(BoundAt(s, m), BoundAt(s, v))
  BY <1>1, <1>5, OrderOfBounds
<1>7. Within(BoundAt(s, v), BoundAt(s, m)) =
         KeysOfFills(s, {f \in FillsHeld(s) : v <= Micros(f.time) /\ Micros(f.time) < m})
  BY <1>5, FillsWithin
<1>8. {f \in FillsHeld(s) : v <= Micros(f.time) /\ Micros(f.time) < m} = FillsSince(s, v)
  BY <1>1, <1>3 DEF FillsSince
<1> QED
  <2>1. Between(BoundAt(s, v), BoundAt(s, m)) = Ascending(Within(BoundAt(s, v), BoundAt(s, m)))
    BY <1>6, BetweenIs
  <2>2. Within(BoundAt(s, v), BoundAt(s, m)) = KeysOfFills(s, FillsSince(s, v))
    BY <1>7, <1>8
  <2> QED
    BY <1>2, <1>4, <2>1, <2>2

\* Reverse, member by member.
LEMMA ReverseMeans ==
  ASSUME NEW T, NEW q \in Seq(T)
  PROVE  /\ Reverse(q) \in Seq(T) /\ Len(Reverse(q)) = Len(q) /\ DOMAIN Reverse(q) = 1 .. Len(q)
         /\ \A i \in 1 .. Len(q) : Reverse(q)[i] = q[Len(q) - i + 1]
<1>1. PICK n \in Nat : n = Len(q)
  OBVIOUS
<1>2. Reverse(q) = [i \in 1 .. n |-> q[(n - i) + 1]]
  BY <1>1 DEF Reverse
<1>3. \A i \in 1 .. n : (n - i) + 1 \in 1 .. n
  OBVIOUS
<1>4. \A i \in 1 .. n : q[(n - i) + 1] \in T
  BY <1>1, <1>3
<1>5. Reverse(q) \in [1 .. n -> T]
  BY <1>2, <1>4
<1> QED
  BY <1>1, <1>2, <1>5

\* No keys list as an empty sequence, either way round.
LEMMA NoKeys ==
  ASSUME NEW q, q = Ascending({})
  PROVE  q \in Seq(Seq(Nat)) /\ Len(q) = 0 /\ Reverse(q) \in Seq(Seq(Nat)) /\ Len(Reverse(q)) = 0
<1>1. IsFiniteSet({}) /\ Cardinality({}) = 0 /\ {} \in SUBSET Seq(Nat)
  BY FS_EmptySet
<1>2. q \in Seq({}) /\ Len(q) = 0
  BY <1>1, AscendingIs
<1>3. q \in Seq(Seq(Nat))
  BY <1>2
<1> QED
  BY <1>2, <1>3, ReverseMeans

\* The listing from the last time down to the first holds all the fills, latest first.
LEMMA KeysOfAll ==
  ASSUME DatabaseInv, NEW s \in Strategies
  PROVE  Between(FillBound(s, MaxTime), FillBound(s, 0)) = Reverse(Ascending(KeysOfFills(s, FillsHeld(s))))
<1>1. PICK m \in 0 .. Base ^ Width - 1 : m = Micros(MaxTime) /\ m \in Nat
  BY LastMicros
<1>2. FillBound(s, 0) = BoundAt(s, 0) /\ FillBound(s, MaxTime) = BoundAt(s, m) /\ 0 \in 0 .. Base ^ Width - 1
  BY <1>1, FillParts, MicrosRange, LastMicros
<1>3. \A f \in FillsHeld(s) : Micros(f.time) \in 0 .. m - 1
  BY <1>1, MicrosRange DEF FillsHeld
<1>4. {f \in FillsHeld(s) : 0 <= Micros(f.time) /\ Micros(f.time) < m} = FillsHeld(s)
  BY <1>1, <1>3
<1>5. Within(BoundAt(s, 0), BoundAt(s, m)) = KeysOfFills(s, FillsHeld(s))
  BY <1>2, <1>4, FillsWithin
<1>6. CASE m > 0
  <2>1. Before(BoundAt(s, 0), BoundAt(s, m))
    BY <1>2, <1>6, OrderOfBounds
  <2> QED
    BY <1>2, <1>5, <2>1, BetweenIs
<1>7. CASE m = 0
  <2>1. ~Before(BoundAt(s, 0), BoundAt(s, m))
    BY <1>2, <1>7, OrderOfBounds
  <2>2. KeysOfFills(s, FillsHeld(s)) = {}
    BY <1>3, <1>7 DEF KeysOfFills
  <2>3. PICK q : q = Ascending({})
    OBVIOUS
  <2>4. Between(FillBound(s, MaxTime), FillBound(s, 0)) = q
    BY <1>2, <1>5, <1>7, <2>1, <2>2, <2>3, BetweenIs
  <2>5. q = Reverse(q)
    BY <2>3, NoKeys
  <2> QED
    BY <2>2, <2>3, <2>4, <2>5
<1> QED
  BY <1>1, <1>6, <1>7

\* IsSuffix, member by member.
LEMMA SuffixMeans ==
  ASSUME NEW T, NEW x \in Seq(T), NEW y \in Seq(T), Len(x) <= Len(y),
         \A j \in 1 .. Len(x) : y[Len(y) - Len(x) + j] = x[j]
  PROVE  IsSuffix(x, y)
<1>1. PICK a \in Seq(T) : a = Reverse(x) /\ Len(a) = Len(x)
  BY ReverseMeans
<1>2. PICK b \in Seq(T) : b = Reverse(y) /\ Len(b) = Len(y)
  BY ReverseMeans
<1>3. ASSUME NEW i \in 1 .. Len(a)
      PROVE  b[i] = a[i]
  <2>1. i \in 1 .. Len(x) /\ i \in 1 .. Len(y)
    BY <1>1
  <2>2. a[i] = x[Len(x) - i + 1] /\ b[i] = y[Len(y) - i + 1]
    BY <1>1, <1>2, <2>1, ReverseMeans
  <2>3. PICK j \in 1 .. Len(x) : j = Len(x) - i + 1 /\ Len(y) - Len(x) + j = Len(y) - i + 1
    <3>1. Len(x) - i + 1 \in 1 .. Len(x) /\ Len(y) - Len(x) + (Len(x) - i + 1) = Len(y) - i + 1
      BY <2>1
    <3> QED
      BY <3>1
  <2> QED
    BY <2>2, <2>3
<1>4. SubSeq(b, 1, Len(a)) = a /\ SubSeq(a, 1, Len(a)) = a
  <2>1. PICK m \in Nat : m = Len(a) /\ m <= Len(b)
    BY <1>1, <1>2
  <2>2. SubSeq(b, 1, m) \in Seq(T) /\ Len(SubSeq(b, 1, m)) = m
    BY <2>1
  <2>3. \A i \in 1 .. m : SubSeq(b, 1, m)[i] = b[i]
    BY <2>1
  <2>4. SubSeq(b, 1, m) = a
    BY <1>3, <2>1, <2>2, <2>3
  <2>5. SubSeq(a, 1, m) = a
    BY <2>1
  <2> QED
    BY <2>1, <2>4, <2>5
<1> QED
  BY <1>1, <1>2, <1>4 DEF IsSuffix, IsPrefix

(* The fills of sorted keys, and of their reverse.                         *)
LEMMA FillsOfSorted ==
  ASSUME DatabaseInv, NEW s \in Strategies, NEW F \in SUBSET FillsHeld(s),
         NEW keys, keys = Ascending(KeysOfFills(s, F)), NEW fills, fills = ExtractFills(keys)
  PROVE  /\ fills \in Seq(F) /\ Len(fills) = Len(keys) /\ Len(keys) = Cardinality(F)
         /\ \A i \in 1 .. Len(keys) : fills[i] = db[keys[i]].of /\ fills[i] \in Fills
         /\ ToSet(fills) = F
         /\ \A i, j \in 1 .. Len(fills) : i < j => Micros(fills[i].time) <= Micros(fills[j].time)
<1>1. PICK n : n = Cardinality(KeysOfFills(s, F))
  OBVIOUS
<1>2. ListsFills(keys, n, s, F)
  BY <1>1, FillsExtracted
<1>3. n \in Nat /\ keys \in Seq(Seq(Nat)) /\ Len(keys) = n /\ Cardinality(F) = n
  BY <1>2 DEF ListsFills
<1>4. \A i \in 1 .. n : keys[i] \in DOMAIN db /\ db[keys[i]].of \in F /\ keys[i] = FillKey(s, db[keys[i]].of)
  BY <1>2 DEF ListsFills
<1>5. fills = [i \in 1 .. n |-> db[keys[i]].of]
  BY <1>3 DEF ExtractFills
<1>6. fills \in Seq(F) /\ Len(fills) = n /\ DOMAIN fills = 1 .. n
  <2>1. fills \in [1 .. n -> F]
    BY <1>5, <1>4
  <2> QED
    BY <1>3, <2>1
<1>7. F \subseteq Fills
  BY DEF FillsHeld
<1>8. ToSet(fills) = F
  <2>1. ToSet(fills) = {fills[i] : i \in 1 .. n}
    BY <1>6 DEF ToSet
  <2>2. \A i \in 1 .. n : fills[i] \in F
    BY <1>5, <1>4
  <2>3. ASSUME NEW f \in F PROVE \E i \in 1 .. n : fills[i] = f
    <3>1. PICK i \in 1 .. n : db[keys[i]].of = f
      BY <1>2 DEF ListsFills
    <3> QED
      BY <1>5, <3>1
  <2>4. \A f : f \in ToSet(fills) <=> f \in F
    BY <2>1, <2>2, <2>3
  <2> QED
    BY <2>4
<1>9. ASSUME NEW i \in 1 .. n, NEW j \in 1 .. n, i < j
      PROVE  Micros(fills[i].time) <= Micros(fills[j].time)
  <2>1. PICK f \in Fills : f = fills[i] /\ keys[i] = FillKey(s, f)
    BY <1>5, <1>7, <1>4
  <2>2. PICK g \in Fills : g = fills[j] /\ keys[j] = FillKey(s, g)
    BY <1>5, <1>7, <1>4
  <2>3. Before(FillKey(s, f), FillKey(s, g))
    BY <1>2, <1>9, <2>1, <2>2 DEF ListsFills
  <2>4. ~Before(FillKey(s, g), FillKey(s, f))
    BY <2>3, FillParts, BeforeAsymmetric
  <2>5. ~(Micros(g.time) < Micros(f.time)) /\ Micros(g.time) \in Int /\ Micros(f.time) \in Int
    BY <2>4, OrderOfFills, MicrosRange
  <2> QED
    BY <2>1, <2>2, <2>5
<1> QED
  BY <1>5, <1>6, <1>7, <1>8, <1>9, <1>3, <1>4

\* Extracting and reversing fills may be done in either order.
LEMMA FillsOfReversed ==
  ASSUME NEW keys \in Seq(Seq(Nat))
  PROVE  /\ Reverse(ExtractFills(Reverse(keys))) = ExtractFills(keys)
         /\ ToSet(ExtractFills(Reverse(keys))) = ToSet(ExtractFills(keys))
<1>1. PICK n \in Nat : n = Len(keys)
  OBVIOUS
<1>2. PICK r \in Seq(Seq(Nat)) : r = Reverse(keys) /\ Len(r) = n /\ DOMAIN r = 1 .. n
  BY <1>1, ReverseMeans
<1>3. \A i \in 1 .. n : r[i] = keys[n - i + 1]
  BY <1>1, <1>2, ReverseMeans, ZenonT(60)
<1>4. PICK e : e = ExtractFills(r)
  OBVIOUS
<1>5. e = [i \in 1 .. n |-> db[r[i]].of]
  BY <1>2, <1>4 DEF ExtractFills
<1>6. ExtractFills(keys) = [i \in 1 .. n |-> db[keys[i]].of]
  BY <1>1 DEF ExtractFills
<1>7. Len(e) = n
  BY <1>5
<1>8. Reverse(e) = [i \in 1 .. n |-> e[(n - i) + 1]]
  BY <1>7 DEF Reverse
<1>9. \A i \in 1 .. n : (n - i) + 1 \in 1 .. n /\ n - ((n - i) + 1) + 1 = i
  OBVIOUS
<1>10. \A i \in 1 .. n : e[(n - i) + 1] = db[keys[i]].of
  BY <1>3, <1>5, <1>9
<1>11. Reverse(e) = ExtractFills(keys)
  BY <1>6, <1>8, <1>10
<1>12. ToSet(e) = {e[i] : i \in 1 .. n}
  BY <1>5 DEF ToSet
<1>13. ToSet(ExtractFills(keys)) = {db[keys[i]].of : i \in 1 .. n}
  <2>1. PICK g : g = ExtractFills(keys)
    OBVIOUS
  <2>2. DOMAIN g = 1 .. n /\ \A i \in 1 .. n : g[i] = db[keys[i]].of
    BY <1>6, <2>1
  <2>3. ToSet(g) = {db[keys[i]].of : i \in 1 .. n}
    BY <2>2 DEF ToSet
  <2> QED
    BY <2>1, <2>3
<1>14. \A i \in 1 .. n : e[i] = db[keys[(n - i) + 1]].of
  BY <1>3, <1>5
<1>15. ToSet(e) = ToSet(ExtractFills(keys))
  <2>1. PICK h : h = [i \in 1 .. n |-> db[keys[i]].of]
    OBVIOUS
  <2>2. \A i \in 1 .. n : e[(n - i) + 1] = h[i] /\ e[i] = h[(n - i) + 1]
    BY <1>9, <1>10, <1>14, <2>1
  <2>3. {e[i] : i \in 1 .. n} = {h[i] : i \in 1 .. n}
    <3>1. \A i \in 1 .. n : \E j \in 1 .. n : e[i] = h[j]
      BY <1>9, <2>2
    <3>2. \A i \in 1 .. n : \E j \in 1 .. n : h[i] = e[j]
      BY <1>9, <2>2
    <3>3. PICK E, H : E = {e[i] : i \in 1 .. n} /\ H = {h[i] : i \in 1 .. n}
      OBVIOUS
    <3>4. ASSUME NEW x \in E
          PROVE  x \in H
      <4>1. PICK i \in 1 .. n : x = e[i]
        BY <3>3
      <4>2. PICK j \in 1 .. n : e[i] = h[j]
        BY <3>1
      <4> QED
        BY <3>3, <4>1, <4>2
    <3>5. ASSUME NEW x \in H
          PROVE  x \in E
      <4>1. PICK i \in 1 .. n : x = h[i]
        BY <3>3
      <4>2. PICK j \in 1 .. n : h[i] = e[j]
        BY <3>2
      <4> QED
        BY <3>3, <4>1, <4>2
    <3> QED
      BY <3>3, <3>4, <3>5
  <2>4. {h[i] : i \in 1 .. n} = {db[keys[i]].of : i \in 1 .. n}
    BY <2>1
  <2> QED
    BY <1>12, <1>13, <2>3, <2>4
<1> QED
  BY <1>2, <1>4, <1>11, <1>15

(* The fills since a microsecond are the end of all fills.                 *)
LEMMA FillsSinceAreLast ==
  ASSUME DatabaseInv, NEW s \in Strategies, NEW v \in Int, NEW fills, NEW all,
         fills = ExtractFills(Ascending(KeysOfFills(s, FillsSince(s, v)))),
         all = ExtractFills(Ascending(KeysOfFills(s, FillsHeld(s))))
  PROVE  IsSuffix(fills, all)
<1> DEFINE A == KeysOfFills(s, FillsSince(s, v))
           S == KeysOfFills(s, FillsHeld(s))
<1>1. FillsSince(s, v) \in SUBSET FillsHeld(s) /\ FillsHeld(s) \in SUBSET FillsHeld(s) /\ FillsHeld(s) \subseteq Fills
  BY DEF FillsSince, FillsHeld
<1>2. PICK c, n : c = Cardinality(A) /\ n = Cardinality(S)
  OBVIOUS
<1>3. PICK keys : keys = Ascending(A)
  OBVIOUS
<1>4. PICK every : every = Ascending(S)
  OBVIOUS
<1>5. ListsFills(keys, c, s, FillsSince(s, v)) /\ ListsFills(every, n, s, FillsHeld(s))
  BY <1>1, <1>2, <1>3, <1>4, FillsExtracted
<1>6. fills = ExtractFills(keys) /\ all = ExtractFills(every)
  BY <1>3, <1>4
<1>7. /\ A \in SUBSET Seq(Nat) /\ IsFiniteSet(A) /\ c \in Nat /\ Len(keys) = c
      /\ fills \in Seq(Fills) /\ Len(fills) = c /\ \A i \in 1 .. c : fills[i] = db[keys[i]].of
  <2>1. /\ A \in SUBSET Seq(Nat) /\ IsFiniteSet(A) /\ c \in Nat
        /\ keys \in Seq(Seq(Nat)) /\ Len(keys) = c /\ \A i \in 1 .. c : db[keys[i]].of \in Fills
    BY <1>1, <1>5 DEF ListsFills
  <2>2. fills = [i \in 1 .. c |-> db[keys[i]].of]
    BY <1>6, <2>1 DEF ExtractFills
  <2>3. fills \in [1 .. c -> Fills]
    BY <2>1, <2>2
  <2> QED
    BY <2>1, <2>2, <2>3
<1>8. /\ S \in SUBSET Seq(Nat) /\ IsFiniteSet(S) /\ n \in Nat /\ Len(every) = n
      /\ all \in Seq(Fills) /\ Len(all) = n /\ \A i \in 1 .. n : all[i] = db[every[i]].of
  <2>1. /\ S \in SUBSET Seq(Nat) /\ IsFiniteSet(S) /\ n \in Nat
        /\ every \in Seq(Seq(Nat)) /\ Len(every) = n /\ \A i \in 1 .. n : db[every[i]].of \in Fills
    BY <1>1, <1>5 DEF ListsFills
  <2>2. all = [i \in 1 .. n |-> db[every[i]].of]
    BY <1>6, <2>1 DEF ExtractFills
  <2>3. all \in [1 .. n -> Fills]
    BY <2>1, <2>2
  <2> QED
    BY <2>1, <2>2, <2>3
<1>9. A \in SUBSET S
  BY <1>1 DEF KeysOfFills
<1>10. ASSUME NEW x \in S \ A, NEW y \in A
      PROVE  Before(x, y)
  <2>1. PICK f \in FillsHeld(s) : x = FillKey(s, f)
    BY DEF KeysOfFills
  <2>2. PICK g \in FillsSince(s, v) : y = FillKey(s, g)
    BY DEF KeysOfFills
  <2>3. f \notin FillsSince(s, v)
    BY <2>1 DEF KeysOfFills
  <2>4. Micros(f.time) \in Int /\ Micros(g.time) \in Int /\ f \in Fills /\ g \in Fills
    BY <1>1, MicrosRange
  <2>5. Micros(f.time) < Micros(g.time)
    BY <2>1, <2>3, <2>4 DEF FillsSince
  <2> QED
    BY <2>1, <2>2, <2>4, <2>5, OrderOfFills
<1> HIDE DEF A, S
<1>11. c <= n /\ \A j \in 1 .. c : every[n - c + j] = keys[j]
  BY <1>2, <1>3, <1>4, <1>8, <1>9, <1>10, UpperPart
<1>12. \A j \in 1 .. c : all[n - c + j] = fills[j]
  <2> SUFFICES ASSUME NEW j \in 1 .. c PROVE all[n - c + j] = fills[j]
    OBVIOUS
  <2>1. n - c + j \in 1 .. n
    BY <1>7, <1>8, <1>11
  <2> QED
    BY <1>7, <1>8, <1>11, <2>1
<1> QED
  BY <1>7, <1>8, <1>11, <1>12, SuffixMeans

\* The database invariant implies that restored fills come in time order.
LEMMA FillsAreInOrder ==
  ASSUME DatabaseInv
  PROVE  FillsInTimeOrder
<1> SUFFICES ASSUME NEW s \in Strategies
             PROVE  /\ ToSet(GetRecentFills(s)) = FillsHeld(s)
                    /\ \A t \in {t \in Times : t >= 0} :
                          /\ ToSet(GetFillsFrom(s, t)) = {f \in FillsHeld(s) : Micros(f.time) >= Micros(t)}
                          /\ Cardinality(ToSet(GetFillsFrom(s, t))) = Len(GetFillsFrom(s, t))
                          /\ \A i, j \in DOMAIN GetFillsFrom(s, t) : i < j =>
                                Micros(GetFillsFrom(s, t)[i].time) <= Micros(GetFillsFrom(s, t)[j].time)
                          /\ IsSuffix(GetFillsFrom(s, t), Reverse(GetRecentFills(s)))
  BY DEF FillsInTimeOrder
<1>1. PICK every : every = Ascending(KeysOfFills(s, FillsHeld(s)))
  OBVIOUS
<1>2. PICK all : all = ExtractFills(every)
  OBVIOUS
<1>3. FillsHeld(s) \in SUBSET FillsHeld(s)
  OBVIOUS
<1>4. every \in Seq(Seq(Nat))
  <2>1. ListsFills(every, Cardinality(KeysOfFills(s, FillsHeld(s))), s, FillsHeld(s))
    BY <1>1, <1>3, FillsExtracted
  <2> QED
    BY <2>1 DEF ListsFills
<1>5. ToSet(all) = FillsHeld(s)
  BY <1>1, <1>2, <1>3, FillsOfSorted
<1>6. GetRecentFills(s) = ExtractFills(Reverse(every))
  BY <1>1, KeysOfAll DEF GetRecentFills
<1>7. ToSet(GetRecentFills(s)) = FillsHeld(s) /\ Reverse(GetRecentFills(s)) = all
  BY <1>2, <1>4, <1>5, <1>6, FillsOfReversed
<1>8. ASSUME NEW t \in Times, t >= 0, NEW fills, fills = GetFillsFrom(s, t)
      PROVE  /\ ToSet(fills) = {f \in FillsHeld(s) : Micros(f.time) >= Micros(t)}
             /\ Cardinality(ToSet(fills)) = Len(fills)
             /\ \A i, j \in DOMAIN fills : i < j => Micros(fills[i].time) <= Micros(fills[j].time)
             /\ IsSuffix(fills, all)
  <2>1. PICK v \in Int : v = Micros(t)
    BY <1>8, LastMicros
  <2>2. PICK keys : keys = Ascending(KeysOfFills(s, FillsSince(s, v)))
    OBVIOUS
  <2>3. fills = ExtractFills(keys)
    BY <1>8, <2>1, <2>2, KeysSince DEF GetFillsFrom
  <2>4. FillsSince(s, v) \in SUBSET FillsHeld(s)
    BY DEF FillsSince
  <2>5. /\ fills \in Seq(FillsSince(s, v)) /\ Len(fills) = Len(keys) /\ Len(keys) = Cardinality(FillsSince(s, v))
        /\ ToSet(fills) = FillsSince(s, v)
        /\ \A i, j \in 1 .. Len(fills) : i < j => Micros(fills[i].time) <= Micros(fills[j].time)
    BY <2>2, <2>3, <2>4, FillsOfSorted
  <2>6. FillsSince(s, v) = {f \in FillsHeld(s) : Micros(f.time) >= Micros(t)}
    BY <1>8, <2>1 DEF FillsSince
  <2>7. DOMAIN fills = 1 .. Len(fills)
    BY <2>5
  <2>8. IsSuffix(fills, all)
    BY <1>1, <1>2, <2>1, <2>2, <2>3, FillsSinceAreLast
  <2> QED
    BY <2>5, <2>6, <2>7, <2>8
<1> QED
  BY <1>7, <1>8

(* Whatever the strategies have done, get_recent_fills and, from any time  *)
(* since 1970 on, get_fills_from return the fills in the order of their    *)
(* times: FillsInTimeOrder, for every instance.  The order of the bytes of two numbers is that of the   *)
(* numbers (NumberOrder), so the keys of fills stand in the order of their *)
(* times; no key of another kind or strategy stands between them           *)
(* (BetweenAlike, OwnByMark).                                              *)
THEOREM FillsOrdered == Spec => []FillsInTimeOrder
<1>1. StorageInv => FillsInTimeOrder
  BY FillsAreInOrder DEF StorageInv
<1> QED
  BY <1>1, StorageInvariant, PTL

-----------------------------------------------------------------------------
(* Variables. *)

\* What a range lists stands between its bounds, whichever of them is the first.
LEMMA RangeWithin ==
  ASSUME DatabaseInv, NEW s \in Strategies, NEW a \in Seq(Nat), NEW b \in Seq(Nat),
         NEW k \in ToSet(VarListRange(s, a, b))
  PROVE  k \in Within(Prefix[s] \o a, Prefix[s] \o b) \cup Within(Prefix[s] \o b, Prefix[s] \o a)
<1>1. PICK low : low = Prefix[s] \o a
  OBVIOUS
<1>2. PICK high : high = Prefix[s] \o b
  OBVIOUS
<1>3. VarListRange(s, a, b) = Between(low, high)
  BY <1>1, <1>2 DEF VarListRange
<1>4. ASSUME NEW S \in SUBSET DOMAIN db
      PROVE  ToSet(Ascending(S)) \subseteq S /\ ToSet(Reverse(Ascending(S))) \subseteq S
  <2>1. S \in SUBSET Seq(Nat) /\ IsFiniteSet(S)
    BY <1>4, DatabaseKeys
  <2>2. PICK q : q = Ascending(S)
    OBVIOUS
  <2>3. q \in Seq(S)
    BY <2>1, <2>2, AscendingIs
  <2>4. PICK r : r = Reverse(q)
    OBVIOUS
  <2>5. r \in Seq(S)
    BY <2>3, <2>4, ReverseMeans
  <2>6. ToSet(q) \subseteq S
    BY <2>3 DEF ToSet
  <2>7. ToSet(r) \subseteq S
    BY <2>5 DEF ToSet
  <2> QED
    BY <2>2, <2>4, <2>6, <2>7
<1>5. Within(low, high) \in SUBSET DOMAIN db /\ Within(high, low) \in SUBSET DOMAIN db
  BY DEF Within
<1>6. CASE Before(high, low)
  <2>1. Between(low, high) = Reverse(Ascending(Within(high, low)))
    BY <1>6, BetweenIs
  <2> QED
    BY <1>1, <1>2, <1>3, <1>4, <1>5, <2>1
<1>7. CASE ~Before(high, low)
  <2>1. Between(low, high) = Ascending(Within(low, high))
    BY <1>7, BetweenIs
  <2> QED
    BY <1>1, <1>2, <1>3, <1>4, <1>5, <2>1
<1> QED
  BY <1>6, <1>7

\* A key between two that begin with a prefix begins with it.
LEMMA WithinPrefix ==
  ASSUME DatabaseInv, NEW p \in Seq(Nat), NEW a \in Seq(Nat), NEW b \in Seq(Nat),
         NEW k \in Within(p \o a, p \o b)
  PROVE  IsPrefix(p, k)
<1>1. PICK l \in Seq(Nat) : l = p \o a /\ IsPrefix(p, l)
  <2>1. p \o a \in Seq(Nat)
    OBVIOUS
  <2> QED
    BY <2>1, Joined
<1>2. PICK h \in Seq(Nat) : h = p \o b /\ IsPrefix(p, h)
  <2>1. p \o b \in Seq(Nat)
    OBVIOUS
  <2> QED
    BY <2>1, Joined
<1>3. k \in DOMAIN db /\ ~Before(k, l) /\ Before(k, h)
  BY <1>1, <1>2 DEF Within
<1>4. k \in Seq(Nat)
  BY <1>3, DatabaseKeys
<1>5. ~Before(h, k)
  BY <1>2, <1>3, <1>4, BeforeAsymmetric
<1> QED
  BY <1>1, <1>2, <1>3, <1>4, <1>5, BetweenAlike

(* Whatever the strategies have stored, var_list_range lists only keys of  *)
(* the strategy that calls it, in either direction: RangeStaysOwn, for     *)
(* every instance.  Both bounds begin with the strategy's prefix, and what *)
(* stands between two such keys begins with it too (BetweenAlike).         *)
THEOREM RangesOwn == Spec => []RangeStaysOwn
<1>1. DatabaseInv => RangeStaysOwn
  <2> SUFFICES ASSUME DatabaseInv, NEW s \in Strategies, NEW a \in Names, NEW b \in Names,
                      NEW k \in ToSet(VarListRange(s, a, b))
               PROVE  IsPrefix(Prefix[s], k)
    BY DEF RangeStaysOwn
  <2>1. a \in Seq(Nat) /\ b \in Seq(Nat) /\ Prefix[s] \in Seq(Nat)
    BY KeyParts
  <2>2. k \in Within(Prefix[s] \o a, Prefix[s] \o b) \cup Within(Prefix[s] \o b, Prefix[s] \o a)
    BY <2>1, RangeWithin
  <2> QED
    BY <2>1, <2>2, WithinPrefix
<1>2. StorageInv => RangeStaysOwn
  BY <1>1 DEF StorageInv
<1> QED
  BY <1>2, StorageInvariant, PTL

-----------------------------------------------------------------------------
(* Orders. *)

\* Every key of a strategy begins with its prefix.
LEMMA KeysBegin ==
  ASSUME NEW t \in Strategies, NEW k \in Keys(t)
  PROVE  IsPrefix(Prefix[t], k)
<1>1. k \in Seq(Nat)
  BY KeysAreSequences
<1>2. PICK m \in Nat : \E x \in Seq(Nat) : k = Marked(Prefix[t], m, x)
  BY KeysAreSequences
<1>3. PICK x \in Seq(Nat) : k = Marked(Prefix[t], m, x)
  BY <1>2
<1>4. PICK p \in Seq(Nat) : p = Prefix[t]
  BY KeyParts
<1>5. Consists(k, p, m, x)
  BY <1>3, <1>4, MarkedParts
<1>6. Len(p) <= Len(k) /\ \A i \in 1 .. Len(p) : p[i] = k[i]
  BY <1>5 DEF Consists
<1> QED
  BY <1>1, <1>4, <1>6, IsPrefixMeans

(* Keys of one strategy stand in the order of their marks.                 *)
LEMMA BeforeByMark ==
  ASSUME NEW p \in Seq(Nat), NEW m \in Nat, NEW x \in Seq(Nat), NEW l \in Nat, NEW y \in Seq(Nat), m < l
  PROVE  Before(Marked(p, m, x), Marked(p, l, y))
<1>1. PICK j : j = Marked(p, m, x)
  OBVIOUS
<1>2. PICK k : k = Marked(p, l, y)
  OBVIOUS
<1>3. Consists(j, p, m, x) /\ Consists(k, p, l, y)
  BY <1>1, <1>2, MarkedParts
<1>4. /\ j \in Seq(Nat) /\ Len(j) = Len(p) + 1 + Len(x) /\ j[Len(p) + 1] = m
      /\ \A i \in 1 .. Len(p) : j[i] = p[i]
  BY <1>3 DEF Consists
<1>5. /\ k \in Seq(Nat) /\ Len(k) = Len(p) + 1 + Len(y) /\ k[Len(p) + 1] = l
      /\ \A i \in 1 .. Len(p) : k[i] = p[i]
  BY <1>3 DEF Consists
<1>6. PICK n \in 1 .. Len(k) : n = Len(p) + 1
  <2>1. Len(p) + 1 \in 1 .. Len(k)
    BY <1>5
  <2> QED
    BY <2>1
<1>7. \A i \in 1 .. n - 1 : i <= Len(j) /\ j[i] = k[i]
  BY <1>4, <1>5, <1>6
<1>8. BeforeAt(n, j, k)
  BY <1>4, <1>5, <1>6, <1>7 DEF BeforeAt
<1> QED
  BY <1>1, <1>2, <1>4, <1>5, <1>8, BeforeMeans

(* The first key a generator comes to.                                     *)
LEMMA FirstIsOwn ==
  ASSUME DatabaseInv, NEW s \in Strategies, NEW k \in FirstFrom(Prefix[s] \o OrderPrefix),
         ~IsPrefix(Prefix[s], k)
  PROVE  Part(s).orders = {}
<1> SUFFICES ASSUME NEW o \in Orders, OrderKey(s, o) \in DOMAIN db PROVE FALSE
  BY DEF Part
<1>1. PICK q \in Seq(Nat) : q = Prefix[s] \o OrderPrefix /\ q = Prefix[s] \o <<64>>
  <2>1. PICK p \in Seq(Nat) : p = Prefix[s]
    BY KeyParts
  <2>2. p \o <<64>> \in Seq(Nat)
    OBVIOUS
  <2> QED
    BY <2>1, <2>2, KeysAre
<1>2. PICK d \in Seq(Nat) : d = o.id
  BY KeyParts
<1>3. OrderKey(s, o) = q \o d /\ q \o d \in Seq(Nat) /\ IsPrefix(q, q \o d)
  <2>1. OrderKey(s, o) = q \o d
    BY <1>1, <1>2 DEF OrderKey
  <2> QED
    BY <2>1, Joined
<1>4. ~Before(OrderKey(s, o), q)
  BY <1>3, NotBeforeItself
<1>5. k \in DOMAIN db /\ ~Before(k, q) /\ ~Before(OrderKey(s, o), k)
  BY <1>1, <1>4 DEF FirstFrom
<1>6. k \in Seq(Nat) /\ k \in AllKeys
  BY <1>5, DatabaseKeys DEF DatabaseInv
<1>7. IsPrefix(q, q)
  <2>1. Len(q) <= Len(q) /\ \A i \in 1 .. Len(q) : q[i] = q[i]
    OBVIOUS
  <2> QED
    BY <2>1, IsPrefixMeans
<1>8. IsPrefix(q, k)
  BY <1>3, <1>5, <1>6, <1>7, BetweenAlike
<1>9. k \in Keys(s)
  BY <1>1, <1>6, <1>8, OwnByMark
<1> QED
  BY <1>9, KeysBegin

(* If it is another strategy's, that strategy has no key with a lower mark.*)
LEMMA FirstOfNeighbour ==
  ASSUME DatabaseInv, NEW s \in Strategies, NEW t \in Strategies, s # t,
         NEW k \in FirstFrom(Prefix[s] \o OrderPrefix), k \in Keys(t),
         IsOrderKey(s, k), Len(Prefix[t]) = Len(Prefix[s])
  PROVE  Part(t).fills = {} /\ \A n \in Names : VarGet(t, n) = 0
<1>1. PICK p \in Seq(Nat) : p = Prefix[s]
  BY KeyParts
<1>2. PICK q \in Seq(Nat) : q = Prefix[t]
  BY KeyParts
<1>3. PICK low \in Seq(Nat) : low = p \o <<64>> /\ low = Prefix[s] \o OrderPrefix
  <2>1. p \o <<64>> \in Seq(Nat)
    OBVIOUS
  <2> QED
    BY <1>1, <2>1, KeysAre
<1>4. k \in DOMAIN db /\ ~Before(k, low) /\ \A j \in DOMAIN db : Before(j, k) => Before(j, low)
  BY <1>3 DEF FirstFrom
<1>5. k \in Seq(Nat)
  BY KeysAreSequences
<1>6. PICK m \in Nat : \E x \in Seq(Nat) : k = Marked(q, m, x)
  BY <1>2, KeysAreSequences
<1>7. PICK x \in Seq(Nat) : k = Marked(q, m, x)
  BY <1>6
<1>8. m = 64
  <2>1. Consists(k, q, m, x)
    BY <1>7, MarkedParts
  <2>2. Len(k) = Len(q) + 1 + Len(x) /\ k[Len(q) + 1] = m
    BY <2>1 DEF Consists
  <2>3. PICK r : r = SubSeq(k, Len(q) + 1, Len(k))
    OBVIOUS
  <2>4. r \in Seq(Nat) /\ Len(r) >= 1 /\ r[1] = k[Len(q) + 1]
    <3>1. PICK n \in Nat : n = Len(q) + 1 /\ n >= 1 /\ n <= Len(k)
      BY <2>2
    <3>2. SubSeq(k, n, Len(k)) \in Seq(Nat) /\ Len(SubSeq(k, n, Len(k))) = Len(k) - n + 1
      BY <1>5, <3>1
    <3>3. SubSeq(k, n, Len(k))[1] = k[n]
      BY <1>5, <3>1
    <3> QED
      BY <1>5, <2>3, <3>1, <3>2, <3>3, SMTT(60)
  <2>5. PICK o \in Seq(Nat) : o = OrderPrefix /\ o = <<64>> /\ Len(o) = 1 /\ o[1] = 64
    <3>1. OrderPrefix = <<64>> /\ <<64>> \in Seq(Nat)
      BY KeysAre
    <3> QED
      BY <3>1
  <2>6. IsPrefix(o, r)
    BY <1>1, <1>2, <2>3, <2>5 DEF IsOrderKey
  <2>7. r[1] = 64
    <3>1. \A i \in 1 .. Len(o) : o[i] = r[i]
      BY <2>4, <2>6, IsPrefixMeans
    <3> QED
      BY <2>5, <3>1
  <2> QED
    BY <2>2, <2>4, <2>7
<1>9. ASSUME NEW l \in Nat, NEW y \in Seq(Nat), Marked(q, l, y) \in DOMAIN db, l < 64
      PROVE  FALSE
  <2>1. PICK j : j = Marked(q, l, y)
    OBVIOUS
  <2>2. j \in Seq(Nat)
    BY <2>1, MarkedParts DEF Consists
  <2>3. Before(j, k)
    BY <1>7, <1>8, <1>9, <2>1, BeforeByMark
  <2>4. Before(j, low)
    BY <1>4, <1>9, <2>1, <2>3
  <2>5. ~Before(low, j)
    BY <2>2, <2>4, BeforeAsymmetric
  <2>6. IsPrefix(q, j)
    <3>1. Consists(j, q, l, y)
      BY <2>1, MarkedParts
    <3>2. Len(q) <= Len(j) /\ \A i \in 1 .. Len(q) : q[i] = j[i]
      BY <3>1 DEF Consists
    <3> QED
      BY <2>2, <3>2, IsPrefixMeans
  <2>7. IsPrefix(q, k)
    BY <1>2, KeysBegin
  <2>8. IsPrefix(q, low)
    BY <1>4, <1>5, <2>2, <2>5, <2>6, <2>7, BetweenAlike
  <2>9. IsPrefix(p, low)
    <3>1. <<64>> \in Seq(Nat)
      OBVIOUS
    <3> QED
      BY <1>3, <3>1, Joined
  <2> QED
    BY <1>1, <1>2, <2>8, <2>9, PrefixesOfOne, PrefixesDiffer
<1>10. \A f \in Fills : FillKey(t, f) \notin DOMAIN db
  BY <1>2, <1>9, KeysAre
<1>11. \A n \in Names : VarKey(t, n) \notin DOMAIN db
  BY <1>2, <1>9, KeysAre
<1> QED
  BY <1>10, <1>11 DEF Part, FillsHeld, VarGet

(* restore_open_orders offers a strategy an order of another only if it has*)
(* none, and (with prefixes of one length) only of a neighbour that has    *)
(* stored nothing but orders: StrangersAreRare, for every instance.        *)
THEOREM StrangersRare == Spec => StrangersAreRare
<1>1. ASSUME StorageInv, [Next]_vars
      PROVE  StrangersOnlyFromBareNeighbours
  <2> SUFFICES ASSUME NEW s \in Strategies, NEW k \in restoring'[s].at,
                      restoring[s] = NoGenerator, ~IsPrefix(Prefix[s], k)
               PROVE  /\ Part(s).orders = {}
                      /\ \E t \in Strategies :
                            /\ IsPrefix(Prefix[t], k)
                            /\ Len(Prefix[t]) = Len(Prefix[s]) =>
                                   Part(t).fills = {} /\ \A n \in Names : VarGet(t, n) = 0
    BY DEF StrangersOnlyFromBareNeighbours
  <2>1. restoring[s].at = {} /\ restoring[s].order = {} /\ NoGenerator.at = {}
    BY DEF NoGenerator
  <2>2. restoring'[s] # restoring[s]
    BY <2>1
  <2>3. PICK i \in Instruments : StartRestore(s, i)
    <3>1. restoring' # restoring
      BY <2>2
    <3>2. PICK u \in Strategies : \/ \E i \in Instruments : StartRestore(u, i)
                                  \/ RestoreTurn(u) \/ StopRestore(u) \/ Crash(u)
      BY <1>1, <3>1 DEF Next, vars, VarSet, VarErase, ProcessOrder, FlushBatches
    <3>3. u = s
      BY <1>1, <2>2, <3>2 DEF StorageInv, StartRestore, RestoreTurn, StopRestore, Crash
    <3>4. ~RestoreTurn(s) /\ ~StopRestore(s)
      BY <2>1 DEF RestoreTurn, StopRestore
    <3>5. ~Crash(s)
      <4> SUFFICES ASSUME Crash(s) PROVE FALSE
        OBVIOUS
      <4>1. restoring'[s] = NoGenerator
        BY <1>1 DEF Crash, StorageInv
      <4> QED
        BY <2>2, <4>1
    <3> QED
      BY <3>2, <3>3, <3>4, <3>5
  <2>4. k \in FirstFrom(Prefix[s] \o OrderPrefix) /\ IsOrderKey(s, k)
    <3>1. PICK j \in FirstFrom(Prefix[s] \o OrderPrefix) :
            /\ IsOrderKey(s, j)
            /\ restoring' = [restoring EXCEPT ![s] = [at |-> {j}, order |-> {db[j].of}, instr |-> i, got |-> {}]]
      BY <2>3 DEF StartRestore
    <3>2. restoring'[s].at = {j}
      BY <1>1, <3>1 DEF StorageInv
    <3> QED
      BY <3>1, <3>2
  <2>5. DatabaseInv
    BY <1>1 DEF StorageInv
  <2>6. PICK t \in Strategies : k \in Keys(t)
    BY <2>4, <2>5 DEF FirstFrom, DatabaseInv, AllKeys
  <2>7. IsPrefix(Prefix[t], k)
    BY <2>6, KeysBegin
  <2>8. s # t
    BY <2>7
  <2> QED
    BY <2>4, <2>5, <2>6, <2>7, <2>8, FirstIsOwn, FirstOfNeighbour
<1>2. StorageInv /\ [Next]_vars => [StrangersOnlyFromBareNeighbours]_restoring
  BY <1>1
<1>3. Spec => [][StrangersOnlyFromBareNeighbours]_restoring
  BY <1>2, StorageInvariant, PTL DEF Spec
<1> QED
  BY <1>3 DEF StrangersAreRare
=============================================================================
