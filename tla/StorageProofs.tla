--------------------------- MODULE StorageProofs ---------------------------
(* Theorems about Storage, for every value of its constants: strategies    *)
(* that share a database under prefixes of which none begins another, as   *)
(* many variables, orders and fills as there are.                          *)
(* First the keys: those of different strategies, kinds or contents are    *)
(* different, and the bytes of a number stand in the order of the numbers. *)
EXTENDS Storage, TLAPS, WellFoundedInduction, FiniteSetTheorems

-----------------------------------------------------------------------------
(* Keys that are put together of a prefix, a mark and a rest. *)

(* A key under the prefix p with the mark m.                               *)
Marked(p, m, x) == p \o <<m>> \o x

(* Its bytes.                                                              *)
Consists(k, p, m, x) ==
  /\ k \in Seq(Nat)
  /\ Len(k) = Len(p) + 1 + Len(x)
  /\ \A i \in 1 .. Len(p) : k[i] = p[i]
  /\ k[Len(p) + 1] = m
  /\ \A i \in Len(p) + 2 .. Len(p) + 1 + Len(x) : k[i] = x[i - Len(p) - 1]

\* A marked key is its prefix, its mark and its name, one after the other.
LEMMA MarkedParts ==
  ASSUME NEW p \in Seq(Nat), NEW m \in Nat, NEW x \in Seq(Nat)
  PROVE  Consists(Marked(p, m, x), p, m, x)
<1>1. p \o <<m>> \in Seq(Nat) /\ Len(p \o <<m>>) = Len(p) + 1
  OBVIOUS
<1>2. (\A i \in 1 .. Len(p) : (p \o <<m>>)[i] = p[i]) /\ (p \o <<m>>)[Len(p) + 1] = m
  OBVIOUS
<1> QED
  BY <1>1, <1>2 DEF Marked, Consists

\* Sequences of one length with the same members are the same.
LEMMA SameSequences ==
  ASSUME NEW x \in Seq(Nat), NEW y \in Seq(Nat), Len(x) = Len(y),
         \A i \in 1 .. Len(x) : x[i] = y[i]
  PROVE  x = y
OBVIOUS

\* IsPrefix, member by member.
LEMMA IsPrefixMeans ==
  ASSUME NEW x \in Seq(Nat), NEW y \in Seq(Nat)
  PROVE  IsPrefix(x, y) <=> Len(x) <= Len(y) /\ \A i \in 1 .. Len(x) : x[i] = y[i]
<1>1. SubSeq(x, 1, Len(x)) = x
  OBVIOUS
<1>2. ASSUME Len(x) <= Len(y)
      PROVE  SubSeq(y, 1, Len(x)) = x <=> \A i \in 1 .. Len(x) : x[i] = y[i]
  <2>1. /\ SubSeq(y, 1, Len(x)) \in Seq(Nat) /\ Len(SubSeq(y, 1, Len(x))) = Len(x)
        /\ \A i \in 1 .. Len(x) : SubSeq(y, 1, Len(x))[i] = y[i]
    BY <1>2
  <2> QED
    BY <2>1, SameSequences
<1> QED
  BY <1>1, <1>2 DEF IsPrefix

(* Keys under prefixes of which neither begins the other are different;    *)
(* under one prefix, equal keys have equal marks and rests.                *)
LEMMA MarkedAgree ==
  ASSUME NEW p \in Seq(Nat), NEW m \in Nat, NEW x \in Seq(Nat),
         NEW q \in Seq(Nat), NEW l \in Nat, NEW y \in Seq(Nat),
         NEW k, k = Marked(p, m, x), k = Marked(q, l, y)
  PROVE  /\ IsPrefix(p, q) \/ IsPrefix(q, p)
         /\ p = q => m = l /\ x = y
<1>1. Consists(k, p, m, x) /\ Consists(k, q, l, y)
  BY MarkedParts
<1>2. Len(k) = Len(p) + 1 + Len(x) /\ k[Len(p) + 1] = m /\ \A i \in 1 .. Len(p) : k[i] = p[i]
  BY <1>1 DEF Consists
<1>3. \A i \in Len(p) + 2 .. Len(p) + 1 + Len(x) : k[i] = x[i - Len(p) - 1]
  BY <1>1 DEF Consists
<1>4. Len(k) = Len(q) + 1 + Len(y) /\ k[Len(q) + 1] = l /\ \A i \in 1 .. Len(q) : k[i] = q[i]
  BY <1>1 DEF Consists
<1>5. \A i \in Len(q) + 2 .. Len(q) + 1 + Len(y) : k[i] = y[i - Len(q) - 1]
  BY <1>1 DEF Consists
<1>6. Len(p) <= Len(q) => IsPrefix(p, q)
  BY <1>2, <1>4, IsPrefixMeans
<1>7. Len(q) <= Len(p) => IsPrefix(q, p)
  BY <1>2, <1>4, IsPrefixMeans
<1>8. ASSUME p = q
      PROVE  m = l /\ x = y
  <2>1. m = l /\ Len(x) = Len(y)
    BY <1>2, <1>4, <1>8
  <2>2. \A i \in 1 .. Len(x) : x[i] = y[i]
    <3> SUFFICES ASSUME NEW i \in 1 .. Len(x) PROVE x[i] = y[i]
      OBVIOUS
    <3>1. PICK j \in Len(p) + 2 .. Len(p) + 1 + Len(x) : i = j - Len(p) - 1
      <4>1. i + Len(p) + 1 \in Len(p) + 2 .. Len(p) + 1 + Len(x) /\ i = (i + Len(p) + 1) - Len(p) - 1
        OBVIOUS
      <4> QED
        BY <4>1
    <3> QED
      BY <1>3, <1>5, <1>8, <2>1, <3>1
  <2> QED
    BY <2>1, <2>2, SameSequences
<1> QED
  BY <1>6, <1>7, <1>8

(* The strategies, the marks and the rests of equal keys are equal.        *)
LEMMA MarkedDiffer ==
  ASSUME NEW s \in Strategies, NEW t \in Strategies, NEW m \in Nat, NEW l \in Nat,
         NEW x \in Seq(Nat), NEW y \in Seq(Nat),
         Marked(Prefix[s], m, x) = Marked(Prefix[t], l, y)
  PROVE  s = t /\ m = l /\ x = y
<1>1. PICK p \in Seq(Nat), q \in Seq(Nat) : p = Prefix[s] /\ q = Prefix[t]
  BY KeyParts
<1>2. Marked(p, m, x) = Marked(q, l, y)
  BY <1>1
<1>3. IsPrefix(p, q) \/ IsPrefix(q, p)
  BY <1>2, MarkedAgree
<1>4. s = t
  BY <1>1, <1>3, PrefixesDiffer
<1>5. p = q
  BY <1>1, <1>4
<1> QED
  BY <1>2, <1>4, <1>5, MarkedAgree

-----------------------------------------------------------------------------
(* Arithmetic. *)

(* A set of natural numbers has a least member: what stands in for         *)
(* induction below.                                                        *)
LEMMA LeastNat ==
  ASSUME NEW T \in SUBSET Nat, T # {}
  PROVE  \E x \in T : \A y \in T : x <= y
<1> DEFINE Less == {ss \in Nat \X Nat : ss[1] < ss[2]}
<1>1. IsWellFoundedOn(Less, Nat)
  BY NatLessThanWellFounded DEF OpToRel
<1>2. \A y, x \in Nat : <<y, x>> \in Less <=> y < x
  OBVIOUS
<1> HIDE DEF Less
<1>3. PICK x \in T : \A y \in T : <<y, x>> \notin Less
  BY <1>1, WFMin
<1>4. \A y \in T : x \in Nat /\ y \in Nat /\ ~(y < x)
  BY <1>2, <1>3
<1>5. \A y \in T : x <= y
  BY <1>4
<1> QED
  BY <1>5

\* Multiplying by a natural keeps the order.
LEMMA Mult ==
  ASSUME NEW a \in Int, NEW b \in Int, NEW d \in Nat, a <= b
  PROVE  a * d <= b * d
OBVIOUS

\* Division rounds down.
LEMMA DivMeans ==
  ASSUME NEW v \in Int, NEW d \in Nat \ {0}
  PROVE  v \div d \in Int /\ (v \div d) * d <= v /\ v < ((v \div d) + 1) * d
OBVIOUS

\* Only one whole number lies where the quotient must.
LEMMA DivUnique ==
  ASSUME NEW v \in Int, NEW d \in Nat \ {0}, NEW c \in Int, c * d <= v, v < (c + 1) * d
  PROVE  v \div d = c
<1>1. PICK a \in Int : a = v \div d /\ a * d <= v /\ v < (a + 1) * d
  BY DivMeans
<1>2. a + 1 <= c => (a + 1) * d <= c * d
  BY Mult
<1>3. c + 1 <= a => (c + 1) * d <= a * d
  BY Mult
<1>4. a * d \in Int /\ c * d \in Int /\ (a+1)*d \in Int /\ (c+1)*d \in Int
  OBVIOUS
<1> QED
  BY <1>1, <1>2, <1>3, <1>4

\* Quotient and remainder make up the number.
LEMMA ModMeans ==
  ASSUME NEW v \in Int, NEW d \in Nat \ {0}
  PROVE  v = (v \div d) * d + (v % d) /\ v % d \in 0 .. d - 1
<1>1. v % d \in 0 .. d - 1
  OBVIOUS
<1>2. v = d * (v \div d) + (v % d)
  OBVIOUS
<1>3. d * (v \div d) = (v \div d) * d
  BY DivMeans
<1> QED
  BY <1>1, <1>2, <1>3

\* Dividing twice is dividing by the product.
LEMMA DivDiv ==
  ASSUME NEW v \in Int, NEW b \in Nat \ {0}, NEW p \in Nat \ {0}
  PROVE  v \div (b * p) = (v \div p) \div b
<1>1. PICK a \in Int : a = v \div p /\ a * p <= v /\ v < (a + 1) * p
  BY DivMeans
<1>2. PICK c \in Int : c = a \div b /\ c * b <= a /\ a < (c + 1) * b
  BY DivMeans
<1>3. c * (b * p) <= v
  <2>1. (c * b) * p <= a * p
    BY <1>1, <1>2, Mult
  <2> QED
    BY <1>1, <1>2, <2>1
<1>4. v < (c + 1) * (b * p)
  <2>1. (a + 1) * p <= ((c + 1) * b) * p
    <3>1. PICK e \in Int : e = (c + 1) * b
      BY <1>2
    <3>2. a + 1 \in Int /\ a + 1 <= e
      BY <1>1, <1>2, <3>1
    <3> QED
      BY <3>1, <3>2, Mult
  <2>2. ((c + 1) * b) * p = (c + 1) * (b * p)
    BY <1>2
  <2> QED
    <3>1. (a + 1) * p \in Int /\ (c + 1) * (b * p) \in Int
      BY <1>1, <1>2
    <3>2. (a + 1) * p <= (c + 1) * (b * p)
      BY <2>1, <2>2
    <3>3. v < (a + 1) * p
      BY <1>1
    <3> QED
      BY <3>1, <3>2, <3>3
<1>5. b * p \in Nat \ {0}
  OBVIOUS
<1> QED
  BY <1>1, <1>2, <1>3, <1>4, <1>5, DivUnique

-----------------------------------------------------------------------------
(* Numbers as bytes, the highest first: their order is the order of their  *)
(* bytes.                                                                  *)

\* The powers of the base up to the width of a number, each the next one times the base.
LEMMA Power ==
  /\ \A i \in 0 .. Width : Base ^ i \in Nat \ {0}
  /\ \A i \in 1 .. Width : Base ^ (Width - i) \in Nat \ {0} /\ Base ^ (Width - (i - 1)) = Base * Base ^ (Width - i)
  /\ Base ^ 0 = 1
<1>1. Base ^ 0 = 1
  BY PowersOfBase
<1>2. ASSUME NEW i \in 0 .. Width
      PROVE  Base ^ i \in Nat \ {0}
  <2>1. CASE i = 0
    BY <1>1, <2>1
  <2>2. CASE i # 0
    <3>1. i \in 1 .. Width /\ Base \in Nat \ {0}
      BY <2>2, ConstantTypes
    <3>2. PICK b \in Nat \ {0} : b = Base ^ (i - 1) /\ Base ^ i = Base * b
      BY <3>1, PowersOfBase
    <3> QED
      BY <3>1, <3>2
  <2> QED
    BY <2>1, <2>2
<1>3. ASSUME NEW i \in 1 .. Width
      PROVE  Base ^ (Width - i) \in Nat \ {0} /\ Base ^ (Width - (i - 1)) = Base * Base ^ (Width - i)
  <2>1. PICK j \in 1 .. Width : j = Width - i + 1
    <3>1. Width - i + 1 \in 1 .. Width
      BY ConstantTypes
    <3> QED
      BY <3>1
  <2>2. Width - i = j - 1 /\ Width - (i - 1) = j
    BY <2>1, ConstantTypes
  <2> QED
    BY <2>2, PowersOfBase
<1> QED
  BY <1>1, <1>2, <1>3

(* The first i bytes of v, as a number.                                    *)
Leading(v, i) == v \div Base ^ (Width - i)

\* Every byte of a number extends the number its leading bytes stand for.
LEMMA LeadingStep ==
  ASSUME NEW v \in Int, NEW i \in 1 .. Width
  PROVE  /\ Leading(v, i) \in Int /\ Leading(v, i - 1) \in Int
         /\ Number(v)[i] \in 0 .. Base - 1
         /\ Leading(v, i) = Leading(v, i - 1) * Base + Number(v)[i]
<1>1. PICK p \in Nat \ {0}, q \in Nat \ {0} :
        p = Base ^ (Width - i) /\ q = Base ^ (Width - (i - 1)) /\ q = Base * p
  <2>1. Base ^ (Width - i) \in Nat \ {0} /\ Base \in Nat \ {0}
    BY Power, ConstantTypes
  <2> QED
    BY <2>1, Power
<1>2. Base \in Nat \ {0}
  BY ConstantTypes
<1>3. PICK a \in Int : a = v \div p
  BY DivMeans
<1>4. v \div q = a \div Base /\ v \div q \in Int
  <2>1. v \div (Base * p) = (v \div p) \div Base
    BY <1>2, DivDiv
  <2> QED
    BY <1>1, <1>3, <2>1, DivMeans
<1>5. a = (a \div Base) * Base + (a % Base) /\ a % Base \in 0 .. Base - 1
  BY <1>2, ModMeans
<1>6. Number(v)[i] = a % Base /\ Leading(v, i) = a /\ Leading(v, i - 1) = v \div q
  BY <1>1, <1>3 DEF Number, Leading
<1> QED
  BY <1>3, <1>4, <1>5, <1>6

\* All the bytes stand for the number itself, none of them for zero.
LEMMA LeadingEnds ==
  ASSUME NEW v \in Int
  PROVE  /\ Leading(v, Width) = v
         /\ v \in 0 .. Base ^ Width - 1 => Leading(v, 0) = 0
<1>1. Width - Width = 0 /\ Width - 0 = Width /\ Width \in 0 .. Width
  BY ConstantTypes
<1>2. v \div 1 = v
  BY DivUnique
<1>3. ASSUME v \in 0 .. Base ^ Width - 1
      PROVE  v \div Base ^ Width = 0
  <2>1. PICK q \in Nat \ {0} : q = Base ^ Width
    BY <1>1, Power
  <2>2. 0 * q <= v /\ v < (0 + 1) * q
    BY <1>3, <2>1
  <2> QED
    BY <2>1, <2>2, DivUnique
<1> QED
  BY <1>1, <1>2, <1>3, Power DEF Leading

\* A greater number has no smaller leading bytes.
LEMMA LeadingMono ==
  ASSUME NEW v \in Int, NEW w \in Int, v <= w, NEW i \in 0 .. Width
  PROVE  Leading(v, i) <= Leading(w, i)
<1>1. PICK p \in Nat \ {0} : p = Base ^ (Width - i)
  <2>1. Width - i \in 0 .. Width
    BY ConstantTypes
  <2> QED
    BY <2>1, Power
<1>2. PICK a \in Int : a = v \div p /\ a * p <= v /\ v < (a + 1) * p
  BY DivMeans
<1>3. PICK b \in Int : b = w \div p /\ b * p <= w /\ w < (b + 1) * p
  BY DivMeans
<1>4. b + 1 <= a => (b + 1) * p <= a * p
  BY Mult
<1>5. a * p \in Int /\ (b + 1) * p \in Int
  OBVIOUS
<1>6. a <= b
  BY <1>2, <1>3, <1>4, <1>5
<1> QED
  BY <1>1, <1>2, <1>3, <1>6 DEF Leading

(* Up to some byte equal, and there less.                                  *)
LessAt(n, a, b) == (\A i \in 1 .. n - 1 : a[i] = b[i]) /\ a[n] < b[n]

\* Equal sums with an equal part have the other part equal.
LEMMA Cancel ==
  ASSUME NEW a \in Int, NEW b \in Int, NEW c \in Int, b + a = b + c
  PROVE  a = c
OBVIOUS

\* Big-endian bytes compare as the numbers do, as long as the number fits.
LEMMA NumberOrder ==
  ASSUME NEW v \in 0 .. Base ^ Width - 1, NEW w \in 0 .. Base ^ Width - 1, v < w
  PROVE  \E n \in 1 .. Width : LessAt(n, Number(v), Number(w))
<1> DEFINE Differ == {i \in 0 .. Width : Leading(v, i) # Leading(w, i)}
<1>1. v \in Int /\ w \in Int /\ v <= w
  <2>1. Base ^ Width \in Nat
    BY Power, ConstantTypes
  <2> QED
    BY <2>1
<1>2. Width \in Differ /\ 0 \notin Differ /\ Differ \subseteq Nat
  BY <1>1, LeadingEnds, ConstantTypes
<1>3. PICK n \in Differ : \A i \in Differ : n <= i
  BY <1>2, LeastNat
<1>4. n \in 1 .. Width
  BY <1>2, <1>3, ConstantTypes
<1>5. \A i \in 0 .. n - 1 : Leading(v, i) = Leading(w, i)
  <2>1. \A i \in 0 .. n - 1 : i \in 0 .. Width /\ ~(n <= i)
    BY <1>4, ConstantTypes
  <2> QED
    BY <1>3, <2>1
<1>6. \A i \in 1 .. n - 1 : Number(v)[i] = Number(w)[i]
  <2> SUFFICES ASSUME NEW i \in 1 .. n - 1 PROVE Number(v)[i] = Number(w)[i]
    OBVIOUS
  <2>1. i \in 1 .. Width /\ i \in 0 .. n - 1 /\ i - 1 \in 0 .. n - 1
    BY <1>4, ConstantTypes
  <2>2. Leading(v, i) = Leading(w, i) /\ Leading(v, i - 1) = Leading(w, i - 1)
    BY <1>5, <2>1
  <2> HIDE DEF Differ
  <2>5. /\ Leading(v, i) \in Int /\ Leading(v, i - 1) \in Int
        /\ Number(v)[i] \in 0 .. Base - 1
        /\ Leading(v, i) = Leading(v, i - 1) * Base + Number(v)[i]
    BY <1>1, <2>1, LeadingStep
  <2>6. /\ Leading(w, i) \in Int
        /\ Number(w)[i] \in 0 .. Base - 1
        /\ Leading(w, i) = Leading(w, i - 1) * Base + Number(w)[i]
    BY <1>1, <2>1, LeadingStep
  <2>3. PICK b \in Int : b = Leading(v, i - 1) * Base
    BY <2>5, ConstantTypes
  <2>4. Leading(v, i) = b + Number(v)[i] /\ Leading(w, i) = b + Number(w)[i]
    BY <2>2, <2>3, <2>5, <2>6
  <2>7. Number(v)[i] \in Int /\ Number(w)[i] \in Int
    BY <2>5, <2>6, ConstantTypes
  <2>8. b + Number(v)[i] = b + Number(w)[i]
    BY <2>2, <2>4
  <2> QED
    BY <2>7, <2>8, Cancel
<1>7. Number(v)[n] < Number(w)[n]
  <2>1. Leading(v, n - 1) = Leading(w, n - 1) /\ Leading(v, n) # Leading(w, n)
    BY <1>3, <1>4, <1>5
  <2>2. Leading(v, n) <= Leading(w, n)
    BY <1>1, <1>4, LeadingMono
  <2> HIDE DEF Differ
  <2>5. /\ Leading(v, n) \in Int /\ Leading(v, n - 1) \in Int
        /\ Number(v)[n] \in 0 .. Base - 1
        /\ Leading(v, n) = Leading(v, n - 1) * Base + Number(v)[n]
    BY <1>1, <1>4, LeadingStep
  <2>6. /\ Leading(w, n) \in Int
        /\ Number(w)[n] \in 0 .. Base - 1
        /\ Leading(w, n) = Leading(w, n - 1) * Base + Number(w)[n]
    BY <1>1, <1>4, LeadingStep
  <2>3. PICK b \in Int : b = Leading(v, n - 1) * Base
    BY <2>5, ConstantTypes
  <2>4. Leading(v, n) = b + Number(v)[n] /\ Leading(w, n) = b + Number(w)[n]
    BY <2>1, <2>3, <2>5, <2>6
  <2>7. Number(v)[n] \in Int /\ Number(w)[n] \in Int
    BY <2>5, <2>6, ConstantTypes
  <2> QED
    BY <2>1, <2>2, <2>3, <2>4, <2>5, <2>6, <2>7
<1> QED
  BY <1>4, <1>6, <1>7 DEF LessAt

-----------------------------------------------------------------------------
(* The keys of a strategy. *)

\* The times of fills fit the width of a key.
LEMMA MicrosRange ==
  /\ \A f \in Fills : Micros(f.time) \in 0 .. Micros(MaxTime) - 1
  /\ \A t \in 0 .. MaxTime : Micros(t) \in 0 .. Micros(MaxTime)
  /\ 0 .. Micros(MaxTime) \subseteq 0 .. Base ^ Width - 1
  /\ Micros(0) = 0 /\ Micros(MaxTime) \in Nat
<1>1. PICK u \in Nat \ {0} : u = Micro
  BY ConstantTypes
<1>2. PICK a \in Int : a = MaxTime \div u /\ a * u <= MaxTime /\ MaxTime < (a + 1) * u
  BY ConstantTypes, DivMeans
<1>3. a \in Nat
  BY <1>2, ConstantTypes
<1>4. Micros(MaxTime) = a
  BY <1>1, <1>2, ConstantTypes DEF Micros
<1>5. ASSUME NEW t \in 0 .. MaxTime
      PROVE  /\ Micros(t) \in 0 .. a
             /\ t <= MaxTime - u => Micros(t) \in 0 .. a - 1
  <2>1. t \in Int /\ 0 <= t /\ t <= MaxTime /\ MaxTime \in Int
    BY ConstantTypes
  <2>2. PICK b \in Int : b = t \div u /\ b * u <= t /\ t < (b + 1) * u
    BY <2>1, DivMeans
  <2>3. b \in Nat /\ Micros(t) = b
    BY <1>1, <2>1, <2>2 DEF Micros
  <2>4. a + 1 <= b => (a + 1) * u <= b * u
    BY Mult
  <2>5. (a + 1) * u \in Int /\ b * u \in Int /\ a * u \in Int
    OBVIOUS
  <2>6. b <= a
    BY <1>2, <2>1, <2>2, <2>4, <2>5
  <2>7. ASSUME t <= MaxTime - u, b = a
        PROVE  FALSE
    <3>1. (a + 1) * u = a * u + u
      OBVIOUS
    <3> QED
      BY <1>2, <2>1, <2>2, <2>5, <2>7, <3>1
  <2> QED
    BY <2>3, <2>6, <2>7
<1>6. \A f \in Fills : f.time \in 0 .. MaxTime /\ f.time <= MaxTime - u
  BY <1>1, ConstantTypes, NumbersFit
<1>7. a < Base ^ Width /\ Base ^ Width \in Nat
  BY <1>1, <1>2, <1>3, ConstantTypes, NumbersFit, Power
<1>8. Micros(0) = 0
  <2>1. 0 \div u = 0
    BY DivUnique
  <2> QED
    BY <1>1, <2>1 DEF Micros
<1> QED
  BY <1>3, <1>4, <1>5, <1>6, <1>7, <1>8

\* A time in microseconds is a whole number.
LEMMA MicrosTypes == \A t \in Int : Micros(t) \in Int
BY ConstantTypes, DivMeans DEF Micros

\* A number has as many bytes as its width.
LEMMA NumberBytes ==
  ASSUME NEW v \in Int
  PROVE  Number(v) \in Seq(Nat) /\ Len(Number(v)) = Width
<1>1. \A i \in 1 .. Width : Number(v)[i] \in Nat
  BY LeadingStep, ConstantTypes
<1>2. PICK w \in Nat : w = Width
  BY ConstantTypes
<1>3. Number(v) \in [1 .. w -> Nat]
  BY <1>1, <1>2 DEF Number
<1> QED
  BY <1>2, <1>3

\* The table of byte strings holds what Number yields.
LEMMA NumbersOf ==
  /\ \A f \in Fills : NumberOf[Micros(f.time)] = Number(Micros(f.time))
  /\ \A t \in Times \cup {0, MaxTime} : NumberOf[Micros(t)] = Number(Micros(t))
<1>1. \A t \in Times \cup {f.time : f \in Fills} \cup {0, MaxTime} : NumberOf[Micros(t)] = Number(Micros(t))
  BY DEF NumberOf
<1> QED
  BY <1>1

(* What follows the mark in the key of a fill.                             *)
TimeAndId(f) == Number(Micros(f.time)) \o f.id

\* The three kinds of key, with their marks.
LEMMA KeysAre ==
  /\ VarPrefix = <<35>> /\ FillPrefix = <<36>> /\ OrderPrefix = <<64>>
  /\ \A s \in Strategies, n \in Names : VarKey(s, n) = Marked(Prefix[s], 35, n) /\ n \in Seq(Nat)
  /\ \A s \in Strategies, o \in Orders : OrderKey(s, o) = Marked(Prefix[s], 64, o.id) /\ o.id \in Seq(Nat)
  /\ \A s \in Strategies, f \in Fills :
        FillKey(s, f) = Marked(Prefix[s], 36, TimeAndId(f)) /\ TimeAndId(f) \in Seq(Nat)
<1>1. \A s \in Strategies, n \in Names : VarKey(s, n) = Marked(Prefix[s], 35, n) /\ n \in Seq(Nat)
  BY KeyParts DEF VarKey, VarPrefix, Marked
<1>2. \A s \in Strategies, o \in Orders : OrderKey(s, o) = Marked(Prefix[s], 64, o.id) /\ o.id \in Seq(Nat)
  BY KeyParts DEF OrderKey, OrderPrefix, Marked
<1>3. ASSUME NEW s \in Strategies, NEW f \in Fills
      PROVE  FillKey(s, f) = Marked(Prefix[s], 36, TimeAndId(f)) /\ TimeAndId(f) \in Seq(Nat)
  <2>1. PICK v \in Seq(Nat) : v = Number(Micros(f.time))
    BY MicrosRange, NumberBytes
  <2>2. PICK p \in Seq(Nat) : p = Prefix[s] \o <<36>>
    <3>1. Prefix[s] \in Seq(Nat) /\ <<36>> \in Seq(Nat)
      BY KeyParts
    <3>2. Prefix[s] \o <<36>> \in Seq(Nat)
      BY <3>1
    <3> QED
      BY <3>2
  <2>3. PICK d \in Seq(Nat) : d = f.id
    BY KeyParts
  <2>4. FillKey(s, f) = p \o v \o d
    BY <2>1, <2>2, <2>3, NumbersOf DEF FillKey, FillPrefix
  <2>5. p \o v \o d = p \o (v \o d)
    OBVIOUS
  <2>6. TimeAndId(f) = v \o d /\ v \o d \in Seq(Nat)
    BY <2>1, <2>3 DEF TimeAndId
  <2>7. Marked(Prefix[s], 36, v \o d) = p \o (v \o d)
    BY <2>2 DEF Marked
  <2> QED
    BY <2>4, <2>5, <2>6, <2>7
<1> QED
  BY <1>1, <1>2, <1>3 DEF VarPrefix, FillPrefix, OrderPrefix

\* Fills with the same time and id are the same fill.
LEMMA TimeAndIdDiffer ==
  ASSUME NEW f \in Fills, NEW g \in Fills, TimeAndId(f) = TimeAndId(g)
  PROVE  f = g
<1>1. PICK a \in 0 .. Base ^ Width - 1, b \in 0 .. Base ^ Width - 1 : a = Micros(f.time) /\ b = Micros(g.time)
  BY MicrosRange
<1>2. a \in Int /\ b \in Int
  BY Power, ConstantTypes
<1>3. PICK v \in Seq(Nat), w \in Seq(Nat) : v = Number(a) /\ w = Number(b) /\ Len(v) = Width /\ Len(w) = Width
  BY <1>2, NumberBytes
<1>4. PICK x \in Seq(Nat), y \in Seq(Nat) : x = f.id /\ y = g.id
  BY KeyParts
<1>5. v \o x = w \o y
  BY <1>1, <1>3, <1>4 DEF TimeAndId
<1>6. Len(x) = Len(y)
  <2>1. Len(v \o x) = Len(v) + Len(x) /\ Len(w \o y) = Len(w) + Len(y)
    OBVIOUS
  <2> QED
    BY <1>3, <1>5, <2>1, Cancel
<1>7. \A i \in 1 .. Width : v[i] = w[i]
  <2>1. \A i \in 1 .. Len(v) : (v \o x)[i] = v[i]
    OBVIOUS
  <2>2. \A i \in 1 .. Len(w) : (w \o y)[i] = w[i]
    OBVIOUS
  <2> QED
    BY <1>3, <1>5, <2>1, <2>2
<1>8. \A i \in 1 .. Len(x) : x[i] = y[i]
  <2> SUFFICES ASSUME NEW i \in 1 .. Len(x) PROVE x[i] = y[i]
    OBVIOUS
  <2>1. (v \o x)[Len(v) + i] = x[i]
    BY SMTT(60)
  <2>2. (w \o y)[Len(w) + i] = y[i]
    BY <1>6
  <2> QED
    BY <1>3, <1>5, <2>1, <2>2
<1>9. a = b
  <2>1. \A i \in 1 .. Width : v[i] \in Int /\ w[i] \in Int
    BY <1>3
  <2>2. ~(\E n \in 1 .. Width : LessAt(n, v, w)) /\ ~(\E n \in 1 .. Width : LessAt(n, w, v))
    BY <1>7, <2>1 DEF LessAt
  <2>3. ~(a < b) /\ ~(b < a)
    BY <1>3, <2>2, NumberOrder
  <2> QED
    BY <1>2, <2>3
<1> QED
  BY <1>1, <1>4, <1>6, <1>8, <1>9, SameSequences, IdsDiffer, ZenonT(60)

\* Keys of different strategies, kinds or names differ: the prefixes keep the strategies apart.
LEMMA KeysDiffer ==
  ASSUME NEW s \in Strategies, NEW t \in Strategies
  PROVE  /\ \A n, m \in Names : VarKey(s, n) = VarKey(t, m) => s = t /\ n = m
         /\ \A o, p \in Orders : OrderKey(s, o) = OrderKey(t, p) => s = t /\ o = p
         /\ \A f, g \in Fills : FillKey(s, f) = FillKey(t, g) => s = t /\ f = g
         /\ \A n \in Names, o \in Orders : VarKey(s, n) # OrderKey(t, o)
         /\ \A n \in Names, f \in Fills : VarKey(s, n) # FillKey(t, f)
         /\ \A o \in Orders, f \in Fills : OrderKey(s, o) # FillKey(t, f)
<1>1. \A n, m \in Names : VarKey(s, n) = VarKey(t, m) => s = t /\ n = m
  BY KeysAre, MarkedDiffer
<1>2. \A o, p \in Orders : OrderKey(s, o) = OrderKey(t, p) => s = t /\ o = p
  BY KeysAre, MarkedDiffer, IdsDiffer
<1>3. \A f, g \in Fills : FillKey(s, f) = FillKey(t, g) => s = t /\ f = g
  BY KeysAre, MarkedDiffer, TimeAndIdDiffer
<1>4. \A n \in Names, o \in Orders : VarKey(s, n) # OrderKey(t, o)
  BY KeysAre, MarkedDiffer
<1>5. \A n \in Names, f \in Fills : VarKey(s, n) # FillKey(t, f)
  BY KeysAre, MarkedDiffer
<1>6. \A o \in Orders, f \in Fills : OrderKey(s, o) # FillKey(t, f)
  BY KeysAre, MarkedDiffer
<1> QED
  BY <1>1, <1>2, <1>3, <1>4, <1>5, <1>6

-----------------------------------------------------------------------------
(* The invariant, and the ledgers that a database implements.              *)

VarValues == {Var(x) : x \in 1 .. MaxVersion}

(* What is held at a key is what its mark says.                            *)
Fitting(held) ==
    \A s \in Strategies :
        /\ \A n \in Names : VarKey(s, n) \in DOMAIN held => held[VarKey(s, n)] \in VarValues
        /\ \A o \in Orders : OrderKey(s, o) \in DOMAIN held => held[OrderKey(s, o)] \in {Record(o), Erased}
        /\ \A f \in Fills : FillKey(s, f) \in DOMAIN held => held[FillKey(s, f)] = FillOf(f)

(* The batch of strategy s: its own keys, and no older value of a variable *)
(* than the database has.                                                  *)
BatchInv(s) ==
    /\ DOMAIN batch[s] \subseteq Keys(s) /\ IsFiniteSet(DOMAIN batch[s]) /\ Fitting(batch[s])
    /\ \A n \in Names : VarKey(s, n) \in DOMAIN batch[s] => batch[s][VarKey(s, n)].of >= VarGet(s, n)

DatabaseInv ==
    /\ DOMAIN db \subseteq AllKeys /\ IsFiniteSet(DOMAIN db) /\ Fitting(db)
    /\ \A k \in DOMAIN db : db[k] # Erased

(* A generator is at a key the database has had.                           *)
GeneratorInv(s) ==
    \E at, order, instr, got :
        at \in SUBSET AllKeys /\ restoring[s] = [at |-> at, order |-> order, instr |-> instr, got |-> got]

StorageInv ==
    /\ DOMAIN batch = Strategies /\ batch = [s \in Strategies |-> batch[s]]
    /\ DOMAIN restoring = Strategies /\ restoring = [s \in Strategies |-> restoring[s]]
    /\ DatabaseInv
    /\ \A s \in Strategies : BatchInv(s)
    /\ \A s \in Strategies : GeneratorInv(s)

\* Erasures, variables, records and fills can be told apart.
LEMMA Kinds ==
  /\ Erased \notin Values
  /\ \A x : Var(x).of = x
  /\ \A o : Record(o) # Erased /\ FillOf(o) # Erased /\ Var(o) # Erased
  /\ \A o : Record(o).of = o /\ FillOf(o).of = o
  /\ \A x, y : Var(x) # Record(y) /\ Var(x) # FillOf(y) /\ Record(x) # FillOf(y)
BY DEF Erased, Values, Var, Record, FillOf

\* The keys of a strategy are those of its variables, orders and fills.
LEMMA OwnKeys ==
  ASSUME NEW s \in Strategies
  PROVE  /\ \A n \in Names : VarKey(s, n) \in Keys(s)
         /\ \A o \in Orders : OrderKey(s, o) \in Keys(s)
         /\ \A f \in Fills : FillKey(s, f) \in Keys(s)
         /\ Keys(s) \subseteq AllKeys
         /\ \A k \in Keys(s) : \/ \E n \in Names : k = VarKey(s, n)
                               \/ \E o \in Orders : k = OrderKey(s, o)
                               \/ \E f \in Fills : k = FillKey(s, f)
BY DEF Keys, AllKeys

(* No strategy writes a key of another.                                    *)
LEMMA StrangeKeys ==
  ASSUME NEW s \in Strategies, NEW t \in Strategies, s # t
  PROVE  Keys(s) \cap Keys(t) = {}
<1> SUFFICES ASSUME NEW k \in Keys(s), k \in Keys(t) PROVE FALSE
  OBVIOUS
<1>1. \/ \E n \in Names : k = VarKey(s, n)
      \/ \E o \in Orders : k = OrderKey(s, o)
      \/ \E f \in Fills : k = FillKey(s, f)
  BY OwnKeys
<1>2. \/ \E n \in Names : k = VarKey(t, n)
      \/ \E o \in Orders : k = OrderKey(t, o)
      \/ \E f \in Fills : k = FillKey(t, f)
  BY OwnKeys
<1> QED
  BY <1>1, <1>2, KeysDiffer

\* Writing fitting values over fitting ones leaves fitting ones.
LEMMA OverFits ==
  ASSUME NEW held, NEW values, Fitting(held), Fitting(values)
  PROVE  Fitting(Over(held, values))
<1>1. PICK m : m = Over(held, values)
  OBVIOUS
<1>2. /\ DOMAIN m = DOMAIN values \cup DOMAIN held
      /\ \A k \in DOMAIN values : m[k] = values[k]
      /\ \A k \in (DOMAIN held) \ DOMAIN values : m[k] = held[k]
  BY <1>1 DEF Over
<1>3. \A k \in DOMAIN m : \/ k \in DOMAIN values /\ m[k] = values[k]
                          \/ k \in DOMAIN held /\ m[k] = held[k]
  BY <1>2
<1>4. Fitting(m)
  BY <1>3 DEF Fitting
<1> QED
  BY <1>1, <1>4

\* A variable reads as a version, and as a real one when it is stored.
LEMMA VarGetRange ==
  ASSUME DatabaseInv, NEW s \in Strategies, NEW n \in Names
  PROVE  /\ VarGet(s, n) \in 0 .. MaxVersion
         /\ VarKey(s, n) \in DOMAIN db => VarGet(s, n) \in 1 .. MaxVersion
BY Kinds, ConstantTypes DEF DatabaseInv, Fitting, VarValues, VarGet

-----------------------------------------------------------------------------
(* The steps. *)

\* Changing the batch of one strategy leaves the invariant of the others.
LEMMA BatchOfOthers ==
  ASSUME StorageInv, NEW s \in Strategies, NEW b, batch' = [batch EXCEPT ![s] = b], UNCHANGED db,
         NEW t \in Strategies \ {s}
  PROVE  batch'[t] = batch[t] /\ BatchInv(t)'
<1>1. batch'[t] = batch[t]
  BY DEF StorageInv
<1>2. \A n \in Names : VarGet(t, n)' = VarGet(t, n)
  BY DEF VarGet
<1> QED
  BY <1>1, <1>2 DEF StorageInv, BatchInv

\* Batching fitting values under the strategy's own keys keeps the invariant.
LEMMA InvByWrite ==
  ASSUME StorageInv, NEW s \in Strategies, NEW values, Write(s, values), UNCHANGED <<db, restoring>>,
         Fitting(values), DOMAIN values \subseteq Keys(s), IsFiniteSet(DOMAIN values),
         \A n \in Names : VarKey(s, n) \in DOMAIN values => values[VarKey(s, n)].of >= VarGet(s, n)
  PROVE  StorageInv'
<1>1. batch' = [batch EXCEPT ![s] = Over(batch[s], values)] /\ batch'[s] = Over(batch[s], values)
  BY DEF Write, StorageInv
<1>2. \A t \in Strategies \ {s} : BatchInv(t)'
  BY <1>1, BatchOfOthers
<1>3. BatchInv(s)'
  <2>1. DOMAIN batch'[s] = DOMAIN values \cup DOMAIN batch[s]
    BY <1>1 DEF Over
  <2>2. IsFiniteSet(DOMAIN batch'[s]) /\ DOMAIN batch'[s] \subseteq Keys(s)
    <3>1. IsFiniteSet(DOMAIN batch[s]) /\ DOMAIN batch[s] \subseteq Keys(s)
      BY DEF StorageInv, BatchInv
    <3>2. IsFiniteSet(DOMAIN values \cup DOMAIN batch[s])
      BY <3>1, FS_Union
    <3> QED
      BY <2>1, <3>1, <3>2
  <2>3. Fitting(batch'[s])
    BY <1>1, OverFits DEF StorageInv, BatchInv
  <2>4. \A n \in Names : VarKey(s, n) \in DOMAIN batch'[s] => batch'[s][VarKey(s, n)].of >= VarGet(s, n)
    <3>1. \A n \in Names : VarKey(s, n) \in DOMAIN batch[s] => batch[s][VarKey(s, n)].of >= VarGet(s, n)
      BY DEF StorageInv, BatchInv
    <3>2. /\ \A k \in DOMAIN values : batch'[s][k] = values[k]
          /\ \A k \in (DOMAIN batch[s]) \ DOMAIN values : batch'[s][k] = batch[s][k]
      BY <1>1 DEF Over
    <3> QED
      BY <2>1, <3>1, <3>2
  <2>5. \A n \in Names : VarGet(s, n)' = VarGet(s, n)
    BY DEF VarGet
  <2> QED
    BY <2>2, <2>3, <2>4, <2>5 DEF BatchInv, Fitting, Keys
<1>4. DOMAIN batch' = Strategies /\ batch' = [t \in Strategies |-> batch'[t]]
  BY <1>1 DEF StorageInv
<1> QED
  BY <1>2, <1>3, <1>4 DEF StorageInv, DatabaseInv, GeneratorInv, Fitting

\* Setting a variable keeps the invariant.
LEMMA InvByVarSet ==
  ASSUME StorageInv, NEW s \in Strategies, NEW n \in Names, VarSet(s, n)
  PROVE  StorageInv'
<1>1. PICK last : /\ last = (IF VarKey(s, n) \in DOMAIN batch[s] THEN batch[s][VarKey(s, n)].of ELSE VarGet(s, n))
                  /\ last < MaxVersion
                  /\ Write(s, [k \in {VarKey(s, n)} |-> Var(last + 1)])
                  /\ UNCHANGED <<db, restoring>>
  BY DEF VarSet
<1>2. last \in 0 .. MaxVersion /\ last >= VarGet(s, n) /\ VarGet(s, n) \in 0 .. MaxVersion
  <2>1. VarGet(s, n) \in 0 .. MaxVersion
    BY VarGetRange DEF StorageInv
  <2>2. CASE VarKey(s, n) \in DOMAIN batch[s]
    BY <1>1, <2>1, <2>2, Kinds DEF StorageInv, BatchInv, Fitting, VarValues
  <2>3. CASE VarKey(s, n) \notin DOMAIN batch[s]
    BY <1>1, <2>1, <2>3
  <2> QED
    BY <2>1, <2>2, <2>3
<1>3. PICK values : values = [k \in {VarKey(s, n)} |-> Var(last + 1)]
  OBVIOUS
<1>4. DOMAIN values = {VarKey(s, n)} /\ values[VarKey(s, n)] = Var(last + 1)
  BY <1>3
<1>5. last + 1 \in 1 .. MaxVersion /\ last + 1 >= VarGet(s, n)
  BY <1>1, <1>2, ConstantTypes
<1>6. Fitting(values)
  BY <1>4, <1>5, KeysDiffer DEF Fitting, VarValues
<1>7. \A m \in Names : VarKey(s, m) \in DOMAIN values => values[VarKey(s, m)].of >= VarGet(s, m)
  BY <1>4, <1>5, KeysDiffer, Kinds
<1>8. DOMAIN values \subseteq Keys(s) /\ IsFiniteSet(DOMAIN values)
  <2>1. IsFiniteSet({VarKey(s, n)})
    BY FS_Singleton
  <2> QED
    BY <1>4, <2>1, OwnKeys
<1> QED
  BY <1>1, <1>3, <1>6, <1>7, <1>8, InvByWrite

(* What process_event(Order) writes.                                       *)
WrittenOf(s, o, state, fills) ==
  Over([k \in {FillKey(s, f) : f \in fills} |-> FillOf(CHOOSE f \in fills : FillKey(s, f) = k)],
       [k \in {OrderKey(s, o)} |-> IF state = "done" THEN Erased ELSE Record(o)])

\* What an order report writes: its record or its erasure, and its fills.
LEMMA WrittenByOrder ==
  ASSUME NEW s \in Strategies, NEW o \in Orders, NEW state, NEW fills \in SUBSET FillsOf[o],
         NEW values, values = WrittenOf(s, o, state, fills)
  PROVE  /\ DOMAIN values = {OrderKey(s, o)} \cup {FillKey(s, f) : f \in fills}
         /\ values[OrderKey(s, o)] = IF state = "done" THEN Erased ELSE Record(o)
         /\ \A f \in fills : values[FillKey(s, f)] = FillOf(f)
         /\ fills \subseteq Fills
<1>1. fills \subseteq Fills
  BY DEF Fills
<1> DEFINE record == [k \in {OrderKey(s, o)} |-> IF state = "done" THEN Erased ELSE Record(o)]
           stored == [k \in {FillKey(s, f) : f \in fills} |-> FillOf(CHOOSE f \in fills : FillKey(s, f) = k)]
<1>2. \A f \in fills : stored[FillKey(s, f)] = FillOf(f)
  BY <1>1, KeysDiffer
<1>3. DOMAIN record = {OrderKey(s, o)} /\ DOMAIN stored = {FillKey(s, f) : f \in fills}
  OBVIOUS
<1>4. record[OrderKey(s, o)] = IF state = "done" THEN Erased ELSE Record(o)
  OBVIOUS
<1>5. values = Over(stored, record)
  BY DEF WrittenOf
<1> HIDE DEF record, stored
<1>6. \A f \in fills : FillKey(s, f) # OrderKey(s, o)
  BY <1>1, KeysDiffer
<1>7. /\ DOMAIN values = DOMAIN record \cup DOMAIN stored
      /\ \A k \in DOMAIN record : values[k] = record[k]
      /\ \A k \in (DOMAIN stored) \ DOMAIN record : values[k] = stored[k]
  BY <1>5 DEF Over
<1>8. values[OrderKey(s, o)] = IF state = "done" THEN Erased ELSE Record(o)
  BY <1>3, <1>4, <1>7
<1>9. \A f \in fills : values[FillKey(s, f)] = FillOf(f)
  BY <1>2, <1>3, <1>6, <1>7
<1> QED
  BY <1>1, <1>3, <1>7, <1>8, <1>9

\* Processing an order report keeps the invariant.
LEMMA InvByProcessOrder ==
  ASSUME StorageInv, NEW s \in Strategies, NEW o \in Orders, NEW state, NEW fills \in SUBSET FillsOf[o],
         ProcessOrder(s, o, state, fills)
  PROVE  StorageInv'
<1>1. PICK values : values = WrittenOf(s, o, state, fills)
  OBVIOUS
<1>2. Write(s, values) /\ UNCHANGED <<db, restoring>>
  BY <1>1 DEF ProcessOrder, WrittenOf
<1>3. /\ DOMAIN values = {OrderKey(s, o)} \cup {FillKey(s, f) : f \in fills}
      /\ values[OrderKey(s, o)] = IF state = "done" THEN Erased ELSE Record(o)
      /\ \A f \in fills : values[FillKey(s, f)] = FillOf(f)
      /\ fills \subseteq Fills
  BY <1>1, WrittenByOrder, SMTT(60)
<1>4. Fitting(values)
  BY <1>3, KeysDiffer DEF Fitting
<1>5. DOMAIN values \subseteq Keys(s)
  BY <1>3, OwnKeys
<1>6. IsFiniteSet(DOMAIN values)
  <2>1. IsFiniteSet(fills)
    BY KeyParts, FS_Subset
  <2>2. [f \in fills |-> FillKey(s, f)] \in Surjection(fills, {FillKey(s, f) : f \in fills})
    BY DEF Surjection
  <2>3. IsFiniteSet({FillKey(s, f) : f \in fills})
    BY <2>1, <2>2, FS_Surjection
  <2>4. IsFiniteSet({OrderKey(s, o)})
    BY FS_Singleton
  <2>5. IsFiniteSet({OrderKey(s, o)} \cup {FillKey(s, f) : f \in fills})
    BY <2>3, <2>4, FS_Union
  <2> QED
    BY <1>3, <2>5
<1>7. \A n \in Names : VarKey(s, n) \notin DOMAIN values
  BY <1>3, KeysDiffer
<1> QED
  BY <1>2, <1>4, <1>5, <1>6, <1>7, InvByWrite

(* What a commit leaves at a key.                                          *)
LEMMA CommittedAt ==
  ASSUME NEW s \in Strategies, FlushBatches(s), NEW k
  PROVE  /\ k \in DOMAIN batch[s] /\ batch[s][k] = Erased => k \notin DOMAIN db'
         /\ k \in DOMAIN batch[s] /\ batch[s][k] # Erased => k \in DOMAIN db' /\ db'[k] = batch[s][k]
         /\ k \notin DOMAIN batch[s] /\ k \in DOMAIN db => k \in DOMAIN db' /\ db'[k] = db[k]
         /\ k \notin DOMAIN batch[s] /\ k \notin DOMAIN db => k \notin DOMAIN db'
BY DEF FlushBatches, Committed

\* A flush makes visible what its strategy batched and nothing else.
LEMMA FlushedVar ==
  ASSUME StorageInv, NEW s \in Strategies, FlushBatches(s), NEW t \in Strategies, NEW n \in Names
  PROVE  VarGet(t, n)' = IF t = s /\ VarKey(s, n) \in DOMAIN batch[s] THEN batch[s][VarKey(s, n)].of
                                                                       ELSE VarGet(t, n)
<1> DEFINE k == VarKey(t, n)
<1>1. VarGet(t, n)' = IF k \in DOMAIN db' THEN db'[k].of ELSE 0
  BY DEF VarGet, VarKey
<1>2. k \in DOMAIN batch[s] => t = s
  BY OwnKeys, StrangeKeys DEF StorageInv, BatchInv
<1>3. k \in DOMAIN batch[s] => batch[s][k] # Erased
  BY <1>2, Kinds DEF StorageInv, BatchInv, Fitting, VarValues
<1> QED
  BY <1>1, <1>2, <1>3, CommittedAt DEF VarGet

\* A flush keeps the invariant.
LEMMA InvByFlush ==
  ASSUME StorageInv, NEW s \in Strategies, FlushBatches(s)
  PROVE  StorageInv'
<1>1. batch' = [batch EXCEPT ![s] = <<>>] /\ restoring' = restoring
  BY DEF FlushBatches
<1>2. DOMAIN db' \subseteq DOMAIN batch[s] \cup DOMAIN db
  BY CommittedAt
<1>3. DatabaseInv'
  <2>1. DOMAIN batch[s] \subseteq Keys(s) /\ IsFiniteSet(DOMAIN batch[s]) /\ Fitting(batch[s])
    BY DEF StorageInv, BatchInv
  <2>2. DOMAIN db \subseteq AllKeys /\ IsFiniteSet(DOMAIN db) /\ Fitting(db) /\ \A k \in DOMAIN db : db[k] # Erased
    BY DEF StorageInv, DatabaseInv
  <2>3. IsFiniteSet(DOMAIN batch[s] \cup DOMAIN db)
    BY <2>1, <2>2, FS_Union
  <2>4. IsFiniteSet(DOMAIN db')
    BY <1>2, <2>3, FS_Subset
  <2>5. DOMAIN db' \subseteq AllKeys
    BY <1>2, <2>1, <2>2, OwnKeys
  <2>6. \A k \in DOMAIN db' : /\ db'[k] # Erased
                              /\ \/ k \in DOMAIN batch[s] /\ db'[k] = batch[s][k]
                                 \/ k \in DOMAIN db /\ db'[k] = db[k]
    BY <2>2, CommittedAt
  <2>7. Fitting(db)'
    BY <2>1, <2>2, <2>6 DEF Fitting, VarKey, OrderKey, FillKey
  <2> QED
    BY <2>4, <2>5, <2>6, <2>7 DEF DatabaseInv
<1>4. ASSUME NEW t \in Strategies
      PROVE  BatchInv(t)'
  <2>1. CASE t = s
    <3>1. batch'[t] = <<>> /\ DOMAIN batch'[t] = {}
      BY <1>1, <2>1 DEF StorageInv
    <3>2. IsFiniteSet(DOMAIN batch'[t])
      BY <3>1, FS_EmptySet
    <3> QED
      BY <3>1, <3>2 DEF BatchInv, Fitting
  <2>2. CASE t # s
    <3>1. batch'[t] = batch[t]
      BY <1>1, <2>2 DEF StorageInv
    <3>2. \A n \in Names : VarGet(t, n)' = VarGet(t, n)
      BY <2>2, FlushedVar
    <3> QED
      BY <3>1, <3>2 DEF StorageInv, BatchInv
  <2> QED
    BY <2>1, <2>2
<1>5. DOMAIN batch' = Strategies /\ batch' = [t \in Strategies |-> batch'[t]]
  BY <1>1 DEF StorageInv
<1> QED
  BY <1>1, <1>3, <1>4, <1>5 DEF StorageInv, GeneratorInv

(* A step that leaves the database and the batches alone.                  *)
LEMMA InvByGenerator ==
  ASSUME StorageInv, UNCHANGED <<db, batch>>, NEW s \in Strategies, NEW at \in SUBSET AllKeys,
         NEW order, NEW instr, NEW got,
         restoring' = [restoring EXCEPT ![s] = [at |-> at, order |-> order, instr |-> instr, got |-> got]]
  PROVE  StorageInv'
<1>1. DOMAIN restoring' = Strategies /\ restoring' = [t \in Strategies |-> restoring'[t]]
  BY DEF StorageInv
<1>2. GeneratorInv(s)'
  <2>1. restoring'[s] = [at |-> at, order |-> order, instr |-> instr, got |-> got]
    BY DEF StorageInv
  <2> QED
    BY <2>1 DEF GeneratorInv
<1>3. ASSUME NEW t \in Strategies \ {s}
      PROVE  GeneratorInv(t)'
  <2>1. restoring'[t] = restoring[t]
    BY DEF StorageInv
  <2>2. GeneratorInv(t)
    BY DEF StorageInv
  <2> QED
    BY <2>1, <2>2 DEF GeneratorInv
<1>4. \A t \in Strategies : BatchInv(t)'
  BY DEF StorageInv, BatchInv, VarGet, Fitting
<1>5. DatabaseInv'
  BY DEF StorageInv, DatabaseInv, Fitting
<1> QED
  BY <1>1, <1>2, <1>3, <1>4, <1>5 DEF StorageInv

\* Starting a restore keeps the invariant.
LEMMA InvByStart ==
  ASSUME StorageInv, NEW s \in Strategies, NEW i \in Instruments, StartRestore(s, i)
  PROVE  StorageInv'
<1>1. PICK k \in FirstFrom(Prefix[s] \o OrderPrefix) :
        restoring' = [restoring EXCEPT ![s] = [at |-> {k}, order |-> {db[k].of}, instr |-> i, got |-> {}]]
  BY DEF StartRestore
<1>2. {k} \in SUBSET AllKeys
  BY <1>1 DEF FirstFrom, StorageInv, DatabaseInv
<1> QED
  BY <1>1, <1>2, InvByGenerator DEF StartRestore

\* A turn of a restore keeps the invariant.
LEMMA InvByTurn ==
  ASSUME StorageInv, NEW s \in Strategies, RestoreTurn(s)
  PROVE  StorageInv'
<1>1. PICK o : restoring' = [restoring EXCEPT ![s].got = @ \cup {o}]
  BY DEF RestoreTurn
<1>2. PICK at, order, instr, got :
         at \in SUBSET AllKeys /\ restoring[s] = [at |-> at, order |-> order, instr |-> instr, got |-> got]
  BY DEF StorageInv, GeneratorInv
<1>3. [restoring[s] EXCEPT !.got = @ \cup {o}] = [at |-> at, order |-> order, instr |-> instr, got |-> got \cup {o}]
  BY <1>2
<1>4. restoring' = [restoring EXCEPT ![s] = [restoring[s] EXCEPT !.got = @ \cup {o}]]
  BY <1>1
<1>5. restoring' = [restoring EXCEPT ![s] = [at |-> at, order |-> order, instr |-> instr, got |-> got \cup {o}]]
  BY <1>3, <1>4
<1>6. UNCHANGED <<db, batch>> /\ at \in SUBSET AllKeys
  BY <1>2 DEF RestoreTurn
<1> QED
  BY <1>5, <1>6, InvByGenerator

\* The end of a restore keeps the invariant.
LEMMA InvByStop ==
  ASSUME StorageInv, NEW s \in Strategies, StopRestore(s)
  PROVE  StorageInv'
<1>1. {} \in SUBSET AllKeys
  OBVIOUS
<1> QED
  BY <1>1, InvByGenerator DEF StopRestore, NoGenerator

\* A crash keeps the invariant: it loses the batch, never a part of it.
LEMMA InvByCrash ==
  ASSUME StorageInv, NEW s \in Strategies, Crash(s)
  PROVE  StorageInv'
<1>1. batch' = [batch EXCEPT ![s] = <<>>] /\ restoring' = [restoring EXCEPT ![s] = NoGenerator] /\ UNCHANGED db
  BY DEF Crash
<1>2. \A t \in Strategies \ {s} : BatchInv(t)'
  BY <1>1, BatchOfOthers
<1>3. BatchInv(s)'
  <2>1. batch'[s] = <<>> /\ DOMAIN batch'[s] = {}
    BY <1>1 DEF StorageInv
  <2>2. IsFiniteSet(DOMAIN batch'[s])
    BY <2>1, FS_EmptySet
  <2> QED
    BY <2>1, <2>2 DEF BatchInv, Fitting
<1>4. DatabaseInv'
  BY <1>1 DEF StorageInv, DatabaseInv, Fitting
<1>5. ASSUME NEW t \in Strategies
      PROVE  GeneratorInv(t)'
  <2>1. CASE t = s
    <3>1. restoring'[t] = [at |-> {}, order |-> {}, instr |-> 0, got |-> {}] /\ {} \in SUBSET AllKeys
      BY <1>1, <2>1 DEF StorageInv, NoGenerator
    <3> QED
      BY <3>1 DEF GeneratorInv
  <2>2. CASE t # s
    <3>1. restoring'[t] = restoring[t] /\ GeneratorInv(t)
      BY <1>1, <2>2 DEF StorageInv
    <3> QED
      BY <3>1 DEF GeneratorInv
  <2> QED
    BY <2>1, <2>2
<1>6. DOMAIN batch' = Strategies /\ batch' = [t \in Strategies |-> batch'[t]]
  BY <1>1 DEF StorageInv
<1>7. DOMAIN restoring' = Strategies /\ restoring' = [t \in Strategies |-> restoring'[t]]
  BY <1>1 DEF StorageInv
<1> QED
  BY <1>2, <1>3, <1>4, <1>5, <1>6, <1>7 DEF StorageInv

\* A step that changes nothing keeps the invariant.
LEMMA InvByStutter ==
  ASSUME StorageInv, UNCHANGED vars
  PROVE  StorageInv'
BY DEF StorageInv, DatabaseInv, BatchInv, GeneratorInv, Fitting, VarGet, vars

\* The invariant holds at the start.
LEMMA InvInit ==
  ASSUME Init
  PROVE  StorageInv
<1>1. db = <<>> /\ DOMAIN db = {} /\ IsFiniteSet(DOMAIN db)
  BY FS_EmptySet DEF Init
<1>2. DatabaseInv
  BY <1>1 DEF DatabaseInv, Fitting
<1>3. ASSUME NEW s \in Strategies
      PROVE  BatchInv(s) /\ GeneratorInv(s)
  <2>1. batch[s] = <<>> /\ DOMAIN batch[s] = {} /\ IsFiniteSet(DOMAIN batch[s])
    BY FS_EmptySet DEF Init
  <2>2. restoring[s] = [at |-> {}, order |-> {}, instr |-> 0, got |-> {}] /\ {} \in SUBSET AllKeys
    BY DEF Init, NoGenerator
  <2> QED
    BY <2>1, <2>2 DEF BatchInv, GeneratorInv, Fitting
<1> QED
  BY <1>2, <1>3 DEF StorageInv, Init

\* Every step keeps the invariant.
LEMMA InvByStep == StorageInv /\ [Next]_vars => StorageInv'
<1> SUFFICES ASSUME StorageInv, [Next]_vars PROVE StorageInv'
  OBVIOUS
<1>1. CASE UNCHANGED vars
  BY <1>1, InvByStutter
<1>2. CASE Next
  <2>1. PICK s \in Strategies :
          \/ \E n \in Names : VarSet(s, n) \/ VarErase(s, n)
          \/ \E o \in Orders, state \in {"live", "done"} :
                 \E fills \in SUBSET FillsOf[o] : ProcessOrder(s, o, state, fills)
          \/ FlushBatches(s)
          \/ \E i \in Instruments : StartRestore(s, i)
          \/ RestoreTurn(s) \/ StopRestore(s)
          \/ Crash(s)
    BY <1>2 DEF Next
  <2>2. CASE \E n \in Names : VarSet(s, n)
    BY <2>2, InvByVarSet
  <2>3. CASE \E n \in Names : VarErase(s, n)
    BY <2>3, InvByStutter DEF VarErase
  <2>4. CASE \E o \in Orders, state \in {"live", "done"} :
                 \E fills \in SUBSET FillsOf[o] : ProcessOrder(s, o, state, fills)
    BY <2>4, InvByProcessOrder
  <2>5. CASE FlushBatches(s)
    BY <2>5, InvByFlush
  <2>6. CASE \E i \in Instruments : StartRestore(s, i)
    BY <2>6, InvByStart
  <2>7. CASE RestoreTurn(s) \/ StopRestore(s)
    BY <2>7, InvByTurn, InvByStop
  <2>8. CASE Crash(s)
    BY <2>8, InvByCrash
  <2> QED
    BY <2>1, <2>2, <2>3, <2>4, <2>5, <2>6, <2>7, <2>8
<1> QED
  BY <1>1, <1>2

\* The invariant holds in every reachable state.
LEMMA StorageInvariant == Spec => []StorageInv
<1>1. Init => StorageInv
  BY InvInit
<1> QED
  BY <1>1, InvByStep, PTL DEF Spec

-----------------------------------------------------------------------------
(* The theorems. *)

\* The invariant implies the types.
LEMMA TypesFollow ==
  ASSUME StorageInv
  PROVE  TypeOK
<1>1. ASSUME NEW s \in Strategies, NEW held, NEW k \in DOMAIN held, Fitting(held), k \in Keys(s)
      PROVE  held[k] \in Values \cup {Erased}
  <2>1. \A v \in VarValues : v \in Values
    BY DEF VarValues, Values
  <2>2. (\A o \in Orders : Record(o) \in Values) /\ (\A f \in Fills : FillOf(f) \in Values)
    BY DEF Values
  <2>3. CASE \E n \in Names : k = VarKey(s, n)
    BY <1>1, <2>1, <2>3 DEF Fitting
  <2>4. CASE \E o \in Orders : k = OrderKey(s, o)
    BY <1>1, <2>2, <2>4 DEF Fitting
  <2>5. CASE \E f \in Fills : k = FillKey(s, f)
    BY <1>1, <2>2, <2>5 DEF Fitting
  <2> QED
    BY <1>1, <2>3, <2>4, <2>5, OwnKeys
<1>2. ASSUME NEW k \in DOMAIN db
      PROVE  db[k] \in Values
  <2>1. PICK s \in Strategies : k \in Keys(s)
    BY DEF StorageInv, DatabaseInv, AllKeys
  <2>2. Fitting(db) /\ db[k] # Erased
    BY DEF StorageInv, DatabaseInv
  <2> QED
    BY <1>1, <2>1, <2>2
<1>3. ASSUME NEW s \in Strategies
      PROVE  /\ DOMAIN batch[s] \subseteq Keys(s)
             /\ \A k \in DOMAIN batch[s] : batch[s][k] \in Values \cup {Erased}
  BY <1>1 DEF StorageInv, BatchInv
<1>4. \A s \in Strategies : restoring[s].at \subseteq AllKeys
  BY DEF StorageInv, GeneratorInv
<1> QED
  BY <1>2, <1>3, <1>4 DEF TypeOK, StorageInv, DatabaseInv

(* What is stored under a key is of the key's kind, and a batch has only   *)
(* keys of its own strategy: TypeOK, for every instance.                   *)
THEOREM RecordsFitKeys == Spec => []TypeOK
BY StorageInvariant, TypesFollow, PTL

(* No step, and no crash, makes a strategy read an older value of a        *)
(* variable: ReadsNeverGoBack, for every instance.  A batch never holds an *)
(* older value than the database (BatchInv), and only a commit of the      *)
(* strategy's own batch changes what it reads.                             *)
THEOREM ReadsStay == Spec => ReadsNeverGoBack
<1> DEFINE Stays == \A s \in Strategies, n \in Names : VarGet(s, n)' >= VarGet(s, n)
<1>1. ASSUME StorageInv, [Next]_vars
      PROVE  Stays
  <2> SUFFICES ASSUME NEW t \in Strategies, NEW n \in Names PROVE VarGet(t, n)' >= VarGet(t, n)
    OBVIOUS
  <2>1. VarGet(t, n) \in Int
    BY <1>1, VarGetRange, ConstantTypes DEF StorageInv
  <2>2. CASE UNCHANGED db
    BY <2>1, <2>2 DEF VarGet
  <2>3. CASE \E s \in Strategies : FlushBatches(s)
    <3>1. PICK s \in Strategies : FlushBatches(s)
      BY <2>3
    <3>2. CASE t = s /\ VarKey(s, n) \in DOMAIN batch[s]
      BY <1>1, <3>1, <3>2, FlushedVar DEF StorageInv, BatchInv
    <3>3. CASE ~(t = s /\ VarKey(s, n) \in DOMAIN batch[s])
      BY <1>1, <2>1, <3>1, <3>3, FlushedVar
    <3> QED
      BY <3>2, <3>3
  <2>4. UNCHANGED db \/ \E s \in Strategies : FlushBatches(s)
    BY <1>1 DEF Next, vars, VarSet, VarErase, ProcessOrder, StartRestore, RestoreTurn, StopRestore, Crash
  <2> QED
    BY <2>2, <2>3, <2>4
<1>2. StorageInv /\ [Next]_vars => [Stays]_vars
  BY <1>1
<1>3. Spec => [][Stays]_vars
  BY <1>2, StorageInvariant, PTL DEF Spec
<1> QED
  BY <1>3 DEF ReadsNeverGoBack

-----------------------------------------------------------------------------
(* Each strategy has a ledger of its own. *)

\* With the database unchanged, so is every ledger.
LEMMA PartStays ==
  ASSUME UNCHANGED db, NEW t
  PROVE  Part(t)' = Part(t)
BY DEF Part, FillsHeld, VarGet

\* With a batch unchanged, so is the ledger's pending part.
LEMMA PendingStays ==
  ASSUME NEW t, batch'[t] = batch[t]
  PROVE  Pending(t)' = Pending(t)
BY DEF Pending

\* An empty batch is an empty pending part.
LEMMA NothingPending ==
  ASSUME NEW t, DOMAIN batch[t] = {}
  PROVE  Pending(t) = OwnLedgers!Nothing
BY DEF Pending, OwnLedgers!Nothing

\* The same after a step.
LEMMA NothingPendingThen ==
  ASSUME NEW t, DOMAIN batch'[t] = {}
  PROVE  Pending(t)' = OwnLedgers!Nothing
BY DEF Pending, OwnLedgers!Nothing

(* A step of the ledgers, in terms of Part and Pending.                    *)
LEMMA StepOfLedgers ==
  ASSUME NEW s \in Strategies, UNCHANGED db,
         \A t \in Strategies \ {s} : batch'[t] = batch[t],
         \/ OwnLedgers!Set(Pending(s), Pending(s)')
         \/ OwnLedgers!Report(Pending(s), Pending(s)')
         \/ Pending(s)' = OwnLedgers!Nothing
  PROVE  OwnLedgers!Next
<1>1. [t \in Strategies |-> Part(t)]' = [t \in Strategies |-> Part(t)]
  BY PartStays
<1>2. \A t \in Strategies \ {s} : Pending(t)' = Pending(t)
  BY PendingStays
<1>3. OwnLedgers!Step(s)
  BY <1>1, <1>2 DEF OwnLedgers!Step
<1> QED
  BY <1>3 DEF OwnLedgers!Next

\* Setting a variable is Set of the ledger.
LEMMA SetOfLedgers ==
  ASSUME StorageInv, NEW s \in Strategies, NEW n \in Names, VarSet(s, n)
  PROVE  OwnLedgers!Set(Pending(s), Pending(s)')
<1>1. PICK last : /\ last = (IF VarKey(s, n) \in DOMAIN batch[s] THEN batch[s][VarKey(s, n)].of ELSE VarGet(s, n))
                  /\ last < MaxVersion
                  /\ Write(s, [k \in {VarKey(s, n)} |-> Var(last + 1)])
  BY DEF VarSet
<1>2. last + 1 \in 1 .. MaxVersion
  <2>1. VarGet(s, n) \in 0 .. MaxVersion
    BY VarGetRange DEF StorageInv
  <2>2. last \in 0 .. MaxVersion
    BY <1>1, <2>1, Kinds DEF StorageInv, BatchInv, Fitting, VarValues
  <2> QED
    BY <1>1, <2>2, ConstantTypes
<1>3. batch'[s] = Over(batch[s], [k \in {VarKey(s, n)} |-> Var(last + 1)])
  BY <1>1 DEF Write, StorageInv
<1>4. PICK b, c : b = batch[s] /\ c = batch'[s]
  OBVIOUS
<1>5. /\ DOMAIN c = DOMAIN b \cup {VarKey(s, n)} /\ c[VarKey(s, n)] = Var(last + 1)
      /\ \A k \in DOMAIN b : k # VarKey(s, n) => c[k] = b[k]
  BY <1>3, <1>4 DEF Over
<1>6. Pending(s).vars = [m \in Names |-> IF VarKey(s, m) \in DOMAIN b THEN b[VarKey(s, m)].of ELSE 0]
  BY <1>4 DEF Pending
<1>7. Pending(s)'.vars = [m \in Names |-> IF VarKey(s, m) \in DOMAIN c THEN c[VarKey(s, m)].of ELSE 0]
  BY <1>4 DEF Pending
<1>8. Pending(s)'.vars = [Pending(s).vars EXCEPT ![n] = last + 1]
  BY <1>5, <1>6, <1>7, KeysDiffer, Kinds
<1>9. Pending(s)'.orders = Pending(s).orders
  <2>1. \A o \in Orders : /\ OrderKey(s, o) \in DOMAIN c <=> OrderKey(s, o) \in DOMAIN b
                          /\ OrderKey(s, o) \in DOMAIN b => c[OrderKey(s, o)] = b[OrderKey(s, o)]
    BY <1>5, KeysDiffer
  <2> QED
    BY <1>4, <2>1 DEF Pending
<1>10. Pending(s)'.fills = Pending(s).fills
  <2>1. \A f \in Fills : FillKey(s, f) \in DOMAIN c <=> FillKey(s, f) \in DOMAIN b
    BY <1>5, KeysDiffer
  <2> QED
    BY <1>4, <2>1 DEF Pending
<1>11. Pending(s)' = [Pending(s) EXCEPT !.vars[n] = last + 1]
  <2>1. PICK v, o, f : Pending(s) = [vars |-> v, orders |-> o, fills |-> f]
    BY DEF Pending
  <2>2. PICK w, p, g : Pending(s)' = [vars |-> w, orders |-> p, fills |-> g]
    BY DEF Pending
  <2> QED
    BY <1>8, <1>9, <1>10, <2>1, <2>2
<1> QED
  BY <1>2, <1>11 DEF OwnLedgers!Set

\* Processing an order report is Report of the ledger.
LEMMA ReportOfLedgers ==
  ASSUME StorageInv, NEW s \in Strategies, NEW o \in Orders, NEW state \in {"live", "done"},
         NEW fills \in SUBSET FillsOf[o], ProcessOrder(s, o, state, fills)
  PROVE  OwnLedgers!Report(Pending(s), Pending(s)')
<1>1. PICK values : values = WrittenOf(s, o, state, fills)
  OBVIOUS
<1>2. /\ DOMAIN values = {OrderKey(s, o)} \cup {FillKey(s, f) : f \in fills}
      /\ values[OrderKey(s, o)] = IF state = "done" THEN Erased ELSE Record(o)
      /\ \A f \in fills : values[FillKey(s, f)] = FillOf(f)
      /\ fills \subseteq Fills
  BY <1>1, WrittenByOrder
<1>3. batch'[s] = Over(batch[s], values)
  BY <1>1 DEF ProcessOrder, WrittenOf, Write, StorageInv
<1>4. PICK b, c : b = batch[s] /\ c = batch'[s]
  OBVIOUS
<1>5. /\ DOMAIN c = DOMAIN b \cup DOMAIN values
      /\ \A k \in DOMAIN values : c[k] = values[k]
      /\ \A k \in DOMAIN b : k \notin DOMAIN values => c[k] = b[k]
  BY <1>3, <1>4 DEF Over
<1>6. Pending(s)'.vars = Pending(s).vars
  <2>1. \A n \in Names : /\ VarKey(s, n) \in DOMAIN c <=> VarKey(s, n) \in DOMAIN b
                         /\ VarKey(s, n) \in DOMAIN b => c[VarKey(s, n)] = b[VarKey(s, n)]
    BY <1>2, <1>5, KeysDiffer
  <2> QED
    BY <1>4, <2>1 DEF Pending
<1>7. Pending(s).orders = [p \in Orders |-> IF OrderKey(s, p) \notin DOMAIN b THEN "kept"
                                            ELSE IF b[OrderKey(s, p)] = Erased THEN "done" ELSE "live"]
  BY <1>4 DEF Pending
<1>8. Pending(s)'.orders = [p \in Orders |-> IF OrderKey(s, p) \notin DOMAIN c THEN "kept"
                                             ELSE IF c[OrderKey(s, p)] = Erased THEN "done" ELSE "live"]
  BY <1>4 DEF Pending
<1>9. Pending(s)'.orders = [Pending(s).orders EXCEPT ![o] = state]
  <2>1. \A p \in Orders : p # o => OrderKey(s, p) \notin DOMAIN values
    BY <1>2, KeysDiffer
  <2>2. \A p \in Orders : p # o => /\ OrderKey(s, p) \in DOMAIN c <=> OrderKey(s, p) \in DOMAIN b
                                   /\ OrderKey(s, p) \in DOMAIN b => c[OrderKey(s, p)] = b[OrderKey(s, p)]
    BY <1>5, <2>1
  <2>3. OrderKey(s, o) \in DOMAIN c /\ c[OrderKey(s, o)] = IF state = "done" THEN Erased ELSE Record(o)
    BY <1>2, <1>5
  <2>4. state = IF c[OrderKey(s, o)] = Erased THEN "done" ELSE "live"
    BY <2>3, Kinds
  <2> QED
    BY <1>7, <1>8, <2>2, <2>3, <2>4
<1>10. Pending(s)'.fills = Pending(s).fills \cup fills
  <2>1. \A f \in Fills : FillKey(s, f) \in DOMAIN c <=> FillKey(s, f) \in DOMAIN b \/ f \in fills
    BY <1>2, <1>5, KeysDiffer
  <2>2. Pending(s).fills = {f \in Fills : FillKey(s, f) \in DOMAIN b}
    BY <1>4 DEF Pending
  <2>3. Pending(s)'.fills = {f \in Fills : FillKey(s, f) \in DOMAIN c}
    BY <1>4 DEF Pending
  <2> QED
    BY <1>2, <2>1, <2>2, <2>3
<1>11. Pending(s)' = [Pending(s) EXCEPT !.orders[o] = state, !.fills = @ \cup fills]
  <2>1. PICK v, q, f : Pending(s) = [vars |-> v, orders |-> q, fills |-> f]
    BY DEF Pending
  <2>2. PICK w, p, g : Pending(s)' = [vars |-> w, orders |-> p, fills |-> g]
    BY DEF Pending
  <2> QED
    BY <1>6, <1>9, <1>10, <2>1, <2>2
<1> QED
  BY <1>11 DEF OwnLedgers!Report

\* A flush is Commit of the ledger: everything pending at once.
LEMMA CommitOfLedgers ==
  ASSUME StorageInv, NEW s \in Strategies, FlushBatches(s)
  PROVE  OwnLedgers!Commit(s)
<1>1. \A t \in Strategies \ {s} : batch'[t] = batch[t]
  BY DEF FlushBatches, StorageInv
<1>2. DOMAIN batch'[s] = {}
  <2>1. batch'[s] = <<>>
    BY DEF FlushBatches, StorageInv
  <2> QED
    BY <2>1
<1>3. [t \in Strategies |-> Pending(t)]' = [[t \in Strategies |-> Pending(t)] EXCEPT ![s] = OwnLedgers!Nothing]
  BY <1>1, <1>2, PendingStays, NothingPendingThen
<1>4. ASSUME NEW t \in Strategies \ {s}
      PROVE  Part(t)' = Part(t)
  <2>1. \A n \in Names : VarGet(t, n)' = VarGet(t, n)
    BY FlushedVar
  <2>2. \A k \in Keys(t) : k \in DOMAIN db' <=> k \in DOMAIN db
    <3>1. \A k \in Keys(t) : k \notin DOMAIN batch[s]
      BY StrangeKeys DEF StorageInv, BatchInv
    <3> QED
      BY <3>1, CommittedAt
  <2>3. \A o \in Orders : OrderKey(t, o) \in DOMAIN db' <=> OrderKey(t, o) \in DOMAIN db
    BY <2>2, OwnKeys
  <2>4. \A f \in Fills : FillKey(t, f) \in DOMAIN db' <=> FillKey(t, f) \in DOMAIN db
    BY <2>2, OwnKeys
  <2>5. Part(t).vars = Part(t)'.vars
    BY <2>1 DEF Part
  <2>6. Part(t).orders = Part(t)'.orders
    BY <2>3 DEF Part, OrderKey
  <2>7. Part(t).fills = Part(t)'.fills
    BY <2>4 DEF Part, FillsHeld, FillKey
  <2> QED
    BY <2>5, <2>6, <2>7 DEF Part
<1>5. Part(s)'.vars = [n \in Names |-> IF Pending(s).vars[n] = 0 THEN Part(s).vars[n] ELSE Pending(s).vars[n]]
  <2>1. \A n \in Names : VarKey(s, n) \in DOMAIN batch[s] => batch[s][VarKey(s, n)].of # 0
    BY Kinds DEF StorageInv, BatchInv, Fitting, VarValues
  <2>2. Pending(s).vars = [n \in Names |-> IF VarKey(s, n) \in DOMAIN batch[s] THEN batch[s][VarKey(s, n)].of ELSE 0]
    BY DEF Pending
  <2>3. Part(s).vars = [n \in Names |-> VarGet(s, n)] /\ Part(s)'.vars = [n \in Names |-> VarGet(s, n)']
    BY DEF Part
  <2>4. \A n \in Names : VarGet(s, n)' = IF VarKey(s, n) \in DOMAIN batch[s] THEN batch[s][VarKey(s, n)].of
                                                                          ELSE VarGet(s, n)
    BY FlushedVar
  <2> QED
    BY <2>1, <2>2, <2>3, <2>4
<1>6. Part(s)'.orders = {o \in Orders : \/ Pending(s).orders[o] = "live"
                                        \/ Pending(s).orders[o] = "kept" /\ o \in Part(s).orders}
  <2>1. Pending(s).orders = [o \in Orders |-> IF OrderKey(s, o) \notin DOMAIN batch[s] THEN "kept"
                                              ELSE IF batch[s][OrderKey(s, o)] = Erased THEN "done" ELSE "live"]
    BY DEF Pending
  <2>2. Part(s).orders = {o \in Orders : OrderKey(s, o) \in DOMAIN db}
    BY DEF Part
  <2>3. Part(s)'.orders = {o \in Orders : OrderKey(s, o) \in DOMAIN db'}
    BY DEF Part, OrderKey
  <2>4. \A o \in Orders : OrderKey(s, o) \in DOMAIN db' <=>
            \/ OrderKey(s, o) \in DOMAIN batch[s] /\ batch[s][OrderKey(s, o)] # Erased
            \/ OrderKey(s, o) \notin DOMAIN batch[s] /\ OrderKey(s, o) \in DOMAIN db
    BY CommittedAt
  <2> QED
    BY <2>1, <2>2, <2>3, <2>4
<1>7. Part(s)'.fills = Part(s).fills \cup Pending(s).fills
  <2>1. Pending(s).fills = {f \in Fills : FillKey(s, f) \in DOMAIN batch[s]}
    BY DEF Pending
  <2>2. Part(s).fills = {f \in Fills : FillKey(s, f) \in DOMAIN db}
    BY DEF Part, FillsHeld
  <2>3. Part(s)'.fills = {f \in Fills : FillKey(s, f) \in DOMAIN db'}
    BY DEF Part, FillsHeld, FillKey
  <2>4. \A f \in Fills : FillKey(s, f) \in DOMAIN batch[s] => batch[s][FillKey(s, f)] # Erased
    BY Kinds DEF StorageInv, BatchInv, Fitting
  <2>5. \A f \in Fills : FillKey(s, f) \in DOMAIN db' <=>
            FillKey(s, f) \in DOMAIN db \/ FillKey(s, f) \in DOMAIN batch[s]
    BY <2>4, CommittedAt
  <2> QED
    BY <2>1, <2>2, <2>3, <2>5
<1>8. Part(s)' = [vars |-> Part(s)'.vars, orders |-> Part(s)'.orders, fills |-> Part(s)'.fills]
  BY DEF Part
<1>9. [t \in Strategies |-> Part(t)]' = [[t \in Strategies |-> Part(t)] EXCEPT ![s] =
         [vars   |-> [n \in Names |-> IF Pending(s).vars[n] = 0 THEN Part(s).vars[n] ELSE Pending(s).vars[n]],
          orders |-> {o \in Orders : Pending(s).orders[o] = "live"
                                     \/ (Pending(s).orders[o] = "kept" /\ o \in Part(s).orders)},
          fills  |-> Part(s).fills \cup Pending(s).fills]]
  BY <1>4, <1>5, <1>6, <1>7, <1>8
<1>10. [t \in Strategies |-> Part(t)][s] = Part(s) /\ [t \in Strategies |-> Pending(t)][s] = Pending(s)
  OBVIOUS
<1> HIDE DEF OwnLedgers!Nothing
<1> QED
  BY <1>3, <1>9, <1>10 DEF OwnLedgers!Commit

\* The initial states map to initial states of the ledgers.
LEMMA LedgersStart ==
  ASSUME Init
  PROVE  OwnLedgers!Init
<1>1. DOMAIN db = {}
  <2>1. db = <<>>
    BY DEF Init
  <2> QED
    BY <2>1
<1>2. \A s \in Strategies : DOMAIN batch[s] = {}
  <2>1. \A s \in Strategies : batch[s] = <<>>
    BY DEF Init
  <2> QED
    BY <2>1
<1>3. \A s \in Strategies : Pending(s) = OwnLedgers!Nothing
  BY <1>2, NothingPending
<1>4. \A s \in Strategies : Part(s) = [vars |-> [n \in Names |-> 0], orders |-> {}, fills |-> {}]
  BY <1>1 DEF Part, FillsHeld, VarGet
<1> QED
  BY <1>3, <1>4 DEF OwnLedgers!Init

\* Steps that touch neither database nor batches are stutters of the ledgers.
LEMMA LedgersStay ==
  ASSUME UNCHANGED <<db, batch>>
  PROVE  UNCHANGED OwnLedgers!vars
<1>1. \A t \in Strategies : Part(t)' = Part(t) /\ Pending(t)' = Pending(t)
  BY PartStays, PendingStays
<1> QED
  BY <1>1 DEF OwnLedgers!vars

\* Every step maps to a step of the ledgers or to a stutter.
LEMMA LedgersStep == StorageInv /\ [Next]_vars => [OwnLedgers!Next]_(OwnLedgers!vars)
<1> SUFFICES ASSUME StorageInv, [Next]_vars PROVE [OwnLedgers!Next]_(OwnLedgers!vars)
  OBVIOUS
<1>1. CASE UNCHANGED vars
  BY <1>1, LedgersStay DEF vars
<1>2. CASE Next
  <2>1. PICK s \in Strategies :
          \/ \E n \in Names : VarSet(s, n) \/ VarErase(s, n)
          \/ \E o \in Orders, state \in {"live", "done"} :
                 \E fills \in SUBSET FillsOf[o] : ProcessOrder(s, o, state, fills)
          \/ FlushBatches(s)
          \/ \E i \in Instruments : StartRestore(s, i)
          \/ RestoreTurn(s) \/ StopRestore(s)
          \/ Crash(s)
    BY <1>2 DEF Next
  <2>2. CASE \E n \in Names : VarSet(s, n)
    <3>1. PICK n \in Names : VarSet(s, n)
      BY <2>2
    <3>2. UNCHANGED db /\ \A t \in Strategies \ {s} : batch'[t] = batch[t]
      BY <3>1 DEF VarSet, Write, StorageInv
    <3>3. OwnLedgers!Set(Pending(s), Pending(s)')
      BY <3>1, SetOfLedgers
    <3> QED
      BY <3>2, <3>3, StepOfLedgers
  <2>3. CASE \E o \in Orders, state \in {"live", "done"} :
                 \E fills \in SUBSET FillsOf[o] : ProcessOrder(s, o, state, fills)
    <3>1. PICK o \in Orders, state \in {"live", "done"} :
            \E fills \in SUBSET FillsOf[o] : ProcessOrder(s, o, state, fills)
      BY <2>3
    <3>2. PICK fills \in SUBSET FillsOf[o] : ProcessOrder(s, o, state, fills)
      BY <3>1
    <3>3. UNCHANGED db /\ \A t \in Strategies \ {s} : batch'[t] = batch[t]
      BY <3>2 DEF ProcessOrder, Write, StorageInv
    <3>4. OwnLedgers!Report(Pending(s), Pending(s)')
      BY <3>2, ReportOfLedgers
    <3> QED
      BY <3>3, <3>4, StepOfLedgers
  <2>4. CASE FlushBatches(s)
    BY <2>4, CommitOfLedgers DEF OwnLedgers!Next
  <2>5. CASE Crash(s)
    <3>1. UNCHANGED db /\ (\A t \in Strategies \ {s} : batch'[t] = batch[t]) /\ batch'[s] = <<>>
      BY <2>5 DEF Crash, StorageInv
    <3>2. DOMAIN batch'[s] = {}
      BY <3>1
    <3>3. Pending(s)' = OwnLedgers!Nothing
      BY <3>2, NothingPendingThen
    <3> QED
      BY <3>1, <3>3, StepOfLedgers
  <2>6. CASE \/ \E n \in Names : VarErase(s, n)
             \/ \E i \in Instruments : StartRestore(s, i)
             \/ RestoreTurn(s) \/ StopRestore(s)
    BY <2>6, LedgersStay DEF VarErase, StartRestore, RestoreTurn, StopRestore, vars
  <2> QED
    BY <2>1, <2>2, <2>3, <2>4, <2>5, <2>6
<1> QED
  BY <1>1, <1>2

(* One database keeps the ledgers of all strategies apart: RefinesLedgers, *)
(* for every instance.  The initial states map to the ledgers' initial     *)
(* state, var_set and process_event to a step of the strategy's own        *)
(* ledger, flush_batches to its commit, a crash to the loss of what is     *)
(* pending, and everything restore_open_orders does to no step.            *)
THEOREM LedgersImplemented == Spec => RefinesLedgers
<1>1. Init => OwnLedgers!Init
  BY LedgersStart
<1> QED
  BY <1>1, LedgersStep, StorageInvariant, PTL DEF Spec, RefinesLedgers, OwnLedgers!Spec

=============================================================================
