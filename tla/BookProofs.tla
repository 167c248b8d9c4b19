----------------------------- MODULE BookProofs -----------------------------
(* Theorems about OrderBook and Quotes, for every value of their           *)
(* constants: any finite set of prices, any amounts and instruments.       *)
EXTENDS Quotes, TLAPS, WellFoundedInduction, FiniteSetTheorems

-----------------------------------------------------------------------------
(* Finite sets of prices.  What stands in for induction: among sets of     *)
(* prices there is one that contains no other.                             *)

\* Among sets of prices there is one that has none of the others inside it.
LEMMA LeastSet ==
  ASSUME NEW Bad \in SUBSET (SUBSET Prices), Bad # {}
  PROVE  \E S \in Bad : \A T \in Bad : T \subseteq S => T = S
<1>1. IsWellFoundedOn(StrictSubsetOrdering(Prices), SUBSET Prices)
  BY FS_StrictSubsetOrderingWellFounded, FS_FiniteSubsetsOfFinite, PricesAssumption
<1>2. PICK S \in Bad : \A T \in Bad : <<T, S>> \notin StrictSubsetOrdering(Prices)
  BY <1>1, WFMin
<1> QED
  BY <1>2 DEF StrictSubsetOrdering

\* A set of prices that is not empty has a lowest and a highest one.
LEMMA HasEnds ==
  ASSUME NEW S \in SUBSET Prices, S # {}
  PROVE  /\ \E p \in S : \A q \in S : p <= q
         /\ \E p \in S : \A q \in S : p >= q
<1> DEFINE Ended(T) == /\ \E p \in T : \A q \in T : p <= q
                       /\ \E p \in T : \A q \in T : p >= q
           Bad == {T \in SUBSET Prices : T # {} /\ ~Ended(T)}
<1> SUFFICES ASSUME Bad # {} PROVE FALSE
  OBVIOUS
<1>1. Bad \in SUBSET (SUBSET Prices)
  OBVIOUS
<1> HIDE DEF Bad
<1>2. PICK T \in Bad : \A U \in Bad : U \subseteq T => U = T
  BY <1>1, LeastSet
<1>3. PICK x \in T : TRUE
  BY <1>2 DEF Bad
<1>4. T \subseteq Nat
  BY <1>2, PricesAssumption DEF Bad
<1>5. CASE T = {x}
  <2>1. x <= x /\ x >= x
    BY <1>3, <1>4
  <2>2. Ended({x})
    BY <2>1
  <2> QED
    BY <1>2, <1>5, <2>2 DEF Bad
<1>6. CASE T # {x}
  <2>1. T \ {x} # {} /\ Ended(T \ {x})
    <3>1. T \ {x} # {} /\ T \ {x} # T /\ T \ {x} \subseteq T
      BY <1>3, <1>6
    <3>2. T \ {x} \in SUBSET Prices
      BY <1>2 DEF Bad
    <3> QED
      BY <1>2, <3>1, <3>2 DEF Bad
  <2>2. PICK low \in T \ {x}, high \in T \ {x} : \A q \in T \ {x} : low <= q /\ high >= q
    BY <2>1
  <2>3. \E p \in T : \A q \in T : p <= q
    <3>1. CASE x <= low
      BY <1>3, <1>4, <2>2, <3>1
    <3>2. CASE ~(x <= low)
      BY <1>3, <1>4, <2>2, <3>2
    <3> QED
      BY <3>1, <3>2
  <2>4. \E p \in T : \A q \in T : p >= q
    <3>1. CASE x >= high
      BY <1>3, <1>4, <2>2, <3>1
    <3>2. CASE ~(x >= high)
      BY <1>3, <1>4, <2>2, <3>2
    <3> QED
      BY <3>1, <3>2
  <2> QED
    BY <1>2, <2>3, <2>4 DEF Bad
<1> QED
  BY <1>5, <1>6

-----------------------------------------------------------------------------
(* Sides and parts of sides. *)

\* A side of the book holds positive amounts at prices.
LEMMA SideLevels ==
  ASSUME NEW s \in Sides
  PROVE  /\ DOMAIN s \in SUBSET Prices /\ DOMAIN s \in SUBSET Nat
         /\ s = [p \in DOMAIN s |-> s[p]]
         /\ \A p \in DOMAIN s : s[p] \in Amounts /\ s[p] # 0
BY PricesAssumption DEF Sides

(* The part of a side that is left.                                        *)
Kept(s, S) == [p \in S |-> s[p]]

\* Keeping some levels of a side leaves a side.
LEMMA KeptIsSide ==
  ASSUME NEW s \in Sides, NEW S \in SUBSET DOMAIN s
  PROVE  Kept(s, S) \in Sides /\ DOMAIN Kept(s, S) = S /\ \A p \in S : Kept(s, S)[p] = s[p]
<1>1. S \in SUBSET Prices /\ \A p \in S : s[p] \in Amounts \ {0}
  BY SideLevels
<1>2. Kept(s, S) \in [S -> Amounts \ {0}]
  BY <1>1 DEF Kept
<1> QED
  BY <1>1, <1>2 DEF Sides, Kept

\* Sides with the same levels and amounts are the same.
LEMMA SameSides ==
  ASSUME NEW s \in Sides, NEW t \in Sides, DOMAIN s = DOMAIN t, \A p \in DOMAIN s : s[p] = t[p]
  PROVE  s = t
<1>1. s = [p \in DOMAIN s |-> s[p]] /\ t = [p \in DOMAIN t |-> t[p]]
  BY SideLevels
<1> QED
  BY <1>1

\* The empty side, the same for bids and asks.
LEMMA EmptySide ==
  /\ Bids!Empty = Asks!Empty /\ Bids!Empty \in Sides /\ DOMAIN Bids!Empty = {}
  /\ \A s \in Sides : s = Bids!Empty <=> DOMAIN s = {}
<1>1. Bids!Empty = <<>> /\ Asks!Empty = <<>>
  BY DEF Bids!Empty, Asks!Empty
<1>2. DOMAIN <<>> = {} /\ <<>> = [p \in {} |-> 0]
  OBVIOUS
<1>3. [p \in {} |-> 0] \in [{} -> Amounts \ {0}]
  OBVIOUS
<1>4. <<>> \in Sides
  BY <1>2, <1>3 DEF Sides
<1>5. ASSUME NEW s \in Sides, DOMAIN s = {} PROVE s = <<>>
  BY <1>2, <1>4, <1>5, SameSides
<1> QED
  BY <1>1, <1>2, <1>4, <1>5

\* Erasing a level keeps the others.
LEMMA WithoutKeeps ==
  ASSUME NEW s \in Sides, NEW p
  PROVE  /\ Bids!Without(s, p) = Kept(s, DOMAIN s \ {p})
         /\ Asks!Without(s, p) = Kept(s, DOMAIN s \ {p})
         /\ Bids!Without(s, p) \in Sides
         /\ DOMAIN Bids!Without(s, p) = DOMAIN s \ {p}
<1>1. Bids!Without(s, p) = Kept(s, DOMAIN s \ {p}) /\ Asks!Without(s, p) = Kept(s, DOMAIN s \ {p})
  BY DEF Bids!Without, Asks!Without, Kept
<1> QED
  BY <1>1, KeptIsSide

\* Keeping every level changes nothing.
LEMMA KeptAll ==
  ASSUME NEW s \in Sides
  PROVE  Kept(s, DOMAIN s) = s
BY SideLevels DEF Kept

\* Keeping twice is keeping the second choice.
LEMMA KeptOfKept ==
  ASSUME NEW s \in Sides, NEW S \in SUBSET DOMAIN s, NEW T \in SUBSET S
  PROVE  Kept(Kept(s, S), T) = Kept(s, T)
<1>1. \A p \in T : Kept(s, S)[p] = s[p]
  BY KeptIsSide
<1> QED
  BY <1>1 DEF Kept

\* Sides are finite: what can always be had with fewer levels cannot be had at all.
LEMMA SideInduction ==
  ASSUME NEW Bad \in SUBSET Sides,
         \A s \in Bad : \E t \in Bad : DOMAIN t \subseteq DOMAIN s /\ DOMAIN t # DOMAIN s
  PROVE  Bad = {}
<1> SUFFICES ASSUME Bad # {} PROVE FALSE
  OBVIOUS
<1> DEFINE Domains == {DOMAIN s : s \in Bad}
<1>1. Domains # {} /\ Domains \in SUBSET (SUBSET Prices)
  BY SideLevels
<1> HIDE DEF Domains
<1>2. PICK S \in Domains : \A T \in Domains : T \subseteq S => T = S
  BY <1>1, LeastSet
<1>3. PICK s \in Bad : S = DOMAIN s
  BY DEF Domains
<1>4. PICK r \in Bad : DOMAIN r \subseteq DOMAIN s /\ DOMAIN r # DOMAIN s
  OBVIOUS
<1>5. DOMAIN r \in Domains
  BY DEF Domains
<1> QED
  BY <1>2, <1>3, <1>4, <1>5

-----------------------------------------------------------------------------
(* The loops that remove the levels in front of a price. *)

\* What is left, or the undefined read if nothing is.
Removed(s, left) == IF left = {} THEN Undefined(Bids!Empty) ELSE Done(Kept(s, left))

\* The best ask is the lowest of the asks, the best bid the highest of the bids.
LEMMA BestOnes ==
  ASSUME NEW s \in Sides, DOMAIN s # {}
  PROVE  /\ BestAsk(s) \in DOMAIN s /\ \A p \in DOMAIN s : BestAsk(s) <= p
         /\ BestBid(s) \in DOMAIN s /\ \A p \in DOMAIN s : BestBid(s) >= p
<1>1. DOMAIN s \in SUBSET Prices /\ DOMAIN s \subseteq Nat
  BY SideLevels
<1>2. PICK low \in DOMAIN s : \A p \in DOMAIN s : low <= p
  BY <1>1, HasEnds
<1>3. PICK high \in DOMAIN s : \A p \in DOMAIN s : high >= p
  BY <1>1, HasEnds
<1>4. Asks!First(s) = {p \in DOMAIN s : \A q \in DOMAIN s : ~(q < p)}
  BY DEF Asks!First, Asks!Least, CmpAsk
<1>5. Bids!First(s) = {p \in DOMAIN s : \A q \in DOMAIN s : ~(q > p)}
  BY DEF Bids!First, Bids!Least, CmpBid
<1>6. low \in Asks!First(s) /\ high \in Bids!First(s)
  BY <1>1, <1>2, <1>3, <1>4, <1>5
<1>7. BestAsk(s) \in Asks!First(s) /\ BestBid(s) \in Bids!First(s)
  BY <1>6 DEF BestAsk, BestBid
<1> QED
  BY <1>1, <1>4, <1>5, <1>7

\* A turn of such a loop, with the best level b and what is known of the further turns.
LEMMA RemoveTurn ==
  ASSUME NEW s \in Sides, NEW b \in DOMAIN s, NEW left \in SUBSET DOMAIN s, b \notin left
  PROVE  Removed(Bids!Without(s, b), left) = Removed(s, left)
<1>1. Bids!Without(s, b) = Kept(s, DOMAIN s \ {b})
  BY WithoutKeeps
<1>2. left \in SUBSET (DOMAIN s \ {b})
  OBVIOUS
<1> QED
  BY <1>1, <1>2, KeptOfKept DEF Removed

\* Removing the asks below a price keeps the asks from the price on.
LEMMA RemoveAsks ==
  ASSUME NEW side \in Sides, NEW price \in Nat
  PROVE  RemoveAskTo(side, price) = Removed(side, {p \in DOMAIN side : p >= price})
<1> DEFINE Left(s) == {p \in DOMAIN s : p >= price}
           Turn(f, s) == IF s = Asks!Empty THEN Undefined(s)
                         ELSE IF BestAsk(s) < price THEN f[Asks!Without(s, BestAsk(s))] ELSE Done(s)
           removed[s \in Sides] == IF s = Asks!Empty THEN Undefined(s)
                         ELSE IF BestAsk(s) < price THEN removed[Asks!Without(s, BestAsk(s))] ELSE Done(s)
<1>1. RemoveAskTo(side, price) = removed[side]
  BY DEF RemoveAskTo
<1>2. ASSUME NEW s \in Sides, NEW f,
             \A t \in Sides : DOMAIN t \subseteq DOMAIN s /\ DOMAIN t # DOMAIN s => f[t] = Removed(t, Left(t))
      PROVE  Turn(f, s) = Removed(s, Left(s))
  <2>1. CASE DOMAIN s = {}
    <3>1. s = Asks!Empty /\ s = Bids!Empty /\ Left(s) = {}
      BY <2>1, EmptySide
    <3> QED
      BY <3>1 DEF Removed
  <2>2. CASE DOMAIN s # {}
    <3> DEFINE b == BestAsk(s)
    <3>1. b \in DOMAIN s /\ (\A p \in DOMAIN s : b <= p) /\ DOMAIN s \subseteq Nat /\ s # Asks!Empty
      BY <2>2, BestOnes, SideLevels, EmptySide
    <3> HIDE DEF b
    <3>2. CASE b < price
      <4>1. /\ Asks!Without(s, b) \in Sides /\ DOMAIN Asks!Without(s, b) = DOMAIN s \ {b}
            /\ Asks!Without(s, b) = Bids!Without(s, b)
        BY WithoutKeeps
      <4>2. Left(Asks!Without(s, b)) = Left(s) /\ b \notin Left(s)
        BY <3>1, <3>2, <4>1
      <4>3. f[Asks!Without(s, b)] = Removed(Asks!Without(s, b), Left(s))
        BY <1>2, <3>1, <4>1, <4>2
      <4>4. f[Asks!Without(s, b)] = Removed(s, Left(s))
        BY <3>1, <4>1, <4>2, <4>3, RemoveTurn
      <4> QED
        BY <3>1, <3>2, <4>4 DEF b
    <3>3. CASE ~(b < price)
      <4>1. Left(s) = DOMAIN s
        BY <3>1, <3>3
      <4>2. Turn(f, s) = Done(s)
        BY <3>1, <3>3 DEF b
      <4> QED
        BY <2>2, <4>1, <4>2, KeptAll DEF Removed
    <3> QED
      BY <3>2, <3>3
  <2> QED
    BY <2>1, <2>2
<1> DEFINE solved == [s \in Sides |-> Removed(s, Left(s))]
<1>3. \A s \in Sides : Turn(solved, s) = Removed(s, Left(s))
  BY <1>2
<1>4. solved = [s \in Sides |-> Turn(solved, s)]
  BY <1>3
<1>5. removed = [s \in Sides |-> Turn(removed, s)]
  BY <1>4
<1> DEFINE Bad == {s \in Sides : removed[s] # Removed(s, Left(s))}
<1>6. ASSUME NEW s \in Bad
      PROVE  \E t \in Bad : DOMAIN t \subseteq DOMAIN s /\ DOMAIN t # DOMAIN s
  <2>1. removed[s] = Turn(removed, s)
    BY <1>5
  <2> HIDE DEF Turn, removed, Left
  <2> QED
    BY <1>2, <2>1
<1>7. Bad = {}
  <2> HIDE DEF removed, Left
  <2> QED
    BY <1>6, SideInduction
<1> QED
  BY <1>1, <1>7
\* Removing the bids above a price keeps the bids up to the price.
LEMMA RemoveBids ==
  ASSUME NEW side \in Sides, NEW price \in Nat
  PROVE  RemoveBidTo(side, price) = Removed(side, {p \in DOMAIN side : p <= price})
<1> DEFINE Left(s) == {p \in DOMAIN s : p <= price}
           Turn(f, s) == IF s = Bids!Empty THEN Undefined(s)
                         ELSE IF BestBid(s) > price THEN f[Bids!Without(s, BestBid(s))] ELSE Done(s)
           removed[s \in Sides] == IF s = Bids!Empty THEN Undefined(s)
                         ELSE IF BestBid(s) > price THEN removed[Bids!Without(s, BestBid(s))] ELSE Done(s)
<1>1. RemoveBidTo(side, price) = removed[side]
  BY DEF RemoveBidTo
<1>2. ASSUME NEW s \in Sides, NEW f,
             \A t \in Sides : DOMAIN t \subseteq DOMAIN s /\ DOMAIN t # DOMAIN s => f[t] = Removed(t, Left(t))
      PROVE  Turn(f, s) = Removed(s, Left(s))
  <2>1. CASE DOMAIN s = {}
    <3>1. s = Bids!Empty /\ Left(s) = {}
      BY <2>1, EmptySide
    <3> QED
      BY <3>1 DEF Removed
  <2>2. CASE DOMAIN s # {}
    <3> DEFINE b == BestBid(s)
    <3>1. b \in DOMAIN s /\ (\A p \in DOMAIN s : b >= p) /\ DOMAIN s \subseteq Nat /\ s # Bids!Empty
      BY <2>2, BestOnes, SideLevels, EmptySide
    <3> HIDE DEF b
    <3>2. CASE b > price
      <4>1. /\ Bids!Without(s, b) \in Sides /\ DOMAIN Bids!Without(s, b) = DOMAIN s \ {b}
        BY WithoutKeeps
      <4>2. Left(Bids!Without(s, b)) = Left(s) /\ b \notin Left(s)
        BY <3>1, <3>2, <4>1
      <4>3. f[Bids!Without(s, b)] = Removed(Bids!Without(s, b), Left(s))
        BY <1>2, <3>1, <4>1, <4>2
      <4>4. f[Bids!Without(s, b)] = Removed(s, Left(s))
        BY <3>1, <4>1, <4>2, <4>3, RemoveTurn
      <4> QED
        BY <3>1, <3>2, <4>4 DEF b
    <3>3. CASE ~(b > price)
      <4>1. Left(s) = DOMAIN s
        BY <3>1, <3>3
      <4>2. Turn(f, s) = Done(s)
        BY <3>1, <3>3 DEF b
      <4> QED
        BY <2>2, <4>1, <4>2, KeptAll DEF Removed
    <3> QED
      BY <3>2, <3>3
  <2> QED
    BY <2>1, <2>2
<1> DEFINE solved == [s \in Sides |-> Removed(s, Left(s))]
<1>3. \A s \in Sides : Turn(solved, s) = Removed(s, Left(s))
  BY <1>2
<1>4. solved = [s \in Sides |-> Turn(solved, s)]
  BY <1>3
<1>5. removed = [s \in Sides |-> Turn(removed, s)]
  BY <1>4
<1> DEFINE Bad == {s \in Sides : removed[s] # Removed(s, Left(s))}
<1>6. ASSUME NEW s \in Bad
      PROVE  \E t \in Bad : DOMAIN t \subseteq DOMAIN s /\ DOMAIN t # DOMAIN s
  <2>1. removed[s] = Turn(removed, s)
    BY <1>5
  <2> HIDE DEF Turn, removed, Left
  <2> QED
    BY <1>2, <2>1
<1>7. Bad = {}
  <2> HIDE DEF removed, Left
  <2> QED
    BY <1>6, SideInduction
<1> QED
  BY <1>1, <1>7

-----------------------------------------------------------------------------
(* The calls. *)

\* A side after an update of one price.
Updated(t, s, price, amount) ==
  /\ t \in Sides
  /\ DOMAIN t = (IF amount = 0 THEN DOMAIN s \ {price} ELSE DOMAIN s \cup {price})
  /\ \A p \in DOMAIN s \ {price} : t[p] = s[p]
  /\ amount # 0 => t[price] = amount

\* Updating a level sets or erases it and touches no other.
LEMMA UpdateIs ==
  ASSUME NEW s \in Sides, NEW price \in Prices, NEW amount \in Amounts
  PROVE  Updated(Update(s, price, amount), s, price, amount)
<1>1. CASE amount = 0
  <2>1. Update(s, price, amount) = Kept(s, DOMAIN s \ {price})
    BY <1>1, WithoutKeeps DEF Update
  <2> QED
    BY <1>1, <2>1, KeptIsSide DEF Updated
<1>2. CASE amount # 0
  <2> DEFINE S == DOMAIN s \cup {price}
             t == [k \in S |-> IF k = price THEN amount ELSE s[k]]
  <2>1. Update(s, price, amount) = t
    BY <1>2 DEF Update, Bids!With
  <2>2. S \in SUBSET Prices /\ t \in [S -> Amounts \ {0}]
    BY <1>2, SideLevels
  <2>3. t \in Sides
    BY <2>2 DEF Sides
  <2> QED
    BY <1>2, <2>1, <2>3 DEF Updated
<1> QED
  BY <1>1, <1>2

\* What removing levels leaves is a side.
LEMMA RemovedIsSide ==
  ASSUME NEW s \in Sides, NEW left \in SUBSET DOMAIN s
  PROVE  Removed(s, left).side \in Sides /\ Removed(s, left).undefined \in BOOLEAN
BY KeptIsSide, EmptySide DEF Removed, Done, Undefined
-----------------------------------------------------------------------------
(* trim.  Whatever upper_bound returns is in front of the limit or, if the *)
(* limit is no level, anywhere; when it returns the end nothing is.        *)

\* The bids behind a limit, if that is a level, and the asks.
BidsBehind(s, limit) == {q \in DOMAIN s : limit \in DOMAIN s /\ q <= limit}
AsksBehind(s, limit) == {q \in DOMAIN s : limit \in DOMAIN s /\ q >= limit}

\* Where upper_bound ends when the bids are trimmed.
LEMMA BidBounds ==
  ASSUME NEW s \in Sides, NEW limit \in Nat
  PROVE  /\ Bids!UpperBounds(s, limit) # {}
         /\ \A found \in Bids!UpperBounds(s, limit) :
              /\ found = {} => BidsBehind(s, limit) = DOMAIN s
              /\ \A p \in found : p \in DOMAIN s /\ p \notin BidsBehind(s, limit)
<1> DEFINE before == {k \in DOMAIN s : k > limit}
           after  == {k \in DOMAIN s : limit > k}
           below  == {k \in before : \A o \in before : ~(k > o)}
           above  == {k \in after : \A o \in after : ~(o > k)}
<1>1. Bids!UpperBounds(s, limit) = IF limit \in DOMAIN s THEN {below}
                                   ELSE IF DOMAIN s = {} THEN {{}} ELSE {below, above} \ {{}}
  BY DEF Bids!UpperBounds, Bids!Before, Bids!After, Bids!Greatest, Bids!Least, CmpBid
<1>2. DOMAIN s \in SUBSET Prices /\ DOMAIN s \subseteq Nat
  BY SideLevels
<1>3. before # {} => below # {}
  <2> SUFFICES ASSUME before # {} PROVE below # {}
    OBVIOUS
  <2>1. before \in SUBSET Prices /\ before \subseteq Nat
    BY <1>2
  <2>2. PICK k \in before : \A o \in before : k <= o
    BY <2>1, HasEnds
  <2>3. k \in below
    BY <2>1, <2>2
  <2> QED
    BY <2>3
<1>4. after # {} => above # {}
  <2> SUFFICES ASSUME after # {} PROVE above # {}
    OBVIOUS
  <2>1. after \in SUBSET Prices /\ after \subseteq Nat
    BY <1>2
  <2>2. PICK k \in after : \A o \in after : k >= o
    BY <2>1, HasEnds
  <2>3. k \in above
    BY <2>1, <2>2
  <2> QED
    BY <2>3
<1>5. below \subseteq before /\ above \subseteq after
  OBVIOUS
<1>6. before \subseteq DOMAIN s /\ after \subseteq DOMAIN s /\ before \cap BidsBehind(s, limit) = {}
  BY <1>2 DEF BidsBehind
<1>7. before = {} /\ limit \in DOMAIN s => BidsBehind(s, limit) = DOMAIN s
  BY <1>2 DEF BidsBehind
<1>8. limit \notin DOMAIN s => BidsBehind(s, limit) = {} /\ before \cup after = DOMAIN s
  BY <1>2 DEF BidsBehind
<1> HIDE DEF before, after, below, above
<1>9. CASE limit \in DOMAIN s
  BY <1>1, <1>3, <1>5, <1>6, <1>7, <1>9
<1>10. CASE limit \notin DOMAIN s /\ DOMAIN s = {}
  BY <1>1, <1>8, <1>10
<1>11. CASE limit \notin DOMAIN s /\ DOMAIN s # {}
  <2>1. Bids!UpperBounds(s, limit) = {below, above} \ {{}}
    BY <1>1, <1>11
  <2>2. below # {} \/ above # {}
    BY <1>3, <1>4, <1>8, <1>11
  <2> QED
    BY <1>5, <1>6, <1>8, <1>11, <2>1, <2>2
<1> QED
  BY <1>9, <1>10, <1>11

\* Trimming the bids keeps exactly the levels behind the limit.
LEMMA TrimBids ==
  ASSUME NEW side \in Sides, NEW limit \in Nat
  PROVE  TrimmedBids(side, limit) = {Kept(side, BidsBehind(side, limit))}
<1> DEFINE Turn(f, s) ==
             UNION {IF found = {} THEN {s} ELSE UNION {f[Bids!Without(s, p)] : p \in found} :
                       found \in Bids!UpperBounds(s, limit)}
           Goal(s) == {Kept(s, BidsBehind(s, limit))}
           trimmed[s \in Sides] ==
             UNION {IF found = {} THEN {s} ELSE UNION {trimmed[Bids!Without(s, p)] : p \in found} :
                       found \in Bids!UpperBounds(s, limit)}
<1>1. TrimmedBids(side, limit) = trimmed[side]
  BY DEF TrimmedBids
<1>2. ASSUME NEW s \in Sides, NEW f,
             \A t \in Sides : DOMAIN t \subseteq DOMAIN s /\ DOMAIN t # DOMAIN s => f[t] = Goal(t)
      PROVE  Turn(f, s) = Goal(s)
  <2> DEFINE Result(found) == IF found = {} THEN {s} ELSE UNION {f[Bids!Without(s, p)] : p \in found}
  <2>1. ASSUME NEW found \in Bids!UpperBounds(s, limit)
        PROVE  Result(found) = Goal(s)
    <3>1. CASE found = {}
      BY <3>1, BidBounds, KeptAll
    <3>2. CASE found # {}
      <4>1. ASSUME NEW p \in found PROVE f[Bids!Without(s, p)] = Goal(s)
        <5> DEFINE t == Bids!Without(s, p)
        <5>1. p \in DOMAIN s /\ p \notin BidsBehind(s, limit)
          BY BidBounds
        <5>2. t \in Sides /\ DOMAIN t = DOMAIN s \ {p} /\ t = Kept(s, DOMAIN s \ {p})
          BY WithoutKeeps
        <5> HIDE DEF t
        <5>3. f[t] = Goal(t)
          BY <1>2, <5>1, <5>2
        <5>4. limit \in DOMAIN s => limit \in DOMAIN t
          BY <5>1, <5>2, SideLevels DEF BidsBehind
        <5>5. BidsBehind(t, limit) = BidsBehind(s, limit)
          BY <5>1, <5>2, <5>4 DEF BidsBehind
        <5>6. BidsBehind(s, limit) \in SUBSET (DOMAIN s \ {p})
          BY <5>1 DEF BidsBehind
        <5>7. Kept(t, BidsBehind(t, limit)) = Kept(s, BidsBehind(s, limit))
          BY <5>2, <5>5, <5>6, KeptOfKept
        <5> QED
          BY <5>3, <5>7 DEF t
      <4>2. {f[Bids!Without(s, p)] : p \in found} = {Goal(s)}
        <5> HIDE DEF Goal
        <5> QED
          BY <3>2, <4>1
      <4> QED
        BY <3>2, <4>2
    <3> QED
      BY <3>1, <3>2
  <2>2. Turn(f, s) = UNION {Result(found) : found \in Bids!UpperBounds(s, limit)}
    OBVIOUS
  <2>3. {Result(found) : found \in Bids!UpperBounds(s, limit)} = {Goal(s)}
    <3>1. Bids!UpperBounds(s, limit) # {}
      BY BidBounds
    <3> HIDE DEF Goal, Result
    <3> QED
      BY <2>1, <3>1
  <2> HIDE DEF Turn, Result, Goal
  <2>4. UNION {Goal(s)} = Goal(s)
    OBVIOUS
  <2> QED
    BY <2>2, <2>3, <2>4
<1> DEFINE solved == [s \in Sides |-> Goal(s)]
<1>3. \A s \in Sides : Turn(solved, s) = Goal(s)
  <2>1. \A s \in Sides : solved[s] = Goal(s)
    OBVIOUS
  <2> HIDE DEF Turn, Goal, solved
  <2> QED
    BY <1>2, <2>1
<1>4. solved = [s \in Sides |-> Turn(solved, s)]
  <2> HIDE DEF Turn, Goal
  <2> QED
    BY <1>3 DEF solved
<1>5. trimmed = [s \in Sides |-> Turn(trimmed, s)]
  BY <1>4
<1> DEFINE Bad == {s \in Sides : trimmed[s] # Goal(s)}
<1>6. ASSUME NEW s \in Bad
      PROVE  \E t \in Bad : DOMAIN t \subseteq DOMAIN s /\ DOMAIN t # DOMAIN s
  <2>1. trimmed[s] = Turn(trimmed, s)
    BY <1>5
  <2> HIDE DEF Turn, trimmed, Goal
  <2> QED
    BY <1>2, <2>1
<1>7. Bad = {}
  <2> HIDE DEF trimmed, Goal
  <2> QED
    BY <1>6, SideInduction
<1> QED
  BY <1>1, <1>7
\* Where upper_bound ends when the asks are trimmed.
LEMMA AskBounds ==
  ASSUME NEW s \in Sides, NEW limit \in Nat
  PROVE  /\ Asks!UpperBounds(s, limit) # {}
         /\ \A found \in Asks!UpperBounds(s, limit) :
              /\ found = {} => AsksBehind(s, limit) = DOMAIN s
              /\ \A p \in found : p \in DOMAIN s /\ p \notin AsksBehind(s, limit)
<1> DEFINE before == {k \in DOMAIN s : k < limit}
           after  == {k \in DOMAIN s : limit < k}
           below  == {k \in before : \A o \in before : ~(k < o)}
           above  == {k \in after : \A o \in after : ~(o < k)}
<1>1. Asks!UpperBounds(s, limit) = IF limit \in DOMAIN s THEN {below}
                                   ELSE IF DOMAIN s = {} THEN {{}} ELSE {below, above} \ {{}}
  BY DEF Asks!UpperBounds, Asks!Before, Asks!After, Asks!Greatest, Asks!Least, CmpAsk
<1>2. DOMAIN s \in SUBSET Prices /\ DOMAIN s \subseteq Nat
  BY SideLevels
<1>3. before # {} => below # {}
  <2> SUFFICES ASSUME before # {} PROVE below # {}
    OBVIOUS
  <2>1. before \in SUBSET Prices /\ before \subseteq Nat
    BY <1>2
  <2>2. PICK k \in before : \A o \in before : k >= o
    BY <2>1, HasEnds
  <2>3. k \in below
    BY <2>1, <2>2
  <2> QED
    BY <2>3
<1>4. after # {} => above # {}
  <2> SUFFICES ASSUME after # {} PROVE above # {}
    OBVIOUS
  <2>1. after \in SUBSET Prices /\ after \subseteq Nat
    BY <1>2
  <2>2. PICK k \in after : \A o \in after : k <= o
    BY <2>1, HasEnds
  <2>3. k \in above
    BY <2>1, <2>2
  <2> QED
    BY <2>3
<1>5. below \subseteq before /\ above \subseteq after
  OBVIOUS
<1>6. before \subseteq DOMAIN s /\ after \subseteq DOMAIN s /\ before \cap AsksBehind(s, limit) = {}
  BY <1>2 DEF AsksBehind
<1>7. before = {} /\ limit \in DOMAIN s => AsksBehind(s, limit) = DOMAIN s
  BY <1>2 DEF AsksBehind
<1>8. limit \notin DOMAIN s => AsksBehind(s, limit) = {} /\ before \cup after = DOMAIN s
  BY <1>2 DEF AsksBehind
<1> HIDE DEF before, after, below, above
<1>9. CASE limit \in DOMAIN s
  BY <1>1, <1>3, <1>5, <1>6, <1>7, <1>9
<1>10. CASE limit \notin DOMAIN s /\ DOMAIN s = {}
  BY <1>1, <1>8, <1>10
<1>11. CASE limit \notin DOMAIN s /\ DOMAIN s # {}
  <2>1. Asks!UpperBounds(s, limit) = {below, above} \ {{}}
    BY <1>1, <1>11
  <2>2. below # {} \/ above # {}
    BY <1>3, <1>4, <1>8, <1>11
  <2> QED
    BY <1>5, <1>6, <1>8, <1>11, <2>1, <2>2
<1> QED
  BY <1>9, <1>10, <1>11

\* Trimming the asks keeps exactly the levels behind the limit.
LEMMA TrimAsks ==
  ASSUME NEW side \in Sides, NEW limit \in Nat
  PROVE  TrimmedAsks(side, limit) = {Kept(side, AsksBehind(side, limit))}
<1> DEFINE Turn(f, s) ==
             UNION {IF found = {} THEN {s} ELSE UNION {f[Asks!Without(s, p)] : p \in found} :
                       found \in Asks!UpperBounds(s, limit)}
           Goal(s) == {Kept(s, AsksBehind(s, limit))}
           trimmed[s \in Sides] ==
             UNION {IF found = {} THEN {s} ELSE UNION {trimmed[Asks!Without(s, p)] : p \in found} :
                       found \in Asks!UpperBounds(s, limit)}
<1>1. TrimmedAsks(side, limit) = trimmed[side]
  BY DEF TrimmedAsks
<1>2. ASSUME NEW s \in Sides, NEW f,
             \A t \in Sides : DOMAIN t \subseteq DOMAIN s /\ DOMAIN t # DOMAIN s => f[t] = Goal(t)
      PROVE  Turn(f, s) = Goal(s)
  <2> DEFINE Result(found) == IF found = {} THEN {s} ELSE UNION {f[Asks!Without(s, p)] : p \in found}
  <2>1. ASSUME NEW found \in Asks!UpperBounds(s, limit)
        PROVE  Result(found) = Goal(s)
    <3>1. CASE found = {}
      BY <3>1, AskBounds, KeptAll
    <3>2. CASE found # {}
      <4>1. ASSUME NEW p \in found PROVE f[Asks!Without(s, p)] = Goal(s)
        <5> DEFINE t == Asks!Without(s, p)
        <5>1. p \in DOMAIN s /\ p \notin AsksBehind(s, limit)
          BY AskBounds
        <5>2. t \in Sides /\ DOMAIN t = DOMAIN s \ {p} /\ t = Kept(s, DOMAIN s \ {p})
          BY WithoutKeeps
        <5> HIDE DEF t
        <5>3. f[t] = Goal(t)
          BY <1>2, <5>1, <5>2
        <5>4. limit \in DOMAIN s => limit \in DOMAIN t
          BY <5>1, <5>2, SideLevels DEF AsksBehind
        <5>5. AsksBehind(t, limit) = AsksBehind(s, limit)
          BY <5>1, <5>2, <5>4 DEF AsksBehind
        <5>6. AsksBehind(s, limit) \in SUBSET (DOMAIN s \ {p})
          BY <5>1 DEF AsksBehind
        <5>7. Kept(t, AsksBehind(t, limit)) = Kept(s, AsksBehind(s, limit))
          BY <5>2, <5>5, <5>6, KeptOfKept
        <5> QED
          BY <5>3, <5>7 DEF t
      <4>2. {f[Asks!Without(s, p)] : p \in found} = {Goal(s)}
        <5> HIDE DEF Goal
        <5> QED
          BY <3>2, <4>1
      <4> QED
        BY <3>2, <4>2
    <3> QED
      BY <3>1, <3>2
  <2>2. Turn(f, s) = UNION {Result(found) : found \in Asks!UpperBounds(s, limit)}
    OBVIOUS
  <2>3. {Result(found) : found \in Asks!UpperBounds(s, limit)} = {Goal(s)}
    <3>1. Asks!UpperBounds(s, limit) # {}
      BY AskBounds
    <3> HIDE DEF Goal, Result
    <3> QED
      BY <2>1, <3>1
  <2> HIDE DEF Turn, Result, Goal
  <2>4. UNION {Goal(s)} = Goal(s)
    OBVIOUS
  <2> QED
    BY <2>2, <2>3, <2>4
<1> DEFINE solved == [s \in Sides |-> Goal(s)]
<1>3. \A s \in Sides : Turn(solved, s) = Goal(s)
  <2>1. \A s \in Sides : solved[s] = Goal(s)
    OBVIOUS
  <2> HIDE DEF Turn, Goal, solved
  <2> QED
    BY <1>2, <2>1
<1>4. solved = [s \in Sides |-> Turn(solved, s)]
  <2> HIDE DEF Turn, Goal
  <2> QED
    BY <1>3 DEF solved
<1>5. trimmed = [s \in Sides |-> Turn(trimmed, s)]
  BY <1>4
<1> DEFINE Bad == {s \in Sides : trimmed[s] # Goal(s)}
<1>6. ASSUME NEW s \in Bad
      PROVE  \E t \in Bad : DOMAIN t \subseteq DOMAIN s /\ DOMAIN t # DOMAIN s
  <2>1. trimmed[s] = Turn(trimmed, s)
    BY <1>5
  <2> HIDE DEF Turn, trimmed, Goal
  <2> QED
    BY <1>2, <2>1
<1>7. Bad = {}
  <2> HIDE DEF trimmed, Goal
  <2> QED
    BY <1>6, SideInduction
<1> QED
  BY <1>1, <1>7

-----------------------------------------------------------------------------
(* Type correctness. *)

\* The initial states are well typed.
LEMMA TypeInit == Init => TypeOK
BY EmptySide DEF Init, TypeOK

(* What update_from_ticker leaves, in its three cases.                     *)
AskLeft(tk) == {p \in DOMAIN ask : p >= tk.ask}
BidLeft(tk) == {p \in DOMAIN bid : p <= tk.bid}

\* A ticker is its two prices and its two volumes.
LEMMA TickerParts ==
  ASSUME NEW tk \in Tickers
  PROVE  /\ tk.bid \in Prices /\ tk.ask \in Prices /\ tk.bid \in Nat /\ tk.ask \in Nat
         /\ tk.bid_volume \in Amounts /\ tk.ask_volume \in Amounts
         /\ tk = [bid |-> tk.bid, ask |-> tk.ask, bid_volume |-> tk.bid_volume, ask_volume |-> tk.ask_volume]
BY PricesAssumption DEF Tickers

\* What a ticker does to the book, by whether levels are left on each side.
LEMMA FromTickerIs ==
  ASSUME TypeOK, NEW tk \in Tickers
  PROVE  /\ AskLeft(tk) = {} =>
              FromTicker(tk) = [undefined |-> TRUE, bid |-> bid, ask |-> Bids!Empty]
         /\ AskLeft(tk) # {} /\ BidLeft(tk) = {} =>
              FromTicker(tk) = [undefined |-> TRUE, bid |-> Bids!Empty, ask |-> Kept(ask, AskLeft(tk))]
         /\ AskLeft(tk) # {} /\ BidLeft(tk) # {} =>
              FromTicker(tk) = [undefined |-> FALSE,
                                bid |-> Update(Kept(bid, BidLeft(tk)), tk.bid, tk.bid_volume),
                                ask |-> Update(Kept(ask, AskLeft(tk)), tk.ask, tk.ask_volume)]
<1>1. RemoveAskTo(ask, tk.ask) = Removed(ask, AskLeft(tk))
  BY TickerParts, RemoveAsks DEF TypeOK, AskLeft
<1>2. RemoveBidTo(bid, tk.bid) = Removed(bid, BidLeft(tk))
  BY TickerParts, RemoveBids DEF TypeOK, BidLeft
<1>3. CASE AskLeft(tk) = {}
  BY <1>1, <1>3 DEF FromTicker, Removed, Undefined
<1>4. CASE AskLeft(tk) # {} /\ BidLeft(tk) = {}
  <2>1. /\ RemoveAskTo(ask, tk.ask).undefined = FALSE
        /\ RemoveAskTo(ask, tk.ask).side = Kept(ask, AskLeft(tk))
    BY <1>1, <1>4 DEF Removed, Done
  <2>2. RemoveBidTo(bid, tk.bid) = Undefined(Bids!Empty)
    BY <1>2, <1>4 DEF Removed
  <2>3. /\ RemoveBidTo(bid, tk.bid).undefined = TRUE
        /\ RemoveBidTo(bid, tk.bid).side = Bids!Empty
    BY <2>2 DEF Undefined
  <2> QED
    BY <1>4, <2>1, <2>3 DEF FromTicker
<1>5. CASE AskLeft(tk) # {} /\ BidLeft(tk) # {}
  <2>1. /\ RemoveAskTo(ask, tk.ask).undefined = FALSE
        /\ RemoveAskTo(ask, tk.ask).side = Kept(ask, AskLeft(tk))
    BY <1>1, <1>5 DEF Removed, Done
  <2>2. /\ RemoveBidTo(bid, tk.bid).undefined = FALSE
        /\ RemoveBidTo(bid, tk.bid).side = Kept(bid, BidLeft(tk))
    BY <1>2, <1>5 DEF Removed, Done
  <2> QED
    BY <1>5, <2>1, <2>2 DEF FromTicker
<1> QED
  BY <1>3, <1>4, <1>5

\* A ticker leaves a well typed book.
LEMMA FromTickerType ==
  ASSUME TypeOK, NEW tk \in Tickers
  PROVE  FromTicker(tk).bid \in Sides /\ FromTicker(tk).ask \in Sides /\ FromTicker(tk).undefined \in BOOLEAN
<1>1. bid \in Sides /\ ask \in Sides /\ Bids!Empty \in Sides
  BY EmptySide DEF TypeOK
<1>2. Kept(ask, AskLeft(tk)) \in Sides /\ Kept(bid, BidLeft(tk)) \in Sides
  BY <1>1, KeptIsSide DEF AskLeft, BidLeft
<1>3. /\ Update(Kept(bid, BidLeft(tk)), tk.bid, tk.bid_volume) \in Sides
      /\ Update(Kept(ask, AskLeft(tk)), tk.ask, tk.ask_volume) \in Sides
  BY <1>2, TickerParts, UpdateIs DEF Updated
<1>4. CASE AskLeft(tk) = {}
  <2>1. FromTicker(tk) = [undefined |-> TRUE, bid |-> bid, ask |-> Bids!Empty]
    BY <1>4, FromTickerIs
  <2> QED
    BY <1>1, <2>1
<1>5. CASE AskLeft(tk) # {} /\ BidLeft(tk) = {}
  <2>1. FromTicker(tk) = [undefined |-> TRUE, bid |-> Bids!Empty, ask |-> Kept(ask, AskLeft(tk))]
    BY <1>5, FromTickerIs
  <2> QED
    BY <1>1, <1>2, <2>1
<1>6. CASE AskLeft(tk) # {} /\ BidLeft(tk) # {}
  <2>1. FromTicker(tk) = [undefined |-> FALSE,
                          bid |-> Update(Kept(bid, BidLeft(tk)), tk.bid, tk.bid_volume),
                          ask |-> Update(Kept(ask, AskLeft(tk)), tk.ask, tk.ask_volume)]
    BY <1>6, FromTickerIs
  <2> QED
    BY <1>3, <2>1
<1> QED
  BY <1>4, <1>5, <1>6

\* Every step keeps the types.
LEMMA TypeStep == TypeOK /\ [Next]_vars => TypeOK'
<1> SUFFICES ASSUME TypeOK, [Next]_vars PROVE TypeOK'
  OBVIOUS
<1>1. ASSUME NEW price \in Prices, NEW amount \in Amounts, UpdateBid(price, amount) \/ UpdateAsk(price, amount)
      PROVE  TypeOK'
  <2>1. bid \in Sides /\ ask \in Sides
    BY DEF TypeOK
  <2>2. Update(bid, price, amount) \in Sides /\ Update(ask, price, amount) \in Sides
    BY <2>1, UpdateIs DEF Updated
  <2> QED
    BY <1>1, <2>1, <2>2 DEF TypeOK, UpdateBid, UpdateAsk
<1>2. ASSUME NEW price \in Prices, RemoveAsk(price) \/ RemoveBid(price)
      PROVE  TypeOK'
  <2>1. price \in Nat
    BY PricesAssumption
  <2>2. CASE RemoveAsk(price)
    <3> DEFINE left == {p \in DOMAIN ask : p >= price}
    <3>1. RemoveAskTo(ask, price) = Removed(ask, left)
      BY <2>1, RemoveAsks DEF TypeOK
    <3>2. Removed(ask, left).side \in Sides /\ Removed(ask, left).undefined \in BOOLEAN
      BY RemovedIsSide DEF TypeOK
    <3> HIDE DEF left
    <3> QED
      BY <2>2, <3>1, <3>2 DEF TypeOK, RemoveAsk
  <2>3. CASE RemoveBid(price)
    <3> DEFINE left == {p \in DOMAIN bid : p <= price}
    <3>1. RemoveBidTo(bid, price) = Removed(bid, left)
      BY <2>1, RemoveBids DEF TypeOK
    <3>2. Removed(bid, left).side \in Sides /\ Removed(bid, left).undefined \in BOOLEAN
      BY RemovedIsSide DEF TypeOK
    <3> HIDE DEF left
    <3> QED
      BY <2>3, <3>1, <3>2 DEF TypeOK, RemoveBid
  <2> QED
    BY <1>2, <2>2, <2>3
<1>3. ASSUME NEW lowest \in Prices, NEW highest \in Prices, Trim(lowest, highest)
      PROVE  TypeOK'
  <2>1. lowest \in Nat /\ highest \in Nat
    BY PricesAssumption
  <2>2. bid' = Kept(bid, BidsBehind(bid, lowest))
    BY <1>3, <2>1, TrimBids DEF TypeOK, Trim
  <2>3. ask' = Kept(ask, AsksBehind(ask, highest))
    BY <1>3, <2>1, TrimAsks DEF TypeOK, Trim
  <2>4. bid' \in Sides
    BY <2>2, KeptIsSide DEF TypeOK, BidsBehind
  <2>5. ask' \in Sides
    BY <2>3, KeptIsSide DEF TypeOK, AsksBehind
  <2> QED
    BY <1>3, <2>4, <2>5 DEF TypeOK, Trim
<1>4. ASSUME NEW tk \in Tickers, UpdateFromTicker(tk)
      PROVE  TypeOK'
  <2>1. FromTicker(tk).bid \in Sides /\ FromTicker(tk).ask \in Sides /\ FromTicker(tk).undefined \in BOOLEAN
    BY FromTickerType
  <2> QED
    BY <1>4, <2>1 DEF TypeOK, UpdateFromTicker
<1>5. CASE UNCHANGED vars
  BY <1>5 DEF TypeOK, vars
<1> QED
  BY <1>1, <1>2, <1>3, <1>4, <1>5 DEF Next

(* The sides hold positive amounts at prices, whatever the book is told:   *)
(* TypeOK, for every instance.                                             *)
THEOREM LevelsPositive == Spec => []TypeOK
BY TypeInit, TypeStep, PTL DEF Spec

-----------------------------------------------------------------------------
(* What the calls do to a book, in every reachable state. *)

(* trim keeps a limit that is a level and what is behind it, and empties   *)
(* the side otherwise: TrimKeepsTail, for every instance and every shape   *)
(* of the trees.                                                           *)
THEOREM TrimKeeps == Spec => []TrimKeepsTail
<1>1. TypeOK => TrimKeepsTail
  <2> SUFFICES ASSUME TypeOK, NEW limit \in Prices
               PROVE  /\ TrimmedBids(bid, limit) = {Kept(bid, BidsBehind(bid, limit))}
                      /\ TrimmedAsks(ask, limit) = {Kept(ask, AsksBehind(ask, limit))}
    BY DEF TrimKeepsTail, Kept, BidsBehind, AsksBehind
  <2>1. limit \in Nat
    BY PricesAssumption
  <2> QED
    BY <2>1, TrimBids, TrimAsks DEF TypeOK
<1> QED
  BY <1>1, LevelsPositive, PTL

(* update_from_ticker reads past the end of a side exactly when nothing on *)
(* it is at the ticker's price or behind it: where the call is defined, of *)
(* which the run firstticker shows the first exception.                    *)
DefinedIfBookIsDeep ==
    \A tk \in Tickers :
        ~undefined => (~FromTicker(tk).undefined <=> /\ \E p \in DOMAIN ask : p >= tk.ask
                                                     /\ \E p \in DOMAIN bid : p <= tk.bid)

\* In every reachable state.
THEOREM DefinedIfDeep == Spec => []DefinedIfBookIsDeep
<1>1. TypeOK => DefinedIfBookIsDeep
  <2> SUFFICES ASSUME TypeOK, NEW tk \in Tickers
               PROVE  ~FromTicker(tk).undefined <=> AskLeft(tk) # {} /\ BidLeft(tk) # {}
    BY DEF DefinedIfBookIsDeep, AskLeft, BidLeft
  <2> QED
    BY FromTickerIs
<1> QED
  BY <1>1, LevelsPositive, PTL

(* The sides after update_from_ticker, where it returns.                   *)
LEMMA FromTickerSides ==
  ASSUME TypeOK, NEW tk \in Tickers, ~FromTicker(tk).undefined
  PROVE  /\ DOMAIN FromTicker(tk).bid =
              IF tk.bid_volume = 0 THEN BidLeft(tk) \ {tk.bid} ELSE BidLeft(tk) \cup {tk.bid}
         /\ DOMAIN FromTicker(tk).ask =
              IF tk.ask_volume = 0 THEN AskLeft(tk) \ {tk.ask} ELSE AskLeft(tk) \cup {tk.ask}
         /\ \A p \in BidLeft(tk) \ {tk.bid} : FromTicker(tk).bid[p] = bid[p]
         /\ \A p \in AskLeft(tk) \ {tk.ask} : FromTicker(tk).ask[p] = ask[p]
         /\ tk.bid_volume # 0 => FromTicker(tk).bid[tk.bid] = tk.bid_volume
         /\ tk.ask_volume # 0 => FromTicker(tk).ask[tk.ask] = tk.ask_volume
<1>1. /\ FromTicker(tk).bid = Update(Kept(bid, BidLeft(tk)), tk.bid, tk.bid_volume)
      /\ FromTicker(tk).ask = Update(Kept(ask, AskLeft(tk)), tk.ask, tk.ask_volume)
  BY FromTickerIs
<1>2. /\ Kept(bid, BidLeft(tk)) \in Sides /\ DOMAIN Kept(bid, BidLeft(tk)) = BidLeft(tk)
      /\ \A p \in BidLeft(tk) : Kept(bid, BidLeft(tk))[p] = bid[p]
  BY KeptIsSide DEF TypeOK, BidLeft
<1>3. /\ Kept(ask, AskLeft(tk)) \in Sides /\ DOMAIN Kept(ask, AskLeft(tk)) = AskLeft(tk)
      /\ \A p \in AskLeft(tk) : Kept(ask, AskLeft(tk))[p] = ask[p]
  BY KeptIsSide DEF TypeOK, AskLeft
<1>4. tk.bid \in Prices /\ tk.ask \in Prices /\ tk.bid_volume \in Amounts /\ tk.ask_volume \in Amounts
  BY TickerParts
<1> DEFINE b == Kept(bid, BidLeft(tk))
           a == Kept(ask, AskLeft(tk))
<1>5. Updated(Update(b, tk.bid, tk.bid_volume), b, tk.bid, tk.bid_volume)
  BY <1>2, <1>4, UpdateIs
<1>6. Updated(Update(a, tk.ask, tk.ask_volume), a, tk.ask, tk.ask_volume)
  BY <1>3, <1>4, UpdateIs
<1>7. /\ Updated(FromTicker(tk).bid, b, tk.bid, tk.bid_volume)
      /\ Updated(FromTicker(tk).ask, a, tk.ask, tk.ask_volume)
  BY <1>1, <1>5, <1>6
<1>8. /\ DOMAIN b = BidLeft(tk) /\ \A p \in BidLeft(tk) : b[p] = bid[p]
      /\ DOMAIN a = AskLeft(tk) /\ \A p \in AskLeft(tk) : a[p] = ask[p]
  BY <1>2, <1>3
<1> HIDE DEF a, b
<1> QED
  BY <1>7, <1>8 DEF Updated

(* A ticker written to the book is on top of it, what is better is gone,   *)
(* what is behind stays and nothing is crossed: TickerOnTop, for every     *)
(* instance.                                                               *)
THEOREM TickerIsOnTop == Spec => []TickerOnTop
<1>1. TypeOK => TickerOnTop
  <2> SUFFICES ASSUME TypeOK, NEW tk \in Tickers, ~FromTicker(tk).undefined
               PROVE  LET book == FromTicker(tk)
                      IN  /\ 0 \notin {tk.bid_volume, tk.ask_volume} => TickerOf(book.bid, book.ask, tk) = tk
                          /\ \A p \in Prices :
                                /\ p < tk.bid => (p \in DOMAIN book.bid <=> p \in DOMAIN bid)
                                /\ p > tk.ask => (p \in DOMAIN book.ask <=> p \in DOMAIN ask)
                          /\ \A p \in DOMAIN book.bid \ {tk.bid} : p < tk.bid /\ book.bid[p] = bid[p]
                          /\ \A p \in DOMAIN book.ask \ {tk.ask} : p > tk.ask /\ book.ask[p] = ask[p]
                          /\ tk.bid < tk.ask => \A b \in DOMAIN book.bid, a \in DOMAIN book.ask : b < a
    BY DEF TickerOnTop
  <2> DEFINE b == FromTicker(tk).bid
             a == FromTicker(tk).ask
  <2>1. /\ tk.bid \in Nat /\ tk.ask \in Nat /\ Prices \subseteq Nat
        /\ DOMAIN bid \subseteq Prices /\ DOMAIN ask \subseteq Prices
        /\ b \in Sides /\ a \in Sides
    BY TickerParts, SideLevels, FromTickerType, PricesAssumption DEF TypeOK
  <2>2. /\ DOMAIN b = IF tk.bid_volume = 0 THEN BidLeft(tk) \ {tk.bid} ELSE BidLeft(tk) \cup {tk.bid}
        /\ DOMAIN a = IF tk.ask_volume = 0 THEN AskLeft(tk) \ {tk.ask} ELSE AskLeft(tk) \cup {tk.ask}
        /\ \A p \in BidLeft(tk) \ {tk.bid} : b[p] = bid[p]
        /\ \A p \in AskLeft(tk) \ {tk.ask} : a[p] = ask[p]
        /\ tk.bid_volume # 0 => b[tk.bid] = tk.bid_volume
        /\ tk.ask_volume # 0 => a[tk.ask] = tk.ask_volume
    BY FromTickerSides
  <2> HIDE DEF b, a
  <2>3. \A p \in DOMAIN b : p <= tk.bid /\ (p # tk.bid => p \in BidLeft(tk))
    BY <2>1, <2>2 DEF BidLeft
  <2>4. \A p \in DOMAIN a : p >= tk.ask /\ (p # tk.ask => p \in AskLeft(tk))
    BY <2>1, <2>2 DEF AskLeft
  <2>5. DOMAIN b \subseteq Nat /\ DOMAIN a \subseteq Nat
    BY <2>1, SideLevels
  <2>6. ASSUME 0 \notin {tk.bid_volume, tk.ask_volume}
        PROVE  TickerOf(b, a, tk) = tk
    <3>1. tk.bid \in DOMAIN b /\ tk.ask \in DOMAIN a
      BY <2>2, <2>6
    <3>2. BestBid(b) \in DOMAIN b /\ BestBid(b) >= tk.bid /\ BestAsk(a) \in DOMAIN a /\ BestAsk(a) <= tk.ask
      BY <2>1, <3>1, BestOnes
    <3>3. BestBid(b) = tk.bid /\ BestAsk(a) = tk.ask
      BY <2>1, <2>3, <2>4, <2>5, <3>2
    <3>4. b # Bids!Empty /\ a # Asks!Empty
      BY <2>1, <3>1, EmptySide
    <3> QED
      BY <2>2, <2>6, <3>3, <3>4, TickerParts DEF TickerOf
  <2>7. ASSUME NEW p \in Prices
        PROVE  /\ p < tk.bid => (p \in DOMAIN b <=> p \in DOMAIN bid)
               /\ p > tk.ask => (p \in DOMAIN a <=> p \in DOMAIN ask)
    BY <2>1, <2>2 DEF BidLeft, AskLeft
  <2>8. \A p \in DOMAIN b \ {tk.bid} : p < tk.bid /\ b[p] = bid[p]
    BY <2>1, <2>2, <2>3, <2>5
  <2>9. \A p \in DOMAIN a \ {tk.ask} : p > tk.ask /\ a[p] = ask[p]
    BY <2>1, <2>2, <2>4, <2>5
  <2>10. tk.bid < tk.ask => \A p \in DOMAIN b, q \in DOMAIN a : p < q
    BY <2>1, <2>3, <2>4, <2>5
  <2> QED
    BY <2>6, <2>7, <2>8, <2>9, <2>10 DEF b, a
<1> QED
  BY <1>1, LevelsPositive, PTL

(* A book with both sides is not changed by its own ticker:                *)
(* TickerRoundTrip, for every instance.                                    *)
THEOREM TickerReadBack == Spec => []TickerRoundTrip
<1>1. TypeOK => TickerRoundTrip
  <2> SUFFICES ASSUME TypeOK, NEW tk \in Tickers, Bids!Empty \notin {bid, ask}
               PROVE  FromTicker(TickerOf(bid, ask, tk)) = [undefined |-> FALSE, bid |-> bid, ask |-> ask]
    BY DEF TickerRoundTrip
  <2> DEFINE own == TickerOf(bid, ask, tk)
  <2>1. bid \in Sides /\ ask \in Sides /\ DOMAIN bid # {} /\ DOMAIN ask # {}
    BY EmptySide DEF TypeOK
  <2>2. /\ BestAsk(ask) \in DOMAIN ask /\ \A p \in DOMAIN ask : BestAsk(ask) <= p
        /\ BestBid(bid) \in DOMAIN bid /\ \A p \in DOMAIN bid : BestBid(bid) >= p
    BY <2>1, BestOnes
  <2>3. own = [bid |-> BestBid(bid), bid_volume |-> bid[BestBid(bid)],
               ask |-> BestAsk(ask), ask_volume |-> ask[BestAsk(ask)]]
    BY EmptySide DEF TickerOf
  <2>4. own \in Tickers
    BY <2>1, <2>2, <2>3, SideLevels DEF Tickers
  <2>5. AskLeft(own) = DOMAIN ask /\ BidLeft(own) = DOMAIN bid
    <3>1. own.ask = BestAsk(ask) /\ own.bid = BestBid(bid)
      BY <2>3
    <3>2. \A p \in DOMAIN ask : p >= BestAsk(ask)
      BY <2>1, <2>2, SideLevels
    <3>3. \A p \in DOMAIN bid : p <= BestBid(bid)
      BY <2>1, <2>2, SideLevels
    <3> HIDE DEF own
    <3> QED
      BY <3>1, <3>2, <3>3 DEF AskLeft, BidLeft
  <2>6. own.bid_volume # 0 /\ own.ask_volume # 0 /\ own.bid \in DOMAIN bid /\ own.ask \in DOMAIN ask
    BY <2>1, <2>2, <2>3, SideLevels
  <2>7. own.bid_volume = bid[own.bid] /\ own.ask_volume = ask[own.ask]
    BY <2>3
  <2> HIDE DEF own
  <2>8. FromTicker(own) = [undefined |-> FALSE,
                           bid |-> Update(Kept(bid, BidLeft(own)), own.bid, own.bid_volume),
                           ask |-> Update(Kept(ask, AskLeft(own)), own.ask, own.ask_volume)]
    BY <2>1, <2>4, <2>5, FromTickerIs
  <2>9. Kept(bid, BidLeft(own)) = bid /\ Kept(ask, AskLeft(own)) = ask
    BY <2>1, <2>5, KeptAll
  <2>10. own.bid \in Prices /\ own.ask \in Prices /\ own.bid_volume \in Amounts /\ own.ask_volume \in Amounts
    BY <2>4, TickerParts
  <2>11. Update(bid, own.bid, own.bid_volume) = bid
    <3> DEFINE u == Update(bid, own.bid, own.bid_volume)
    <3>1. Updated(u, bid, own.bid, own.bid_volume)
      BY <2>1, <2>10, UpdateIs
    <3> HIDE DEF u
    <3>2. u \in Sides /\ DOMAIN u = DOMAIN bid /\ \A p \in DOMAIN u : u[p] = bid[p]
      BY <2>6, <2>7, <3>1 DEF Updated
    <3>3. u = bid
      BY <2>1, <3>2, SameSides
    <3> QED
      BY <3>3 DEF u
  <2>12. Update(ask, own.ask, own.ask_volume) = ask
    <3> DEFINE u == Update(ask, own.ask, own.ask_volume)
    <3>1. Updated(u, ask, own.ask, own.ask_volume)
      BY <2>1, <2>10, UpdateIs
    <3> HIDE DEF u
    <3>2. u \in Sides /\ DOMAIN u = DOMAIN ask /\ \A p \in DOMAIN u : u[p] = ask[p]
      BY <2>6, <2>7, <3>1 DEF Updated
    <3>3. u = ask
      BY <2>1, <3>2, SameSides
    <3> QED
      BY <3>3 DEF u
  <2> QED
    BY <2>8, <2>9, <2>11, <2>12 DEF own
<1> QED
  BY <1>1, LevelsPositive, PTL

-----------------------------------------------------------------------------
(* Arithmetic of rounding. *)

\* Multiplying by a natural keeps the order.
LEMMA Mult ==
  ASSUME NEW a \in Int, NEW b \in Int, NEW d \in Nat, a <= b
  PROVE  a * d <= b * d
OBVIOUS

\* Division rounds down.
LEMMA DivMeans ==
  ASSUME NEW v \in Int, NEW d \in Nat \ {0}
  PROVE  v \div d \in Int /\ (v \div d) * d <= v /\ v < (v \div d) * d + d
OBVIOUS

\* If one product lies less than one factor above another, so do the other factors.
LEMMA Cancel ==
  ASSUME NEW a \in Int, NEW b \in Int, NEW d \in Nat \ {0}, a * d < b * d + d
  PROVE  a <= b
<1>1. SUFFICES ASSUME b + 1 <= a PROVE FALSE
  OBVIOUS
<1>2. (b + 1) * d <= a * d
  BY <1>1, Mult
<1>3. (b + 1) * d = b * d + d /\ a * d \in Int /\ b * d \in Int
  OBVIOUS
<1> QED
  BY <1>2, <1>3

\* Only one whole number lies where the quotient must.
LEMMA DivUnique ==
  ASSUME NEW v \in Int, NEW d \in Nat \ {0}, NEW c \in Int, c * d <= v, v < c * d + d
  PROVE  v \div d = c
<1>1. PICK a \in Int : a = v \div d /\ a * d <= v /\ v < a * d + d
  BY DivMeans
<1>2. a * d \in Int /\ c * d \in Int
  OBVIOUS
<1>3. a * d < c * d + d /\ c * d < a * d + d
  BY <1>1, <1>2
<1>4. a <= c /\ c <= a
  BY <1>3, Cancel
<1> QED
  BY <1>1, <1>4

(* Rounding is off by at most half a grain.                                *)
LEMMA RoundNear ==
  ASSUME NEW v \in Int, NEW g \in Nat \ {0}
  PROVE  /\ Round(v, g) \in Int
         /\ 2 * v <= 2 * (Round(v, g) * g) + g
         /\ 2 * (Round(v, g) * g) - g <= 2 * v
<1>1. 2 * g \in Nat \ {0}
  OBVIOUS
<1>2. CASE v >= 0
  <2>1. 2 * v + g \in Int
    OBVIOUS
  <2>2. PICK a \in Int : a = (2 * v + g) \div (2 * g) /\ a * (2 * g) <= 2 * v + g /\ 2 * v + g < a * (2 * g) + 2 * g
    BY <1>1, <2>1, DivMeans
  <2>3. Round(v, g) = a
    BY <1>2, <2>2 DEF Round
  <2>4. a * (2 * g) = 2 * (a * g) /\ a * g \in Int
    OBVIOUS
  <2> QED
    BY <2>2, <2>3, <2>4
<1>3. CASE ~(v >= 0)
  <2>1. g - 2 * v \in Int
    OBVIOUS
  <2>2. PICK a \in Int : a = (g - 2 * v) \div (2 * g) /\ a * (2 * g) <= g - 2 * v /\ g - 2 * v < a * (2 * g) + 2 * g
    BY <1>1, <2>1, DivMeans
  <2>3. Round(v, g) = -a
    BY <1>3, <2>2 DEF Round
  <2>4. a * (2 * g) = 2 * (a * g) /\ a * g \in Int /\ (-a) * g = -(a * g)
    OBVIOUS
  <2> QED
    BY <2>2, <2>3, <2>4
<1> QED
  BY <1>2, <1>3

\* Rounding does not pass a whole multiple below.
LEMMA RoundAbove ==
  ASSUME NEW v \in Int, NEW g \in Nat \ {0}, NEW k \in Int, k * g <= v
  PROVE  k <= Round(v, g)
<1>1. PICK r \in Int : r = Round(v, g) /\ 2 * v <= 2 * (r * g) + g
  BY RoundNear
<1>2. k * g \in Int /\ r * g \in Int
  OBVIOUS
<1>3. k * g < r * g + g
  BY <1>1, <1>2
<1> QED
  BY <1>1, <1>3, Cancel

\* Rounding does not pass a whole multiple above.
LEMMA RoundBelow ==
  ASSUME NEW v \in Int, NEW g \in Nat \ {0}, NEW k \in Int, v <= k * g
  PROVE  Round(v, g) <= k
<1>1. PICK r \in Int : r = Round(v, g) /\ 2 * (r * g) - g <= 2 * v
  BY RoundNear
<1>2. k * g \in Int /\ r * g \in Int
  OBVIOUS
<1>3. r * g < k * g + g
  BY <1>1, <1>2
<1> QED
  BY <1>1, <1>3, Cancel

(* What is on the grid stays.                                              *)
LEMMA RoundExact ==
  ASSUME NEW k \in Int, NEW g \in Nat \ {0}
  PROVE  Round(k * g, g) = k
<1>1. k * g \in Int /\ k * g <= k * g
  OBVIOUS
<1>2. k <= Round(k * g, g) /\ Round(k * g, g) <= k /\ Round(k * g, g) \in Int
  BY <1>1, RoundAbove, RoundBelow, RoundNear
<1> QED
  BY <1>2

\* Rounding is symmetric about zero.
LEMMA RoundOdd ==
  ASSUME NEW v \in Int, NEW g \in Nat \ {0}
  PROVE  Round(-v, g) = -Round(v, g)
<1>1. CASE v > 0
  <2>1. ~(-v >= 0) /\ g - 2 * (-v) = 2 * v + g
    BY <1>1
  <2> QED
    BY <1>1, <2>1 DEF Round
<1>2. CASE v = 0
  <2>1. 0 * g = 0
    OBVIOUS
  <2>2. Round(0 * g, g) = 0
    BY RoundExact
  <2>3. Round(0, g) = 0
    BY <2>1, <2>2
  <2> QED
    BY <1>2, <2>3
<1>3. CASE v < 0
  <2>1. -v >= 0 /\ 2 * (-v) + g = g - 2 * v
    BY <1>3
  <2>2. (g - 2 * v) \div (2 * g) \in Int
    OBVIOUS
  <2> QED
    BY <1>3, <2>1, <2>2 DEF Round
<1> QED
  BY <1>1, <1>2, <1>3

\* A common factor does not change a quotient.
LEMMA DivScale ==
  ASSUME NEW v \in Int, NEW d \in Nat \ {0}, NEW k \in Nat \ {0}
  PROVE  (k * v) \div (k * d) = v \div d
<1>1. PICK c \in Int : c = v \div d /\ c * d <= v /\ v + 1 <= c * d + d
  BY DivMeans
<1>2. c * d \in Int /\ k * d \in Nat \ {0} /\ k * v \in Int
  OBVIOUS
<1>3. (c * d) * k <= v * k /\ (v + 1) * k <= (c * d + d) * k
  BY <1>1, <1>2, Mult
<1>4. /\ (c * d) * k = c * (k * d) /\ v * k = k * v /\ (v + 1) * k = k * v + k
      /\ (c * d + d) * k = c * (k * d) + k * d /\ c * (k * d) \in Int
  OBVIOUS
<1>5. c * (k * d) <= k * v /\ k * v < c * (k * d) + k * d
  BY <1>2, <1>3, <1>4
<1> QED
  BY <1>1, <1>2, <1>5, DivUnique

\* A common factor does not change a rounded quotient.
LEMMA RoundScale ==
  ASSUME NEW v \in Int, NEW g \in Nat \ {0}, NEW k \in Nat \ {0}
  PROVE  Round(k * v, k * g) = Round(v, g)
<1>1. /\ 2 * v + g \in Int /\ g - 2 * v \in Int /\ 2 * g \in Nat \ {0} /\ k * g \in Nat \ {0} /\ k * v \in Int
      /\ 2 * (k * v) + k * g = k * (2 * v + g) /\ k * g - 2 * (k * v) = k * (g - 2 * v)
      /\ 2 * (k * g) = k * (2 * g)
  OBVIOUS
<1>2. k * v >= 0 <=> v >= 0
  <2>1. v >= 0 => 0 * k <= v * k
    BY Mult
  <2>2. ~(v >= 0) => v * k <= (-1) * k
    BY Mult
  <2>3. 0 * k = 0 /\ v * k = k * v /\ (-1) * k = -k
    OBVIOUS
  <2> QED
    BY <1>1, <2>1, <2>2, <2>3
<1>3. (k * (2 * v + g)) \div (k * (2 * g)) = (2 * v + g) \div (2 * g)
  BY <1>1, DivScale
<1>4. (k * (g - 2 * v)) \div (k * (2 * g)) = (g - 2 * v) \div (2 * g)
  BY <1>1, DivScale
<1>5. Round(k * v, k * g) = IF k * v >= 0 THEN (2 * (k * v) + k * g) \div (2 * (k * g))
                            ELSE -((k * g - 2 * (k * v)) \div (2 * (k * g)))
  BY DEF Round
<1>6. Round(v, g) = IF v >= 0 THEN (2 * v + g) \div (2 * g) ELSE -((g - 2 * v) \div (2 * g))
  BY DEF Round
<1>7. CASE v >= 0
  BY <1>1, <1>2, <1>3, <1>5, <1>6, <1>7
<1>8. CASE ~(v >= 0)
  BY <1>1, <1>2, <1>4, <1>5, <1>6, <1>8
<1> QED
  BY <1>7, <1>8

-----------------------------------------------------------------------------
(* Alignment. *)

\* A multiple of g next to v / o: below it, above it, or on the nearer side.
NextBelow(r, v, o, g)   == \E n \in Int : r = n * g /\ (n * g) * o <= v /\ v <= (n * g) * o + g * o
NextAbove(r, v, o, g)   == \E n \in Int : r = n * g /\ v <= (n * g) * o /\ (n * g) * o <= v + g * o
NearestTo(r, v, o, g) == \E n \in Int : r = n * g /\ 2 * v <= 2 * ((n * g) * o) + g * o
                                              /\ 2 * ((n * g) * o) <= 2 * v + g * o

\* What std::floor may make of a quotient is not above it, nor a grain below.
LEMMA FloorsMean ==
  ASSUME NEW v \in Int, NEW o \in Nat \ {0}, NEW g \in Nat \ {0}, NEW x, x.value = v, x.over = o,
         NEW r \in Floors(x, g)
  PROVE  NextBelow(r, v, o, g)
<1>1. PICK u \in Nat \ {0} : u = o * g
  OBVIOUS
<1>2. PICK n \in Int : n = v \div u /\ n * u <= v /\ v < n * u + u
  BY DivMeans
<1>3. PICK m \in n - 1 .. n : r = m * g /\ v <= (m + 1) * u
  BY <1>1, <1>2 DEF Floors
<1>4. m * u <= n * u
  BY <1>3, Mult
<1>5. (m + 1) * u = m * u + u /\ m * u = (m * g) * o /\ u = g * o /\ m * u \in Int /\ n * u \in Int
  BY <1>1
<1> QED
  BY <1>2, <1>3, <1>4, <1>5 DEF NextBelow

\* What std::ceil may make of a quotient is not below it, nor more than a grain above.
LEMMA CeilsMean ==
  ASSUME NEW v \in Int, NEW o \in Nat \ {0}, NEW g \in Nat \ {0}, NEW x, x.value = v, x.over = o,
         NEW r \in Ceils(x, g)
  PROVE  NextAbove(r, v, o, g)
<1>1. PICK u \in Nat \ {0} : u = o * g
  OBVIOUS
<1>2. PICK n \in Int : n = v \div u /\ n * u <= v /\ v < n * u + u
  BY DivMeans
<1>3. PICK m \in n .. n + 1 : r = m * g /\ v <= m * u
  BY <1>1, <1>2 DEF Ceils
<1>4. m * u <= (n + 1) * u
  BY <1>3, Mult
<1>5. (n + 1) * u = n * u + u /\ m * u = (m * g) * o /\ u = g * o /\ m * u \in Int /\ n * u \in Int
  BY <1>1
<1> QED
  BY <1>2, <1>3, <1>4, <1>5 DEF NextAbove

\* What std::round may make of a quotient is off by half a grain at most.
LEMMA NearestsMean ==
  ASSUME NEW v \in Int, NEW o \in Nat \ {0}, NEW g \in Nat \ {0}, NEW x, x.value = v, x.over = o,
         NEW r \in Nearests(x, g)
  PROVE  NearestTo(r, v, o, g)
<1>1. PICK u \in Nat \ {0} : u = o * g
  OBVIOUS
<1>2. PICK n \in Int : n = v \div u
  BY DivMeans
<1>3. PICK m \in n .. n + 1 : r = m * g /\ 2 * (m * u - v) \in -u .. u
  BY <1>1, <1>2 DEF Nearests
<1>4. m * u = (m * g) * o /\ u = g * o /\ m * u \in Int
  BY <1>1
<1>5. 2 * v <= 2 * (m * u) + u /\ 2 * (m * u) <= 2 * v + u
  BY <1>3, <1>4
<1> QED
  BY <1>3, <1>4, <1>5 DEF NearestTo

-----------------------------------------------------------------------------
(* The numbers of an instrument. *)

\* The unit of the last decimal of an instrument's prices.
Grain(info) == 10 ^ (Decimals - info.tick.decimals)

\* The numbers of an instrument: positive, with a tick that is a whole number of grains.
LEMMA InfoNumbers ==
  ASSUME NEW info \in Infos
  PROVE  /\ Grain(info) \in Nat \ {0} /\ info.tick.value \in Nat \ {0}
         /\ \E m \in Nat : info.tick.value = m * Grain(info)
         /\ get_rounded(info.tick) = info.tick.value
         /\ One \in Nat \ {0}
<1>1. Decimals - info.tick.decimals \in 0 .. Decimals /\ Decimals \in 0 .. Decimals
  BY InfoTypes, DecimalsAssumption
<1>2. Grain(info) \in Nat \ {0} /\ One \in Nat \ {0}
  BY <1>1, PowersOfTen DEF Grain, One
<1>3. PICK t \in Nat \ {0} : t = info.tick.value /\ info.tick = Dec(t, info.tick.decimals)
  BY InfoTypes
<1>4. info.tick.over = 1
  BY <1>3 DEF Dec
<1>5. get_rounded(info.tick) = t
  BY <1>3, TicksDividePrices
<1>6. PICK g \in Nat \ {0} : g = Grain(info)
  BY <1>2
<1>7. get_rounded(info.tick) = Round(t, 1 * g) * g
  BY <1>3, <1>4, <1>6 DEF get_rounded, Grain
<1>8. PICK m \in Int : m = Round(t, g)
  BY RoundNear
<1>9. t = m * g
  <2>1. 1 * g = g
    OBVIOUS
  <2> QED
    BY <1>5, <1>7, <1>8, <2>1
<1>10. m \in Nat
  <2> SUFFICES ASSUME m <= -1 PROVE FALSE
    OBVIOUS
  <2>1. m * g <= (-1) * g
    BY Mult
  <2>2. (-1) * g = -g /\ m * g \in Int
    OBVIOUS
  <2> QED
    BY <1>9, <2>1, <2>2
<1> QED
  BY <1>2, <1>3, <1>5, <1>6, <1>9, <1>10

(* A FastDecimal with the decimals of an instrument's prices, as a double. *)
LEMMA RoundedAt ==
  ASSUME NEW info \in Infos, NEW v \in Int, NEW o \in Nat \ {0}, NEW d,
         d.value = v, d.over = o, d.decimals = info.tick.decimals
  PROVE  get_rounded(d) = Round(v, o * Grain(info)) * Grain(info)
BY DEF get_rounded, Grain

(* A multiple of the tick is a price as it is.                             *)
LEMMA TicksAreExact ==
  ASSUME NEW info \in Infos, NEW n \in Int
  PROVE  get_rounded(Dec(n * info.tick.value, info.tick.decimals)) = n * info.tick.value
<1>1. PICK t \in Nat \ {0}, g \in Nat \ {0} : t = info.tick.value /\ g = Grain(info)
  BY InfoNumbers
<1>2. PICK m \in Nat : t = m * g
  BY <1>1, InfoNumbers
<1>3. n * t \in Int /\ n * m \in Int /\ n * t = (n * m) * g /\ 1 * g = g
  BY <1>2
<1>4. get_rounded(Dec(n * t, info.tick.decimals)) = Round(n * t, 1 * g) * g
  <2> DEFINE d == Dec(n * t, info.tick.decimals)
  <2>1. d.value = n * t /\ d.over = 1 /\ d.decimals = info.tick.decimals
    BY DEF Dec
  <2> HIDE DEF d
  <2>2. get_rounded(d) = Round(n * t, 1 * g) * g
    BY <1>1, <1>3, <2>1, RoundedAt
  <2> QED
    BY <2>2 DEF d
<1>5. Round((n * m) * g, g) = n * m
  BY <1>3, RoundExact
<1> QED
  BY <1>1, <1>3, <1>4, <1>5

-----------------------------------------------------------------------------
(* The quotes of the example strategy. *)

\* Every price of the book is a whole number of ticks.
LEMMA PricesAreTicks ==
  ASSUME NEW info \in Infos, NEW p \in Prices
  PROVE  \E k \in Nat : p = k * info.tick.value
<1>1. PICK t \in Nat \ {0} : t = info.tick.value
  BY InfoNumbers
<1>2. p \in Nat /\ p % t = 0
  BY <1>1, TicksDividePrices, PricesAssumption
<1>3. PICK k \in Int : k = p \div t /\ k * t <= p /\ p < k * t + t
  BY <1>2, DivMeans
<1>4. p = k * t
  BY <1>2, <1>3
<1>5. k \in Nat
  <2> SUFFICES ASSUME k <= -1 PROVE FALSE
    BY <1>3
  <2>1. k * t <= (-1) * t
    BY Mult
  <2>2. (-1) * t = -t /\ k * t \in Int
    OBVIOUS
  <2> QED
    BY <1>2, <1>4, <2>1, <2>2
<1> QED
  BY <1>1, <1>4, <1>5

\* So are the two prices of the ticker.
LEMMA TickerTicks ==
  ASSUME TypeOK, NEW info \in Infos
  PROVE  /\ \E k \in Nat : Ticker.ask = k * info.tick.value
         /\ \E k \in Nat : Ticker.bid = k * info.tick.value
<1>1. PICK t \in Nat \ {0} : t = info.tick.value
  BY InfoNumbers
<1>2. 0 \in Nat /\ 0 = 0 * t
  OBVIOUS
<1>3. \E k \in Nat : Ticker.ask = k * t
  <2>1. CASE ask = Asks!Empty
    BY <1>2, <2>1 DEF Ticker, TickerOf
  <2>2. CASE ask # Asks!Empty
    <3>1. DOMAIN ask # {} /\ ask \in Sides
      BY <2>2, EmptySide DEF TypeOK
    <3>2. BestAsk(ask) \in Prices
      BY <3>1, BestOnes, SideLevels
    <3>3. Ticker.ask = BestAsk(ask)
      BY <2>2 DEF Ticker, TickerOf
    <3> QED
      BY <1>1, <3>2, <3>3, PricesAreTicks
  <2> QED
    BY <2>1, <2>2
<1>4. \E k \in Nat : Ticker.bid = k * t
  <2>1. CASE bid = Bids!Empty
    BY <1>2, <2>1 DEF Ticker, TickerOf
  <2>2. CASE bid # Bids!Empty
    <3>1. DOMAIN bid # {} /\ bid \in Sides
      BY <2>2, EmptySide DEF TypeOK
    <3>2. BestBid(bid) \in Prices
      BY <3>1, BestOnes, SideLevels
    <3>3. Ticker.bid = BestBid(bid)
      BY <2>2 DEF Ticker, TickerOf
    <3> QED
      BY <1>1, <3>2, <3>3, PricesAreTicks
  <2> QED
    BY <2>1, <2>2
<1> QED
  BY <1>1, <1>3, <1>4

(* Rounding to decimals does not move a price wanted over the ticker.      *)
LEMMA WantedOutside ==
  ASSUME TypeOK, NEW info \in Infos
  PROVE  /\ \A w \in Wanted(Ticker, "ask", info.tick.decimals) : w \in Int /\ w >= Ticker.ask
         /\ \A w \in Wanted(Ticker, "bid", info.tick.decimals) : w \in Int /\ w <= Ticker.bid
<1>1. PICK t \in Nat \ {0}, g \in Nat \ {0} : t = info.tick.value /\ g = Grain(info)
  BY InfoNumbers
<1>2. PICK m \in Nat : t = m * g
  BY <1>1, InfoNumbers
<1>3. ASSUME NEW k \in Nat, Ticker.ask = k * t, NEW w \in Wanted(Ticker, "ask", info.tick.decimals)
      PROVE  w \in Int /\ w >= Ticker.ask
  <2>0. k * t \in Nat /\ k * m \in Nat /\ k * (m * g) = (k * m) * g
    OBVIOUS
  <2>1. PICK a \in Nat, n \in Nat : a = Ticker.ask /\ n = k * m /\ a = n * g
    BY <1>2, <1>3, <2>0
  <2> DEFINE d == Times(Dec(Ticker.ask, info.tick.decimals), 101, 100)
  <2>2. d.value = a * 101 /\ d.over = 1 * 100
    BY <2>1 DEF Times, Dec
  <2>3. PICK v \in Int, o \in Nat \ {0} : v = a * 101 /\ o = 100 /\ d.value = v /\ d.over = o
    BY <2>2
  <2>4. w \in Nearests(d, g)
    BY <1>1, <1>3 DEF Wanted, Grain
  <2> HIDE DEF d
  <2>5. PICK r \in Int : w = r * g /\ 2 * v <= 2 * ((r * g) * o) + g * o
    <3>1. NearestTo(w, v, o, g)
      BY <2>3, <2>4, NearestsMean
    <3> QED
      BY <3>1 DEF NearestTo
  <2>6. PICK u \in Nat \ {0} : u = g * o
    OBVIOUS
  <2>7. (r * g) * o = r * u /\ n * u = 100 * a /\ 100 * a <= v /\ r * u \in Int
    BY <2>1, <2>3, <2>6
  <2>8. n * u < r * u + u
    BY <2>3, <2>5, <2>6, <2>7
  <2>9. n <= r
    BY <2>8, Cancel
  <2>10. n * g <= r * g /\ r * g \in Int
    BY <2>9, Mult
  <2> QED
    BY <2>1, <2>5, <2>10
<1>4. ASSUME NEW k \in Nat, Ticker.bid = k * t, NEW w \in Wanted(Ticker, "bid", info.tick.decimals)
      PROVE  w \in Int /\ w <= Ticker.bid
  <2>0. k * t \in Nat /\ k * m \in Nat /\ k * (m * g) = (k * m) * g
    OBVIOUS
  <2>1. PICK b \in Nat, n \in Nat : b = Ticker.bid /\ n = k * m /\ b = n * g
    BY <1>2, <1>4, <2>0
  <2> DEFINE d == Times(Dec(Ticker.bid, info.tick.decimals), 100, 101)
  <2>2. d.value = b * 100 /\ d.over = 1 * 101
    BY <2>1 DEF Times, Dec
  <2>3. PICK v \in Int, o \in Nat \ {0} : v = b * 100 /\ o = 101 /\ d.value = v /\ d.over = o
    BY <2>2
  <2>4. w \in Nearests(d, g)
    BY <1>1, <1>4 DEF Wanted, Grain
  <2> HIDE DEF d
  <2>5. PICK r \in Int : w = r * g /\ 2 * ((r * g) * o) <= 2 * v + g * o
    <3>1. NearestTo(w, v, o, g)
      BY <2>3, <2>4, NearestsMean
    <3> QED
      BY <3>1 DEF NearestTo
  <2>6. PICK u \in Nat \ {0} : u = g * o
    OBVIOUS
  <2>7. (r * g) * o = r * u /\ n * u = 101 * b /\ v <= 101 * b /\ r * u \in Int
    BY <2>1, <2>3, <2>6
  <2>8. r * u < n * u + u
    BY <2>3, <2>5, <2>6, <2>7
  <2>9. r <= n
    BY <2>8, Cancel
  <2>10. r * g <= n * g /\ r * g \in Int
    BY <2>9, Mult
  <2> QED
    BY <2>1, <2>5, <2>10
<1>5. PICK k \in Nat, l \in Nat : Ticker.ask = k * t /\ Ticker.bid = l * t
  BY <1>1, TickerTicks
<1> QED
  BY <1>3, <1>4, <1>5

(* A quote is a tick outside the price wanted, or on it, and off it by a   *)
(* tick at most.                                                           *)
LEMMA QuoteIs ==
  ASSUME NEW info \in Infos, NEW w \in Int, NEW side \in {"ask", "bid"}, NEW quote \in Quote(info, w, side)
  PROVE  \E n \in Int :
           /\ quote = n * info.tick.value
           /\ IF side = "ask" THEN w <= n * info.tick.value /\ n * info.tick.value <= w + info.tick.value
                              ELSE n * info.tick.value <= w /\ w <= n * info.tick.value + info.tick.value
<1>1. PICK t \in Nat \ {0} : t = info.tick.value /\ get_rounded(info.tick) = t
  BY InfoNumbers
<1> DEFINE x == Dec(w, 0)
<1>2. PICK o \in Nat \ {0} : o = 1 /\ x.value = w /\ x.over = o
  BY DEF Dec
<1>3. PICK r \in Aligned(x, t, "defensive", side) : quote = get_rounded(Dec(r, info.tick.decimals))
  BY <1>1 DEF Quote, AlignPrice
<1> HIDE DEF x
<1>4. Aligned(x, t, "defensive", side) = IF side = "ask" THEN Ceils(x, t) ELSE Floors(x, t)
  BY DEF Aligned
<1>5. PICK n \in Int : /\ r = n * t
                       /\ IF side = "ask" THEN w <= n * t /\ n * t <= w + t ELSE n * t <= w /\ w <= n * t + t
  <2>1. CASE side = "ask"
    <3>1. r \in Ceils(x, t)
      BY <1>3, <1>4, <2>1
    <3>2. NextAbove(r, w, o, t)
      BY <1>2, <3>1, CeilsMean
    <3>3. PICK n \in Int : r = n * t /\ w <= (n * t) * o /\ (n * t) * o <= w + t * o
      BY <3>2 DEF NextAbove
    <3>4. (n * t) * o = n * t /\ t * o = t
      BY <1>2
    <3> QED
      BY <2>1, <3>3, <3>4
  <2>2. CASE side = "bid"
    <3>1. r \in Floors(x, t)
      BY <1>3, <1>4, <2>2
    <3>2. NextBelow(r, w, o, t)
      BY <1>2, <3>1, FloorsMean
    <3>3. PICK n \in Int : r = n * t /\ (n * t) * o <= w /\ w <= (n * t) * o + t * o
      BY <3>2 DEF NextBelow
    <3>4. (n * t) * o = n * t /\ t * o = t
      BY <1>2
    <3> QED
      BY <2>2, <3>3, <3>4
  <2> QED
    BY <2>1, <2>2
<1>6. quote = n * t
  BY <1>1, <1>3, <1>5, TicksAreExact
<1> QED
  BY <1>1, <1>5, <1>6

(* The example's quotes are ticks outside the spread, off the price wanted *)
(* by a tick at most, although the divisions of doubles are inexact:       *)
(* QuotesOutsideSpread, for every book and instrument whose ticks divide   *)
(* the prices.                                                             *)
THEOREM QuotesOutside == Spec => []QuotesOutsideSpread
<1>1. TypeOK => QuotesOutsideSpread
  <2> SUFFICES ASSUME TypeOK, NEW info \in Infos, NEW side \in {"bid", "ask"},
                      NEW w \in Wanted(Ticker, side, info.tick.decimals), NEW quote \in Quote(info, w, side)
               PROVE  /\ quote % info.tick.value = 0
                      /\ IF side = "ask"
                         THEN quote >= Ticker.ask /\ quote - w \in 0 .. info.tick.value
                         ELSE quote <= Ticker.bid /\ w - quote \in 0 .. info.tick.value
    BY DEF QuotesOutsideSpread
  <2>1. PICK t \in Nat \ {0} : t = info.tick.value
    BY InfoNumbers
  <2>2. PICK a \in Int, b \in Int : a = Ticker.ask /\ b = Ticker.bid
    <3>1. PICK k \in Nat, l \in Nat : Ticker.ask = k * t /\ Ticker.bid = l * t
      BY <2>1, TickerTicks
    <3>2. k * t \in Int /\ l * t \in Int
      OBVIOUS
    <3> QED
      BY <3>1, <3>2
  <2>3. w \in Int /\ IF side = "ask" THEN a <= w ELSE w <= b
    BY <2>2, WantedOutside
  <2>4. PICK n \in Int :
           /\ quote = n * t
           /\ IF side = "ask" THEN w <= n * t /\ n * t <= w + t ELSE n * t <= w /\ w <= n * t + t
    BY <2>1, <2>3, QuoteIs
  <2>5. PICK q \in Int : q = n * t
    OBVIOUS
  <2>6. q % t = 0
    BY <2>5
  <2>7. side = "ask" => q >= a /\ q - w \in 0 .. t
    BY <2>3, <2>4, <2>5
  <2>8. side = "bid" => q <= b /\ w - q \in 0 .. t
    BY <2>3, <2>4, <2>5
  <2>9. quote = q
    BY <2>4, <2>5
  <2> QED
    BY <2>1, <2>2, <2>6, <2>7, <2>8, <2>9
<1> QED
  BY <1>1, LevelsPositive, PTL

-----------------------------------------------------------------------------
(* Prices that cover the fees. *)

(* An ask aligned with fees is dearer by the fee of its level:             *)
(* AsksCoverFees, for every book, fee and tick.                            *)
THEOREM AsksAreCovered == Spec => []AsksCoverFees
<1>1. TypeOK => AsksCoverFees
  <2> SUFFICES ASSUME TypeOK, NEW info \in Infos, NEW a \in DOMAIN ask,
                      NEW p \in AlignPrice(info, a, "defensive", "ask", TRUE)
               PROVE  100 * p.value >= a * (100 + info.fee)
    BY DEF AsksCoverFees
  <2>1. PICK t \in Nat \ {0} : t = get_rounded(info.tick)
    BY InfoNumbers
  <2>2. PICK f \in Nat : f = info.fee
    BY InfoTypes
  <2>3. a \in Nat
    BY SideLevels, PricesAssumption DEF TypeOK
  <2> DEFINE x == WithFees(info, Dec(a, 0), "ask")
  <2>4. x.value = a * (100 + f) /\ x.over = 1 * 100
    BY <2>2 DEF WithFees, Times, Dec
  <2>5. PICK v \in Int, o \in Nat \ {0} : v = a * (100 + f) /\ o = 100 /\ x.value = v /\ x.over = o
    BY <2>3, <2>4
  <2>6. PICK r \in Aligned(x, t, "defensive", "ask") : p = Dec(r, info.tick.decimals)
    BY <2>1 DEF AlignPrice
  <2> HIDE DEF x
  <2>7. r \in Ceils(x, t)
    BY <2>6 DEF Aligned
  <2>8. PICK n \in Int : r = n * t /\ v <= (n * t) * o
    <3>1. NextAbove(r, v, o, t)
      BY <2>5, <2>7, CeilsMean
    <3> QED
      BY <3>1 DEF NextAbove
  <2>9. PICK q \in Int : q = n * t
    OBVIOUS
  <2>10. p.value = q
    BY <2>6, <2>8, <2>9 DEF Dec
  <2>11. v <= 100 * q
    BY <2>5, <2>8, <2>9
  <2> QED
    BY <2>2, <2>5, <2>10, <2>11
<1> QED
  BY <1>1, LevelsPositive, PTL

-----------------------------------------------------------------------------
(* The quantities allowed. *)

\* Whether a quantity has the least volume at a multiplied price.
EnoughVolume(info, price, x) ==
    LET volume == CalcVolume(info.type, price, x * info.quantity_multiplier)
    IN  volume.value >= info.min_volume * volume.over

(* What is not less than the quantity of the least volume, aligned up, has *)
(* that volume.                                                            *)
LEMMA VolumeReached ==
  ASSUME NEW info \in Infos, NEW price, NEW p \in Nat \ {0}, p = MultipliedPrice(info, price),
         NEW c \in AlignQuantity(info, QuantityOfLeastVolume(info, price), "aggresive")
  PROVE  c \in Int /\ \A q \in Int : c <= q => EnoughVolume(info, p, q)
<1>1. PICK m \in Nat \ {0}, least \in Nat, u \in Nat \ {0}, s \in Nat \ {0} :
         m = info.quantity_multiplier /\ least = info.min_volume /\ u = One /\ s = info.step
  BY InfoTypes, InfoNumbers
<1> DEFINE x == QuantityOfLeastVolume(info, price)
<1>2. c \in Ceils(x, s)
  BY <1>1 DEF AlignQuantity
<1>3. PICK v \in Int, o \in Nat \ {0} :
         /\ x.value = v /\ x.over = o
         /\ \A y \in Int : v <= y * o => EnoughVolume(info, p, y)
  <2>1. CASE info.type = "normal"
    <3>1. x.value = least * u /\ x.over = p * m
      BY <1>1, <2>1 DEF QuantityOfLeastVolume, QuantityFromVolume
    <3>2. PICK v \in Int, o \in Nat \ {0} : v = least * u /\ o = p * m
      OBVIOUS
    <3> HIDE DEF x
    <3>3. ASSUME NEW y \in Int, v <= y * o PROVE EnoughVolume(info, p, y)
      <4>1. EnoughVolume(info, p, y) <=> p * (y * m) >= least * u
        BY <1>1, <2>1 DEF EnoughVolume, CalcVolume
      <4>2. p * (y * m) = y * o /\ y * o \in Int
        BY <3>2
      <4> QED
        BY <3>2, <3>3, <4>1, <4>2
    <3> QED
      BY <3>1, <3>2, <3>3
  <2>2. CASE info.type # "normal"
    <3>1. x.value = least /\ x.over = 1 * m
      BY <1>1, <2>2 DEF QuantityOfLeastVolume, QuantityFromVolume
    <3> HIDE DEF x
    <3>2. ASSUME NEW y \in Int, least <= y * m PROVE EnoughVolume(info, p, y)
      <4>1. EnoughVolume(info, p, y) <=> y * m >= least * 1
        BY <1>1, <2>2 DEF EnoughVolume, CalcVolume
      <4>2. y * m \in Int
        OBVIOUS
      <4> QED
        BY <3>2, <4>1, <4>2
    <3>3. x.over = m
      BY <3>1
    <3> QED
      BY <3>1, <3>2, <3>3
  <2> QED
    BY <2>1, <2>2
<1> HIDE DEF x
<1>4. PICK n \in Int : c = n * s /\ v <= (n * s) * o
  <2>1. NextAbove(c, v, o, s)
    BY <1>1, <1>2, <1>3, CeilsMean
  <2> QED
    BY <2>1 DEF NextAbove
<1>5. c \in Int
  BY <1>4
<1>6. ASSUME NEW q \in Int, c <= q PROVE EnoughVolume(info, p, q)
  <2>1. c * o <= q * o /\ c * o \in Int /\ q * o \in Int
    BY <1>5, <1>6, Mult
  <2>2. v <= q * o
    BY <1>4, <2>1
  <2> QED
    BY <1>3, <1>6, <2>2
<1> QED
  BY <1>5, <1>6

\* A price times the multiplier is a whole number.
LEMMA MultipliedIsWhole ==
  ASSUME NEW info \in Infos, NEW p \in Nat
  PROVE  MultipliedPrice(info, Dec(p, info.tick.decimals)) \in Int
<1>1. PICK g \in Nat \ {0}, m \in Nat : g = Grain(info) /\ m = info.price_multiplier
  BY InfoNumbers, InfoTypes
<1> DEFINE d == Times(Dec(p, info.tick.decimals), info.price_multiplier, 100)
<1>2. d.value = p * m /\ d.over = 1 * 100 /\ d.decimals = info.tick.decimals
  BY <1>1 DEF Times, Dec
<1>3. PICK v \in Int, o \in Nat \ {0} : d.value = v /\ d.over = o /\ o * g \in Nat \ {0}
  BY <1>2
<1> HIDE DEF d
<1>4. get_rounded(d) = Round(v, o * g) * g
  BY <1>1, <1>2, <1>3, RoundedAt
<1>5. Round(v, o * g) \in Int
  BY <1>3, RoundNear
<1> QED
  BY <1>4, <1>5 DEF MultipliedPrice, d

(* The quantity computed for the price of a level is not below the least   *)
(* size, nor, where the multiplied price is not rounded, below the least   *)
(* volume: QuantityAllowed, for every book and instrument.                 *)
THEOREM QuantityIsAllowed == Spec => []QuantityAllowed
<1>1. TypeOK => QuantityAllowed
  <2> SUFFICES ASSUME TypeOK, NEW info \in Infos, NEW p \in (DOMAIN bid \cup DOMAIN ask) \ {0},
                      MultipliedPrice(info, Dec(p, info.tick.decimals)) > 0,
                      NEW q \in GetMinQuantityAtPrice(info, Dec(p, info.tick.decimals))
               PROVE  /\ q >= info.min_size
                      /\ EnoughVolume(info, MultipliedPrice(info, Dec(p, info.tick.decimals)), q)
    BY DEF QuantityAllowed, EnoughVolume
  <2> DEFINE price == Dec(p, info.tick.decimals)
  <2>1. DOMAIN ask \subseteq Nat /\ DOMAIN bid \subseteq Nat
    BY SideLevels, PricesAssumption DEF TypeOK
  <2>2. PICK paid \in Nat \ {0} : paid = MultipliedPrice(info, price)
    BY <2>1, MultipliedIsWhole
  <2>3. PICK size \in Nat, t \in Nat \ {0} : size = info.min_size /\ t = get_rounded(info.tick)
    BY InfoTypes, InfoNumbers
  <2> HIDE DEF price
  <2>4. PICK c \in AlignQuantity(info, QuantityOfLeastVolume(info, price), "aggresive") :
           q = Larger(Larger(c, size), t)
    BY <2>3 DEF GetMinQuantityAtPrice, price
  <2>5. c \in Int
    BY <2>2, VolumeReached
  <2>6. q \in Int /\ c <= q /\ size <= q
    BY <2>3, <2>4, <2>5 DEF Larger
  <2>7. EnoughVolume(info, paid, q)
    BY <2>2, <2>6, VolumeReached
  <2> QED
    BY <2>2, <2>3, <2>6, <2>7 DEF price
<1> QED
  BY <1>1, LevelsPositive, PTL

-----------------------------------------------------------------------------
(* Profits. *)

\* The profit of a normal contract, as one rounded quotient.
LEMMA PnlNormal ==
  ASSUME NEW info \in Infos, NEW open \in Int, NEW close \in Int, NEW q \in Int
  PROVE  CalculatePnl("normal", Dec(open, info.tick.decimals), Dec(close, info.tick.decimals), q)
            = Round((close - open) * q, One * Grain(info)) * Grain(info)
<1>1. PICK u \in Nat \ {0} : u = One
  BY InfoNumbers
<1> DEFINE d == Times(Minus(Dec(close, info.tick.decimals), Dec(open, info.tick.decimals)), q, One)
<1>2. d.value = (close * 1 - open * 1) * q /\ d.over = (1 * 1) * u /\ d.decimals = info.tick.decimals
  BY <1>1 DEF Times, Minus, Dec
<1>3. PICK v \in Int : v = (close - open) * q /\ d.value = v /\ d.over = u
  BY <1>2
<1>4. CalculatePnl("normal", Dec(open, info.tick.decimals), Dec(close, info.tick.decimals), q) = get_rounded(d)
  BY DEF CalculatePnl
<1> HIDE DEF d
<1>5. get_rounded(d) = Round(v, u * Grain(info)) * Grain(info)
  BY <1>2, <1>3, RoundedAt
<1> QED
  BY <1>1, <1>3, <1>4, <1>5

\* The profit of the other contracts, as one rounded quotient.
LEMMA PnlInversed ==
  ASSUME NEW info \in Infos, NEW type, type # "normal",
         NEW open \in Nat \ {0}, NEW close \in Nat \ {0}, NEW q \in Int
  PROVE  CalculatePnl(type, Dec(open, info.tick.decimals), Dec(close, info.tick.decimals), q)
            = Round((close - open) * q * One, open * close * Grain(info)) * Grain(info)
<1>1. PICK u \in Nat \ {0}, g \in Nat \ {0} : u = One /\ g = Grain(info)
  BY InfoNumbers
<1> DEFINE d == Times(Minus(Reciprocal(Dec(open, info.tick.decimals)),
                            Reciprocal(Dec(close, info.tick.decimals))), q, One)
<1>2. /\ d.value = (((u * u) * 1) * close - ((u * u) * 1) * open) * q
      /\ d.over = (open * close) * u /\ d.decimals = info.tick.decimals
  BY <1>1 DEF Times, Minus, Reciprocal, Dec
<1>3. PICK v \in Int, w \in Nat \ {0}, x \in Int, o \in Nat \ {0} :
         /\ v = (close - open) * q * u /\ w = open * close
         /\ x = u * v /\ o = u * w /\ d.value = x /\ d.over = o
  <2>1. PICK v \in Int, w \in Nat \ {0} : v = (close - open) * q * u /\ w = open * close
    OBVIOUS
  <2>2. PICK x \in Int, o \in Nat \ {0} : x = u * v /\ o = u * w
    OBVIOUS
  <2>3. (((u * u) * 1) * close - ((u * u) * 1) * open) * q = u * ((close - open) * q * u)
    OBVIOUS
  <2>4. (open * close) * u = u * (open * close)
    OBVIOUS
  <2>5. d.value = x /\ d.over = o
    BY <1>2, <2>1, <2>2, <2>3, <2>4
  <2> QED
    BY <2>1, <2>2, <2>5
<1>4. CalculatePnl(type, Dec(open, info.tick.decimals), Dec(close, info.tick.decimals), q) = get_rounded(d)
  BY DEF CalculatePnl
<1> HIDE DEF d
<1>5. get_rounded(d) = Round(x, o * g) * g
  <2>1. d.value = x /\ d.over = o /\ d.decimals = info.tick.decimals
    BY <1>2, <1>3
  <2>2. get_rounded(d) = Round(x, o * Grain(info)) * Grain(info)
    BY <2>1, RoundedAt
  <2> QED
    BY <1>1, <2>2
<1>6. o * g = u * (w * g) /\ w * g \in Nat \ {0}
  BY <1>3
<1>7. Round(x, o * g) = Round(v, w * g)
  <2>1. PICK y \in Nat \ {0} : y = w * g
    BY <1>6
  <2>2. Round(u * v, u * y) = Round(v, y)
    BY RoundScale
  <2> QED
    BY <1>3, <1>6, <2>1, <2>2
<1> QED
  BY <1>1, <1>3, <1>4, <1>5, <1>7

(* What is less than half a grain is rounded to zero.                      *)
LEMMA RoundSmall ==
  ASSUME NEW v \in Int, NEW g \in Nat \ {0}, 2 * v < g, -g < 2 * v
  PROVE  Round(v, g) = 0
<1>1. PICK r \in Int : r = Round(v, g) /\ 2 * v <= 2 * (r * g) + g /\ 2 * (r * g) - g <= 2 * v
  BY RoundNear
<1>2. r * g \in Int /\ 0 * g = 0 /\ (-1) * g = -g
  OBVIOUS
<1>3. r * g < 0 * g + g /\ 0 * g < r * g + g
  BY <1>1, <1>2
<1>4. r <= 0 /\ 0 <= r
  BY <1>3, Cancel
<1> QED
  BY <1>1, <1>4

\* A profit is the fraction PnlValue / PnlOver, rounded.
PnlValue(type, open, close, q) == (close - open) * q * (IF type = "normal" THEN 1 ELSE One)
PnlOver(type, open, close) == IF type = "normal" THEN One ELSE open * close

\* Both cases of the profit in one form.
LEMMA PnlIs ==
  ASSUME NEW info \in Infos, NEW open \in Nat \ {0}, NEW close \in Nat \ {0}, NEW q \in Int
  PROVE  /\ PnlValue(info.type, open, close, q) \in Int /\ PnlOver(info.type, open, close) \in Nat \ {0}
         /\ CalculatePnl(info.type, Dec(open, info.tick.decimals), Dec(close, info.tick.decimals), q)
               = Round(PnlValue(info.type, open, close, q), PnlOver(info.type, open, close) * Grain(info)) * Grain(info)
<1>1. PICK u \in Nat \ {0} : u = One
  BY InfoNumbers
<1>2. CASE info.type = "normal"
  <2>1. (close - open) * q * 1 = (close - open) * q /\ (close - open) * q \in Int
    OBVIOUS
  <2>2. PnlValue(info.type, open, close, q) = (close - open) * q /\ PnlOver(info.type, open, close) = One
    BY <1>2, <2>1 DEF PnlValue, PnlOver
  <2>3. CalculatePnl("normal", Dec(open, info.tick.decimals), Dec(close, info.tick.decimals), q)
            = Round((close - open) * q, One * Grain(info)) * Grain(info)
    BY PnlNormal
  <2> QED
    BY <1>1, <1>2, <2>1, <2>2, <2>3
<1>3. CASE info.type # "normal"
  <2>1. /\ PnlValue(info.type, open, close, q) = (close - open) * q * One
        /\ PnlOver(info.type, open, close) = open * close
    BY <1>3 DEF PnlValue, PnlOver
  <2>2. (close - open) * q * u \in Int /\ open * close \in Nat \ {0}
    OBVIOUS
  <2>3. CalculatePnl(info.type, Dec(open, info.tick.decimals), Dec(close, info.tick.decimals), q)
            = Round((close - open) * q * One, open * close * Grain(info)) * Grain(info)
    BY <1>3, PnlInversed, ZenonT(60)
  <2> QED
    BY <1>1, <2>1, <2>2, <2>3
<1> QED
  BY <1>2, <1>3

\* The opposite quantity has the opposite profit.
LEMMA PnlReverse ==
  ASSUME NEW info \in Infos, NEW open \in Nat, NEW close \in Nat, NEW q \in Int
  PROVE  PnlValue(info.type, open, close, -q) = -PnlValue(info.type, open, close, q)
<1>1. PICK k \in Int : k = IF info.type = "normal" THEN 1 ELSE One
  BY InfoNumbers
<1>2. (close - open) * (-q) * k = -((close - open) * q * k)
  OBVIOUS
<1> QED
  BY <1>1, <1>2 DEF PnlValue

\* What PnlToPriceDecimals says of a profit e / w returned to grains g.
PnlRounded(pnl, e, w, g) ==
    LET off == pnl * w - e
    IN  /\ pnl % g = 0
        /\ 2 * off <= g * w /\ -2 * off <= g * w
        /\ 2 * e \in 1 - g * w .. g * w - 1 => pnl = 0

\* Rounding to a grain misses by half a grain at most.
LEMMA RoundedPnl ==
  ASSUME NEW e \in Int, NEW w \in Nat \ {0}, NEW g \in Nat \ {0}
  PROVE  PnlRounded(Round(e, w * g) * g, e, w, g)
<1>1. PICK y \in Nat \ {0} : y = w * g
  OBVIOUS
<1>2. PICK r \in Int : r = Round(e, y) /\ 2 * e <= 2 * (r * y) + y /\ 2 * (r * y) - y <= 2 * e
  BY RoundNear
<1>3. PICK z \in Int : z = r * g
  OBVIOUS
<1>4. z % g = 0
  BY <1>3
<1>5. z * w = r * y /\ g * w = y /\ r * y \in Int
  BY <1>1, <1>3
<1>6. 2 * (z * w - e) <= g * w /\ -2 * (z * w - e) <= g * w
  BY <1>2, <1>5
<1>7. 2 * e \in 1 - g * w .. g * w - 1 => z = 0
  <2>1. SUFFICES ASSUME 2 * e \in 1 - y .. y - 1 PROVE z = 0
    BY <1>5
  <2>2. Round(e, y) = 0
    BY <2>1, RoundSmall
  <2>3. 0 * g = 0
    OBVIOUS
  <2> QED
    BY <1>2, <1>3, <2>2, <2>3
<1> QED
  BY <1>1, <1>2, <1>3, <1>4, <1>6, <1>7 DEF PnlRounded

\* The normal form of a price is a whole number.
LEMMA NormalIsWhole ==
  ASSUME NEW info \in Infos, NEW p \in Nat \ {0}
  PROVE  ToNormalPrice(info.type, Dec(p, info.tick.decimals)) \in Int
<1>1. PICK g \in Nat \ {0}, u \in Nat \ {0} : g = Grain(info) /\ u = One
  BY InfoNumbers
<1> DEFINE d == IF info.type = "normal" THEN Dec(p, info.tick.decimals) ELSE Reciprocal(Dec(p, info.tick.decimals))
<1>2. PICK v \in Int, o \in Nat \ {0} : d.value = v /\ d.over = o /\ d.decimals = info.tick.decimals
  <2>1. CASE info.type = "normal"
    <3>1. d.value = p /\ d.over = 1 /\ d.decimals = info.tick.decimals
      BY <2>1 DEF Dec
    <3> QED
      BY <3>1
  <2>2. CASE info.type # "normal"
    <3>1. d.value = (u * u) * 1 /\ d.over = p /\ d.decimals = info.tick.decimals
      BY <1>1, <2>2 DEF Dec, Reciprocal
    <3>2. (u * u) * 1 \in Int
      OBVIOUS
    <3> QED
      BY <3>1, <3>2
  <2> QED
    BY <2>1, <2>2
<1> HIDE DEF d
<1>3. get_rounded(d) = Round(v, o * g) * g /\ o * g \in Nat \ {0}
  BY <1>1, <1>2, RoundedAt
<1>4. Round(v, o * g) \in Int
  BY <1>3, RoundNear
<1> QED
  BY <1>3, <1>4 DEF ToNormalPrice, d

(* The profit is the same in normal prices if the reciprocals are exact.   *)
LEMMA PnlOfNormalPrices ==
  ASSUME NEW info \in Infos, NEW open \in Nat \ {0}, NEW close \in Nat \ {0}, NEW q \in Int,
         NEW n \in Int, NEW m \in Int,
         n = ToNormalPrice(info.type, Dec(open, info.tick.decimals)),
         m = ToNormalPrice(info.type, Dec(close, info.tick.decimals)),
         n * open = (IF info.type = "normal" THEN open * open ELSE One * One),
         m * close = (IF info.type = "normal" THEN close * close ELSE One * One)
  PROVE  CalculatePnl(info.type, Dec(open, info.tick.decimals), Dec(close, info.tick.decimals), q)
            = CalculatePnl("normal", Dec(n, info.tick.decimals), Dec(m, info.tick.decimals),
                           ToNormalQuantity(info.type, Dec(q, 0)).value)
<1>1. PICK u \in Nat \ {0}, g \in Nat \ {0} : u = One /\ g = Grain(info)
  BY InfoNumbers
<1>2. CASE info.type = "normal"
  <2>1. n * open = open * open /\ m * close = close * close
    BY <1>2
  <2>2. n = open /\ m = close
    BY <2>1
  <2>3. ToNormalQuantity(info.type, Dec(q, 0)).value = q
    BY <1>2 DEF ToNormalQuantity, Dec
  <2> QED
    BY <1>2, <2>2, <2>3
<1>3. CASE info.type # "normal"
  <2>1. n * open = u * u /\ m * close = u * u
    BY <1>1, <1>3
  <2>2. PICK s \in Int : s = -q /\ ToNormalQuantity(info.type, Dec(q, 0)).value = s
    <3>1. ToNormalQuantity(info.type, Dec(q, 0)).value = -q
      BY <1>3 DEF ToNormalQuantity, Negative, Dec
    <3> QED
      BY <3>1
  <2>3. PICK e \in Int, f \in Int, w \in Nat \ {0} :
           e = (close - open) * q * u /\ f = (m - n) * s /\ w = open * close
    OBVIOUS
  <2>4. w * f = u * e
    <3>1. w * f = ((n * open) * close - (m * close) * open) * q
      BY <2>2, <2>3
    <3>2. ((u * u) * close - (u * u) * open) * q = u * e
      BY <2>3
    <3> QED
      BY <2>1, <3>1, <3>2
  <2>5. PICK y \in Nat \ {0}, z \in Nat \ {0} : y = w * g /\ z = u * g
    OBVIOUS
  <2>6. w * z = u * y /\ w * z \in Int
    BY <2>5
  <2>7. Round(f, z) = Round(w * f, w * z)
    BY RoundScale
  <2>8. Round(u * e, u * y) = Round(e, y)
    BY RoundScale, ZenonT(60)
  <2>9. Round(f, z) = Round(e, y)
    BY <2>4, <2>6, <2>7, <2>8
  <2>10. CalculatePnl("normal", Dec(n, info.tick.decimals), Dec(m, info.tick.decimals), s) = Round(f, z) * g
    <3>1. CalculatePnl("normal", Dec(n, info.tick.decimals), Dec(m, info.tick.decimals), s)
             = Round((m - n) * s, One * Grain(info)) * Grain(info)
      BY PnlNormal
    <3> QED
      BY <1>1, <2>3, <2>5, <3>1
  <2>11. CalculatePnl(info.type, Dec(open, info.tick.decimals), Dec(close, info.tick.decimals), q) = Round(e, y) * g
    <3>1. PnlValue(info.type, open, close, q) = e /\ PnlOver(info.type, open, close) = w
      BY <1>1, <1>3, <2>3 DEF PnlValue, PnlOver
    <3>2. CalculatePnl(info.type, Dec(open, info.tick.decimals), Dec(close, info.tick.decimals), q)
             = Round(PnlValue(info.type, open, close, q), PnlOver(info.type, open, close) * Grain(info)) * Grain(info)
      BY PnlIs
    <3> QED
      BY <1>1, <2>5, <3>1, <3>2
  <2> QED
    BY <2>2, <2>9, <2>10, <2>11
<1> QED
  BY <1>2, <1>3

(* A profit is returned to the decimals of the prices, off by at most half *)
(* of the last one, and zero below that; a loss is the profit of the       *)
(* reverse; and with exact reciprocals it is the profit in normal prices:  *)
(* PnlToPriceDecimals, for every pair of levels, quantity and instrument.  *)
THEOREM PnlIsRounded == Spec => []PnlToPriceDecimals
<1>1. TypeOK => PnlToPriceDecimals
  <2> SUFFICES ASSUME TypeOK, NEW info \in Infos,
                      NEW open \in (DOMAIN bid \cup DOMAIN ask) \ {0},
                      NEW close \in (DOMAIN bid \cup DOMAIN ask) \ {0}, NEW quantity \in Quantities
               PROVE  LET Price(p) == Dec(p, info.tick.decimals)
                          Normal(p) == Dec(ToNormalPrice(info.type, Price(p)), info.tick.decimals)
                          pnl == CalculatePnl(info.type, Price(open), Price(close), quantity)
                      IN  /\ PnlRounded(pnl, PnlValue(info.type, open, close, quantity),
                                        PnlOver(info.type, open, close), Grain(info))
                          /\ pnl = -CalculatePnl(info.type, Price(open), Price(close), -quantity)
                          /\ (\A p \in {open, close} :
                                 Normal(p).value * p = (IF info.type = "normal" THEN p * p ELSE One * One)) =>
                                 pnl = CalculatePnl("normal", Normal(open), Normal(close),
                                                    ToNormalQuantity(info.type, Dec(quantity, 0)).value)
    BY DEF PnlToPriceDecimals, PnlRounded, PnlValue, PnlOver, Grain
  <2>1. open \in Nat \ {0} /\ close \in Nat \ {0} /\ quantity \in Int /\ -quantity \in Int
    BY SideLevels, PricesAssumption, InfoTypes DEF TypeOK
  <2>2. PICK g \in Nat \ {0} : g = Grain(info)
    BY InfoNumbers
  <2>3. PICK e \in Int, w \in Nat \ {0} :
           /\ e = PnlValue(info.type, open, close, quantity) /\ w = PnlOver(info.type, open, close)
           /\ CalculatePnl(info.type, Dec(open, info.tick.decimals), Dec(close, info.tick.decimals), quantity)
                 = Round(e, w * g) * g
    BY <2>1, <2>2, PnlIs
  <2>4. PnlRounded(Round(e, w * g) * g, e, w, g)
    BY RoundedPnl
  <2>5. CalculatePnl(info.type, Dec(open, info.tick.decimals), Dec(close, info.tick.decimals), -quantity)
           = -(Round(e, w * g) * g)
    <3>1. PnlValue(info.type, open, close, -quantity) = -e
      BY <2>1, <2>3, PnlReverse
    <3>2. CalculatePnl(info.type, Dec(open, info.tick.decimals), Dec(close, info.tick.decimals), -quantity)
             = Round(-e, w * g) * g
      BY <2>1, <2>2, <2>3, <3>1, PnlIs
    <3>3. PICK y \in Nat \ {0} : y = w * g
      OBVIOUS
    <3>4. PICK r \in Int : r = Round(e, y)
      BY RoundNear
    <3>5. Round(-e, y) = -r
      BY <3>4, RoundOdd
    <3>6. (-r) * g = -(r * g)
      OBVIOUS
    <3> QED
      BY <3>2, <3>3, <3>4, <3>5, <3>6
  <2>6. Round(e, w * g) * g = -(-(Round(e, w * g) * g))
    <3>1. w * g \in Nat \ {0}
      OBVIOUS
    <3>2. PICK r \in Int : r = Round(e, w * g)
      BY <3>1, RoundNear
    <3>3. r * g = -(-(r * g))
      OBVIOUS
    <3> QED
      BY <3>2, <3>3
  <2>7. PICK n \in Int, m \in Int : /\ n = ToNormalPrice(info.type, Dec(open, info.tick.decimals))
                                    /\ m = ToNormalPrice(info.type, Dec(close, info.tick.decimals))
    BY <2>1, NormalIsWhole
  <2>8. ASSUME \A p \in {open, close} :
                  Dec(ToNormalPrice(info.type, Dec(p, info.tick.decimals)), info.tick.decimals).value * p
                     = (IF info.type = "normal" THEN p * p ELSE One * One)
        PROVE  CalculatePnl(info.type, Dec(open, info.tick.decimals), Dec(close, info.tick.decimals), quantity)
                  = CalculatePnl("normal", Dec(n, info.tick.decimals), Dec(m, info.tick.decimals),
                                 ToNormalQuantity(info.type, Dec(quantity, 0)).value)
    <3>1. Dec(n, info.tick.decimals).value = n /\ Dec(m, info.tick.decimals).value = m
      BY DEF Dec
    <3>2. /\ n * open = (IF info.type = "normal" THEN open * open ELSE One * One)
          /\ m * close = (IF info.type = "normal" THEN close * close ELSE One * One)
      BY <2>7, <2>8, <3>1
    <3> QED
      BY <2>1, <2>7, <3>2, PnlOfNormalPrices
  <2> QED
    BY <2>2, <2>3, <2>4, <2>5, <2>6, <2>7, <2>8
<1> QED
  BY <1>1, LevelsPositive, PTL
=============================================================================
