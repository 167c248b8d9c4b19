---------------------------- MODULE LookupTable ----------------------------
(***************************************************************************)
(* StaticLookupTable of lib/utils/static_lookup_table.h: an array of items *)
(* sorted by key, an index that sorts it by value, and the branchless      *)
(* search both ways.  Positions count from 0, as in the code; the position *)
(* after the last item is the end.                                         *)
(*                                                                         *)
(* Keys are integers, as those of an enum are.  Values are compared by     *)
(* ValueLess.  std::sort leaves equal elements in any order, so there is a *)
(* set of the tables that a list of items may become.                      *)
(***************************************************************************)
EXTENDS Integers, Sequences, FiniteSets

CONSTANTS ValueLess(_, _)    \* the order of the values

\* The sequences of S sorted by a relation, a set of pairs; equal elements in any order.
Sortings(S, before) ==
    LET sorted[R \in SUBSET S] ==
            IF R = {} THEN {<<>>}
            ELSE UNION {{<<i>> \o rest : rest \in sorted[R \ {i}]} :
                            i \in {j \in R : \A k \in R : <<k, j>> \notin before}}
    IN  sorted[S]

\* Number of bits: how often a number is halved until it is 0.
log2[x \in Nat] == IF x = 0 THEN 0 ELSE 1 + log2[x \div 2]

(***************************************************************************)
(* lower_bound: search_cycles halvings of the part that may hold the value *)
(* sought, below which are these positions and equal to which those.       *)
(* Where the code computes with masks of 0 and -1 there is a condition.    *)
(***************************************************************************)
LowerBound(n, below, equal) ==
    LET search[i \in Nat] ==
            IF i = 0 THEN [first |-> 0, count |-> n]
            ELSE LET was  == search[i - 1]
                     step == was.count \div 2
                 IN  IF was.first + step \in below
                     THEN [first |-> was.first + step, count |-> was.count - step]
                     ELSE [first |-> was.first, count |-> step]
        last  == search[log2[n]]
        first == last.first + last.count
    IN  IF first < n /\ first \in equal THEN first ELSE n

\* A faulty variant: only the ends are looked at.
IsSequenceByEnds(items) == items[Len(items)].key = items[1].key + Len(items) - 1

\* is_sequence
IsSequence(items) == \A i \in DOMAIN items : items[i].key = items[1].key + i - 1

\* The tables over sorted items: initIndex sorts their positions by value.
Indexed(items) ==
    LET positions == 0 .. Len(items) - 1
        by_value  == {p \in positions \X positions : ValueLess(items[p[1] + 1].value, items[p[2] + 1].value)}
    IN  {[items |-> items, pos |-> pos, sequence |-> IsSequence(items)] : pos \in Sortings(positions, by_value)}

InOrder(items, order) == [i \in DOMAIN items |-> items[order[i]]]

\* A faulty variant: of equal keys the last comes first.
ConstructedLastFirst(items) ==
    LET Before(i, j) == items[i].key < items[j].key \/ (items[i].key = items[j].key /\ i > j)
        by_key == {p \in (DOMAIN items) \X (DOMAIN items) : Before(p[1], p[2])}
    IN  UNION {Indexed(InOrder(items, order)) : order \in Sortings(DOMAIN items, by_key)}

\* The constructor from an array: of equal keys the first stays first.
Constructed(items) ==
    LET Before(i, j) == items[i].key < items[j].key \/ (items[i].key = items[j].key /\ i < j)
        by_key == {p \in (DOMAIN items) \X (DOMAIN items) : Before(p[1], p[2])}
    IN  UNION {Indexed(InOrder(items, order)) : order \in Sortings(DOMAIN items, by_key)}

\* find of a key: its offset in a sequence, or a search.
FindKey(t, k) ==
    LET n == Len(t.items)
        Key(i) == t.items[i + 1].key
        positions == 0 .. n - 1
    IN  IF t.sequence THEN IF k >= Key(0) /\ k <= Key(n - 1) THEN k - Key(0) ELSE n
        ELSE LowerBound(n, {i \in positions : Key(i) < k}, {i \in positions : Key(i) = k})

\* find of a value, by the index.
FindValue(t, v) ==
    LET n == Len(t.items)
        Value(i) == t.items[t.pos[i + 1] + 1].value
        positions == 0 .. n - 1
        found == LowerBound(n, {i \in positions : ValueLess(Value(i), v)}, {i \in positions : Value(i) = v})
    IN  IF found = n THEN n ELSE t.pos[found + 1]

\* get of a value for a key, and of a key for a value, with their defaults.
GetValue(t, k, default) ==
    LET found == FindKey(t, k) IN IF found = Len(t.items) THEN default ELSE t.items[found + 1].value

GetKey(t, v, default) ==
    LET found == FindValue(t, v) IN IF found = Len(t.items) THEN default ELSE t.items[found + 1].key
=============================================================================
