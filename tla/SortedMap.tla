----------------------------- MODULE SortedMap -----------------------------
(***************************************************************************)
(* Sorted maps, the values that WanderingTree (interface/wandering_bst.h)  *)
(* stands for: a map is a function from a finite set of keys, and Less is  *)
(* its comparator, a strict total order.  Bounds are sets of at most one   *)
(* key: the empty set is the end of the map.                               *)
(***************************************************************************)
CONSTANT Less(_, _)

Empty == <<>>

\* insert and replace leave this map when they store the value.
With(map, key, value) == [k \in DOMAIN map \cup {key} |-> IF k = key THEN value ELSE map[k]]

\* erase
Without(map, key) == [k \in DOMAIN map \ {key} |-> map[k]]

Before(map, key) == {k \in DOMAIN map : Less(k, key)}
After(map, key)  == {k \in DOMAIN map : Less(key, k)}

Least(keys)    == {k \in keys : \A other \in keys : ~Less(other, k)}
Greatest(keys) == {k \in keys : \A other \in keys : ~Less(k, other)}

\* begin
First(map) == Least(DOMAIN map)

Find(map, key) == DOMAIN map \cap {key}

LowerBound(map, key) == Least(DOMAIN map \ Before(map, key))

(***************************************************************************)
(* What upper_bound may return.  From a key of the map it goes to the left *)
(* and not to the right; from any other key it stays on the last node of   *)
(* the search, which is a neighbour on one side or the other.  The results *)
(* are sets of at most one key, as above.                                  *)
(***************************************************************************)
UpperBounds(map, key) ==
    LET below == Greatest(Before(map, key))
        above == Least(After(map, key))
    IN  IF key \in DOMAIN map THEN {below}
        ELSE IF DOMAIN map = {} THEN {{}}
        ELSE {below, above} \ {{}}
=============================================================================
