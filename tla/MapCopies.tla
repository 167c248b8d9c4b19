----------------------------- MODULE MapCopies -----------------------------
(***************************************************************************)
(* What the copies of a WanderingTree promise: each is a sorted map of its *)
(* own, a copy starts equal to its original, and what is done to one is    *)
(* never seen in another.  changed is what the last call returned.         *)
(***************************************************************************)
CONSTANTS Keys, Items, Copies, Less(_, _)

VARIABLES maps, changed

vars == <<maps, changed>>

INSTANCE SortedMap

Init ==
    /\ maps = [c \in Copies |-> Empty]
    /\ changed = FALSE

\* Each operation says what becomes of the copy it is called for.
Insert(map, key, value, new) ==
    /\ changed' = (key \notin DOMAIN map)
    /\ new = IF key \in DOMAIN map THEN map ELSE With(map, key, value)

Replace(map, key, value, new) ==
    /\ changed' = TRUE
    /\ new = With(map, key, value)

Erase(map, key, new) ==
    /\ changed' = (key \in DOMAIN map)
    /\ new = Without(map, key)

CopyFrom(original, new) ==
    /\ UNCHANGED changed
    /\ new = original

Operation(c, map, new) ==
    \/ \E item \in Items :
           \/ Insert(map, item[1], item[2], new)
           \/ Replace(map, item[1], item[2], new)
    \/ \E key \in Keys : Erase(map, key, new)
    \/ \E from \in Copies \ {c} : CopyFrom(maps[from], new)

Next ==
    \E c \in Copies : \E map \in {maps[c]}, new \in {maps'[c]} :
        /\ maps' = [maps EXCEPT ![c] = new]
        /\ Operation(c, map, new)

Spec == Init /\ [][Next]_vars
=============================================================================
