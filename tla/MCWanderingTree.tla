-------------------------- MODULE MCWanderingTree --------------------------
(* WanderingTree with integer keys in the order of the ask side. *)
EXTENDS WanderingTree

MCKeys   == 1 .. 5
MCValues == {"a", "b"}
MCItems  == MCKeys \X {"a"} \cup {<<3, "b">>}
MCCopies == {1, 2}
MCLess(a, b) == a < b
=============================================================================
