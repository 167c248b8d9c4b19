----------------------------- MODULE MCStorage -----------------------------
(* Storage with two strategies, bytes below 2 in numbers of three bytes, and two units to a microsecond. *)
EXTENDS Storage

A == <<97>>
B == <<98>>

MCPrefix == [x |-> <<70>>, y |-> <<71>>]
MCStrategies == DOMAIN MCPrefix
MCOneStrategy == {"x"}
MCNames == {A, <<64, 97>>}    \* the second begins with the mark of orders
MCOrders == {[id |-> A, instr |-> 1], [id |-> B, instr |-> 2]}
MCOrdersOfOne == {[id |-> A, instr |-> 1], [id |-> B, instr |-> 1]}
MCFillsOf == [o \in MCOrders |->
    IF o.id = A THEN {[id |-> A, time |-> 5], [id |-> B, time |-> 4]} ELSE {[id |-> A, time |-> 2]}]
MCNoFills == [o \in MCOrdersOfOne |-> {}]
MCTimes == {-3, -1, 0, 3, 4}
=============================================================================
