------------------------------ MODULE Ledgers ------------------------------
(***************************************************************************)
(* What the strategies may expect of the database they share: each has a   *)
(* ledger of its own, of variables, live orders and fills.  What it writes *)
(* while it handles an event is pending, becomes durable as a whole when   *)
(* the event is done, and is lost as a whole when the process dies.        *)
(* Storage implements it with the keys of one database.                    *)
(***************************************************************************)
EXTENDS Naturals

CONSTANTS
    Strategies,
    Names,          \* names of variables
    Orders,
    FillsOf,        \* the fills an order can have
    Versions        \* values of a variable; 0 is none

VARIABLES
    durable,        \* the ledger of each strategy
    pending         \* what each has written since its last commit

vars == <<durable, pending>>

Nothing == [vars   |-> [n \in Names |-> 0],
            orders |-> [o \in Orders |-> "kept"],
            fills  |-> {}]

Init ==
    /\ durable = [s \in Strategies |-> [vars |-> [n \in Names |-> 0], orders |-> {}, fills |-> {}]]
    /\ pending = [s \in Strategies |-> Nothing]

Set(p, q) == \E n \in Names, x \in Versions : q = [p EXCEPT !.vars[n] = x]

\* An event of an order with the fills it has: the order is live or done.
Report(p, q) ==
    \E o \in Orders, state \in {"live", "done"} :
        \E fills \in SUBSET FillsOf[o] : q = [p EXCEPT !.orders[o] = state, !.fills = @ \cup fills]

\* A step of one strategy, from p pending to q.
Step(s) ==
    /\ UNCHANGED durable
    /\ \A t \in Strategies \ {s} : UNCHANGED pending[t]
    /\ LET Does(p, q) == Set(p, q) \/ Report(p, q) \/ q = Nothing
       IN  Does(pending[s], pending'[s])

Commit(s) ==
    LET p == pending[s]
        d == durable[s]
    IN  /\ durable' = [durable EXCEPT ![s] =
              [vars   |-> [n \in Names |-> IF p.vars[n] = 0 THEN d.vars[n] ELSE p.vars[n]],
               orders |-> {o \in Orders : p.orders[o] = "live" \/ (p.orders[o] = "kept" /\ o \in d.orders)},
               fills  |-> d.fills \cup p.fills]]
        /\ pending' = [pending EXCEPT ![s] = Nothing]

Next == \E s \in Strategies : Step(s) \/ Commit(s)

Spec == Init /\ [][Next]_vars
=============================================================================
