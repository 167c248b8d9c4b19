------------------------- MODULE MCStrategyContext -------------------------
(* Instances of StrategyContext for TLC: see the .cfg files.               *)
EXTENDS StrategyContext, TLC

SymCoros == Permutations(Coros)
SymOrders == Permutations(Orders)
=============================================================================
