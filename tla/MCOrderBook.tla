---------------------------- MODULE MCOrderBook ----------------------------
(* OrderBook with three levels to a side and the price zero of an empty ticker, and quotes from it. *)
EXTENDS Quotes, TLC

\* In hundredths: no price, 1, 2 and 4.
MCPrices  == {0, 100, 200, 400}
MCAmounts == 0 .. 2
MCQuantities == {-30, 2, 30}

\* The multiplied prices of the second are rounded; its price 1 counts as a half and is taken for 1.
Info(tick, type) == [tick |-> tick, type |-> type]
MCInfos ==
    {[step |-> 20, min_size |-> 50, min_volume |-> 150, fee |-> 2, price_multiplier |-> 100, quantity_multiplier |-> 1]
        @@ Info(Dec(25, 2), "normal"),
     [step |-> 30, min_size |-> 10, min_volume |-> 70, fee |-> 1, price_multiplier |-> 50, quantity_multiplier |-> 3]
        @@ Info(Dec(100, 0), "normal"),
     [step |-> 7, min_size |-> 0, min_volume |-> 90, fee |-> 60, price_multiplier |-> 100, quantity_multiplier |-> 1]
        @@ Info(Dec(20, 1), "inversed")}
=============================================================================
