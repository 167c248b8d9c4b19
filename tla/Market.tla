------------------------------- MODULE Market -------------------------------
(***************************************************************************)
(* MarketType of interface/basic_types.h: profits, prices and volumes in a *)
(* normal market and in an inversed one, whose prices count the currency   *)
(* the profit is not in.  What is made of a FastDecimal is one, until it   *)
(* is returned as a double and so rounded to its decimals.                 *)
(***************************************************************************)
EXTENDS FastDecimal

\* A faulty variant: the profit of an inversed market has the sign of a normal one's prices.
CalculatePnlTurned(type, open, close, quantity) ==
    LET gain == IF type = "normal" THEN Minus(close, open) ELSE Minus(Reciprocal(close), Reciprocal(open))
    IN  get_rounded(Times(gain, quantity, One))

\* calculate_pnl; the quantity is a double.
CalculatePnl(type, open, close, quantity) ==
    LET gain == IF type = "normal" THEN Minus(close, open) ELSE Minus(Reciprocal(open), Reciprocal(close))
    IN  get_rounded(Times(gain, quantity, One))

ToNormalPrice(type, price) == get_rounded(IF type = "normal" THEN price ELSE Reciprocal(price))

ToNormalQuantity(type, quantity) == IF type = "normal" THEN quantity ELSE Negative(quantity)

\* These two are of doubles.
CalcVolume(type, price, quantity) ==
    IF type = "normal" THEN [value |-> price * quantity, over |-> One] ELSE [value |-> quantity, over |-> 1]

QuantityFromVolume(type, price, volume) ==
    IF type = "normal" THEN [value |-> volume * One, over |-> price] ELSE [value |-> volume, over |-> 1]
=============================================================================
