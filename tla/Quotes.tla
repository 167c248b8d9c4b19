------------------------------- MODULE Quotes -------------------------------
(***************************************************************************)
(* What a strategy makes of an order book: the quotes of                   *)
(* examples/strategy.cpp around the ticker, prices that cover the fees and *)
(* the least quantities.                                                   *)
(***************************************************************************)
EXTENDS OrderBook, InstrumentInfo

CONSTANTS
    Infos,         \* instruments whose book this may be
    Quantities     \* quantities of positions

\* Ticks, steps, fees and multipliers are not negative, and no division is by zero.
ASSUME InfoTypes ==
    /\ Quantities \subseteq Int
    /\ \A info \in Infos :
          /\ info.tick = Dec(info.tick.value, info.tick.decimals) /\ info.tick.value \in Nat \ {0}
          /\ info.tick.decimals \in 0 .. Decimals
          /\ info.step \in Nat \ {0} /\ info.min_size \in Nat /\ info.min_volume \in Nat
          /\ info.fee \in Nat /\ info.price_multiplier \in Nat /\ info.quantity_multiplier \in Nat \ {0}
          /\ info.type \in {"normal", "inversed"}

\* Those whose ticks divide the prices of the book.
ASSUME TicksDividePrices ==
    \A info \in Infos : /\ get_rounded(info.tick) = info.tick.value
                        /\ \A p \in Prices : p % info.tick.value = 0

\* A price off the ticker by one percent, rounded where it is passed as a double.
Wanted(tk, side, decimals) ==
    Nearests(IF side = "ask" THEN Times(Dec(tk.ask, decimals), 101, 100) ELSE Times(Dec(tk.bid, decimals), 100, 101),
             10 ^ (Decimals - decimals))

\* top_price and bottom_price, from the price wanted.
Quote(info, wanted, side) == {get_rounded(p) : p \in AlignPrice(info, wanted, "defensive", side, FALSE)}

Ticker == TickerOf(bid, ask, [bid |-> 0, ask |-> 0, bid_volume |-> 0, ask_volume |-> 0])

(***************************************************************************)
(* The quotes of the example never meet the book they are made from: they  *)
(* are ticks, not better than the ticker and off the price wanted, to the  *)
(* side that is less likely to fill, by a tick at most, although that      *)
(* price is rounded to decimals and both divisions are of doubles.         *)
(***************************************************************************)
QuotesOutsideSpread ==
    \A info \in Infos, side \in {"bid", "ask"} :
        \A wanted \in Wanted(Ticker, side, info.tick.decimals) : \A quote \in Quote(info, wanted, side) :
            /\ quote % info.tick.value = 0
            /\ IF side = "ask" THEN quote >= Ticker.ask /\ quote - wanted \in 0 .. info.tick.value
                               ELSE quote <= Ticker.bid /\ wanted - quote \in 0 .. info.tick.value

(***************************************************************************)
(* An ask aligned with cover_fees is dearer than the level it is made from *)
(* by the fee of that level, whatever the alignment does: the scaling is   *)
(* not undone by the rounding that follows.                                *)
(***************************************************************************)
AsksCoverFees ==
    \A info \in Infos, a \in DOMAIN ask : \A p \in AlignPrice(info, a, "defensive", "ask", TRUE) :
        100 * p.value >= a * (100 + info.fee)

(***************************************************************************)
(* The quantity computed for the price of a level is allowed: it is not    *)
(* below the least size, nor, at a price whose multiple is not rounded,    *)
(* below the least volume.                                                 *)
(***************************************************************************)
QuantityAllowed ==
    \A info \in Infos, p \in (DOMAIN bid \cup DOMAIN ask) \ {0} :
        LET price     == Dec(p, info.tick.decimals)
            paid      == MultipliedPrice(info, price)
            Volume(x) == CalcVolume(info.type, paid, x * info.quantity_multiplier)
        IN  paid > 0 => \A q \in GetMinQuantityAtPrice(info, price) :
                            /\ q >= info.min_size
                            /\ 100 * paid = p * info.price_multiplier =>
                                   Volume(q).value >= info.min_volume * Volume(q).over

(***************************************************************************)
(* A profit between two levels is returned to the decimals of the prices,  *)
(* though it is of another magnitude (and in an inversed market of another *)
(* currency): off by up to half their last decimal, and zero below that.   *)
(* A loss is the profit of the reverse.  The profit in normal prices and   *)
(* quantities is the same if the reciprocals have no more decimals.        *)
(***************************************************************************)
PnlToPriceDecimals ==
    \A info \in Infos, open, close \in (DOMAIN bid \cup DOMAIN ask) \ {0}, quantity \in Quantities :
        LET Price(p) == Dec(p, info.tick.decimals)
            Normal(p) == Dec(ToNormalPrice(info.type, Price(p)), info.tick.decimals)
            grain == 10 ^ (Decimals - info.tick.decimals)
            pnl   == CalculatePnl(info.type, Price(open), Price(close), quantity)
            exact == [value |-> (close - open) * quantity * (IF info.type = "normal" THEN 1 ELSE One),
                      over  |-> IF info.type = "normal" THEN One ELSE open * close]
            off   == pnl * exact.over - exact.value
        IN  /\ pnl % grain = 0
            /\ 2 * off <= grain * exact.over /\ -2 * off <= grain * exact.over
            /\ 2 * exact.value \in 1 - grain * exact.over .. grain * exact.over - 1 => pnl = 0
            /\ pnl = -CalculatePnl(info.type, Price(open), Price(close), -quantity)
            /\ (\A p \in {open, close} : Normal(p).value * p = (IF info.type = "normal" THEN p * p ELSE One * One)) =>
                   pnl = CalculatePnl("normal", Normal(open), Normal(close),
                                      ToNormalQuantity(info.type, Dec(quantity, 0)).value)
=============================================================================
