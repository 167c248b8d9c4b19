--------------------------- MODULE InstrumentInfo ---------------------------
(***************************************************************************)
(* InstrumentInfo of interface/instrument_info.h: prices aligned to the    *)
(* tick, quantities to the step, and the least quantity at a price.        *)
(*                                                                         *)
(* info has the tick (a FastDecimal), step, min_size and min_volume in     *)
(* units, the fee and the price multiplier in hundredths, the quantity     *)
(* multiplier and the type of the market.  A tick or step of zero, which   *)
(* IInstrumentInfo::Null has, divides by zero.                             *)
(***************************************************************************)
EXTENDS Market

(***************************************************************************)
(* What std::floor, std::ceil and std::round make of a double divided by   *)
(* grain units, times grain again.  A quotient that is a whole number, or  *)
(* lies half way between two, may come out next to it: 1.12 / 0.01 is just *)
(* above 112.  Any other comes out between the same whole numbers.         *)
(***************************************************************************)
Floors(x, grain) ==
    LET g == x.over * grain
        n == x.value \div g
    IN  {m * grain : m \in {k \in n - 1 .. n : x.value <= (k + 1) * g}}

Ceils(x, grain) ==
    LET g == x.over * grain
        n == x.value \div g
    IN  {m * grain : m \in {k \in n .. n + 1 : x.value <= k * g}}

Nearests(x, grain) ==
    LET g == x.over * grain
        n == x.value \div g
    IN  {m * grain : m \in {k \in n .. n + 1 : 2 * (k * g - x.value) \in -g .. g}}

\* A faulty variant: the bid is aligned like the ask.
AlignedLikeAsk(x, grain, alignment, side) ==
    CASE alignment = "aggresive" -> Floors(x, grain)
      [] alignment = "defensive" -> Ceils(x, grain)
      [] OTHER -> Nearests(x, grain)

\* Defensive is up for the ask and down for the bid, aggresive the reverse.
Aligned(x, grain, alignment, side) ==
    CASE <<side, alignment>> \in {<<"ask", "aggresive">>, <<"bid", "defensive">>} -> Floors(x, grain)
      [] <<side, alignment>> \in {<<"ask", "defensive">>, <<"bid", "aggresive">>} -> Ceils(x, grain)
      [] OTHER -> Nearests(x, grain)

\* A faulty variant: the fee is taken off on both sides.
WithFeesOff(info, price, side) ==
    CASE side = "ask" -> Times(price, 100 - info.fee, 100)
      [] side = "bid" -> Minus(price, Times(Dec(One, 0), 100 + info.fee, 100))
      [] OTHER -> price

\* cover_fees: the ask is scaled by one plus the fee ratio, the bid is reduced by that much.
WithFees(info, price, side) ==
    CASE side = "ask" -> Times(price, 100 + info.fee, 100)
      [] side = "bid" -> Minus(price, Times(Dec(One, 0), 100 + info.fee, 100))
      [] OTHER -> price

\* align_price, of a whole count of units.
AlignPrice(info, price, alignment, side, cover_fees) ==
    LET given == Dec(price, 0)
    IN  {Dec(p, info.tick.decimals) :
             p \in Aligned(IF cover_fees THEN WithFees(info, given, side) ELSE given,
                           get_rounded(info.tick), alignment, side)}

\* align_quantity: aggresive is more.
AlignQuantity(info, quantity, alignment) ==
    CASE alignment = "aggresive" -> Ceils(quantity, info.step)
      [] alignment = "defensive" -> Floors(quantity, info.step)
      [] OTHER -> Nearests(quantity, info.step)

\* What calc_quantity_from_volume gets for a price: its product is rounded to its decimals.
MultipliedPrice(info, price) == get_rounded(Times(price, info.price_multiplier, 100))

\* The quantity that has the least volume; for a multiplied price of zero the code's is infinite.
QuantityOfLeastVolume(info, price) ==
    LET quantity == QuantityFromVolume(info.type, MultipliedPrice(info, price), info.min_volume)
    IN  [quantity EXCEPT !.over = @ * info.quantity_multiplier]

Larger(a, b) == IF a > b THEN a ELSE b

\* A faulty variant: the quantity is aligned defensively.
GetLessQuantityAtPrice(info, price) ==
    {Larger(Larger(q, info.min_size), get_rounded(info.tick)) :
         q \in AlignQuantity(info, QuantityOfLeastVolume(info, price), "defensive")}

\* The volume at least, the quantity at least, and at least the tick size, although that is a price.
GetMinQuantityAtPrice(info, price) ==
    {Larger(Larger(q, info.min_size), get_rounded(info.tick)) :
         q \in AlignQuantity(info, QuantityOfLeastVolume(info, price), "aggresive")}
=============================================================================
