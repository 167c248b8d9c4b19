----------------------------- MODULE OrderBook -----------------------------
(***************************************************************************)
(* OrderBook of interface/orderbook.h: two sorted maps from prices to      *)
(* amounts with opposite orders, written from updates and from tickers     *)
(* (TickData) and read into tickers.  The sides are the maps that          *)
(* WanderingTree implements, with the bounds its iterators give.           *)
(*                                                                         *)
(* A price is a FastDecimal whose number has no more digits than its count *)
(* of decimals, so CmpBid and CmpAsk, the sign of the rounded difference,  *)
(* are > and <; a price between two of these would compare equal to both,  *)
(* and the maps had no order.  0 is the price of a ticker that has none.   *)
(* The timestamp of the book only passes through.                          *)
(***************************************************************************)
EXTENDS FastDecimal, FiniteSets

CONSTANTS
    Prices,        \* prices of updates, limits and tickers, in units
    PriceDecimals, \* their count of decimals
    Amounts        \* amounts of updates and tickers; 0 removes a level

ASSUME PricesAssumption  ==
    /\ Prices \subseteq Nat /\ IsFiniteSet(Prices) /\ PriceDecimals \in 0 .. Decimals
    /\ \A p \in Prices : get_rounded(Dec(p, PriceDecimals)) = p
ASSUME DifferencesExact  ==
    \A a, b \in Prices : get_rounded(Minus(Dec(a, PriceDecimals), Dec(b, PriceDecimals))) = a - b
ASSUME AmountsAssumption == Amounts \subseteq Nat

VARIABLES
    bid, ask,      \* _bid_side, _ask_side
    undefined      \* begin() of an empty side has been dereferenced

vars == <<bid, ask, undefined>>

CmpBid(a, b) == a > b
CmpAsk(a, b) == a < b

Bids == INSTANCE SortedMap WITH Less <- CmpBid
Asks == INSTANCE SortedMap WITH Less <- CmpAsk

\* What a side may hold: levels with positive amounts.
Sides == UNION {[levels -> Amounts \ {0}] : levels \in SUBSET Prices}

Tickers == [bid : Prices, ask : Prices, bid_volume : Amounts, ask_volume : Amounts]

Init ==
    /\ bid = Bids!Empty
    /\ ask = Asks!Empty
    /\ undefined = FALSE

\* A faulty variant: an amount of zero is stored as a level.
UpdateKeepsZero(side, price, amount) == Bids!With(side, price, amount)

\* update_bid and update_ask on their side.
Update(side, price, amount) ==
    IF amount = 0 THEN Bids!Without(side, price) ELSE Bids!With(side, price, amount)

\* begin() of a side that is not empty.
BestBid(bids) == CHOOSE p \in Bids!First(bids) : TRUE
BestAsk(asks) == CHOOSE p \in Asks!First(asks) : TRUE

-----------------------------------------------------------------------------
(***************************************************************************)
(* The loops.  remove_ask_to and remove_bid_to look at the first level     *)
(* until it is not better than the price.  When none is left they read     *)
(* _levels[_level_count - 1] with a count of zero, 32 GB beyond the array, *)
(* and the program ends.                                                   *)
(***************************************************************************)

Done(side) == [side |-> side, undefined |-> FALSE]
Undefined(side) == [side |-> side, undefined |-> TRUE]

RemoveAskTo(side, price) ==
    LET removed[s \in Sides] ==
            IF s = Asks!Empty THEN Undefined(s)
            ELSE IF BestAsk(s) < price THEN removed[Asks!Without(s, BestAsk(s))] ELSE Done(s)
    IN  removed[side]

RemoveBidTo(side, price) ==
    LET removed[s \in Sides] ==
            IF s = Bids!Empty THEN Undefined(s)
            ELSE IF BestBid(s) > price THEN removed[Bids!Without(s, BestBid(s))] ELSE Done(s)
    IN  removed[side]

(***************************************************************************)
(* trim erases what upper_bound returns until it returns the end.  The     *)
(* tree's shape decides what upper_bound returns for a price that is not a *)
(* level, so a loop may have more than one result.                         *)
(***************************************************************************)
\* A faulty variant: erases once.
TrimmedBidsOnce(side, lowest) ==
    UNION {IF found = {} THEN {side} ELSE {Bids!Without(side, p) : p \in found} :
               found \in Bids!UpperBounds(side, lowest)}

TrimmedBids(side, lowest) ==
    LET trimmed[s \in Sides] ==
            UNION {IF found = {} THEN {s} ELSE UNION {trimmed[Bids!Without(s, p)] : p \in found} :
                       found \in Bids!UpperBounds(s, lowest)}
    IN  trimmed[side]

TrimmedAsks(side, highest) ==
    LET trimmed[s \in Sides] ==
            UNION {IF found = {} THEN {s} ELSE UNION {trimmed[Asks!Without(s, p)] : p \in found} :
                       found \in Asks!UpperBounds(s, highest)}
    IN  trimmed[side]

-----------------------------------------------------------------------------
(* The calls.  None returns once the program has read past the end of a side. *)

UpdateBid(price, amount) ==
    /\ ~undefined
    /\ bid' = Update(bid, price, amount)
    /\ UNCHANGED <<ask, undefined>>

UpdateAsk(price, amount) ==
    /\ ~undefined
    /\ ask' = Update(ask, price, amount)
    /\ UNCHANGED <<bid, undefined>>

RemoveAsk(price) ==
    LET asks == RemoveAskTo(ask, price)
    IN  /\ ~undefined
        /\ ask' = asks.side
        /\ undefined' = asks.undefined
        /\ UNCHANGED bid

RemoveBid(price) ==
    LET bids == RemoveBidTo(bid, price)
    IN  /\ ~undefined
        /\ bid' = bids.side
        /\ undefined' = bids.undefined
        /\ UNCHANGED ask

Trim(lowest, highest) ==
    /\ ~undefined
    /\ bid' \in TrimmedBids(bid, lowest)
    /\ ask' \in TrimmedAsks(ask, highest)
    /\ UNCHANGED undefined

\* A faulty variant: the volume of the bid is looked up among the asks.
TickerOfAsks(bids, asks, tk) ==
    [bid        |-> IF bids = Bids!Empty THEN tk.bid ELSE BestBid(bids),
     bid_volume |-> IF asks = Asks!Empty THEN tk.bid_volume ELSE asks[BestAsk(asks)],
     ask        |-> IF asks = Asks!Empty THEN tk.ask ELSE BestAsk(asks),
     ask_volume |-> IF asks = Asks!Empty THEN tk.ask_volume ELSE asks[BestAsk(asks)]]

\* update_ticker, what it makes of the caller's ticker: a side with no level leaves its part as it was.
TickerOf(bids, asks, tk) ==
    [bid        |-> IF bids = Bids!Empty THEN tk.bid ELSE BestBid(bids),
     bid_volume |-> IF bids = Bids!Empty THEN tk.bid_volume ELSE bids[BestBid(bids)],
     ask        |-> IF asks = Asks!Empty THEN tk.ask ELSE BestAsk(asks),
     ask_volume |-> IF asks = Asks!Empty THEN tk.ask_volume ELSE asks[BestAsk(asks)]]

\* A faulty variant: the bids better than the ticker's stay.
FromTickerKeepsBids(tk) ==
    LET asks == RemoveAskTo(ask, tk.ask)
    IN  [undefined |-> asks.undefined,
         bid |-> Update(bid, tk.bid, tk.bid_volume),
         ask |-> IF asks.undefined THEN asks.side ELSE Update(asks.side, tk.ask, tk.ask_volume)]

\* What update_from_ticker leaves: after the first undefined read nothing is done.
FromTicker(tk) ==
    LET asks == RemoveAskTo(ask, tk.ask)
        bids == IF asks.undefined THEN Undefined(bid) ELSE RemoveBidTo(bid, tk.bid)
    IN  [undefined |-> bids.undefined,
         bid |-> IF bids.undefined THEN bids.side ELSE Update(bids.side, tk.bid, tk.bid_volume),
         ask |-> IF bids.undefined THEN asks.side ELSE Update(asks.side, tk.ask, tk.ask_volume)]

UpdateFromTicker(tk) ==
    LET book == FromTicker(tk)
    IN  /\ ~undefined
        /\ bid' = book.bid
        /\ ask' = book.ask
        /\ undefined' = book.undefined

Next ==
    \/ \E price \in Prices, amount \in Amounts : UpdateBid(price, amount) \/ UpdateAsk(price, amount)
    \/ \E price \in Prices : RemoveAsk(price) \/ RemoveBid(price)
    \/ \E lowest, highest \in Prices : Trim(lowest, highest)
    \/ \E tk \in Tickers : UpdateFromTicker(tk)

Spec == Init /\ [][Next]_vars

\* A book of which only tickers are known.
TickersOnly == Init /\ [][\E tk \in Tickers : UpdateFromTicker(tk)]_vars

-----------------------------------------------------------------------------
(* Properties. *)

\* Prices have positive amounts.
TypeOK == bid \in Sides /\ ask \in Sides /\ undefined \in BOOLEAN

(***************************************************************************)
(* update_from_ticker, where it returns: the ticker is on top of the book, *)
(* no level better than it is left, every level behind it stays with its   *)
(* amount, and a ticker that is not crossed leaves no crossed book,        *)
(* whatever the book was.                                                  *)
(***************************************************************************)
TickerOnTop ==
    \A tk \in Tickers :
        LET book == FromTicker(tk)
        IN  ~undefined /\ ~book.undefined =>
            /\ 0 \notin {tk.bid_volume, tk.ask_volume} => TickerOf(book.bid, book.ask, tk) = tk
            /\ \A p \in Prices :
                  /\ p < tk.bid => (p \in DOMAIN book.bid <=> p \in DOMAIN bid)
                  /\ p > tk.ask => (p \in DOMAIN book.ask <=> p \in DOMAIN ask)
            /\ \A p \in DOMAIN book.bid \ {tk.bid} : p < tk.bid /\ book.bid[p] = bid[p]
            /\ \A p \in DOMAIN book.ask \ {tk.ask} : p > tk.ask /\ book.ask[p] = ask[p]
            /\ tk.bid < tk.ask => \A b \in DOMAIN book.bid, a \in DOMAIN book.ask : b < a

\* A book that has both sides is not changed by the ticker read from it.
TickerRoundTrip ==
    \A tk \in Tickers :
        Bids!Empty \notin {bid, ask} =>
            FromTicker(TickerOf(bid, ask, tk)) = [undefined |-> FALSE, bid |-> bid, ask |-> ask]

(***************************************************************************)
(* The book that is fed by tickers alone has, after each of them, that     *)
(* ticker on top.                                                          *)
(***************************************************************************)
TickerSimulatesBook ==
    [][\A tk \in Tickers :
           UpdateFromTicker(tk) /\ 0 \notin {tk.bid_volume, tk.ask_volume} =>
               ~undefined' /\ TickerOf(bid', ask', tk) = tk]_vars

(***************************************************************************)
(* What trim does, whatever the shape of the trees: a limit that is a      *)
(* level keeps it and the levels behind it, and erases those in front,     *)
(* where the names of the limits (lowest_price of the bids, highest_price  *)
(* of the asks) suggest the reverse; any other limit empties the side.     *)
(***************************************************************************)
TrimKeepsTail ==
    \A limit \in Prices :
        /\ TrimmedBids(bid, limit) =
               {[p \in {q \in DOMAIN bid : limit \in DOMAIN bid /\ q <= limit} |-> bid[p]]}
        /\ TrimmedAsks(ask, limit) =
               {[p \in {q \in DOMAIN ask : limit \in DOMAIN ask /\ q >= limit} |-> ask[p]]}
=============================================================================
