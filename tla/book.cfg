\* All books over four prices and two amounts; the program ends at an undefined read.
SPECIFICATION Spec
CONSTANTS
    Prices <- MCPrices
    Amounts <- MCAmounts
    PriceDecimals = 0
    Decimals = 2
    Infos <- MCInfos
    Quantities <- MCQuantities
INVARIANTS TypeOK TickerOnTop TickerRoundTrip TrimKeepsTail QuotesOutsideSpread AsksCoverFees QuantityAllowed PnlToPriceDecimals
CHECK_DEADLOCK FALSE
