\* A book that is fed by tickers alone, from its first one on.
SPECIFICATION TickersOnly
CONSTANTS
    Prices <- MCPrices
    Amounts <- MCAmounts
    PriceDecimals = 0
    Decimals = 2
    Infos <- MCInfos
    Quantities <- MCQuantities
PROPERTIES TickerSimulatesBook
CHECK_DEADLOCK FALSE
