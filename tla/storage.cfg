\* Two strategies in one database: their variables, orders and fills, and a crash of either at any step.
SPECIFICATION Spec
CONSTANTS
    Strategies <- MCStrategies
    Prefix <- MCPrefix
    Names <- MCNames
    Orders <- MCOrders
    FillsOf <- MCFillsOf
    Times <- MCTimes
    Instruments = {1}
    Base = 2
    Width = 3
    Micro = 2
    MaxTime = 7
    MaxVersion = 1
    MaxKeys = 3
    MaxGenerators = 1
INVARIANTS TypeOK FillsInTimeOrder RangeStaysOwn
PROPERTIES RefinesLedgers ReadsNeverGoBack StrangersAreRare
CHECK_DEADLOCK FALSE
