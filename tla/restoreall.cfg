\* Two live orders of one instrument: does restore_open_orders come to both of them?
SPECIFICATION FairSpec
CONSTANTS
    Strategies <- MCOneStrategy
    Prefix <- MCPrefix
    Names = {}
    Orders <- MCOrdersOfOne
    FillsOf <- MCNoFills
    Times <- MCTimes
    Instruments = {1}
    Base = 2
    Width = 3
    Micro = 2
    MaxTime = 7
    MaxVersion = 1
    MaxKeys = 2
    MaxGenerators = 1
PROPERTY RestoresAll
CHECK_DEADLOCK FALSE
