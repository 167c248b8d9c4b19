\* Two copies of a tree over five keys, one of which is stored with either of two values.
SPECIFICATION Spec
CONSTANTS
    Keys <- MCKeys
    Values <- MCValues
    Items <- MCItems
    Copies <- MCCopies
    Less <- MCLess
INVARIANTS TypeOK Balanced FinkeyAlive IteratorsFollowMap
PROPERTY RefinesMapCopies
