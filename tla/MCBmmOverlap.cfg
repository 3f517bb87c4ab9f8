\* A Stop and a Start within one settleRound: the tick forgets its round.
SPECIFICATION BmmSpec
CONSTANTS
    MaxHeight = 1
    MaxBids = 2
    Attempts = 2
    Horizon = 0
    MaxFaults = 0
    MaxCrashes = 0
    MayOverlap = TRUE
INVARIANT PaidBlockNotLost
