\* Two blocks, two bids, one fault and one crash of the daemon, in any order.
SPECIFICATION BmmFairSpec
CONSTANTS
    MaxHeight = 2
    MaxBids = 2
    Attempts = 2
    Horizon = 0
    MaxFaults = 1
    MaxCrashes = 1
    MayOverlap = FALSE
INVARIANTS
    BmmTypeOK
    PaidBlockNotLost
PROPERTIES
    NoSecondBid
    JudgedOnce
    PaidBlockJudged
