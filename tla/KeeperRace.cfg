SPECIFICATION FairSpec
CONSTANTS
    b1 = b1
    b2 = b2
    k1 = k1
    k2 = k2
    Bidder = {b1}
    Keeper = {k1, k2}
    Offer <- OneOffer
    NoBid = NoBid
    NoOne = NoOne
    HighestBid = FALSE
    CommitDeadline = 0
    RevealTime = 2
    DueTime = 3
    RevealDeadline = 3
    VoidGrace = 1
    MaxSkew = 1
    MaxTime = 5
    ErrorShapes = {"named", "coded"}
    MaxFaults = 1
INVARIANTS NoDoubleCredit
PROPERTIES EventuallyOver
