SPECIFICATION ScriptFairSpec
CONSTANTS
    b1 = b1
    b2 = b2
    b3 = b3
    me = me
    Bidder = {b1, b2, b3}
    Own1 = b1
    Rival = {b3}
    Own2 = b2
    Keeper = {me}
    Offer <- Offers
    Low <- LowBid
    High <- HighBid
    NoBid = NoBid
    NoOne = NoOne
    HighestBid = TRUE
    CommitDeadline = 0
    RevealTime = 3
    DueTime = 4
    RevealDeadline = 4
    VoidGrace = 1
    MaxSkew = 2
    MaxTime = 6
    Margin = 1
    MicroMax = 2
    MaxPasses = 1
    MaxMeddling = 1
    ErrorShapes = {"named", "coded"}
    MaxFaults = 1
INVARIANTS ReportTrue FailsOnlyForCause
PROPERTIES Ends
CHECK_DEADLOCK FALSE
