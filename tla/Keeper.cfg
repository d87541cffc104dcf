SPECIFICATION TickSpec
CONSTANTS
    b1 = b1
    b2 = b2
    k1 = k1
    k2 = k2
    Bidder = {b1, b2}
    Keeper = {k1}
    Offer <- FiveOffers
    NoBid = NoBid
    NoOne = NoOne
    HighestBid = TRUE
    CommitDeadline = 0
    RevealTime = 2
    DueTime = 3
    RevealDeadline = 3
    VoidGrace = 1
    MaxSkew = 1
    MaxTime = 5
    ErrorShapes = {"named", "coded"}
    MaxFaults = 1
SYMMETRY Bidders
INVARIANTS TypeOK PassAccountsForAll BestSealWins SettlementExact
PROPERTIES SealedUntilR ImplementsFairEscrow TickMovesOn
