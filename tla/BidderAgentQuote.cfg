SPECIFICATION Spec
CONSTANTS
    b1 = b1
    b2 = b2
    Bidder = {b1}
    Offer <- Offers
    NoBid = NoBid
    NoOne = NoOne
    HighestBid = TRUE
    CommitDeadline = 1
    RevealTime = 3
    RevealDeadline = 4
    VoidGrace = 0
    MaxSkew = 1
    MaxTime = 5
    Mandate <- OneSession
    Asked = 2
    Suggestions = {0, 1, 3}
    MaxPaid = 1
INVARIANT RefusesHigherPrice
