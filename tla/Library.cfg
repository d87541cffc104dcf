SPECIFICATION Inputs
CONSTANTS
    Genesis = 5
    Period = 3
    CloseBefore = 10
    RevealWindow = 7
    Base = 4
    ValueBytes = 2
    NonceBytes = 1
    FieldBytes = 2
    Throws = Throws
    None = None
    Absent = Absent
    Bad = Bad
    Nonces <- NonceSet
    Coordinates = {0, 1, 7, 15}
    Prices <- PriceSet
    Categories = {"bounty", "rfp", "collectible", "other"}
    Levels <- LevelSet
    Moments <- MomentSet
    Ballots = {0, 2500000, 2500001, 7500000}
INVARIANTS EncodingsExact SealOpensToItsBid BeaconTimesAgree SuggestionBounded AnnouncedOutcomeLeads
