SPECIFICATION FairSpec
CONSTANTS
    MaxRound = 2
    From = 1
    MaxProbe = 3
    Specs <- TwoSpecs
    Bad = {1}
    MaxFaults = 1
INVARIANTS FairTurns
PROPERTIES EachRoundEnds StopsOnSignal
CHECK_DEADLOCK FALSE
