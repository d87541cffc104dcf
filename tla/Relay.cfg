SPECIFICATION FairSpec
CONSTANTS
    Client = {c1, c2}
    Relayed = {c1}
    Offer = {o1, o2}
    NoBid = NoBid
    NoOne = NoOne
    MaxPolls = 1
    MaxCalls = 2
INVARIANTS AnswerIsTrue ErrorIsFinal LastWordCounts
PROPERTIES CallsEnd
