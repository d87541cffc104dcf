SPECIFICATION FairSpec
CONSTANTS
    w1 = w1
    w2 = w2
    t1 = t1
    t2 = t2
    e1 = e1
    e2 = e2
    Wallet = {w1, w2}
    RoundId = {1, 2}
    Entry = {e1, e2}
    NoOne = NoOne
    NoEntry = NoEntry
    Tab = {t1}
    Offered = {"pay", "create", "commit"}
    MaxTx = 1
    MaxPolls = 2
INVARIANT EvidenceHolds
PROPERTY SentSettles
