SPECIFICATION Spec
CONSTANTS
    w1 = w1
    w2 = w2
    t1 = t1
    t2 = t2
    e1 = e1
    e2 = e2
    Wallet = {w1, w2}
    RoundId = {1}
    Entry = {e1}
    NoOne = NoOne
    NoEntry = NoEntry
    Tab = {t1, t2}
    Offered = {"create", "commit"}
    MaxTx = 2
    MaxPolls = 1
SYMMETRY Alike
INVARIANTS TypeOK OnceEach ShownWasTrue
