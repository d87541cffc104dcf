SPECIFICATION Spec
CONSTANTS
    w1 = w1
    w2 = w2
    s1 = s1
    s2 = s2
    e1 = e1
    e2 = e2
    Case = {"dao", "grants"}
    Wallet = {w1, w2}
    NoOne = NoOne
    Peer = {w2}
    Entry = {e1}
    Junk = Junk
    NoEntry = NoEntry
    MaxRound = 2
    Slot = {s1, s2}
    MaxClicks = 3
CHECK_DEADLOCK FALSE
SYMMETRY Slots
INVARIANTS RoundsOfTheirCase LiveWasTrue ToastsHold
