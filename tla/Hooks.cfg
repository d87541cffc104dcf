SPECIFICATION Spec
CONSTANTS
    Peer = {p1, p2}
    Target = {1, 3}
    Genesis = 1
    Period = 2
    MaxSkew = 2
    MaxTime = 9
    Slot = {1, 2}
    MaxFaults = 1
    MaxEffects = 2
INVARIANTS SnapshotComplete PublishedIsOut
PROPERTY CatchesUp
