CONSTANTS
    Ends = {a, b}
    Period = 10
    MaxLatency = 1
    MaxFrame = 1
    MaxAway = 1
    MaxFrames = 2
SYMMETRY Alike
SPECIFICATION Spec
INVARIANTS TypeOK NoFalseTimeout DeadPeerFound
CHECK_DEADLOCK FALSE
