CONSTANTS
    Capacity = 1
    Mask = FALSE
    MaxMessages = 1
    MaxPayload = 2
    MaxChunk = 2
    MaxControls = 0
SPECIFICATION Spec
INVARIANTS NoPanic
