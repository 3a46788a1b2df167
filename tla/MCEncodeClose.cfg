CONSTANTS
    Capacity = 1
    Mask = FALSE
    MaxMessages = 0
    MaxPayload = 0
    MaxChunk = 1
    MaxControls = 1
SPECIFICATION Spec
INVARIANTS CloseFlushed
