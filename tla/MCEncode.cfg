CONSTANTS
    Capacity = 2
    Mask = FALSE
    MaxMessages = 2
    MaxPayload = 4
    MaxChunk = 3
    MaxControls = 2
SPECIFICATION FairSpec
INVARIANTS TypeOK Conserved FlushedPayload
PROPERTIES OnlyDropsPanic FramesIntact ImplementsStream ControlLeaves CloseCompletes EndReported
