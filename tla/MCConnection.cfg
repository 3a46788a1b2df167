CONSTANTS
    Servers = {FALSE, TRUE}
    Cancels = TRUE
    MaxMessages = 3
    MaxFills = 1
SPECIFICATION FairSpec
INVARIANTS TypeOK SleepersWokenAlone ReaderHeld ReaderWoken
PROPERTIES ServedAlone CloseEndsAlone StreamEnds
CHECK_DEADLOCK FALSE
