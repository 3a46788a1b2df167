CONSTANTS
    Servers = {TRUE}
    Cancels = FALSE
    MaxMessages = 2
    MaxFills = 1
SPECIFICATION FairSpec
PROPERTIES EndedByItsWriter
CHECK_DEADLOCK FALSE
