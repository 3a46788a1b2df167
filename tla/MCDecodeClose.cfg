CONSTANTS
    MaxData = 1
    MaxUnits = 2
    MaxRead = 1
SPECIFICATION FairSpec
INVARIANTS NoPanic
