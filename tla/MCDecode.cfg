CONSTANTS
    MaxData = 2
    MaxUnits = 2
    MaxRead = 1
SPECIFICATION FairSpec
INVARIANTS TypeOK Aligned Utf8Carried Verdict Delivered TimedOutInSilence
PROPERTIES ImplementsMessages DiscardEnds SilenceEnds
