SPECIFICATION FairSpec
CONSTANTS
    Mode = "Frame"
    Capacity = 2
    MaxChunks = 2
    MaxData = 6
INVARIANTS NoLostWakeup NewestFrameKept
PROPERTIES NothingAfterClose StreamImplemented
\* the frames MaxData allows may all have been shown
CHECK_DEADLOCK FALSE
