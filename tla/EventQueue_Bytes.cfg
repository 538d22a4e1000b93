SPECIFICATION FairSpec
CONSTANTS
    Mode = "Bytes"
    Capacity = 3
    MaxChunks = 3
    MaxData = 7
INVARIANTS TypeOK BytesInOrder NoSilentLoss ExitIsLast
PROPERTIES DataDelivered CloseEndsWriter
\* the chunks MaxData allows may all have been written
CHECK_DEADLOCK FALSE
