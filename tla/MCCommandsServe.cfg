SPECIFICATION FairSpec
CONSTANTS
    Chunk <- MCChunk
    SharedRepo = FALSE
    MaxHistory = 2
    MaxCommands = 3
    MaxScans = 2
    MaxStarts = 2
    MaxCounters = 3
    NoCommand = NoCommand
    NoTracker = NoTracker
    NoFile = NoFile
    Torn = Torn
PROPERTIES
    FinishedIsPersisted
CHECK_DEADLOCK FALSE
