SPECIFICATION FairSpec
CONSTANTS
    Chunk <- MCChunk
    SharedRepo = TRUE
    MaxHistory = 2
    MaxCommands = 3
    MaxScans = 2
    MaxStarts = 2
    MaxCounters = 2
    NoCommand = NoCommand
    NoTracker = NoTracker
    NoFile = NoFile
    Torn = Torn
INVARIANTS HistoryIsLatest RowsAdvance  ClosedIsFlushed
PROPERTIES FinishedIsPersisted
CHECK_DEADLOCK FALSE
