CONSTANTS
    HighWatermark = 1
    LowWatermark = 1
    ReadChunk = 2
    FlushThreshold = 2
    EmuCap = 2
    DataReadyCap = 1
    MaxOutput = 3
SPECIFICATION FairSpec
INVARIANTS OneLateRead ScreenInOrder
PROPERTIES  WatchedOutputDrains ReadLoopEnds
