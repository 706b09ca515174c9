CONSTANTS
    HighWatermark = 2
    LowWatermark = 1
    ReadChunk = 2
    FlushThreshold = 2
    EmuCap = 1
    DataReadyCap = 1
    MaxOutput = 2
SPECIFICATION FairSpec
PROPERTY
    AllOutputDelivered
