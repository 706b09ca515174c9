CONSTANTS
    HighWatermark = 3
    LowWatermark = 2
    Byte = {x, y}
    Array = {a1, a2, a3, a4, a5}
    NilSlice = NilSlice
    MaxWrite = 2
    MaxLen = 4
    Capacity = 4
SPECIFICATION BufSpec
SYMMETRY Interchangeable
INVARIANTS HeldIntact ContentsAreQueue
