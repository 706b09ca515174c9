CONSTANTS
    a = a
    h1 = h1
    h2 = h2
    w1 = w1
    w2 = w2
    NoHandle = NoHandle
    NoChunk = NoChunk
    MaxSessions = 0
    Id = {a}
    Handle = {h1, h2}
    Sid <- MCSid
    Waiter = {w1, w2}
    Asks <- MCAsks
    Limited = {w1}
SPECIFICATION WaitFairSpec
INVARIANTS RepliesAreTrue
PROPERTIES WaitersAreAnswered
CHECK_DEADLOCK FALSE
