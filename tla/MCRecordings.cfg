SPECIFICATION RecSpec
CONSTANTS
    a = a
    b = b
    h1 = h1
    h2 = h2
    h3 = h3
    Id = {a, b}
    Handle = {h1, h2, h3}
    Sid <- MCSid
    NoHandle = NoHandle
    MaxSessions = 0
    Rec = {r1, r2, r3}
    NoRec = NoRec
    Header = 1
    MaxSize = 3
SYMMETRY MCSymmetry
INVARIANTS RecordingEndsWithSession RecordingsAgree
CHECK_DEADLOCK FALSE
