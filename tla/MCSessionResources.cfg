SPECIFICATION ResSpec
CONSTANTS
    a = a
    h1 = h1
    h2 = h2
    Id = {a}
    Handle = {h1, h2}
    Sid <- MCSid
    NoHandle = NoHandle
    MaxSessions = 0
    Faulty = {h1}
    NoMeta = NoMeta
    Torn = Torn
INVARIANTS  ExitedIsReleased 
