CONSTANTS
    a = a
    b = b
    h1 = h1
    h2 = h2
    h3 = h3
    c1 = c1
    c2 = c2
    NoHandle = NoHandle
    NoId = NoId
    MaxSessions = 0
    Id = {a, b}
    Handle = {h1, h2, h3}
    Sid <- MCSid
    Client = {c1, c2}
    Prefixed = {a, b}
    SizeOf <- MCSizeOf
    Configurable = TRUE
    Runs <- MCRuns
SPECIFICATION CliSpec
INVARIANTS SizesAgree  DisconnectedIsForgotten AttachedIsAlive
PROPERTIES CommandsEnd ImplementsAttachments
CHECK_DEADLOCK FALSE
