CONSTANTS
    c1 = c1
    c2 = c2
    p1 = p1
    Client = {c1, c2}
    NoClient = NoClient
    BadToken = {}
    Mode = "children"
    Daemon = Daemon
    NoProc = NoProc
    shell = shell
    SameUser = {}
    Parent <- MCParent
    MaxDepth = 2
    Sub = {c1, c2}
    Wants <- MCWants
    Publisher = {p1, p2}
    SubCap = 1
    MaxEvents = 2
SPECIFICATION Spec
INVARIANTS RefusedForReason EventsInOrder PanicNeedsLateSubscribe
PROPERTIES HandshakeEnds ClosedBusIsLeft
CHECK_DEADLOCK FALSE
