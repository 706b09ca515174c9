CONSTANTS
    a = a
    h1 = h1
    h2 = h2
    c1 = c1
    c2 = c2
    NoHandle = NoHandle
    Id = {a}
    Handle = {h1, h2}
    Sid <- MCSid
    Caller = {c1, c2}
    Sweeper = {"reaper", "watchdog"}
    MaxSessions = 0
    SpawnSlots = 1
SPECIFICATION FairSpec
INVARIANTS RegisteredIsUsable NotifiedIsReleased
INVARIANTS LostOnlyToPredecessor PanicNeedsKillAndExit
PROPERTIES ImplementsRegistry KilledIsNotified
CHECK_DEADLOCK FALSE
