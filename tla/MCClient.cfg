CONSTANTS
    Caller = {c1, c2}
    NoCaller = NoCaller
    MaxCalls = 3
    HistoryCap = 1
    Process = {p1, p2}
    Starter = {s1, s2}
    Absent = Absent
    Torn = Torn
SPECIFICATION Spec
INVARIANTS AnswerIsOwn ServingIsReachable 
PROPERTIES CallsReturn
CHECK_DEADLOCK FALSE
