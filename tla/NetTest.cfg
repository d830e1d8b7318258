SPECIFICATION NetSpec
CONSTANTS
    Server = {s1, s2}
    NoServer = NoServer
    TimeRange = 3
    StartTime = 1
    TestPeriod = 1
    TestInterval = 2
    MaxTime = 4
    MaxSets = 2
SYMMETRY Symmetry
INVARIANT SipPicksUsable
PROPERTIES FailsOver StopsEarlyOnlyIfRaced
CHECK_DEADLOCK FALSE
