SPECIFICATION Spec
CONSTANTS
    Caller = {c1}
    Callee = {e1}
    Arrivals = {"raw", "auth", "badauth", "heartbeat", "rtp", "conf", "other"}
    Sid = {s1}
    NoSid = NoSid
    NoCallee = NoCallee
    NLoop = 2
    TimeoutSec = 3
    LoopSec = 1
    TimerSec = 1
    LockDelay = 0
    Modulus = 100
    MaxClock = 9
    LastArrival = 4
INVARIANT PairConnected
