SPECIFICATION LiveSpec
CONSTANTS
    Addr = {a1, a2}
    MaxChan = 3
    Period = 1
    Delay = 2
    ClockSize = 16
    MaxTicks = 7
INVARIANTS TypeOK BindsLive GracePeriod
PROPERTY DetachedReleased
CHECK_DEADLOCK FALSE
