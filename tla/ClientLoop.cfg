SPECIFICATION LiveSpec
CONSTANTS
    Client = {c1, c2}
    NoClient = NoClient
    MaxFd = 2
    MaxOpen = 2
INVARIANT SocketRegistered
PROPERTY EventsReported
PROPERTY StopReturns
CHECK_DEADLOCK FALSE
