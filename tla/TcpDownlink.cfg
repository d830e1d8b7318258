SPECIFICATION LiveSpec
CONSTANTS
    DataLen = {1, 3, 4}
    HeadLen = 2
    MaxData = 3
    Window = 4
    MaxPacket = 3
    MaxReset = 1
INVARIANT TypeOK
INVARIANT WholePdus
INVARIANT InOrderNoLoss
PROPERTY NextPacketFlushes
CHECK_DEADLOCK FALSE
