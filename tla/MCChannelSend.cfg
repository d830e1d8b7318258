SPECIFICATION Spec
CONSTANTS
    Sender = {t1, t2}
    Buf = {b1, b2, b3, b4}
    NoBuf = NoBuf
    PoolLen = 1
    MaxPush = 4
SYMMETRY Symmetry
INVARIANT TypeOK
INVARIANT BufferOwned
INVARIANT WaitsArmed
PROPERTY RelaysInOrder
