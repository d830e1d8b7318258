SPECIFICATION LiveSpec
CONSTANTS
    DataLen = {2, 4}
    TypedLen = 1
    HeadLen = 2
    MaxData = 3
    BufLen = 13
    Word = 8
    PosedAt = {4}
    Stated = {1}
    Window = 2
    MaxPdu = 3
INVARIANT TypeOK
INVARIANT StreamIntact
INVARIANT LossOnlyAfterTooLong
PROPERTY OverflowOnlyAtEnd
PROPERTY DeliversInOrder
PROPERTY AllHandled
CHECK_DEADLOCK FALSE
