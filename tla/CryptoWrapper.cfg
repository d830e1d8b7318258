SPECIFICATION Spec
CONSTANTS
    Key = {k1, k2}
    Block = 3
    SM2Extra = 3
    SizeT = 1000
    PlainByte = {2, 240}
    MaxLen = 7
    MaxLayer = 2
INVARIANT LengthsBounded
PROPERTIES RoundTrip AlgorithmsApart
CHECK_DEADLOCK FALSE
