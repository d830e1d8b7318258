SPECIFICATION LiveSpec
CONSTANTS
    Good = {t1, t2}
    Bad = {b1}
    NoTarget = NoTarget
    MaxNet = 3
    MaxFault = 1
    MaxTarget = 2
INVARIANT TypeOK
INVARIANT GrantedOnlyIfAccepted
PROPERTY SessionRegained
PROPERTY QuietChangeHonoured
