SPECIFICATION SipLiveSpec
CONSTANT MaxFault = 3
INVARIANTS SipTypeOK StaleIsTold
PROPERTY PortReturned
