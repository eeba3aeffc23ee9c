SPECIFICATION Spec
CONSTANTS
    MaxBuffer = 5
    SackListMax = 2
    StreamLength = 7
    MaxSegment = 3
    DelAckMax = 2
    WindUnit = 2
INVARIANTS
    EofComplete
    Consistent
    LoopsAgree
PROPERTIES
    SackComplete
    EdgeStable
    ReceivesStream
    AckedEventually
CHECK_DEADLOCK FALSE
