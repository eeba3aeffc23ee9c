SPECIFICATION Spec
CONSTANTS
    Word = 128
    SegmentSize = 4
    InitialCWnd = 8
    TicksPerSec = 2
    TimeMax = 60
    RttSamples <- WindowRtts
    InFlights <- WindowFlights
    Deliveries <- LateDeliveries
    SegmentCounts <- WindowCounts
    RecoveryWindows <- LateWindow
INVARIANTS
    TypeOK
    WindowFloor
PROPERTY
    DrainBound
