SPECIFICATION Spec
CONSTANTS
    Word = 32
    SegmentSize = 2
    InitialCWnd = 8
    TicksPerSec = 2
    TimeMax = 60
    RttSamples <- WindowRtts
    InFlights <- WindowFlights
    Deliveries <- WindowDeliveries
    SegmentCounts <- WindowCounts
    RecoveryWindows <- RecoveryWindow
INVARIANT
    SsThreshInBytes
