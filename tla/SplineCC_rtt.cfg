SPECIFICATION Spec
CONSTANTS
    Word = 16
    SegmentSize = 2
    InitialCWnd = 4
    TicksPerSec = 2
    TimeMax = 4
    RttSamples <- AllRtts
    InFlights <- RttFlights
    Deliveries <- RttDeliveries
    SegmentCounts <- RttCounts
    RecoveryWindows <- RecoveryWindow
PROPERTIES
    DrainAtEpochEnd
    NewMinimumOnlyAfterReordering
