SPECIFICATION Spec
CONSTANTS
    SegmentSize = 2
    ReTxThreshold = 2
    StreamLength = 5
    Writes = {2, 3}
    Buffer = 5
    FirstWindow = 4
    Algorithms = {"any"}
    FirstThreshold = 6
    Windows = {2, 6}
    DataRetries = 1
    ReadModes = {TRUE, FALSE}
    SackModes = {TRUE, FALSE}
    NoDelayModes = {TRUE, FALSE}
INVARIANTS
    NeverStalls
    ScoreboardTrue
    CountersAgree
    CongStateAgrees
PROPERTIES
    WithinWindow
    SackedNotResent
\* The sender may have sent and received all there is.
CHECK_DEADLOCK FALSE
