SPECIFICATION Spec
CONSTANTS
    SegmentSize = 1
    ReTxThreshold = 2
    StreamLength = 5
    Writes = {5}
    Buffer = 6
    FirstWindow = 6
    Algorithms = {"classic", "prr"}
    FirstThreshold = 4
    Windows = {4}
    DataRetries = 1
    ReadModes = {FALSE}
    SackModes = {TRUE, FALSE}
    NoDelayModes = {TRUE}
INVARIANT LostJustified
PROPERTY ReducedOncePerWindow
CHECK_DEADLOCK FALSE
