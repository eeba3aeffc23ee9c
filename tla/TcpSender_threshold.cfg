SPECIFICATION Spec
CONSTANTS
    SegmentSize = 1
    ReTxThreshold = 2
    StreamLength = 6
    Writes = {6}
    Buffer = 7
    FirstWindow = 7
    Algorithms = {"classic"}
    FirstThreshold = 4
    Windows = {6}
    DataRetries = 2
    ReadModes = {FALSE}
    SackModes = {TRUE}
    NoDelayModes = {TRUE}
PROPERTY ThresholdKept
CHECK_DEADLOCK FALSE
