\* B listens; A writes a byte.  Two SYNs, one retransmission.
SPECIFICATION Spec
CONSTANTS
    MaxBuffer = 2
    SackListMax = 4
    SynRetries = 2
    DataRetries = 1
    DelAckMax = 2
    Openings = {"listen"}
    MaxForks = 1
    Writers = {"A"}
    Shutters = {"A"}
    MaxUnderway = 1
INVARIANTS
    Undisturbed
    EofMeansAll
    FinAcknowledged
    Timed
    Agreement
PROPERTY
    AttemptEnds
\* A connection comes to an end.
CHECK_DEADLOCK FALSE
