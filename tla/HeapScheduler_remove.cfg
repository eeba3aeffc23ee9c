SPECIFICATION Spec
CONSTANTS
    MaxTs = 3
    MaxUid = 7
PROPERTY
    NotBeforeNow
CHECK_DEADLOCK FALSE
