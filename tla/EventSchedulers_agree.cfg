SPECIFICATION Spec
CONSTANTS
    MaxTs = 4
    MaxUid = 5
INVARIANTS
    CalendarFits
    HeapTakesEarliest
PROPERTIES
    EventListKept
CHECK_DEADLOCK FALSE
