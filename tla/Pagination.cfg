\* Four devices, two to a page, two ticks to a second.
SPECIFICATION Spec
CONSTANTS
    Ids = {1, 2, 3, 4}
    Limit = 2
    Granularity = 2
    MaxTime = 3
INVARIANT TypeOK
INVARIANT NoneSkipped
INVARIANT NoneRepeated
INVARIANT LaterOnesStayOut
CHECK_DEADLOCK FALSE
