\* Two requests, seconds of two ticks; only the clock is fair.
SPECIFICATION ClockSpec
CONSTANTS
    Requests = {r1, r2}
    Timeout = 2
    Granularity = 2
    LastRequest = 1
    MaxTime = 5
INVARIANT TypeOK
INVARIANT AcceptedStays
INVARIANT NoSilentOrphan
INVARIANT TimeoutAccurate
PROPERTY ShownMovesForward
PROPERTY SelfResolves
CHECK_DEADLOCK FALSE
