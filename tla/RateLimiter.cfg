\* Two units to a token, so that fractions of a token occur; a sweep can fall
\* inside a refill, and a bucket can be evicted and made again.
SPECIFICATION RequestsSpec
CONSTANTS
    Keys = {k1, k2}
    NoResponse = NoResponse
    Rate = 1
    Burst = 3
    Cost = 2
    SweepInterval = 2
    TTL = 3
    MaxTime = 6
    MaxRequests = 3
INVARIANT WindowBound
INVARIANT SweptClean
INVARIANT CountedAsSent
PROPERTY IdealSpec
CHECK_DEADLOCK FALSE
