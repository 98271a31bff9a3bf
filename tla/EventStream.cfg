\* Two streams and more events than a channel holds, so that it fills and drains.
SPECIFICATION FairSpec
CONSTANTS
    Streams = {s1, s2}
    Cap = 2
    SockBuf = 1
    MaxEvents = 4
INVARIANT TypeOK
INVARIANT AllAccountedFor
INVARIANT BurstFits
PROPERTY StalledStreamEnds
CHECK_DEADLOCK FALSE
