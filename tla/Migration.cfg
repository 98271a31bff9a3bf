\* Three instances; the released list and one more migration after its index.
SPECIFICATION FairSpec
CONSTANTS
    Instances = {i1, i2, i3}
    NoInstance = NoInstance
    Last = 3
    Concurrent = {2}
INVARIANT TypeOK
INVARIANT RecordedIsApplied
INVARIANT ReadyIsMigrated
PROPERTY StartEnds
