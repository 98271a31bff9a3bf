\* Disk and registration failures, rejected tokens, and up to two diagnostics
\* at a time on a connection that may break at any point.
SPECIFICATION SessionFairSpec
CONSTANTS
    MaxBackoff = 3
    MaxDevices = 3
    MaxRevoked = 2
    MaxDiags = 2
INVARIANT TypeOK
INVARIANT NoHammering
INVARIANT SameIdentity
INVARIANT NoNeedlessDevice
PROPERTY ReaderEnds
PROPERTY HeartbeatsFlow
PROPERTY SessionEnds
