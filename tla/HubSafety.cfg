\* Two connections of one device, a reader of its status and an event stream; every store operation may fail.
SPECIFICATION ServerSpec
CONSTANTS
    Devices = {d1}
    Conns = {c1, c2}
    None = None
    Readers = {r1}
    Streams = {s1}
    MayFail = {"setOnline", "setOffline", "insert", "touch"}
    DeviceID <- OneDevice
SYMMETRY ConnSymmetry
INVARIANT NoForgottenConn
INVARIANT StatusAgrees
INVARIANT ConnectedEventIsBacked
INVARIANT WgCounts
INVARIANT ReplyWasTrue
INVARIANT ShutdownReportsTrue
PROPERTY PresenceSpec
