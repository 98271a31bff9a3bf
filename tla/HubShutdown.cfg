\* A device connects while the server shuts down.
SPECIFICATION ServerSpec
CONSTANTS
    Devices = {d1}
    Conns = {c1, c2}
    None = None
    Readers = {}
    Streams = {}
    MayFail = {}
    DeviceID <- OneDevice
INVARIANT ShutdownMarksOffline
