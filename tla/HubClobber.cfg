\* A device reconnects while its old connection cleans up.
SPECIFICATION ServerSpec
CONSTANTS
    Devices = {d1}
    Conns = {c1, c2}
    None = None
    Readers = {}
    Streams = {}
    MayFail = {}
    DeviceID <- OneDevice
INVARIANT NewerOnlineKept
