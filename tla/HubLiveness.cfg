\* Two connections of one device, scheduled fairly.
SPECIFICATION ServerFairSpec
CONSTANTS
    Devices = {d1}
    Conns = {c1, c2}
    None = None
    Readers = {}
    Streams = {s1}
    MayFail = {}
    DeviceID <- OneDevice
PROPERTY SupersededConnEnds
PROPERTY ShutdownReturns
PROPERTY StatusHeals
