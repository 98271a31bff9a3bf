\* A token is rejected and the re-registration refused.
SPECIFICATION Spec
CONSTANTS
    MaxBackoff = 5
    MaxDevices = 4
    MaxRevoked = 3
INVARIANT StaysUntilCanceled
