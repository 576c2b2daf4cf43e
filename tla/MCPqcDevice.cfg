CONSTANTS
    MaxKeys = 3
    MaxSessions = 3
    MaxErrors = 2
    MaxPowerLosses = 3
    MaxErases = 1
SPECIFICATION Spec
INVARIANTS
    StoredPairMatches
    PacketsVerify
    PacketsAreReadable
PROPERTIES
    IdentityIsStable
CHECK_DEADLOCK FALSE
