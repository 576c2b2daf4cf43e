CONSTANTS
    MaxKeys = 3
    MaxSessions = 3
    MaxErrors = 2
    MaxPowerLosses = 3
    MaxErases = 1
SPECIFICATION Spec
PROPERTIES
    ProvisionedOnce
CHECK_DEADLOCK FALSE
