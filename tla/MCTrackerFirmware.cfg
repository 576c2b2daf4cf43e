CONSTANTS
    MaxRestarts = 2
    MaxG = 1
    MaxPowerCycles = 1
SPECIFICATION Spec
INVARIANTS
    KeptKeyIsForGood
    RefusedOnlyAfterKeyLoss
    ShockIsAccountedFor
CHECK_DEADLOCK FALSE
