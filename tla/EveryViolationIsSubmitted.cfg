CONSTANTS
    Wallets = {server, customer}
    Server = server
    ZeroAddress = ZeroAddress
    PackageRefs = {ref}
    Proofs = {j1, j2}
    Jobs = {j1, j2}
    Empty = Empty
    MaxShipments = 2
    MaxTime = 1
    MaxFailures = 1
    MaxGasPrice = 1
    MaxOthersCalls = 2
SPECIFICATION Spec
PROPERTIES
    EveryViolationIsSubmitted
CHECK_DEADLOCK FALSE
