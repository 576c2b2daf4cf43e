CONSTANTS
    Wallets = {w1, w2, w3}
    ZeroAddress = ZeroAddress
    PackageRefs = {ref}
    Proofs = {p1}
    Empty = Empty
    MaxShipments = 2
    MaxTime = 2
SYMMETRY Symmetric
SPECIFICATION ContractSpec
INVARIANTS
    DeliveredExactlyWhenBoth
    VerdictHasEvidence
PROPERTIES
    ClosedForGood
    RecordsAreKept
    ImplementsLifecycle
CHECK_DEADLOCK FALSE
