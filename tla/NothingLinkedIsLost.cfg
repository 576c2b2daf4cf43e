CONSTANTS
    Devices = {d1}
    Packets = {p1, p2}
    Readings <- SampleReadings
    Packages <- StrictPackages
    Default <- Permissive
    MaxPackages = 2
    MaxRestarts = 1
    Place <- SamplePlaces
    MaxDepth = 1
    Limits = {1, 2}
    RiskRadius = 2
    Routes <- SampleRoutes
SPECIFICATION Spec
INVARIANTS
    NothingLinkedIsLost
CHECK_DEADLOCK FALSE
