CONSTANTS
    Trackers = {t1, t2}
    Fields = {name, owner}
    Values = {v1, v2}
    Requests = {q1, q2, q3}
    MaxFailures = 1
    MaxRestarts = 1
SYMMETRY Symmetric
SPECIFICATION Spec
INVARIANTS
    RegistryTypeOK
    SerialRegistryExact
    ListIsCurrent
CHECK_DEADLOCK FALSE
