CONSTANTS
    Users = {u1}
    Attestations = {a1, a2}
    Checks = {q1, q2}
    Lifetimes = {1}
    TTL = 1
    GetLogsParameters = {"argument_filters", "from_block", "to_block", "block_hash"}
    MaxTime = 5
    MaxRestarts = 1
SYMMETRY Symmetric
SPECIFICATION Spec
INVARIANTS
    LiveAttestationIsSeen
CHECK_DEADLOCK FALSE
