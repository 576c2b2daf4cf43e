CONSTANTS
    Users = {u1}
    Nonces = {n1, n2}
    Attempts = {q1, q2}
    Roles = {"user", "admin"}
    Guards <- MCGuards
    Secrets = {k1, k2}
    NonceTTL = 2
    TokenLife = 2
    MaxTime = 5
    MaxRestarts = 1
SYMMETRY Symmetric
SPECIFICATION Spec
INVARIANTS
    NonceBuysOneSession
    GoodNonceIsHonoured
    RoleIsRecent
CHECK_DEADLOCK FALSE
