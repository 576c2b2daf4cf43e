CONSTANTS
    Callers = {c1, c2, c3, x}
    Exiters = {x}
    Uploads = {u1, u2, u3}
    BadUploads = {u3}
    MaxPanics = 1
SPECIFICATION Spec
INVARIANTS
    TypeOK
    RepliesAreConserved
    SerialCallsMatch
    NoReplyIsStranded
    ExitHitsItsTarget
PROPERTIES
    CallsAreAnswered
CHECK_DEADLOCK FALSE
