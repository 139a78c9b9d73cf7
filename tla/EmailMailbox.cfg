SPECIFICATION Spec
CONSTANTS
    Wallet = {w1, w2}
    Email = {e1, e2}
    RequestIp = {i1, i2}
    Request = {q1, q2}
    None = none
    ChallengeLimit = 1
    Window = 2
    Ttl = 2
    MaxAttempts = 1
    Retention = 3
    MaxTime = 4
    MaxRows = 3
SYMMETRY Symmetry
CHECK_DEADLOCK FALSE
INVARIANT VerifiedHasMailbox
