SPECIFICATION Spec
CONSTANTS
    Archive = {a1, a2}
    Upload = {u1, u2}
    Collector = {c1, c2}
    None = none
    MinAge = 4
    Confirmations = 1
    MaxLag = 1
    MaxRun = 1
    MaxBlock = 8
PROPERTIES
    AcceptedNeverDeleted
CHECK_DEADLOCK FALSE
