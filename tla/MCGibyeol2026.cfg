SPECIFICATION Spec
CONSTANTS
    Address = {alice, bora}
    ZeroAddress = zero
    PublicKey = {k1, k2}
    ZeroKey = nokey
    LetterId = {l1, l2}
    Archive = {a1}
    KeyIdMax = 2
    MaxTextBytes = 1
    MaxSealedKeyBytes = 1
INVARIANTS
    LogTellsMailboxes
    SealedToLiveKey
PROPERTIES
    ExhaustedStaysClosed
    ImplementsLedger
SYMMETRY Symmetry
CHECK_DEADLOCK FALSE
