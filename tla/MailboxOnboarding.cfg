SPECIFICATION Spec
CONSTANTS
    Address = {w1, w2}
    ZeroAddress = zero
    PublicKey = {k1, k2}
    ZeroKey = nokey
    LetterId = {}
    Archive = {}
    KeyIdMax = 3
    MaxTextBytes = 1
    MaxSealedKeyBytes = 1
    None = none
    MaxLost = 2
    MaxElsewhere = 1
INVARIANTS
    TypeOK
    KeyOfItsWallet
    TwiceOnlyAfterLoss
    EnvelopeUnderItsKey
PROPERTY PreparedKept
SYMMETRY Symmetry
CHECK_DEADLOCK FALSE
