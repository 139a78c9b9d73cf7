SPECIFICATION Spec
CONSTANTS
    Tab = {t1}
    Sender = sender
    Recipient = recipient
    Address = {sender, recipient}
    ZeroAddress = zero
    PublicKey = {k1, k2}
    ZeroKey = nokey
    LetterId = {l1}
    Archive = {a1}
    KeyIdMax = 2
    MaxTextBytes = 1
    MaxSealedKeyBytes = 1
    None = none
    Mounts = 1
    MaxFaults = 1
    LeaveFaults = 1
INVARIANTS
    SealedIsOnChain
CHECK_DEADLOCK FALSE
