SPECIFICATION FairSpec
CONSTANTS
    Tab = {t1}
    Sender = sender
    Recipient = recipient
    Address = {sender, recipient}
    ZeroAddress = zero
    PublicKey = {k1, k2}
    ZeroKey = nokey
    LetterId = {l1, l2}
    Archive = {a1, a2}
    KeyIdMax = 2
    MaxTextBytes = 1
    MaxSealedKeyBytes = 1
    None = none
    Mounts = 2
    MaxFaults = 2
    LeaveFaults = 2
INVARIANTS
    TypeOK
    Openable
    OneContentPerLetter
    UnrecordedOnlyAfterRevert
PROPERTIES
    Settles
CHECK_DEADLOCK FALSE
