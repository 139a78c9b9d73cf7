CONSTANTS
    Bad = Bad
    MaxArchiveBytes = 160
    MaxTextBytes = 100
    MaxVideoBytes = 200
    Preparations = 2
    MaxMediaFaults = 1
    Selections <- MCSelections
    EncodedSizes <- MCEncodedSizes
    HonestText <- MCHonestText
    ForeignText <- MCForeignText
    Parcels <- MCParcels
    Me = me
    Sender = sender
    Honest = l1
    Foreign = l2
    PageBlocks = 2
    MaxKeys = 2
    Slots = 2
    MaxBoxFaults = 1
SPECIFICATION Spec
INVARIANTS
    TypeOK MediaInPlace FailsForACause NothingHeld ParcelFits DamageShows
    LettersComplete OneAtATime SecretsErased OpenedIsAuthentic
    HonestLetterOpens
CHECK_DEADLOCK FALSE
