SPECIFICATION FairSpec
CONSTANTS
    Address = {a, b}
    None = none
    Slots = 2
    Mailers = {a}
    MaxTrouble = 2
INVARIANTS
    TypeOK
    ScreenMatchesCookie
    EmailOfItsWallet
PROPERTIES
    RestoringEnds
CHECK_DEADLOCK FALSE
