SPECIFICATION FairSpec
CONSTANTS
    w1 = w1
    r1 = r1
    r2 = r2
    Wallet = {w1}
    Run = {r1, r2}
    MaxFaults = 2
INVARIANTS
    OneMailWhileRemembered
    RowsTellTheTruth
PROPERTY EventuallyMailed
