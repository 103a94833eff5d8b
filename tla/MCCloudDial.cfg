SPECIFICATION FairSpec
CONSTANTS
    Users = {u1, u2, u3}
    Dials = {d1, d2}
    MaxInst = 1
    MaxRestarts = 1
    Faults <- DataFaults
INVARIANTS
    TypeOK
    LimitOvershootBounded
PROPERTIES
    MismatchOnlyAfterRestart
    DialReturns
