SPECIFICATION FairSpec
CONSTANTS
    Users = {u1}
    Dials = {d1, d2}
    MaxInst = 1
    MaxRestarts = 0
    Faults <- NoFaults
PROPERTY
    LimitSparesOwnGuest
