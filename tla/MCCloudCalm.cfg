SPECIFICATION FairSpec
CONSTANTS
    Users = {u1, u2}
    Dials = {d1, d2, d3}
    MaxInst = 0
    MaxRestarts = 0
    Faults <- NoFaults
PROPERTY
    DialConnects
