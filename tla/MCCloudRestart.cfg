SPECIFICATION Spec
CONSTANTS
    Users = {u1}
    Dials = {d1}
    MaxInst = 0
    MaxRestarts = 1
    Faults <- RestartOnly
INVARIANT ExistingGuestAccepted
