SPECIFICATION GuestSpec
CONSTANTS
    Users = {u1}
    Dials = {d1, d2}
    MaxInst = 0
    MaxRestarts = 2
    Faults <- GuestFaults
INVARIANTS
    GuestTypeOK
    ServedByLiveGuest
    FatalOnlyWhenNegative
PROPERTIES
    UnusedGuestExits
    RefusalsEnd
