SPECIFICATION Spec
CONSTANTS
    Users = {u1, u2}
    Dials = {d1, d2}
    MaxInst = 1
    MaxRestarts = 0
    Faults <- NoFaults
INVARIANT InstancesWithinLimit
