SPECIFICATION FairSpec
CONSTANTS
    Sessions = {s1, s2}
    ExitCodes <- MCExitCodes
    Uint32Values = 256
INVARIANTS
    TypeOK
    NoExitDuringSession
    FullIdlePeriod
    CounterExact
    IdleTimerPending
    ZeroMeansSuccess
PROPERTIES
    IdleGuestExits
    RefinesGuestLife
CHECK_DEADLOCK FALSE
