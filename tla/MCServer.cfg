SPECIFICATION FairSpec
CONSTANTS
    SigCap = 1
    MaxSignals = 3
INVARIANTS
    TypeOK
    ZeroMeansSuccess
    OkMeansDrained
    SignalsNotLost
PROPERTIES
    OutputBeforeStatus
    HangupEndsRun
    BackendEndsProxy
    ShutdownCompletes
CHECK_DEADLOCK FALSE
