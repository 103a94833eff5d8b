SPECIFICATION Spec
CONSTANTS
    Sessions = {s1}
    ExitCodes <- MCExitCodes
    Uint32Values = 256
INVARIANT CommandHonoured
CHECK_DEADLOCK FALSE
