CONSTANTS
    NoCode = NoCode
    TerminalLabels <- MC_TerminalLabels
    ErrorCodes <- MC_ErrorCodes
    InitCodes <- MC_InitCodes
    StartMayFail = TRUE
    MaxPolls = 2
    MaxStreams = 2

SPECIFICATION Spec

INVARIANT DeployRequiresComputed

CHECK_DEADLOCK FALSE
