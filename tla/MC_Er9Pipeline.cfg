CONSTANTS
    f1 = f1
    b1 = b1
    NoCode = NoCode
    Profiles <- MC_Profiles
    Builtins <- MC_Builtins
    Slots <- MC_Slots
    TerminalLabels <- MC_TerminalLabels
    ErrorCodes <- MC_ErrorCodes
    InitCodes <- MC_InitCodes
    MaxItems = 2
    MaxDevices = 1
    StartMayFail = FALSE
    MaxPolls = 2
    MaxStreams = 1

SPECIFICATION Spec

INVARIANT TypeOK
INVARIANT StreamsUnderDeclaredSlots
INVARIANT SuccessMeansComplete
INVARIANT DeclaredProfilesPresent
INVARIANT DeployRequiresComputed
INVARIANT SuccessMeansDeployed
PROPERTY ComputeRefinesJob
PROPERTY ScriptEnds
PROPERTY SessionClosedAfterTry

\* The script ends (returned, raised, or finished): final states are not deadlocks.
CHECK_DEADLOCK FALSE
