-------------------------- MODULE MC_ComputeDeploy --------------------------
EXTENDS ComputeDeploy

\* A freshly added project: both nodes show a non-running text and the
\* default ErrorCode 0.
MC_TerminalLabels == {"Idle", "Finished"}
MC_ErrorCodes     == {0, 1}
MC_InitCodes      == {0}
=============================================================================
