--------------------------- MODULE MC_Er9Pipeline ---------------------------
EXTENDS Er9Pipeline

CONSTANTS f1, b1

MC_Profiles == {f1}
MC_Builtins == {b1}
MC_Slots    == {0, 1}

\* A freshly added project: both nodes show a non-running text and the
\* default ErrorCode 0.
MC_TerminalLabels == {"Idle", "Finished"}
MC_ErrorCodes     == {0, 1}
MC_InitCodes      == {0}
=============================================================================
