CONSTANTS
    u1 = u1
    u2 = u2
    u3 = u3
    s1 = s1
    s2 = s2
    NoUser = NoUser
    Users <- MC_Users
    Settings <- MC_Settings
    MaxDeclared = 2

SPECIFICATION Spec
SYMMETRY Symmetry

INVARIANT TypeOK
INVARIANT DeclaredAccountsPresent

\* The step ends (completed, or left through an exception).
CHECK_DEADLOCK FALSE
