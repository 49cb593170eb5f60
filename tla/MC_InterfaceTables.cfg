CONSTANTS
    e1 = e1
    e2 = e2
    g1 = g1
    g2 = g2
    s1 = s1
    Old = Old
    Absent = Absent
    Bad = Bad
    PspEntries <- MC_PspEntries
    Gates <- MC_Gates
    Settings <- MC_Settings
    MaxIfaces = 1
    MaxEntries = 2

SPECIFICATION Spec
SYMMETRY Symmetry

INVARIANT TypeOK
INVARIANT InterfacesConfigured
PROPERTY PerStreamPrioritiesReplaced

\* The loop ends: all interfaces configured, or left through an exception.
CHECK_DEADLOCK FALSE
