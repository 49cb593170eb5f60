CONSTANTS
    i1 = i1
    i2 = i2
    s1 = s1
    s2 = s2
    NoIp = NoIp
    NoIfName = NoIfName
    BadLink = BadLink
    Ips <- MC_Ips
    Settings <- MC_Settings
    MaxDevices = 2
    MaxLinks = 1
    MaxProfiles = 1

SPECIFICATION Spec
SYMMETRY Symmetry

INVARIANT TypeOK
INVARIANT DeclaredTopologyApplied

\* The run ends: completed, returned early, or left through an exception.
CHECK_DEADLOCK FALSE
