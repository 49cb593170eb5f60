CONSTANTS
    u1 = u1
    s1 = s1
    p1 = p1
    v1 = v1
    x1 = x1
    NoUser = NoUser
    NoVid = NoVid
    NoPort = NoPort
    Old = Old
    Absent = Absent
    Users <- MC_Users
    Settings <- MC_Settings
    Ports <- MC_Ports
    VlanIds <- MC_VlanIds
    Values <- MC_Values
    MaxDeclared = 1
    MaxRows = 1
    MaxStale = 1

SPECIFICATION Spec

INVARIANT TypeOK
INVARIANT DeviceConfigApplied
PROPERTY ForwardRowsAfterVlans
PROPERTY StaticForwardTablesReplaced

\* The block ends: completed, or left through an exception.
CHECK_DEADLOCK FALSE
