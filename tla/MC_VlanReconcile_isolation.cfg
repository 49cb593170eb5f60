CONSTANTS
    p1 = p1
    p2 = p2
    v1 = v1
    v2 = v2
    NoVid = NoVid
    NoPort = NoPort
    Ports <- MC_Ports
    VlanIds <- MC_VlanIds
    MaxRows = 2

SPECIFICATION Spec
SYMMETRY Symmetry

INVARIANT VlanFailureIsolated

\* The block ends after its last VLAN: a final state is not a deadlock.
CHECK_DEADLOCK FALSE
