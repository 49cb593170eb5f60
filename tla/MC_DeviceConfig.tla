--------------------------- MODULE MC_DeviceConfig ---------------------------
EXTENDS DeviceConfig

CONSTANTS u1, s1, p1, v1, x1

MC_Users    == {u1}
MC_Settings == {s1}
MC_Ports    == {p1}
MC_VlanIds  == {v1}
MC_Values   == {x1}
=============================================================================
