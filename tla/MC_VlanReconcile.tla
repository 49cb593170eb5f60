-------------------------- MODULE MC_VlanReconcile --------------------------
EXTENDS VlanReconcile

CONSTANTS p1, p2, v1, v2

MC_Ports   == {p1, p2}
MC_VlanIds == {v1, v2}

Symmetry == Permutations(MC_Ports) \cup Permutations(MC_VlanIds)
=============================================================================
