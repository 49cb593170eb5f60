------------------------- MODULE MC_ProjectDeploy -------------------------
EXTENDS ProjectDeploy, TLC

CONSTANTS i1, i2, s1, s2

MC_Ips      == {i1, i2}
MC_Settings == {s1, s2}

Symmetry == Permutations(MC_Ips) \cup Permutations(MC_Settings)
=============================================================================
