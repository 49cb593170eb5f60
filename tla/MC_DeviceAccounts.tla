------------------------- MODULE MC_DeviceAccounts -------------------------
EXTENDS DeviceAccounts, TLC

CONSTANTS u1, u2, u3, s1, s2

MC_Users    == {u1, u2, u3}
MC_Settings == {s1, s2}

Symmetry == Permutations(MC_Users) \cup Permutations(MC_Settings)
=============================================================================
