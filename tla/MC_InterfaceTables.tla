------------------------ MODULE MC_InterfaceTables ------------------------
EXTENDS InterfaceTables, TLC

CONSTANTS e1, e2, g1, g2, s1

MC_PspEntries == {e1, e2}
MC_Gates      == {g1, g2}
MC_Settings   == {s1}

Symmetry == Permutations(MC_PspEntries) \cup Permutations(MC_Gates)
=============================================================================
