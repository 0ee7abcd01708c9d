----------------------------- MODULE MCBasicGc -----------------------------
EXTENDS BasicGc, TLC

CONSTANTS o1, o2, o3, x, y

MCObj == {o1, o2, o3}
MCVar == {x, y}

Alike == Permutations(MCObj) \cup Permutations(MCVar)
=============================================================================
