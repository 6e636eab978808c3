--------------------------- MODULE MCMultiProcess ---------------------------
EXTENDS MultiProcess

CONSTANTS p1, p2

MCProcs == {p1, p2}
MCInitialSizes == {96}
MCSizes == {40}
MCData == {7}
MCMaxArena == 192
MCLockArena == 128
=============================================================================
