---------------------------- MODULE MCPairingStore ----------------------------
EXTENDS PairingStore, TLC

CONSTANTS t1, t2, d1, d2, x1, x2, x3

ThreadSymmetry == Permutations({t1, t2})
=============================================================================
