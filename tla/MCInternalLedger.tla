---------------------------- MODULE MCInternalLedger ----------------------------
EXTENDS InternalLedger, TLC

CONSTANTS r1, r2

Symmetry == Permutations(Requests)
================================================================================
