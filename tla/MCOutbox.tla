------------------------------- MODULE MCOutbox -------------------------------
EXTENDS Outbox, TLC

CONSTANTS e1, e2, w1, w2, op1

Symmetry == Permutations(Workers) \cup Permutations(Events)
================================================================================
