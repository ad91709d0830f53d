------------------------------ MODULE MCOneWaySync ------------------------------
EXTENDS OneWaySync, TLC

CONSTANTS a1, a2, p1, n1, n2, k1, k2, q1, q2, q3, w1

Symmetry == Permutations(Accounts) \cup Permutations(Payments) \cup Permutations(Names)
              \cup Permutations(Kinds) \cup Permutations(Ids) \cup Permutations(Workers)
================================================================================
