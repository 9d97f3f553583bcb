----------------------------- MODULE MCRedlock -----------------------------
EXTENDS Redlock, TLC

CONSTANTS o1, o2

\* Owners are interchangeable; clients are visited in order.
Symmetry == Permutations(Owners)
=============================================================================
