------------------------------ MODULE MCOutreach ------------------------------
EXTENDS Outreach, TLC
Symmetry == Permutations(Creators) \cup Permutations(Copies)
=============================================================================
