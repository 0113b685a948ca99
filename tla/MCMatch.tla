------------------------------- MODULE MCMatch -------------------------------
EXTENDS MatchWorkers, TLC
Symmetry == Permutations(Creators)
=============================================================================
