------------------------------ MODULE MCAnalysis ------------------------------
EXTENDS AnalysisJobs, TLC
Symmetry == Permutations(Jobs) \cup Permutations(Requests) \cup Permutations(Keys)
              \cup Permutations(Copies)
=============================================================================
