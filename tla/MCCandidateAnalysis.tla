------------------------ MODULE MCCandidateAnalysis ------------------------
EXTENDS CandidateAnalysis, TLC

Symmetry == Permutations(Runs)
============================================================================
