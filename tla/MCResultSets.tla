---------------------------- MODULE MCResultSets ----------------------------
EXTENDS ResultSets, TLC

Sym == Permutations(Cands)
=============================================================================
