--------------------------- MODULE MCTestWorker ---------------------------
EXTENDS TestWorker, TLC

MCSymmetry == Permutations(Execs) \cup Permutations(Ids)
=============================================================================
