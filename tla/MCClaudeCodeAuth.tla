------------------------- MODULE MCClaudeCodeAuth -------------------------
EXTENDS ClaudeCodeAuth, TLC

MCCallerSymmetry == Permutations(Callers)
=============================================================================
