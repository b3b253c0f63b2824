-------------------------- MODULE MCRuntimeManager --------------------------
EXTENDS RuntimeManagerProps, TLC

Symmetry == Permutations(Caller)
=============================================================================
