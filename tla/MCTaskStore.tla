------------------------------ MODULE MCTaskStore ------------------------------
EXTENDS TaskStoreProps, TLC

MCSymmetry == Permutations(Task) \cup Permutations(Commit)
=============================================================================
