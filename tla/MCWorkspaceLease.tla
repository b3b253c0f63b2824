-------------------------- MODULE MCWorkspaceLease --------------------------
EXTENDS WorkspaceLeaseProps, TLC

Symmetry == Permutations(Generation) \cup Permutations(Owner)
              \cup Permutations(Caller) \cup Permutations(Snapshot)
=============================================================================
