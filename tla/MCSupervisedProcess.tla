------------------------- MODULE MCSupervisedProcess -------------------------
EXTENDS SupervisedProcessProps, TLC

MCSymmetry == Permutations(Stream)
=============================================================================
