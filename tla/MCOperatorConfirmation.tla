------------------------ MODULE MCOperatorConfirmation ------------------------
EXTENDS OperatorConfirmationProps, TLC

MCSymmetry == Permutations(Caller) \cup Permutations(Approval) \cup Permutations(Content)
=============================================================================
