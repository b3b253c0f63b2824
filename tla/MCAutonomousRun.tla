--------------------------- MODULE MCAutonomousRun ---------------------------
EXTENDS AutonomousRunProps, TLC

\* The patch makes "b" of "a", and an edit may do or undo the same.
MCSnapshot == {"a", "b"}
MCInitial == {"a"}
MCPatched == [s \in {"a"} |-> "b"]
MCAmbiguous == {}
MCSymmetry == Permutations(Loop) \cup Permutations(Plan)
=============================================================================
