------------------------ MODULE MCIntegrationJournal ------------------------
EXTENDS IntegrationJournalProps, TLC

\* Three paths in sort order: "a", "a/b" and "c".
MCPath == 1 .. 3
MCAbove == [p \in MCPath |-> IF p = 2 THEN {1} ELSE {}]

\* "a" and "a/b".
NestedPath == 1 .. 2
NestedAbove == [p \in NestedPath |-> IF p = 2 THEN {1} ELSE {}]

\* Two unrelated paths.
FlatPath == 1 .. 2
FlatAbove == [p \in FlatPath |-> {}]

Symmetry == Permutations(Content)
=============================================================================
