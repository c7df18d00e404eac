--------------------------- MODULE MCCollaboration ---------------------------
EXTENDS CollaborationProperties, TLC

Symmetry == Permutations(Subs)
=============================================================================
