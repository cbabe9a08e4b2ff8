------------------------------ MODULE MCLogin ------------------------------
EXTENDS Login, TLC

MCSymmetry == Permutations(Flows) \cup Permutations(Ids) \cup Permutations(Handlers)
=============================================================================
