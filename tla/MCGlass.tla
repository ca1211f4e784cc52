------------------------------ MODULE MCGlass ------------------------------
EXTENDS Glass, TLC

Symmetry == Permutations(Deck)
=============================================================================
