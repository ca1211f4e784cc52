------------------------------ MODULE MCLaunch ------------------------------
EXTENDS Launch, TLC

CONSTANTS n1, n2

MCPort == {n1, n2}
Symmetry == Permutations(Proc) \cup Permutations(Call)
=============================================================================
