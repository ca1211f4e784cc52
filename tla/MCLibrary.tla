------------------------------ MODULE MCLibrary ------------------------------
EXTENDS Library, TLC

CONSTANTS a1, a2, a3, b1, A, B

\* Three printings of one card and one of another.
MCCard == {a1, a2, a3, b1}
MCOracleId == (a1 :> A) @@ (a2 :> A) @@ (a3 :> A) @@ (b1 :> B)
Symmetry == Permutations({a1, a2, a3})
=============================================================================
