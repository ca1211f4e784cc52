CONSTANTS
    a1 = a1
    a2 = a2
    a3 = a3
    b1 = b1
    A = A
    B = B
    Card <- MCCard
    Identity = {A, B}
    OracleId <- MCOracleId
    Deck = {d1}
    Run = {r1, r2}
    MaxCopies = 2
SPECIFICATION Spec
INVARIANT ReadyMeansComplete
SYMMETRY Symmetry
CHECK_DEADLOCK FALSE
