CONSTANTS
    Deck = {d1, d2}
    NoDeck = NoDeck
    MaxSets = 1
    MaxEdits = 1
    MaxRestarts = 1
    MaxBusy = 1
    MaxCloses = 1
    MaxFaults = 1
    CanStall = TRUE
SPECIFICATION Spec
INVARIANTS
    TypeOK
    ChainsAreAccountable
    RestingGlassIsCurrent
    PromisesAreKept
PROPERTIES
    NoStalePaint
SYMMETRY Symmetry
CHECK_DEADLOCK FALSE
