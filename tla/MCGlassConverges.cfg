CONSTANTS
    Deck = {d1, d2}
    NoDeck = NoDeck
    MaxSets = 2
    MaxEdits = 0
    MaxRestarts = 1
    MaxBusy = 1
    MaxCloses = 0
    MaxFaults = 1
    CanStall = FALSE
SPECIFICATION FairSpec
PROPERTIES
    RefinesDisplay
    GlassConverges
CHECK_DEADLOCK FALSE
