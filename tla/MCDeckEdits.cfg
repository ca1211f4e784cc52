SPECIFICATION Spec
CONSTANTS
    redMain = redMain
    blueSide = blueSide
    red = red
    blue = blue
    s1 = s1
    s2 = s2
    d1 = d1
    d2 = d2
    Session <- Sessions
    Deck <- Decks
    Slot <- MCSlot
    ColoursOf <- MCColoursOf
    Added = {1}
    SetTo = {0, 2}
    MaxRequests = 3
INVARIANTS TypeOK IdentityIsTrue AnswersAreTrue
PROPERTY MergeIsSound
SYMMETRY Symmetry
CHECK_DEADLOCK FALSE
