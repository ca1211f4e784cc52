SPECIFICATION Spec
CONSTANTS
    suggestions = suggestions
    swaps = swaps
    island = island
    blank = blank
    gone = gone
    Kind <- MCKind
    Instant <- MCInstant
    Unreadable = Unreadable
    NoPush = NoPush
    HistoryCap = 2
    MaxPushes = 4
    Card <- MCCard
    Blank = blank
    Reason = {gone}
    Hopeless = {gone}
    NoReason = NoReason
    MaxAttempts = 2
    CardsOf <- MCCardsOf
INVARIANTS TypeOK HistoryIsSound PillsAreTrue
PROPERTIES CacheIsHonest
