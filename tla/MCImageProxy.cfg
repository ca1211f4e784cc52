CONSTANTS
    s1 = s1
    s2 = s2
    s3 = s3
    k1 = k1
    k2 = k2
    Slot <- MCSlot
    Key <- MCKey
    Wants <- MCWants
    NoKey = NoKey
    Limit = 2
    Spacing = 1
    Base = 1
    Multiplier = 2
    Ceiling = 2
    MaxEntries = 1
    WriteLimit = 1
SPECIFICATION Spec
INVARIANTS
    TypeOK
    EveryPermitComesBack
    StartsAreSpaced
    BackoffIsSound
PROPERTIES
    OutagesAreRemembered
    ImagesStayAvailable
CHECK_DEADLOCK FALSE
