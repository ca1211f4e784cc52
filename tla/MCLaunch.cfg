CONSTANTS
    Proc = {p1, p2, p3}
    n1 = n1
    n2 = n2
    Port <- MCPort
    Preferred = n1
    Call = {k1}
    NoProc = NoProc
    NoPort = NoPort
SPECIFICATION LaunchSpec
INVARIANTS
    LaunchTypeOK
    OneCompanion
    ServingIsDiscoverable
    PushAtMostOnce
SYMMETRY Symmetry
CHECK_DEADLOCK FALSE
