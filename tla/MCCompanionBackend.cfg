CONSTANTS
    t1 = t1
    t2 = t2
    t3 = t3
    c1 = c1
    c2 = c2
    r1 = r1
    r2 = r2
    d1 = d1
    d2 = d2
    Ticket <- MCTicket
    Conn <- MCConn
    Request <- MCRequest
    Deck <- MCDeck
    NoDeck = NoDeck
    NoTicket = NoTicket
    NoConn = NoConn
    TTL = 1
    MaxTickets = 2
    MaxTime = 2
SPECIFICATION Spec
SYMMETRY Symmetry
INVARIANTS
    TypeOK
    TicketsAreSound
    FanoutIsSound
    AnswersAreTrue
CHECK_DEADLOCK FALSE
