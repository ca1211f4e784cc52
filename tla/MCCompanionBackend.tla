------------------------ MODULE MCCompanionBackend ------------------------
(* Small instance of CompanionBackend for TLC. *)
EXTENDS CompanionBackend, TLC

CONSTANTS t1, t2, t3, c1, c2, r1, r2, d1, d2

MCTicket == {t1, t2, t3}
MCConn == {c1, c2}
MCRequest == {r1, r2}
MCDeck == {d1, d2}

\* Tickets, sockets, requests and decks are interchangeable.
Symmetry == Permutations(MCTicket) \cup Permutations(MCConn)
            \cup Permutations(MCRequest) \cup Permutations(MCDeck)
=============================================================================
