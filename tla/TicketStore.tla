---------------------------- MODULE TicketStore ----------------------------
(***************************************************************************)
(* The map of live WebSocket tickets kept by the companion backend         *)
(* (src/companion/app/state.py, class TicketStore).  A ticket is minted by *)
(* GET /api/session, lives for TTL, and is destroyed by the first upgrade  *)
(* that presents it.  Every method runs to completion on the event loop    *)
(* without awaiting, so each is one action here.                           *)
(***************************************************************************)
EXTENDS Naturals, FiniteSets

CONSTANTS
    Ticket,      \* the tickets secrets.token_urlsafe may ever return
    TTL,         \* TICKET_TTL_SECONDS, in clock ticks
    MaxTickets,  \* MAX_TICKETS, the bound on resident tickets
    MaxTime      \* bound of the model: the clock stops here

ASSUME TicketAssumption == IsFiniteSet(Ticket)
ASSUME TTLAssumption == TTL \in Nat \ {0}
ASSUME MaxTicketsAssumption == MaxTickets \in Nat \ {0}
ASSUME MaxTimeAssumption == MaxTime \in Nat

VARIABLES
    now,        \* the monotonic clock
    deadlines,  \* ticket -> deadline, Absent for a ticket not in the map
    minted      \* the tickets issued so far: entropy never repeats one

ticketVars == <<now, deadlines, minted>>

\* A deadline is now + TTL, so it is never zero.
Absent == 0

Resident == {t \in Ticket : deadlines[t] # Absent}

\* What _forget_expired keeps: the tickets whose deadline lies ahead.
Unexpired == {t \in Ticket : now < deadlines[t]}

TicketTypeOK ==
    /\ now \in Nat
    /\ deadlines \in [Ticket -> Nat]
    /\ minted \in SUBSET Ticket

TicketInit ==
    /\ now = 0
    /\ deadlines = [t \in Ticket |-> Absent]
    /\ minted = {}

Tick ==
    /\ now < MaxTime
    /\ now' = now + 1
    /\ UNCHANGED <<deadlines, minted>>

\* The dict once only the tickets of kept and a fresh t are left in it.
Stored(kept, t) ==
    [u \in Ticket |-> IF u = t THEN now + TTL
                      ELSE IF u \in kept THEN deadlines[u] ELSE Absent]

\* The tickets _evict_earliest_deadline may pick; min() breaks a tie by
\* insertion order, which the model leaves open.
Earliest(S) == {t \in S : \A u \in S : deadlines[t] <= deadlines[u]}

\* What a mint keeps: everything unexpired, less one when the map is full.
Kept ==
    IF Cardinality(Unexpired) >= MaxTickets
        THEN {Unexpired \ {e} : e \in Earliest(Unexpired)}
        ELSE {Unexpired}

Mint(t) ==
    /\ t \notin minted
    /\ minted' = minted \cup {t}
    /\ \E kept \in Kept : deadlines' = Stored(kept, t)
    /\ UNCHANGED now

\* Plausible bug: a lookup where the code pops, leaving the ticket in the map.
PopKeeping(t) == UNCHANGED deadlines

\* consume() pops on every path; presenting an unknown value pops nothing.
Pop(t) ==
    deadlines' = [u \in Ticket |-> IF u = t THEN Absent ELSE deadlines[u]]

\* What consume() answers: the ticket was in the map and its deadline is ahead.
Live(t) == t \in Ticket /\ deadlines[t] # Absent /\ now < deadlines[t]

=============================================================================
