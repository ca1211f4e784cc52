------------------------- MODULE CompanionBackend -------------------------
(***************************************************************************)
(* One backend process of the companion app: the ticket store, the         *)
(* WebSocket upgrade handler, the registry of accepted sockets, the        *)
(* active-deck slot and the fan-out (src/companion/app/state.py, ws.py,    *)
(* routes/active_deck.py, routes/session.py, routes/agent_events.py).      *)
(*                                                                         *)
(* The process is one asyncio event loop.  An action is what runs between  *)
(* two awaits of a coroutine; the coroutines are the upgrade handler of    *)
(* each connection and one handler per PUT or POST request.                *)
(***************************************************************************)
EXTENDS TicketStore, Integers

CONSTANTS
    Conn,      \* upgrade handshakes; each names one socket, used once
    Request,   \* PUT /api/active-deck and POST /agent/events requests
    Deck,      \* deck ids a PUT may carry
    NoDeck,    \* the slot's None
    NoTicket,  \* a ticket parameter that is omitted or was never minted
    NoConn     \* no send in progress

ASSUME ConnAssumption == IsFiniteSet(Conn) /\ NoConn \notin Conn
ASSUME DeckAssumption == NoDeck \notin Deck
ASSUME NoTicketAssumption == NoTicket \notin Ticket

VARIABLES
    conn,       \* connection -> where its upgrade handler stands
    presented,  \* connection -> the ticket its handshake consumed
    gone,       \* connections whose transport is closed, by either side
    registry,   \* ConnectionRegistry._connections
    slot,       \* ActiveDeckSlot._deck_id
    phase,      \* request -> where its handler stands
    asked,      \* request -> the deck of a PUT body, NoDeck for a push
    captured,   \* request -> deck_id read from the slot after set()
    todo,       \* request -> what is left of its registry snapshot
    sending,    \* request -> the connection it is writing to
    delivered,  \* request -> the count broadcast() returns
    receipt,    \* request -> the deck_id of the answer
    written,    \* history: connection -> the requests whose frame it was sent
    snap        \* history: request -> the registry snapshot it started with

handlerVars == <<conn, presented, gone>>
requestVars == <<phase, asked, captured, todo, sending, delivered, receipt>>
historyVars == <<written, snap>>
vars == <<ticketVars, handlerVars, registry, slot, requestVars, historyVars>>

ConnState == {"idle", "authorised", "accepted", "draining", "closed"}
Phase == {"idle", "sending", "closing", "done"}

TypeOK ==
    /\ TicketTypeOK
    /\ conn \in [Conn -> ConnState]
    /\ presented \in [Conn -> Ticket \cup {NoTicket}]
    /\ gone \in SUBSET Conn
    /\ registry \in SUBSET Conn
    /\ slot \in Deck \cup {NoDeck}
    /\ phase \in [Request -> Phase]
    /\ asked \in [Request -> Deck \cup {NoDeck}]
    /\ captured \in [Request -> Deck \cup {NoDeck}]
    /\ todo \in [Request -> SUBSET Conn]
    /\ sending \in [Request -> Conn \cup {NoConn}]
    /\ delivered \in [Request -> Nat]
    /\ receipt \in [Request -> Deck \cup {NoDeck}]
    /\ written \in [Conn -> SUBSET Request]
    /\ snap \in [Request -> SUBSET Conn]

Init ==
    /\ TicketInit
    /\ conn = [c \in Conn |-> "idle"]
    /\ presented = [c \in Conn |-> NoTicket]
    /\ gone = {}
    /\ registry = {}
    /\ slot = NoDeck
    /\ phase = [r \in Request |-> "idle"]
    /\ asked = [r \in Request |-> NoDeck]
    /\ captured = [r \in Request |-> NoDeck]
    /\ todo = [r \in Request |-> {}]
    /\ sending = [r \in Request |-> NoConn]
    /\ delivered = [r \in Request |-> 0]
    /\ receipt = [r \in Request |-> NoDeck]
    /\ written = [c \in Conn |-> {}]
    /\ snap = [r \in Request |-> {}]

-----------------------------------------------------------------------------
(* Tickets: GET /api/session and the clock. *)

MintTicket(t) ==
    /\ Mint(t)
    /\ UNCHANGED <<handlerVars, registry, slot, requestVars, historyVars>>

ClockTick ==
    /\ Tick
    /\ UNCHANGED <<handlerVars, registry, slot, requestVars, historyVars>>

-----------------------------------------------------------------------------
(* The upgrade handler.  _handshake_is_authorised never suspends, so the   *)
(* Origin check, the pop and the verdict are one step.                     *)

\* A foreign page is refused before the store is reached.
RefuseForeign(c) ==
    /\ conn[c] = "idle"
    /\ conn' = [conn EXCEPT ![c] = "closed"]
    /\ UNCHANGED <<ticketVars, presented, gone, registry, slot, requestVars,
                   historyVars>>

\* Our own page, with a ticket that is unknown, expired or already spent.
\* The pop happens all the same.
RefuseTicket(c, t) ==
    /\ conn[c] = "idle"
    /\ ~ Live(t)
    /\ Pop(t)
    /\ conn' = [conn EXCEPT ![c] = "closed"]
    /\ UNCHANGED <<now, minted, presented, gone, registry, slot, requestVars,
                   historyVars>>

Authorise(c, t) ==
    /\ conn[c] = "idle"
    /\ Live(t)
    /\ Pop(t)
    /\ conn' = [conn EXCEPT ![c] = "authorised"]
    /\ presented' = [presented EXCEPT ![c] = t]
    /\ UNCHANGED <<now, minted, gone, registry, slot, requestVars,
                   historyVars>>

\* accept() awaits: the frame is on the wire before the handler resumes.
Accept(c) ==
    /\ conn[c] = "authorised"
    /\ conn' = [conn EXCEPT ![c] = "accepted"]
    /\ UNCHANGED <<ticketVars, presented, gone, registry, slot, requestVars,
                   historyVars>>

\* accept() raised, the peer having left: closed 1011 before it was open.
AcceptFault(c) ==
    /\ conn[c] = "authorised"
    /\ c \in gone
    /\ conn' = [conn EXCEPT ![c] = "closed"]
    /\ UNCHANGED <<ticketVars, presented, gone, registry, slot, requestVars,
                   historyVars>>

Register(c) ==
    /\ conn[c] = "accepted"
    /\ registry' = registry \cup {c}
    /\ conn' = [conn EXCEPT ![c] = "draining"]
    /\ UNCHANGED <<ticketVars, presented, gone, slot, requestVars,
                   historyVars>>

\* The browser closes its socket, or its connection dies, at any time.
PeerLeaves(c) ==
    /\ conn[c] \in {"authorised", "accepted", "draining"}
    /\ c \notin gone
    /\ gone' = gone \cup {c}
    /\ UNCHANGED <<ticketVars, conn, presented, registry, slot, requestVars,
                   historyVars>>

\* receive() reports the disconnect or raises; the finally unregisters.
EndDrain(c) ==
    /\ conn[c] = "draining"
    /\ c \in gone
    /\ conn' = [conn EXCEPT ![c] = "closed"]
    /\ registry' = registry \ {c}
    /\ UNCHANGED <<ticketVars, presented, gone, slot, requestVars,
                   historyVars>>

-----------------------------------------------------------------------------
(* The fan-out: sequential awaited sends over a snapshot of the registry.  *)

\* The slot is written, read back once and the registry copied before the
\* handler first awaits.
SetActiveDeck(r, d) ==
    /\ phase[r] = "idle"
    /\ slot' = d
    /\ asked' = [asked EXCEPT ![r] = d]
    /\ captured' = [captured EXCEPT ![r] = slot']
    /\ todo' = [todo EXCEPT ![r] = registry]
    /\ phase' = [phase EXCEPT ![r] = "sending"]
    /\ snap' = [snap EXCEPT ![r] = registry]
    /\ UNCHANGED <<ticketVars, handlerVars, registry, sending, delivered,
                   receipt, written>>

\* POST /agent/events relays without touching the slot.
IngestEvent(r) ==
    /\ phase[r] = "idle"
    /\ todo' = [todo EXCEPT ![r] = registry]
    /\ snap' = [snap EXCEPT ![r] = registry]
    /\ phase' = [phase EXCEPT ![r] = "sending"]
    /\ UNCHANGED <<ticketVars, handlerVars, registry, slot, asked, captured,
                   sending, delivered, receipt, written>>

StartSend(r, c) ==
    /\ phase[r] = "sending"
    /\ sending[r] = NoConn
    /\ c \in todo[r]
    /\ sending' = [sending EXCEPT ![r] = c]
    /\ UNCHANGED <<ticketVars, handlerVars, registry, slot, phase, asked,
                   captured, todo, delivered, receipt, historyVars>>

\* A write succeeds into the transport's buffer even when the peer has left
\* and nobody has noticed yet.
SendOk(r) ==
    LET c == sending[r] IN
    /\ phase[r] = "sending"
    /\ c # NoConn
    /\ written' = [written EXCEPT ![c] = @ \cup {r}]
    /\ delivered' = [delivered EXCEPT ![r] = @ + 1]
    /\ todo' = [todo EXCEPT ![r] = @ \ {c}]
    /\ sending' = [sending EXCEPT ![r] = NoConn]
    /\ UNCHANGED <<ticketVars, handlerVars, registry, slot, phase, asked,
                   captured, receipt, snap>>

\* Two broadcasts that write to one socket at once: the loser may raise.
Contended(r) == \E q \in Request \ {r} : sending[q] = sending[r]

\* Plausible bug: the failing client is skipped but stays registered.
SendFailsKeeping(r) ==
    LET c == sending[r] IN
    /\ phase[r] = "sending"
    /\ c # NoConn
    /\ c \in gone \/ Contended(r)
    /\ phase' = [phase EXCEPT ![r] = "closing"]
    /\ UNCHANGED <<ticketVars, handlerVars, registry, slot, asked, captured,
                   todo, sending, delivered, receipt, historyVars>>

\* The exception is contained: the socket is dropped, then closed 1011.
SendFails(r) ==
    LET c == sending[r] IN
    /\ phase[r] = "sending"
    /\ c # NoConn
    /\ c \in gone \/ Contended(r)
    /\ registry' = registry \ {c}
    /\ phase' = [phase EXCEPT ![r] = "closing"]
    /\ UNCHANGED <<ticketVars, handlerVars, slot, asked, captured, todo,
                   sending, delivered, receipt, historyVars>>

\* Plausible bug: the dropped client is never closed.
FinishCloseOpen(r) ==
    LET c == sending[r] IN
    /\ phase[r] = "closing"
    /\ todo' = [todo EXCEPT ![r] = @ \ {c}]
    /\ sending' = [sending EXCEPT ![r] = NoConn]
    /\ phase' = [phase EXCEPT ![r] = "sending"]
    /\ UNCHANGED <<ticketVars, handlerVars, registry, slot, asked, captured,
                   delivered, receipt, historyVars>>

\* Plausible bug: the except arm uncounts a client it never counted.
FinishCloseUncounting(r) ==
    LET c == sending[r] IN
    /\ phase[r] = "closing"
    /\ gone' = gone \cup {c}
    /\ todo' = [todo EXCEPT ![r] = @ \ {c}]
    /\ sending' = [sending EXCEPT ![r] = NoConn]
    /\ delivered' = [delivered EXCEPT ![r] = @ - 1]
    /\ phase' = [phase EXCEPT ![r] = "sending"]
    /\ UNCHANGED <<ticketVars, conn, presented, registry, slot, asked,
                   captured, receipt, historyVars>>

\* Plausible bug: the except arm falls through to the count.
FinishCloseCounting(r) ==
    LET c == sending[r] IN
    /\ phase[r] = "closing"
    /\ gone' = gone \cup {c}
    /\ todo' = [todo EXCEPT ![r] = @ \ {c}]
    /\ sending' = [sending EXCEPT ![r] = NoConn]
    /\ delivered' = [delivered EXCEPT ![r] = @ + 1]
    /\ phase' = [phase EXCEPT ![r] = "sending"]
    /\ UNCHANGED <<ticketVars, conn, presented, registry, slot, asked,
                   captured, receipt, historyVars>>

\* _close_quietly returned; the loop continues with the next client.
FinishClose(r) ==
    LET c == sending[r] IN
    /\ phase[r] = "closing"
    /\ gone' = gone \cup {c}
    /\ todo' = [todo EXCEPT ![r] = @ \ {c}]
    /\ sending' = [sending EXCEPT ![r] = NoConn]
    /\ phase' = [phase EXCEPT ![r] = "sending"]
    /\ UNCHANGED <<ticketVars, conn, presented, registry, slot, asked,
                   captured, delivered, receipt, historyVars>>

Respond(r) ==
    /\ phase[r] = "sending"
    /\ todo[r] = {}
    /\ phase' = [phase EXCEPT ![r] = "done"]
    /\ receipt' = [receipt EXCEPT ![r] = captured[r]]
    /\ UNCHANGED <<ticketVars, handlerVars, registry, slot, asked, captured,
                   todo, sending, delivered, historyVars>>

-----------------------------------------------------------------------------
Upgrade(c) ==
    \/ RefuseForeign(c)
    \/ \E t \in Ticket \cup {NoTicket} : RefuseTicket(c, t)
    \/ \E t \in Ticket : Authorise(c, t)
    \/ Accept(c)
    \/ AcceptFault(c)
    \/ Register(c)
    \/ PeerLeaves(c)
    \/ EndDrain(c)

Serve(r) ==
    \/ \E d \in Deck : SetActiveDeck(r, d)
    \/ IngestEvent(r)
    \/ \E c \in Conn : StartSend(r, c)
    \/ SendOk(r)
    \/ SendFails(r)
    \/ FinishClose(r)
    \/ Respond(r)

Next ==
    \/ \E t \in Ticket : MintTicket(t)
    \/ ClockTick
    \/ \E c \in Conn : Upgrade(c)
    \/ \E r \in Request : Serve(r)

Spec == Init /\ [][Next]_vars

-----------------------------------------------------------------------------
(* Properties. *)

\* AD-5, state.py consume(): one ticket opens at most one socket, whatever
\* the order of mints, handshakes, expiry and eviction.
TicketSingleUse ==
    \A c, d \in Conn :
        presented[c] # NoTicket /\ presented[c] = presented[d] => c = d

\* state.py MAX_TICKETS: an unauthenticated mint cannot grow the map past its
\* bound, expired entries included.
ResidentBound == Cardinality(Resident) <= MaxTickets

\* The tickets keep both of their promises together: what bounds the map must
\* not hand a ticket out again, and the single use must not keep it.
TicketsAreSound == TicketSingleUse /\ ResidentBound

\* ws.py websocket_upgrade: the fan-out only ever holds sockets that were
\* accepted with a ticket and whose handler still drains them; no exit path,
\* and no interleaving with a broadcast that drops the same socket, leaves one
\* behind.
RegisteredIsServed ==
    \A c \in registry : conn[c] = "draining" /\ presented[c] \in minted

\* ws.py broadcast, active_deck.py: a client of a request's snapshot that is
\* still registered has its frame or is still to be written to, so a tab that
\* stays connected misses no change of the active deck.
NoMissedFrame ==
    \A r \in Request, c \in registry :
        c \in snap[r] => r \in written[c] \/ c \in todo[r]

\* ws.py broadcast drops a client that could not be written to, which a losing
\* concurrent send can make of a live tab: a socket out of the fan-out while its
\* handler drains is closed or about to be, so its tab learns of it and
\* reconnects instead of staying open and deaf.
NoDeafTab ==
    \A c \in Conn :
        conn[c] = "draining" /\ c \notin registry =>
            \/ c \in gone
            \/ \E r \in Request : phase[r] = "closing" /\ sending[r] = c

\* Being in the fan-out and being served go together, both ways.
RegistryIsTrue == RegisteredIsServed /\ NoDeafTab

\* The fan-out neither leaks a client, nor deafens one, nor skips one.
FanoutIsSound == RegistryIsTrue /\ NoMissedFrame

\* agent_events.py, ws.py broadcast: the count an answer reports is the number
\* of clients this very event was written to.
CountIsWritten ==
    \A r \in Request : delivered[r] = Cardinality({c \in Conn : r \in written[c]})

\* active_deck.py: the answer echoes what this request stored even when
\* another PUT rewrote the slot during the broadcast.
ReceiptEchoesRequest ==
    \A r \in Request : phase[r] = "done" => receipt[r] = asked[r]

\* What an agent is told of its request is true of that request, whatever the
\* overlapping ones did to the registry and the slot.
AnswersAreTrue == CountIsWritten /\ ReceiptEchoesRequest

=============================================================================
