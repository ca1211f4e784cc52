---------------------- MODULE CompanionBackendProofs ----------------------
(***************************************************************************)
(* Proofs about CompanionBackend, for every set of tickets, connections,   *)
(* requests and decks and every value of the bounds, and about Launch, for *)
(* every set of launches, ports and pushes: the backend process and what   *)
(* starts, stops and finds it.                                             *)
(*                                                                         *)
(* The argument for the fan-out: a broadcast only ever writes to sockets   *)
(* of its snapshot, and those were registered, so their handlers are       *)
(* draining or over.  A socket leaves what a broadcast still owes by being *)
(* written to, or by being dropped first; once dropped it cannot register  *)
(* again.                                                                  *)
(***************************************************************************)
EXTENDS CompanionBackend, Launch, FiniteSetTheorems, TLAPS

-----------------------------------------------------------------------------
(* Types.  TypeOK alone is not inductive: FinishClose puts sending[r] among *)
(* the closed sockets, so a closing request must be sending to one.         *)

ClosingHasConn == \A r \in Request : phase[r] = "closing" => sending[r] # NoConn

TypeInv == TypeOK /\ ClosingHasConn

LEMMA TypeInit == Init => TypeInv
  BY DEF Init, TypeInv, ClosingHasConn, TypeOK, TicketInit, TicketTypeOK, ConnState, Phase, Absent

\* Every step keeps every variable in its type.
LEMMA TypeStep == TypeInv /\ [Next]_vars => TypeInv'
<1> SUFFICES ASSUME TypeInv, [Next]_vars PROVE TypeInv'
  OBVIOUS
<1> USE TTLAssumption DEF TypeInv, ClosingHasConn, TypeOK, TicketTypeOK, ConnState,
        Phase, Absent, ticketVars, handlerVars, requestVars, historyVars
<1>1. ASSUME NEW t \in Ticket, MintTicket(t) PROVE TypeInv'
  BY <1>1 DEF MintTicket, Mint, Stored
<1>2. CASE ClockTick
  BY <1>2 DEF ClockTick, Tick
<1>3. ASSUME NEW c \in Conn, Upgrade(c) PROVE TypeInv'
  <2>1. CASE RefuseForeign(c)
    BY <2>1 DEF RefuseForeign
  <2>2. ASSUME NEW t \in Ticket \cup {NoTicket}, RefuseTicket(c, t) PROVE TypeInv'
    BY <2>2 DEF RefuseTicket, Pop
  <2>3. ASSUME NEW t \in Ticket, Authorise(c, t) PROVE TypeInv'
    BY <2>3 DEF Authorise, Pop
  <2>4. CASE Accept(c)
    BY <2>4 DEF Accept
  <2>5. CASE AcceptFault(c)
    BY <2>5 DEF AcceptFault
  <2>6. CASE Register(c)
    BY <2>6 DEF Register
  <2>7. CASE PeerLeaves(c)
    BY <2>7 DEF PeerLeaves
  <2>8. CASE EndDrain(c)
    BY <2>8 DEF EndDrain
  <2>9. QED
    BY <1>3, <2>1, <2>2, <2>3, <2>4, <2>5, <2>6, <2>7, <2>8 DEF Upgrade
<1>4. ASSUME NEW r \in Request, Serve(r) PROVE TypeInv'
  <2>1. ASSUME NEW d \in Deck, SetActiveDeck(r, d) PROVE TypeInv'
    BY <2>1 DEF SetActiveDeck
  <2>2. CASE IngestEvent(r)
    BY <2>2 DEF IngestEvent
  <2>3. ASSUME NEW c \in Conn, StartSend(r, c) PROVE TypeInv'
    BY <2>3 DEF StartSend
  <2>4. CASE SendOk(r)
    BY <2>4 DEF SendOk
  <2>5. CASE SendFails(r)
    BY <2>5 DEF SendFails
  <2>6. CASE FinishClose(r)
    BY <2>6 DEF FinishClose
  <2>7. CASE Respond(r)
    BY <2>7 DEF Respond
  <2>8. QED
    BY <1>4, <2>1, <2>2, <2>3, <2>4, <2>5, <2>6, <2>7 DEF Serve
<1>5. CASE UNCHANGED vars
  BY <1>5 DEF vars
<1>6. QED
  BY <1>1, <1>2, <1>3, <1>4, <1>5 DEF Next

\* The type invariant of the backend holds in every behaviour.
THEOREM TypeCorrect == Spec => []TypeOK
<1>1. TypeInv => TypeOK
  BY DEF TypeInv
<1>2. QED
  BY <1>1, TypeInit, TypeStep, PTL DEF Spec

-----------------------------------------------------------------------------
(* Tickets.  A ticket leaves the map in the step that spends it and is      *)
(* never issued again, so a second handshake cannot find it.                *)

SpentTickets ==
    /\ \A c \in Conn : presented[c] # NoTicket =>
            /\ presented[c] \in minted
            /\ deadlines[presented[c]] = Absent
    /\ \A t \in Ticket : deadlines[t] # Absent => t \in minted
    /\ \A c \in Conn : conn[c] = "idle" => presented[c] = NoTicket
    /\ \A c \in Conn : conn[c] \in {"authorised", "accepted", "draining"} =>
            presented[c] # NoTicket

TicketInv == SpentTickets /\ TicketSingleUse

LEMMA TicketInvInit == Init => TicketInv
  BY DEF Init, TicketInit, TicketInv, SpentTickets, TicketSingleUse, Absent

LEMMA TicketInvStep == TypeInv /\ TicketInv /\ [Next]_vars => TicketInv'
<1> SUFFICES ASSUME TypeInv, TicketInv, [Next]_vars PROVE TicketInv'
  OBVIOUS
<1> USE TTLAssumption, NoTicketAssumption
        DEF TypeInv, TypeOK, TicketTypeOK, TicketInv, SpentTickets,
            TicketSingleUse, Absent, ConnState, ticketVars, handlerVars
<1>1. ASSUME NEW t \in Ticket, MintTicket(t) PROVE TicketInv'
  <2>1. PICK kept \in Kept : deadlines' = Stored(kept, t)
    BY <1>1 DEF MintTicket, Mint
  <2>2. \A u \in Ticket : u # t /\ deadlines'[u] # 0 => deadlines[u] # 0
    BY <2>1 DEF Stored
  <2>3. t \notin minted /\ minted' = minted \cup {t} /\ UNCHANGED <<conn, presented>>
    BY <1>1 DEF MintTicket, Mint
  <2>4. deadlines' \in [Ticket -> Nat]
    BY <2>1 DEF Stored
  <2>5. QED
    BY <2>2, <2>3, <2>4
<1>2. CASE ClockTick
  BY <1>2 DEF ClockTick, Tick
<1>3. ASSUME NEW c \in Conn, Upgrade(c) PROVE TicketInv'
  <2>1. CASE RefuseForeign(c)
    BY <2>1 DEF RefuseForeign
  <2>2. ASSUME NEW t \in Ticket \cup {NoTicket}, RefuseTicket(c, t) PROVE TicketInv'
    BY <2>2 DEF RefuseTicket, Pop
  <2>3. ASSUME NEW t \in Ticket, Authorise(c, t) PROVE TicketInv'
    BY <2>3 DEF Authorise, Pop, Live
  <2>4. CASE Accept(c)
    BY <2>4 DEF Accept
  <2>5. CASE AcceptFault(c)
    BY <2>5 DEF AcceptFault
  <2>6. CASE Register(c)
    BY <2>6 DEF Register
  <2>7. CASE PeerLeaves(c)
    BY <2>7 DEF PeerLeaves
  <2>8. CASE EndDrain(c)
    BY <2>8 DEF EndDrain
  <2>9. QED
    BY <1>3, <2>1, <2>2, <2>3, <2>4, <2>5, <2>6, <2>7, <2>8 DEF Upgrade
<1>4. ASSUME NEW r \in Request, Serve(r) PROVE TicketInv'
  <2>1. UNCHANGED <<deadlines, minted, conn, presented>>
    BY <1>4 DEF Serve, SetActiveDeck, IngestEvent, StartSend, SendOk,
                SendFails, FinishClose, Respond
  <2>2. QED
    BY <2>1
<1>5. CASE UNCHANGED vars
  BY <1>5 DEF vars
<1>6. QED
  BY <1>1, <1>2, <1>3, <1>4, <1>5 DEF Next

LEMMA TicketInvCorrect == Spec => [](TypeInv /\ TicketInv)
  BY TypeInit, TypeStep, TicketInvInit, TicketInvStep, PTL DEF Spec

\* AD-5: no two sockets are ever opened by the same ticket.
THEOREM TicketsAreSingleUse == Spec => []TicketSingleUse
<1>1. TicketInv => TicketSingleUse
  BY DEF TicketInv
<1>2. QED
  BY <1>1, TicketInvCorrect, PTL

-----------------------------------------------------------------------------
(* The bound on the ticket map.                                             *)

\* A set of tickets, less its earliest when it is full, leaves room for one.
LEMMA KeptIsSmall ==
    ASSUME TypeOK, NEW kept \in Kept, Cardinality(Unexpired) <= MaxTickets
    PROVE  /\ kept \in SUBSET Unexpired
           /\ IsFiniteSet(kept)
           /\ Cardinality(kept) \in Nat
           /\ Cardinality(kept) <= MaxTickets - 1
<1>1. IsFiniteSet(Unexpired) /\ Cardinality(Unexpired) \in Nat
  BY TicketAssumption, FS_Subset, FS_CardinalityType DEF Unexpired
<1>2. CASE Cardinality(Unexpired) >= MaxTickets
  <2>1. PICK e \in Earliest(Unexpired) : kept = Unexpired \ {e}
    BY <1>2 DEF Kept
  <2>2. e \in Unexpired
    BY DEF Earliest
  <2>3. IsFiniteSet(kept) /\ Cardinality(kept) = Cardinality(Unexpired) - 1
    BY <1>1, <2>1, <2>2, FS_RemoveElement
  <2>4. Cardinality(kept) \in Nat
    BY <2>3, FS_CardinalityType
  <2>5. QED
    BY <1>1, <2>1, <2>3, <2>4, MaxTicketsAssumption
<1>3. CASE ~ (Cardinality(Unexpired) >= MaxTickets)
  <2>1. kept = Unexpired
    BY <1>3 DEF Kept
  <2>2. QED
    BY <1>1, <1>3, <2>1, MaxTicketsAssumption
<1>4. QED
  BY <1>2, <1>3

LEMMA ResidentBoundStep == TypeInv /\ ResidentBound /\ [Next]_vars => ResidentBound'
<1> SUFFICES ASSUME TypeInv, ResidentBound, [Next]_vars PROVE ResidentBound'
  OBVIOUS
<1>1. TypeOK /\ TypeOK'
  BY TypeStep DEF TypeInv
<1>2. IsFiniteSet(Resident) /\ Cardinality(Resident) \in Nat
  BY TicketAssumption, FS_Subset, FS_CardinalityType DEF Resident
<1>3. CASE Resident' \in SUBSET Resident
  <2>1. IsFiniteSet(Resident') /\ Cardinality(Resident') <= Cardinality(Resident)
    BY <1>2, <1>3, FS_Subset
  <2>2. Cardinality(Resident') \in Nat
    BY <2>1, FS_CardinalityType
  <2>3. QED
    BY <1>2, <2>1, <2>2, MaxTicketsAssumption DEF ResidentBound
<1>4. ASSUME NEW t \in Ticket, MintTicket(t) PROVE ResidentBound'
  <2>1. PICK kept \in Kept : deadlines' = Stored(kept, t)
    BY <1>4 DEF MintTicket, Mint
  <2>2. Unexpired \in SUBSET Resident
    BY <1>1 DEF Unexpired, Resident, Absent, TypeOK, TicketTypeOK
  <2>3. IsFiniteSet(Unexpired) /\ Cardinality(Unexpired) <= Cardinality(Resident)
    BY <1>2, <2>2, FS_Subset
  <2>4. Cardinality(Unexpired) \in Nat
    BY <2>3, FS_CardinalityType
  <2>5. Cardinality(Unexpired) <= MaxTickets
    BY <1>2, <2>3, <2>4, MaxTicketsAssumption DEF ResidentBound
  <2>6. /\ IsFiniteSet(kept)
        /\ Cardinality(kept) \in Nat
        /\ Cardinality(kept) <= MaxTickets - 1
    BY <1>1, <2>5, KeptIsSmall
  <2>7. Resident' \in SUBSET (kept \cup {t})
    BY <2>1 DEF Stored, Resident
  <2>8. /\ IsFiniteSet(kept \cup {t})
        /\ \/ Cardinality(kept \cup {t}) = Cardinality(kept)
           \/ Cardinality(kept \cup {t}) = Cardinality(kept) + 1
    BY <2>6, FS_AddElement
  <2>9. IsFiniteSet(Resident') /\ Cardinality(Resident') <= Cardinality(kept \cup {t})
    BY <2>7, <2>8, FS_Subset
  <2>10. Cardinality(Resident') \in Nat
    BY <2>9, FS_CardinalityType
  <2>11. QED
    BY <2>6, <2>8, <2>9, <2>10, MaxTicketsAssumption DEF ResidentBound
<1>5. ASSUME NEW c \in Conn, Upgrade(c) PROVE Resident' \in SUBSET Resident
  <2>1. ASSUME NEW t \in Ticket \cup {NoTicket}, Pop(t) PROVE Resident' \in SUBSET Resident
    BY <2>1 DEF Pop, Resident, Absent
  <2>2. CASE UNCHANGED deadlines
    BY <2>2 DEF Resident
  <2>3. QED
    BY <1>5, <2>1, <2>2 DEF Upgrade, RefuseForeign, RefuseTicket, Authorise,
       Accept, AcceptFault, Register, PeerLeaves, EndDrain, ticketVars
<1>6. ASSUME UNCHANGED deadlines PROVE Resident' \in SUBSET Resident
  BY <1>6 DEF Resident
<1>7. ASSUME NEW r \in Request, Serve(r) PROVE UNCHANGED deadlines
  BY <1>7 DEF Serve, SetActiveDeck, IngestEvent, StartSend, SendOk,
              SendFails, FinishClose, Respond, ticketVars
<1>8. ClockTick \/ UNCHANGED vars => UNCHANGED deadlines
  BY DEF ClockTick, Tick, vars, ticketVars
<1>9. QED
  BY <1>3, <1>4, <1>5, <1>6, <1>7, <1>8 DEF Next

\* MAX_TICKETS: however often the unauthenticated mint is called, the map
\* holds no more tickets than its bound.
THEOREM ResidentTicketsAreBounded == Spec => []ResidentBound
<1>1. Init => ResidentBound
  <2> SUFFICES ASSUME Init PROVE ResidentBound
    OBVIOUS
  <2>1. Resident = {}
    BY DEF Init, TicketInit, Resident
  <2>2. QED
    BY <2>1, FS_EmptySet, MaxTicketsAssumption DEF ResidentBound
<1>2. QED
  BY <1>1, TypeInit, TypeStep, ResidentBoundStep, PTL DEF Spec

\* Both promises of the ticket store: a ticket opens at most one socket, and
\* the map of tickets stays within its bound.
THEOREM TicketsStaySound == Spec => []TicketsAreSound
<1>1. TicketSingleUse /\ ResidentBound => TicketsAreSound
  BY DEF TicketsAreSound
<1>2. QED
  BY <1>1, TicketsAreSingleUse, ResidentTicketsAreBounded, PTL

-----------------------------------------------------------------------------

-----------------------------------------------------------------------------
(* The registry and the fan-out: the inductive invariant. *)

RegistryDrains == \A c \in registry : conn[c] = "draining"

SnapshotWasOpen ==
    \A r \in Request : \A c \in snap[r] : conn[c] \in {"draining", "closed"}

OwedIsOfSnapshot == \A r \in Request : todo[r] \subseteq snap[r]

SendingIsOwed ==
    \A r \in Request : sending[r] # NoConn =>
        phase[r] \in {"sending", "closing"} /\ sending[r] \in todo[r]

ClosingIsDropped ==
    \A r \in Request : phase[r] = "closing" => sending[r] \notin registry

OwedIsUnwritten ==
    \A r \in Request, c \in Conn :
        phase[r] = "idle" \/ c \in todo[r] => r \notin written[c]

FanoutInv ==
    /\ RegistryDrains
    /\ SnapshotWasOpen
    /\ OwedIsOfSnapshot
    /\ SendingIsOwed
    /\ ClosingIsDropped
    /\ OwedIsUnwritten

LEMMA FanoutInit == Init => FanoutInv
  BY DEF Init, FanoutInv, RegistryDrains, SnapshotWasOpen, OwedIsOfSnapshot,
         SendingIsOwed, ClosingIsDropped, OwedIsUnwritten

\* A step of an upgrade handler: it registers a socket no broadcast knows, and
\* unregisters on its way out.
LEMMA FanoutUpgrade ==
    ASSUME TypeInv, FanoutInv, NEW c \in Conn, Upgrade(c)
    PROVE  FanoutInv'
<1> USE DEF TypeInv, TypeOK, FanoutInv, RegistryDrains, SnapshotWasOpen,
            OwedIsOfSnapshot, SendingIsOwed, ClosingIsDropped, OwedIsUnwritten,
            ClosingHasConn, requestVars, historyVars
<1>1. CASE RefuseForeign(c)
  BY <1>1 DEF RefuseForeign
<1>2. ASSUME NEW t \in Ticket \cup {NoTicket}, RefuseTicket(c, t) PROVE FanoutInv'
  BY <1>2 DEF RefuseTicket
<1>3. ASSUME NEW t \in Ticket, Authorise(c, t) PROVE FanoutInv'
  BY <1>3 DEF Authorise
<1>4. CASE Accept(c) \/ AcceptFault(c)
  BY <1>4 DEF Accept, AcceptFault
<1>5. CASE Register(c)
  BY <1>5 DEF Register
<1>6. CASE PeerLeaves(c)
  BY <1>6 DEF PeerLeaves
<1>7. CASE EndDrain(c)
  BY <1>7 DEF EndDrain
<1>8. QED
  BY <1>1, <1>2, <1>3, <1>4, <1>5, <1>6, <1>7 DEF Upgrade

\* A step of a request's handler.
LEMMA FanoutServe ==
    ASSUME TypeInv, FanoutInv, NEW r \in Request, Serve(r)
    PROVE  FanoutInv'
<1> USE DEF TypeInv, TypeOK, FanoutInv, RegistryDrains, SnapshotWasOpen,
            OwedIsOfSnapshot, SendingIsOwed, ClosingIsDropped, OwedIsUnwritten,
            ClosingHasConn, handlerVars, historyVars
<1>1. ASSUME NEW d \in Deck, SetActiveDeck(r, d) PROVE FanoutInv'
  BY <1>1 DEF SetActiveDeck
<1>2. CASE IngestEvent(r)
  BY <1>2 DEF IngestEvent
<1>3. ASSUME NEW c \in Conn, StartSend(r, c) PROVE FanoutInv'
  BY <1>3, ConnAssumption DEF StartSend
<1>4. CASE SendOk(r)
  BY <1>4 DEF SendOk
<1>5. CASE SendFails(r)
  BY <1>5 DEF SendFails
<1>6. CASE FinishClose(r)
  BY <1>6 DEF FinishClose
<1>7. CASE Respond(r)
  BY <1>7 DEF Respond
<1>8. QED
  BY <1>1, <1>2, <1>3, <1>4, <1>5, <1>6, <1>7 DEF Serve

LEMMA FanoutStep == TypeInv /\ FanoutInv /\ [Next]_vars => FanoutInv'
<1> SUFFICES ASSUME TypeInv, FanoutInv, [Next]_vars PROVE FanoutInv'
  OBVIOUS
<1>1. ASSUME UNCHANGED <<handlerVars, registry, requestVars, historyVars>>
      PROVE  FanoutInv'
  BY <1>1 DEF FanoutInv, RegistryDrains, SnapshotWasOpen, OwedIsOfSnapshot,
       SendingIsOwed, ClosingIsDropped, OwedIsUnwritten, handlerVars,
       requestVars, historyVars
<1>2. QED
  BY <1>1, FanoutUpgrade, FanoutServe DEF Next, MintTicket, ClockTick, vars

LEMMA FanoutCorrect == Spec => [](TypeInv /\ TicketInv /\ FanoutInv)
  BY TicketInvCorrect, FanoutInit, FanoutStep, PTL DEF Spec

-----------------------------------------------------------------------------

\* Only sockets whose handler still drains them, opened by a ticket that was
\* minted, are ever in the registry.
THEOREM OnlyServedSocketsAreRegistered == Spec => []RegisteredIsServed
<1>1. TypeInv /\ TicketInv /\ FanoutInv => RegisteredIsServed
  BY DEF TypeInv, TypeOK, TicketInv, SpentTickets, FanoutInv, RegistryDrains,
         RegisteredIsServed
<1>2. QED
  BY <1>1, FanoutCorrect, PTL

-----------------------------------------------------------------------------
(* No frame is missed. *)

LEMMA NoMissedFrameStep ==
    TypeInv /\ FanoutInv /\ NoMissedFrame /\ [Next]_vars => NoMissedFrame'
<1> SUFFICES ASSUME TypeInv, FanoutInv, NoMissedFrame, [Next]_vars
             PROVE  NoMissedFrame'
  OBVIOUS
<1> USE DEF TypeInv, TypeOK, FanoutInv, NoMissedFrame
<1>1. ASSUME NEW c \in Conn, Upgrade(c) PROVE NoMissedFrame'
  <2>1. UNCHANGED <<todo, written, snap>>
    BY <1>1 DEF Upgrade, RefuseForeign, RefuseTicket, Authorise, Accept,
         AcceptFault, Register, PeerLeaves, EndDrain, requestVars, historyVars
  <2>2. CASE registry' \subseteq registry
    BY <2>1, <2>2
  <2>3. CASE Register(c)
    BY <2>1, <2>3 DEF Register, SnapshotWasOpen
  <2>4. QED
    BY <1>1, <2>2, <2>3 DEF Upgrade, RefuseForeign, RefuseTicket, Authorise,
         Accept, AcceptFault, PeerLeaves, EndDrain
<1>2. ASSUME NEW r \in Request, Serve(r) PROVE NoMissedFrame'
  <2>1. CASE \E d \in Deck : SetActiveDeck(r, d)
    BY <2>1 DEF SetActiveDeck
  <2>2. CASE IngestEvent(r)
    BY <2>2 DEF IngestEvent
  <2>3. CASE (\E c \in Conn : StartSend(r, c)) \/ Respond(r)
    BY <2>3 DEF StartSend, Respond, historyVars
  <2>4. CASE SendOk(r)
    BY <2>4 DEF SendOk
  <2>5. CASE SendFails(r)
    BY <2>5 DEF SendFails, historyVars
  <2>6. CASE FinishClose(r)
    BY <2>6 DEF FinishClose, ClosingIsDropped, historyVars
  <2>7. QED
    BY <1>2, <2>1, <2>2, <2>3, <2>4, <2>5, <2>6 DEF Serve
<1>3. ASSUME UNCHANGED <<registry, requestVars, historyVars>> PROVE NoMissedFrame'
  BY <1>3 DEF requestVars, historyVars
<1>4. QED
  BY <1>1, <1>2, <1>3 DEF Next, MintTicket, ClockTick, vars

\* A client of a broadcast's snapshot that is still registered was written to
\* or is still owed the frame, however broadcasts, joins and drops overlap.
THEOREM NoRegisteredClientIsSkipped == Spec => []NoMissedFrame
<1>1. Init => NoMissedFrame
  BY DEF Init, NoMissedFrame
<1>2. QED
  BY <1>1, FanoutCorrect, NoMissedFrameStep, PTL DEF Spec

-----------------------------------------------------------------------------
(* No tab is deaf without learning of it. *)

LEMMA NoDeafTabStep == TypeInv /\ NoDeafTab /\ [Next]_vars => NoDeafTab'
<1> SUFFICES ASSUME TypeInv, NoDeafTab, [Next]_vars PROVE NoDeafTab'
  OBVIOUS
<1> USE DEF TypeInv, TypeOK, NoDeafTab
<1>1. ASSUME NEW c \in Conn, Upgrade(c) PROVE NoDeafTab'
  <2>1. UNCHANGED <<phase, sending>> /\ gone \subseteq gone'
    BY <1>1 DEF Upgrade, RefuseForeign, RefuseTicket, Authorise, Accept,
         AcceptFault, Register, PeerLeaves, EndDrain, requestVars
  <2>2. \A d \in Conn : conn'[d] = "draining" /\ d \notin registry' =>
            conn[d] = "draining" /\ d \notin registry
    BY <1>1 DEF Upgrade, RefuseForeign, RefuseTicket, Authorise, Accept,
         AcceptFault, Register, PeerLeaves, EndDrain
  <2>3. QED
    BY <2>1, <2>2
<1>2. ASSUME NEW r \in Request, Serve(r) PROVE NoDeafTab'
  <2>1. CASE \E d \in Deck : SetActiveDeck(r, d)
    BY <2>1 DEF SetActiveDeck, handlerVars
  <2>2. CASE IngestEvent(r)
    BY <2>2 DEF IngestEvent, handlerVars
  <2>3. CASE \E c \in Conn : StartSend(r, c)
    BY <2>3 DEF StartSend, handlerVars
  <2>4. CASE SendOk(r) \/ Respond(r)
    BY <2>4 DEF SendOk, Respond, handlerVars
  <2>5. CASE SendFails(r)
    BY <2>5 DEF SendFails, handlerVars
  <2>6. CASE FinishClose(r)
    BY <2>6 DEF FinishClose
  <2>7. QED
    BY <1>2, <2>1, <2>2, <2>3, <2>4, <2>5, <2>6 DEF Serve
<1>3. ASSUME UNCHANGED <<handlerVars, registry, requestVars>> PROVE NoDeafTab'
  BY <1>3 DEF handlerVars, requestVars
<1>4. QED
  BY <1>1, <1>2, <1>3 DEF Next, MintTicket, ClockTick, vars

\* A tab dropped from the fan-out while its handler drains is closed, or the
\* broadcast that dropped it is about to close it.
THEOREM NoTabStaysDeaf == Spec => []NoDeafTab
<1>1. Init => NoDeafTab
  BY DEF Init, NoDeafTab
<1>2. QED
  BY <1>1, TypeInit, TypeStep, NoDeafTabStep, PTL DEF Spec

\* A socket in the fan-out is served, and one taken out of it while served is
\* being closed.
THEOREM RegistryTellsTheTruth == Spec => []RegistryIsTrue
<1>1. RegisteredIsServed /\ NoDeafTab => RegistryIsTrue
  BY DEF RegistryIsTrue
<1>2. QED
  BY <1>1, OnlyServedSocketsAreRegistered, NoTabStaysDeaf, PTL

\* The registry and the frames together, the property the backend run checks.
THEOREM FanoutStaysSound == Spec => []FanoutIsSound
<1>1. RegistryIsTrue /\ NoMissedFrame => FanoutIsSound
  BY DEF FanoutIsSound
<1>2. QED
  BY <1>1, RegistryTellsTheTruth, NoRegisteredClientIsSkipped, PTL

-----------------------------------------------------------------------------
(* What the answers say. *)

CapturedIsAsked == \A r \in Request : captured[r] = asked[r]

ReceiptInv == CapturedIsAsked /\ ReceiptEchoesRequest

LEMMA ReceiptStep == TypeInv /\ ReceiptInv /\ [Next]_vars => ReceiptInv'
<1> SUFFICES ASSUME TypeInv, ReceiptInv, [Next]_vars PROVE ReceiptInv'
  OBVIOUS
<1> USE DEF TypeInv, TypeOK, ReceiptInv, CapturedIsAsked, ReceiptEchoesRequest
<1>1. ASSUME NEW r \in Request, Serve(r) PROVE ReceiptInv'
  BY <1>1 DEF Serve, SetActiveDeck, IngestEvent, StartSend, SendOk, SendFails,
       FinishClose, Respond
<1>2. ASSUME UNCHANGED requestVars PROVE ReceiptInv'
  BY <1>2 DEF requestVars
<1>3. ASSUME NEW c \in Conn, Upgrade(c) PROVE UNCHANGED requestVars
  BY <1>3 DEF Upgrade, RefuseForeign, RefuseTicket, Authorise, Accept,
       AcceptFault, Register, PeerLeaves, EndDrain
<1>4. QED
  BY <1>1, <1>2, <1>3 DEF Next, MintTicket, ClockTick, vars

\* The answer of a PUT names the deck it stored, whatever else was stored while
\* it awaited its broadcast.
THEOREM AnswersEchoTheirRequest == Spec => []ReceiptEchoesRequest
<1>1. Init => ReceiptInv
  BY DEF Init, ReceiptInv, CapturedIsAsked, ReceiptEchoesRequest
<1>2. ReceiptInv => ReceiptEchoesRequest
  BY DEF ReceiptInv
<1>3. QED
  BY <1>1, <1>2, TypeInit, TypeStep, ReceiptStep, PTL DEF Spec

Receivers(r) == {c \in Conn : r \in written[c]}

\* Only a completed send adds a receiver, and never one that had the frame.
LEMMA CountStep == TypeInv /\ FanoutInv /\ CountIsWritten /\ [Next]_vars => CountIsWritten'
<1> SUFFICES ASSUME TypeInv, FanoutInv, CountIsWritten, [Next]_vars
             PROVE  CountIsWritten'
  OBVIOUS
<1>1. ASSUME UNCHANGED <<delivered, written>> PROVE CountIsWritten'
  BY <1>1 DEF CountIsWritten
<1>2. ASSUME NEW r \in Request, SendOk(r) PROVE CountIsWritten'
  <2> DEFINE c == sending[r]
  <2>1. c \in Conn /\ r \notin written[c]
    BY <1>2 DEF SendOk, TypeInv, TypeOK, FanoutInv, SendingIsOwed, OwedIsUnwritten
  <2>2. /\ written' = [written EXCEPT ![c] = @ \cup {r}]
        /\ delivered' = [delivered EXCEPT ![r] = @ + 1]
    BY <1>2 DEF SendOk
  <2>3. Receivers(r)' = Receivers(r) \cup {c} /\ c \notin Receivers(r)
    BY <2>1, <2>2 DEF Receivers, TypeInv, TypeOK
  <2>4. IsFiniteSet(Receivers(r))
    BY ConnAssumption, FS_Subset DEF Receivers
  <2>5. Cardinality(Receivers(r)') = Cardinality(Receivers(r)) + 1
    BY <2>3, <2>4, FS_AddElement
  <2>6. \A q \in Request \ {r} : Receivers(q)' = Receivers(q)
    BY <2>1, <2>2 DEF Receivers, TypeInv, TypeOK
  <2>7. \A q \in Request : delivered[q] = Cardinality(Receivers(q))
    BY DEF CountIsWritten, Receivers
  <2>8. \A q \in Request : delivered'[q] = Cardinality(Receivers(q)')
    BY <2>2, <2>5, <2>6, <2>7 DEF TypeInv, TypeOK
  <2>9. QED
    BY <2>8 DEF CountIsWritten, Receivers
<1>3. ASSUME NEW r \in Request, Serve(r), ~ SendOk(r)
      PROVE  UNCHANGED <<delivered, written>>
  BY <1>3 DEF Serve, SetActiveDeck, IngestEvent, StartSend, SendFails, FinishClose,
       Respond, historyVars
<1>4. ASSUME NEW c \in Conn, Upgrade(c) PROVE UNCHANGED <<delivered, written>>
  BY <1>4 DEF Upgrade, RefuseForeign, RefuseTicket, Authorise, Accept,
       AcceptFault, Register, PeerLeaves, EndDrain, requestVars, historyVars
<1>5. QED
  BY <1>1, <1>2, <1>3, <1>4 DEF Next, MintTicket, ClockTick, vars, requestVars,
       historyVars

\* The number of clients an answer reports is the number that were sent this
\* very event: none twice, none dropped on the way.
THEOREM CountsAreOfClientsWritten == Spec => []CountIsWritten
<1>1. Init => CountIsWritten
  <2> SUFFICES ASSUME Init PROVE CountIsWritten
    OBVIOUS
  <2>1. \A r \in Request : {c \in Conn : r \in written[c]} = {}
    BY DEF Init
  <2>2. \A r \in Request : delivered[r] = 0
    BY DEF Init
  <2>3. QED
    BY <2>1, <2>2, FS_EmptySet DEF CountIsWritten
<1>2. QED
  BY <1>1, FanoutCorrect, CountStep, PTL DEF Spec

\* Both halves of an answer, the count and the echo, are true of its request.
THEOREM AnswersTellTheTruth == Spec => []AnswersAreTrue
<1>1. CountIsWritten /\ ReceiptEchoesRequest => AnswersAreTrue
  BY DEF AnswersAreTrue
<1>2. QED
  BY <1>1, AnswersEchoTheirRequest, CountsAreOfClientsWritten, PTL

-----------------------------------------------------------------------------
(* Launching, stopping and being found.                                    *)
(*                                                                         *)
(* The argument: a process is past the lock exactly while it is the one    *)
(* the kernel says holds it (LockIsHeld), because every way out of run(),  *)
(* and death, gives the lock up last.  Whatever touches companion.json is  *)
(* past the lock, so nobody touches it while another companion serves.     *)

(* LaunchTypeOK alone is not inductive: what is published is the port that  *)
(* was bound, and a refused push takes from the attempts it has left.       *)

BoundHasPort == \A p \in Proc : pc[p] = "bound" => port[p] \in Port

AttemptIsPaid == \A k \in Call : call[k] \in {"idle", "sending"} => left[k] \in 1..2

LaunchTypeInv == LaunchTypeOK /\ BoundHasPort /\ AttemptIsPaid

LEMMA LaunchTypeInit == LaunchInit => LaunchTypeInv
  BY DEF LaunchInit, LaunchTypeInv, LaunchTypeOK, BoundHasPort, AttemptIsPaid,
         Record, NoRecord, ProcState, CallState

\* A step of run() keeps the types; it touches nothing of the pushes.
LEMMA LaunchTypeRun ==
    ASSUME LaunchTypeInv, NEW p \in Proc, Start(p) \/ Shutdown(p)
    PROVE  LaunchTypeInv'
<1> USE DEF LaunchTypeInv, LaunchTypeOK, BoundHasPort, AttemptIsPaid, Record,
            NoRecord, ProcState, Holding, Starting, Stopping, Goto, callVars
<1>1. CASE ReadRecord(p)
  BY <1>1 DEF ReadRecord
<1>2. CASE ProbeFinds(p) \/ ProbeFails(p)
  BY <1>2 DEF ProbeFinds, ProbeFails
<1>3. CASE AcquireInstanceLock(p) \/ LockRefused(p)
  BY <1>3 DEF AcquireInstanceLock, LockRefused
<1>4. ASSUME NEW n \in Port, BindLocalhostSocket(p, n) PROVE LaunchTypeInv'
  BY <1>4 DEF BindLocalhostSocket
<1>5. CASE BindFails(p) \/ PublishFails(p) \/ Listen(p)
  BY <1>5 DEF BindFails, PublishFails, Listen
<1>6. CASE PublishDiscovery(p)
  BY <1>6 DEF PublishDiscovery
<1>7. CASE Stop(p) \/ ReadBack(p)
  BY <1>7 DEF Stop, ReadBack
<1>8. CASE Unlink(p) \/ UnlinkFails(p)
  BY <1>8 DEF Unlink, UnlinkFails
<1>9. CASE CloseSocket(p) \/ ReleaseInstanceLock(p)
  BY <1>9 DEF CloseSocket, ReleaseInstanceLock
<1>10. CASE Die(p)
  BY <1>10 DEF Die
<1>11. QED
  BY <1>1, <1>2, <1>3, <1>4, <1>5, <1>6, <1>7, <1>8, <1>9, <1>10 DEF Start, Shutdown

\* A step of push_event keeps the types; it touches nothing of the launches.
LEMMA LaunchTypePush ==
    ASSUME LaunchTypeInv, NEW k \in Call, Push(k)
    PROVE  LaunchTypeInv'
<1> USE DEF LaunchTypeInv, LaunchTypeOK, BoundHasPort, AttemptIsPaid, CallState,
            procVars, Finish
<1>1. CASE PushRead(k)
  BY <1>1 DEF PushRead
<1>2. CASE PushUnconnected(k)
  BY <1>2 DEF PushUnconnected
<1>3. CASE PushAccepted(k)
  BY <1>3 DEF PushAccepted
<1>4. CASE PushRefused(k)
  BY <1>4 DEF PushRefused
<1>5. CASE PushUnanswered(k)
  BY <1>5 DEF PushUnanswered
<1>6. QED
  BY <1>1, <1>2, <1>3, <1>4, <1>5 DEF Push

LEMMA LaunchTypeStep == LaunchTypeInv /\ [LaunchNext]_launchVars => LaunchTypeInv'
<1> SUFFICES ASSUME LaunchTypeInv, [LaunchNext]_launchVars PROVE LaunchTypeInv'
  OBVIOUS
<1>1. ASSUME NEW n \in Port, ForeignTakes(n) \/ ForeignLeaves(n) PROVE LaunchTypeInv'
  BY <1>1 DEF LaunchTypeInv, LaunchTypeOK, BoundHasPort, AttemptIsPaid, ForeignTakes,
              ForeignLeaves, procVars, callVars
<1>2. CASE UNCHANGED launchVars
  BY <1>2 DEF LaunchTypeInv, LaunchTypeOK, BoundHasPort, AttemptIsPaid, launchVars,
              procVars, callVars
<1>3. QED
  BY <1>1, <1>2, LaunchTypeRun, LaunchTypePush DEF LaunchNext

\* The type invariant of launching and pushing holds in every behaviour.
THEOREM LaunchTypeCorrect == LaunchSpec => []LaunchTypeOK
<1>1. LaunchTypeInv => LaunchTypeOK
  BY DEF LaunchTypeInv
<1>2. QED
  BY <1>1, LaunchTypeInit, LaunchTypeStep, PTL DEF LaunchSpec

-----------------------------------------------------------------------------
(* The lock and the discovery file.                                        *)

LockIsHeld == \A p \in Proc : pc[p] \in Holding <=> lock = p

LockInv == LockIsHeld /\ ServingIsDiscoverable

LEMMA LockInit == LaunchInit => LockInv
  BY ProcAssumption DEF LaunchInit, LockInv, LockIsHeld, ServingIsDiscoverable,
                        Holding, Starting, Stopping

\* Of the steps of run(), only those of the lock's holder reach the file, and
\* only acquiring, releasing and dying change the holder.
LEMMA LockRun ==
    ASSUME LaunchTypeInv, LockInv, NEW p \in Proc, Start(p) \/ Shutdown(p)
    PROVE  LockInv'
<1> USE ProcAssumption
        DEF LaunchTypeInv, LaunchTypeOK, LockInv, LockIsHeld, ServingIsDiscoverable,
            ProcState, Holding, Starting, Stopping, Goto
<1>1. CASE ReadRecord(p) \/ ProbeFinds(p) \/ ProbeFails(p) \/ LockRefused(p)
  BY <1>1 DEF ReadRecord, ProbeFinds, ProbeFails, LockRefused
<1>2. CASE AcquireInstanceLock(p)
  BY <1>2 DEF AcquireInstanceLock
<1>3. ASSUME NEW n \in Port, BindLocalhostSocket(p, n) PROVE LockInv'
  BY <1>3 DEF BindLocalhostSocket
<1>4. CASE BindFails(p) \/ PublishFails(p) \/ Listen(p)
  BY <1>4 DEF BindFails, PublishFails, Listen
<1>5. CASE PublishDiscovery(p)
  <2>1. \A q \in Proc : pc'[q] \in {"published", "serving"} => q = p
    BY <1>5 DEF PublishDiscovery
  <2>2. file' = [owner |-> p, port |-> port'[p]]
    BY <1>5 DEF PublishDiscovery
  <2>3. ServingIsDiscoverable'
    BY <2>1, <2>2
  <2>4. LockIsHeld'
    BY <1>5 DEF PublishDiscovery
  <2>5. QED
    BY <2>3, <2>4
<1>6. CASE Stop(p) \/ ReadBack(p) \/ UnlinkFails(p)
  BY <1>6 DEF Stop, ReadBack, UnlinkFails
<1>7. CASE Unlink(p)
  <2>1. \A q \in Proc : pc'[q] \notin {"published", "serving"}
    BY <1>7 DEF Unlink
  <2>2. LockIsHeld'
    BY <1>7 DEF Unlink
  <2>3. QED
    BY <2>1, <2>2
<1>8. CASE CloseSocket(p) \/ ReleaseInstanceLock(p)
  BY <1>8 DEF CloseSocket, ReleaseInstanceLock
<1>9. CASE Die(p)
  BY <1>9 DEF Die
<1>10. QED
  BY <1>1, <1>2, <1>3, <1>4, <1>5, <1>6, <1>7, <1>8, <1>9 DEF Start, Shutdown

LEMMA LockStep == LaunchTypeInv /\ LockInv /\ [LaunchNext]_launchVars => LockInv'
<1> SUFFICES ASSUME LaunchTypeInv, LockInv, [LaunchNext]_launchVars PROVE LockInv'
  OBVIOUS
<1>1. ASSUME UNCHANGED procVars PROVE LockInv'
  BY <1>1 DEF LockInv, LockIsHeld, ServingIsDiscoverable, procVars
<1>2. ASSUME NEW k \in Call, Push(k) PROVE UNCHANGED procVars
  BY <1>2 DEF Push, PushRead, PushUnconnected, PushAccepted, PushRefused,
              PushUnanswered, Finish
<1>3. ASSUME NEW n \in Port, ForeignTakes(n) \/ ForeignLeaves(n)
      PROVE  UNCHANGED procVars
  BY <1>3 DEF ForeignTakes, ForeignLeaves
<1>4. QED
  BY <1>1, <1>2, <1>3, LockRun DEF LaunchNext, launchVars

LEMMA LockCorrect == LaunchSpec => []LockInv
  BY LaunchTypeInit, LaunchTypeStep, LockInit, LockStep, PTL DEF LaunchSpec

\* However launches, stops and deaths interleave, at most one companion is
\* between taking the lock and having given everything up.
THEOREM OneCompanionAtATime == LaunchSpec => []OneCompanion
<1>1. LockInv => OneCompanion
  BY DEF LockInv, LockIsHeld, OneCompanion
<1>2. QED
  BY <1>1, LockCorrect, PTL

\* The discovery file names the companion that serves for as long as it does,
\* although remove_discovery reads it in one step and unlinks it in another.
THEOREM ServingCompanionIsDiscoverable == LaunchSpec => []ServingIsDiscoverable
<1>1. LockInv => ServingIsDiscoverable
  BY DEF LockInv
<1>2. QED
  BY <1>1, LockCorrect, PTL

-----------------------------------------------------------------------------
(* Pushes.                                                                 *)

LEMMA PushStep ==
    LaunchTypeInv /\ PushAtMostOnce /\ [LaunchNext]_launchVars => PushAtMostOnce'
<1> SUFFICES ASSUME LaunchTypeInv, PushAtMostOnce, [LaunchNext]_launchVars
             PROVE  PushAtMostOnce'
  OBVIOUS
<1> USE DEF LaunchTypeInv, LaunchTypeOK, PushAtMostOnce
<1>1. ASSUME NEW k \in Call, Push(k) PROVE PushAtMostOnce'
  <2>1. CASE PushRead(k)
    BY <2>1 DEF PushRead
  <2>2. CASE PushUnconnected(k) \/ PushUnanswered(k)
    BY <2>2 DEF PushUnconnected, PushUnanswered, Finish
  <2>3. CASE PushAccepted(k)
    BY <2>3 DEF PushAccepted, Finish
  <2>4. CASE PushRefused(k)
    BY <2>4 DEF PushRefused
  <2>5. QED
    BY <1>1, <2>1, <2>2, <2>3, <2>4 DEF Push
<1>2. ASSUME UNCHANGED callVars PROVE PushAtMostOnce'
  BY <1>2 DEF callVars
<1>3. ASSUME NEW p \in Proc, Start(p) \/ Shutdown(p) PROVE UNCHANGED callVars
  BY <1>3 DEF Start, Shutdown, ReadRecord, ProbeFinds, ProbeFails,
              AcquireInstanceLock, LockRefused, BindLocalhostSocket, BindFails,
              PublishDiscovery, PublishFails, Listen, Stop, ReadBack, Unlink,
              UnlinkFails, CloseSocket, ReleaseInstanceLock, Die
<1>4. ASSUME NEW n \in Port, ForeignTakes(n) \/ ForeignLeaves(n)
      PROVE  UNCHANGED callVars
  BY <1>4 DEF ForeignTakes, ForeignLeaves
<1>5. QED
  BY <1>1, <1>2, <1>3, <1>4 DEF LaunchNext, launchVars

\* One retry, a restart between the two attempts and a lost answer included, a
\* push is taken at most once, and what it reports is true as far as it goes.
THEOREM PushIsTakenAtMostOnce == LaunchSpec => []PushAtMostOnce
<1>1. LaunchInit => PushAtMostOnce
  BY DEF LaunchInit, PushAtMostOnce
<1>2. QED
  BY <1>1, LaunchTypeInit, LaunchTypeStep, PushStep, PTL DEF LaunchSpec

=============================================================================
