------------------------------- MODULE Glass -------------------------------
(***************************************************************************)
(* One tab and one backend: the deck the agent set, the deck database, the *)
(* HTTP reads of the tab, and the socket whose frames say that something   *)
(* changed without saying what (ui/src/state/connection.ts over            *)
(* deck.ts, poller.ts and systemState.ts; src/companion/app).              *)
(*                                                                         *)
(* Everything between the two is asynchronous: a frame waits on the wire,  *)
(* a read waits to be served and its answer waits to be heard.             *)
(***************************************************************************)
EXTENDS GlassTab, Sequences

CONSTANTS
    MaxSets,      \* bound: PUT /api/active-deck requests
    MaxEdits,     \* bound: edits and deletions of decks
    MaxRestarts,  \* bound: times the backend dies
    MaxBusy,      \* bound: times the database refuses reads
    MaxCloses,    \* bound: times the backend drops a live tab
    MaxFaults,    \* bound: deaths and refusal periods together
    CanStall      \* whether a refusal may outlast the stalled threshold

ASSUME BoundAssumption ==
    /\ {MaxSets, MaxEdits, MaxRestarts, MaxBusy, MaxCloses, MaxFaults} \subseteq Nat
    /\ CanStall \in BOOLEAN

VARIABLES
    tab,         \* the record of GlassTab
    up,          \* a backend process is serving
    slots,       \* the values ActiveDeckSlot has held; the last is the slot
    content,     \* deck -> its version in the database, and whether it exists
    busy,        \* the database refuses reads (an import holds it)
    owed,        \* decks edited whose deck_changed is still to be pushed
    registered,  \* the backend holds a live socket of this tab
    wire,        \* what the socket has still to deliver, in order
    spent        \* how much of each bound is used

vars == <<tab, up, slots, content, busy, owed, registered, wire, spent>>
serverVars == <<up, slots, content, busy, owed, spent>>

Budget == [sets: 0..MaxSets, edits: 0..MaxEdits, restarts: 0..MaxRestarts,
           busy: 0..MaxBusy, closes: 0..MaxCloses]
FaultsLeft == spent.restarts + spent.busy < MaxFaults

Frame == [kind: {"open", "active", "deck", "close"}, deck: Deck \cup {NoDeck}]
Note(kind) == [kind |-> kind, deck |-> NoDeck]

TypeOK ==
    /\ tab \in Tab
    /\ up \in BOOLEAN
    /\ slots \in Seq(Deck \cup {NoDeck}) /\ slots # <<>>
    /\ content \in [Deck -> [ver: Nat, exists: BOOLEAN]]
    /\ busy \in BOOLEAN
    /\ owed \in SUBSET Deck
    /\ registered \in BOOLEAN
    /\ wire \in Seq(Frame)
    /\ spent \in Budget

Init ==
    /\ tab = Mounted
    /\ up = TRUE
    /\ slots = <<NoDeck>>
    /\ content = [d \in Deck |-> [ver |-> 0, exists |-> TRUE]]
    /\ busy = FALSE
    /\ owed = {}
    /\ registered = FALSE
    /\ wire = <<>>
    /\ spent = [sets |-> 0, edits |-> 0, restarts |-> 0, busy |-> 0, closes |-> 0]

-----------------------------------------------------------------------------
(* The agent's side. *)

Broadcast(frame) == wire' = IF registered THEN Append(wire, frame) ELSE wire

\* PUT /api/active-deck: the slot, then the frame to whoever is registered.
SetActive(d) ==
    /\ up
    /\ spent.sets < MaxSets
    /\ slots' = Append(slots, d)
    /\ Broadcast(Note("active"))
    /\ spent' = [spent EXCEPT !.sets = @ + 1]
    /\ UNCHANGED <<tab, up, content, busy, owed, registered>>

\* A deck tool commits its change, and owes the notification.
EditDeck(d, exists) ==
    /\ content[d].exists
    /\ ~ busy
    /\ spent.edits < MaxEdits
    /\ content' = [content EXCEPT ![d] = [ver |-> @.ver + 1, exists |-> exists]]
    /\ owed' = owed \cup {d}
    /\ spent' = [spent EXCEPT !.edits = @ + 1]
    /\ UNCHANGED <<tab, up, slots, busy, registered, wire>>

\* notify_deck_changed: one attempt; nobody to hear it is not an error.
PushDeckChanged(d) ==
    /\ d \in owed
    /\ owed' = owed \ {d}
    /\ IF up THEN Broadcast([kind |-> "deck", deck |-> d]) ELSE UNCHANGED wire
    /\ UNCHANGED <<tab, up, slots, content, busy, registered, spent>>

-----------------------------------------------------------------------------
(* Failures. *)

\* The backend dies: the slot and the registry with it, the reads it was
\* serving, and any part of what the socket had not delivered.
Die ==
    /\ up
    /\ spent.restarts < MaxRestarts /\ FaultsLeft
    /\ up' = FALSE
    /\ slots' = Append(slots, NoDeck)
    /\ registered' = FALSE
    /\ IF registered
       THEN \E n \in 0..Len(wire) :
               wire' = Append(SubSeq(wire, 1, n), Note("close"))
       ELSE UNCHANGED wire
    /\ tab' = [tab EXCEPT !.reads =
                  {IF r.answer = "pending" THEN [r EXCEPT !.answer = "unreachable"]
                   ELSE r : r \in @}]
    /\ spent' = [spent EXCEPT !.restarts = @ + 1]
    /\ UNCHANGED <<content, busy, owed>>

Restart ==
    /\ ~ up
    /\ up' = TRUE
    /\ UNCHANGED <<tab, slots, content, busy, owed, registered, wire, spent>>

\* The fan-out gives up on this socket and closes it (ws.py broadcast).
DropTab ==
    /\ registered
    /\ spent.closes < MaxCloses
    /\ registered' = FALSE
    /\ wire' = Append(wire, Note("close"))
    /\ spent' = [spent EXCEPT !.closes = @ + 1]
    /\ UNCHANGED <<tab, up, slots, content, busy, owed>>

DatabaseBusy ==
    /\ ~ busy
    /\ spent.busy < MaxBusy /\ FaultsLeft
    /\ busy' = TRUE
    /\ spent' = [spent EXCEPT !.busy = @ + 1]
    /\ UNCHANGED <<tab, up, slots, content, owed, registered, wire>>

DatabaseReady ==
    /\ busy
    /\ busy' = FALSE
    /\ UNCHANGED <<tab, up, slots, content, owed, registered, wire, spent>>

-----------------------------------------------------------------------------
(* The tab's reads. *)

Response(r) ==
    IF ~ up THEN [r EXCEPT !.answer = "unreachable"]
    ELSE CASE r.kind = "active" ->
                 [r EXCEPT !.answer = "id", !.deck = slots[Len(slots)],
                            !.turn = Len(slots)]
           [] r.kind = "poll" ->
                 [r EXCEPT !.answer = IF busy THEN "unavailable" ELSE "decks"]
           [] OTHER ->
                 IF busy THEN [r EXCEPT !.answer = "unavailable"]
                 ELSE IF ~ content[r.deck].exists THEN [r EXCEPT !.answer = "missing"]
                 ELSE [r EXCEPT !.answer = "ok", !.ver = content[r.deck].ver]

Serve(r) ==
    /\ r \in tab.reads
    /\ r.answer = "pending"
    /\ tab' = [tab EXCEPT !.reads = (@ \ {r}) \cup {Response(r)}]
    /\ UNCHANGED <<serverVars, registered, wire>>

\* The stalled panel needs earlier refusals in the same poll.
MayStall(r) ==
    CanStall /\ r.kind = "poll" /\ r.answer = "unavailable"
             /\ tab.emitted = "database-updating"

Hear(r) ==
    /\ r \in tab.reads
    /\ r.answer # "pending"
    /\ \E stalled \in {FALSE, MayStall(r)} : tab' = Answered(tab, r, stalled)
    /\ UNCHANGED <<serverVars, registered, wire>>

PollTimer ==
    /\ tab.timer
    /\ tab' = PollTick(tab)
    /\ UNCHANGED <<serverVars, registered, wire>>

-----------------------------------------------------------------------------
(* The tab's socket. *)

\* An attempt reaches the backend: accepted and registered, and the tab will
\* hear that it opened.
Connect ==
    /\ up
    /\ ~ registered
    /\ wire = <<>>
    /\ tab.conn # "live"
    /\ registered' = TRUE
    /\ wire' = <<Note("open")>>
    /\ UNCHANGED <<tab, serverVars>>

AttemptFails ==
    /\ ~ up
    /\ wire = <<>>
    /\ tab.conn # "live"
    /\ \E status \in StatusAfterFailure(tab) : tab' = SocketFailed(tab, status)
    /\ UNCHANGED <<serverVars, registered, wire>>

Deliver ==
    /\ wire # <<>>
    /\ LET frame == Head(wire) IN
       CASE frame.kind = "open" -> tab' = SocketOpened(tab)
         [] frame.kind = "active" -> tab' = ActiveDeckChanged(tab)
         [] frame.kind = "deck" -> tab' = DeckChanged(tab, frame.deck)
         [] frame.kind = "close" ->
               \E status \in StatusAfterFailure(tab) : tab' = SocketFailed(tab, status)
    /\ wire' = Tail(wire)
    /\ UNCHANGED <<serverVars, registered>>

-----------------------------------------------------------------------------

Environment ==
    \/ \E d \in Deck : SetActive(d) \/ EditDeck(d, TRUE) \/ EditDeck(d, FALSE)
    \/ Die \/ DropTab \/ DatabaseBusy

Next ==
    \/ Environment
    \/ \E d \in Deck : PushDeckChanged(d)
    \/ Restart \/ DatabaseReady
    \/ \E r \in tab.reads : Serve(r) \/ Hear(r)
    \/ PollTimer \/ Connect \/ AttemptFails \/ Deliver

Spec == Init /\ [][Next]_vars

\* The program: a request is served or fails and its answer is heard, timers
\* fire, frames arrive, the socket loop never gives up, a push is attempted.
Fairness ==
    /\ \A d \in Deck : WF_vars(PushDeckChanged(d))
    /\ \A k \in Kinds : /\ WF_vars(\E r \in tab.reads : r.kind = k /\ Serve(r))
                        /\ WF_vars(\E r \in tab.reads : r.kind = k /\ Hear(r))
    /\ WF_vars(PollTimer) /\ WF_vars(Connect) /\ WF_vars(Deliver)

\* The environment: a dead backend is started again, an import ends.
Recovery == WF_vars(Restart) /\ WF_vars(DatabaseReady)

FairSpec == Spec /\ Fairness /\ Recovery

-----------------------------------------------------------------------------
(* What must hold. *)

\* The header's updating marker is up exactly while a deck read that may
\* still paint is under way: no superseded run clears its successor's mark,
\* and no exit of a run leaves the mark behind.
UpdatingMatchesInFlight == tab.updating <=> Busy(tab, BootKinds)

\* A boot that has not settled is reading, so the glass cannot be stranded
\* at `booting'; and a re-drive is only ever owed by such a boot.
UnsettledBootIsReading ==
    /\ ~ tab.settled => Busy(tab, {"active", "detail"})
    /\ tab.redrive => ~ tab.settled
    /\ tab.glass.status = "booting" => ~ tab.settled

\* One boot and one poll: never two requests that may write the same store,
\* never a poll request beside a poll timer (a second chain).
OneChainEach ==
    LET own(kinds) == {r \in tab.reads : r.current /\ r.kind \in kinds}
    IN /\ Cardinality(own(BootKinds)) <= 1
       /\ Cardinality(own({"poll"})) <= 1
       /\ ~ (tab.timer /\ Busy(tab, {"poll"}))

\* The poll never goes quiet behind a panel that says it re-tries.
RetryingPanelIsPolled ==
    tab.panel \in Retrying => tab.timer \/ Busy(tab, {"poll"})

\* What the tab says of its own work is true of it, and each kind of work is
\* done once, however restarts, re-drives and refetches overlap.
ChainsAreAccountable ==
    UpdatingMatchesInFlight /\ UnsettledBootIsReading /\ OneChainEach

\* The glass never goes back: not to a deck the agent set earlier than the
\* one last learnt of, not to an older version of the deck it shows.
NoStalePaint ==
    [][ /\ tab'.glass.turn >= tab.glass.turn
        /\ (tab.glass.status = "deck" /\ tab'.glass.status = "deck"
              /\ tab'.glass.deck = tab.glass.deck)
             => tab'.glass.ver >= tab.glass.ver ]_vars

\* Nothing is under way any more, on a live socket.
Resting ==
    /\ tab.conn = "live" /\ wire = <<>> /\ owed = {}
    /\ ~ tab.timer /\ ~ Busy(tab, Kinds)

ShowsSlot ==
    LET d == slots[Len(slots)]
    IN IF d # NoDeck /\ content[d].exists
       THEN tab.glass = Loaded(d, Len(slots), content[d].ver)
       ELSE tab.glass = Blank(Len(slots))

\* No broadcast is missed for good: a tab at rest has learnt of the last
\* change of the slot, whatever raced the boot, the connect or a restart;
\* and if the database never refused a read it shows that deck as it is.
RestingGlassIsCurrent ==
    Resting => /\ tab.glass.turn = Len(slots)
               /\ tab.glass.deck \in {slots[Len(slots)], NoDeck}
               /\ spent.busy = 0 => ShowsSlot

\* A glass that says "Reads will resume automatically" has a request, a
\* timer or a frame under way that may make it so, unless the poll has
\* escalated: it has then stopped, while the boot's refusal outranks its panel.
\* The poll is probed once per episode of refusals, so this is promised for one
\* spell of them; a second may find the probe spent and strand the glass.
RefusalIsRetried ==
    spent.busy <= 1 /\ Surface(tab) = "database-updating"
                    /\ tab.panel # "database-updating-stalled" => ~ Resting

\* The panels keep the promise of re-trying that their text makes.
PromisesAreKept == RetryingPanelIsPolled /\ RefusalIsRetried

\* Refinement of the abstract promise.
Display == INSTANCE DeckDisplay
    WITH published <- slots, turn <- tab.glass.turn, glass <- tab.glass.deck
RefinesDisplay == Display!Spec

\* Once the agent and the failures stop the glass shows the slot, for good.
\* An edit whose refetch met a refusing database, and what a second spell of
\* refusals strands, are what it may miss.
GlassConverges ==
    <>[] /\ tab.glass.turn = Len(slots)
         /\ spent.busy = 0 \/ (spent.busy = 1 /\ spent.edits = 0) => ShowsSlot
=============================================================================
