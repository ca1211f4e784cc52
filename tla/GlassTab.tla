----------------------------- MODULE GlassTab -----------------------------
(***************************************************************************)
(* One browser tab, as a record and the functions that change it: the deck *)
(* boot and its seams (ui/src/state/deck.ts), the decks poll               *)
(* (ui/src/state/poller.ts) and the system slice they share                *)
(* (ui/src/state/systemState.ts).  A TypeScript call made between two      *)
(* awaits is a function here, so that the synchronous chains               *)
(*   poll answer -> store write -> listener -> boot restart                *)
(*   boot settle -> onUpdate -> poll restart                               *)
(* are compositions and cannot be interleaved with anything else.          *)
(*                                                                         *)
(* A generation counter is modelled by what it tells apart: a request      *)
(* carries `current', cleared when its generation is bumped, because a     *)
(* bumped generation never comes back.                                     *)
(***************************************************************************)
EXTENDS Naturals, FiniteSets

CONSTANTS
    Deck,    \* deck ids
    NoDeck   \* no id: an empty slot, or no deck on the glass

ASSUME DeckAssumption == NoDeck \notin Deck

Panel == {"no-active-deck", "database-updating", "database-updating-stalled"}

\* RETRIES_QUIETLY: the panels that promise to re-try on their own.
Retrying == {"database-updating"}

\* deckPanelFor(database_unavailable), the one refusal modelled.
RefusedPanel == "database-updating"

\* The answers of the three routes and what their absence reads as.  An
\* answer of the active-deck route is "id" with the deck and its place in
\* the history of the slot, one of the deck route "ok" with the version.
Answer == {"pending", "unreachable", "unavailable", "missing", "id", "ok", "decks"}
BootKinds == {"active", "detail", "refetch"}
Kinds == BootKinds \cup {"poll"}

Ask(kind, d, n) ==
    [kind |-> kind, deck |-> d, turn |-> n, ver |-> 0, answer |-> "pending",
     current |-> TRUE]

Blank(n) == [status |-> "none", deck |-> NoDeck, turn |-> n, ver |-> 0]
Refused(n) == [status |-> "refused", deck |-> NoDeck, turn |-> n, ver |-> 0]
Loaded(d, n, v) == [status |-> "deck", deck |-> d, turn |-> n, ver |-> v]

Busy(t, kinds) == \E r \in t.reads : r.current /\ r.kind \in kinds

-----------------------------------------------------------------------------
(* Starting, stopping and restarting requests. *)

\* stop() bumps the generation: what is in flight no longer owns the store.
\* A superseded request that was not yet answered is left out, since nothing
\* it may bring is used; one whose answer is on its way is kept.
Supersede(t, kinds) ==
    LET answered == {r \in t.reads : r.kind \in kinds /\ r.answer # "pending"}
    IN [t EXCEPT !.reads = {r \in @ : r.kind \notin kinds}
                           \cup {[r EXCEPT !.current = FALSE] : r \in answered}]

Issue(t, r) == [t EXCEPT !.reads = @ \cup {r}]

\* restartBoot: stop, start, and forget a deferred re-drive.
RestartBoot(t) ==
    Issue([Supersede(t, BootKinds) EXCEPT !.redrive = FALSE, !.settled = FALSE,
                                          !.updating = TRUE],
          Ask("active", NoDeck, t.glass.turn))

\* DeckBoot.refetch: a no-op unless the boot has settled.
Refetch(t) ==
    IF ~ t.settled THEN t
    ELSE Issue([Supersede(t, BootKinds) EXCEPT !.updating = TRUE],
               Ask("refetch", t.glass.deck, t.glass.turn))

\* Poller.stop then Poller.start: a new poll that has emitted nothing.
RestartPoll(t) ==
    Issue([Supersede(t, {"poll"}) EXCEPT !.timer = FALSE, !.emitted = "nothing"],
          Ask("poll", NoDeck, 0))

RestartPollIfStopped(t) == IF t.panel \in Retrying THEN t ELSE RestartPoll(t)

-----------------------------------------------------------------------------
(* The two callbacks of useDeckState. *)

\* Plausible bug: no probe, the poll having stopped on a healthy answer.
OnUpdateUnprobed(t, glass) ==
    LET s == [t EXCEPT !.glass = glass, !.settled = TRUE]
    IN IF s.redrive THEN RestartBoot(s) ELSE s

\* onUpdate: paint, then the deferred re-drive, then the one poll probe that
\* a transient refusal earns while the poll has stopped.
OnUpdate(t, glass) ==
    LET s == [t EXCEPT !.glass = glass, !.settled = TRUE,
                       !.probeSpent = @ /\ glass.status = "refused"]
    IN IF s.redrive THEN RestartBoot(s)
       ELSE IF /\ glass.status = "refused" /\ RefusedPanel \in Retrying
               /\ ~ s.probeSpent
               /\ s.panel \notin Retrying
            THEN RestartPollIfStopped([s EXCEPT !.probeSpent = TRUE,
                                                !.probeArmed = TRUE])
            ELSE s

\* The `finally' of the run of request r: it clears the flag only if its
\* generation is still the boot's, that is if nothing superseded r.
CloseWindow(t, r) == IF r \in t.reads THEN [t EXCEPT !.updating = FALSE] ELSE t

Settle(t, r, glass) == CloseWindow(OnUpdate(t, glass), r)

\* The listener on the system slice, called on every write to it.
OnSystemWrite(t, before, pollWrote) ==
    IF t.panel # "no-active-deck"
    THEN [t EXCEPT !.probeArmed = FALSE, !.probeSpent = FALSE]
    ELSE IF ~ pollWrote \/ (before = "no-active-deck" /\ ~ t.probeArmed) THEN t
    ELSE LET s == [t EXCEPT !.probeArmed = FALSE]
         IN IF s.glass.status \in {"deck", "booting"} THEN s
            ELSE IF ~ s.settled THEN [s EXCEPT !.redrive = TRUE]
            ELSE RestartBoot(s)

ConnectionWrite(t, status) ==
    IF status = t.conn THEN t
    ELSE OnSystemWrite([t EXCEPT !.conn = status], t.panel, FALSE)

-----------------------------------------------------------------------------
(* An answer arrives for a request that still owns its generation.         *)

\* runSequence after readActive.
ActiveAnswered(t, r) ==
    IF r.answer = "id" /\ r.deck # NoDeck
    THEN Issue(t, Ask("detail", r.deck, r.turn))
    ELSE Settle(t, r, Blank(r.turn))

\* runSequence after readDetail.
DetailAnswered(t, r) ==
    CASE r.answer = "ok" -> Settle(t, r, Loaded(r.deck, r.turn, r.ver))
      [] r.answer = "unavailable" -> Settle(t, r, Refused(r.turn))
      [] OTHER -> Settle(t, r, Blank(r.turn))

\* refetchSequence: only a 404 or a deck settles, the rest is dropped.
RefetchAnswered(t, r) ==
    CASE r.answer = "ok" -> Settle(t, r, Loaded(r.deck, r.turn, r.ver))
      [] r.answer = "missing" -> Settle(t, r, Blank(r.turn))
      [] OTHER -> CloseWindow(t, r)

\* The panel an answer of the poll decides, given that the escalation guard
\* is satisfied or not.
PollPanel(r, stalled) ==
    IF r.answer = "decks" THEN "no-active-deck"
    ELSE IF stalled THEN "database-updating-stalled" ELSE "database-updating"

\* Poller.apply and the schedule that follows it.
PollAnswered(t, r, stalled) ==
    IF r.answer = "unreachable" THEN [t EXCEPT !.timer = TRUE]
    ELSE LET panel == PollPanel(r, stalled)
             written == [t EXCEPT !.panel = panel, !.emitted = panel]
             heard == IF panel = t.emitted THEN t
                      ELSE OnSystemWrite(written, t.panel, TRUE)
         IN [heard EXCEPT !.timer = panel \in Retrying]

\* Plausible bug: a `live' flag in place of the generation.
StaleAnsweredPainting(t, r) ==
    IF r.kind = "detail" /\ r.answer = "ok"
    THEN [t EXCEPT !.glass = Loaded(r.deck, r.turn, r.ver)]
    ELSE t

\* A superseded answer: every guard drops it.
StaleAnswered(t, r) == t

\* The superseded form of a request is removed with it: its `finally' has run.
Forget(t, r) == [t EXCEPT !.reads = @ \ {r, [r EXCEPT !.current = FALSE]}]

Answered(t, r, stalled) ==
    Forget(IF ~ r.current THEN StaleAnswered(t, r)
           ELSE CASE r.kind = "active" -> ActiveAnswered(t, r)
                  [] r.kind = "detail" -> DetailAnswered(t, r)
                  [] r.kind = "refetch" -> RefetchAnswered(t, r)
                  [] r.kind = "poll" -> PollAnswered(t, r, stalled),
           r)

\* The poll's timer fires: one more read of the same poll.
PollTick(t) == Issue([t EXCEPT !.timer = FALSE], Ask("poll", NoDeck, 0))

-----------------------------------------------------------------------------
(* What the socket hands over (ui/src/state/connection.ts). *)

\* Plausible bug: a boot in flight is left alone and never re-driven.
ReconcileOnlySettled(t) == IF t.settled THEN RestartBoot(t) ELSE t

\* Plausible bug: the re-drive is deferred whether or not a boot is in flight.
ReconcileDeferred(t) == [t EXCEPT !.redrive = TRUE]

\* reconcileDeckBoot: on every transition to 'live'.
ReconcileDeckBoot(t) ==
    IF t.settled THEN RestartBoot(t) ELSE [t EXCEPT !.redrive = TRUE]

\* driveDeckChanged, for the deck id d of the frame.
DriveDeckChanged(t, d) ==
    IF t.glass.status # "deck" \/ ~ t.settled THEN RestartBoot(t)
    ELSE IF d = t.glass.deck THEN Refetch(t) ELSE t

\* succeed: emit 'live', then onReconnected if the open follows a failure.
SocketOpened(t) ==
    LET live == ReconcileDeckBoot(ConnectionWrite(t, "live"))
        s == [live EXCEPT !.failed = FALSE]
    IN IF t.failed THEN RestartPoll(s) ELSE s

\* Plausible bug: the frame restarts the poll alone.
ActiveDeckChangedPolling(t) == RestartPollIfStopped(t)

ActiveDeckChanged(t) == RestartPollIfStopped(RestartBoot(t))
DeckChanged(t, d) == RestartPollIfStopped(DriveDeckChanged(t, d))

\* Plausible bug: the panel's name is written in place of the status.
StatusNamedForPanel(t) == {"reconnecting", "disconnected"}

\* fail: 'down' needs failures that came before this one.
StatusAfterFailure(t) == {"reconnecting"} \cup (IF t.failed THEN {"down"} ELSE {})
SocketFailed(t, status) == [ConnectionWrite(t, status) EXCEPT !.failed = TRUE]

-----------------------------------------------------------------------------

\* surfaceOf: a deck or one panel, never both.
Surface(t) ==
    CASE t.conn = "down" -> "disconnected"
      [] t.conn # "down" /\ t.glass.status \in {"booting", "deck"} -> t.glass.status
      [] t.conn # "down" /\ t.glass.status = "refused" -> RefusedPanel
      [] t.conn # "down" /\ t.glass.status = "none" -> t.panel

Tab == [glass: [status: {"booting", "none", "refused", "deck"},
                deck: Deck \cup {NoDeck}, turn: Nat, ver: Nat],
        reads: SUBSET [kind: Kinds, deck: Deck \cup {NoDeck}, turn: Nat, ver: Nat,
                       answer: Answer, current: BOOLEAN],
        updating: BOOLEAN, settled: BOOLEAN, redrive: BOOLEAN,
        probeSpent: BOOLEAN, probeArmed: BOOLEAN,
        panel: Panel, emitted: Panel \cup {"nothing"}, timer: BOOLEAN,
        conn: {"reconnecting", "live", "down"}, failed: BOOLEAN]

\* App has mounted: the boot and the poll have started, the socket is trying.
Mounted ==
    [glass |-> [Blank(1) EXCEPT !.status = "booting"],
     reads |-> {Ask("active", NoDeck, 1), Ask("poll", NoDeck, 0)},
     updating |-> TRUE, settled |-> FALSE, redrive |-> FALSE,
     probeSpent |-> FALSE, probeArmed |-> FALSE,
     panel |-> "no-active-deck", emitted |-> "nothing", timer |-> FALSE,
     conn |-> "reconnecting", failed |-> FALSE]
=============================================================================
