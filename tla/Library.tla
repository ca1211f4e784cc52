------------------------------- MODULE Library -------------------------------
(***************************************************************************)
(* The card database and the decks in it: the first-run import and the     *)
(* update of initialize_database                                           *)
(* (src/mcp_server/tools/initialize_database.py, data/importers), the      *)
(* marker of an unfinished import (data/import_state.py), the connect-time *)
(* sweep (data/database.py) and the deck tools of another session          *)
(* (data/repositories/deck.py).                                            *)
(*                                                                         *)
(* A card is a printing; every snapshot of the source names one canonical  *)
(* printing per oracle identity.  A deck stands for one board of a deck;   *)
(* rows[d, c] is the quantity of the association row, 0 when there is none. *)
(* Reads outside a write transaction see whatever is committed: SQLite     *)
(* opens the transaction at the first write of a session.                  *)
(***************************************************************************)
EXTENDS Integers, FiniteSetsExt

CONSTANTS
    Card, Identity,
    OracleId,   \* card -> the identity it prints
    Deck,
    Run,        \* calls of initialize_database in progress at once
    MaxCopies   \* bound: copies of one identity an edit leaves in a deck

ASSUME CardAssumption == IsFiniteSet(Card)
ASSUME DeckAssumption == Deck # {}
ASSUME OracleAssumption == OracleId \in [Card -> Identity]
ASSUME CopiesAssumption == MaxCopies \in Nat

VARIABLES
    cards,     \* printings with a row in the cards table
    marker,    \* import_state.in_progress
    rows,      \* deck_cards: deck, card -> quantity
    at,        \* run -> where its import stands
    fresh,     \* run -> it counted no card when it began
    managed,   \* run -> it writes the marker
    snapshot,  \* run -> identity -> its canonical printing
    rejected,  \* run -> identities whose canonical printing it rejected
    todo,      \* run -> canonical printings not yet upserted
    plan,      \* run -> what its reconcile has planned
    edit,      \* the deck tool call of the other session
    absent     \* history: identities the last finished import rejected and left out

imports == <<at, fresh, managed, snapshot, rejected, todo, plan>>
vars == <<cards, marker, rows, imports, edit, absent>>

Step == {"idle", "downloading", "importing", "reconciling", "applying", "finishing", "clearing"}
Printings(i) == {c \in Card : OracleId[c] = i}
Snapshot == {s \in [Identity -> Card] : \A i \in Identity : OracleId[s[i]] = i}
Place == Deck \X Card

NoSnapshot == << >>
NoPlan == [stale |-> {}, repoint |-> {}, seen |-> [p \in Place |-> 0]]
NoEdit == [step |-> "idle", op |-> "none", deck |-> CHOOSE d \in Deck : TRUE,
           cards |-> {}]

\* is_database_initialized: the gate of every deck tool and of a plain call.
Ready == cards # {} /\ ~marker
Copies(d, i) == SumFunctionOnSet(rows, {d} \X Printings(i))

HasRow(p) == rows[p] # 0
Referenced == {c \in Card : \E d \in Deck : HasRow(<<d, c>>)}

\* A new installation, or one of before the marker and the foreign keys: rows
\* of its decks may name missing cards.
Init ==
    /\ cards \in {{}} \cup {C \in SUBSET Card : \A i \in Identity : C \cap Printings(i) # {}}
    /\ marker = FALSE
    /\ rows \in [Place -> 0..1]
    /\ at = [r \in Run |-> "idle"]
    /\ fresh = [r \in Run |-> FALSE] /\ managed = [r \in Run |-> FALSE]
    /\ snapshot = [r \in Run |-> NoSnapshot]
    /\ rejected = [r \in Run |-> {}]
    /\ todo = [r \in Run |-> {}]
    /\ plan = [r \in Run |-> NoPlan]
    /\ edit = NoEdit
    /\ absent = {}

-----------------------------------------------------------------------------
(* One call of initialize_database. *)

Goto(r, step) == at' = [at EXCEPT ![r] = step]

\* What a run knew dies with it.
End(r) ==
    /\ at' = [at EXCEPT ![r] = "idle"]
    /\ fresh' = [fresh EXCEPT ![r] = FALSE]
    /\ managed' = [managed EXCEPT ![r] = FALSE]
    /\ snapshot' = [snapshot EXCEPT ![r] = NoSnapshot]
    /\ rejected' = [rejected EXCEPT ![r] = {}]
    /\ todo' = [todo EXCEPT ![r] = {}]
    /\ plan' = [plan EXCEPT ![r] = NoPlan]

\* A populated database is skipped unless an update is asked for; the count
\* that decides what a failure may clear is taken before the download.
Begin(r, update) ==
    /\ at[r] = "idle"
    /\ ~Ready \/ update
    /\ Goto(r, "downloading")
    /\ fresh' = [fresh EXCEPT ![r] = cards = {}]
    /\ UNCHANGED <<cards, marker, rows, managed, snapshot, rejected, todo, plan, edit, absent>>

\* Mutant: no marker, as before it existed.
ManagesNever == FALSE

\* A refresh of a complete database leaves the marker alone; a first import
\* and the resumption of a killed one write it.
Manages == cards = {} \/ marker

\* The file is there and aggregated.  Some canonical printings are rejected in
\* the transform; the marker is committed before the first batch.
Download(r) ==
    /\ at[r] = "downloading"
    /\ Goto(r, "importing")
    /\ \E s \in Snapshot, R \in SUBSET Identity :
          /\ snapshot' = [snapshot EXCEPT ![r] = s]
          /\ rejected' = [rejected EXCEPT ![r] = R]
          /\ todo' = [todo EXCEPT ![r] = {s[i] : i \in Identity \ R}]
    /\ managed' = [managed EXCEPT ![r] = Manages]
    /\ marker' = (marker \/ Manages)
    /\ UNCHANGED <<cards, rows, fresh, plan, edit, absent>>

\* One batch, one commit.
Batch(r) ==
    /\ at[r] = "importing"
    /\ \E c \in todo[r] :
          /\ cards' = cards \cup {c}
          /\ todo' = [todo EXCEPT ![r] = @ \ {c}]
    /\ UNCHANGED <<marker, rows, at, fresh, managed, snapshot, rejected, plan, edit, absent>>

\* Mutant: the last, partial batch is not inserted.
ImportedEarly(r) ==
    /\ at[r] = "importing"
    /\ Goto(r, "reconciling")
    /\ UNCHANGED <<cards, marker, rows, fresh, managed, snapshot, rejected, todo, plan, edit, absent>>

Imported(r) ==
    /\ at[r] = "importing" /\ todo[r] = {}
    /\ Goto(r, "reconciling")
    /\ UNCHANGED <<cards, marker, rows, fresh, managed, snapshot, rejected, todo, plan, edit, absent>>

Canonical(r, c) == snapshot[r][OracleId[c]]

\* plan_identity_dedup: printings to collapse, where the canonical row is there.
Stale(r) == {c \in cards : c # Canonical(r, c) /\ Canonical(r, c) \in cards}

\* One stale row per deck and identity moves to a place no row holds; the
\* others are merged.  Which one comes first is the scan's order.
Repoints(r) ==
    LET held == {p \in Place : p[2] \in Stale(r) /\ HasRow(p)}
        vacant == {p \in held : rows[<<p[1], Canonical(r, p[2])>>] = 0}
        rival(p, q) == p[1] = q[1] /\ Canonical(r, p[2]) = Canonical(r, q[2])
    IN  {P \in SUBSET vacant :
            \A p \in vacant : Cardinality({q \in P : rival(p, q)}) = 1}

\* The reconcile reads the cards and the deck rows, outside any transaction;
\* with nothing stale it writes nothing here.
PlanReconcile(r) ==
    /\ at[r] = "reconciling" /\ Stale(r) # {}
    /\ \E P \in Repoints(r) :
          plan' = [plan EXCEPT ![r] = [stale |-> Stale(r), repoint |-> P, seen |-> rows]]
    /\ Goto(r, "applying")
    /\ UNCHANGED <<cards, marker, rows, fresh, managed, snapshot, rejected, todo, edit, absent>>

Merges(r) == {p \in Place : p[2] \in plan[r].stale /\ plan[r].seen[p] > 0} \ plan[r].repoint

\* The rows after the planned repoints: UPDATE moves what is there now.
Repointed(r) ==
    [p \in Place |->
        LET from == {q \in plan[r].repoint : q[1] = p[1] /\ Canonical(r, q[2]) = p[2]}
        IN  IF p \in plan[r].repoint THEN 0
            ELSE IF from = {} THEN rows[p]
            ELSE rows[p] + rows[CHOOSE q \in from : TRUE]]

\* And after the planned merges: the quantity that was read is added to the
\* canonical row, if there is one, and the stale row is deleted.
Merged(r) ==
    [p \in Place |->
        LET into == {q \in Merges(r) : q[1] = p[1] /\ Canonical(r, q[2]) = p[2]}
        IN  IF p \in Merges(r) THEN 0
            ELSE IF Repointed(r)[p] = 0 THEN 0
            ELSE Repointed(r)[p] + SumFunctionOnSet(plan[r].seen, into)]

\* What the database refuses: two rows at one place, a row moved to a card that
\* is not there, or a deleted card that is referenced.
Violates(r) ==
    \/ \E p \in plan[r].repoint :
          HasRow(p) /\ (HasRow(<<p[1], Canonical(r, p[2])>>) \/ Canonical(r, p[2]) \notin cards)
    \/ \E p \in Place : p[2] \in plan[r].stale /\ Merged(r)[p] # 0

\* One transaction.  It commits, or fails on a constraint or a lock, and a
\* failed reconcile does not fail the import.
ApplyReconcile(r) ==
    /\ at[r] = "applying" /\ ~Violates(r)
    /\ rows' = Merged(r)
    /\ cards' = cards \ plan[r].stale
    /\ plan' = [plan EXCEPT ![r] = NoPlan]
    /\ Goto(r, "finishing")
    /\ UNCHANGED <<marker, fresh, managed, snapshot, rejected, todo, edit, absent>>

SkipReconcile(r) ==
    /\ at[r] \in {"reconciling", "applying"}
    /\ plan' = [plan EXCEPT ![r] = NoPlan]
    /\ Goto(r, "finishing")
    /\ UNCHANGED <<cards, marker, rows, fresh, managed, snapshot, rejected, todo, edit, absent>>

\* The marker goes last.
Finish(r) ==
    /\ at[r] = "finishing"
    /\ marker' = (marker /\ ~managed[r])
    /\ absent' = {i \in rejected[r] : cards \cap Printings(i) = {}}
    /\ End(r)
    /\ UNCHANGED <<cards, rows, edit>>

\* Mutant: a failed refresh clears the table too.
FailClearingAlways(r) ==
    /\ at[r] \in {"downloading", "importing", "finishing"}
    /\ Goto(r, "clearing")
    /\ UNCHANGED <<cards, marker, rows, fresh, managed, snapshot, rejected, todo, plan, edit, absent>>

\* The download, a batch or the marker write raises.  Only a run that began on
\* an empty table clears it.
Fail(r) ==
    /\ at[r] \in {"downloading", "importing", "finishing"}
    /\ IF fresh[r]
       THEN Goto(r, "clearing") /\ UNCHANGED <<fresh, managed, snapshot, rejected, todo, plan>>
       ELSE End(r)
    /\ UNCHANGED <<cards, marker, rows, edit, absent>>

\* DELETE FROM cards, which the foreign keys refuse while a deck holds one.
Clear(r) ==
    /\ at[r] = "clearing"
    /\ cards' = IF Referenced \cap cards = {} THEN {} ELSE cards
    /\ End(r)
    /\ UNCHANGED <<marker, rows, edit, absent>>

\* The process is killed, at any step.
Kill(r) ==
    /\ at[r] # "idle"
    /\ End(r)
    /\ UNCHANGED <<cards, marker, rows, edit, absent>>

-----------------------------------------------------------------------------
(* A deck tool of another session, and the sweep of a new connection.  What *)
(* the tool answers is in DeckEdits. *)

\* The tool finds the database ready and its cards there: one card, or those
\* of a whole deck list.
Resolve(op, d, C) ==
    /\ edit.step = "idle"
    /\ Ready
    /\ C \subseteq cards
    /\ edit' = [step |-> "resolved", op |-> op, deck |-> d, cards |-> C]
    /\ UNCHANGED <<cards, marker, rows, imports, absent>>

Edited ==
    [p \in Place |->
        IF p[1] # edit.deck \/ p[2] \notin edit.cards THEN rows[p]
        ELSE IF edit.op = "add" THEN 1 ELSE IF edit.op = "set" THEN 2 ELSE 0]

\* An insert needs its places free and its cards there; the other writes need
\* their row.  All rows of a call go in one transaction.
Accepted ==
    \A c \in edit.cards :
        IF edit.op = "add" THEN ~HasRow(<<edit.deck, c>>) /\ c \in cards
        ELSE HasRow(<<edit.deck, c>>)

CommitEdit ==
    /\ edit.step = "resolved" /\ Accepted
    /\ \A i \in Identity : SumFunctionOnSet(Edited, {edit.deck} \X Printings(i)) <= MaxCopies
    /\ rows' = Edited
    /\ edit' = NoEdit
    /\ UNCHANGED <<cards, marker, imports, absent>>

\* A constraint, a missing row or a lock: rolled back.
RejectEdit ==
    /\ edit.step = "resolved"
    /\ edit' = NoEdit
    /\ UNCHANGED <<cards, marker, rows, imports, absent>>

\* delete_deck cascades to the rows.
DeleteDeck(d) ==
    /\ edit.step = "idle"
    /\ Ready
    /\ rows' = [p \in Place |-> IF p[1] = d THEN 0 ELSE rows[p]]
    /\ UNCHANGED <<cards, marker, imports, edit, absent>>

Dangling == {p \in Place : HasRow(p) /\ p[2] \notin cards}

\* Mutant: the sweep does not ask whether an import is under way.
SweepUnmarked ==
    /\ cards # {} /\ Dangling # {}
    /\ rows' = [p \in Place |-> IF p \in Dangling THEN 0 ELSE rows[p]]
    /\ UNCHANGED <<cards, marker, imports, edit, absent>>

\* remove_orphan_deck_cards, on every new connection of the MCP engine.
Sweep ==
    /\ cards # {} /\ ~marker /\ Dangling # {}
    /\ rows' = [p \in Place |-> IF p \in Dangling THEN 0 ELSE rows[p]]
    /\ UNCHANGED <<cards, marker, imports, edit, absent>>

Import(r) ==
    \/ \E update \in BOOLEAN : Begin(r, update)
    \/ Download(r) \/ Batch(r) \/ Imported(r)
    \/ PlanReconcile(r) \/ ApplyReconcile(r) \/ SkipReconcile(r)
    \/ Finish(r) \/ Fail(r) \/ Clear(r) \/ Kill(r)

Next ==
    \/ \E r \in Run : Import(r)
    \/ \E d \in Deck, c \in Card : Resolve("set", d, {c}) \/ Resolve("remove", d, {c})
    \/ \E d \in Deck, C \in SUBSET Card \ {{}} : Resolve("add", d, C)
    \/ CommitEdit \/ RejectEdit
    \/ \E d \in Deck : DeleteDeck(d)
    \/ Sweep

Spec == Init /\ [][Next]_vars

-----------------------------------------------------------------------------
(* Properties. *)

Complete == \A i \in Identity : cards \cap Printings(i) # {} \/ i \in absent

TypeOK ==
    /\ cards \in SUBSET Card
    /\ marker \in BOOLEAN
    /\ rows \in [Place -> Nat]
    /\ at \in [Run -> Step]
    /\ fresh \in [Run -> BOOLEAN] /\ managed \in [Run -> BOOLEAN]
    /\ snapshot \in [Run -> Snapshot \cup {NoSnapshot}]
    /\ rejected \in [Run -> SUBSET Identity]
    /\ todo \in [Run -> SUBSET Card]
    /\ \A r \in Run :
          /\ at[r] \in {"reconciling", "applying", "finishing"} => todo[r] = {}
          /\ at[r] # "applying" => plan[r] = NoPlan
          /\ plan[r].stale \in SUBSET Card /\ plan[r].repoint \in SUBSET Place
          /\ plan[r].seen \in [Place -> Nat]
    /\ edit.op \in {"none", "add", "set", "remove"} /\ edit.step \in {"idle", "resolved"}
    /\ edit.deck \in Deck /\ edit.cards \in SUBSET Card
    /\ absent \in SUBSET Identity

\* A database that reads as ready holds every identity of a whole import, but
\* those the import itself rejected: kills, failures, resumptions and clears
\* never pass a partial table off as complete (is_database_initialized).
ReadyMeansComplete == Ready => Complete

\* No import, killed or failed at any step, loses a card of a ready database.
NoIdentityLost ==
    Ready => \A i \in Identity : cards \cap Printings(i) # {} => cards' \cap Printings(i) # {}

\* The rows of the decks stay joined to the cards.  No step leaves a deck with
\* a card that is no longer there: repoints come before deletions, and a clear
\* is refused while a deck needs the table.  And the sweep takes rows only
\* from a whole database: a row it deletes names a card that is really gone,
\* not one a killed import has yet to bring (remove_orphan_deck_cards).
NoRowDangles == Dangling' \subseteq Dangling
SweepIsSafe == Sweep => Complete
RowsAreSafe == [][NoRowDangles /\ SweepIsSafe]_vars

\* The reconcile never changes how many copies of a card a deck holds, if the
\* deck rows are those it planned for (reconcile_oracle_identities).
ReconcileKeepsCopies ==
    \A r \in Run : at[r] = "applying" /\ at'[r] = "finishing" /\ rows = plan[r].seen =>
        \A d \in Deck, i \in Identity : Copies(d, i)' = Copies(d, i)

\* What an import replaces it replaces whole: neither a card of the database
\* nor a copy of it in a deck goes when its canonical printing changes.
NothingIsLost == [][NoIdentityLost /\ ReconcileKeepsCopies]_vars
=============================================================================
