---------------------------- MODULE DeckDisplay ----------------------------
(***************************************************************************)
(* What the companion promises about which deck is on the glass, apart     *)
(* from how a tab and a backend keep the promise: the agent publishes      *)
(* decks one after the other; the glass shows one of those published, or   *)
(* nothing; it never goes back to an earlier one, and catches up in the    *)
(* end (docs/architecture and the headers of ui/src/state/deck.ts and      *)
(* connection.ts, as the code there carries them out).                     *)
(***************************************************************************)
EXTENDS Naturals, Sequences

CONSTANTS Deck, NoDeck

VARIABLES
    published,  \* the values of the active-deck slot, the last one current
    turn,       \* how far into them the glass has followed
    glass       \* the deck on the glass, NoDeck when a panel is

vars == <<published, turn, glass>>

Init == published = <<NoDeck>> /\ turn = 1 /\ glass = NoDeck

\* The agent sets a deck, or the backend restarts and forgets it.
Publish ==
    /\ \E d \in Deck \cup {NoDeck} : published' = Append(published, d)
    /\ UNCHANGED <<turn, glass>>

\* The glass follows, to some later publication or not at all, and shows
\* that deck or a panel.
Follow(n) ==
    /\ turn' = n
    /\ glass' \in {published[n], NoDeck}
    /\ UNCHANGED published

CatchUp == turn < Len(published) /\ Follow(Len(published))

Next == Publish \/ \E n \in turn..Len(published) : Follow(n)

Spec == Init /\ [][Next]_vars /\ WF_vars(CatchUp)
=============================================================================
