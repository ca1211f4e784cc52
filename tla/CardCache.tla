------------------------------- MODULE CardCache ------------------------------
(***************************************************************************)
(* The card cache of one tab (ui/src/state/cards.ts): what is known of     *)
(* each printing, the reads in flight, and the attempts each has cost      *)
(* since the last reconnect.  The summary an entry may carry is left out:  *)
(* nothing in the app writes one.  So is resetCardCache and the generation *)
(* it bumps, which only tests reach.                                       *)
(***************************************************************************)
EXTENDS Naturals

CONSTANTS Card,         \* card ids
          Blank,        \* the empty id, which addresses no card
          Reason,       \* the wire tokens of a refused read
          Hopeless,     \* those that CARD_READ_IS_RETRYABLE maps to false
          NoReason,     \* no token: no answer, or one that was not understood
          MaxAttempts   \* MAX_ATTEMPTS_PER_CARD

ASSUME CacheAssumption ==
    /\ Hopeless \subseteq Reason
    /\ NoReason \notin Reason
    /\ MaxAttempts \in Nat \ {0}

VARIABLES cards,      \* the store: an entry per id
          inFlight,   \* the ids a read of which is running
          settled,    \* those with the answer put, and the promise not yet released
          attempts    \* requests since the budgets were last reset

cacheVars == <<cards, inFlight, settled, attempts>>

Never    == [status |-> "never"]
Loading  == [status |-> "loading"]
Hydrated == [status |-> "hydrated"]
Unknown(reason, retryable) ==
    [status |-> "unknown", reason |-> reason, retryable |-> retryable]

Entry == {Never, Loading, Hydrated}
            \cup [status : {"unknown"}, reason : Reason \cup {NoReason},
                  retryable : BOOLEAN]

CacheTypeOK ==
    /\ cards \in [Card -> Entry]
    /\ inFlight \subseteq Card \ {Blank}
    /\ settled \subseteq Card \ inFlight
    /\ attempts \in [Card -> 0 .. MaxAttempts]

CacheInit ==
    /\ cards = [c \in Card |-> Never]
    /\ inFlight = {} /\ settled = {}
    /\ attempts = [c \in Card |-> 0]

-----------------------------------------------------------------------------
Spent(c) == attempts[c] >= MaxAttempts

(* A mutant: a refusal the bound made terminal is asked again. *)
AsksAgain(c) ==
    /\ cards[c] # Hydrated
    /\ c \notin inFlight \cup settled

(* The three early returns of hydrateCard: a promise in the map is joined, *)
(* be it settled.                                                          *)
Asks(c) ==
    /\ cards[c] # Hydrated
    /\ c \notin inFlight \cup settled
    /\ ~ (cards[c].status = "unknown" /\ ~ cards[c].retryable)

(* hydrateCard for every id of S: the empty id is refused on the spot, the *)
(* others are counted and read.                                            *)
HydrateCards(S) ==
    LET asked == {c \in S : Asks(c)}
        read  == asked \ {Blank}
    IN  /\ cards' = [c \in Card |->
                       CASE c \in read -> Loading
                         [] c \in asked \ read -> Unknown(NoReason, FALSE)
                         [] OTHER -> cards[c]]
        /\ inFlight' = inFlight \cup read
        /\ attempts' = [c \in Card |->
                          IF c \in read THEN attempts[c] + 1 ELSE attempts[c]]
        /\ UNCHANGED settled

(* entryFor: the token and the bound meet in one field. *)
RefusalOf(c, reason) == Unknown(reason, ~ Spent(c) /\ reason \notin Hopeless)

Settles(c) ==
    /\ c \in inFlight
    /\ inFlight' = inFlight \ {c} /\ settled' = settled \cup {c}

ReadReturnsCard(c) ==
    /\ Settles(c)
    /\ cards' = [cards EXCEPT ![c] = Hydrated]
    /\ UNCHANGED attempts

(* A mutant: the refusal is written over whatever is there. *)
ReadIsRefusedBlindly(c, reason) ==
    /\ Settles(c)
    /\ cards' = [cards EXCEPT ![c] = RefusalOf(c, reason)]
    /\ UNCHANGED attempts

(* A refusal, judged against the entry of now: a deck may have seeded the  *)
(* card while the read was in flight.                                      *)
ReadIsRefused(c, reason) ==
    /\ Settles(c)
    /\ cards' = [cards EXCEPT ![c] =
                    IF @ = Hydrated THEN @ ELSE RefusalOf(c, reason)]
    /\ UNCHANGED attempts

(* The caller's await resumes in a microtask after the put and takes the   *)
(* promise out of the map.                                                 *)
ReadReleases(c) ==
    /\ c \in settled
    /\ settled' = settled \ {c}
    /\ UNCHANGED <<cards, inFlight, attempts>>

(* A deck payload carries whole cards. *)
SeedDeckCards(S) ==
    /\ cards' = [c \in Card |-> IF c \in S \ {Blank} THEN Hydrated ELSE cards[c]]
    /\ UNCHANGED <<inFlight, settled, attempts>>

(* A mutant: the budgets come back, the entries they made terminal do not. *)
ResetCardBudgets ==
    /\ attempts' = [c \in Card |-> 0]
    /\ UNCHANGED <<cards, inFlight, settled>>

(* The socket reconnected: every budget is given back, and an entry that   *)
(* only the bound had made terminal is re-armed.                           *)
ResetCardAttempts ==
    LET Rearmed(e) == IF e.status = "unknown" /\ e.reason \notin Hopeless
                      THEN [e EXCEPT !.retryable = TRUE] ELSE e
        spent == \E c \in Card : attempts[c] > 0
    IN  /\ attempts' = [c \in Card |-> 0]
        /\ cards' = IF spent THEN [c \in Card |-> Rearmed(cards[c])] ELSE cards
        /\ UNCHANGED <<inFlight, settled>>
=============================================================================
