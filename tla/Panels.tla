-------------------------------- MODULE Panels --------------------------------
(***************************************************************************)
(* The agent views and the card cache of one tab, as its socket, its       *)
(* person and the companion drive them.  A view that is mounted, or handed *)
(* another push, hydrates the cards it names in the same task: the write   *)
(* to the store, the commit and the effect are one step.                   *)
(***************************************************************************)
EXTENDS AgentViews, CardCache

CONSTANT CardsOf    \* the cards named by a view of each kind

ASSUME CardsOfAssumption == CardsOf \in [Kind -> SUBSET Card]

vars == <<viewVars, cacheVars>>

TypeOK == ViewsTypeOK /\ CacheTypeOK

Init == ViewsInit /\ CacheInit

-----------------------------------------------------------------------------
(* AgentView.tsx mounts the view of a kind and its effect asks for every   *)
(* id it names.                                                            *)
Mount(k) == HydrateCards(CardsOf[k])

(* A push of one of the four kinds arrives (connection.ts). *)
PushArrives ==
    \E p \in [id : 1 .. arrived + 1, kind : Kind,
              ts : Instant \cup {Unreadable}, ref : {arrived + 1}] :
        ArrivePush(p) /\ Mount(p.kind)

ClickPill(k) == ReopenAgentView(k) /\ Mount(k)

ClickEntry == \E p \in Range(history) : ReopenPush(p) /\ Mount(p.kind)

Dismiss == CloseAgentView /\ UNCHANGED cacheVars

(* CardDetail asks for the card it inspects. *)
Inspect(c) == HydrateCards({c}) /\ UNCHANGED viewVars

(* A boot or a refetch of the deck settles. *)
DeckLands == \E S \in SUBSET Card : SeedDeckCards(S) /\ UNCHANGED viewVars

CardAnswered(c) ==
    /\ \/ ReadReturnsCard(c) \/ ReadReleases(c)
       \/ \E reason \in Reason \cup {NoReason} : ReadIsRefused(c, reason)
    /\ UNCHANGED viewVars

Reconnected == ResetCardAttempts /\ UNCHANGED viewVars

Next ==
    \/ PushArrives
    \/ \E k \in Kind : ClickPill(k)
    \/ ClickEntry
    \/ Dismiss
    \/ \E c \in Card : Inspect(c) \/ CardAnswered(c)
    \/ DeckLands
    \/ Reconnected

Spec == Init /\ [][Next]_vars

-----------------------------------------------------------------------------
(* The history holds no envelope twice, its neighbours are newest first    *)
(* wherever both can be ranked, nothing is forgotten before the capacity   *)
(* is reached, and when every timestamp of the session ranks it holds the  *)
(* newest pushes of the session: arrival order, repeats and looking back   *)
(* (which is not a push, agentView.ts on historyWith) make no difference.  *)
NoEnvelopeTwice ==
    \A i, j \in DOMAIN history : history[i].id = history[j].id => i = j

NewestFirst ==
    \A i \in 1 .. Len(history) - 1 :
        Unreadable \notin {history[i].ts, history[i + 1].ts}
            => history[i].ts >= history[i + 1].ts

KeptBelowCap ==
    Len(history) < HistoryCap => {p.id : p \in sent} = {p.id : p \in Range(history)}

RanksStrictly(S) ==
    /\ \A p \in S : p.ts # Unreadable
    /\ \A p, q \in S : p.ts = q.ts => p.id = q.id

HoldsTheNewest ==
    RanksStrictly(sent) =>
        \A p \in sent :
            (\A q \in Range(history) : p.id # q.id)
                => \A q \in Range(history) : q.ts > p.ts

HistoryIsSound ==
    NoEnvelopeTwice /\ NewestFirst /\ KeptBelowCap /\ HoldsTheNewest

(* A pill re-opens the push of its kind that arrived last, however many    *)
(* older ones were looked at in between (agentView.ts, the comment on      *)
(* revisit), and a kind is marked unread only while a later push of        *)
(* another kind stands between the person and it, never while it is the    *)
(* one on the glass.                                                       *)
PillHoldsLatest ==
    \A p \in sent : retained[p.kind] # NoPush /\ p.ref <= retained[p.kind].ref

UnreadMeansDisplaced ==
    /\ status = "open" => content.kind \notin unread
    /\ \A k \in unread :
          /\ retained[k] # NoPush
          /\ \E j \in Kind \ {k} :
                retained[j] # NoPush /\ retained[j].ref > retained[k].ref

PillsAreTrue == PillHoldsLatest /\ UnreadMeansDisplaced

(* What the cache says of a card is what is being done about it: a card is *)
(* loading exactly while a read of it is running, and a refusal is         *)
(* retryable exactly when its token allows it and its budget is not spent, *)
(* through reconnects that give budgets back while reads are in flight.    *)
LoadingIsBeingRead ==
    /\ \A c \in Card : cards[c] = Loading => c \in inFlight
    /\ \A c \in inFlight : cards[c] \in {Loading, Hydrated}

RetryableIsTrue ==
    \A c \in Card \ {Blank} :
        cards[c].status = "unknown" =>
            (cards[c].retryable <=> (cards[c].reason \notin Hopeless /\ ~ Spent(c)))

EntriesAreTrue == LoadingIsBeingRead /\ RetryableIsTrue

(* Hydration is knowledge: once a card's record has been read or seeded no *)
(* refusal that settles later, and no reconnect, takes it away.            *)
HydratedIsKept ==
    [][ \A c \in Card : cards[c] = Hydrated => cards'[c] = Hydrated ]_vars

(* An entry says what is being done about its card, and forgets nothing.   *)
CacheIsHonest == []EntriesAreTrue /\ HydratedIsKept
=============================================================================
