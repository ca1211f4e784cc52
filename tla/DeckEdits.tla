------------------------------- MODULE DeckEdits -------------------------------
(***************************************************************************)
(* The deck tools (mcp_server/tools/deck_management.py, deck_import.py)    *)
(* over the deck repository (data/repositories/deck.py), called by several *)
(* sessions at once.                                                       *)
(*                                                                         *)
(* SQLite begins a transaction with its first write, so what a tool or a   *)
(* repository method selects before that is a read of its own: another     *)
(* session may commit in between.  From the first write to the commit      *)
(* nothing can, so that part is one step.  What is read again after the    *)
(* commit is a further step.                                               *)
(*                                                                         *)
(* A slot is a card in a board.  Names, formats, tags, timestamps and the  *)
(* commander flag are left out, and every card exists: imports that move   *)
(* cards are in Library.                                                   *)
(***************************************************************************)
EXTENDS Naturals, FiniteSets

CONSTANTS Session,      \* tool calls, each in a database session of its own
          Deck,         \* deck ids, among them those yet to be given
          Slot,         \* <<card, board>> pairs
          ColoursOf,    \* the colour identity of the card of a slot
          Added,        \* the quantities callers add
          SetTo,        \* the quantities they set
          MaxRequests   \* bound on the requests of a behaviour

ASSUME DeckEditsAssumption ==
    /\ DOMAIN ColoursOf = Slot
    /\ Added \subseteq Nat \ {0} /\ SetTo \subseteq Nat
    /\ "none" \notin Deck
    /\ MaxRequests \in Nat

VARIABLES decks,     \* the decks there are
          given,     \* the ids ever given to a deck
          rows,      \* copies per deck and slot, 0 where there is no row
          identity,  \* the stored colour identity of each deck
          overtaken, \* decks whose last stamp was a merge's, of reads that differed
          call,      \* the request of each session
          requests   \* how many have begun

base == <<decks, given, rows, identity, overtaken>>
vars == <<base, call, requests>>

Empty == [x \in Slot |-> 0]
Colour == UNION {ColoursOf[x] : x \in Slot}
Colours(r) == UNION {ColoursOf[x] : x \in {y \in Slot : r[y] > 0}}

Verb == {"add", "set", "remove"}
Kind == Verb \cup {"import", "create", "clone", "update", "delete", "merge"}
Strategy == {"COMBINE", "MAXIMUM", "REPLACE"}
Write == [verb : Verb, slot : Slot, quantity : Nat]

(* What a caller hears.  "stale" and "failed" are exceptions: of the ORM,  *)
(* for a row that has vanished under an update, and any that leaves a      *)
(* merge.  "raised" is one after the commit of a whole request.  "partial" *)
(* is no refusal: an import with a line it did not add, whatever became of *)
(* the others.                                                             *)
Refusal == {"exists", "deck_not_found", "card_not_found", "not_in_deck", "unchanged",
            "error", "stale"}

Call ==
    [kind : Kind \cup {"none"}, deck : Deck \cup {"none"}, source : Deck \cup {"none"},
     strategy : Strategy,
     at : {"idle", "source", "writing", "updating", "copying", "renaming", "closing",
           "joining", "stamping", "rereading"},
     todo : SUBSET Write, hand : SUBSET Write,        \* rows to write, being written
     mine : [Slot -> Nat], theirs : [Slot -> Nat],    \* rows read beforehand
     tint : SUBSET Colour, seen : SUBSET Colour,      \* colours read beforehand
     told : SUBSET Slot,                              \* the lines an import answers ok
     short : BOOLEAN,                                 \* it has a line that is not
     outcome : Refusal \cup {"none", "ok", "partial", "failed", "raised"},
     landed : Nat,                                    \* history: commits of a change
     quiet : BOOLEAN,                                 \* history: nobody else wrote to it
     dubious : BOOLEAN]                               \* copies an overtaken deck

Idle == [kind |-> "none", deck |-> "none", source |-> "none", strategy |-> "COMBINE",
         at |-> "idle", todo |-> {}, hand |-> {}, mine |-> Empty, theirs |-> Empty,
         tint |-> {}, seen |-> {}, told |-> {}, short |-> FALSE,
         outcome |-> "none", landed |-> 0, quiet |-> TRUE, dubious |-> FALSE]

TypeOK ==
    /\ decks \subseteq given /\ given \subseteq Deck
    /\ rows \in [Deck -> [Slot -> Nat]]
    /\ \A d \in Deck \ decks : rows[d] = Empty
    /\ identity \in [Deck -> SUBSET Colour]
    /\ overtaken \subseteq given
    /\ call \in [Session -> Call]
    /\ \A s \in Session : call[s].at = "writing" => call[s].todo # {}
    /\ requests \in 0 .. MaxRequests

(* Any content can be reached by adding one card at a time. *)
Init ==
    /\ decks \in SUBSET Deck
    /\ given = decks
    /\ rows \in [Deck -> [Slot -> 0 .. 1]]
    /\ \A d \in Deck \ decks : rows[d] = Empty
    /\ identity = [d \in Deck |-> Colours(rows[d])]
    /\ overtaken = {}
    /\ call = [s \in Session |-> Idle]
    /\ requests = 0

-----------------------------------------------------------------------------
(* How a request begins, goes on and ends.                                 *)

(* Only an answered merge keeps what it read: MergeIsExact asks for it.    *)
Ended(c, o) ==
    IF c.kind = "merge" /\ o = "ok" THEN [c EXCEPT !.at = "idle", !.hand = {}, !.outcome = o]
    ELSE [Idle EXCEPT !.kind = c.kind, !.outcome = o, !.landed = c.landed,
                      !.told = IF o \in {"ok", "partial"} THEN c.told ELSE {}]

Begins(s) ==
    /\ call[s].at = "idle"
    /\ requests < MaxRequests
    /\ requests' = requests + 1

Becomes(s, c) == call' = [call EXCEPT ![s] = c] /\ UNCHANGED base

Ask(s, c) == Begins(s) /\ Becomes(s, c)

Goes(s, c) == Becomes(s, c) /\ UNCHANGED requests

(* The bookkeeping of a commit to d: a merge of it is no longer alone. *)
Wrote(s, d, c) ==
    call' = [t \in Session |->
               IF t = s THEN c
               ELSE [call[t] EXCEPT !.quiet = @ /\ ~ (call[t].kind = "merge" /\ call[t].deck = d)]]

Applied(r, W) ==
    [x \in Slot |-> IF \E w \in W : w.slot = x
                    THEN (CHOOSE w \in W : w.slot = x).quantity ELSE r[x]]

(* A mutant: the identity is widened by what is there, never narrowed. *)
RefreshedWider(d, r) == identity[d] \cup Colours(r)

(* _refresh_deck_metadata: the union over both boards, of what the flush   *)
(* has written.                                                            *)
Refreshed(d, r) == Colours(r)

(* Flush, refresh, commit. *)
Commit(s, W) ==
    LET c == call[s]
        r == Applied(rows[c.deck], W)
    IN  /\ rows' = [rows EXCEPT ![c.deck] = r]
        /\ identity' = [identity EXCEPT ![c.deck] = Refreshed(c.deck, r)]
        /\ overtaken' = overtaken \ {c.deck}
        /\ Wrote(s, c.deck,
             [c EXCEPT !.at = "rereading", !.hand = W, !.todo = @ \ W,
                       !.landed = IF r # rows[c.deck] THEN @ + 1 ELSE @])
        /\ UNCHANGED <<decks, given, requests>>

(* A merge goes on to its next row and at last stamps the deck; the others *)
(* are done.                                                               *)
Done(c, W, o) ==
    IF c.kind # "merge" THEN Ended(c, o)
    ELSE [c EXCEPT !.todo = @ \ W,
                   !.at = IF c.todo \subseteq W THEN "closing" ELSE "writing"]

-----------------------------------------------------------------------------
(* The tools, up to their first write.                                     *)

Asked(k, d) == [Idle EXCEPT !.kind = k, !.deck = d]
Writing(k, d, W) == [Asked(k, d) EXCEPT !.at = "writing", !.todo = W]
ToWrite(v, x, q) == [verb |-> v, slot |-> x, quantity |-> q]

AddCard(s, d, x, q) ==
    Ask(s, IF d \notin decks THEN Ended(Asked("add", d), "deck_not_found")
           ELSE Writing("add", d, {ToWrite("add", x, q)}))

RemoveCard(s, d, x) ==
    Ask(s, IF d \notin decks THEN Ended(Asked("remove", d), "deck_not_found")
           ELSE Writing("remove", d, {ToWrite("remove", x, 0)}))

SetCardQuantity(s, d, x, q) ==
    LET c == Asked("set", d)
        write == ToWrite(IF q = 0 THEN "remove" ELSE "set", x, q)
    IN  Ask(s, IF d \notin decks THEN Ended(c, "deck_not_found")
               ELSE IF rows[d][x] = 0 THEN Ended(c, "card_not_found")
               ELSE IF rows[d][x] = q THEN Ended(c, "unchanged")
               ELSE Writing("set", d, {write}))

(* The lines of an export that name a card, each slot once, and whether it *)
(* has others: malformed, unknown, ambiguous, not read, or a slot again.   *)
(* What the deck holds is not added, and nothing is written if nothing is  *)
(* left.                                                                   *)
ImportDecklist(s, d, W, others) ==
    LET new == {w \in W : rows[d][w.slot] = 0}
    IN  /\ W # {} \/ others
        /\ Ask(s, IF d \notin decks THEN Ended(Asked("import", d), "deck_not_found")
                  ELSE IF new = {} THEN Ended(Asked("import", d), "partial")
                  ELSE [Writing("import", d, new) EXCEPT
                          !.told = {w.slot : w \in new}, !.short = others \/ new # W])

UpdateDeck(s, d) ==
    Ask(s, IF d \notin decks THEN Ended(Asked("update", d), "deck_not_found")
           ELSE [Asked("update", d) EXCEPT !.at = "renaming"])

(* One statement reads the source with its rows. *)
CloneDeck(s, src) ==
    Ask(s, IF src \notin decks THEN Ended(Asked("clone", src), "deck_not_found")
           ELSE [Asked("clone", src) EXCEPT !.at = "copying", !.theirs = rows[src],
                                            !.tint = identity[src],
                                            !.dubious = src \in overtaken])

MergeDecks(s, d, src, strategy) ==
    LET c == [Asked("merge", d) EXCEPT !.source = src, !.strategy = strategy]
    IN  Ask(s, IF d \notin decks THEN Ended(c, "deck_not_found")
               ELSE [c EXCEPT !.at = "source", !.mine = rows[d]])

(* Neither of these reads anything first. *)
CreateDeck(s, d) ==
    /\ Begins(s)
    /\ d \notin given
    /\ decks' = decks \cup {d} /\ given' = given \cup {d}
    /\ Wrote(s, d, [Asked("create", d) EXCEPT !.at = "rereading", !.landed = 1])
    /\ UNCHANGED <<rows, identity, overtaken>>

(* A mutant: the rows of a deck stay behind it. *)
DeleteDeckAlone(s, d) ==
    /\ Begins(s)
    /\ d \in decks
    /\ decks' = decks \ {d}
    /\ Wrote(s, d, [Ended(Asked("delete", d), "ok") EXCEPT !.landed = 1])
    /\ UNCHANGED <<given, rows, identity, overtaken>>

(* The rows of a deck go with it. *)
DeleteDeck(s, d) ==
    /\ Begins(s)
    /\ d \in decks
    /\ decks' = decks \ {d}
    /\ rows' = [rows EXCEPT ![d] = Empty]
    /\ identity' = [identity EXCEPT ![d] = {}]
    /\ Wrote(s, d, [Ended(Asked("delete", d), "ok") EXCEPT !.landed = 1])
    /\ UNCHANGED <<given, overtaken>>

DeleteNothing(s, d) == d \notin decks /\ Ask(s, Ended(Asked("delete", d), "deck_not_found"))

-----------------------------------------------------------------------------
(* The writes.                                                             *)

(* A mutant: a row that is there is written over. *)
InsertRowsOver(s, W) ==
    IF call[s].deck \in decks THEN Commit(s, W) ELSE Goes(s, Ended(call[s], "error"))

(* add_card_to_deck and add_cards_to_deck: the keys refuse a row that is   *)
(* there and a deck that is not.                                           *)
InsertRows(s, W) ==
    LET c == call[s]
        refused == CASE c.kind = "add" -> "exists"
                     [] c.kind = "import" -> "error"
                     [] c.kind = "merge" -> "failed"
    IN  IF c.deck \in decks /\ \A w \in W : rows[c.deck][w.slot] = 0
        THEN Commit(s, W)
        ELSE Goes(s, Ended(c, refused))

InsertRow(s) ==
    /\ call[s].at = "writing" /\ call[s].kind # "import"
    /\ \E w \in call[s].todo : w.verb = "add" /\ InsertRows(s, {w})

InsertBatch(s) ==
    /\ call[s].at = "writing" /\ call[s].kind = "import"
    /\ InsertRows(s, call[s].todo)

(* update_card_quantity, before and after its first write. *)
ReadRow(s) ==
    LET c == call[s]
    IN  /\ c.at = "writing"
        /\ \E w \in c.todo :
              /\ w.verb = "set"
              /\ Goes(s, CASE rows[c.deck][w.slot] = 0 -> Done(c, {w}, "card_not_found")
                           [] rows[c.deck][w.slot] = w.quantity -> Done(c, {w}, "ok")
                           [] OTHER -> [c EXCEPT !.at = "updating", !.hand = {w}])

UpdateRow(s) ==
    LET c == call[s]
    IN  /\ c.at = "updating"
        /\ IF \A w \in c.hand : rows[c.deck][w.slot] > 0
           THEN Commit(s, c.hand)
           ELSE Goes(s, Ended(c, IF c.kind = "merge" THEN "failed" ELSE "stale"))

(* A mutant: the count of deleted rows is not looked at. *)
DeleteRowBlindly(s) ==
    /\ call[s].at = "writing"
    /\ \E w \in call[s].todo : w.verb = "remove" /\ Commit(s, {w})

DeleteRow(s) ==
    LET c == call[s]
    IN  /\ c.at = "writing"
        /\ \E w \in c.todo :
              /\ w.verb = "remove"
              /\ IF rows[c.deck][w.slot] > 0 THEN Commit(s, {w})
                 ELSE Goes(s, Ended(c, IF c.kind = "set" THEN "card_not_found"
                                       ELSE "not_in_deck"))

InsertCopy(s) ==
    LET c == call[s]
    IN  /\ c.at = "copying"
        /\ \E d \in Deck \ given :
              /\ decks' = decks \cup {d} /\ given' = given \cup {d}
              /\ rows' = [rows EXCEPT ![d] = c.theirs]
              /\ identity' = [identity EXCEPT ![d] = c.tint]
              /\ overtaken' = IF c.dubious THEN overtaken \cup {d} ELSE overtaken
              /\ Wrote(s, d, [Asked("clone", d) EXCEPT !.at = "rereading", !.landed = 1])
        /\ UNCHANGED requests

WriteMetadata(s) ==
    LET c == call[s]
    IN  /\ c.at = "renaming"
        /\ Goes(s, IF c.deck \in decks THEN [c EXCEPT !.at = "rereading", !.landed = 1]
                   ELSE Ended(c, "stale"))

NewQuantity(strategy, m, t) ==
    CASE strategy = "COMBINE" -> m + t
      [] strategy = "MAXIMUM" -> IF m > t THEN m ELSE t
      [] OTHER -> t

(* The rows a merge will write, from what it has read of the two decks. *)
Planned(c, t) ==
    LET new == {x \in Slot : t[x] > 0 /\ c.mine[x] = 0}
        both == {x \in Slot : t[x] > 0 /\ c.mine[x] > 0}
        sum(x) == NewQuantity(c.strategy, c.mine[x], t[x])
    IN  {ToWrite("add", x, t[x]) : x \in new}
        \cup {ToWrite("set", x, sum(x)) : x \in {y \in both : sum(y) # c.mine[y]}}

ReadSource(s) ==
    LET c == call[s]
        t == rows[c.source]
        W == Planned(c, t)
    IN  /\ c.at = "source"
        /\ Goes(s, IF c.source \notin decks THEN Ended(c, "deck_not_found")
                   ELSE [c EXCEPT !.theirs = t, !.todo = W,
                                  !.at = IF W = {} THEN "closing" ELSE "writing"])

(* The last stamp of a merge, which asserts that its target is there.  No  *)
(* row has been flushed, so the deck and the colours of its rows are two   *)
(* reads, the write is a third step, and it writes an identity only when   *)
(* that differs from the one read.                                         *)
CloseMerge(s) ==
    LET c == call[s]
    IN  /\ c.at = "closing"
        /\ Goes(s, IF c.deck \in decks
                   THEN [c EXCEPT !.at = "joining", !.tint = identity[c.deck]]
                   ELSE Ended(c, "failed"))

JoinColours(s) ==
    LET c == call[s]
    IN  /\ c.at = "joining"
        /\ Goes(s, [c EXCEPT !.at = "stamping", !.seen = Colours(rows[c.deck])])

StampMerge(s) ==
    LET c == call[s]
        d == c.deck
        differs == c.seen # c.tint
    IN  /\ c.at = "stamping"
        /\ IF d \in decks
           THEN /\ identity' = IF differs THEN [identity EXCEPT ![d] = c.seen] ELSE identity
                /\ overtaken' = IF differs THEN overtaken \cup {d} ELSE overtaken
                /\ call' = [call EXCEPT ![s] = Ended([c EXCEPT !.tint = {}, !.seen = {}], "ok")]
                /\ UNCHANGED <<decks, given, rows, requests>>
           ELSE Goes(s, Ended(c, "failed"))

(* Before the commit the database may refuse any of this (locked, say),    *)
(* and the transaction is rolled back.                                     *)
DatabaseFails(s) ==
    LET c == call[s]
    IN  /\ c.at \notin {"idle", "rereading"}
        /\ Goes(s, Ended(c, IF c.kind = "merge" THEN "failed" ELSE "error"))

-----------------------------------------------------------------------------
(* _reload_committed: the deck is refreshed and the written rows are read  *)
(* again.  A database error is swallowed and the snapshot is the answer;   *)
(* a deck or a row that has vanished is another exception.                 *)
Vanished(c) ==
    \/ c.deck \notin decks
    \/ \E w \in c.hand : w.quantity > 0 /\ rows[c.deck][w.slot] = 0

Reread(s) ==
    LET c == call[s]
    IN  /\ c.at = "rereading"
        /\ \/ Goes(s, Done(c, c.hand, IF c.short THEN "partial" ELSE "ok"))
           \/ Vanished(c) /\ Goes(s, Ended(c, "raised"))

Tool(s) ==
    \/ \E d \in Deck, x \in Slot :
          \/ \E q \in Added : AddCard(s, d, x, q)
          \/ \E q \in SetTo : SetCardQuantity(s, d, x, q)
          \/ RemoveCard(s, d, x)
    \/ \E d \in Deck, X \in SUBSET Slot, q \in Added, others \in BOOLEAN :
          ImportDecklist(s, d, {ToWrite("add", x, q) : x \in X}, others)
    \/ \E d \in Deck : \/ CreateDeck(s, d) \/ CloneDeck(s, d) \/ UpdateDeck(s, d)
                       \/ DeleteDeck(s, d) \/ DeleteNothing(s, d)
    \/ \E d, src \in Deck, strategy \in Strategy : MergeDecks(s, d, src, strategy)

Repository(s) ==
    \/ InsertRow(s) \/ InsertBatch(s) \/ ReadRow(s) \/ UpdateRow(s) \/ DeleteRow(s)
    \/ InsertCopy(s) \/ WriteMetadata(s) \/ ReadSource(s) \/ CloseMerge(s)
    \/ JoinColours(s) \/ StampMerge(s) \/ DatabaseFails(s) \/ Reread(s)

Next == \E s \in Session : Tool(s) \/ Repository(s)

Spec == Init /\ [][Next]_vars

-----------------------------------------------------------------------------
(* The stored colour identity is the union over the rows, for every deck   *)
(* and at every commit: after each edit of either board, through clones    *)
(* that copy it from a source which has changed since, and merges of       *)
(* several commits that others come between.  The one exception is a deck  *)
(* last stamped by a merge which found, between its two reads, the work of *)
(* another, and a copy of it.                                              *)
IdentityIsTrue == \A d \in decks \ overtaken : identity[d] = Colours(rows[d])

(* A request that is answered with a refusal has changed nothing, and one  *)
(* that is answered ok has made its change exactly once.  A set may also   *)
(* find its quantity there.  An import answered partial has committed once *)
(* if it reports a line as added, and not at all if it reports none.       *)
(* "raised" answers nothing: the change is made and the caller hears an    *)
(* exception.                                                              *)
AnswersAreTrue ==
    \A s \in Session :
        /\ call[s].outcome \in Refusal => call[s].landed = 0
        /\ call[s].outcome = "ok" /\ call[s].kind \notin {"set", "merge"}
              => call[s].landed = 1
        /\ call[s].outcome = "partial"
              => call[s].landed = IF call[s].told = {} THEN 0 ELSE 1

(* A merge is written row by row, each in a transaction of its own, from   *)
(* quantities read beforehand.  Unless somebody else wrote to its target   *)
(* it ends on what its strategy says of the two decks it read.             *)
Merged(c) ==
    [x \in Slot |-> IF c.theirs[x] = 0 THEN c.mine[x]
                    ELSE IF c.mine[x] = 0 THEN c.theirs[x]
                    ELSE NewQuantity(c.strategy, c.mine[x], c.theirs[x])]

MergeIsExact ==
    \A s \in Session :
        LET c == call[s]
        IN  c.kind = "merge" /\ c.outcome = "ok" /\ c.quiet => rows[c.deck] = Merged(c)

(* And one that others come between takes only so much from them: a commit *)
(* of a merge changes a row that is there only where it read a row in both *)
(* decks, and then to what the strategy says of the two.  A quantity set   *)
(* meanwhile is lost to it, a row added meanwhile stops it (merge_decks).  *)
MergeSparesTheUnread ==
    [][ \A s \in Session :
          LET c == call[s]
          IN  c.kind = "merge" /\ c.at \in {"writing", "updating"}
                  /\ call'[s].at = "rereading"
              => \A x \in Slot :
                    rows[c.deck][x] > 0 /\ rows'[c.deck][x] # rows[c.deck][x]
                    => /\ c.mine[x] > 0 /\ c.theirs[x] > 0
                       /\ rows'[c.deck][x] = NewQuantity(c.strategy, c.mine[x], c.theirs[x])
      ]_vars

(* The two together: a merge does what its strategy says of the two decks  *)
(* it read, all of it when it is alone and nothing else when it is not.    *)
MergeIsSound == []MergeIsExact /\ MergeSparesTheUnread
=============================================================================
