--------------------------- MODULE DeckEditsProofs ----------------------------
(***************************************************************************)
(* Proofs about the deck tools (DeckEdits), for any number of sessions,    *)
(* decks, cards and requests.                                              *)
(*                                                                         *)
(* The argument: what the store holds is true by itself, but for a clone,  *)
(* which writes what it has read earlier; and what a call will answer      *)
(* follows from where it is, which CallInv says of one call alone.  Other  *)
(* sessions touch nothing of a call but its `quiet'.                       *)
(***************************************************************************)
EXTENDS DeckEdits, TLAPS

-----------------------------------------------------------------------------
(* The inductive invariant.                                                *)

StoreInv ==
    /\ decks \subseteq given /\ given \subseteq Deck
    /\ rows \in [Deck -> [Slot -> Nat]]
    /\ identity \in [Deck -> SUBSET Colour]
    /\ \A d \in Deck \ decks : rows[d] = Empty /\ identity[d] = {}
    /\ overtaken \subseteq given
    /\ IdentityIsTrue

Placed(c) ==
    /\ c.at # "idle" => c.deck \in Deck /\ c.outcome = "none"
    /\ c.at = "source" => c.source \in Deck

KindFits(c) ==
    /\ c.at \in {"source", "closing", "joining", "stamping"} => c.kind = "merge"
    /\ c.at = "renaming" => c.kind = "update"
    /\ c.at = "copying" => c.kind = "clone"
    /\ c.at = "updating" => c.kind \in {"set", "merge"} /\ c.hand # {}
    /\ c.at = "writing" => c.kind \in Verb \cup {"import", "merge"} /\ c.todo # {}
    /\ c.at # "idle" /\ c.short => c.kind = "import" /\ c.told # {}

VerbFits(k, w) ==
    /\ k \in {"add", "import"} => w.verb = "add"
    /\ k = "remove" => w.verb = "remove"
    /\ k = "set" => w.verb \in {"set", "remove"}
    /\ k = "merge" => w.verb \in {"add", "set"}
    /\ w.verb = "add" => w.quantity > 0
    /\ w.verb = "remove" => w.quantity = 0

VerbsFit(c) == \A w \in c.todo : VerbFits(c.kind, w)

CopyFits(c) == c.at = "copying" /\ ~ c.dubious => c.tint = Colours(c.theirs)

Answered(c) ==
    /\ c.outcome \in Refusal => c.landed = 0
    /\ c.outcome = "ok" /\ c.kind \notin {"set", "merge"} => c.landed = 1
    /\ c.outcome = "partial" => c.landed = IF c.told = {} THEN 0 ELSE 1
    /\ c.at \notin {"idle", "rereading"} /\ (c.kind # "merge" \/ c.at = "source")
          => c.landed = 0
    /\ c.at = "rereading" /\ c.kind \notin {"set", "merge"} => c.landed = 1

CallInv(c) ==
    c \in Call /\ Placed(c) /\ KindFits(c) /\ VerbsFit(c) /\ CopyFits(c) /\ Answered(c)

CallsInv ==
    /\ call \in [Session -> Call]
    /\ \A s \in Session : CallInv(call[s])

EditsInv == StoreInv /\ CallsInv /\ requests \in 0 .. MaxRequests

-----------------------------------------------------------------------------
(* The operators.                                                          *)

LEMMA EmptyIsBlank == Empty \in [Slot -> Nat] /\ Colours(Empty) = {}
<1>1. Empty \in [Slot -> Nat]
  BY DEF Empty
<1>2. {y \in Slot : Empty[y] > 0} = {}
  BY DEF Empty
<1> QED BY <1>1, <1>2 DEF Colours

LEMMA ColoursAreColour == \A r : Colours(r) \in SUBSET Colour
  BY DEF Colours, Colour

LEMMA AppliedFacts ==
  ASSUME NEW r \in [Slot -> Nat], NEW W \in SUBSET Write
  PROVE  /\ Applied(r, W) \in [Slot -> Nat]
         /\ \A x \in Slot : (\A w \in W : w.slot # x) => Applied(r, W)[x] = r[x]
         /\ \A w \in W : (\A v \in W : v.slot = w.slot => v = w)
                => Applied(r, W)[w.slot] = w.quantity
<1>1. ASSUME NEW x \in Slot, \E w \in W : w.slot = x
      PROVE  (CHOOSE w \in W : w.slot = x) \in W /\ (CHOOSE w \in W : w.slot = x).slot = x
  BY <1>1
<1>2. \A w \in W : w.slot \in Slot /\ w.quantity \in Nat
  BY DEF Write
<1>3. Applied(r, W) \in [Slot -> Nat]
  BY <1>1, <1>2 DEF Applied
<1>4. \A x \in Slot : (\A w \in W : w.slot # x) => Applied(r, W)[x] = r[x]
  BY DEF Applied
<1>5. ASSUME NEW w \in W, \A v \in W : v.slot = w.slot => v = w
      PROVE  Applied(r, W)[w.slot] = w.quantity
  <2>1. (CHOOSE v \in W : v.slot = w.slot) = w
    BY <1>1, <1>2, <1>5
  <2> QED BY <2>1, <1>2 DEF Applied
<1> QED BY <1>3, <1>4, <1>5

(* The records of calls.                                                   *)
LEMMA IdleFits == CallInv(Idle)
  BY EmptyIsBlank DEF Idle, CallInv, Call, Strategy, Placed, KindFits, VerbsFit, CopyFits,
     Answered, Refusal, Kind, Verb

LEMMA AskedFits ==
  ASSUME NEW k \in Kind, NEW d \in Deck
  PROVE  /\ Asked(k, d) \in Call
         /\ Asked(k, d) = [Idle EXCEPT !.kind = k, !.deck = d]
         /\ CallInv(Asked(k, d))
  BY EmptyIsBlank DEF Asked, Idle, CallInv, Call, Strategy, Placed, KindFits, VerbsFit, CopyFits,
     Answered, Refusal, Kind, Verb

Outcome == Refusal \cup {"none", "ok", "partial", "failed", "raised"}

LEMMA EndedFits ==
  ASSUME NEW c \in Call, VerbsFit(c), NEW o \in Outcome,
         o \in Refusal => c.landed = 0,
         o = "ok" /\ c.kind \notin {"set", "merge"} => c.landed = 1,
         o = "partial" => c.landed = IF c.told = {} THEN 0 ELSE 1
  PROVE  CallInv(Ended(c, o))
<1>1. CASE c.kind = "merge" /\ o = "ok"
  <2> DEFINE e == [c EXCEPT !.at = "idle", !.hand = {}, !.outcome = o]
  <2>1. Ended(c, o) = e
    BY <1>1 DEF Ended
  <2>2. /\ e \in Call /\ e.at = "idle" /\ e.outcome = "ok"
        /\ e.kind = c.kind /\ e.todo = c.todo
    BY <1>1 DEF Call
  <2>3. e.outcome \notin Refusal
    BY <2>2 DEF Refusal
  <2> HIDE DEF e
  <2>4. VerbsFit(e)
    BY <2>2 DEF VerbsFit, VerbFits
  <2>5. Placed(e) /\ KindFits(e) /\ CopyFits(e) /\ Answered(e)
    BY <1>1, <2>2, <2>3 DEF Placed, KindFits, CopyFits, Answered
  <2> QED BY <2>1, <2>2, <2>4, <2>5 DEF CallInv
<1>2. CASE ~ (c.kind = "merge" /\ o = "ok")
  <2> DEFINE told == IF o \in {"ok", "partial"} THEN c.told ELSE {}
             e == [Idle EXCEPT !.kind = c.kind, !.outcome = o, !.landed = c.landed,
                               !.told = told]
  <2>1. Ended(c, o) = e
    BY <1>2 DEF Ended
  <2>2. Idle \in Call /\ Idle.at = "idle" /\ Idle.todo = {}
    BY IdleFits DEF CallInv, Idle
  <2>3. /\ e \in Call /\ e.at = "idle" /\ e.outcome = o /\ e.landed = c.landed
        /\ e.kind = c.kind /\ e.todo = {} /\ e.told = told
    <3>1. c.kind \in Kind \cup {"none"} /\ c.landed \in Nat /\ told \in SUBSET Slot
      BY DEF Call
    <3> HIDE DEF told
    <3>2. e \in Call
      BY <3>1, EmptyIsBlank DEF Idle, Call, Strategy, Outcome
    <3>3. /\ e.at = "idle" /\ e.outcome = o /\ e.landed = c.landed
          /\ e.kind = c.kind /\ e.todo = {} /\ e.told = told
      BY DEF Idle
    <3> QED BY <3>2, <3>3
  <2> HIDE DEF e
  <2>4. VerbsFit(e)
    BY <2>3 DEF VerbsFit
  <2>5. Placed(e) /\ KindFits(e) /\ CopyFits(e) /\ Answered(e)
    BY <2>3 DEF Placed, KindFits, CopyFits, Answered
  <2> QED BY <2>1, <2>3, <2>4, <2>5 DEF CallInv
<1> QED BY <1>1, <1>2

LEMMA QuietIsFree ==
  ASSUME NEW c, CallInv(c), NEW b \in BOOLEAN
  PROVE  CallInv([c EXCEPT !.quiet = b])
  BY DEF CallInv, Call, Placed, KindFits, VerbsFit, VerbFits, CopyFits, Answered

LEMMA WritingFits ==
  ASSUME NEW k \in Verb \cup {"import"}, NEW d \in Deck, NEW W \in SUBSET Write,
         W # {}, \A w \in W : VerbFits(k, w)
  PROVE  CallInv(Writing(k, d, W))
<1> DEFINE c == Writing(k, d, W)
<1>1. c \in Call
  BY EmptyIsBlank DEF Writing, Asked, Idle, Call, Strategy, Kind, Verb
<1>2. /\ c.at = "writing" /\ c.outcome = "none" /\ c.landed = 0
      /\ c.kind = k /\ c.deck = d /\ c.todo = W /\ ~ c.short
  BY DEF Writing, Asked, Idle
<1> HIDE DEF c
<1>3. VerbsFit(c)
  BY <1>2 DEF VerbsFit
<1>4. Placed(c) /\ KindFits(c) /\ CopyFits(c) /\ Answered(c)
  BY <1>2 DEF Placed, KindFits, CopyFits, Answered, Refusal
<1> QED BY <1>1, <1>3, <1>4 DEF CallInv, c

-----------------------------------------------------------------------------
(* Steps of one session leave the calls of the others as they are.         *)

LEMMA BecomesKeeps ==
  ASSUME CallsInv, NEW s \in Session, NEW c, CallInv(c), call' = [call EXCEPT ![s] = c]
  PROVE  CallsInv'
<1>1. c \in Call
  BY DEF CallInv
<1>2. call' \in [Session -> Call]
  BY <1>1 DEF CallsInv
<1>3. \A t \in Session : CallInv(call'[t])
  BY DEF CallsInv
<1> QED BY <1>2, <1>3 DEF CallsInv

LEMMA WroteKeeps ==
  ASSUME CallsInv, NEW s \in Session, NEW d, NEW c, CallInv(c), Wrote(s, d, c)
  PROVE  CallsInv'
<1>1. ASSUME NEW t \in Session, t # s PROVE CallInv(call'[t])
  <2> DEFINE b == call[t].quiet /\ ~ (call[t].kind = "merge" /\ call[t].deck = d)
  <2>1. b \in BOOLEAN
    OBVIOUS
  <2>2. call'[t] = [call[t] EXCEPT !.quiet = b]
    BY <1>1 DEF Wrote
  <2>3. CallInv(call[t])
    BY DEF CallsInv
  <2> HIDE DEF b
  <2> QED BY <2>1, <2>2, <2>3, QuietIsFree
<1>2. CallInv(call'[s])
  BY DEF Wrote
<1>3. \A t \in Session : CallInv(call'[t])
  BY <1>1, <1>2
<1>4. \A t \in Session : call'[t] \in Call
  BY <1>3 DEF CallInv
<1>5. call' \in [Session -> Call]
  BY <1>4 DEF Wrote
<1> QED BY <1>3, <1>5 DEF CallsInv

LEMMA StoreRests == StoreInv /\ UNCHANGED base => StoreInv'
  BY DEF StoreInv, IdentityIsTrue, base

LEMMA AskKeeps ==
  ASSUME EditsInv, NEW s \in Session, NEW c, CallInv(c), Ask(s, c)
  PROVE  EditsInv'
<1>1. StoreInv'
  BY StoreRests DEF EditsInv, Ask, Becomes
<1>2. CallsInv'
  BY BecomesKeeps DEF EditsInv, Ask, Becomes
<1>3. requests' \in 0 .. MaxRequests
  BY DeckEditsAssumption DEF EditsInv, Ask, Begins
<1> QED BY <1>1, <1>2, <1>3 DEF EditsInv

LEMMA GoesKeeps ==
  ASSUME EditsInv, NEW s \in Session, NEW c, CallInv(c), Goes(s, c)
  PROVE  EditsInv'
<1>1. StoreInv'
  BY StoreRests DEF EditsInv, Goes, Becomes
<1>2. CallsInv'
  BY BecomesKeeps DEF EditsInv, Goes, Becomes
<1>3. requests' \in 0 .. MaxRequests
  BY DEF EditsInv, Goes
<1> QED BY <1>1, <1>2, <1>3 DEF EditsInv

(* A commit of a request that goes on, or one that ends it.                *)
LEMMA WriteKeeps ==
  ASSUME EditsInv, NEW s \in Session, NEW d, NEW c, CallInv(c), Wrote(s, d, c),
         StoreInv', UNCHANGED requests \/ Begins(s)
  PROVE  EditsInv'
<1>1. CallsInv'
  BY WroteKeeps DEF EditsInv
<1>2. requests' \in 0 .. MaxRequests
  BY DeckEditsAssumption DEF EditsInv, Begins
<1> QED BY <1>1, <1>2 DEF EditsInv

-----------------------------------------------------------------------------
(* The tools, up to their first write.                                     *)

LEMMA RefusedFits ==
  ASSUME NEW k \in Kind, NEW d \in Deck, NEW o \in Refusal
  PROVE  CallInv(Ended(Asked(k, d), o))
<1>1. Asked(k, d) \in Call /\ VerbsFit(Asked(k, d)) /\ Asked(k, d).landed = 0
  BY AskedFits DEF CallInv, Asked, Idle
<1>2. o \notin {"ok", "partial"} /\ o \in Outcome
  BY DEF Refusal, Outcome
<1> QED BY <1>1, <1>2, EndedFits

LEMMA AddCardKeeps ==
  ASSUME EditsInv, NEW s \in Session, NEW d \in Deck, NEW x \in Slot, NEW q \in Added,
         AddCard(s, d, x, q)
  PROVE  EditsInv'
<1>1. CASE d \notin decks
  <2>1. CallInv(Ended(Asked("add", d), "deck_not_found"))
    BY RefusedFits DEF Refusal, Kind, Verb
  <2> QED BY <1>1, <2>1, AskKeeps DEF AddCard
<1>2. CASE d \in decks
  <2> DEFINE w == ToWrite("add", x, q)
  <2>1. w \in Write /\ VerbFits("add", w)
    BY DeckEditsAssumption DEF ToWrite, Write, Verb, VerbFits
  <2> HIDE DEF w
  <2>2. CallInv(Writing("add", d, {w}))
    BY <2>1, WritingFits DEF Verb
  <2>3. Ask(s, Writing("add", d, {w}))
    BY <1>2 DEF AddCard, w
  <2> QED BY <2>2, <2>3, AskKeeps
<1> QED BY <1>1, <1>2

LEMMA RemoveCardKeeps ==
  ASSUME EditsInv, NEW s \in Session, NEW d \in Deck, NEW x \in Slot, RemoveCard(s, d, x)
  PROVE  EditsInv'
<1>1. CASE d \notin decks
  <2>1. CallInv(Ended(Asked("remove", d), "deck_not_found"))
    BY RefusedFits DEF Refusal, Kind, Verb
  <2> QED BY <1>1, <2>1, AskKeeps DEF RemoveCard
<1>2. CASE d \in decks
  <2> DEFINE w == ToWrite("remove", x, 0)
  <2>1. w \in Write /\ VerbFits("remove", w)
    BY DEF ToWrite, Write, Verb, VerbFits
  <2> HIDE DEF w
  <2>2. CallInv(Writing("remove", d, {w}))
    BY <2>1, WritingFits DEF Verb
  <2>3. Ask(s, Writing("remove", d, {w}))
    BY <1>2 DEF RemoveCard, w
  <2> QED BY <2>2, <2>3, AskKeeps
<1> QED BY <1>1, <1>2

LEMMA SetCardQuantityKeeps ==
  ASSUME EditsInv, NEW s \in Session, NEW d \in Deck, NEW x \in Slot, NEW q \in SetTo,
         SetCardQuantity(s, d, x, q)
  PROVE  EditsInv'
<1> DEFINE w == ToWrite(IF q = 0 THEN "remove" ELSE "set", x, q)
<1>1. \A o \in {"deck_not_found", "card_not_found", "unchanged"} :
          CallInv(Ended(Asked("set", d), o))
  BY RefusedFits DEF Refusal, Kind, Verb
<1>2. w \in Write /\ VerbFits("set", w)
  BY DeckEditsAssumption DEF ToWrite, Write, Verb, VerbFits
<1> HIDE DEF w
<1>3. CallInv(Writing("set", d, {w}))
  BY <1>2, WritingFits DEF Verb
<1>4. \/ \E o \in {"deck_not_found", "card_not_found", "unchanged"} :
             Ask(s, Ended(Asked("set", d), o))
      \/ Ask(s, Writing("set", d, {w}))
  BY DEF SetCardQuantity, w
<1> QED BY <1>1, <1>3, <1>4, AskKeeps

LEMMA ImportDecklistKeeps ==
  ASSUME EditsInv, NEW s \in Session, NEW d \in Deck, NEW X \in SUBSET Slot, NEW q \in Added,
         NEW others \in BOOLEAN,
         ImportDecklist(s, d, {ToWrite("add", x, q) : x \in X}, others)
  PROVE  EditsInv'
<1> DEFINE W == {ToWrite("add", x, q) : x \in X}
           new == {w \in W : rows[d][w.slot] = 0}
           told == {w.slot : w \in new}
           short == others \/ new # W
           b == Writing("import", d, new)
           c == [b EXCEPT !.told = told, !.short = short]
<1>1. CallInv(Ended(Asked("import", d), "deck_not_found"))
  BY RefusedFits DEF Refusal, Kind, Verb
<1>2. CallInv(Ended(Asked("import", d), "partial"))
  <2>1. /\ Asked("import", d) \in Call /\ VerbsFit(Asked("import", d))
        /\ Asked("import", d).landed = 0 /\ Asked("import", d).told = {}
    BY AskedFits DEF CallInv, Asked, Idle, Kind
  <2> QED BY <2>1, EndedFits DEF Outcome, Refusal
<1>3. \A w \in W : w \in Write /\ VerbFits("import", w)
  BY DeckEditsAssumption DEF ToWrite, Write, Verb, VerbFits
<1>4. new \in SUBSET Write /\ \A w \in new : VerbFits("import", w)
  BY <1>3
<1>5. told \in SUBSET Slot /\ short \in BOOLEAN /\ (new # {} => told # {})
  BY <1>4 DEF Write
<1>6. \/ \E o \in {"deck_not_found", "partial"} : Ask(s, Ended(Asked("import", d), o))
      \/ new # {} /\ Ask(s, c)
  BY DEF ImportDecklist
<1> HIDE DEF new, W, told, short
<1>7. ASSUME new # {} PROVE CallInv(c)
  <2>1. CallInv(b)
    BY <1>4, <1>7, WritingFits
  <2>2. b.at = "writing" /\ b.kind = "import" /\ b.outcome = "none" /\ b \in Call
    BY <2>1 DEF Writing, Asked, Idle, CallInv
  <2> HIDE DEF b
  <2>3. /\ c \in Call /\ c.at = b.at /\ c.kind = b.kind /\ c.deck = b.deck
        /\ c.todo = b.todo /\ c.outcome = b.outcome /\ c.landed = b.landed /\ c.told = told
    BY <1>5, <2>2 DEF Call
  <2> HIDE DEF c
  <2>4. VerbsFit(c)
    BY <2>1, <2>3 DEF CallInv, VerbsFit
  <2>5. Placed(c) /\ KindFits(c) /\ CopyFits(c) /\ Answered(c)
    BY <1>5, <1>7, <2>1, <2>2, <2>3
    DEF CallInv, Placed, KindFits, CopyFits, Answered, Refusal
  <2> QED BY <2>3, <2>4, <2>5 DEF CallInv
<1> QED BY <1>1, <1>2, <1>6, <1>7, AskKeeps

LEMMA UpdateDeckKeeps ==
  ASSUME EditsInv, NEW s \in Session, NEW d \in Deck, UpdateDeck(s, d)
  PROVE  EditsInv'
<1> DEFINE c == [Asked("update", d) EXCEPT !.at = "renaming"]
<1>1. CallInv(Ended(Asked("update", d), "deck_not_found"))
  BY RefusedFits DEF Refusal, Kind
<1>2. CallInv(c)
  BY EmptyIsBlank DEF Asked, Idle, CallInv, Call, Strategy, Placed, KindFits, VerbsFit,
     CopyFits, Answered, Refusal, Kind
<1>3. Ask(s, Ended(Asked("update", d), "deck_not_found")) \/ Ask(s, c)
  BY DEF UpdateDeck
<1> HIDE DEF c
<1> QED BY <1>1, <1>2, <1>3, AskKeeps

LEMMA CloneDeckKeeps ==
  ASSUME EditsInv, NEW s \in Session, NEW d \in Deck, CloneDeck(s, d)
  PROVE  EditsInv'
<1> DEFINE c == [Asked("clone", d) EXCEPT !.at = "copying", !.theirs = rows[d],
                                          !.tint = identity[d], !.dubious = d \in overtaken]
<1>1. CASE d \notin decks
  <2>1. CallInv(Ended(Asked("clone", d), "deck_not_found"))
    BY RefusedFits DEF Refusal, Kind
  <2> QED BY <1>1, <2>1, AskKeeps DEF CloneDeck
<1>2. CASE d \in decks
  <2>1. d \notin overtaken => identity[d] = Colours(rows[d])
    BY <1>2 DEF EditsInv, StoreInv, IdentityIsTrue
  <2>2. rows[d] \in [Slot -> Nat] /\ identity[d] \in SUBSET Colour
    BY DEF EditsInv, StoreInv
  <2>3. c \in Call
    <3>1. \A b \in BOOLEAN :
              [Asked("clone", d) EXCEPT !.at = "copying", !.theirs = rows[d],
                                        !.tint = identity[d], !.dubious = b] \in Call
      BY <2>2, EmptyIsBlank DEF Asked, Idle, Call, Strategy, Kind, Refusal
    <3>2. (d \in overtaken) \in BOOLEAN
      OBVIOUS
    <3> QED BY <3>1, <3>2
  <2>4. /\ c.at = "copying" /\ c.outcome = "none" /\ c.kind = "clone" /\ c.deck = d
        /\ c.todo = {} /\ c.landed = 0 /\ ~ c.short
        /\ c.theirs = rows[d] /\ c.tint = identity[d] /\ c.dubious = (d \in overtaken)
    BY DEF Asked, Idle
  <2>5. Ask(s, c)
    BY <1>2 DEF CloneDeck
  <2> HIDE DEF c
  <2>6. CallInv(c)
    BY <2>1, <2>3, <2>4 DEF CallInv, Placed, KindFits, VerbsFit, CopyFits, Answered, Refusal
  <2> QED BY <2>5, <2>6, AskKeeps
<1> QED BY <1>1, <1>2

LEMMA MergeDecksKeeps ==
  ASSUME EditsInv, NEW s \in Session, NEW d \in Deck, NEW src \in Deck,
         NEW strategy \in Strategy, MergeDecks(s, d, src, strategy)
  PROVE  EditsInv'
<1> DEFINE b == [Asked("merge", d) EXCEPT !.source = src, !.strategy = strategy]
           c == [b EXCEPT !.at = "source", !.mine = rows[d]]
<1>1. b \in Call /\ b.todo = {} /\ b.landed = 0
  BY EmptyIsBlank DEF Asked, Idle, Call, Kind, Refusal
<1>2. VerbsFit(b)
  BY <1>1 DEF VerbsFit
<1>3. "deck_not_found" \in Outcome \cap Refusal
  BY DEF Outcome, Refusal
<1>4. rows[d] \in [Slot -> Nat]
  BY DEF EditsInv, StoreInv
<1>5. c \in Call
  BY <1>1, <1>4 DEF Call
<1>6. /\ c.at = "source" /\ c.outcome = "none" /\ c.kind = "merge" /\ c.deck = d
      /\ c.source = src /\ c.todo = {} /\ c.landed = 0 /\ ~ c.short
  BY DEF Asked, Idle
<1>7. Ask(s, Ended(b, "deck_not_found")) \/ Ask(s, c)
  BY DEF MergeDecks
<1> HIDE DEF b, c
<1>8. CallInv(Ended(b, "deck_not_found"))
  BY <1>1, <1>2, <1>3, EndedFits
<1>9. CallInv(c)
  BY <1>5, <1>6 DEF CallInv, Placed, KindFits, VerbsFit, CopyFits, Answered, Refusal
<1> QED BY <1>7, <1>8, <1>9, AskKeeps

LEMMA CreateDeckKeeps ==
  ASSUME EditsInv, NEW s \in Session, NEW d \in Deck, CreateDeck(s, d)
  PROVE  EditsInv'
<1> DEFINE c == [Asked("create", d) EXCEPT !.at = "rereading", !.landed = 1]
<1>1. CallInv(c)
  BY EmptyIsBlank DEF Asked, Idle, CallInv, Call, Strategy, Placed, KindFits, VerbsFit,
     CopyFits, Answered, Refusal, Kind
<1>2. Wrote(s, d, c) /\ Begins(s)
  BY DEF CreateDeck
<1> HIDE DEF c
<1>3. rows[d] = Empty /\ identity[d] = {}
  BY DEF CreateDeck, EditsInv, StoreInv
<1>4. StoreInv'
  BY <1>3, EmptyIsBlank DEF CreateDeck, EditsInv, StoreInv, IdentityIsTrue
<1> QED BY <1>1, <1>2, <1>4, WriteKeeps

LEMMA DeleteDeckKeeps ==
  ASSUME EditsInv, NEW s \in Session, NEW d \in Deck, DeleteDeck(s, d)
  PROVE  EditsInv'
<1> DEFINE c == [Ended(Asked("delete", d), "ok") EXCEPT !.landed = 1]
<1>1. CallInv(c)
  BY EmptyIsBlank DEF Ended, Asked, Idle, CallInv, Call, Strategy, Placed, KindFits, VerbsFit,
     CopyFits, Answered, Refusal, Kind
<1>2. Wrote(s, d, c) /\ Begins(s)
  BY DEF DeleteDeck
<1> HIDE DEF c
<1>3. StoreInv'
  BY EmptyIsBlank DEF DeleteDeck, EditsInv, StoreInv, IdentityIsTrue
<1> QED BY <1>1, <1>2, <1>3, WriteKeeps

LEMMA ToolKeeps == ASSUME EditsInv, NEW s \in Session, Tool(s) PROVE EditsInv'
<1>1. ASSUME NEW d \in Deck, DeleteNothing(s, d) PROVE EditsInv'
  <2>1. CallInv(Ended(Asked("delete", d), "deck_not_found"))
    BY RefusedFits DEF Refusal, Kind
  <2> QED BY <1>1, <2>1, AskKeeps DEF DeleteNothing
<1> QED
  BY <1>1, AddCardKeeps, RemoveCardKeeps, SetCardQuantityKeeps, ImportDecklistKeeps,
     UpdateDeckKeeps, CloneDeckKeeps, MergeDecksKeeps, CreateDeckKeeps, DeleteDeckKeeps
  DEF Tool

-----------------------------------------------------------------------------
(* The repository.                                                         *)

LEMMA CallFacts ==
  ASSUME EditsInv, NEW s \in Session
  PROVE  CallInv(call[s]) /\ call[s] \in Call
  BY DEF EditsInv, CallsInv, CallInv

(* A call that has changed nothing, or a merge, may be refused.            *)
LEMMA RefuseFits ==
  ASSUME NEW c, CallInv(c), c.at \notin {"idle", "rereading"},
         NEW o \in Outcome \ {"ok", "partial"},
         o \in Refusal /\ c.kind = "merge" => c.at = "source"
  PROVE  CallInv(Ended(c, o))
<1>1. c \in Call /\ VerbsFit(c)
  BY DEF CallInv
<1>2. o \in Refusal => c.landed = 0
  BY DEF CallInv, Answered
<1> QED BY <1>1, <1>2, EndedFits

LEMMA DoneFits ==
  ASSUME NEW c, CallInv(c), c.at # "idle", NEW W, NEW o \in Outcome,
         c.kind # "merge" /\ o \in Refusal => c.landed = 0,
         c.kind \notin {"merge", "set"} /\ o = "ok" => c.landed = 1,
         o = "partial" => c.landed = IF c.told = {} THEN 0 ELSE 1
  PROVE  CallInv(Done(c, W, o))
<1>1. CASE c.kind # "merge"
  <2>1. c \in Call /\ VerbsFit(c)
    BY DEF CallInv
  <2>2. CallInv(Ended(c, o))
    BY <1>1, <2>1, EndedFits
  <2> QED BY <1>1, <2>2 DEF Done
<1>2. CASE c.kind = "merge"
  <2> DEFINE at == IF c.todo \subseteq W THEN "closing" ELSE "writing"
             e == [c EXCEPT !.todo = c.todo \ W, !.at = at]
  <2>1. Done(c, W, o) = e
    BY <1>2 DEF Done
  <2>2. c \in Call
    BY DEF CallInv
  <2>3. e \in Call
    BY <2>2 DEF Call
  <2>4. /\ e.at = at /\ e.kind = "merge" /\ e.todo = c.todo \ W /\ e.deck = c.deck
        /\ e.outcome = c.outcome /\ e.landed = c.landed /\ e.short = c.short
    BY <1>2, <2>2 DEF Call
  <2>5. at = "writing" => c.todo \ W # {}
    OBVIOUS
  <2>6. at \in {"closing", "writing"}
    OBVIOUS
  <2> HIDE DEF at, e
  <2>7. Placed(e) /\ KindFits(e) /\ CopyFits(e)
    BY <1>2, <2>4, <2>5, <2>6 DEF CallInv, Placed, KindFits, CopyFits
  <2>8. VerbsFit(e)
    BY <1>2, <2>4 DEF CallInv, VerbsFit
  <2>9. e.outcome = "none"
    BY <2>4 DEF CallInv, Placed
  <2>10. Answered(e)
    BY <2>4, <2>6, <2>9 DEF Answered, Refusal
  <2> QED BY <2>1, <2>3, <2>7, <2>8, <2>10 DEF CallInv
<1> QED BY <1>1, <1>2

(* Every commit of rows: what it stores is true, and a request that is not *)
(* a set or a merge has now landed once, if it has changed anything.       *)
LEMMA CommitKeeps ==
  ASSUME EditsInv, NEW s \in Session, NEW W \in SUBSET Write, Commit(s, W),
         call[s].at \in {"writing", "updating"}, call[s].deck \in decks,
         call[s].kind \notin {"set", "merge"} =>
            Applied(rows[call[s].deck], W) # rows[call[s].deck]
  PROVE  EditsInv'
<1> DEFINE c == call[s]
           d == c.deck
           r == Applied(rows[d], W)
           n == IF r # rows[d] THEN c.landed + 1 ELSE c.landed
           e == [c EXCEPT !.at = "rereading", !.hand = W, !.todo = c.todo \ W, !.landed = n]
<1>1. CallInv(c) /\ c \in Call
  BY CallFacts
<1>2. d \in Deck /\ rows[d] \in [Slot -> Nat]
  BY DEF EditsInv, StoreInv
<1>3. r \in [Slot -> Nat]
  BY <1>2, AppliedFacts
<1>4. Wrote(s, d, e) /\ UNCHANGED requests
  BY DEF Commit
<1>5. StoreInv'
  <2>1. rows' = [rows EXCEPT ![d] = r] /\ identity' = [identity EXCEPT ![d] = Colours(r)]
    BY DEF Commit, Refreshed
  <2>2. overtaken' = overtaken \ {d} /\ UNCHANGED <<decks, given>>
    BY DEF Commit
  <2> HIDE DEF c, d, r
  <2>3. Colours(r) \in SUBSET Colour
    BY ColoursAreColour
  <2>4. d \in decks
    BY DEF c, d
  <2> QED BY <1>2, <1>3, <2>1, <2>2, <2>3, <2>4 DEF EditsInv, StoreInv, IdentityIsTrue
<1>6. n \in Nat /\ (c.kind \notin {"set", "merge"} => n = 1)
  <2>1. c.landed \in Nat
    BY <1>1 DEF Call
  <2>2. c.kind # "merge" => c.landed = 0
    BY <1>1 DEF CallInv, Answered
  <2> QED BY <2>1, <2>2
<1> HIDE DEF n, r
<1>7. e \in Call
  BY <1>1, <1>6 DEF Call
<1>8. /\ e.at = "rereading" /\ e.todo = c.todo \ W /\ e.landed = n
      /\ e.kind = c.kind /\ e.deck = c.deck /\ e.outcome = c.outcome
      /\ e.short = c.short /\ e.told = c.told
  BY <1>1 DEF Call
<1>9. c.outcome = "none" /\ VerbsFit(c) /\ (c.short => c.kind = "import" /\ c.told # {})
  BY <1>1 DEF CallInv, Placed, KindFits
<1> HIDE DEF e
<1>10. CallInv(e)
  BY <1>2, <1>6, <1>7, <1>8, <1>9
  DEF CallInv, Placed, KindFits, VerbsFit, CopyFits, Answered, Refusal
<1> QED BY <1>4, <1>5, <1>10, WriteKeeps

(* A deck with a row is there.                                             *)
LEMMA RowedIsThere ==
  ASSUME EditsInv, NEW d \in Deck, NEW x \in Slot, rows[d][x] > 0
  PROVE  d \in decks
  BY DEF EditsInv, StoreInv, Empty

LEMMA InsertRowsKeeps ==
  ASSUME EditsInv, NEW s \in Session, NEW W \in SUBSET call[s].todo, W # {},
         call[s].at = "writing", \A w \in W : w.verb = "add", InsertRows(s, W)
  PROVE  EditsInv'
<1> DEFINE c == call[s]
           refused == CASE c.kind = "add" -> "exists"
                        [] c.kind = "import" -> "error"
                        [] c.kind = "merge" -> "failed"
<1>1. CallInv(c) /\ c \in Call
  BY CallFacts
<1>2. c.deck \in Deck /\ c.kind \in Verb \cup {"import", "merge"}
  BY <1>1 DEF CallInv, Placed, KindFits
<1>3. W \in SUBSET Write
  BY <1>1 DEF Call
<1>4. \A w \in W : VerbFits(c.kind, w)
  BY <1>1 DEF CallInv, VerbsFit
<1>5. c.kind \in {"add", "import", "merge"}
  BY <1>2, <1>4 DEF VerbFits, Verb
<1>6. CASE c.deck \in decks /\ \A w \in W : rows[c.deck][w.slot] = 0
  <2>1. Commit(s, W)
    BY <1>6 DEF InsertRows
  <2>2. Applied(rows[c.deck], W) # rows[c.deck]
    <3>1. PICK w \in W : TRUE
      OBVIOUS
    <3>2. \A v \in W : v.quantity > 0 /\ v.quantity \in Nat /\ v.slot \in Slot
      BY <1>3, <1>4 DEF VerbFits, Write
    <3>3. (CHOOSE v \in W : v.slot = w.slot) \in W
      BY <3>1
    <3>4. Applied(rows[c.deck], W)[w.slot] = (CHOOSE v \in W : v.slot = w.slot).quantity
      BY <3>2 DEF Applied
    <3>5. rows[c.deck][w.slot] = 0
      BY <1>6
    <3> QED BY <3>2, <3>3, <3>4, <3>5
  <2> QED BY <1>3, <1>6, <2>1, <2>2, CommitKeeps
<1>7. CASE ~ (c.deck \in decks /\ \A w \in W : rows[c.deck][w.slot] = 0)
  <2>1. Goes(s, Ended(c, refused))
    BY <1>7 DEF InsertRows
  <2>2. refused \in {"exists", "error", "failed"} /\ (c.kind = "merge" => refused = "failed")
    BY <1>5
  <2> HIDE DEF refused, c
  <2>3. CallInv(Ended(c, refused))
    BY <1>1, <2>2, RefuseFits DEF Outcome, Refusal, c
  <2> QED BY <2>1, <2>3, GoesKeeps
<1> QED BY <1>6, <1>7

LEMMA InsertRowKeeps ==
  ASSUME EditsInv, NEW s \in Session, InsertRow(s) \/ InsertBatch(s)
  PROVE  EditsInv'
<1>1. CASE InsertRow(s)
  <2>1. PICK w \in call[s].todo : w.verb = "add" /\ InsertRows(s, {w})
    BY <1>1 DEF InsertRow
  <2>2. {w} \in SUBSET call[s].todo /\ {w} # {}
    OBVIOUS
  <2> QED BY <1>1, <2>1, <2>2, InsertRowsKeeps DEF InsertRow
<1>2. CASE InsertBatch(s)
  <2>1. CallInv(call[s])
    BY CallFacts
  <2>2. call[s].todo # {} /\ \A w \in call[s].todo : w.verb = "add"
    BY <1>2, <2>1 DEF InsertBatch, CallInv, KindFits, VerbsFit, VerbFits
  <2> QED BY <1>2, <2>2, InsertRowsKeeps DEF InsertBatch
<1> QED BY <1>1, <1>2

LEMMA ReadRowKeeps ==
  ASSUME EditsInv, NEW s \in Session, ReadRow(s)
  PROVE  EditsInv'
<1> DEFINE c == call[s]
<1>1. CallInv(c) /\ c \in Call /\ c.at = "writing"
  BY CallFacts DEF ReadRow
<1>2. PICK w \in c.todo :
          /\ w.verb = "set"
          /\ \/ Goes(s, Done(c, {w}, "card_not_found"))
             \/ Goes(s, Done(c, {w}, "ok"))
             \/ Goes(s, [c EXCEPT !.at = "updating", !.hand = {w}])
  BY DEF ReadRow
<1>3. VerbFits(c.kind, w) /\ w \in Write
  BY <1>1 DEF CallInv, VerbsFit, Call
<1>4. c.kind \in {"set", "merge"}
  BY <1>1, <1>2, <1>3 DEF CallInv, KindFits, VerbFits, Verb
<1>5. c.kind # "merge" => c.landed = 0
  BY <1>1 DEF CallInv, Answered
<1> HIDE DEF c
<1>6. CallInv(Done(c, {w}, "card_not_found")) /\ CallInv(Done(c, {w}, "ok"))
  BY <1>1, <1>4, <1>5, DoneFits DEF Outcome, Refusal
<1>7. CallInv([c EXCEPT !.at = "updating", !.hand = {w}])
  <2> DEFINE e == [c EXCEPT !.at = "updating", !.hand = {w}]
  <2>1. e \in Call
    BY <1>1, <1>3 DEF Call
  <2>2. /\ e.at = "updating" /\ e.hand = {w} /\ e.kind = c.kind /\ e.deck = c.deck
        /\ e.todo = c.todo /\ e.outcome = c.outcome /\ e.landed = c.landed
        /\ e.short = c.short
    BY <1>1 DEF Call
  <2> HIDE DEF e
  <2>3. CallInv(e)
    BY <1>1, <1>4, <1>5, <2>1, <2>2
    DEF CallInv, Placed, KindFits, VerbsFit, CopyFits, Answered, Refusal
  <2> QED BY <2>3 DEF e
<1> QED BY <1>2, <1>6, <1>7, GoesKeeps

LEMMA UpdateRowKeeps ==
  ASSUME EditsInv, NEW s \in Session, UpdateRow(s)
  PROVE  EditsInv'
<1> DEFINE c == call[s]
<1>1. CallInv(c) /\ c \in Call /\ c.at = "updating"
  BY CallFacts DEF UpdateRow
<1>2. c.kind \in {"set", "merge"} /\ c.hand # {} /\ c.deck \in Deck
  BY <1>1 DEF CallInv, KindFits, Placed
<1>3. c.hand \in SUBSET Write
  BY <1>1 DEF Call
<1>4. CASE \A w \in c.hand : rows[c.deck][w.slot] > 0
  <2>1. PICK w \in c.hand : TRUE
    BY <1>2
  <2>2. w.slot \in Slot
    BY <1>3 DEF Write
  <2>3. c.deck \in decks
    BY <1>2, <1>4, <2>2, RowedIsThere
  <2>4. Commit(s, c.hand)
    BY <1>4 DEF UpdateRow
  <2> QED BY <1>1, <1>2, <1>3, <2>3, <2>4, CommitKeeps
<1>5. CASE ~ \A w \in c.hand : rows[c.deck][w.slot] > 0
  <2> DEFINE o == IF c.kind = "merge" THEN "failed" ELSE "stale"
  <2>1. Goes(s, Ended(c, o))
    BY <1>5 DEF UpdateRow
  <2>2. o \in {"failed", "stale"} /\ (c.kind = "merge" => o = "failed")
    OBVIOUS
  <2> HIDE DEF o, c
  <2>3. CallInv(Ended(c, o))
    BY <1>1, <2>2, RefuseFits DEF Outcome, Refusal
  <2> QED BY <2>1, <2>3, GoesKeeps
<1> QED BY <1>4, <1>5

LEMMA DeleteRowKeeps ==
  ASSUME EditsInv, NEW s \in Session, DeleteRow(s)
  PROVE  EditsInv'
<1> DEFINE c == call[s]
           o == IF c.kind = "set" THEN "card_not_found" ELSE "not_in_deck"
<1>1. CallInv(c) /\ c \in Call /\ c.at = "writing"
  BY CallFacts DEF DeleteRow
<1>2. PICK w \in c.todo :
          /\ w.verb = "remove"
          /\ IF rows[c.deck][w.slot] > 0 THEN Commit(s, {w}) ELSE Goes(s, Ended(c, o))
  BY DEF DeleteRow
<1>3. VerbFits(c.kind, w) /\ w \in Write /\ c.deck \in Deck
  BY <1>1 DEF CallInv, VerbsFit, Call, Placed
<1>4. c.kind \in {"set", "remove"} /\ w.quantity = 0 /\ w.slot \in Slot
  BY <1>1, <1>2, <1>3 DEF CallInv, KindFits, VerbFits, Verb, Write
<1>5. CASE rows[c.deck][w.slot] > 0
  <2>1. c.deck \in decks
    BY <1>3, <1>4, <1>5, RowedIsThere
  <2>2. rows[c.deck] \in [Slot -> Nat] /\ {w} \in SUBSET Write
    BY <1>3 DEF EditsInv, StoreInv
  <2>3. Applied(rows[c.deck], {w})[w.slot] = w.quantity
    <3>1. \A v \in {w} : v.slot = w.slot => v = w
      OBVIOUS
    <3> QED BY <2>2, <3>1, AppliedFacts
  <2>4. Applied(rows[c.deck], {w}) # rows[c.deck]
    BY <1>4, <1>5, <2>3
  <2>5. Commit(s, {w})
    BY <1>2, <1>5
  <2> QED BY <1>1, <2>1, <2>2, <2>4, <2>5, CommitKeeps
<1>6. CASE ~ rows[c.deck][w.slot] > 0
  <2>1. Goes(s, Ended(c, o))
    BY <1>2, <1>6
  <2>2. o \in {"card_not_found", "not_in_deck"}
    OBVIOUS
  <2> HIDE DEF o, c
  <2>3. CallInv(Ended(c, o))
    BY <1>1, <1>4, <2>2, RefuseFits DEF Outcome, Refusal
  <2> QED BY <2>1, <2>3, GoesKeeps
<1> QED BY <1>5, <1>6

LEMMA InsertCopyKeeps ==
  ASSUME EditsInv, NEW s \in Session, InsertCopy(s)
  PROVE  EditsInv'
<1> DEFINE c == call[s]
<1>1. CallInv(c) /\ c \in Call /\ c.at = "copying"
  BY CallFacts DEF InsertCopy
<1>2. PICK d \in Deck \ given :
          /\ decks' = decks \cup {d} /\ given' = given \cup {d}
          /\ rows' = [rows EXCEPT ![d] = c.theirs]
          /\ identity' = [identity EXCEPT ![d] = c.tint]
          /\ overtaken' = IF c.dubious THEN overtaken \cup {d} ELSE overtaken
          /\ Wrote(s, d, [Asked("clone", d) EXCEPT !.at = "rereading", !.landed = 1])
  BY DEF InsertCopy
<1>3. UNCHANGED requests
  BY DEF InsertCopy
<1>4. /\ c.theirs \in [Slot -> Nat] /\ c.tint \in SUBSET Colour /\ c.dubious \in BOOLEAN
      /\ ~ c.dubious => c.tint = Colours(c.theirs)
  BY <1>1 DEF CallInv, CopyFits, Call
<1> HIDE DEF c
<1>5. StoreInv'
  BY <1>2, <1>4 DEF EditsInv, StoreInv, IdentityIsTrue
<1>6. CallInv([Asked("clone", d) EXCEPT !.at = "rereading", !.landed = 1])
  BY EmptyIsBlank DEF Asked, Idle, CallInv, Call, Strategy, Placed, KindFits, VerbsFit,
     CopyFits, Answered, Refusal, Kind
<1> QED BY <1>2, <1>3, <1>5, <1>6, WriteKeeps

LEMMA WriteMetadataKeeps ==
  ASSUME EditsInv, NEW s \in Session, WriteMetadata(s)
  PROVE  EditsInv'
<1> DEFINE c == call[s]
           e == [c EXCEPT !.at = "rereading", !.landed = 1]
<1>1. CallInv(c) /\ c \in Call /\ c.at = "renaming"
  BY CallFacts DEF WriteMetadata
<1>2. c.kind = "update"
  BY <1>1 DEF CallInv, KindFits
<1>3. Goes(s, Ended(c, "stale")) \/ Goes(s, e)
  BY DEF WriteMetadata
<1> HIDE DEF c
<1>4. CallInv(Ended(c, "stale"))
  BY <1>1, <1>2, RefuseFits DEF Outcome, Refusal
<1>5. e \in Call
  BY <1>1 DEF Call
<1>6. /\ e.at = "rereading" /\ e.landed = 1 /\ e.kind = c.kind /\ e.deck = c.deck
      /\ e.todo = c.todo /\ e.outcome = c.outcome /\ e.short = c.short
  BY <1>1 DEF Call
<1> HIDE DEF e
<1>7. CallInv(e)
  BY <1>1, <1>2, <1>5, <1>6
  DEF CallInv, Placed, KindFits, VerbsFit, CopyFits, Answered, Refusal
<1> QED BY <1>3, <1>4, <1>7, GoesKeeps

LEMMA NewQuantityIsNat ==
  ASSUME NEW strategy, NEW m \in Nat, NEW n \in Nat
  PROVE  NewQuantity(strategy, m, n) \in Nat
  BY DEF NewQuantity

LEMMA PlannedFits ==
  ASSUME NEW c \in Call, NEW t \in [Slot -> Nat]
  PROVE  /\ Planned(c, t) \in SUBSET Write
         /\ \A w \in Planned(c, t) : VerbFits("merge", w)
<1>1. c.mine \in [Slot -> Nat]
  BY DEF Call
<1>2. \A x \in Slot : t[x] > 0 =>
          ToWrite("add", x, t[x]) \in Write /\ VerbFits("merge", ToWrite("add", x, t[x]))
  BY DEF ToWrite, Write, Verb, VerbFits
<1>3. \A x \in Slot : \A q \in Nat :
          ToWrite("set", x, q) \in Write /\ VerbFits("merge", ToWrite("set", x, q))
  BY DEF ToWrite, Write, Verb, VerbFits
<1>4. \A x \in Slot : NewQuantity(c.strategy, c.mine[x], t[x]) \in Nat
  BY <1>1, NewQuantityIsNat
<1> QED BY <1>2, <1>3, <1>4 DEF Planned

LEMMA ReadSourceKeeps ==
  ASSUME EditsInv, NEW s \in Session, ReadSource(s)
  PROVE  EditsInv'
<1> DEFINE c == call[s]
           t == rows[c.source]
           W == Planned(c, t)
           at == IF W = {} THEN "closing" ELSE "writing"
           e == [c EXCEPT !.theirs = t, !.todo = W, !.at = at]
<1>1. CallInv(c) /\ c \in Call /\ c.at = "source"
  BY CallFacts DEF ReadSource
<1>2. c.kind = "merge" /\ c.source \in Deck /\ c.deck \in Deck /\ c.outcome = "none"
  BY <1>1 DEF CallInv, KindFits, Placed
<1>3. t \in [Slot -> Nat]
  BY <1>2 DEF EditsInv, StoreInv
<1>4. W \in SUBSET Write /\ \A w \in W : VerbFits("merge", w)
  BY <1>1, <1>3, PlannedFits
<1>5. Goes(s, Ended(c, "deck_not_found")) \/ Goes(s, e)
  BY DEF ReadSource
<1>6. at \in {"closing", "writing"} /\ (at = "writing" => W # {})
  OBVIOUS
<1> HIDE DEF c, t, W, at
<1>7. CallInv(Ended(c, "deck_not_found"))
  BY <1>1, RefuseFits DEF Outcome, Refusal
<1>8. e \in Call
  BY <1>1, <1>3, <1>4, <1>6 DEF Call
<1>9. /\ e.at = at /\ e.todo = W /\ e.kind = c.kind /\ e.deck = c.deck
      /\ e.outcome = c.outcome /\ e.landed = c.landed /\ e.short = c.short
  BY <1>1 DEF Call
<1> HIDE DEF e
<1>10. CallInv(e)
  BY <1>1, <1>2, <1>4, <1>6, <1>8, <1>9
  DEF CallInv, Placed, KindFits, VerbsFit, CopyFits, Answered, Refusal, Verb
<1> QED BY <1>5, <1>7, <1>10, GoesKeeps

LEMMA ClosingKeeps ==
  ASSUME EditsInv, NEW s \in Session, CloseMerge(s) \/ JoinColours(s)
  PROVE  EditsInv'
<1> DEFINE c == call[s]
<1>1. CallInv(c) /\ c \in Call /\ c.at \in {"closing", "joining"}
  BY CallFacts DEF CloseMerge, JoinColours
<1>2. c.kind = "merge" /\ c.deck \in Deck /\ c.outcome = "none"
  BY <1>1 DEF CallInv, KindFits, Placed
<1>3. identity[c.deck] \in SUBSET Colour /\ Colours(rows[c.deck]) \in SUBSET Colour
  BY <1>2, ColoursAreColour DEF EditsInv, StoreInv
<1>4. \/ Goes(s, Ended(c, "failed"))
      \/ Goes(s, [c EXCEPT !.at = "joining", !.tint = identity[c.deck]])
      \/ Goes(s, [c EXCEPT !.at = "stamping", !.seen = Colours(rows[c.deck])])
  BY DEF CloseMerge, JoinColours
<1> HIDE DEF c
<1>5. CallInv(Ended(c, "failed"))
  BY <1>1, RefuseFits DEF Outcome, Refusal
<1>6. ASSUME NEW C \in SUBSET Colour
      PROVE  /\ CallInv([c EXCEPT !.at = "joining", !.tint = C])
             /\ CallInv([c EXCEPT !.at = "stamping", !.seen = C])
  <2> DEFINE j == [c EXCEPT !.at = "joining", !.tint = C]
             k == [c EXCEPT !.at = "stamping", !.seen = C]
  <2>1. j \in Call /\ k \in Call
    BY <1>1, <1>6 DEF Call
  <2>2. /\ j.at = "joining" /\ j.todo = c.todo /\ j.kind = c.kind
        /\ j.deck = c.deck /\ j.outcome = c.outcome
        /\ k.at = "stamping" /\ k.todo = c.todo /\ k.kind = c.kind
        /\ k.deck = c.deck /\ k.outcome = c.outcome
        /\ j.short = c.short /\ k.short = c.short
    BY <1>1 DEF Call
  <2> HIDE DEF j, k
  <2>3. CallInv(j)
    BY <1>1, <1>2, <2>1, <2>2
    DEF CallInv, Placed, KindFits, VerbsFit, CopyFits, Answered, Refusal
  <2>4. CallInv(k)
    BY <1>1, <1>2, <2>1, <2>2
    DEF CallInv, Placed, KindFits, VerbsFit, CopyFits, Answered, Refusal
  <2> QED BY <2>3, <2>4 DEF j, k
<1> QED BY <1>3, <1>4, <1>5, <1>6, GoesKeeps

LEMMA StampMergeKeeps ==
  ASSUME EditsInv, NEW s \in Session, StampMerge(s)
  PROVE  EditsInv'
<1> DEFINE c == call[s]
           d == c.deck
           b == [c EXCEPT !.tint = {}, !.seen = {}]
<1>1. CallInv(c) /\ c \in Call /\ c.at = "stamping"
  BY CallFacts DEF StampMerge
<1>2. c.kind = "merge" /\ d \in Deck /\ c.seen \in SUBSET Colour
  BY <1>1 DEF CallInv, KindFits, Placed, Call
<1>3. b \in Call /\ b.todo = c.todo /\ b.kind = c.kind
  BY <1>1 DEF Call
<1>4. CASE d \in decks
  <2>1. /\ identity' = IF c.seen # c.tint THEN [identity EXCEPT ![d] = c.seen] ELSE identity
        /\ overtaken' = IF c.seen # c.tint THEN overtaken \cup {d} ELSE overtaken
        /\ call' = [call EXCEPT ![s] = Ended(b, "ok")]
        /\ UNCHANGED <<decks, given, rows, requests>>
    BY <1>4 DEF StampMerge
  <2> HIDE DEF b
  <2>2. CallInv(Ended(b, "ok"))
    <3>1. VerbsFit(b)
      BY <1>1, <1>3 DEF CallInv, VerbsFit
    <3> QED BY <1>2, <1>3, <3>1, EndedFits DEF Outcome, Refusal
  <2>3. CallsInv'
    BY <2>1, <2>2, BecomesKeeps DEF EditsInv
  <2> HIDE DEF c, d
  <2>4. d \in decks
    BY <1>4
  <2>5. StoreInv'
    <3>1. identity' \in [Deck -> SUBSET Colour]
      BY <1>2, <2>1 DEF EditsInv, StoreInv
    <3>2. overtaken' \subseteq given'
      BY <2>1, <2>4 DEF EditsInv, StoreInv
    <3>3. IdentityIsTrue'
      BY <1>2, <2>1, <2>4 DEF EditsInv, StoreInv, IdentityIsTrue
    <3>4. \A x \in Deck \ decks' : rows'[x] = Empty /\ identity'[x] = {}
      BY <1>2, <2>1, <2>4 DEF EditsInv, StoreInv
    <3> QED BY <2>1, <3>1, <3>2, <3>3, <3>4 DEF EditsInv, StoreInv
  <2> QED BY <2>1, <2>3, <2>5 DEF EditsInv
<1>5. CASE d \notin decks
  <2>1. Goes(s, Ended(c, "failed"))
    BY <1>5 DEF StampMerge
  <2> HIDE DEF c
  <2>2. CallInv(Ended(c, "failed"))
    BY <1>1, RefuseFits DEF Outcome, Refusal
  <2> QED BY <2>1, <2>2, GoesKeeps
<1> QED BY <1>4, <1>5

LEMMA DatabaseFailsKeeps ==
  ASSUME EditsInv, NEW s \in Session, DatabaseFails(s)
  PROVE  EditsInv'
<1> DEFINE c == call[s]
           o == IF c.kind = "merge" THEN "failed" ELSE "error"
<1>1. CallInv(c) /\ c.at \notin {"idle", "rereading"}
  BY CallFacts DEF DatabaseFails
<1>2. o \in {"failed", "error"} /\ (c.kind = "merge" => o = "failed")
  OBVIOUS
<1>3. Goes(s, Ended(c, o))
  BY DEF DatabaseFails
<1> HIDE DEF c, o
<1>4. CallInv(Ended(c, o))
  BY <1>1, <1>2, RefuseFits DEF Outcome, Refusal
<1> QED BY <1>3, <1>4, GoesKeeps

LEMMA RereadKeeps ==
  ASSUME EditsInv, NEW s \in Session, Reread(s)
  PROVE  EditsInv'
<1> DEFINE c == call[s]
           o == IF c.short THEN "partial" ELSE "ok"
<1>1. CallInv(c) /\ c \in Call /\ c.at = "rereading"
  BY CallFacts DEF Reread
<1>2. c.kind \notin {"set", "merge"} => c.landed = 1
  BY <1>1 DEF CallInv, Answered
<1>3. Goes(s, Done(c, c.hand, o)) \/ Goes(s, Ended(c, "raised"))
  BY DEF Reread
<1>4. o \in {"ok", "partial"} /\ (o = "partial" => c.kind = "import" /\ c.told # {})
  BY <1>1 DEF CallInv, KindFits
<1> HIDE DEF c, o
<1>5. CallInv(Done(c, c.hand, o))
  <2>1. o \in Outcome \ Refusal
    BY <1>4 DEF Outcome, Refusal
  <2>2. o = "partial" => c.landed = IF c.told = {} THEN 0 ELSE 1
    BY <1>2, <1>4
  <2> QED BY <1>1, <1>2, <2>1, <2>2, DoneFits
<1>6. CallInv(Ended(c, "raised"))
  <2>1. VerbsFit(c) /\ "raised" \in Outcome \ Refusal
    BY <1>1 DEF CallInv, Outcome, Refusal
  <2> QED BY <1>1, <2>1, EndedFits
<1> QED BY <1>3, <1>5, <1>6, GoesKeeps

-----------------------------------------------------------------------------
(* The invariant, and what follows from it.                                *)

LEMMA EditsStart == Init => EditsInv
<1> SUFFICES ASSUME Init PROVE EditsInv
  OBVIOUS
<1>1. rows \in [Deck -> [Slot -> Nat]]
  BY DEF Init
<1>2. \A d \in Deck \ decks : rows[d] = Empty /\ identity[d] = {}
  BY EmptyIsBlank DEF Init
<1>3. StoreInv
  BY <1>1, <1>2, ColoursAreColour DEF Init, StoreInv, IdentityIsTrue
<1>4. \A s \in Session : call[s] = Idle
  BY DEF Init
<1>5. CallsInv
  <2>1. Idle \in Call
    BY IdleFits DEF CallInv
  <2> QED BY <1>4, <2>1, IdleFits DEF Init, CallsInv
<1> QED BY <1>3, <1>5, DeckEditsAssumption DEF Init, EditsInv

LEMMA EditsStep == EditsInv /\ [Next]_vars => EditsInv'
<1> SUFFICES ASSUME EditsInv, [Next]_vars PROVE EditsInv'
  OBVIOUS
<1>1. ASSUME NEW s \in Session, Tool(s) PROVE EditsInv'
  BY <1>1, ToolKeeps
<1>2. ASSUME NEW s \in Session, Repository(s) PROVE EditsInv'
  BY <1>2, InsertRowKeeps, ReadRowKeeps, UpdateRowKeeps, DeleteRowKeeps, InsertCopyKeeps,
     WriteMetadataKeeps, ReadSourceKeeps, ClosingKeeps, StampMergeKeeps, DatabaseFailsKeeps,
     RereadKeeps
  DEF Repository
<1>3. CASE UNCHANGED vars
  <2>1. StoreInv'
    BY <1>3, StoreRests DEF EditsInv, vars
  <2> QED BY <1>3, <2>1 DEF EditsInv, CallsInv, vars
<1> QED BY <1>1, <1>2, <1>3 DEF Next

LEMMA EditsInvariant == Spec => []EditsInv
  BY EditsStart, EditsStep, PTL DEF Spec

(* The tables and the calls stay in their types, and an id with no deck    *)
(* has no rows (delete_deck, which cascades).                              *)
THEOREM TypeCorrect == Spec => []TypeOK
<1>1. EditsInv => TypeOK
  BY DEF EditsInv, StoreInv, CallsInv, CallInv, KindFits, TypeOK
<1> QED BY <1>1, EditsInvariant, PTL

(* The stored colour identity is the union over the rows, through clones   *)
(* of a source that has changed and edits of several sessions, but for     *)
(* decks stamped by a disturbed merge (_refresh_deck_metadata).            *)
THEOREM IdentityStaysTrue == Spec => []IdentityIsTrue
<1>1. EditsInv => IdentityIsTrue
  BY DEF EditsInv, StoreInv
<1> QED BY <1>1, EditsInvariant, PTL

(* A refusal has changed nothing, an ok has changed its one thing, and an  *)
(* import answered partial has committed exactly if it reports a line,     *)
(* however sessions interleave (deck_management.py, deck_import.py).       *)
THEOREM AnswersStayTrue == Spec => []AnswersAreTrue
<1>1. EditsInv => AnswersAreTrue
  BY DEF EditsInv, CallsInv, CallInv, Answered, AnswersAreTrue
<1> QED BY <1>1, EditsInvariant, PTL

-----------------------------------------------------------------------------
(* Merges.  What a merge has to do is part of what it planned, whoever     *)
(* writes to its target; and while nobody else does, the target is what    *)
(* the merge read of it with the part of the plan applied that is no       *)
(* longer to do.                                                           *)

Plan(c) == Planned(c, c.theirs)

Underway == {"writing", "updating", "rereading", "closing", "joining", "stamping"}

PlanFits(c) ==
    c.kind = "merge" =>
      /\ c.at \in Underway => c.todo \subseteq Plan(c)
      /\ c.at = "updating" => \A w \in c.hand : w \in c.todo /\ w.verb = "set"

UndisturbedFits(c, R) ==
    c.kind = "merge" /\ c.quiet =>
      /\ c.at = "source" => R[c.deck] = c.mine
      /\ c.at \in Underway => R[c.deck] = Applied(c.mine, Plan(c) \ c.todo)
      /\ c.at = "rereading" => c.hand \cap c.todo = {}
      /\ c.at \in {"closing", "joining", "stamping"} => c.todo = {}
      /\ c.at = "idle" /\ c.outcome = "ok" => c.deck \in Deck /\ R[c.deck] = Merged(c)

MergeFits(c, R) == PlanFits(c) /\ UndisturbedFits(c, R)

MergesInv == \A s \in Session : MergeFits(call[s], rows)

LEMMA PlanHasSlotsOnce ==
  ASSUME NEW c \in Call, NEW t \in [Slot -> Nat]
  PROVE  \A v, w \in Planned(c, t) : v.slot = w.slot => v = w
<1>1. \A w \in Planned(c, t) :
          \/ w.slot \in Slot /\ c.mine[w.slot] = 0 /\ w = ToWrite("add", w.slot, t[w.slot])
          \/ /\ w.slot \in Slot /\ c.mine[w.slot] > 0
             /\ w = ToWrite("set", w.slot, NewQuantity(c.strategy, c.mine[w.slot], t[w.slot]))
  BY DEF Planned, ToWrite
<1>2. \A x \in Slot : c.mine[x] \in Nat
  BY DEF Call
<1> QED BY <1>1, <1>2

(* One write after another is their union, if they are of different slots. *)
LEMMA AppliedTwice ==
  ASSUME NEW r \in [Slot -> Nat], NEW V \in SUBSET Write, NEW W \in SUBSET Write,
         \A v, w \in V \cup W : v.slot = w.slot => v = w
  PROVE  Applied(Applied(r, V), W) = Applied(r, V \cup W)
<1> DEFINE q == Applied(r, V)
<1>1. q \in [Slot -> Nat] /\ V \cup W \in SUBSET Write
  BY AppliedFacts
<1>2. Applied(q, W) \in [Slot -> Nat] /\ Applied(r, V \cup W) \in [Slot -> Nat]
  BY <1>1, AppliedFacts
<1>3. ASSUME NEW x \in Slot PROVE Applied(q, W)[x] = Applied(r, V \cup W)[x]
  <2>1. CASE \E w \in W : w.slot = x
    <3>1. PICK w \in W : w.slot = x
      BY <2>1
    <3>2. Applied(q, W)[x] = w.quantity
      BY <1>1, <3>1, AppliedFacts
    <3>3. Applied(r, V \cup W)[x] = w.quantity
      BY <1>1, <3>1, AppliedFacts
    <3> QED BY <3>2, <3>3
  <2>2. CASE (\A w \in W : w.slot # x) /\ \E v \in V : v.slot = x
    <3>1. PICK v \in V : v.slot = x
      BY <2>2
    <3>2. Applied(q, W)[x] = q[x]
      BY <1>1, <2>2, AppliedFacts
    <3>3. q[x] = v.quantity
      BY <3>1, AppliedFacts
    <3>4. Applied(r, V \cup W)[x] = v.quantity
      BY <1>1, <3>1, AppliedFacts
    <3> QED BY <3>2, <3>3, <3>4
  <2>3. CASE \A w \in V \cup W : w.slot # x
    <3>1. Applied(q, W)[x] = q[x] /\ q[x] = r[x] /\ Applied(r, V \cup W)[x] = r[x]
      BY <1>1, <2>3, AppliedFacts
    <3> QED BY <3>1
  <2> QED BY <2>1, <2>2, <2>3
<1> DEFINE a == Applied(q, W)
           b == Applied(r, V \cup W)
<1>4. a \in [Slot -> Nat] /\ b \in [Slot -> Nat] /\ \A x \in Slot : a[x] = b[x]
  BY <1>2, <1>3
<1> HIDE DEF a, b
<1>5. a = b
  BY <1>4
<1> QED BY <1>5 DEF a, b

LEMMA NothingApplied == ASSUME NEW r \in [Slot -> Nat] PROVE Applied(r, {}) = r
  BY DEF Applied

(* A whole plan does what its strategy says.                               *)
LEMMA PlanMerges ==
  ASSUME NEW c \in Call
  PROVE  Applied(c.mine, Plan(c)) = Merged(c)
<1>1. c.mine \in [Slot -> Nat] /\ c.theirs \in [Slot -> Nat]
  BY DEF Call
<1>2. Plan(c) \in SUBSET Write /\ \A v, w \in Plan(c) : v.slot = w.slot => v = w
  BY <1>1, PlannedFits, PlanHasSlotsOnce DEF Plan
<1> DEFINE sum(x) == NewQuantity(c.strategy, c.mine[x], c.theirs[x])
<1>3. \A x \in Slot :
          c.theirs[x] > 0 /\ c.mine[x] = 0 => ToWrite("add", x, c.theirs[x]) \in Plan(c)
  BY DEF Plan, Planned
<1>4. \A x \in Slot :
          c.theirs[x] > 0 /\ c.mine[x] > 0 /\ sum(x) # c.mine[x]
             => ToWrite("set", x, sum(x)) \in Plan(c)
  BY DEF Plan, Planned
<1>5. \A w \in Plan(c) :
          /\ w.slot \in Slot /\ c.theirs[w.slot] > 0
          /\ c.mine[w.slot] = 0 \/ (c.mine[w.slot] > 0 /\ sum(w.slot) # c.mine[w.slot])
  BY DEF Plan, Planned, ToWrite
<1>6. ASSUME NEW x \in Slot PROVE Applied(c.mine, Plan(c))[x] = Merged(c)[x]
  <2>1. c.mine[x] \in Nat /\ c.theirs[x] \in Nat
    BY <1>1
  <2>2. CASE c.theirs[x] > 0 /\ c.mine[x] = 0
    <3> DEFINE w == ToWrite("add", x, c.theirs[x])
    <3>1. w \in Plan(c) /\ w.slot = x /\ w.quantity = c.theirs[x]
      BY <1>3, <2>2 DEF ToWrite
    <3> HIDE DEF w
    <3>2. Applied(c.mine, Plan(c))[x] = c.theirs[x]
      BY <1>1, <1>2, <3>1, AppliedFacts
    <3> QED BY <2>1, <2>2, <3>2 DEF Merged
  <2>3. CASE c.theirs[x] > 0 /\ c.mine[x] > 0 /\ sum(x) # c.mine[x]
    <3> DEFINE w == ToWrite("set", x, sum(x))
    <3>1. w \in Plan(c) /\ w.slot = x /\ w.quantity = sum(x)
      BY <1>4, <2>3 DEF ToWrite
    <3> HIDE DEF w
    <3>2. Applied(c.mine, Plan(c))[x] = sum(x)
      BY <1>1, <1>2, <3>1, AppliedFacts
    <3> QED BY <2>1, <2>3, <3>2 DEF Merged
  <2>4. CASE c.theirs[x] = 0 \/ (c.mine[x] > 0 /\ sum(x) = c.mine[x])
    <3>1. \A w \in Plan(c) : w.slot # x
      BY <1>5, <2>1, <2>4
    <3>2. Applied(c.mine, Plan(c))[x] = c.mine[x]
      BY <1>1, <1>2, <3>1, AppliedFacts
    <3> QED BY <2>1, <2>4, <3>2 DEF Merged
  <2> QED BY <2>1, <2>2, <2>3, <2>4
<1>7. Applied(c.mine, Plan(c)) \in [Slot -> Nat]
  BY <1>1, <1>2, AppliedFacts
<1> HIDE DEF sum
<1>8. Merged(c) = [x \in Slot |-> Merged(c)[x]]
  BY DEF Merged
<1> QED BY <1>6, <1>7, <1>8

(* Another session's commit to the target ends the promise; any other      *)
(* leaves it.                                                              *)
LEMMA OthersKeepMerge ==
  ASSUME NEW t \in Session, NEW s \in Session, t # s, NEW d, NEW e,
         MergeFits(call[t], rows), Wrote(s, d, e),
         \A x \in Deck : x # d => rows'[x] = rows[x],
         CallInv(call[t])
  PROVE  MergeFits(call'[t], rows')
<1> DEFINE c == call[t]
           b == c.quiet /\ ~ (c.kind = "merge" /\ c.deck = d)
           f == [c EXCEPT !.quiet = b]
<1>1. call'[t] = f
  BY DEF Wrote
<1>2. c \in Call
  BY DEF CallInv
<1>3. b \in BOOLEAN
  OBVIOUS
<1>4. b => c.quiet /\ (c.kind = "merge" => c.deck # d)
  OBVIOUS
<1> HIDE DEF b
<1>5. /\ f.kind = c.kind /\ f.at = c.at /\ f.deck = c.deck /\ f.mine = c.mine
      /\ f.theirs = c.theirs /\ f.strategy = c.strategy /\ f.todo = c.todo
      /\ f.hand = c.hand /\ f.outcome = c.outcome /\ f.quiet = b
  BY <1>2 DEF Call
<1> HIDE DEF f
<1>6. Plan(f) = Plan(c) /\ Merged(f) = Merged(c)
  BY <1>5 DEF Plan, Planned, Merged
<1>7. c.at # "idle" => c.deck \in Deck
  BY DEF CallInv, Placed
<1>8. MergeFits(c, rows)
  OBVIOUS
<1>9. \A x \in Deck : x # d => rows'[x] = rows[x]
  OBVIOUS
<1> HIDE DEF c
<1>10. ASSUME f.kind = "merge", f.quiet PROVE c.kind = "merge" /\ c.quiet /\ c.deck # d
  BY <1>4, <1>5, <1>10
<1>11. MergeFits(f, rows')
  BY <1>5, <1>6, <1>7, <1>8, <1>9, <1>10 DEF MergeFits, PlanFits, UndisturbedFits, Underway
<1> QED BY <1>1, <1>11

LEMMA AskMerges ==
  ASSUME MergesInv, NEW s \in Session, NEW c, MergeFits(c, rows),
         call \in [Session -> Call], Ask(s, c) \/ Goes(s, c)
  PROVE  MergesInv'
<1>1. call' = [call EXCEPT ![s] = c] /\ rows' = rows
  BY DEF Ask, Goes, Becomes, base
<1> QED BY <1>1 DEF MergesInv

LEMMA WroteMerges ==
  ASSUME EditsInv, MergesInv, NEW s \in Session, NEW d, NEW c, Wrote(s, d, c),
         \A x \in Deck : x # d => rows'[x] = rows[x], MergeFits(c, rows')
  PROVE  MergesInv'
<1>1. ASSUME NEW t \in Session, t # s PROVE MergeFits(call'[t], rows')
  <2>1. MergeFits(call[t], rows) /\ CallInv(call[t])
    BY CallFacts DEF MergesInv
  <2> QED BY <1>1, <2>1, OthersKeepMerge
<1>2. call'[s] = c
  BY DEF Wrote
<1> QED BY <1>1, <1>2 DEF MergesInv

LEMMA OtherKindsFit == \A c, R : c.kind # "merge" => MergeFits(c, R)
  BY DEF MergeFits, PlanFits, UndisturbedFits

LEMMA UnansweredFits ==
  \A c, R, o : o # "ok" => MergeFits(Ended(c, o), R)
  BY DEF Ended, Idle, MergeFits, PlanFits, UndisturbedFits, Underway

LEMMA KindStays ==
  /\ \A k, d, o : k # "merge" => Ended(Asked(k, d), o).kind = k
  /\ \A k, d, W : Writing(k, d, W).kind = k
  BY DEF Ended, Writing, Asked, Idle

LEMMA MergeDecksMerges ==
  ASSUME EditsInv, MergesInv, NEW s \in Session, NEW d \in Deck, NEW src \in Deck,
         NEW strategy \in Strategy, MergeDecks(s, d, src, strategy)
  PROVE  MergesInv'
<1> DEFINE b == [Asked("merge", d) EXCEPT !.source = src, !.strategy = strategy]
           c == [b EXCEPT !.at = "source", !.mine = rows[d]]
<1>1. Ask(s, Ended(b, "deck_not_found")) \/ Ask(s, c)
  BY DEF MergeDecks
<1>2. MergeFits(Ended(b, "deck_not_found"), rows)
  BY UnansweredFits
<1>3. c.at = "source" /\ c.deck = d /\ c.mine = rows[d]
  BY DEF Asked, Idle
<1> HIDE DEF b, c
<1>4. MergeFits(c, rows)
  BY <1>3 DEF MergeFits, PlanFits, UndisturbedFits, Underway
<1> QED BY <1>1, <1>2, <1>4, AskMerges DEF EditsInv, CallsInv

LEMMA ToolMerges ==
  ASSUME EditsInv, MergesInv, NEW s \in Session, Tool(s)
  PROVE  MergesInv'
<1>1. call \in [Session -> Call]
  BY DEF EditsInv, CallsInv
<1>2. ASSUME NEW c, Ask(s, c), c.kind # "merge" PROVE MergesInv'
  BY <1>1, <1>2, OtherKindsFit, AskMerges
<1>3. ASSUME NEW d \in Deck, NEW x \in Slot, NEW q, AddCard(s, d, x, q) PROVE MergesInv'
  BY <1>2, <1>3, KindStays DEF AddCard
<1>4. ASSUME NEW d \in Deck, NEW x \in Slot, NEW q, SetCardQuantity(s, d, x, q)
      PROVE  MergesInv'
  BY <1>2, <1>4, KindStays DEF SetCardQuantity
<1>5. ASSUME NEW d \in Deck, NEW x \in Slot, RemoveCard(s, d, x) PROVE MergesInv'
  BY <1>2, <1>5, KindStays DEF RemoveCard
<1>6. ASSUME NEW d \in Deck, NEW W, NEW others, ImportDecklist(s, d, W, others)
      PROVE  MergesInv'
  <2>1. \A V, told, short :
            [Writing("import", d, V) EXCEPT !.told = told, !.short = short].kind = "import"
    BY DEF Writing, Asked, Idle
  <2> QED BY <1>2, <1>6, <2>1, KindStays DEF ImportDecklist
<1>7. ASSUME NEW d \in Deck, DeleteNothing(s, d) PROVE MergesInv'
  BY <1>2, <1>7, KindStays DEF DeleteNothing
<1>8. ASSUME NEW d \in Deck, UpdateDeck(s, d) PROVE MergesInv'
  <2>1. [Asked("update", d) EXCEPT !.at = "renaming"].kind = "update"
    BY DEF Asked, Idle
  <2> QED BY <1>2, <1>8, <2>1, KindStays DEF UpdateDeck
<1>9. ASSUME NEW d \in Deck, CloneDeck(s, d) PROVE MergesInv'
  <2> DEFINE c == [Asked("clone", d) EXCEPT !.at = "copying", !.theirs = rows[d],
                                            !.tint = identity[d], !.dubious = d \in overtaken]
  <2>1. c.kind = "clone"
    BY DEF Asked, Idle
  <2>2. Ask(s, c) \/ Ask(s, Ended(Asked("clone", d), "deck_not_found"))
    BY <1>9 DEF CloneDeck
  <2> HIDE DEF c
  <2> QED BY <1>2, <2>1, <2>2, KindStays
<1>10. ASSUME NEW d \in Deck, CreateDeck(s, d) PROVE MergesInv'
  <2> DEFINE c == [Asked("create", d) EXCEPT !.at = "rereading", !.landed = 1]
  <2>1. c.kind = "create"
    BY DEF Asked, Idle
  <2>2. Wrote(s, d, c) /\ rows' = rows
    BY <1>10 DEF CreateDeck
  <2> HIDE DEF c
  <2>3. MergeFits(c, rows')
    BY <2>1, OtherKindsFit
  <2> QED BY <2>2, <2>3, WroteMerges
<1>11. ASSUME NEW d \in Deck, DeleteDeck(s, d) PROVE MergesInv'
  <2> DEFINE c == [Ended(Asked("delete", d), "ok") EXCEPT !.landed = 1]
  <2>1. c.kind = "delete"
    BY DEF Ended, Asked, Idle
  <2>2. Wrote(s, d, c) /\ rows' = [rows EXCEPT ![d] = Empty]
    BY <1>11 DEF DeleteDeck
  <2> HIDE DEF c
  <2>3. MergeFits(c, rows')
    BY <2>1, OtherKindsFit
  <2>4. \A x \in Deck : x # d => rows'[x] = rows[x]
    BY <2>2 DEF EditsInv, StoreInv
  <2> QED BY <2>2, <2>3, <2>4, WroteMerges
<1> QED
  BY <1>3, <1>4, <1>5, <1>6, <1>7, <1>8, <1>9, <1>10, <1>11, MergeDecksMerges DEF Tool

(* A commit of rows of a plan takes them from what is to do to what is     *)
(* done.                                                                   *)
LEMMA CommitMerges ==
  ASSUME EditsInv, MergesInv, NEW s \in Session, NEW W \in SUBSET call[s].todo, Commit(s, W),
         call[s].at \in {"writing", "updating"}
  PROVE  MergesInv'
<1> DEFINE c == call[s]
           d == c.deck
           r == Applied(rows[d], W)
           n == IF r # rows[d] THEN c.landed + 1 ELSE c.landed
           e == [c EXCEPT !.at = "rereading", !.hand = W, !.todo = c.todo \ W, !.landed = n]
           P == Plan(c)
<1>1. CallInv(c) /\ c \in Call
  BY CallFacts
<1>2. d \in Deck /\ rows[d] \in [Slot -> Nat] /\ rows \in [Deck -> [Slot -> Nat]]
  BY <1>1 DEF CallInv, Placed, EditsInv, StoreInv
<1>3. Wrote(s, d, e) /\ rows' = [rows EXCEPT ![d] = r]
  BY DEF Commit
<1>4. rows'[d] = r /\ \A x \in Deck : x # d => rows'[x] = rows[x]
  BY <1>2, <1>3
<1>5. /\ e.at = "rereading" /\ e.hand = W /\ e.todo = c.todo \ W /\ e.kind = c.kind
      /\ e.deck = d /\ e.quiet = c.quiet /\ e.mine = c.mine /\ e.theirs = c.theirs
      /\ e.strategy = c.strategy
  BY <1>1 DEF Call
<1>0. c.kind = "merge" => c.todo \ W \subseteq P
  BY DEF MergesInv, MergeFits, PlanFits, Underway
<1>6. ASSUME c.kind = "merge", c.quiet
      PROVE  r = Applied(c.mine, P \ (c.todo \ W))
  <2>1. c.todo \subseteq P /\ rows[d] = Applied(c.mine, P \ c.todo)
    BY <1>6 DEF MergesInv, MergeFits, PlanFits, UndisturbedFits, Underway
  <2>2. c.mine \in [Slot -> Nat] /\ c.theirs \in [Slot -> Nat]
    BY <1>1 DEF Call
  <2>3. P \in SUBSET Write /\ \A v, w \in P : v.slot = w.slot => v = w
    BY <1>1, <2>2, PlannedFits, PlanHasSlotsOnce DEF Plan
  <2>4. (P \ c.todo) \cup W = P \ (c.todo \ W)
    BY <2>1
  <2>5. P \ c.todo \in SUBSET Write /\ W \in SUBSET Write
    BY <2>1, <2>3
  <2>6. \A v, w \in (P \ c.todo) \cup W : v.slot = w.slot => v = w
    BY <2>1, <2>3
  <2> HIDE DEF P, c
  <2>7. Applied(Applied(c.mine, P \ c.todo), W) = Applied(c.mine, (P \ c.todo) \cup W)
    BY <2>2, <2>5, <2>6, AppliedTwice
  <2> QED BY <2>1, <2>4, <2>7
<1> HIDE DEF e, r
<1>7. Plan(e) = P
  BY <1>5 DEF Plan, Planned
<1>8. MergeFits(e, rows')
  <2> HIDE DEF P
  <2>1. e.hand \cap e.todo = {}
    BY <1>5
  <2> QED BY <1>0, <1>4, <1>5, <1>6, <1>7, <2>1 DEF MergeFits, PlanFits, UndisturbedFits, Underway
<1> QED BY <1>3, <1>4, <1>8, WroteMerges

LEMMA InsertRowMerges ==
  ASSUME EditsInv, MergesInv, NEW s \in Session, InsertRow(s) \/ InsertBatch(s)
  PROVE  MergesInv'
<1>1. PICK W \in SUBSET call[s].todo : InsertRows(s, W)
  <2>1. CASE InsertRow(s)
    BY <2>1 DEF InsertRow
  <2>2. CASE InsertBatch(s)
    BY <2>2 DEF InsertBatch
  <2> QED BY <2>1, <2>2
<1>2. call[s].at = "writing" /\ CallInv(call[s])
  BY CallFacts DEF InsertRow, InsertBatch
<1>3. CASE Commit(s, W)
  BY <1>1, <1>2, <1>3, CommitMerges
<1>4. CASE ~ Commit(s, W)
  <2> DEFINE c == call[s]
             refused == CASE c.kind = "add" -> "exists"
                          [] c.kind = "import" -> "error"
                          [] c.kind = "merge" -> "failed"
  <2>1. Goes(s, Ended(c, refused))
    BY <1>1, <1>4 DEF InsertRows
  <2>2. c.kind = "merge" => refused # "ok"
    OBVIOUS
  <2>3. c.kind # "merge" => Ended(c, refused).kind # "merge"
    BY DEF Ended, Idle
  <2> HIDE DEF refused
  <2>4. MergeFits(Ended(c, refused), rows)
    BY <2>2, <2>3, UnansweredFits, OtherKindsFit
  <2> QED BY <2>1, <2>4, AskMerges DEF EditsInv, CallsInv
<1> QED BY <1>3, <1>4

(* A row of the plan that is still to do is as the merge read it.          *)
LEMMA ToDoIsUntouched ==
  ASSUME EditsInv, MergesInv, NEW s \in Session, call[s].at = "writing",
         call[s].kind = "merge", call[s].quiet,
         NEW w \in call[s].todo, w.verb = "set"
  PROVE  rows[call[s].deck][w.slot] > 0 /\ rows[call[s].deck][w.slot] # w.quantity
<1> DEFINE c == call[s]
           P == Plan(c)
<1>1. c \in Call /\ c.mine \in [Slot -> Nat] /\ c.theirs \in [Slot -> Nat]
  BY CallFacts DEF Call
<1>2. c.todo \subseteq P /\ rows[c.deck] = Applied(c.mine, P \ c.todo)
  BY DEF MergesInv, MergeFits, PlanFits, UndisturbedFits, Underway
<1>3. P \in SUBSET Write /\ \A v, u \in P : v.slot = u.slot => v = u
  BY <1>1, PlannedFits, PlanHasSlotsOnce DEF Plan
<1>4. w \in P /\ w.slot \in Slot /\ \A v \in P \ c.todo : v.slot # w.slot
  BY <1>2, <1>3 DEF Write
<1>5. Applied(c.mine, P \ c.todo)[w.slot] = c.mine[w.slot]
  <2>1. P \ c.todo \in SUBSET Write
    BY <1>3
  <2> QED BY <1>1, <1>4, <2>1, AppliedFacts
<1>6. c.mine[w.slot] > 0 /\ w.quantity # c.mine[w.slot]
  BY <1>4 DEF Plan, Planned, ToWrite
<1> QED BY <1>2, <1>5, <1>6

LEMMA ReadRowMerges ==
  ASSUME EditsInv, MergesInv, NEW s \in Session, ReadRow(s)
  PROVE  MergesInv'
<1> DEFINE c == call[s]
<1>1. c.at = "writing" /\ c \in Call
  BY CallFacts DEF ReadRow
<1>2. PICK w \in c.todo :
          /\ w.verb = "set"
          /\ \/ rows[c.deck][w.slot] = 0 /\ Goes(s, Done(c, {w}, "card_not_found"))
             \/ rows[c.deck][w.slot] = w.quantity /\ Goes(s, Done(c, {w}, "ok"))
             \/ Goes(s, [c EXCEPT !.at = "updating", !.hand = {w}])
  BY DEF ReadRow
<1>3. call \in [Session -> Call]
  BY DEF EditsInv, CallsInv
<1>4. c.kind = "merge" /\ c.quiet =>
          rows[c.deck][w.slot] > 0 /\ rows[c.deck][w.slot] # w.quantity
  BY <1>1, <1>2, ToDoIsUntouched
<1>5. ASSUME NEW o, ~ (c.kind = "merge" /\ c.quiet) PROVE MergeFits(Done(c, {w}, o), rows)
  <2>1. CASE c.kind # "merge"
    <3>1. Done(c, {w}, o).kind # "merge"
      BY <2>1 DEF Done, Ended, Idle
    <3> QED BY <3>1, OtherKindsFit
  <2>2. CASE c.kind = "merge" /\ ~ c.quiet
    <3> DEFINE at == IF c.todo \subseteq {w} THEN "closing" ELSE "writing"
               e == [c EXCEPT !.todo = c.todo \ {w}, !.at = at]
    <3>1. Done(c, {w}, o) = e
      BY <2>2 DEF Done
    <3>2. at \in {"closing", "writing"}
      OBVIOUS
    <3> HIDE DEF at
    <3>3. /\ e.at = at /\ e.todo = c.todo \ {w} /\ e.mine = c.mine /\ e.theirs = c.theirs
          /\ e.strategy = c.strategy /\ ~ e.quiet
      BY <1>1, <2>2 DEF Call
    <3>4. c.todo \subseteq Plan(c)
      BY <1>1, <2>2 DEF MergesInv, MergeFits, PlanFits, Underway
    <3> HIDE DEF e, c
    <3>5. Plan(e) = Plan(c)
      BY <3>3 DEF Plan, Planned
    <3>6. MergeFits(e, rows)
      BY <3>2, <3>3, <3>4, <3>5 DEF MergeFits, PlanFits, UndisturbedFits
    <3> QED BY <3>1, <3>6
  <2> QED BY <1>5, <2>1, <2>2
<1>6. MergeFits([c EXCEPT !.at = "updating", !.hand = {w}], rows)
  <2> DEFINE f == [c EXCEPT !.at = "updating", !.hand = {w}]
  <2>1. /\ f.at = "updating" /\ f.hand = {w} /\ f.kind = c.kind /\ f.deck = c.deck
        /\ f.todo = c.todo /\ f.mine = c.mine /\ f.theirs = c.theirs
        /\ f.strategy = c.strategy /\ f.quiet = c.quiet
    BY <1>1 DEF Call
  <2>2. MergeFits(c, rows)
    BY DEF MergesInv
  <2> HIDE DEF f, c
  <2>3. Plan(f) = Plan(c)
    BY <2>1 DEF Plan, Planned
  <2>4. MergeFits(f, rows)
    BY <1>1, <1>2, <2>1, <2>2, <2>3 DEF MergeFits, PlanFits, UndisturbedFits, Underway
  <2> QED BY <2>4 DEF f
<1> HIDE DEF c
<1>7. CASE c.kind = "merge" /\ c.quiet
  <2>1. Goes(s, [c EXCEPT !.at = "updating", !.hand = {w}])
    BY <1>2, <1>4, <1>7
  <2> QED BY <1>3, <1>6, <2>1, AskMerges
<1>8. CASE ~ (c.kind = "merge" /\ c.quiet)
  BY <1>2, <1>3, <1>5, <1>6, <1>8, AskMerges
<1> QED BY <1>7, <1>8

LEMMA UpdateRowMerges ==
  ASSUME EditsInv, MergesInv, NEW s \in Session, UpdateRow(s)
  PROVE  MergesInv'
<1> DEFINE c == call[s]
<1>1. c.at = "updating" /\ CallInv(c) /\ MergeFits(c, rows) /\ call \in [Session -> Call]
  BY CallFacts DEF UpdateRow, MergesInv, EditsInv, CallsInv
<1>2. CASE Goes(s, Ended(c, IF c.kind = "merge" THEN "failed" ELSE "stale"))
  <2>1. MergeFits(Ended(c, IF c.kind = "merge" THEN "failed" ELSE "stale"), rows)
    BY UnansweredFits
  <2> QED BY <1>1, <1>2, <2>1, AskMerges
<1>3. CASE Commit(s, c.hand) /\ c.kind # "merge"
  <2> DEFINE n == IF Applied(rows[c.deck], c.hand) # rows[c.deck] THEN c.landed + 1 ELSE c.landed
             e == [c EXCEPT !.at = "rereading", !.hand = c.hand, !.todo = c.todo \ c.hand,
                            !.landed = n]
  <2>1. Wrote(s, c.deck, e)
        /\ rows' = [rows EXCEPT ![c.deck] = Applied(rows[c.deck], c.hand)]
    BY <1>3 DEF Commit
  <2>2. c \in Call /\ rows \in [Deck -> [Slot -> Nat]]
    BY <1>1 DEF CallInv, EditsInv, StoreInv
  <2>3. e.kind = c.kind
    BY <2>2 DEF Call
  <2> HIDE DEF e
  <2>4. MergeFits(e, rows')
    BY <1>3, <2>3, OtherKindsFit
  <2>5. \A x \in Deck : x # c.deck => rows'[x] = rows[x]
    BY <2>1, <2>2
  <2> QED BY <2>1, <2>4, <2>5, WroteMerges
<1>4. CASE Commit(s, c.hand) /\ c.kind = "merge"
  <2>1. c.hand \in SUBSET c.todo
    BY <1>1, <1>4 DEF MergeFits, PlanFits
  <2> QED BY <1>1, <1>4, <2>1, CommitMerges
<1> QED BY <1>2, <1>3, <1>4 DEF UpdateRow

LEMMA DeleteRowMerges ==
  ASSUME EditsInv, MergesInv, NEW s \in Session, DeleteRow(s)
  PROVE  MergesInv'
<1> DEFINE c == call[s]
<1>1. c.at = "writing" /\ call \in [Session -> Call]
  BY DEF DeleteRow, EditsInv, CallsInv
<1>2. PICK w \in c.todo :
          \/ Commit(s, {w})
          \/ Goes(s, Ended(c, IF c.kind = "set" THEN "card_not_found" ELSE "not_in_deck"))
  BY DEF DeleteRow
<1>3. MergeFits(Ended(c, IF c.kind = "set" THEN "card_not_found" ELSE "not_in_deck"), rows)
  BY UnansweredFits
<1>4. {w} \in SUBSET c.todo
  OBVIOUS
<1> QED BY <1>1, <1>2, <1>3, <1>4, CommitMerges, AskMerges

LEMMA ReadSourceMerges ==
  ASSUME EditsInv, MergesInv, NEW s \in Session, ReadSource(s)
  PROVE  MergesInv'
<1> DEFINE c == call[s]
           t == rows[c.source]
           W == Planned(c, t)
           at == IF W = {} THEN "closing" ELSE "writing"
           e == [c EXCEPT !.theirs = t, !.todo = W, !.at = at]
<1>1. CallInv(c) /\ c \in Call /\ c.at = "source" /\ MergeFits(c, rows)
  BY CallFacts DEF ReadSource, MergesInv
<1>2. Goes(s, Ended(c, "deck_not_found")) \/ Goes(s, e)
  BY DEF ReadSource
<1>3. at \in {"closing", "writing"} /\ (at = "closing" => W = {})
  OBVIOUS
<1>4. c.mine \in [Slot -> Nat] /\ c.kind = "merge"
  BY <1>1 DEF Call, CallInv, KindFits
<1> HIDE DEF W, at
<1>5. /\ e.at = at /\ e.todo = W /\ e.kind = c.kind /\ e.deck = c.deck /\ e.quiet = c.quiet
      /\ e.mine = c.mine /\ e.theirs = t /\ e.strategy = c.strategy
  BY <1>1 DEF Call
<1> HIDE DEF e, t, c
<1>6. Plan(e) = W
  BY <1>5 DEF Plan, Planned, W
<1>7. Applied(e.mine, Plan(e) \ e.todo) = c.mine
  <2>1. Plan(e) \ e.todo = {}
    BY <1>5, <1>6
  <2> QED BY <1>4, <1>5, <2>1, NothingApplied
<1>8. MergeFits(e, rows)
  BY <1>1, <1>3, <1>4, <1>5, <1>6, <1>7 DEF MergeFits, PlanFits, UndisturbedFits, Underway
<1>9. MergeFits(Ended(c, "deck_not_found"), rows)
  BY UnansweredFits
<1> QED BY <1>2, <1>8, <1>9, AskMerges DEF EditsInv, CallsInv

LEMMA ClosingMerges ==
  ASSUME EditsInv, MergesInv, NEW s \in Session, CloseMerge(s) \/ JoinColours(s)
  PROVE  MergesInv'
<1> DEFINE c == call[s]
<1>1. /\ c \in Call /\ c.at \in {"closing", "joining"} /\ MergeFits(c, rows)
      /\ call \in [Session -> Call]
  BY CallFacts DEF CloseMerge, JoinColours, MergesInv, EditsInv, CallsInv
<1>2. \/ Goes(s, Ended(c, "failed"))
      \/ Goes(s, [c EXCEPT !.at = "joining", !.tint = identity[c.deck]])
      \/ Goes(s, [c EXCEPT !.at = "stamping", !.seen = Colours(rows[c.deck])])
  BY DEF CloseMerge, JoinColours
<1> HIDE DEF c
<1>3. ASSUME NEW C
      PROVE  /\ MergeFits([c EXCEPT !.at = "joining", !.tint = C], rows)
             /\ MergeFits([c EXCEPT !.at = "stamping", !.seen = C], rows)
  <2> DEFINE j == [c EXCEPT !.at = "joining", !.tint = C]
             k == [c EXCEPT !.at = "stamping", !.seen = C]
  <2>1. /\ j.at = "joining" /\ j.kind = c.kind /\ j.deck = c.deck /\ j.todo = c.todo
        /\ j.mine = c.mine /\ j.theirs = c.theirs /\ j.strategy = c.strategy
        /\ j.quiet = c.quiet
    BY <1>1 DEF Call
  <2>2. /\ k.at = "stamping" /\ k.kind = c.kind /\ k.deck = c.deck /\ k.todo = c.todo
        /\ k.mine = c.mine /\ k.theirs = c.theirs /\ k.strategy = c.strategy
        /\ k.quiet = c.quiet
    BY <1>1 DEF Call
  <2> HIDE DEF j, k
  <2>3. Plan(j) = Plan(c) /\ Plan(k) = Plan(c)
    BY <2>1, <2>2 DEF Plan, Planned
  <2>4. MergeFits(j, rows)
    BY <1>1, <2>1, <2>3 DEF MergeFits, PlanFits, UndisturbedFits, Underway
  <2>5. MergeFits(k, rows)
    BY <1>1, <2>2, <2>3 DEF MergeFits, PlanFits, UndisturbedFits, Underway
  <2> QED BY <2>4, <2>5 DEF j, k
<1>4. MergeFits(Ended(c, "failed"), rows)
  BY UnansweredFits
<1> QED BY <1>1, <1>2, <1>3, <1>4, AskMerges

LEMMA StampMerges ==
  ASSUME EditsInv, MergesInv, NEW s \in Session, StampMerge(s)
  PROVE  MergesInv'
<1> DEFINE c == call[s]
           b == [c EXCEPT !.tint = {}, !.seen = {}]
           e == Ended(b, "ok")
<1>1. /\ c \in Call /\ CallInv(c) /\ c.at = "stamping" /\ MergeFits(c, rows)
      /\ call \in [Session -> Call]
  BY CallFacts DEF StampMerge, MergesInv, EditsInv, CallsInv
<1>2. c.kind = "merge" /\ c.deck \in Deck
  BY <1>1 DEF CallInv, KindFits, Placed
<1>3. CASE Goes(s, Ended(c, "failed"))
  <2>1. MergeFits(Ended(c, "failed"), rows)
    BY UnansweredFits
  <2> QED BY <1>1, <1>3, <2>1, AskMerges
<1>4. CASE call' = [call EXCEPT ![s] = e] /\ rows' = rows
  <2>1. b.kind = "merge" /\ b \in Call
    BY <1>1, <1>2 DEF Call
  <2>2. e = [b EXCEPT !.at = "idle", !.hand = {}, !.outcome = "ok"]
    BY <2>1 DEF Ended
  <2>3. /\ e.at = "idle" /\ e.outcome = "ok" /\ e.kind = "merge" /\ e.deck = c.deck
        /\ e.mine = c.mine /\ e.theirs = c.theirs /\ e.strategy = c.strategy
        /\ e.quiet = c.quiet
    BY <1>1, <1>2, <2>2 DEF Call
  <2> HIDE DEF e, b, c
  <2>4. Merged(e) = Merged(c)
    BY <2>3 DEF Merged
  <2>5. c.quiet => rows[c.deck] = Merged(c)
    <3>1. Applied(c.mine, Plan(c)) = Merged(c)
      BY <1>1, PlanMerges
    <3>2. c.quiet => c.todo = {} /\ rows[c.deck] = Applied(c.mine, Plan(c) \ c.todo)
      BY <1>1, <1>2 DEF MergeFits, PlanFits, UndisturbedFits, Underway
    <3>3. Plan(c) \ {} = Plan(c)
      OBVIOUS
    <3> QED BY <3>1, <3>2, <3>3
  <2>6. MergeFits(e, rows)
    BY <1>2, <2>3, <2>4, <2>5 DEF MergeFits, PlanFits, UndisturbedFits, Underway
  <2> QED BY <1>1, <1>4, <2>6 DEF MergesInv
<1> QED BY <1>3, <1>4 DEF StampMerge

LEMMA RereadMerges ==
  ASSUME EditsInv, MergesInv, NEW s \in Session, Reread(s)
  PROVE  MergesInv'
<1> DEFINE c == call[s]
           o == IF c.short THEN "partial" ELSE "ok"
           at == IF c.todo \subseteq c.hand THEN "closing" ELSE "writing"
           e == [c EXCEPT !.todo = c.todo \ c.hand, !.at = at]
<1>1. /\ c \in Call /\ c.at = "rereading" /\ MergeFits(c, rows)
      /\ call \in [Session -> Call]
  BY CallFacts DEF Reread, MergesInv, EditsInv, CallsInv
<1>2. Goes(s, Done(c, c.hand, o)) \/ Goes(s, Ended(c, "raised"))
  BY DEF Reread
<1>3. MergeFits(Ended(c, "raised"), rows)
  BY UnansweredFits
<1> HIDE DEF o
<1>4. MergeFits(Done(c, c.hand, o), rows)
  <2>1. CASE c.kind # "merge"
    <3>1. Done(c, c.hand, o).kind # "merge"
      BY <2>1 DEF Done, Ended, Idle
    <3> QED BY <3>1, OtherKindsFit
  <2>2. CASE c.kind = "merge"
    <3>1. Done(c, c.hand, o) = e
      BY <2>2 DEF Done
    <3>2. at \in {"closing", "writing"} /\ (at = "closing" => c.todo \ c.hand = {})
      OBVIOUS
    <3> HIDE DEF at
    <3>3. /\ e.at = at /\ e.todo = c.todo \ c.hand /\ e.kind = c.kind /\ e.deck = c.deck
          /\ e.quiet = c.quiet /\ e.mine = c.mine /\ e.theirs = c.theirs
          /\ e.strategy = c.strategy
      BY <1>1 DEF Call
    <3> HIDE DEF e, c
    <3>4. Plan(e) = Plan(c)
      BY <3>3 DEF Plan, Planned
    <3>5. c.quiet => c.hand \cap c.todo = {}
      BY <1>1, <2>2 DEF MergeFits, UndisturbedFits
    <3>6. c.quiet => e.todo = c.todo
      BY <3>3, <3>5
    <3>7. MergeFits(e, rows)
      BY <1>1, <3>2, <3>3, <3>4, <3>6 DEF MergeFits, PlanFits, UndisturbedFits, Underway
    <3> QED BY <3>1, <3>7
  <2> QED BY <2>1, <2>2
<1> QED BY <1>1, <1>2, <1>3, <1>4, AskMerges

LEMMA RepositoryMerges ==
  ASSUME EditsInv, MergesInv, NEW s \in Session, Repository(s)
  PROVE  MergesInv'
<1>1. call \in [Session -> Call] /\ CallInv(call[s])
  BY CallFacts DEF EditsInv, CallsInv
<1>2. CASE InsertCopy(s)
  <2>1. PICK d \in Deck \ given :
            /\ rows' = [rows EXCEPT ![d] = call[s].theirs]
            /\ Wrote(s, d, [Asked("clone", d) EXCEPT !.at = "rereading", !.landed = 1])
    BY <1>2 DEF InsertCopy
  <2>2. [Asked("clone", d) EXCEPT !.at = "rereading", !.landed = 1].kind # "merge"
    BY DEF Asked, Idle
  <2>3. MergeFits([Asked("clone", d) EXCEPT !.at = "rereading", !.landed = 1], rows')
    BY <2>2, OtherKindsFit
  <2>4. \A x \in Deck : x # d => rows'[x] = rows[x]
    BY <2>1 DEF EditsInv, StoreInv
  <2> QED BY <2>1, <2>3, <2>4, WroteMerges
<1>3. CASE WriteMetadata(s)
  <2> DEFINE c == call[s]
  <2>1. c.kind # "merge" /\ c \in Call
    BY <1>1, <1>3 DEF WriteMetadata, CallInv, KindFits
  <2>2. [c EXCEPT !.at = "rereading", !.landed = 1].kind # "merge"
    BY <2>1 DEF Call
  <2>3. \/ Goes(s, Ended(c, "stale"))
        \/ Goes(s, [c EXCEPT !.at = "rereading", !.landed = 1])
    BY <1>3 DEF WriteMetadata
  <2>4. /\ MergeFits(Ended(c, "stale"), rows)
        /\ MergeFits([c EXCEPT !.at = "rereading", !.landed = 1], rows)
    BY <2>2, UnansweredFits, OtherKindsFit
  <2> QED BY <1>1, <2>3, <2>4, AskMerges
<1>4. CASE DatabaseFails(s)
  <2> DEFINE o == IF call[s].kind = "merge" THEN "failed" ELSE "error"
  <2>1. Goes(s, Ended(call[s], o)) /\ o # "ok"
    BY <1>4 DEF DatabaseFails
  <2> HIDE DEF o
  <2> QED BY <1>1, <2>1, UnansweredFits, AskMerges
<1> QED
  BY <1>2, <1>3, <1>4, InsertRowMerges, ReadRowMerges, UpdateRowMerges, DeleteRowMerges,
     ReadSourceMerges, ClosingMerges, StampMerges, RereadMerges
  DEF Repository

LEMMA MergesInvariant == Spec => [](EditsInv /\ MergesInv)
<1>1. Init => MergesInv
  <2> SUFFICES ASSUME Init, NEW s \in Session PROVE MergeFits(call[s], rows)
    BY DEF MergesInv
  <2>1. call[s].kind # "merge"
    BY DEF Init, Idle
  <2> QED BY <2>1, OtherKindsFit
<1>2. EditsInv /\ MergesInv /\ [Next]_vars => MergesInv'
  <2> SUFFICES ASSUME EditsInv, MergesInv, [Next]_vars PROVE MergesInv'
    OBVIOUS
  <2>1. CASE UNCHANGED vars
    BY <2>1 DEF MergesInv, vars, base
  <2> QED BY <2>1, ToolMerges, RepositoryMerges DEF Next
<1> QED BY <1>1, <1>2, EditsInvariant, EditsStep, PTL DEF Spec

(* An answered merge to whose target nobody else wrote has left it as its  *)
(* strategy says of the two decks it read (merge_decks).                   *)
THEOREM MergesStayExact == Spec => []MergeIsExact
<1>1. EditsInv /\ MergesInv => MergeIsExact
  <2> SUFFICES ASSUME EditsInv, MergesInv, NEW s \in Session, call[s].kind = "merge",
                      call[s].outcome = "ok", call[s].quiet
               PROVE  rows[call[s].deck] = Merged(call[s])
    BY DEF MergeIsExact
  <2>1. call[s].at = "idle"
    BY CallFacts DEF CallInv, Placed
  <2> QED BY <2>1 DEF MergesInv, MergeFits, UndisturbedFits
<1> QED BY <1>1, MergesInvariant, PTL

-----------------------------------------------------------------------------
(* What a merge takes from the edits that come between its own.            *)

(* Only the actions of a session move it, and never to the end of a commit *)
(* while it begins a request.                                              *)
LEMMA OthersStay ==
  ASSUME EditsInv, NEW t \in Session, NEW s \in Session, t # s, Tool(t) \/ Repository(t)
  PROVE  call'[s].at = call[s].at
<1>1. call \in [Session -> Call] /\ call[s] \in Call
  BY CallFacts DEF EditsInv, CallsInv
<1>2. ASSUME NEW c, Ask(t, c) \/ Goes(t, c) \/ call' = [call EXCEPT ![t] = c]
      PROVE  call'[s].at = call[s].at
  BY <1>1, <1>2 DEF Ask, Goes, Becomes
<1>3. ASSUME NEW d, NEW c, Wrote(t, d, c) PROVE call'[s].at = call[s].at
  <2> DEFINE b == call[s].quiet /\ ~ (call[s].kind = "merge" /\ call[s].deck = d)
  <2>1. call'[s] = [call[s] EXCEPT !.quiet = b]
    BY <1>3 DEF Wrote
  <2> HIDE DEF b
  <2> QED BY <1>1, <2>1 DEF Call
<1>4. ASSUME NEW W, Commit(t, W) PROVE call'[s].at = call[s].at
  BY <1>3, <1>4 DEF Commit
<1>5. CASE Tool(t)
  BY <1>2, <1>3, <1>5
  DEF Tool, AddCard, SetCardQuantity, RemoveCard, ImportDecklist, CreateDeck, CloneDeck,
      UpdateDeck, DeleteDeck, DeleteNothing, MergeDecks
<1>6. ASSUME NEW W, InsertRows(t, W) PROVE call'[s].at = call[s].at
  BY <1>2, <1>4, <1>6 DEF InsertRows
<1>7. CASE Repository(t)
  BY <1>2, <1>3, <1>4, <1>6, <1>7
  DEF Repository, InsertRow, InsertBatch, ReadRow, UpdateRow, DeleteRow, InsertCopy,
      WriteMetadata, ReadSource, CloseMerge, JoinColours, StampMerge, DatabaseFails, Reread
<1> QED BY <1>5, <1>7

(* A merge comes to the end of a commit only by inserting a row where      *)
(* there is none or by setting rows of its plan that it read in both decks.*)
LEMMA MergesCommit ==
  ASSUME EditsInv, MergesInv, NEW s \in Session, Tool(s) \/ Repository(s),
         call[s].kind = "merge", call[s].at \in {"writing", "updating"},
         call'[s].at = "rereading"
  PROVE  \E W \in SUBSET Plan(call[s]) :
            /\ Commit(s, W)
            /\ \/ \A w \in W : rows[call[s].deck][w.slot] = 0
               \/ \A w \in W : w.verb = "set"
<1> DEFINE c == call[s]
<1>1. /\ CallInv(c) /\ c \in Call /\ call \in [Session -> Call] /\ MergeFits(c, rows)
      /\ c.kind = "merge" /\ c.at \in {"writing", "updating"} /\ call'[s].at = "rereading"
  BY CallFacts DEF EditsInv, CallsInv, MergesInv
<1>2. /\ c.todo \subseteq Plan(c)
      /\ c.at = "updating" => \A w \in c.hand : w \in c.todo /\ w.verb = "set"
  BY <1>1 DEF MergeFits, PlanFits, Underway
<1>3. ASSUME NEW e, Goes(s, e) PROVE e.at = "rereading"
  BY <1>1, <1>3 DEF Goes, Becomes
<1>4. \A o : Ended(c, o).at = "idle"
  BY <1>1 DEF Ended, Idle, Call
<1>5. \A W, o : Done(c, W, o).at # "rereading"
  BY <1>1 DEF Done, Call
<1>6. ~ Tool(s)
  BY <1>1
  DEF Tool, AddCard, SetCardQuantity, RemoveCard, ImportDecklist, CreateDeck, CloneDeck,
      UpdateDeck, DeleteDeck, DeleteNothing, MergeDecks, Ask, Begins
<1>7. CASE InsertRow(s)
  <2>1. PICK w \in c.todo : InsertRows(s, {w})
    BY <1>7 DEF InsertRow
  <2>2. ~ Goes(s, Ended(c, "failed"))
    BY <1>3, <1>4
  <2>3. Commit(s, {w}) /\ rows[c.deck][w.slot] = 0
    BY <1>1, <2>1, <2>2 DEF InsertRows
  <2>4. {w} \in SUBSET Plan(c)
    BY <1>2
  <2> QED BY <2>3, <2>4
<1>8. CASE UpdateRow(s)
  <2>1. ~ Goes(s, Ended(c, IF c.kind = "merge" THEN "failed" ELSE "stale"))
    BY <1>3, <1>4
  <2>2. Commit(s, c.hand) /\ c.at = "updating"
    BY <1>8, <2>1 DEF UpdateRow
  <2>3. c.hand \in SUBSET Plan(c) /\ \A w \in c.hand : w.verb = "set"
    BY <1>2, <2>2
  <2> QED BY <2>2, <2>3
<1>9. ~ ReadRow(s)
  <2>1. \A w : [c EXCEPT !.at = "updating", !.hand = {w}].at = "updating"
    BY <1>1 DEF Call
  <2> HIDE DEF c
  <2>2. \A w, o : ~ Goes(s, Done(c, {w}, o))
    BY <1>3, <1>5
  <2>3. \A w : ~ Goes(s, [c EXCEPT !.at = "updating", !.hand = {w}])
    BY <1>3, <2>1
  <2> QED BY <2>2, <2>3 DEF ReadRow, c
<1>10. ~ DeleteRow(s)
  BY <1>1 DEF DeleteRow, CallInv, VerbsFit, VerbFits
<1>11. ~ DatabaseFails(s)
  BY <1>3, <1>4 DEF DatabaseFails
<1>12. /\ ~ InsertBatch(s) /\ ~ InsertCopy(s) /\ ~ WriteMetadata(s) /\ ~ ReadSource(s)
       /\ ~ CloseMerge(s) /\ ~ JoinColours(s) /\ ~ StampMerge(s) /\ ~ Reread(s)
  BY <1>1
  DEF InsertBatch, InsertCopy, WriteMetadata, ReadSource, CloseMerge, JoinColours,
      StampMerge, Reread
<1> QED BY <1>6, <1>7, <1>8, <1>9, <1>10, <1>11, <1>12 DEF Repository

(* A commit of a merge changes a row that is there only where the merge    *)
(* read a row in both decks, and then to what its strategy says of the two *)
(* (merge_decks), whatever has been committed since it read them.          *)
THEOREM MergesSpareTheUnread == Spec => MergeSparesTheUnread
<1> DEFINE Spares ==
      \A s \in Session :
        LET c == call[s]
        IN  c.kind = "merge" /\ c.at \in {"writing", "updating"} /\ call'[s].at = "rereading"
            => \A x \in Slot :
                  rows[c.deck][x] > 0 /\ rows'[c.deck][x] # rows[c.deck][x]
                  => /\ c.mine[x] > 0 /\ c.theirs[x] > 0
                     /\ rows'[c.deck][x] = NewQuantity(c.strategy, c.mine[x], c.theirs[x])
<1>1. EditsInv /\ MergesInv /\ [Next]_vars => [Spares]_vars
  <2> SUFFICES ASSUME EditsInv, MergesInv, NEW t \in Session, Tool(t) \/ Repository(t),
                      NEW s \in Session, call[s].kind = "merge",
                      call[s].at \in {"writing", "updating"}, call'[s].at = "rereading",
                      NEW x \in Slot, rows[call[s].deck][x] > 0,
                      rows'[call[s].deck][x] # rows[call[s].deck][x]
               PROVE  /\ call[s].mine[x] > 0 /\ call[s].theirs[x] > 0
                      /\ rows'[call[s].deck][x] =
                            NewQuantity(call[s].strategy, call[s].mine[x], call[s].theirs[x])
    BY DEF Next
  <2>1. t = s
    BY OthersStay
  <2>2. PICK W \in SUBSET Plan(call[s]) :
            /\ Commit(s, W)
            /\ \/ \A w \in W : rows[call[s].deck][w.slot] = 0
               \/ \A w \in W : w.verb = "set"
    BY <2>1, MergesCommit
  <2> DEFINE c == call[s]
             d == c.deck
             r == rows[d]
  <2>3. CallInv(c) /\ c \in Call /\ d \in Deck /\ r \in [Slot -> Nat]
    BY CallFacts DEF CallInv, Placed, EditsInv, StoreInv
  <2>4. rows'[d] = Applied(r, W)
    BY <2>2, <2>3 DEF Commit, EditsInv, StoreInv
  <2>5. c.mine \in [Slot -> Nat] /\ c.theirs \in [Slot -> Nat]
    BY <2>3 DEF Call
  <2>6. W \in SUBSET Write /\ \A v, w \in W : v.slot = w.slot => v = w
    BY <2>2, <2>3, <2>5, PlannedFits, PlanHasSlotsOnce DEF Plan
  <2>7. PICK w \in W : w.slot = x
    BY <2>3, <2>4, <2>6, AppliedFacts
  <2>8. Applied(r, W)[x] = w.quantity
    BY <2>3, <2>6, <2>7, AppliedFacts
  <2>9. w.verb = "set" /\ w \in Plan(c)
    BY <2>2, <2>7
  <2>10. /\ c.mine[w.slot] > 0 /\ c.theirs[w.slot] > 0
         /\ w.quantity = NewQuantity(c.strategy, c.mine[w.slot], c.theirs[w.slot])
    BY <2>9 DEF Plan, Planned, ToWrite
  <2> QED BY <2>4, <2>7, <2>8, <2>10
<1>2. MergeSparesTheUnread <=> [][Spares]_vars
  BY DEF MergeSparesTheUnread
<1> HIDE DEF Spares
<1> QED BY <1>1, <1>2, MergesInvariant, PTL DEF Spec

(* The two together, the property the run checks.                          *)
THEOREM MergesStaySound == Spec => MergeIsSound
  BY MergesStayExact, MergesSpareTheUnread DEF MergeIsSound
=============================================================================
