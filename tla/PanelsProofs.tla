----------------------------- MODULE PanelsProofs -----------------------------
(***************************************************************************)
(* Proofs about the card cache, the pills and the history of a tab         *)
(* (Panels), for any cards, kinds of view, budgets, capacities and         *)
(* timestamps.                                                             *)
(***************************************************************************)
EXTENDS Panels, TLAPS, WellFoundedInduction, SequenceTheorems

-----------------------------------------------------------------------------
(* The card cache.                                                         *)

\* What hydrateCard relies on before it counts a request.
NeverMeansUnasked == \A c \in Card : cards[c] = Never => attempts[c] = 0

CacheInv == CacheTypeOK /\ LoadingIsBeingRead /\ RetryableIsTrue /\ NeverMeansUnasked

LEMMA Entries ==
  /\ Loading # Hydrated /\ Loading # Never /\ Hydrated # Never
  /\ \A reason \in Reason \cup {NoReason}, b \in BOOLEAN :
       /\ Unknown(reason, b) \in Entry
       /\ Unknown(reason, b) \notin {Never, Loading, Hydrated}
       /\ Unknown(reason, b).status = "unknown"
       /\ Unknown(reason, b).reason = reason
       /\ Unknown(reason, b).retryable = b
  /\ {Never, Loading, Hydrated} \subseteq Entry
  /\ Never.status # "unknown" /\ Loading.status # "unknown" /\ Hydrated.status # "unknown"
BY DEF Never, Loading, Hydrated, Unknown, Entry

LEMMA EntryKinds ==
  ASSUME NEW e \in Entry
  PROVE  \/ e \in {Never, Loading, Hydrated}
         \/ /\ e.status = "unknown" /\ e.reason \in Reason \cup {NoReason}
            /\ e.retryable \in BOOLEAN /\ e = Unknown(e.reason, e.retryable)
BY DEF Entry, Unknown

LEMMA Rearm ==
  ASSUME NEW e \in [status : {"unknown"}, reason : Reason \cup {NoReason},
                    retryable : BOOLEAN]
  PROVE  [e EXCEPT !.retryable = TRUE] = Unknown(e.reason, TRUE)
<1> DEFINE f == [e EXCEPT !.retryable = TRUE]
<1>1. /\ f \in [status : {"unknown"}, reason : Reason \cup {NoReason},
                retryable : BOOLEAN]
      /\ f.reason = e.reason /\ f.retryable = TRUE
  OBVIOUS
<1>2. ASSUME NEW g \in [status : {"unknown"}, reason : Reason \cup {NoReason},
                        retryable : BOOLEAN]
      PROVE  g = Unknown(g.reason, g.retryable)
  BY DEF Unknown
<1> HIDE DEF f
<1>3. f = Unknown(e.reason, TRUE)
  BY <1>1, <1>2
<1> QED BY <1>3 DEF f

LEMMA CacheStart == Init => CacheInv
<1> SUFFICES ASSUME Init PROVE CacheInv
  OBVIOUS
<1>1. CacheInit
  BY DEF Init
<1>2. CacheTypeOK
  BY <1>1, CacheAssumption, Entries DEF CacheInit, CacheTypeOK
<1>3. LoadingIsBeingRead /\ RetryableIsTrue /\ NeverMeansUnasked
  BY <1>1, Entries DEF CacheInit, LoadingIsBeingRead, RetryableIsTrue, NeverMeansUnasked
<1> QED BY <1>2, <1>3 DEF CacheInv

LEMMA HydrateStep ==
  ASSUME CacheInv, NEW S \in SUBSET Card, HydrateCards(S)
  PROVE  CacheInv' /\ \A c \in Card : cards[c] = Hydrated => cards'[c] = Hydrated
<1> DEFINE asked == {c \in S : Asks(c)}
           read == asked \ {Blank}
<1>1. /\ cards' = [c \in Card |-> CASE c \in read -> Loading
                                    [] c \in asked \ read -> Unknown(NoReason, FALSE)
                                    [] OTHER -> cards[c]]
      /\ inFlight' = inFlight \cup read
      /\ attempts' = [c \in Card |-> IF c \in read THEN attempts[c] + 1 ELSE attempts[c]]
      /\ settled' = settled
  BY DEF HydrateCards
<1>2. /\ cards \in [Card -> Entry] /\ inFlight \subseteq Card \ {Blank}
      /\ settled \subseteq Card \ inFlight
      /\ attempts \in [Card -> 0 .. MaxAttempts]
  BY DEF CacheInv, CacheTypeOK
<1>3. ASSUME NEW c \in read PROVE attempts[c] + 1 \in 0 .. MaxAttempts
  <2>1. cards[c] # Hydrated /\ cards[c] # Loading /\ c # Blank /\ c \in Card
    BY DEF Asks, CacheInv, LoadingIsBeingRead
  <2>2. CASE cards[c] = Never
    BY <2>1, <2>2, CacheAssumption DEF CacheInv, NeverMeansUnasked
  <2>3. CASE cards[c].status = "unknown"
    <3>1. cards[c].retryable
      BY <2>3 DEF Asks
    <3>2. ~Spent(c)
      BY <2>1, <2>3, <3>1 DEF CacheInv, RetryableIsTrue
    <3> QED BY <1>2, <2>1, <3>2, CacheAssumption DEF Spent
  <2> QED BY <1>2, <2>1, <2>2, <2>3, EntryKinds
<1>4. ASSUME NEW c \in Card
      PROVE  /\ c \in read => cards'[c] = Loading
             /\ c \in asked \ read => c = Blank /\ cards'[c] = Unknown(NoReason, FALSE)
             /\ c \notin asked => cards'[c] = cards[c]
             /\ attempts'[c] = IF c \in read THEN attempts[c] + 1 ELSE attempts[c]
  BY <1>1
<1>5. CacheTypeOK'
  <2>1. cards' \in [Card -> Entry]
    BY <1>1, <1>2, Entries
  <2>2. attempts' \in [Card -> 0 .. MaxAttempts]
    BY <1>1, <1>2, <1>3
  <2>3. inFlight' \subseteq Card \ {Blank}
    BY <1>1, <1>2
  <2>4. settled' \subseteq Card \ inFlight'
    <3>1. \A c \in read : c \notin settled
      BY DEF Asks
    <3> QED BY <1>1, <1>2, <3>1
  <2> QED BY <2>1, <2>2, <2>3, <2>4 DEF CacheTypeOK
<1>6. LoadingIsBeingRead'
  <2> SUFFICES ASSUME NEW c \in Card
               PROVE  /\ cards'[c] = Loading => c \in inFlight'
                      /\ c \in inFlight' => cards'[c] \in {Loading, Hydrated}
    BY <1>5 DEF LoadingIsBeingRead, CacheTypeOK
  <2>1. CASE c \in read
    BY <2>1, <1>1, <1>4
  <2>2. CASE c \in asked \ read
    <3>1. c \notin inFlight' /\ cards'[c] # Loading
      BY <2>2, <1>1, <1>2, <1>4, Entries
    <3> QED BY <3>1
  <2>3. CASE c \notin asked
    BY <2>3, <1>1, <1>4 DEF CacheInv, LoadingIsBeingRead
  <2> QED BY <2>1, <2>2, <2>3
<1>7. RetryableIsTrue'
  <2> SUFFICES ASSUME NEW c \in Card \ {Blank}, cards'[c].status = "unknown"
               PROVE  cards'[c].retryable <=> (cards'[c].reason \notin Hopeless /\ ~Spent(c)')
    BY DEF RetryableIsTrue
  <2>1. c \notin read /\ c \notin asked
    BY <1>4, Entries
  <2>2. cards'[c] = cards[c] /\ attempts'[c] = attempts[c]
    BY <1>4, <2>1
  <2>3. Spent(c)' <=> Spent(c)
    BY <2>2 DEF Spent
  <2> QED BY <2>2, <2>3 DEF CacheInv, RetryableIsTrue
<1>8. NeverMeansUnasked'
  <2> SUFFICES ASSUME NEW c \in Card, cards'[c] = Never PROVE attempts'[c] = 0
    BY DEF NeverMeansUnasked, Never
  <2>1. c \notin asked
    BY <1>4, Entries
  <2> QED BY <2>1, <1>4 DEF CacheInv, NeverMeansUnasked
<1>9. ASSUME NEW c \in Card, cards[c] = Hydrated PROVE cards'[c] = Hydrated
  BY <1>4, <1>9 DEF Asks
<1> QED BY <1>5, <1>6, <1>7, <1>8, <1>9 DEF CacheInv

LEMMA ReturnStep ==
  ASSUME CacheInv, NEW c \in Card, ReadReturnsCard(c)
  PROVE  CacheInv' /\ \A d \in Card : cards[d] = Hydrated => cards'[d] = Hydrated
<1>1. /\ inFlight' = inFlight \ {c} /\ settled' = settled \cup {c}
      /\ cards' = [cards EXCEPT ![c] = Hydrated] /\ attempts' = attempts
  BY DEF ReadReturnsCard, Settles
<1>2. CacheTypeOK'
  BY <1>1, Entries DEF CacheInv, CacheTypeOK
<1>3. \A d \in Card : cards'[d] = IF d = c THEN Hydrated ELSE cards[d]
  BY <1>1 DEF CacheInv, CacheTypeOK
<1>4. LoadingIsBeingRead'
  BY <1>1, <1>3, <1>2, Entries DEF CacheInv, CacheTypeOK, LoadingIsBeingRead, Loading, Hydrated
<1>5. RetryableIsTrue'
  BY <1>1, <1>3, Entries DEF CacheInv, RetryableIsTrue, Spent
<1>6. NeverMeansUnasked'
  BY <1>1, <1>3, Entries DEF CacheInv, NeverMeansUnasked, Never
<1> QED BY <1>2, <1>3, <1>4, <1>5, <1>6 DEF CacheInv

LEMMA RefusalStep ==
  ASSUME CacheInv, NEW c \in Card, NEW reason \in Reason \cup {NoReason}, ReadIsRefused(c, reason)
  PROVE  CacheInv' /\ \A d \in Card : cards[d] = Hydrated => cards'[d] = Hydrated
<1>1. /\ inFlight' = inFlight \ {c} /\ settled' = settled \cup {c} /\ attempts' = attempts
      /\ cards' = [cards EXCEPT ![c] = IF @ = Hydrated THEN @ ELSE RefusalOf(c, reason)]
  BY DEF ReadIsRefused, Settles
<1> DEFINE b == ~Spent(c) /\ reason \notin Hopeless
<1>2. RefusalOf(c, reason) = Unknown(reason, b) /\ b \in BOOLEAN
  BY DEF RefusalOf
<1>3. \A d \in Card : cards'[d] = IF d = c /\ cards[c] # Hydrated THEN Unknown(reason, b) ELSE cards[d]
  BY <1>1, <1>2 DEF CacheInv, CacheTypeOK
<1>4. CacheTypeOK'
  <2>1. cards' \in [Card -> Entry]
    BY <1>1, <1>2, Entries DEF CacheInv, CacheTypeOK
  <2> QED BY <1>1, <2>1 DEF CacheInv, CacheTypeOK
<1>5. LoadingIsBeingRead'
  BY <1>1, <1>2, <1>3, <1>4, Entries DEF CacheInv, CacheTypeOK, LoadingIsBeingRead
<1>6. RetryableIsTrue'
  <2> SUFFICES ASSUME NEW d \in Card \ {Blank}, cards'[d].status = "unknown"
               PROVE  cards'[d].retryable <=> (cards'[d].reason \notin Hopeless /\ ~Spent(d)')
    BY DEF RetryableIsTrue
  <2>1. Spent(d)' <=> Spent(d)
    BY <1>1 DEF Spent
  <2>2. CASE d = c /\ cards[c] # Hydrated
    <3>1. cards'[d] = Unknown(reason, b)
      BY <1>3, <2>2
    <3>2. cards'[d].reason = reason /\ cards'[d].retryable = b
      BY <1>2, <3>1, Entries
    <3>3. b <=> (reason \notin Hopeless /\ ~Spent(c))
      OBVIOUS
    <3>4. Spent(d)' <=> Spent(c)
      BY <2>1, <2>2, Zenon
    <3> HIDE DEF b
    <3> QED BY <3>2, <3>3, <3>4, Zenon
  <2>3. CASE ~(d = c /\ cards[c] # Hydrated)
    BY <1>3, <2>1, <2>3 DEF CacheInv, RetryableIsTrue
  <2> QED BY <2>2, <2>3
<1>7. NeverMeansUnasked'
  <2> SUFFICES ASSUME NEW d \in Card, cards'[d] = Never PROVE attempts'[d] = 0
    BY DEF NeverMeansUnasked, Never
  <2>1. cards'[d] = cards[d]
    BY <1>2, <1>3, Entries
  <2> QED BY <1>1, <2>1 DEF CacheInv, NeverMeansUnasked
<1> QED BY <1>3, <1>4, <1>5, <1>6, <1>7 DEF CacheInv

\* The promise leaves the map: no entry and no budget moves.
LEMMA ReleaseStep ==
  ASSUME CacheInv, NEW c \in Card, ReadReleases(c)
  PROVE  CacheInv' /\ \A d \in Card : cards[d] = Hydrated => cards'[d] = Hydrated
BY DEF ReadReleases, CacheInv, CacheTypeOK, LoadingIsBeingRead, RetryableIsTrue, Spent,
       NeverMeansUnasked, Never

LEMMA SeedStep ==
  ASSUME CacheInv, NEW S \in SUBSET Card, SeedDeckCards(S)
  PROVE  CacheInv' /\ \A d \in Card : cards[d] = Hydrated => cards'[d] = Hydrated
<1>1. /\ inFlight' = inFlight /\ settled' = settled /\ attempts' = attempts
      /\ cards' = [c \in Card |-> IF c \in S \ {Blank} THEN Hydrated ELSE cards[c]]
  BY DEF SeedDeckCards
<1>2. CacheTypeOK'
  BY <1>1, Entries DEF CacheInv, CacheTypeOK
<1>3. \A d \in Card : cards'[d] = IF d \in S \ {Blank} THEN Hydrated ELSE cards[d]
  BY <1>1
<1>4. LoadingIsBeingRead'
  BY <1>1, <1>2, <1>3, Entries DEF CacheInv, CacheTypeOK, LoadingIsBeingRead
<1>5. RetryableIsTrue'
  BY <1>1, <1>3, Entries DEF CacheInv, RetryableIsTrue, Spent
<1>6. NeverMeansUnasked'
  BY <1>1, <1>3, Entries DEF CacheInv, NeverMeansUnasked, Never
<1> QED BY <1>2, <1>3, <1>4, <1>5, <1>6 DEF CacheInv

(* The reconnect: a refusal that only the budget had made final is asked   *)
(* again, one that its token makes final is not.                           *)
LEMMA ResetStep ==
  ASSUME CacheInv, ResetCardAttempts
  PROVE  CacheInv' /\ \A d \in Card : cards[d] = Hydrated => cards'[d] = Hydrated
<1> DEFINE Rearmed(e) == IF e.status = "unknown" /\ e.reason \notin Hopeless
                         THEN [e EXCEPT !.retryable = TRUE] ELSE e
           spent == \E c \in Card : attempts[c] > 0
<1>1. /\ attempts' = [c \in Card |-> 0] /\ inFlight' = inFlight /\ settled' = settled
      /\ cards' = IF spent THEN [c \in Card |-> Rearmed(cards[c])] ELSE cards
  BY DEF ResetCardAttempts
<1>2. /\ cards \in [Card -> Entry] /\ inFlight \subseteq Card \ {Blank}
      /\ settled \subseteq Card \ inFlight
      /\ attempts \in [Card -> 0 .. MaxAttempts]
  BY DEF CacheInv, CacheTypeOK
<1>3. ASSUME NEW c \in Card
      PROVE  /\ cards'[c] \in Entry
             /\ cards[c] \in {Never, Loading, Hydrated} => cards'[c] = cards[c]
             /\ cards[c].status = "unknown" =>
                  /\ cards'[c] \notin {Never, Loading, Hydrated}
                  /\ cards'[c].reason = cards[c].reason
                  /\ spent /\ cards[c].reason \notin Hopeless => cards'[c].retryable = TRUE
                  /\ ~spent \/ cards[c].reason \in Hopeless => cards'[c] = cards[c]
  <2>1. cards[c] \in Entry
    BY <1>2
  <2>2. CASE cards[c] \in {Never, Loading, Hydrated}
    <3>1. cards[c].status # "unknown"
      BY <2>2, Entries
    <3> QED BY <1>1, <2>1, <3>1
  <2>3. CASE cards[c].status = "unknown"
    <3>1. /\ cards[c].reason \in Reason \cup {NoReason} /\ cards[c].retryable \in BOOLEAN
          /\ cards[c] = Unknown(cards[c].reason, cards[c].retryable)
      BY <2>1, <2>3, EntryKinds, Entries
    <3>2. [cards[c] EXCEPT !.retryable = TRUE] = Unknown(cards[c].reason, TRUE)
      <4>1. cards[c] \in [status : {"unknown"}, reason : Reason \cup {NoReason},
                          retryable : BOOLEAN]
        BY <2>1, <2>3, Entries DEF Entry
      <4> QED BY <4>1, Rearm
    <3>3. cards'[c] = Unknown(cards[c].reason, TRUE) \/ cards'[c] = cards[c]
      BY <1>1, <2>3, <3>2
    <3>4. cards'[c] \in Entry /\ cards'[c] \notin {Never, Loading, Hydrated}
          /\ cards'[c].reason = cards[c].reason
      <4>1. CASE cards'[c] = Unknown(cards[c].reason, TRUE)
        BY <3>1, <4>1, Entries
      <4>2. CASE cards'[c] = cards[c]
        BY <2>1, <2>3, <4>2, Entries
      <4> QED BY <3>3, <4>1, <4>2
    <3>5. spent /\ cards[c].reason \notin Hopeless => cards'[c].retryable = TRUE
      <4>1. spent /\ cards[c].reason \notin Hopeless => cards'[c] = Unknown(cards[c].reason, TRUE)
        BY <1>1, <2>3, <3>2
      <4> QED BY <3>1, <4>1, Entries
    <3>6. ~spent \/ cards[c].reason \in Hopeless => cards'[c] = cards[c]
      BY <1>1, <2>3
    <3>7. cards[c] \notin {Never, Loading, Hydrated}
      BY <2>3, Entries
    <3> QED BY <3>4, <3>5, <3>6, <3>7
  <2> QED BY <2>1, <2>2, <2>3, EntryKinds
<1>4. CacheTypeOK'
  <2>1. cards' \in [Card -> Entry]
    BY <1>1, <1>2, <1>3
  <2> QED BY <1>1, <1>2, <2>1, CacheAssumption DEF CacheTypeOK
<1>5. LoadingIsBeingRead'
  <2> SUFFICES ASSUME NEW c \in Card
               PROVE  /\ cards'[c] = Loading => c \in inFlight'
                      /\ c \in inFlight' => cards'[c] \in {Loading, Hydrated}
    BY <1>4 DEF LoadingIsBeingRead, CacheTypeOK
  <2>1. cards[c] \in {Never, Loading, Hydrated} \/ cards[c].status = "unknown"
    BY <1>2, EntryKinds
  <2> QED BY <1>1, <1>3, <2>1 DEF CacheInv, LoadingIsBeingRead
<1>6. RetryableIsTrue'
  <2> SUFFICES ASSUME NEW c \in Card \ {Blank}, cards'[c].status = "unknown"
               PROVE  cards'[c].retryable <=> (cards'[c].reason \notin Hopeless /\ ~Spent(c)')
    BY DEF RetryableIsTrue
  <2>1. ~Spent(c)'
    BY <1>1, CacheAssumption DEF Spent
  <2>2. cards[c].status = "unknown"
    BY <1>2, <1>3, EntryKinds, Entries
  <2>3. cards[c].retryable <=> (cards[c].reason \notin Hopeless /\ ~Spent(c))
    BY <2>2 DEF CacheInv, RetryableIsTrue
  <2>4. CASE spent /\ cards[c].reason \notin Hopeless
    BY <1>3, <2>1, <2>2, <2>4
  <2>5. CASE cards[c].reason \in Hopeless
    BY <1>3, <2>2, <2>3, <2>5
  <2>6. CASE ~spent /\ cards[c].reason \notin Hopeless
    <3>1. ~Spent(c)
      BY <1>2, <2>6, CacheAssumption DEF Spent
    <3> QED BY <1>3, <2>1, <2>2, <2>3, <2>6, <3>1
  <2> QED BY <2>4, <2>5, <2>6
<1>7. NeverMeansUnasked'
  BY <1>1 DEF NeverMeansUnasked
<1>8. ASSUME NEW c \in Card, cards[c] = Hydrated PROVE cards'[c] = Hydrated
  BY <1>3, <1>8
<1> QED BY <1>4, <1>5, <1>6, <1>7, <1>8 DEF CacheInv

-----------------------------------------------------------------------------
(* The history: an entry is replaced or inserted, and the tail is cut.     *)

LEMMA MinIsLeast ==
  ASSUME NEW I \in SUBSET Nat, I # {}
  PROVE  Min(I) \in I /\ \A i \in I : Min(I) <= i
<1> DEFINE Less == {ss \in Nat \X Nat : ss[1] < ss[2]}
<1>1. IsWellFoundedOn(Less, Nat)
  BY NatLessThanWellFounded DEF OpToRel
<1>2. PICK m \in I : \A y \in I : ~ (<<y, m>> \in Less)
  BY <1>1, WFMin
<1>3. \A y \in I : m <= y
  <2> SUFFICES ASSUME NEW y \in I, y < m PROVE FALSE
    OBVIOUS
  <2>1. <<y, m>> \in Less
    OBVIOUS
  <2> QED BY <1>2, <2>1, Zenon
<1> QED BY <1>3 DEF Min

LEMMA FirstOf ==
  ASSUME NEW n \in Nat, NEW I \in SUBSET (1 .. n)
  PROVE  (IF I # {} THEN Min(I) ELSE 0) \in 0 .. n
<1>1. CASE I # {}
  <2>1. I \in SUBSET Nat
    OBVIOUS
  <2>2. Min(I) \in I
    BY <1>1, <2>1, MinIsLeast
  <2>3. Min(I) \in 1 .. n
    BY <2>2
  <2>4. Min(I) \in 0 .. n
    BY <2>3
  <2> QED BY <1>1, <2>4, Zenon
<1>2. CASE I = {}
  BY <1>2
<1> QED BY <1>1, <1>2

LEMMA PlaceIsIn ==
  ASSUME NEW T, NEW h \in Seq(T), NEW p
  PROVE  Place(h, p) \in 1 .. Len(h) + 1
<1> DEFINE I == {i \in 1 .. Len(h) : h[i].ts = Unreadable \/ h[i].ts <= p.ts}
           at == IF I # {} THEN Min(I) ELSE 0
<1>1. Len(h) \in Nat
  OBVIOUS
<1>2. at \in 0 .. Len(h)
  BY <1>1, FirstOf
<1>3. Place(h, p) = IF p.ts = Unreadable THEN 1 ELSE IF at = 0 THEN Len(h) + 1 ELSE at
  BY DEF Place, SelectInSeq
<1> HIDE DEF at
<1> QED BY <1>1, <1>2, <1>3

LEMMA InsertProperties ==
  ASSUME NEW T, NEW h \in Seq(T), NEW p \in T, NEW i \in 1 .. Len(h) + 1
  PROVE  InsertAt(h, i, p) \in Seq(T) /\ Len(InsertAt(h, i, p)) = Len(h) + 1
<1> DEFINE front == SubSeq(h, 1, i - 1)
           back == SubSeq(h, i, Len(h))
<1>1. front \in Seq(T) /\ Len(front) = i - 1
  BY SubSeqProperties
<1>2. back \in Seq(T) /\ Len(back) = Len(h) - i + 1
  BY SubSeqProperties
<1>3. <<p>> \in Seq(T) /\ Len(<<p>>) = 1
  OBVIOUS
<1> HIDE DEF front, back
<1>4. front \o <<p>> \in Seq(T) /\ Len(front \o <<p>>) = i
  BY <1>1, <1>3, ConcatProperties
<1>5. front \o <<p>> \o back \in Seq(T) /\ Len(front \o <<p>> \o back) = Len(h) + 1
  <2> DEFINE most == front \o <<p>>
  <2>1. most \in Seq(T) /\ Len(most) = i
    BY <1>4
  <2> HIDE DEF most
  <2>2. most \o back \in Seq(T) /\ Len(most \o back) = i + Len(back)
    BY <1>2, <2>1, ConcatProperties
  <2>3. i + Len(back) = Len(h) + 1
    BY <1>2
  <2> QED BY <2>2, <2>3 DEF most
<1> QED BY <1>5 DEF InsertAt, front, back

LEMMA HistoryStaysBounded ==
  ASSUME NEW T, NEW h \in Seq(T), NEW p \in T, Len(h) <= HistoryCap
  PROVE  HistoryWith(h, p) \in Seq(T) /\ Len(HistoryWith(h, p)) <= HistoryCap
<1> DEFINE I == {i \in 1 .. Len(h) : h[i].id = p.id}
           at == IF I # {} THEN Min(I) ELSE 0
           longer == InsertAt(h, Place(h, p), p)
<1>1. HistoryWith(h, p) = IF at # 0 THEN [h EXCEPT ![at] = p] ELSE Capped(longer)
  BY DEF HistoryWith, SelectInSeq
<1>2. Len(h) \in Nat /\ HistoryCap \in Nat \ {0}
  BY ViewsAssumption
<1> HIDE DEF at, longer
<1>3. at # 0 => [h EXCEPT ![at] = p] \in Seq(T) /\ Len([h EXCEPT ![at] = p]) = Len(h)
  <2>1. at \in 0 .. Len(h)
    BY <1>2, FirstOf DEF at
  <2>2. at # 0 => at \in 1 .. Len(h)
    BY <1>2, <2>1
  <2> QED BY <2>2, ExceptSeq
<1>4. longer \in Seq(T) /\ Len(longer) = Len(h) + 1
  BY PlaceIsIn, InsertProperties DEF longer
<1>5. Capped(longer) \in Seq(T) /\ Len(Capped(longer)) <= HistoryCap
  <2>1. CASE Len(longer) > HistoryCap
    <3>1. SubSeq(longer, 1, HistoryCap) \in Seq(T) /\ Len(SubSeq(longer, 1, HistoryCap)) = HistoryCap
      BY <1>2, <1>4, <2>1, SubSeqProperties
    <3> QED BY <2>1, <3>1, <1>2 DEF Capped
  <2>2. CASE ~(Len(longer) > HistoryCap)
    BY <1>2, <1>4, <2>2 DEF Capped
  <2> QED BY <2>1, <2>2
<1> QED BY <1>1, <1>2, <1>3, <1>5

\* SelectInSeq finds the first of the indices it looks for.
LEMMA FirstIsFirst ==
  ASSUME NEW n \in Nat, NEW I \in SUBSET (1 .. n)
  PROVE  LET at == IF I # {} THEN Min(I) ELSE 0
         IN  /\ at = 0 => I = {}
             /\ at # 0 => at \in I /\ \A i \in I : i >= at
<1>1. CASE I # {}
  <2>1. I \in SUBSET Nat
    OBVIOUS
  <2>2. Min(I) \in I /\ \A i \in I : Min(I) <= i
    BY <1>1, <2>1, MinIsLeast
  <2>3. Min(I) # 0 /\ \A i \in I : i >= Min(I)
    BY <2>1, <2>2
  <2> QED BY <1>1, <2>2, <2>3
<1>2. CASE I = {}
  BY <1>2
<1> QED BY <1>1, <1>2

\* p goes in front of the n-th entry of h: the first that does not rank above it.
IsPlace(h, p, n) ==
    /\ n \in 1 .. Len(h) + 1
    /\ p.ts # Unreadable =>
          /\ \A i \in 1 .. Len(h) : i < n => h[i].ts # Unreadable /\ ~ (h[i].ts <= p.ts)
          /\ n \in 1 .. Len(h) => h[n].ts = Unreadable \/ h[n].ts <= p.ts

LEMMA PlaceIsFirst ==
  ASSUME NEW T, NEW h \in Seq(T), NEW p
  PROVE  IsPlace(h, p, Place(h, p))
<1> DEFINE I == {i \in 1 .. Len(h) : h[i].ts = Unreadable \/ h[i].ts <= p.ts}
           at == IF I # {} THEN Min(I) ELSE 0
<1>1. Len(h) \in Nat
  OBVIOUS
<1>2. Place(h, p) = IF p.ts = Unreadable THEN 1 ELSE IF at = 0 THEN Len(h) + 1 ELSE at
  BY DEF Place, SelectInSeq
<1>3. I \in SUBSET (1 .. Len(h))
  OBVIOUS
<1>4. /\ at = 0 => I = {}
      /\ at # 0 => at \in I /\ \A i \in I : i >= at
  BY <1>1, <1>3, FirstIsFirst
<1>5. Place(h, p) \in 1 .. Len(h) + 1
  BY PlaceIsIn
<1> HIDE DEF at
<1>6. ASSUME p.ts # Unreadable, NEW i \in 1 .. Len(h), i < Place(h, p) PROVE i \notin I
  BY <1>1, <1>2, <1>3, <1>4, <1>6
<1>7. ASSUME p.ts # Unreadable, Place(h, p) \in 1 .. Len(h) PROVE Place(h, p) \in I
  BY <1>1, <1>2, <1>4, <1>7
<1> QED BY <1>5, <1>6, <1>7 DEF IsPlace

LEMMA InsertedAt ==
  ASSUME NEW T, NEW h \in Seq(T), NEW p \in T, NEW n \in 1 .. Len(h) + 1,
         NEW j \in 1 .. Len(h) + 1
  PROVE  InsertAt(h, n, p)[j] = IF j < n THEN h[j] ELSE IF j = n THEN p ELSE h[j - 1]
<1> DEFINE front == SubSeq(h, 1, n - 1)
           back == SubSeq(h, n, Len(h))
           most == front \o <<p>>
<1>1. /\ front \in Seq(T) /\ Len(front) = n - 1
      /\ \A i \in 1 .. n - 1 : front[i] = h[i]
  BY SubSeqProperties
<1>2. /\ back \in Seq(T) /\ Len(back) = Len(h) - n + 1
      /\ \A i \in 1 .. Len(h) - n + 1 : back[i] = h[n + i - 1]
  BY SubSeqProperties
<1>3. <<p>> \in Seq(T) /\ Len(<<p>>) = 1 /\ <<p>>[1] = p
  OBVIOUS
<1> HIDE DEF front, back
<1>4. /\ most \in Seq(T) /\ Len(most) = n
      /\ \A i \in 1 .. n : most[i] = IF i <= n - 1 THEN front[i] ELSE <<p>>[i - (n - 1)]
  BY <1>1, <1>3, ConcatProperties
<1> HIDE DEF most
<1>5. (most \o back)[j] = IF j <= n THEN most[j] ELSE back[j - n]
  <2>1. Len(most) + Len(back) = Len(h) + 1
    BY <1>2, <1>4
  <2> QED BY <1>2, <1>4, <2>1, ConcatProperties
<1>6. InsertAt(h, n, p) = most \o back
  BY DEF InsertAt, most, front, back
<1>7. CASE j < n
  BY <1>1, <1>4, <1>5, <1>6, <1>7
<1>8. CASE j = n
  BY <1>3, <1>4, <1>5, <1>6, <1>8
<1>9. CASE j > n
  <2>1. j - n \in 1 .. Len(h) - n + 1 /\ n + (j - n) - 1 = j - 1
    <3>1. j \in Int /\ n \in Int /\ Len(h) \in Int /\ j <= Len(h) + 1 /\ n >= 1
      BY LenProperties
    <3>2. ASSUME NEW a \in Int, NEW b \in Int PROVE a + (b - a) - 1 = b - 1
      OBVIOUS
    <3>3. n + (j - n) - 1 = j - 1
      BY <3>1, <3>2
    <3>4. j - n >= 1 /\ j - n <= Len(h) - n + 1
      BY <1>9, <3>1
    <3>5. j - n \in Int /\ Len(h) - n + 1 \in Int
      BY <3>1
    <3> QED BY <3>3, <3>4, <3>5
  <2>2. back[j - n] = h[n + (j - n) - 1]
    BY <1>2, <2>1
  <2>3. ~(j < n) /\ j # n /\ ~(j <= n)
    BY <1>9
  <2> QED BY <1>5, <1>6, <2>1, <2>2, <2>3
<1> QED BY <1>7, <1>8, <1>9

\* H is h with the entry of p's id replaced, or with p filed where it belongs
\* and the last entry dropped when there is no room.
Replaced(h, p, H) ==
    \E i \in 1 .. Len(h) :
        /\ h[i].id = p.id
        /\ Len(H) = Len(h)
        /\ \A j \in 1 .. Len(h) : H[j] = IF j = i THEN p ELSE h[j]

Filed(h, p, H) ==
    /\ \A i \in 1 .. Len(h) : h[i].id # p.id
    /\ \E n \in 1 .. Len(h) + 1 :
          /\ IsPlace(h, p, n)
          /\ Len(H) = IF Len(h) < HistoryCap THEN Len(h) + 1 ELSE HistoryCap
          /\ \A j \in 1 .. Len(H) :
                H[j] = IF j < n THEN h[j] ELSE IF j = n THEN p ELSE h[j - 1]

LEMMA HistoryWithFiles ==
  ASSUME NEW T, NEW h \in Seq(T), NEW p \in T, Len(h) <= HistoryCap
  PROVE  Replaced(h, p, HistoryWith(h, p)) \/ Filed(h, p, HistoryWith(h, p))
<1> DEFINE I == {i \in 1 .. Len(h) : h[i].id = p.id}
           at == IF I # {} THEN Min(I) ELSE 0
           n == Place(h, p)
           longer == InsertAt(h, n, p)
<1>1. HistoryWith(h, p) = IF at # 0 THEN [h EXCEPT ![at] = p] ELSE Capped(longer)
  BY DEF HistoryWith, SelectInSeq
<1>2. Len(h) \in Nat /\ HistoryCap \in Nat \ {0} /\ I \in SUBSET (1 .. Len(h))
  BY ViewsAssumption
<1>3. /\ at = 0 => I = {}
      /\ at # 0 => at \in I
  BY <1>2, FirstIsFirst
<1>4. IsPlace(h, p, n) /\ n \in 1 .. Len(h) + 1
  BY PlaceIsFirst DEF IsPlace
<1> HIDE DEF at, n
<1>5. /\ longer \in Seq(T) /\ Len(longer) = Len(h) + 1
      /\ \A j \in 1 .. Len(h) + 1 :
            longer[j] = IF j < n THEN h[j] ELSE IF j = n THEN p ELSE h[j - 1]
  BY <1>4, InsertProperties, InsertedAt
<1> HIDE DEF longer
<1>6. CASE at # 0
  <2>1. at \in 1 .. Len(h) /\ h[at].id = p.id
    BY <1>3, <1>6
  <2>2. /\ Len([h EXCEPT ![at] = p]) = Len(h)
        /\ \A j \in 1 .. Len(h) : [h EXCEPT ![at] = p][j] = IF j = at THEN p ELSE h[j]
    BY <2>1, ExceptSeq
  <2> QED BY <1>1, <1>6, <2>1, <2>2 DEF Replaced
<1>7. CASE at = 0
  <2> DEFINE H == Capped(longer)
  <2>1. Len(H) = IF Len(h) < HistoryCap THEN Len(h) + 1 ELSE HistoryCap
    <3>1. CASE Len(longer) > HistoryCap
      <4>1. Len(SubSeq(longer, 1, HistoryCap)) = HistoryCap
        BY <1>2, <1>5, <3>1, SubSeqProperties
      <4> QED BY <1>2, <1>5, <3>1, <4>1 DEF Capped
    <3>2. CASE ~(Len(longer) > HistoryCap)
      BY <1>2, <1>5, <3>2 DEF Capped
    <3> QED BY <3>1, <3>2
  <2>2. ASSUME NEW j \in 1 .. Len(H) PROVE H[j] = longer[j] /\ j \in 1 .. Len(h) + 1
    <3>1. CASE Len(longer) > HistoryCap
      <4>1. \A i \in 1 .. HistoryCap : SubSeq(longer, 1, HistoryCap)[i] = longer[i]
        BY <1>2, <1>5, <3>1, SubSeqProperties
      <4> QED BY <1>2, <1>5, <2>1, <3>1, <4>1 DEF Capped
    <3>2. CASE ~(Len(longer) > HistoryCap)
      BY <1>2, <1>5, <2>1, <3>2 DEF Capped
    <3> QED BY <3>1, <3>2
  <2>3. HistoryWith(h, p) = H
    BY <1>1, <1>7
  <2> HIDE DEF H
  <2>4. \A i \in 1 .. Len(h) : h[i].id # p.id
    BY <1>3, <1>7
  <2> QED BY <1>4, <1>5, <2>1, <2>2, <2>3, <2>4 DEF Filed
<1> QED BY <1>6, <1>7

\* What HistoryIsSound says of the history, as facts about a sequence h and
\* the pushes S of the session, and what makes them inductive: the deliveries
\* of an envelope bear one timestamp, and the order is one of the whole line.
OneEach(h) == \A i, j \in 1 .. Len(h) : h[i].id = h[j].id => i = j
NeighboursRank(h) ==
    \A i, j \in 1 .. Len(h) :
        j = i + 1 /\ h[i].ts # Unreadable /\ h[j].ts # Unreadable => h[i].ts >= h[j].ts
Whole(h, S) ==
    Len(h) < HistoryCap => \A x \in S : \E i \in 1 .. Len(h) : h[i].id = x.id
InOrder(h) == \A i, j \in 1 .. Len(h) : i < j => h[i].ts > h[j].ts
Newest(h, S) ==
    \A x \in S : (\A i \in 1 .. Len(h) : h[i].id # x.id)
                     => \A i \in 1 .. Len(h) : h[i].ts > x.ts
OneTimeEach(S) == \A x, y \in S : x.id = y.id => x.ts = y.ts

Good(h, S) ==
    /\ OneEach(h) /\ NeighboursRank(h) /\ Whole(h, S)
    /\ RanksStrictly(S) => InOrder(h) /\ Newest(h, S)

LEMMA RanksAreNumbers ==
  ASSUME NEW S, S \subseteq Push
  PROVE  \A x \in S : x.ts \in Nat \cup {Unreadable} /\ (x.ts # Unreadable => x.ts \in Nat)
BY ViewsAssumption DEF Push

LEMMA ReplacedStaysGood ==
  ASSUME NEW S, NEW p, S \cup {p} \subseteq Push, OneTimeEach(S \cup {p}),
         NEW h \in Seq(S), Good(h, S), NEW H, Replaced(h, p, H)
  PROVE  Good(H, S \cup {p})
<1>1. /\ \A j \in 1 .. Len(h) : h[j] \in S
      /\ Len(H) = Len(h)
  BY ElementOfSeq DEF Replaced
<1>2. PICK m \in 1 .. Len(h) :
         /\ h[m].id = p.id
         /\ \A j \in 1 .. Len(h) : H[j] = IF j = m THEN p ELSE h[j]
  BY DEF Replaced
<1>3. \A j \in 1 .. Len(h) : H[j].id = h[j].id /\ H[j].ts = h[j].ts
  BY <1>1, <1>2 DEF OneTimeEach
<1>4. OneEach(H) /\ NeighboursRank(H)
  BY <1>1, <1>3 DEF Good, OneEach, NeighboursRank
<1>5. Whole(H, S \cup {p})
  BY <1>1, <1>2, <1>3 DEF Good, Whole
<1>6. RanksStrictly(S \cup {p}) => InOrder(H) /\ Newest(H, S \cup {p})
  <2> SUFFICES ASSUME RanksStrictly(S \cup {p}) PROVE InOrder(H) /\ Newest(H, S \cup {p})
    OBVIOUS
  <2>1. InOrder(h) /\ Newest(h, S)
    BY DEF Good, RanksStrictly
  <2>2. InOrder(H)
    BY <1>1, <1>3, <2>1 DEF InOrder
  <2>3. Newest(H, S \cup {p})
    BY <1>1, <1>2, <1>3, <2>1 DEF Newest
  <2> QED BY <2>2, <2>3
<1> QED BY <1>4, <1>5, <1>6 DEF Good

LEMMA FiledStaysGood ==
  ASSUME NEW S, NEW p, S \cup {p} \subseteq Push, OneTimeEach(S \cup {p}),
         NEW h \in Seq(S), Len(h) <= HistoryCap, Good(h, S), NEW H, Filed(h, p, H)
  PROVE  Good(H, S \cup {p})
<1> DEFINE l == Len(h)
           L == Len(H)
<1>1. /\ l \in Nat /\ HistoryCap \in Nat \ {0} /\ l <= HistoryCap
      /\ \A j \in 1 .. l : h[j] \in S /\ h[j].id # p.id
  BY ViewsAssumption, LenProperties, ElementOfSeq DEF Filed
<1>2. PICK n \in 1 .. l + 1 :
         /\ IsPlace(h, p, n)
         /\ L = IF l < HistoryCap THEN l + 1 ELSE HistoryCap
         /\ \A j \in 1 .. L : H[j] = IF j < n THEN h[j] ELSE IF j = n THEN p ELSE h[j - 1]
  BY DEF Filed
<1>3. /\ L \in Nat /\ l <= L /\ L <= l + 1 /\ n \in Nat /\ 1 <= n /\ n <= l + 1
      /\ L = l + 1 <=> l < HistoryCap
      /\ L < HistoryCap => l < HistoryCap
  BY <1>1, <1>2
<1> HIDE DEF l, L
<1>4. ASSUME NEW j \in 1 .. L
      PROVE  /\ j < n => j \in 1 .. l /\ H[j] = h[j]
             /\ j = n => H[j] = p
             /\ j > n => j - 1 \in 1 .. l /\ H[j] = h[j - 1]
  <2>1. j \in Nat /\ 1 <= j /\ j <= L
    BY <1>3
  <2>2. H[j] = IF j < n THEN h[j] ELSE IF j = n THEN p ELSE h[j - 1]
    BY <1>2
  <2>3. j < n => j \in 1 .. l
    BY <1>1, <1>3, <2>1
  <2>4. j > n => j - 1 \in 1 .. l /\ ~(j < n) /\ j # n
    BY <1>1, <1>3, <2>1
  <2> QED BY <1>3, <2>1, <2>2, <2>3, <2>4
<1>5. ASSUME NEW j \in 1 .. l
      PROVE  /\ j < n => j \in 1 .. L /\ H[j] = h[j]
             /\ j >= n /\ j + 1 <= L => j + 1 \in 1 .. L /\ H[j + 1] = h[j]
  <2>1. j \in Nat /\ 1 <= j /\ j <= l /\ j \in 1 .. L
    BY <1>1, <1>3
  <2>2. CASE j < n
    BY <1>3, <1>4, <2>1, <2>2
  <2>3. CASE j >= n /\ j + 1 <= L
    <3>1. j + 1 \in 1 .. L /\ j + 1 > n /\ j + 1 - 1 = j
      BY <1>3, <2>1, <2>3
    <3> QED BY <1>3, <1>4, <2>1, <2>3, <3>1
  <2> QED BY <2>2, <2>3
<1>6. OneEach(H)
  <2> SUFFICES ASSUME NEW i \in 1 .. L, NEW j \in 1 .. L, i < j PROVE H[i].id # H[j].id
    BY <1>3 DEF OneEach, L
  <2>1. \A a, b \in 1 .. l : a # b => h[a].id # h[b].id
    BY DEF Good, OneEach, l
  <2>2. i \in Nat /\ j \in Nat
    BY <1>3
  <2>3. CASE j < n
    BY <1>3, <1>4, <2>1, <2>2, <2>3
  <2>4. CASE j = n
    BY <1>1, <1>3, <1>4, <2>2, <2>4
  <2>5. CASE i < n /\ n < j
    <3>1. i # j - 1
      BY <1>3, <2>2, <2>5
    <3> QED BY <1>4, <2>1, <2>5, <3>1
  <2>6. CASE i = n
    BY <1>1, <1>3, <1>4, <2>2, <2>6
  <2>7. CASE i > n
    <3>1. i - 1 # j - 1 /\ j > n
      BY <1>3, <2>2, <2>7
    <3> QED BY <1>4, <2>1, <2>7, <3>1
  <2> QED BY <1>3, <2>2, <2>3, <2>4, <2>5, <2>6, <2>7
\* Against the entry it was filed before or behind.
<1>7. /\ p.ts # Unreadable =>
           \A i \in 1 .. l : i < n => h[i].ts # Unreadable /\ h[i].ts > p.ts
      /\ p.ts # Unreadable /\ n \in 1 .. l =>
           h[n].ts = Unreadable \/ p.ts >= h[n].ts
  <2>1. /\ p.ts # Unreadable =>
             \A i \in 1 .. l : i < n => h[i].ts # Unreadable /\ ~(h[i].ts <= p.ts)
        /\ p.ts # Unreadable /\ n \in 1 .. l => h[n].ts = Unreadable \/ h[n].ts <= p.ts
    BY <1>2 DEF IsPlace, l
  <2>2. /\ p.ts # Unreadable => p.ts \in Nat
        /\ \A i \in 1 .. l : h[i].ts # Unreadable => h[i].ts \in Nat
    BY <1>1, RanksAreNumbers
  <2> QED BY <2>1, <2>2
<1>8. NeighboursRank(H)
  <2> SUFFICES ASSUME NEW i \in 1 .. L, NEW j \in 1 .. L, j = i + 1,
                      H[i].ts # Unreadable, H[j].ts # Unreadable
               PROVE  H[i].ts >= H[j].ts
    BY DEF NeighboursRank, L
  <2>1. \A a, b \in 1 .. l : b = a + 1 /\ h[a].ts # Unreadable /\ h[b].ts # Unreadable
                               => h[a].ts >= h[b].ts
    BY DEF Good, NeighboursRank, l
  <2>2. i \in Nat /\ j \in Nat /\ i < j
    BY <1>3
  <2>3. CASE j < n
    BY <1>3, <1>4, <2>1, <2>2, <2>3
  <2>4. CASE j = n
    <3>1. i \in 1 .. l /\ i < n /\ H[i] = h[i] /\ H[j] = p
      BY <1>3, <1>4, <2>2, <2>4
    <3>2. h[i].ts > p.ts /\ h[i].ts \in Nat /\ p.ts \in Nat
      BY <1>1, <1>7, <3>1, RanksAreNumbers
    <3> QED BY <3>1, <3>2
  <2>5. CASE i = n
    <3>1. H[i] = p /\ H[j] = h[n] /\ n \in 1 .. l
      <4>1. j > n /\ j - 1 = n
        BY <1>3, <2>2, <2>5
      <4> QED BY <1>4, <2>5, <4>1
    <3> QED BY <1>7, <3>1
  <2>6. CASE i > n
    <3>1. j > n /\ j - 1 = (i - 1) + 1
      BY <1>3, <2>2, <2>6
    <3> QED BY <1>4, <2>1, <2>6, <3>1
  <2> QED BY <1>3, <2>2, <2>3, <2>4, <2>5, <2>6
<1>9. Whole(H, S \cup {p})
  <2> SUFFICES ASSUME L < HistoryCap, NEW x \in S \cup {p}
               PROVE  \E i \in 1 .. L : H[i].id = x.id
    BY DEF Whole, L
  <2>1. l < HistoryCap /\ L = l + 1
    BY <1>3
  <2>2. CASE x = p
    <3>1. n \in 1 .. L /\ H[n] = p
      BY <1>3, <1>4, <2>1
    <3> QED BY <2>2, <3>1
  <2>3. CASE x \in S
    <3>1. PICK j \in 1 .. l : h[j].id = x.id
      BY <2>1, <2>3 DEF Good, Whole, l
    <3>2. CASE j < n
      BY <1>5, <3>1, <3>2
    <3>3. CASE j >= n
      <4>1. j + 1 <= L
        BY <1>1, <2>1
      <4> QED BY <1>5, <3>1, <3>3, <4>1
    <3> QED BY <1>1, <1>3, <3>2, <3>3
  <2> QED BY <2>2, <2>3
<1>10. ASSUME RanksStrictly(S \cup {p}) PROVE InOrder(H) /\ Newest(H, S \cup {p})
  <2>1. /\ p.ts # Unreadable /\ p.ts \in Nat
        /\ \A i \in 1 .. l : /\ h[i].ts # Unreadable /\ h[i].ts \in Nat
                             /\ h[i].ts # p.ts
        /\ \A x \in S : x.ts \in Nat
    <3>1. \A x \in S \cup {p} : x.ts # Unreadable /\ x.ts \in Nat
      BY <1>10, RanksAreNumbers DEF RanksStrictly
    <3>2. \A x \in S : x.ts = p.ts => x.id = p.id
      BY <1>10 DEF RanksStrictly
    <3> QED BY <1>1, <3>1, <3>2
  <2>2. InOrder(h) /\ Newest(h, S)
    BY <1>10 DEF Good, RanksStrictly
  <2>3. \A a, b \in 1 .. l : a < b => h[a].ts > h[b].ts
    BY <2>2 DEF InOrder, l
  <2>4. /\ \A i \in 1 .. l : i < n => h[i].ts > p.ts
        /\ \A i \in 1 .. l : i >= n => p.ts > h[i].ts
    <3>1. \A i \in 1 .. l : i < n => h[i].ts > p.ts
      BY <1>7, <2>1
    <3>2. ASSUME NEW i \in 1 .. l, i >= n PROVE p.ts > h[i].ts
      <4>1. n \in 1 .. l
        BY <1>1, <1>3, <3>2
      <4>2. p.ts > h[n].ts
        BY <1>7, <2>1, <4>1
      <4>3. n < i => h[n].ts > h[i].ts
        BY <2>3, <4>1
      <4>4. n = i \/ n < i
        BY <1>1, <1>3, <3>2
      <4> QED BY <2>1, <4>1, <4>2, <4>3, <4>4
    <3> QED BY <3>1, <3>2
  <2>5. InOrder(H)
    <3> SUFFICES ASSUME NEW i \in 1 .. L, NEW j \in 1 .. L, i < j PROVE H[i].ts > H[j].ts
      BY DEF InOrder, L
    <3>1. i \in Nat /\ j \in Nat
      BY <1>3
    <3>2. CASE j < n
      BY <1>3, <1>4, <2>3, <3>1, <3>2
    <3>3. CASE j = n
      BY <1>3, <1>4, <2>4, <3>1, <3>3
    <3>4. CASE i < n /\ n < j
      <4>1. i < j - 1
        BY <1>3, <3>1, <3>4
      <4> QED BY <1>4, <2>3, <3>4, <4>1
    <3>5. CASE i = n
      <4>1. j - 1 >= n /\ j > n
        BY <1>3, <3>1, <3>5
      <4> QED BY <1>4, <2>4, <3>5, <4>1
    <3>6. CASE i > n
      <4>1. i - 1 < j - 1 /\ j > n
        BY <1>3, <3>1, <3>6
      <4> QED BY <1>4, <2>3, <3>6, <4>1
    <3> QED BY <1>3, <3>1, <3>2, <3>3, <3>4, <3>5, <3>6
  <2>6. ASSUME NEW x \in S \cup {p}, \A i \in 1 .. L : H[i].id # x.id, NEW i \in 1 .. L
        PROVE  H[i].ts > x.ts
    <3>1. i \in Nat /\ 1 <= i /\ i <= L
      BY <1>3
    <3>2. CASE x.id = p.id
      <4>1. x.ts = p.ts
        BY <3>2 DEF OneTimeEach
      <4>2. n \notin 1 .. L
        BY <1>4, <2>6, <3>2
      <4>3. i < n
        BY <1>3, <3>1, <4>2
      <4> QED BY <1>4, <2>4, <4>1, <4>3
    <3>3. CASE x \in S /\ x.id # p.id /\ \A j \in 1 .. l : h[j].id # x.id
      <4>1. \A j \in 1 .. l : h[j].ts > x.ts
        BY <2>2, <3>3 DEF Newest, l
      <4>2. l >= HistoryCap
        BY <1>1, <3>3 DEF Good, Whole, l
      <4>3. L = l
        BY <1>1, <1>3, <4>2
      <4>4. CASE i = n
        <5>1. n \in 1 .. l /\ p.ts > h[n].ts
          BY <1>1, <1>3, <2>4, <3>1, <4>3, <4>4
        <5> QED BY <1>4, <2>1, <3>3, <4>1, <4>4, <5>1
      <4>5. CASE i < n
        BY <1>4, <4>1, <4>5
      <4>6. CASE i > n
        BY <1>4, <4>1, <4>6
      <4> QED BY <1>3, <3>1, <4>4, <4>5, <4>6
    <3>4. CASE x \in S /\ x.id # p.id /\ \E j \in 1 .. l : h[j].id = x.id
      <4>1. PICK m \in 1 .. l : h[m].id = x.id
        BY <3>4
      <4>2. h[m].ts = x.ts
        BY <1>1, <3>4, <4>1 DEF OneTimeEach
      <4>3. m \in Nat /\ m <= l
        BY <1>1
      <4>4. m >= n
        BY <1>3, <1>5, <2>6, <4>1, <4>3
      <4>5. ~(m + 1 <= L)
        BY <1>5, <2>6, <4>1, <4>4
      <4>6. m = L
        BY <1>3, <1>1, <4>3, <4>5
      <4>7. CASE i < n
        <5>1. i < m
          BY <1>3, <3>1, <4>3, <4>4, <4>7
        <5> QED BY <1>4, <2>3, <4>2, <4>7, <5>1
      <4>8. CASE i = n
        BY <1>4, <2>4, <4>2, <4>4, <4>8
      <4>9. CASE i > n
        <5>1. i - 1 < m
          BY <1>3, <3>1, <4>3, <4>6
        <5> QED BY <1>4, <2>3, <4>2, <4>9, <5>1
      <4> QED BY <1>3, <3>1, <4>7, <4>8, <4>9
    <3> QED BY <3>2, <3>3, <3>4
  <2>7. Newest(H, S \cup {p})
    BY <2>6 DEF Newest, L
  <2> QED BY <2>5, <2>7
<1> QED BY <1>6, <1>8, <1>9, <1>10 DEF Good

-----------------------------------------------------------------------------
(* The pills.                                                              *)

\* Everything a view, a pill or the history holds has arrived.
HeldHasArrived ==
    /\ \A p \in sent : p.ref <= arrived
    /\ history \in Seq(sent)
    /\ \A k \in Kind : retained[k] # NoPush => retained[k] \in sent /\ retained[k].kind = k
    /\ status = "open" => content \in sent

ViewInv == ViewsTypeOK /\ HeldHasArrived /\ PillsAreTrue

LEMMA PushFacts ==
  ASSUME NEW p \in Push
  PROVE  /\ p # NoPush
         /\ p.id \in 1 .. MaxPushes /\ p.kind \in Kind /\ p.ref \in 1 .. MaxPushes
         /\ p.ref \in Nat
BY NoPushAssumption, ViewsAssumption DEF Push

LEMMA ViewStart == Init => ViewInv
<1> SUFFICES ASSUME Init PROVE ViewInv
  OBVIOUS
<1>1. /\ status = "closed" /\ content = NoPush /\ retained = [k \in Kind |-> NoPush]
      /\ unread = {} /\ history = <<>> /\ arrived = 0 /\ sent = {}
  BY DEF Init, ViewsInit
<1>2. ViewsTypeOK
  BY <1>1, ViewsAssumption DEF ViewsTypeOK
<1>3. HeldHasArrived
  BY <1>1 DEF HeldHasArrived
<1>4. PillsAreTrue
  BY <1>1 DEF PillsAreTrue, PillHoldsLatest, UnreadMeansDisplaced
<1> QED BY <1>2, <1>3, <1>4 DEF ViewInv

(* A push arrives: it is newer than everything that was held, so it can be *)
(* no revisit, and whatever it displaces it displaces as a later push.     *)
LEMMA ArrivalStep ==
  ASSUME ViewInv, NEW p \in Push, ArrivePush(p)
  PROVE  ViewInv'
<1>1. /\ arrived' = arrived + 1 /\ p.ref = arrived + 1 /\ sent' = sent \cup {p}
      /\ arrived < MaxPushes
  BY DEF ArrivePush
<1>2. /\ status \in {"open", "closed"} /\ content \in Push \cup {NoPush}
      /\ retained \in [Kind -> Push \cup {NoPush}] /\ unread \subseteq Kind
      /\ history \in Seq(sent) /\ Len(history) <= HistoryCap
      /\ arrived \in 0 .. MaxPushes /\ sent \subseteq Push
      /\ p.kind \in Kind /\ p # NoPush /\ MaxPushes \in Nat
  BY PushFacts, ViewsAssumption DEF ViewInv, ViewsTypeOK, HeldHasArrived
<1>3. \A q \in sent : q.ref \in Nat /\ q.ref <= arrived /\ q.kind \in Kind
  BY <1>2, PushFacts DEF ViewInv, HeldHasArrived
<1>4. ~ Revisit(p)
  <2> SUFFICES ASSUME p \in Range(history) PROVE FALSE
    BY DEF Revisit
  <2>1. p \in sent
    BY <1>2 DEF Range
  <2> QED BY <1>1, <1>2, <1>3, <2>1
<1> DEFINE displaced == IF status = "open" /\ content.kind # p.kind
                        THEN {content.kind} ELSE {}
<1>5. /\ status' = "open" /\ content' = p /\ unread' = (unread \ {p.kind}) \cup displaced
      /\ retained' = [retained EXCEPT ![p.kind] = p] /\ history' = HistoryWith(history, p)
  BY <1>4 DEF ArrivePush, OpenAgentView
<1>6. history' \in Seq(sent') /\ Len(history') <= HistoryCap
  <2>1. history \in Seq(sent') /\ p \in sent'
    BY <1>1, <1>2
  <2> QED BY <1>2, <1>5, <2>1, HistoryStaysBounded
<1>7. \A k \in displaced : /\ k \in Kind /\ k # p.kind
                           /\ retained[k] # NoPush
  <2> SUFFICES ASSUME status = "open", content.kind # p.kind
               PROVE  content.kind \in Kind /\ retained[content.kind] # NoPush
    OBVIOUS
  <2>1. content \in sent
    BY DEF ViewInv, HeldHasArrived
  <2> QED BY <1>3, <2>1 DEF ViewInv, PillsAreTrue, PillHoldsLatest
<1>8. \A k \in Kind : /\ k = p.kind => retained'[k] = p
                      /\ k # p.kind => retained'[k] = retained[k]
  BY <1>2, <1>5
<1>9. \A k \in Kind : retained[k] # NoPush =>
                         /\ retained[k] \in sent /\ retained[k].kind = k
                         /\ retained[k].ref \in Nat /\ retained[k].ref <= arrived
  BY <1>3 DEF ViewInv, HeldHasArrived
<1>10. ViewsTypeOK'
  <2>1. sent' \subseteq Push
    BY <1>1, <1>2
  <2>2. history' \in Seq(Push)
    BY <1>6, <2>1
  <2>3. retained' \in [Kind -> Push \cup {NoPush}] /\ unread' \subseteq Kind
    BY <1>2, <1>5, <1>7
  <2>4. arrived' \in 0 .. MaxPushes
    BY <1>1, <1>2
  <2> QED BY <1>2, <1>5, <1>6, <2>1, <2>2, <2>3, <2>4 DEF ViewsTypeOK
<1>11. HeldHasArrived'
  <2>1. \A q \in sent' : q.ref <= arrived'
    BY <1>1, <1>2, <1>3
  <2>2. \A k \in Kind : retained'[k] # NoPush => retained'[k] \in sent' /\ retained'[k].kind = k
    BY <1>1, <1>8, <1>9
  <2>3. content' \in sent'
    BY <1>1, <1>5
  <2> QED BY <1>6, <2>1, <2>2, <2>3 DEF HeldHasArrived
<1>12. PillHoldsLatest'
  <2> SUFFICES ASSUME NEW q \in sent'
               PROVE  retained'[q.kind] # NoPush /\ q.ref <= retained'[q.kind].ref
    BY DEF PillHoldsLatest
  <2>1. CASE q = p
    BY <1>1, <1>2, <1>8, <2>1
  <2>2. CASE q \in sent /\ q.kind = p.kind
    BY <1>1, <1>2, <1>3, <1>8, <2>2
  <2>3. CASE q \in sent /\ q.kind # p.kind
    BY <1>3, <1>8, <2>3 DEF ViewInv, PillsAreTrue, PillHoldsLatest
  <2> QED BY <1>1, <2>1, <2>2, <2>3
<1>13. UnreadMeansDisplaced'
  <2>1. content'.kind \notin unread'
    BY <1>5, <1>7
  <2>2. ASSUME NEW k \in unread'
        PROVE  /\ retained'[k] # NoPush
               /\ \E j \in Kind \ {k} : retained'[j] # NoPush /\ retained'[j].ref > retained'[k].ref
    <3>1. k \in Kind /\ k # p.kind /\ retained[k] # NoPush
      BY <1>2, <1>5, <1>7, <2>2 DEF ViewInv, PillsAreTrue, UnreadMeansDisplaced
    <3>2. retained'[k] = retained[k] /\ retained[k].ref <= arrived /\ retained[k].ref \in Nat
      BY <1>8, <1>9, <3>1
    <3>3. retained'[p.kind] = p /\ p.ref > retained[k].ref
      BY <1>1, <1>2, <1>8, <3>2
    <3> QED BY <1>2, <3>1, <3>2, <3>3
  <2> QED BY <2>1, <2>2 DEF UnreadMeansDisplaced
<1> QED BY <1>10, <1>11, <1>12, <1>13 DEF ViewInv, PillsAreTrue

(* A push that is held is put back on a closed glass: what its kind keeps  *)
(* does not change, whichever way it was reached.                          *)
LEMMA ReopenStep ==
  ASSUME ViewInv, NEW p \in sent, status = "closed", OpenAgentView(p),
         UNCHANGED <<arrived, sent>>, p \in Range(history) \/ p = retained[p.kind]
  PROVE  ViewInv'
<1>1. /\ status' = "open" /\ content' = p /\ unread' = unread \ {p.kind}
      /\ history' = HistoryWith(history, p) /\ arrived' = arrived /\ sent' = sent
  BY DEF OpenAgentView
<1>2. /\ retained \in [Kind -> Push \cup {NoPush}] /\ unread \subseteq Kind
      /\ history \in Seq(sent) /\ Len(history) <= HistoryCap
      /\ arrived \in 0 .. MaxPushes /\ sent \subseteq Push
      /\ p \in Push /\ p.kind \in Kind /\ p # NoPush
  BY PushFacts DEF ViewInv, ViewsTypeOK, HeldHasArrived
<1>3. retained' = retained
  <2>1. CASE Revisit(p)
    BY <2>1 DEF OpenAgentView
  <2>2. CASE ~ Revisit(p)
    <3>1. p = retained[p.kind]
      BY <2>2 DEF Revisit
    <3>2. retained' = [retained EXCEPT ![p.kind] = p]
      BY <2>2 DEF OpenAgentView
    <3> QED BY <1>2, <3>1, <3>2
  <2> QED BY <2>1, <2>2
<1>4. history' \in Seq(sent') /\ Len(history') <= HistoryCap
  BY <1>1, <1>2, HistoryStaysBounded
<1>5. ViewsTypeOK'
  <2>1. history' \in Seq(Push)
    BY <1>1, <1>2, <1>4
  <2> QED BY <1>1, <1>2, <1>3, <1>4, <2>1 DEF ViewsTypeOK
<1>6. HeldHasArrived'
  BY <1>1, <1>3, <1>4 DEF ViewInv, HeldHasArrived
<1>7. PillHoldsLatest'
  BY <1>1, <1>3 DEF ViewInv, PillsAreTrue, PillHoldsLatest
<1>8. UnreadMeansDisplaced'
  BY <1>1, <1>3 DEF ViewInv, PillsAreTrue, UnreadMeansDisplaced
<1> QED BY <1>5, <1>6, <1>7, <1>8 DEF ViewInv, PillsAreTrue

-----------------------------------------------------------------------------
(* Both halves of a tab, through every step it may take.                   *)

LEMMA HeldIsPushed ==
  ASSUME ViewInv
  PROVE  /\ \A p \in Range(history) : p \in sent
         /\ \A k \in Kind : retained[k] # NoPush => retained[k] \in sent /\ retained[k].kind = k
         /\ \A p \in sent : p \in Push /\ p.kind \in Kind
<1>1. history \in Seq(sent) /\ sent \subseteq Push
  BY DEF ViewInv, ViewsTypeOK, HeldHasArrived
<1>2. \A p \in Range(history) : p \in sent
  BY <1>1 DEF Range
<1> QED BY <1>1, <1>2, PushFacts DEF ViewInv, HeldHasArrived

\* A view that mounts names cards of the cache and nothing else.
LEMMA MountStep ==
  ASSUME CacheInv, NEW k \in Kind, Mount(k)
  PROVE  CacheInv' /\ \A c \in Card : cards[c] = Hydrated => cards'[c] = Hydrated
<1>1. CardsOf[k] \in SUBSET Card
  BY CardsOfAssumption
<1>2. HydrateCards(CardsOf[k])
  BY DEF Mount
<1> QED BY <1>1, <1>2, HydrateStep

LEMMA ViewKept ==
  ASSUME ViewInv, UNCHANGED viewVars
  PROVE  ViewInv'
BY DEF viewVars, ViewInv, ViewsTypeOK, HeldHasArrived, PillsAreTrue, PillHoldsLatest,
       UnreadMeansDisplaced

LEMMA CacheKept ==
  ASSUME CacheInv, UNCHANGED cacheVars
  PROVE  CacheInv' /\ \A c \in Card : cards[c] = Hydrated => cards'[c] = Hydrated
BY DEF cacheVars, CacheInv, CacheTypeOK, LoadingIsBeingRead, RetryableIsTrue, Spent,
       NeverMeansUnasked, Never

TabInv == ViewInv /\ CacheInv

LEMMA TabStep ==
  ASSUME TabInv, [Next]_vars
  PROVE  TabInv' /\ \A c \in Card : cards[c] = Hydrated => cards'[c] = Hydrated
<1> DEFINE HydratedKept == \A c \in Card : cards[c] = Hydrated => cards'[c] = Hydrated
<1> USE DEF TabInv
<1>1. CASE PushArrives
  <2>1. PICK p \in [id : 1 .. arrived + 1, kind : Kind, ts : Instant \cup {Unreadable},
                    ref : {arrived + 1}] : ArrivePush(p) /\ Mount(p.kind)
    BY <1>1 DEF PushArrives
  <2>2. arrived < MaxPushes /\ arrived \in 0 .. MaxPushes /\ MaxPushes \in Nat
    BY <2>1, ViewsAssumption DEF ArrivePush, ViewInv, ViewsTypeOK
  <2>3. p \in Push /\ p.kind \in Kind
    BY <2>2 DEF Push
  <2>4. ViewInv'
    BY <2>1, <2>3, ArrivalStep
  <2> QED BY <2>1, <2>3, <2>4, MountStep
<1>2. ASSUME NEW k \in Kind, ClickPill(k) PROVE TabInv' /\ HydratedKept
  <2> DEFINE p == retained[k]
  <2>1. p \in sent /\ p.kind = k
    BY <1>2, HeldIsPushed DEF ClickPill, ReopenAgentView
  <2>2. ViewInv'
    BY <1>2, <2>1, ReopenStep DEF ClickPill, ReopenAgentView
  <2> QED BY <1>2, <2>2, MountStep DEF ClickPill
<1>3. CASE ClickEntry
  <2>1. PICK p \in Range(history) : ReopenPush(p) /\ Mount(p.kind)
    BY <1>3 DEF ClickEntry
  <2>2. p \in sent /\ p.kind \in Kind
    BY HeldIsPushed
  <2>3. ViewInv'
    BY <2>1, <2>2, ReopenStep DEF ReopenPush
  <2> QED BY <2>1, <2>2, <2>3, MountStep
<1>4. CASE Dismiss
  <2>1. ViewInv'
    BY <1>4 DEF Dismiss, CloseAgentView, ViewInv, ViewsTypeOK, HeldHasArrived, PillsAreTrue,
                PillHoldsLatest, UnreadMeansDisplaced
  <2> QED BY <1>4, <2>1, CacheKept DEF Dismiss
<1>5. ASSUME NEW c \in Card, Inspect(c) PROVE TabInv' /\ HydratedKept
  <2>1. {c} \in SUBSET Card
    OBVIOUS
  <2> QED BY <1>5, <2>1, HydrateStep, ViewKept DEF Inspect
<1>6. ASSUME NEW c \in Card, CardAnswered(c) PROVE TabInv' /\ HydratedKept
  BY <1>6, ReturnStep, ReleaseStep, RefusalStep, ViewKept DEF CardAnswered
<1>7. CASE DeckLands
  BY <1>7, SeedStep, ViewKept DEF DeckLands
<1>8. CASE Reconnected
  BY <1>8, ResetStep, ViewKept DEF Reconnected
<1>9. CASE UNCHANGED vars
  BY <1>9, ViewKept, CacheKept DEF vars
<1> QED BY <1>1, <1>2, <1>3, <1>4, <1>5, <1>6, <1>7, <1>8, <1>9 DEF Next

LEMMA TabInvariant == Spec => []TabInv
<1>1. Init => TabInv
  BY CacheStart, ViewStart DEF TabInv
<1>2. TabInv /\ [Next]_vars => TabInv'
  BY TabStep
<1> QED BY <1>1, <1>2, PTL DEF Spec

(* However pushes arrive, repeat and are looked back at, the state of a    *)
(* tab keeps its types: the history within its capacity, every attempt     *)
(* within its budget, no read of the empty id.                             *)
THEOREM TabIsTyped == Spec => []TypeOK
<1>1. TabInv => TypeOK
  BY DEF TabInv, ViewInv, CacheInv, TypeOK
<1> QED BY <1>1, TabInvariant, PTL

(* A pill re-opens the push of its kind that arrived last, and a kind is   *)
(* unread only behind a later push of another kind, for any number of      *)
(* kinds, arrivals and looks back, and any capacity of the history.        *)
THEOREM PillsStayTrue == Spec => []PillsAreTrue
<1>1. TabInv => PillsAreTrue
  BY DEF TabInv, ViewInv
<1> QED BY <1>1, TabInvariant, PTL

(* A card says loading only while a read of it runs, and a refusal says    *)
(* retryable exactly when its token and its budget allow another request,  *)
(* through reconnects with reads in flight.                                *)
THEOREM EntriesStayTrue == Spec => []EntriesAreTrue
<1>1. TabInv => EntriesAreTrue
  BY DEF TabInv, CacheInv, EntriesAreTrue
<1> QED BY <1>1, TabInvariant, PTL

(* No late refusal and no reconnect takes a record away.                   *)
THEOREM HydrationIsKept == Spec => HydratedIsKept
<1>1. TabInv /\ [Next]_vars => [\A c \in Card : cards[c] = Hydrated => cards'[c] = Hydrated]_vars
  BY TabStep
<1> QED BY <1>1, TabInvariant, PTL DEF Spec, HydratedIsKept

(* The two together, the property the run checks.                          *)
THEOREM CacheStaysHonest == Spec => CacheIsHonest
  BY EntriesStayTrue, HydrationIsKept DEF CacheIsHonest

-----------------------------------------------------------------------------
(* The history, through every step.                                        *)

HistoryInv ==
    /\ Good(history, sent)
    /\ OneTimeEach(sent)
    /\ \A p \in sent : p.id <= arrived

LEMMA HistoryStart == Init => HistoryInv
<1> SUFFICES ASSUME Init PROVE HistoryInv
  OBVIOUS
<1>1. history = <<>> /\ Len(history) = 0 /\ sent = {}
  BY DEF Init, ViewsInit
<1>2. Good(history, sent)
  BY <1>1 DEF Good, OneEach, NeighboursRank, Whole, InOrder, Newest
<1> QED BY <1>1, <1>2 DEF HistoryInv, OneTimeEach

\* Filing a push of the session, new or shown again.
LEMMA FilingStep ==
  ASSUME ViewInv, HistoryInv, NEW p, sent \cup {p} \subseteq Push, OneTimeEach(sent \cup {p})
  PROVE  Good(HistoryWith(history, p), sent \cup {p})
<1>1. history \in Seq(sent) /\ Len(history) <= HistoryCap /\ Good(history, sent)
  BY DEF ViewInv, ViewsTypeOK, HeldHasArrived, HistoryInv
<1>2. history \in Seq(sent \cup {p}) /\ p \in sent \cup {p}
  BY <1>1
<1>3. \/ Replaced(history, p, HistoryWith(history, p))
      \/ Filed(history, p, HistoryWith(history, p))
  BY <1>1, <1>2, HistoryWithFiles
<1> QED BY <1>1, <1>3, ReplacedStaysGood, FiledStaysGood

LEMMA LookingBackKeepsHistory ==
  ASSUME ViewInv, HistoryInv, NEW p \in sent, OpenAgentView(p), UNCHANGED <<arrived, sent>>
  PROVE  HistoryInv'
<1>1. history' = HistoryWith(history, p) /\ arrived' = arrived /\ sent' = sent
  BY DEF OpenAgentView
<1>2. sent \cup {p} = sent /\ sent \subseteq Push /\ OneTimeEach(sent)
  BY DEF HistoryInv, ViewInv, ViewsTypeOK
<1>3. Good(HistoryWith(history, p), sent)
  BY <1>2, FilingStep
<1> QED BY <1>1, <1>3 DEF HistoryInv, Good, OneEach, NeighboursRank, Whole, InOrder, Newest,
      OneTimeEach, RanksStrictly

LEMMA ArrivalKeepsHistory ==
  ASSUME ViewInv, HistoryInv, NEW p \in Push, ArrivePush(p)
  PROVE  HistoryInv'
<1>1. /\ history' = HistoryWith(history, p) /\ arrived' = arrived + 1 /\ sent' = sent \cup {p}
      /\ \/ p.id = arrived + 1
         \/ \E q \in sent : p = [q EXCEPT !.ref = arrived + 1]
  BY DEF ArrivePush, OpenAgentView
<1>2. /\ sent \subseteq Push /\ arrived \in Nat /\ OneTimeEach(sent)
      /\ \A q \in sent : q.id \in Nat /\ q.id <= arrived
  BY PushFacts, ViewsAssumption DEF HistoryInv, ViewInv, ViewsTypeOK
<1>3. \/ p.id = arrived + 1
      \/ \E q \in sent : p.id = q.id /\ p.ts = q.ts
  <2>1. ASSUME NEW q \in sent, p = [q EXCEPT !.ref = arrived + 1]
        PROVE  p.id = q.id /\ p.ts = q.ts
    BY <1>2, <2>1 DEF Push
  <2> QED BY <1>1, <2>1
<1>4. OneTimeEach(sent \cup {p})
  <2>1. ASSUME NEW x \in sent, x.id = p.id PROVE x.ts = p.ts
    BY <1>2, <1>3, <2>1 DEF OneTimeEach
  <2> QED BY <1>2, <2>1 DEF OneTimeEach
<1>5. Good(HistoryWith(history, p), sent \cup {p})
  BY <1>2, <1>4, FilingStep
<1>6. \A q \in sent \cup {p} : q.id <= arrived + 1
  BY <1>2, <1>3
<1> QED BY <1>1, <1>4, <1>5, <1>6 DEF HistoryInv, Good, OneEach, NeighboursRank, Whole,
      InOrder, Newest, OneTimeEach, RanksStrictly

LEMMA HistoryKept ==
  ASSUME HistoryInv, UNCHANGED <<history, sent, arrived>>
  PROVE  HistoryInv'
BY DEF HistoryInv, Good, OneEach, NeighboursRank, Whole, InOrder, Newest, OneTimeEach,
       RanksStrictly

LEMMA HistoryStep ==
  ASSUME ViewInv, HistoryInv, [Next]_vars
  PROVE  HistoryInv'
<1>1. CASE PushArrives
  <2>1. PICK p \in [id : 1 .. arrived + 1, kind : Kind, ts : Instant \cup {Unreadable},
                    ref : {arrived + 1}] : ArrivePush(p)
    BY <1>1 DEF PushArrives
  <2>2. arrived < MaxPushes /\ arrived \in 0 .. MaxPushes /\ MaxPushes \in Nat
    BY <2>1, ViewsAssumption DEF ArrivePush, ViewInv, ViewsTypeOK
  <2>3. p \in Push
    BY <2>2 DEF Push
  <2> QED BY <2>1, <2>3, ArrivalKeepsHistory
<1>2. ASSUME NEW k \in Kind, ClickPill(k) PROVE HistoryInv'
  <2>1. retained[k] \in sent
    BY <1>2, HeldIsPushed DEF ClickPill, ReopenAgentView
  <2> QED BY <1>2, <2>1, LookingBackKeepsHistory DEF ClickPill, ReopenAgentView
<1>3. CASE ClickEntry
  <2>1. PICK p \in Range(history) : ReopenPush(p)
    BY <1>3 DEF ClickEntry
  <2>2. p \in sent
    BY HeldIsPushed
  <2> QED BY <2>1, <2>2, LookingBackKeepsHistory DEF ReopenPush
<1>4. CASE Dismiss
  BY <1>4, HistoryKept DEF Dismiss, CloseAgentView
<1>5. ASSUME NEW c \in Card, Inspect(c) \/ CardAnswered(c) PROVE HistoryInv'
  BY <1>5, HistoryKept DEF Inspect, CardAnswered, viewVars
<1>6. CASE DeckLands \/ Reconnected \/ UNCHANGED vars
  BY <1>6, HistoryKept DEF DeckLands, Reconnected, vars, viewVars
<1> QED BY <1>1, <1>2, <1>3, <1>4, <1>5, <1>6 DEF Next

(* The history holds each envelope once, newest first, everything while    *)
(* there is room and the newest ones after that, for any capacity and any  *)
(* order in which pushes arrive, repeat and are looked at again            *)
(* (historyWith).                                                          *)
THEOREM HistoryStaysSound == Spec => []HistoryIsSound
<1>1. ViewInv /\ HistoryInv => HistoryIsSound
  <2> SUFFICES ASSUME ViewInv, HistoryInv PROVE HistoryIsSound
    OBVIOUS
  <2>1. /\ history \in Seq(sent) /\ Len(history) \in Nat /\ DOMAIN history = 1 .. Len(history)
        /\ \A i \in 1 .. Len(history) : history[i] \in sent
        /\ Range(history) = {history[i] : i \in 1 .. Len(history)}
    BY LenProperties, ElementOfSeq DEF ViewInv, HeldHasArrived, Range
  <2>2. NoEnvelopeTwice
    BY <2>1 DEF HistoryInv, Good, OneEach, NoEnvelopeTwice
  <2>3. NewestFirst
    <3> SUFFICES ASSUME NEW i \in 1 .. Len(history) - 1,
                        Unreadable \notin {history[i].ts, history[i + 1].ts}
                 PROVE  history[i].ts >= history[i + 1].ts
      BY DEF NewestFirst
    <3>1. i \in 1 .. Len(history) /\ i + 1 \in 1 .. Len(history)
      BY <2>1
    <3> QED BY <3>1 DEF HistoryInv, Good, NeighboursRank
  <2>4. KeptBelowCap
    <3> SUFFICES ASSUME Len(history) < HistoryCap
                 PROVE  {p.id : p \in sent} = {p.id : p \in Range(history)}
      BY DEF KeptBelowCap
    <3>1. \A p \in sent : \E q \in Range(history) : q.id = p.id
      BY <2>1 DEF HistoryInv, Good, Whole
    <3>2. \A q \in Range(history) : q \in sent
      BY <2>1
    <3> QED BY <3>1, <3>2
  <2>5. HoldsTheNewest
    BY <2>1 DEF HistoryInv, Good, Newest, HoldsTheNewest
  <2> QED BY <2>2, <2>3, <2>4, <2>5 DEF HistoryIsSound
<1>2. TabInv /\ HistoryInv /\ [Next]_vars => HistoryInv'
  BY HistoryStep DEF TabInv
<1>3. TabInv => ViewInv
  BY DEF TabInv
<1> QED BY <1>1, <1>2, <1>3, HistoryStart, TabInvariant, PTL DEF Spec
=============================================================================
