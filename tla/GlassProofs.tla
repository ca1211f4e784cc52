---------------------------- MODULE GlassProofs ----------------------------
(***************************************************************************)
(* Proofs about Glass, for every set of decks and every value of the       *)
(* bounds.                                                                 *)
(*                                                                         *)
(* The argument: what a tab does depends on the few requests that still    *)
(* own their generation, so the functions of GlassTab are first summed up  *)
(* by what they do to those (Boots, Polls) and to the fields beside them.  *)
(* A tab is Good when its account of its poll, its probe, its glass and    *)
(* its boot is true of the slot's history and of the database; every       *)
(* function keeps it so.  Nothing is missed for good because on a live     *)
(* socket the glass either shows what it should, or is about to ask, or    *)
(* has a read under way that will bring it (Tracks for the slot, Shows for *)
(* the deck in it), unless a frame that says so is still on its way: the   *)
(* slot and its frame change in one step, and a socket that opens has the  *)
(* tab ask again.                                                          *)
(***************************************************************************)
EXTENDS Glass, FiniteSetTheorems, SequenceTheorems, TLAPS

-----------------------------------------------------------------------------
(* What the functions on a tab do. *)

Read == [kind: Kinds, deck: Deck \cup {NoDeck}, turn: Nat, ver: Nat,
         answer: Answer, current: BOOLEAN]

\* The requests that own the store they are of: the boot's, the poll's.
Own(t, kinds) == {r \in t.reads : r.current /\ r.kind \in kinds}
Boots(t) == Own(t, BootKinds)
Polls(t) == Own(t, {"poll"})

\* A request for a deck names one, and so does a glass that shows one.
NamesItsDeck(r) == r.kind \in {"detail", "refetch"} => r.deck \in Deck

TabOK(t) ==
    /\ t \in Tab
    /\ t.glass.status = "deck" => t.glass.deck \in Deck
    /\ \A r \in t.reads : NamesItsDeck(r)

\* A step leaves the poll, the boot, the probe or the connection alone.
SamePoll(t, u) == /\ u.panel = t.panel /\ u.emitted = t.emitted
                  /\ u.timer = t.timer /\ Polls(u) = Polls(t)
SameBoot(t, u) == /\ u.glass = t.glass /\ u.settled = t.settled
                  /\ u.redrive = t.redrive /\ u.updating = t.updating
                  /\ Boots(u) = Boots(t)
SameProbe(t, u) == u.probeSpent = t.probeSpent /\ u.probeArmed = t.probeArmed
SameConn(t, u) == u.conn = t.conn /\ u.failed = t.failed

\* Nobody owns a superseded kind any more; nothing else changes.
LEMMA SupersedeDoes ==
    ASSUME NEW t, TabOK(t), NEW kinds \in SUBSET Kinds
    PROVE  /\ Supersede(t, kinds) = [t EXCEPT !.reads = Supersede(t, kinds).reads]
           /\ TabOK(Supersede(t, kinds))
           /\ \A k : Own(Supersede(t, kinds), k) = Own(t, k \ kinds)
<1> DEFINE answered == {r \in t.reads : r.kind \in kinds /\ r.answer # "pending"}
           S == {r \in t.reads : r.kind \notin kinds}
                    \cup {[r EXCEPT !.current = FALSE] : r \in answered}
           u == [t EXCEPT !.reads = S]
<1>1. Supersede(t, kinds) = u
  BY DEF Supersede
<1>2. t \in Tab /\ t.reads \subseteq Read
  BY DEF TabOK, Tab, Read
<1>3. \A r \in answered : LET q == [r EXCEPT !.current = FALSE]
        IN q \in Read /\ NamesItsDeck(q) /\ ~ q.current
  BY <1>2 DEF Read, NamesItsDeck, TabOK
<1>4. S \subseteq Read
  BY <1>2, <1>3
<1>5. u \in Tab /\ u.reads = S /\ u.glass = t.glass
  BY <1>2, <1>4 DEF Tab, Read
<1>6. TabOK(u)
  BY <1>3, <1>5 DEF TabOK
<1>7. \A k : Own(u, k) = Own(t, k \ kinds)
  BY <1>3, <1>5 DEF Own
<1>8. QED
  BY <1>1, <1>5, <1>6, <1>7

\* What a new request is.
LEMMA AskIs ==
    ASSUME NEW k \in Kinds, NEW d \in Deck \cup {NoDeck}, NEW n \in Nat
    PROVE  /\ Ask(k, d, n) \in Read
           /\ Ask(k, d, n).kind = k /\ Ask(k, d, n).deck = d /\ Ask(k, d, n).turn = n
           /\ Ask(k, d, n).answer = "pending" /\ Ask(k, d, n).current
  BY DEF Ask, Read, Answer

\* A request that is issued owns its kind beside those that did.
LEMMA IssueDoes ==
    ASSUME NEW t, TabOK(t), NEW r \in Read, NamesItsDeck(r), r.current
    PROVE  /\ Issue(t, r) = [t EXCEPT !.reads = Issue(t, r).reads]
           /\ TabOK(Issue(t, r))
           /\ \A k : Own(Issue(t, r), k) = Own(t, k) \cup (IF r.kind \in k THEN {r} ELSE {})
<1> DEFINE u == [t EXCEPT !.reads = @ \cup {r}]
<1>1. u \in Tab /\ u.reads = t.reads \cup {r} /\ u.glass = t.glass
  BY DEF TabOK, Tab, Read
<1>2. Issue(t, r) = u
  BY DEF Issue
<1>3. TabOK(u)
  BY <1>1 DEF TabOK
<1>4. \A k : Own(u, k) = Own(t, k) \cup (IF r.kind \in k THEN {r} ELSE {})
  BY <1>1 DEF Own
<1>5. QED
  BY <1>1, <1>2, <1>3, <1>4

\* A restart of the boot leaves one request for the active deck, on the glass's
\* turn, and no deferred re-drive.
LEMMA RestartBootDoes ==
    ASSUME NEW t, TabOK(t)
    PROVE  LET u == RestartBoot(t)
           IN /\ TabOK(u) /\ u.glass = t.glass
              /\ SamePoll(t, u) /\ SameProbe(t, u) /\ SameConn(t, u)
              /\ ~ u.settled /\ ~ u.redrive /\ u.updating
              /\ Boots(u) = {Ask("active", NoDeck, t.glass.turn)}
<1> DEFINE r == Ask("active", NoDeck, t.glass.turn)
           s == Supersede(t, BootKinds)
           v == [s EXCEPT !.redrive = FALSE, !.settled = FALSE, !.updating = TRUE]
           u == RestartBoot(t)
<1>1. r \in Read /\ NamesItsDeck(r) /\ r.current /\ r.kind = "active"
  BY AskIs DEF TabOK, Tab, NamesItsDeck, Kinds, BootKinds
<1>2. /\ s = [t EXCEPT !.reads = s.reads] /\ TabOK(s)
      /\ \A k : Own(s, k) = Own(t, k \ BootKinds)
  BY SupersedeDoes DEF Kinds
<1>3. /\ TabOK(v) /\ v.reads = s.reads /\ v.glass = t.glass /\ v.panel = t.panel
      /\ v.emitted = t.emitted /\ v.timer = t.timer /\ SameProbe(t, v) /\ SameConn(t, v)
      /\ ~ v.settled /\ ~ v.redrive /\ v.updating
  <2> HIDE DEF s
  <2>1. QED
    BY <1>2 DEF TabOK, Tab, SameProbe, SameConn
<1>4. u = Issue(v, r)
  BY DEF RestartBoot
<1>5. /\ u = [v EXCEPT !.reads = u.reads] /\ TabOK(u)
      /\ \A k : Own(u, k) = Own(v, k) \cup (IF r.kind \in k THEN {r} ELSE {})
  <2> HIDE DEF v, u, r
  <2>1. QED
    BY <1>1, <1>3, <1>4, IssueDoes
<1>6. \A k : Own(v, k) = Own(t, k \ BootKinds)
  BY <1>2, <1>3 DEF Own
<1>7. Boots(u) = {r} /\ Polls(u) = Polls(t)
  <2> HIDE DEF v, u, r, s
  <2>1. BootKinds \ BootKinds = {} /\ {"poll"} \ BootKinds = {"poll"}
    BY DEF BootKinds
  <2>2. Own(t, {}) = {}
    BY DEF Own
  <2>3. r.kind \in BootKinds /\ r.kind \notin {"poll"}
    BY <1>1 DEF BootKinds
  <2>4. QED
    BY <1>5, <1>6, <2>1, <2>2, <2>3 DEF Boots, Polls
<1>8. /\ u.glass = v.glass /\ u.panel = v.panel /\ u.emitted = v.emitted /\ u.timer = v.timer
      /\ SameProbe(v, u) /\ SameConn(v, u)
      /\ u.settled = v.settled /\ u.redrive = v.redrive /\ u.updating = v.updating
  <2> HIDE DEF v, u, r, s
  <2>1. QED
    BY <1>3, <1>5 DEF TabOK, Tab, SameProbe, SameConn
<1>9. QED
  <2> HIDE DEF v
  <2>1. QED
    BY <1>3, <1>5, <1>7, <1>8 DEF SamePoll, SameProbe, SameConn

\* A refetch of a settled boot leaves one request for the deck on the glass.
LEMMA RefetchDoes ==
    ASSUME NEW t, TabOK(t), t.settled, t.glass.deck \in Deck
    PROVE  LET u == Refetch(t)
           IN /\ TabOK(u) /\ u.glass = t.glass
              /\ SamePoll(t, u) /\ SameProbe(t, u) /\ SameConn(t, u)
              /\ u.settled /\ u.redrive = t.redrive /\ u.updating
              /\ Boots(u) = {Ask("refetch", t.glass.deck, t.glass.turn)}
<1> DEFINE r == Ask("refetch", t.glass.deck, t.glass.turn)
           s == Supersede(t, BootKinds)
           v == [s EXCEPT !.updating = TRUE]
           u == Refetch(t)
<1>1. r \in Read /\ NamesItsDeck(r) /\ r.current /\ r.kind = "refetch"
  BY AskIs DEF TabOK, Tab, NamesItsDeck, Kinds, BootKinds
<1>2. /\ s = [t EXCEPT !.reads = s.reads] /\ TabOK(s)
      /\ \A k : Own(s, k) = Own(t, k \ BootKinds)
  BY SupersedeDoes DEF Kinds
<1>3. /\ TabOK(v) /\ v.reads = s.reads /\ v.glass = t.glass /\ v.panel = t.panel
      /\ v.emitted = t.emitted /\ v.timer = t.timer /\ SameProbe(t, v) /\ SameConn(t, v)
      /\ v.settled /\ v.redrive = t.redrive /\ v.updating
  <2> HIDE DEF s
  <2>1. QED
    BY <1>2 DEF TabOK, Tab, SameProbe, SameConn
<1>4. u = Issue(v, r)
  BY DEF Refetch
<1>5. /\ u = [v EXCEPT !.reads = u.reads] /\ TabOK(u)
      /\ \A k : Own(u, k) = Own(v, k) \cup (IF r.kind \in k THEN {r} ELSE {})
  <2> HIDE DEF v, u, r
  <2>1. QED
    BY <1>1, <1>3, <1>4, IssueDoes
<1>6. \A k : Own(v, k) = Own(t, k \ BootKinds)
  BY <1>2, <1>3 DEF Own
<1>7. Boots(u) = {r} /\ Polls(u) = Polls(t)
  <2> HIDE DEF v, u, r, s
  <2>1. BootKinds \ BootKinds = {} /\ {"poll"} \ BootKinds = {"poll"}
    BY DEF BootKinds
  <2>2. Own(t, {}) = {}
    BY DEF Own
  <2>3. r.kind \in BootKinds /\ r.kind \notin {"poll"}
    BY <1>1 DEF BootKinds
  <2>4. QED
    BY <1>5, <1>6, <2>1, <2>2, <2>3 DEF Boots, Polls
<1>8. /\ u.glass = v.glass /\ u.panel = v.panel /\ u.emitted = v.emitted /\ u.timer = v.timer
      /\ SameProbe(v, u) /\ SameConn(v, u)
      /\ u.settled = v.settled /\ u.redrive = v.redrive /\ u.updating = v.updating
  <2> HIDE DEF v, u, r, s
  <2>1. QED
    BY <1>3, <1>5 DEF TabOK, Tab, SameProbe, SameConn
<1>9. QED
  <2> HIDE DEF v
  <2>1. QED
    BY <1>3, <1>5, <1>7, <1>8 DEF SamePoll, SameProbe, SameConn

\* A restart of the poll leaves one request of a poll that has emitted nothing.
LEMMA RestartPollDoes ==
    ASSUME NEW t, TabOK(t)
    PROVE  LET u == RestartPoll(t)
           IN /\ TabOK(u) /\ SameBoot(t, u) /\ SameProbe(t, u) /\ SameConn(t, u)
              /\ u.panel = t.panel /\ u.emitted = "nothing" /\ ~ u.timer
              /\ Polls(u) = {Ask("poll", NoDeck, 0)}
<1> DEFINE r == Ask("poll", NoDeck, 0)
           s == Supersede(t, {"poll"})
           v == [s EXCEPT !.timer = FALSE, !.emitted = "nothing"]
           u == RestartPoll(t)
<1>1. r \in Read /\ NamesItsDeck(r) /\ r.current /\ r.kind = "poll"
  BY AskIs DEF NamesItsDeck, Kinds
<1>2. /\ s = [t EXCEPT !.reads = s.reads] /\ TabOK(s)
      /\ \A k : Own(s, k) = Own(t, k \ {"poll"})
  BY SupersedeDoes DEF Kinds
<1>3. /\ TabOK(v) /\ v.reads = s.reads /\ v.panel = t.panel
      /\ v.emitted = "nothing" /\ ~ v.timer /\ SameProbe(t, v) /\ SameConn(t, v)
      /\ v.glass = t.glass /\ v.settled = t.settled /\ v.redrive = t.redrive
      /\ v.updating = t.updating
  <2> HIDE DEF s
  <2>1. QED
    BY <1>2 DEF TabOK, Tab, SameProbe, SameConn
<1>4. u = Issue(v, r)
  BY DEF RestartPoll
<1>5. /\ u = [v EXCEPT !.reads = u.reads] /\ TabOK(u)
      /\ \A k : Own(u, k) = Own(v, k) \cup (IF r.kind \in k THEN {r} ELSE {})
  <2> HIDE DEF v, u, r
  <2>1. QED
    BY <1>1, <1>3, <1>4, IssueDoes
<1>6. \A k : Own(v, k) = Own(t, k \ {"poll"})
  BY <1>2, <1>3 DEF Own
<1>7. Polls(u) = {r} /\ Boots(u) = Boots(t)
  <2> HIDE DEF v, u, r, s
  <2>1. BootKinds \ {"poll"} = BootKinds /\ {"poll"} \ {"poll"} = {}
    BY DEF BootKinds
  <2>2. Own(t, {}) = {}
    BY DEF Own
  <2>3. r.kind \notin BootKinds /\ r.kind \in {"poll"}
    BY <1>1 DEF BootKinds
  <2>4. QED
    BY <1>5, <1>6, <2>1, <2>2, <2>3 DEF Boots, Polls
<1>8. /\ u.glass = v.glass /\ u.panel = v.panel /\ u.emitted = v.emitted /\ u.timer = v.timer
      /\ SameProbe(v, u) /\ SameConn(v, u)
      /\ u.settled = v.settled /\ u.redrive = v.redrive /\ u.updating = v.updating
  <2> HIDE DEF v, u, r, s
  <2>1. QED
    BY <1>3, <1>5 DEF TabOK, Tab, SameProbe, SameConn
<1>9. QED
  <2> HIDE DEF v
  <2>1. QED
    BY <1>3, <1>5, <1>7, <1>8 DEF SameBoot, SameProbe, SameConn

\* An answer that has been heard is gone, and nothing else.
LEMMA ForgetDoes ==
    ASSUME NEW t, TabOK(t), NEW r \in Read
    PROVE  LET u == Forget(t, r)
           IN /\ TabOK(u)
              /\ u.glass = t.glass /\ u.settled = t.settled /\ u.redrive = t.redrive
              /\ u.updating = t.updating /\ u.panel = t.panel /\ u.emitted = t.emitted
              /\ u.timer = t.timer /\ SameProbe(t, u) /\ SameConn(t, u)
              /\ \A k : Own(u, k) = Own(t, k) \ {r}
<1> DEFINE q == [r EXCEPT !.current = FALSE]
           u == [t EXCEPT !.reads = @ \ {r, q}]
<1>1. u = Forget(t, r)
  BY DEF Forget
<1>2. /\ u \in Tab /\ u.reads = t.reads \ {r, q} /\ u.glass = t.glass
      /\ u.settled = t.settled /\ u.redrive = t.redrive
      /\ u.updating = t.updating /\ u.panel = t.panel /\ u.emitted = t.emitted
      /\ u.timer = t.timer /\ SameProbe(t, u) /\ SameConn(t, u)
  BY DEF TabOK, Tab, SameProbe, SameConn
<1>3. ~ q.current
  BY DEF Read
<1>4. TabOK(u)
  BY <1>2 DEF TabOK
<1>5. \A k : Own(u, k) = Own(t, k) \ {r}
  <2> HIDE DEF u, q
  <2>1. QED
    BY <1>2, <1>3 DEF Own
<1>6. QED
  <2> HIDE DEF u
  <2>1. QED
    BY <1>1, <1>2, <1>4, <1>5

\* What a boot may paint.
GlassOf == [status: {"none", "refused", "deck"}, deck: Deck \cup {NoDeck},
            turn: Nat, ver: Nat]

\* A boot that settles paints, and then either carries out the re-drive deferred
\* to it, or probes the stopped poll for its refusal, or is done.
LEMMA SettleDoes ==
    ASSUME NEW t, TabOK(t), NEW r \in Read, Boots(t) = {r}, r.answer # "pending",
           NEW g \in GlassOf, g.status = "deck" => g.deck \in Deck
    PROVE  LET u == Forget(Settle(t, r, g), r)
               still == t.probeSpent /\ g.status = "refused"
           IN /\ TabOK(u) /\ u.glass = g /\ u.panel = t.panel /\ SameConn(t, u)
              /\ ~ u.redrive
              /\ \/ /\ t.redrive
                    /\ ~ u.settled /\ u.updating
                    /\ Boots(u) = {Ask("active", NoDeck, g.turn)}
                    /\ SamePoll(t, u)
                    /\ u.probeSpent = still /\ u.probeArmed = t.probeArmed
                 \/ /\ ~ t.redrive
                    /\ g.status = "refused" /\ ~ t.probeSpent /\ t.panel \notin Retrying
                    /\ u.settled /\ ~ u.updating /\ Boots(u) = {}
                    /\ u.emitted = "nothing" /\ ~ u.timer
                    /\ Polls(u) = {Ask("poll", NoDeck, 0)}
                    /\ u.probeSpent /\ u.probeArmed
                 \/ /\ ~ t.redrive
                    /\ g.status = "refused" => t.probeSpent \/ t.panel \in Retrying
                    /\ u.settled /\ ~ u.updating /\ Boots(u) = {} /\ SamePoll(t, u)
                    /\ u.probeSpent = still /\ u.probeArmed = t.probeArmed
<1> DEFINE s == [t EXCEPT !.glass = g, !.settled = TRUE,
                          !.probeSpent = @ /\ g.status = "refused"]
           armed == [s EXCEPT !.probeSpent = TRUE, !.probeArmed = TRUE]
           still == t.probeSpent /\ g.status = "refused"
           w == OnUpdate(t, g)
           x == Settle(t, r, g)
           u == Forget(x, r)
<1>0. t \in Tab /\ still \in BOOLEAN
  BY DEF TabOK, Tab
<1>1. /\ TabOK(s) /\ s.reads = t.reads /\ s.glass = g /\ s.settled
      /\ s.probeSpent = still /\ s.probeArmed = t.probeArmed /\ s.redrive = t.redrive
      /\ s.updating = t.updating /\ s.panel = t.panel /\ s.emitted = t.emitted
      /\ s.timer = t.timer /\ SameConn(t, s)
  <2>1. /\ s.reads = t.reads /\ s.glass = g /\ s.settled
        /\ s.probeSpent = still /\ s.probeArmed = t.probeArmed /\ s.redrive = t.redrive
        /\ s.updating = t.updating /\ s.panel = t.panel /\ s.emitted = t.emitted
        /\ s.timer = t.timer /\ SameConn(t, s)
    BY <1>0 DEF Tab, SameConn
  <2>2. s \in Tab
    <3> DEFINE y == [t EXCEPT !.glass = g, !.settled = TRUE]
    <3>1. y \in Tab
      BY <1>0 DEF Tab, GlassOf
    <3>2. [y EXCEPT !.probeSpent = still] \in Tab
      <4> HIDE DEF y, still
      <4>1. QED
        BY <1>0, <3>1 DEF Tab
    <3>3. s = [y EXCEPT !.probeSpent = still]
      BY <1>0 DEF Tab
    <3>4. QED
      BY <3>2, <3>3
  <2> HIDE DEF s
  <2>3. QED
    BY <2>1, <2>2 DEF TabOK
<1>2. /\ TabOK(armed) /\ armed.reads = t.reads /\ armed.glass = g /\ armed.settled
      /\ armed.probeSpent /\ armed.probeArmed /\ armed.redrive = t.redrive
      /\ armed.updating = t.updating /\ armed.panel = t.panel /\ SameConn(t, armed)
  <2> HIDE DEF s
  <2>1. /\ armed.reads = t.reads /\ armed.glass = g /\ armed.settled
        /\ armed.probeSpent /\ armed.probeArmed /\ armed.redrive = t.redrive
        /\ armed.updating = t.updating /\ armed.panel = t.panel /\ SameConn(t, armed)
    BY <1>1 DEF TabOK, Tab, SameConn
  <2>2. armed \in Tab
    BY <1>1 DEF TabOK, Tab
  <2> HIDE DEF armed
  <2>3. QED
    BY <1>1, <2>1, <2>2 DEF TabOK
<1>3. /\ Boots(s) = Boots(t) /\ Polls(s) = Polls(t)
      /\ Boots(armed) = Boots(t)
  BY <1>1, <1>2 DEF Boots, Polls, Own
<1>4. w = IF s.redrive THEN RestartBoot(s)
          ELSE IF g.status = "refused" /\ ~ s.probeSpent /\ s.panel \notin Retrying
               THEN RestartPollIfStopped(armed) ELSE s
  BY DEF OnUpdate, RefusedPanel, Retrying
<1>5. x = IF r \in w.reads THEN [w EXCEPT !.updating = FALSE] ELSE w
  BY DEF Settle, CloseWindow
<1>6. \A y : TabOK(y) => LET z == [y EXCEPT !.updating = FALSE]
             IN /\ TabOK(z) /\ z.glass = y.glass /\ z.settled = y.settled
                /\ z.redrive = y.redrive /\ ~ z.updating /\ SamePoll(y, z)
                /\ SameProbe(y, z) /\ SameConn(y, z) /\ Boots(z) = Boots(y)
  BY DEF TabOK, Tab, SamePoll, SameProbe, SameConn, Boots, Polls, Own
<1>7. \A y : TabOK(y) => LET z == Forget(y, r)
             IN /\ TabOK(z) /\ z.glass = y.glass /\ z.settled = y.settled
                /\ z.redrive = y.redrive /\ z.updating = y.updating
                /\ z.panel = y.panel /\ z.emitted = y.emitted /\ z.timer = y.timer
                /\ SameProbe(y, z) /\ SameConn(y, z)
                /\ Boots(z) = Boots(y) \ {r} /\ Polls(z) = Polls(y) \ {r}
  BY ForgetDoes DEF Boots, Polls
<1>8. \A y : r \notin Polls(y)
  BY DEF Boots, Polls, Own, BootKinds
<1>9. \A y : r \in Boots(y) => r \in y.reads
  BY DEF Boots, Own
<1>10. \A y : r \in y.reads => r \in Boots(y)
  BY DEF Boots, Own
<1> HIDE DEF s, armed
<1>11. CASE t.redrive
  <2>1. w = RestartBoot(s)
    BY <1>1, <1>4, <1>11
  <2>2. /\ TabOK(w) /\ w.glass = g /\ SamePoll(s, w) /\ SameProbe(s, w) /\ SameConn(s, w)
        /\ ~ w.settled /\ ~ w.redrive /\ w.updating
        /\ Boots(w) = {Ask("active", NoDeck, g.turn)}
    BY <1>1, <2>1, RestartBootDoes
  <2>3. r \notin w.reads
    BY <1>10, <2>2, AskIs DEF GlassOf, Kinds, BootKinds
  <2>4. x = w
    BY <1>5, <2>3
  <2>5. Boots(u) = Boots(w) /\ Polls(u) = Polls(w)
    <3>1. Boots(u) = Boots(w) \ {r} /\ Polls(u) = Polls(w) \ {r}
      BY <1>7, <2>2, <2>4
    <3>2. r \notin Boots(w) /\ r \notin Polls(w)
      BY <1>8, <1>9, <2>3
    <3>3. QED
      BY <3>1, <3>2
  <2>6. QED
    BY <1>1, <1>3, <1>7, <1>11, <2>2, <2>4, <2>5 DEF SamePoll, SameProbe, SameConn
<1>12. CASE ~ t.redrive /\ g.status = "refused" /\ ~ t.probeSpent /\ t.panel \notin Retrying
  <2>1. w = RestartPoll(armed)
    BY <1>1, <1>2, <1>4, <1>12 DEF RestartPollIfStopped
  <2>2. /\ TabOK(w) /\ SameBoot(armed, w) /\ SameProbe(armed, w) /\ SameConn(armed, w)
        /\ w.panel = t.panel /\ w.emitted = "nothing" /\ ~ w.timer
        /\ Polls(w) = {Ask("poll", NoDeck, 0)}
    BY <1>2, <2>1, RestartPollDoes
  <2>3. x = [w EXCEPT !.updating = FALSE]
    BY <1>3, <1>5, <1>9, <2>2 DEF SameBoot
  <2>4. /\ TabOK(x) /\ x.glass = w.glass /\ x.settled = w.settled
        /\ x.redrive = w.redrive /\ ~ x.updating /\ SamePoll(w, x)
        /\ SameProbe(w, x) /\ SameConn(w, x) /\ Boots(x) = Boots(w)
    BY <1>6, <2>2, <2>3
  <2>5. Boots(u) = {} /\ Polls(u) = Polls(w)
    BY <1>3, <1>7, <1>8, <2>2, <2>4 DEF SameBoot, SamePoll
  <2>6. /\ TabOK(u) /\ u.glass = x.glass /\ u.settled = x.settled /\ u.redrive = x.redrive
        /\ u.updating = x.updating /\ u.panel = x.panel /\ u.emitted = x.emitted
        /\ u.timer = x.timer /\ SameProbe(x, u) /\ SameConn(x, u)
    BY <1>7, <2>4
  <2>7. /\ TabOK(u) /\ u.glass = g /\ u.panel = t.panel /\ SameConn(t, u) /\ ~ u.redrive
        /\ u.settled /\ ~ u.updating /\ u.emitted = "nothing" /\ ~ u.timer
        /\ u.probeSpent /\ u.probeArmed
    BY <1>2, <1>12, <2>2, <2>4, <2>6 DEF SameBoot, SamePoll, SameProbe, SameConn
  <2>8. QED
    BY <1>12, <2>2, <2>5, <2>7
<1>13. CASE ~ t.redrive /\ (g.status = "refused" => t.probeSpent \/ t.panel \in Retrying)
  <2>1. w = s
    BY <1>1, <1>4, <1>13
  <2>2. x = [s EXCEPT !.updating = FALSE]
    BY <1>3, <1>5, <1>9, <2>1
  <2>3. /\ TabOK(x) /\ x.glass = s.glass /\ x.settled = s.settled
        /\ x.redrive = s.redrive /\ ~ x.updating /\ SamePoll(s, x)
        /\ SameProbe(s, x) /\ SameConn(s, x) /\ Boots(x) = Boots(s)
    BY <1>1, <1>6, <2>2
  <2>4. Boots(u) = {} /\ Polls(u) = Polls(t)
    BY <1>3, <1>7, <1>8, <2>3 DEF SamePoll
  <2>5. QED
    BY <1>1, <1>3, <1>7, <1>13, <2>3, <2>4 DEF SamePoll, SameProbe, SameConn
<1>14. QED
  BY <1>11, <1>12, <1>13

-----------------------------------------------------------------------------
(* A good tab: its account of itself is true of the slot's history s, of   *)
(* the decks c, and after n spells of refusals, b saying one is on.        *)

AtMostOne(S) == \A r, q \in S : r = q

World(s, c, n, b) ==
    /\ s \in Seq(Deck \cup {NoDeck}) /\ s # <<>>
    /\ c \in [Deck -> [ver: Nat, exists: BOOLEAN]]
    /\ n \in Nat /\ b \in BOOLEAN

\* One poll at a time, on while its panel says so; a probe waits for its answer,
\* which in one spell says that the spell is over.
PollSound(t, n, b) ==
    /\ AtMostOne(Polls(t))
    /\ ~ (t.timer /\ Polls(t) # {})
    /\ t.panel \in Retrying => t.timer \/ Polls(t) # {}
    /\ t.emitted \in {"nothing", t.panel}
    /\ t.probeArmed => t.emitted = "nothing" /\ (t.timer \/ Polls(t) # {})
    /\ n <= 1 /\ t.probeArmed => \A r \in Polls(t) : r.answer = "decks" => ~ b

\* The glass shows a deck the slot has held, in a version it has had.
GlassSound(t, s, c) ==
    /\ t.glass.turn \in 1..Len(s)
    /\ t.glass.deck \in {s[t.glass.turn], NoDeck}
    /\ t.glass.status = "deck" => t.glass.ver <= c[t.glass.deck].ver

\* A probe is spent on a refusal; spent and no longer awaited, the spell is over.
ProbeSound(t, n, b) ==
    /\ t.probeSpent => t.glass.status = "refused"
    /\ t.probeSpent /\ t.panel # "no-active-deck" => t.probeArmed
    /\ n = 0 => ~ b /\ ~ t.probeArmed /\ t.glass.status # "refused"
    /\ n <= 1 /\ t.probeSpent /\ ~ t.probeArmed => ~ b

\* What a read of the boot may bring: nothing older than the glass, and a refusal
\* after the probe was spent only to a boot that is to be re-driven.
ReadSound(r, t, s, c, n) ==
    /\ t.glass.turn <= r.turn /\ r.turn <= Len(s)
    /\ r.kind = "refetch" => /\ r.turn = t.glass.turn /\ r.deck = t.glass.deck
                             /\ t.glass.status = "deck"
    /\ r.kind = "detail" => r.deck = s[r.turn]
    /\ r.answer = "id" => r.kind = "active" /\ r.deck = s[r.turn]
    /\ r.answer = "missing" => r.kind # "active" /\ ~ c[r.deck].exists
    /\ r.answer = "ok" =>
          /\ r.kind # "active" /\ r.ver <= c[r.deck].ver
          /\ t.glass.status = "deck" /\ t.glass.deck = r.deck => t.glass.ver <= r.ver
    /\ r.answer = "unavailable" =>
          /\ n # 0
          /\ n <= 1 /\ t.probeSpent /\ ~ t.probeArmed => t.redrive

\* One boot at a time, marked while it reads, settled when it has; a refusal that
\* has settled on a healthy poll has had its probe.
BootSound(t, s, c, n) ==
    /\ AtMostOne(Boots(t))
    /\ t.updating <=> Boots(t) # {}
    /\ ~ t.settled <=> \E r \in Boots(t) : r.kind \in {"active", "detail"}
    /\ t.redrive => ~ t.settled
    /\ t.glass.status = "booting" => ~ t.settled
    /\ t.glass.status = "refused" /\ t.settled /\ t.panel = "no-active-deck" => t.probeSpent
    /\ n <= 1 /\ t.probeSpent /\ ~ t.probeArmed => ~ t.settled
    /\ \A r \in Boots(t) : ReadSound(r, t, s, c, n)

Good(t, s, c, n, b) ==
    /\ TabOK(t)
    /\ PollSound(t, n, b) /\ GlassSound(t, s, c) /\ ProbeSound(t, n, b)
    /\ BootSound(t, s, c, n)

\* A read of a deck that is not answered yet, or answered as the deck now is.
Fresh(r, c) ==
    \/ r.answer = "pending"
    \/ r.answer = "missing" /\ ~ c[r.deck].exists
    \/ r.answer = "ok" /\ c[r.deck].exists /\ r.ver = c[r.deck].ver

\* The tab is about to ask for the slot, or has asked and will hear its last value.
Asking(t, s) ==
    \/ t.redrive
    \/ \E r \in Boots(t) :
          r.kind = "active" /\ (r.answer = "pending" \/ (r.answer = "id" /\ r.turn = Len(s)))

\* What makes the glass follow the slot is under way, or has been done.
Tracks(t, s) ==
    \/ Asking(t, s)
    \/ \E r \in Boots(t) : r.kind = "detail" /\ r.turn = Len(s)
    \/ t.settled /\ t.glass.turn = Len(s)

\* What a glass should show.
Wanted(s, c) ==
    LET d == s[Len(s)]
    IN IF d # NoDeck /\ c[d].exists THEN Loaded(d, Len(s), c[d].ver) ELSE Blank(Len(s))

\* What makes the glass show the deck as it is is under way, or has been done.
Shows(t, s, c) ==
    \/ Asking(t, s)
    \/ \E r \in Boots(t) : r.kind \in {"detail", "refetch"} /\ r.turn = Len(s) /\ Fresh(r, c)
    \/ t.settled /\ t.glass = Wanted(s, c)

Keeps(t, u, s, c, n, b) ==
    /\ Good(u, s, c, n, b)
    /\ Tracks(t, s) => Tracks(u, s)
    /\ Shows(t, s, c) => Shows(u, s, c)

-----------------------------------------------------------------------------
(* Every function keeps a tab good and on its way.                         *)

\* Whatever the boot was, a restarted one is sound, and asks.
LEMMA BootRestarted ==
    ASSUME NEW s, NEW c, NEW n, NEW b, World(s, c, n, b), NEW t, TabOK(t),
           PollSound(t, n, b), GlassSound(t, s, c), ProbeSound(t, n, b)
    PROVE  LET u == RestartBoot(t)
           IN /\ Good(u, s, c, n, b) /\ Asking(u, s)
              /\ u.glass = t.glass
<1> DEFINE u == RestartBoot(t)
           r == Ask("active", NoDeck, t.glass.turn)
<1>1. /\ TabOK(u) /\ u.glass = t.glass
      /\ SamePoll(t, u) /\ SameProbe(t, u)
      /\ ~ u.settled /\ ~ u.redrive /\ u.updating
      /\ Boots(u) = {r}
  BY RestartBootDoes
<1>2. r.kind = "active" /\ r.answer = "pending" /\ r.turn = t.glass.turn
  BY DEF Ask
<1>3. t.glass.turn \in Nat /\ Len(s) \in Nat
  BY DEF TabOK, Tab, World
<1> HIDE DEF u, r
<1>4. PollSound(u, n, b) /\ GlassSound(u, s, c) /\ ProbeSound(u, n, b)
  BY <1>1 DEF PollSound, GlassSound, ProbeSound, SamePoll, SameProbe
<1>5. ReadSound(r, u, s, c, n)
  BY <1>1, <1>2, <1>3 DEF ReadSound, GlassSound
<1>6. BootSound(u, s, c, n)
  BY <1>1, <1>2, <1>5 DEF BootSound, AtMostOne
<1>7. Asking(u, s)
  BY <1>1, <1>2 DEF Asking
<1>8. QED
  BY <1>1, <1>4, <1>6, <1>7 DEF Good, u

\* A restarted poll waits for nothing the old one was to bring.
LEMMA PollRestarted ==
    ASSUME NEW s, NEW c, NEW n, NEW b, World(s, c, n, b), NEW t, Good(t, s, c, n, b)
    PROVE  /\ Keeps(t, RestartPoll(t), s, c, n, b)
           /\ RestartPoll(t).glass = t.glass
<1> DEFINE u == RestartPoll(t)
           r == Ask("poll", NoDeck, 0)
<1>1. /\ TabOK(u) /\ SameBoot(t, u) /\ SameProbe(t, u)
      /\ u.panel = t.panel /\ u.emitted = "nothing" /\ ~ u.timer
      /\ Polls(u) = {r}
  BY RestartPollDoes DEF Good
<1>2. r.answer = "pending"
  BY DEF Ask
<1> HIDE DEF u, r
<1>3. PollSound(u, n, b)
  BY <1>1, <1>2 DEF PollSound, AtMostOne
<1>4. GlassSound(u, s, c) /\ ProbeSound(u, n, b)
  BY <1>1 DEF Good, GlassSound, ProbeSound, SameBoot, SameProbe
<1>5. \A q : ReadSound(q, t, s, c, n) => ReadSound(q, u, s, c, n)
  BY <1>1 DEF ReadSound, SameBoot, SameProbe
<1>6. BootSound(u, s, c, n)
  BY <1>1, <1>5 DEF Good, BootSound, SameBoot, SameProbe
<1>7. (Tracks(t, s) => Tracks(u, s)) /\ (Shows(t, s, c) => Shows(u, s, c))
  BY <1>1 DEF Tracks, Shows, Asking, SameBoot
<1>8. QED
  BY <1>1, <1>3, <1>4, <1>6, <1>7 DEF Good, Keeps, u, SameBoot

\* A refetch of the deck on a glass that follows the slot will show it.
LEMMA Refetched ==
    ASSUME NEW s, NEW c, NEW n, NEW b, World(s, c, n, b), NEW t, Good(t, s, c, n, b),
           t.settled, t.glass.status = "deck"
    PROVE  /\ Good(Refetch(t), s, c, n, b)
           /\ Tracks(t, s) => Tracks(Refetch(t), s) /\ Shows(Refetch(t), s, c)
           /\ Refetch(t).glass = t.glass
<1> DEFINE u == Refetch(t)
           r == Ask("refetch", t.glass.deck, t.glass.turn)
<1>1. /\ TabOK(u) /\ u.glass = t.glass
      /\ SamePoll(t, u) /\ SameProbe(t, u)
      /\ u.settled /\ u.redrive = t.redrive /\ u.updating
      /\ Boots(u) = {r}
  BY RefetchDoes DEF Good, TabOK
<1>2. /\ r.kind = "refetch" /\ r.answer = "pending" /\ r.turn = t.glass.turn
      /\ r.deck = t.glass.deck
  BY DEF Ask
<1>3. t.glass.turn \in Nat /\ Len(s) \in Nat
  BY DEF Good, TabOK, Tab, World
<1> HIDE DEF u, r
<1>4. PollSound(u, n, b) /\ GlassSound(u, s, c) /\ ProbeSound(u, n, b)
  BY <1>1 DEF Good, PollSound, GlassSound, ProbeSound, SamePoll, SameProbe
<1>5. ReadSound(r, u, s, c, n)
  BY <1>1, <1>2, <1>3 DEF Good, ReadSound, GlassSound
<1>6. ~ t.redrive /\ ~ Asking(t, s) /\ ~ \E q \in Boots(t) : q.kind = "detail"
  BY DEF Good, BootSound, Asking
<1>7. BootSound(u, s, c, n)
  BY <1>1, <1>2, <1>5, <1>6 DEF Good, BootSound, AtMostOne, SamePoll, SameProbe
<1>8. Tracks(t, s) => Tracks(u, s) /\ Shows(u, s, c)
  BY <1>1, <1>2, <1>6 DEF Tracks, Shows, Fresh
<1>9. QED
  BY <1>1, <1>4, <1>7, <1>8 DEF Good, u

\* Neither the status of the connection nor the failures before it are
\* anything the boot, the poll or the probe know of.
LEMMA ConnIsApart ==
    ASSUME NEW s, NEW c, NEW n, NEW b, NEW t, NEW u, Good(t, s, c, n, b), TabOK(u),
           SamePoll(t, u), SameBoot(t, u), SameProbe(t, u)
    PROVE  Keeps(t, u, s, c, n, b)
<1>1. PollSound(u, n, b) /\ GlassSound(u, s, c) /\ ProbeSound(u, n, b)
  BY DEF Good, PollSound, GlassSound, ProbeSound, SamePoll, SameBoot, SameProbe
<1>2. \A q : ReadSound(q, t, s, c, n) => ReadSound(q, u, s, c, n)
  BY DEF ReadSound, SameBoot, SameProbe
<1>3. BootSound(u, s, c, n)
  BY <1>2 DEF Good, BootSound, SamePoll, SameBoot, SameProbe
<1>4. (Tracks(t, s) => Tracks(u, s)) /\ (Shows(t, s, c) => Shows(u, s, c))
  BY DEF Tracks, Shows, Asking, SameBoot
<1>5. QED
  BY <1>1, <1>3, <1>4 DEF Good, Keeps

\* A write of the connection's status is heard as a system write, not as the poll's.
LEMMA ConnWritten ==
    ASSUME NEW s, NEW c, NEW n, NEW b, World(s, c, n, b), NEW t, Good(t, s, c, n, b),
           NEW status \in {"reconnecting", "live", "down"}
    PROVE  LET u == ConnectionWrite(t, status)
           IN /\ Keeps(t, u, s, c, n, b) /\ u.glass = t.glass /\ u.conn = status
<1> DEFINE v == [t EXCEPT !.conn = status]
           w == [v EXCEPT !.probeArmed = FALSE, !.probeSpent = FALSE]
           u == ConnectionWrite(t, status)
<1>1. CASE status = t.conn
  <2>1. u = t
    BY <1>1 DEF ConnectionWrite
  <2>2. QED
    BY <1>1, <2>1 DEF Keeps
<1>2. CASE status # t.conn
  <2>1. /\ TabOK(v) /\ SamePoll(t, v) /\ SameBoot(t, v) /\ SameProbe(t, v)
        /\ v.conn = status /\ v.panel = t.panel
    BY DEF Good, TabOK, Tab, SamePoll, SameBoot, SameProbe, Polls, Boots, Own
  <2>2. Keeps(t, v, s, c, n, b)
    BY <2>1, ConnIsApart
  <2>3. /\ TabOK(w) /\ SamePoll(t, w) /\ SameBoot(t, w) /\ ~ w.probeArmed /\ ~ w.probeSpent
        /\ w.conn = status
    BY DEF Good, TabOK, Tab, SamePoll, SameBoot, Polls, Boots, Own
  <2>4. u = IF t.panel # "no-active-deck" THEN w ELSE v
    BY <1>2, <2>1 DEF ConnectionWrite, OnSystemWrite
  <2> HIDE DEF v, w
  <2>5. CASE t.panel # "no-active-deck"
    <3>1. PollSound(w, n, b) /\ GlassSound(w, s, c) /\ ProbeSound(w, n, b)
      BY <2>3 DEF Good, PollSound, GlassSound, ProbeSound, SamePoll, SameBoot
    <3>2. \A q : ReadSound(q, t, s, c, n) => ReadSound(q, w, s, c, n)
      BY <2>3 DEF ReadSound, SameBoot
    <3>3. BootSound(w, s, c, n)
      BY <2>3, <2>5, <3>2 DEF Good, BootSound, SamePoll, SameBoot
    <3>4. (Tracks(t, s) => Tracks(w, s)) /\ (Shows(t, s, c) => Shows(w, s, c))
      BY <2>3 DEF Tracks, Shows, Asking, SameBoot
    <3>5. Keeps(t, w, s, c, n, b)
      BY <2>3, <3>1, <3>3, <3>4 DEF Good, Keeps
    <3>6. QED
      BY <2>3, <2>4, <2>5, <3>5 DEF SameBoot
  <2>6. CASE t.panel = "no-active-deck"
    BY <2>1, <2>2, <2>4, <2>6 DEF SameBoot
  <2>7. QED
    BY <2>5, <2>6
<1>3. QED
  BY <1>1, <1>2

\* The reconcile of a reconnect has the tab ask, now or once its boot has settled.
LEMMA Reconciled ==
    ASSUME NEW s, NEW c, NEW n, NEW b, World(s, c, n, b), NEW t, Good(t, s, c, n, b)
    PROVE  LET u == ReconcileDeckBoot(t)
           IN Good(u, s, c, n, b) /\ Asking(u, s) /\ u.glass = t.glass
<1>1. CASE t.settled
  BY <1>1, BootRestarted DEF Good, ReconcileDeckBoot
<1>2. CASE ~ t.settled
  <2> DEFINE u == [t EXCEPT !.redrive = TRUE]
  <2>1. /\ TabOK(u) /\ SamePoll(t, u) /\ SameProbe(t, u) /\ u.glass = t.glass
        /\ u.settled = t.settled /\ u.updating = t.updating /\ Boots(u) = Boots(t)
        /\ u.redrive
    BY DEF Good, TabOK, Tab, SamePoll, SameProbe, Polls, Boots, Own
  <2>2. ReconcileDeckBoot(t) = u
    BY <1>2 DEF ReconcileDeckBoot
  <2> HIDE DEF u
  <2>3. PollSound(u, n, b) /\ GlassSound(u, s, c) /\ ProbeSound(u, n, b)
    BY <2>1 DEF Good, PollSound, GlassSound, ProbeSound, SamePoll, SameProbe
  <2>4. \A q : ReadSound(q, t, s, c, n) => ReadSound(q, u, s, c, n)
    BY <2>1 DEF ReadSound, SameProbe
  <2>5. BootSound(u, s, c, n)
    BY <1>2, <2>1, <2>4 DEF Good, BootSound, SamePoll, SameProbe
  <2>6. QED
    BY <2>1, <2>2, <2>3, <2>5 DEF Good, Asking
<1>3. QED
  BY <1>1, <1>2

\* Asking is what makes up for whatever a tab has missed.
LEMMA AskingTracks == \A t, s, c : Asking(t, s) => Tracks(t, s) /\ Shows(t, s, c)
  BY DEF Tracks, Shows

\* An open frame: the tab is on its way again, whatever it had missed.
LEMMA OpenedKeeps ==
    ASSUME NEW s, NEW c, NEW n, NEW b, World(s, c, n, b), NEW t, Good(t, s, c, n, b)
    PROVE  LET u == SocketOpened(t)
           IN /\ Good(u, s, c, n, b) /\ u.glass = t.glass
              /\ Tracks(u, s) /\ Shows(u, s, c)
<1> DEFINE v == ConnectionWrite(t, "live")
           w == ReconcileDeckBoot(v)
           x == [w EXCEPT !.failed = FALSE]
           u == SocketOpened(t)
<1>1. Good(v, s, c, n, b) /\ v.glass = t.glass
  BY ConnWritten DEF Keeps
<1>2. Good(w, s, c, n, b) /\ Asking(w, s) /\ w.glass = t.glass
  BY <1>1, Reconciled
<1> HIDE DEF v, w
<1>3. /\ TabOK(x) /\ SamePoll(w, x) /\ SameBoot(w, x) /\ SameProbe(w, x)
  BY <1>2 DEF Good, TabOK, Tab, SamePoll, SameBoot, SameProbe, Polls, Boots, Own
<1>4. u = IF t.failed THEN RestartPoll(x) ELSE x
  BY DEF SocketOpened, v, w
<1> HIDE DEF x
<1>5. Keeps(w, x, s, c, n, b) /\ x.glass = t.glass
  BY <1>2, <1>3, ConnIsApart DEF SameBoot
<1>6. Tracks(x, s) /\ Shows(x, s, c)
  BY <1>2, <1>5, AskingTracks DEF Keeps
<1>7. Keeps(x, RestartPoll(x), s, c, n, b) /\ RestartPoll(x).glass = t.glass
  BY <1>5, PollRestarted DEF Keeps
<1>8. QED
  BY <1>4, <1>5, <1>6, <1>7 DEF Keeps

\* A failed or closed socket: only the connection's status knows.
LEMMA FailedKeeps ==
    ASSUME NEW s, NEW c, NEW n, NEW b, World(s, c, n, b), NEW t, Good(t, s, c, n, b),
           NEW status \in StatusAfterFailure(t)
    PROVE  LET u == SocketFailed(t, status)
           IN /\ Keeps(t, u, s, c, n, b) /\ u.glass = t.glass /\ u.conn # "live"
<1> DEFINE v == ConnectionWrite(t, status)
           u == SocketFailed(t, status)
<1>1. status \in {"reconnecting", "live", "down"} /\ status # "live"
  BY DEF StatusAfterFailure
<1>2. Keeps(t, v, s, c, n, b) /\ v.glass = t.glass /\ v.conn = status
  BY <1>1, ConnWritten
<1>3. u = [v EXCEPT !.failed = TRUE]
  BY DEF SocketFailed
<1> HIDE DEF u, v
<1>4. /\ TabOK(u) /\ SamePoll(v, u) /\ SameBoot(v, u) /\ SameProbe(v, u) /\ u.conn = v.conn
  BY <1>2, <1>3 DEF Keeps, Good, TabOK, Tab, SamePoll, SameBoot, SameProbe, Polls, Boots, Own
<1>5. Keeps(v, u, s, c, n, b)
  BY <1>2, <1>4, ConnIsApart DEF Keeps
<1>6. QED
  BY <1>1, <1>2, <1>4, <1>5 DEF Keeps, SameBoot, u

LEMMA PollRestartedIfStopped ==
    ASSUME NEW s, NEW c, NEW n, NEW b, World(s, c, n, b), NEW t, Good(t, s, c, n, b)
    PROVE  LET u == RestartPollIfStopped(t)
           IN Keeps(t, u, s, c, n, b) /\ u.glass = t.glass
  BY PollRestarted DEF RestartPollIfStopped, Keeps

\* A slot frame: the boot starts over and will ask.
LEMMA ActiveKeeps ==
    ASSUME NEW s, NEW c, NEW n, NEW b, World(s, c, n, b), NEW t, Good(t, s, c, n, b)
    PROVE  LET u == ActiveDeckChanged(t)
           IN /\ Good(u, s, c, n, b) /\ u.glass = t.glass
              /\ Tracks(u, s) /\ Shows(u, s, c)
<1>1. LET v == RestartBoot(t)
      IN Good(v, s, c, n, b) /\ Asking(v, s) /\ v.glass = t.glass
  BY BootRestarted DEF Good
<1>2. QED
  BY <1>1, PollRestartedIfStopped, AskingTracks DEF ActiveDeckChanged, Keeps

\* A deck frame keeps the tab on the track it was on, and makes up for the
\* change it tells of.
LEMMA DeckKeeps ==
    ASSUME NEW s, NEW c, NEW n, NEW b, World(s, c, n, b), NoDeck \notin Deck,
           NEW t, Good(t, s, c, n, b), NEW d
    PROVE  LET u == DeckChanged(t, d)
           IN /\ Good(u, s, c, n, b) /\ u.glass = t.glass
              /\ Tracks(t, s) => Tracks(u, s)
              /\ Tracks(t, s) /\ (d = s[Len(s)] \/ Shows(t, s, c)) => Shows(u, s, c)
<1> DEFINE v == DriveDeckChanged(t, d)
           u == DeckChanged(t, d)
<1>1. CASE t.glass.status # "deck" \/ ~ t.settled
  <2>1. Good(v, s, c, n, b) /\ Asking(v, s) /\ v.glass = t.glass
    BY <1>1, BootRestarted DEF Good, DriveDeckChanged
  <2>2. QED
    BY <2>1, PollRestartedIfStopped, AskingTracks DEF DeckChanged, Keeps
<1>2. CASE t.glass.status = "deck" /\ t.settled /\ d = t.glass.deck
  <2>1. /\ Good(v, s, c, n, b)
        /\ Tracks(t, s) => Tracks(v, s) /\ Shows(v, s, c)
        /\ v.glass = t.glass
    BY <1>2, Refetched DEF DriveDeckChanged
  <2>2. QED
    BY <2>1, PollRestartedIfStopped DEF DeckChanged, Keeps
<1>3. CASE t.glass.status = "deck" /\ t.settled /\ d # t.glass.deck
  <2>1. v = t
    BY <1>3 DEF DriveDeckChanged
  <2>2. Tracks(t, s) => d # s[Len(s)]
    BY <1>3 DEF Tracks, Asking, Good, BootSound, GlassSound, TabOK
  <2>3. QED
    BY <2>1, <2>2, PollRestartedIfStopped DEF DeckChanged, Keeps
<1>4. QED
  BY <1>1, <1>2, <1>3

\* A glass that does not go back.
Later(g, h) ==
    /\ g.turn <= h.turn
    /\ g.status = "deck" /\ h.status = "deck" /\ h.deck = g.deck => g.ver <= h.ver

\* A boot that settles on what its read brought stays sound, deferred re-drive and
\* probe included.
LEMMA SettleKeeps ==
    ASSUME NEW s, NEW c, NEW n, NEW b, World(s, c, n, b), NEW t, Good(t, s, c, n, b),
           NEW r \in Read, Boots(t) = {r}, r.answer # "pending",
           NEW g \in GlassOf, g.turn \in 1..Len(s), g.deck \in {s[g.turn], NoDeck},
           g.status = "deck" => g.deck \in Deck /\ g.ver <= c[g.deck].ver,
           g.status = "refused" => r.answer = "unavailable"
    PROVE  LET u == Forget(Settle(t, r, g), r)
           IN /\ Good(u, s, c, n, b) /\ u.glass = g /\ SameConn(t, u)
              /\ t.redrive => Asking(u, s)
              /\ ~ t.redrive => u.settled
<1> DEFINE u == Forget(Settle(t, r, g), r)
           still == t.probeSpent /\ g.status = "refused"
           q == Ask("active", NoDeck, g.turn)
           p == Ask("poll", NoDeck, 0)
           again == /\ t.redrive
                    /\ ~ u.settled /\ u.updating
                    /\ Boots(u) = {q}
                    /\ SamePoll(t, u)
                    /\ u.probeSpent = still /\ u.probeArmed = t.probeArmed
           probed == /\ ~ t.redrive
                     /\ g.status = "refused" /\ ~ t.probeSpent /\ t.panel \notin Retrying
                     /\ u.settled /\ ~ u.updating /\ Boots(u) = {}
                     /\ u.emitted = "nothing" /\ ~ u.timer
                     /\ Polls(u) = {p}
                     /\ u.probeSpent /\ u.probeArmed
           rests == /\ ~ t.redrive
                    /\ g.status = "refused" => t.probeSpent \/ t.panel \in Retrying
                    /\ u.settled /\ ~ u.updating /\ Boots(u) = {} /\ SamePoll(t, u)
                    /\ u.probeSpent = still /\ u.probeArmed = t.probeArmed
<1>1. /\ TabOK(u) /\ u.glass = g /\ u.panel = t.panel /\ SameConn(t, u) /\ ~ u.redrive
      /\ again \/ probed \/ rests
  BY SettleDoes DEF Good
<1>2. /\ q.kind = "active" /\ q.answer = "pending" /\ q.turn = g.turn
      /\ p.answer = "pending"
  BY DEF Ask
<1>3. r \in Boots(t) /\ ReadSound(r, t, s, c, n)
  BY DEF Good, BootSound
<1>4. g.turn <= g.turn /\ g.turn <= Len(s)
  BY DEF World, GlassOf
<1> HIDE DEF u, q, p
<1>5. GlassSound(u, s, c)
  BY <1>1 DEF GlassSound
<1>6. CASE again
  <2>1. PollSound(u, n, b)
    BY <1>1, <1>6 DEF Good, PollSound, SamePoll
  <2>2. ProbeSound(u, n, b)
    BY <1>1, <1>3, <1>6 DEF Good, ProbeSound, ReadSound
  <2>3. ReadSound(q, u, s, c, n)
    BY <1>1, <1>2, <1>4 DEF ReadSound
  <2>4. BootSound(u, s, c, n)
    BY <1>1, <1>2, <1>6, <2>3 DEF BootSound, AtMostOne
  <2>5. Asking(u, s)
    BY <1>2, <1>6 DEF Asking
  <2>6. QED
    BY <1>1, <1>5, <1>6, <2>1, <2>2, <2>4, <2>5 DEF Good, u
<1>7. CASE probed
  <2>1. PollSound(u, n, b)
    BY <1>1, <1>2, <1>7 DEF Good, PollSound, AtMostOne
  <2>2. ProbeSound(u, n, b)
    BY <1>1, <1>3, <1>7 DEF Good, ProbeSound, ReadSound
  <2>3. BootSound(u, s, c, n)
    BY <1>1, <1>7 DEF BootSound, AtMostOne, GlassOf
  <2>4. QED
    BY <1>1, <1>5, <1>7, <2>1, <2>2, <2>3 DEF Good, u
<1>8. CASE rests
  <2>1. PollSound(u, n, b)
    BY <1>1, <1>8 DEF Good, PollSound, SamePoll
  <2>2. ProbeSound(u, n, b)
    BY <1>1, <1>3, <1>8 DEF Good, ProbeSound, ReadSound
  <2>3. BootSound(u, s, c, n)
    BY <1>1, <1>3, <1>8 DEF BootSound, ReadSound, AtMostOne, GlassOf, Retrying
  <2>4. QED
    BY <1>1, <1>5, <1>8, <2>1, <2>2, <2>3 DEF Good, u
<1>9. QED
  BY <1>1, <1>6, <1>7, <1>8

LEMMA OwnIsRead ==
    ASSUME NEW t, TabOK(t), NEW kinds, NEW r \in Own(t, kinds)
    PROVE  r \in Read /\ r \in t.reads /\ r.current /\ r.kind \in kinds /\ NamesItsDeck(r)
  BY DEF Own, TabOK, Tab, Read

\* The answer of the active-deck route.
LEMMA ActiveAnswerKeeps ==
    ASSUME NEW s, NEW c, NEW n, NEW b, World(s, c, n, b), NEW t, Good(t, s, c, n, b),
           NEW r \in Boots(t), r.kind = "active", r.answer # "pending"
    PROVE  LET u == Forget(ActiveAnswered(t, r), r)
           IN Keeps(t, u, s, c, n, b) /\ Later(t.glass, u.glass) /\ SameConn(t, u)
<1>1. /\ r \in Read /\ NamesItsDeck(r) /\ r.current /\ Boots(t) = {r}
      /\ ReadSound(r, t, s, c, n) /\ ~ t.settled /\ t.updating
  BY OwnIsRead DEF Good, BootSound, AtMostOne, Boots
<1>2. /\ t.glass.turn \in Nat /\ Len(s) \in Nat /\ r.turn \in 1..Len(s)
      /\ r.deck \in Deck \cup {NoDeck}
  BY <1>1 DEF Good, TabOK, Tab, World, ReadSound, GlassSound, Read
<1>3. CASE r.answer = "id" /\ r.deck # NoDeck
  <2> DEFINE q == Ask("detail", r.deck, r.turn)
             v == Issue(t, q)
             u == Forget(v, r)
  <2>1. /\ q \in Read /\ NamesItsDeck(q) /\ q.current /\ q.kind = "detail"
        /\ q.deck = r.deck /\ q.turn = r.turn /\ q.answer = "pending" /\ q # r
    BY <1>1, <1>2, <1>3, AskIs DEF Kinds, BootKinds, NamesItsDeck
  <2>2. ActiveAnswered(t, r) = v
    BY <1>3 DEF ActiveAnswered
  <2> HIDE DEF q
  <2>3. /\ v = [t EXCEPT !.reads = v.reads] /\ TabOK(v)
        /\ \A k : Own(v, k) = Own(t, k) \cup (IF q.kind \in k THEN {q} ELSE {})
    BY <2>1, IssueDoes DEF Good
  <2> HIDE DEF v
  <2>4. /\ TabOK(u)
        /\ u.glass = v.glass /\ u.settled = v.settled /\ u.redrive = v.redrive
        /\ u.updating = v.updating /\ u.panel = v.panel /\ u.emitted = v.emitted
        /\ u.timer = v.timer /\ SameProbe(v, u) /\ SameConn(v, u)
        /\ \A k : Own(u, k) = Own(v, k) \ {r}
    BY <1>1, <2>3, ForgetDoes
  <2>5. /\ v.glass = t.glass /\ v.settled = t.settled /\ v.redrive = t.redrive
        /\ v.updating = t.updating /\ v.panel = t.panel /\ v.emitted = t.emitted
        /\ v.timer = t.timer /\ SameProbe(t, v) /\ SameConn(t, v)
    BY <2>3 DEF Good, TabOK, Tab, SameProbe, SameConn
  <2>6. Boots(u) = {q} /\ Polls(u) = Polls(t)
    <3>1. Boots(u) = (Boots(t) \cup {q}) \ {r} /\ Polls(u) = Polls(t) \ {r}
      BY <2>1, <2>3, <2>4 DEF Boots, Polls, BootKinds
    <3>2. r \notin Polls(t)
      BY DEF Polls, Boots, Own, BootKinds
    <3>3. QED
      BY <1>1, <2>1, <3>1, <3>2
  <2>7. SamePoll(t, u) /\ SameProbe(t, u) /\ SameConn(t, u) /\ u.glass = t.glass
    BY <2>4, <2>5, <2>6 DEF SamePoll, SameProbe, SameConn
  <2> HIDE DEF u
  <2>8. PollSound(u, n, b) /\ GlassSound(u, s, c) /\ ProbeSound(u, n, b)
    BY <2>7 DEF Good, PollSound, GlassSound, ProbeSound, SamePoll, SameProbe
  <2>9. ReadSound(q, u, s, c, n)
    BY <1>1, <1>3, <2>1, <2>7 DEF ReadSound
  <2>10. ~ u.settled /\ u.updating /\ u.redrive = t.redrive
    BY <1>1, <2>4, <2>5
  <2>11. BootSound(u, s, c, n)
    BY <2>1, <2>6, <2>7, <2>9, <2>10 DEF BootSound, AtMostOne
  <2>12. Tracks(t, s) => Tracks(u, s)
    BY <1>1, <1>3, <2>1, <2>6, <2>10 DEF Tracks, Asking
  <2>13. Shows(t, s, c) => Shows(u, s, c)
    BY <1>1, <1>3, <2>1, <2>6, <2>10 DEF Shows, Asking, Fresh
  <2>14. Later(t.glass, u.glass)
    BY <1>2, <2>7 DEF Later, Good, TabOK, Tab
  <2>15. QED
    BY <2>2, <2>4, <2>7, <2>8, <2>11, <2>12, <2>13, <2>14 DEF Keeps, Good, u
<1>4. CASE ~ (r.answer = "id" /\ r.deck # NoDeck)
  <2> DEFINE g == Blank(r.turn)
             u == Forget(Settle(t, r, g), r)
  <2>1. g \in GlassOf /\ g.status = "none" /\ g.turn = r.turn /\ g.deck = NoDeck
    BY <1>1, <1>2 DEF Blank, GlassOf
  <2>2. ActiveAnswered(t, r) = Settle(t, r, g)
    BY <1>4 DEF ActiveAnswered
  <2> HIDE DEF g
  <2>3. /\ Good(u, s, c, n, b) /\ u.glass = g /\ SameConn(t, u)
        /\ t.redrive => Asking(u, s)
        /\ ~ t.redrive => u.settled
    BY <1>1, <1>2, <2>1, SettleKeeps
  <2> HIDE DEF u
  <2>4. Tracks(t, s) => Tracks(u, s)
    BY <1>1, <2>1, <2>3 DEF Tracks, Asking
  <2>5. Shows(t, s, c) => Shows(u, s, c)
    <3>1. CASE Asking(t, s) /\ ~ t.redrive
      <4>1. r.answer = "id" /\ r.turn = Len(s) /\ r.deck = NoDeck
        BY <1>1, <1>4, <3>1 DEF Asking
      <4>2. s[Len(s)] = NoDeck
        BY <1>1, <4>1 DEF ReadSound
      <4>3. g = Wanted(s, c)
        BY <4>1, <4>2 DEF g, Wanted
      <4>4. QED
        BY <2>3, <3>1, <4>3 DEF Shows
    <3>2. CASE t.redrive
      BY <2>3, <3>2 DEF Shows
    <3>3. QED
      BY <1>1, <3>1, <3>2 DEF Shows
  <2>6. Later(t.glass, u.glass)
    BY <1>1, <2>1, <2>3 DEF Later, ReadSound
  <2>7. QED
    BY <2>2, <2>3, <2>4, <2>5, <2>6 DEF Keeps, u
<1>5. QED
  BY <1>3, <1>4

\* What the deck a read brought is, as a glass.
LEMMA LoadedIs ==
    ASSUME NEW s, NEW c, NEW n, NEW b, World(s, c, n, b), NoDeck \notin Deck,
           NEW t, Good(t, s, c, n, b),
           NEW r \in Boots(t), r.kind \in {"detail", "refetch"}
    PROVE  /\ r \in Read /\ r.deck \in Deck /\ r.turn \in 1..Len(s) /\ r.deck = s[r.turn]
           /\ Boots(t) = {r} /\ ReadSound(r, t, s, c, n)
           /\ t.glass.turn \in Nat /\ t.glass.ver \in Nat /\ r.ver \in Nat
<1>1. /\ r \in Read /\ NamesItsDeck(r) /\ Boots(t) = {r} /\ ReadSound(r, t, s, c, n)
  BY OwnIsRead DEF Good, BootSound, AtMostOne, Boots
<1>2. r.deck \in Deck
  BY <1>1 DEF NamesItsDeck
<1>3. r.turn \in 1..Len(s) /\ t.glass.turn \in Nat /\ t.glass.ver \in Nat /\ r.ver \in Nat
  BY <1>1 DEF Good, TabOK, Tab, World, ReadSound, GlassSound, Read
<1>4. r.deck = s[r.turn]
  BY <1>1, <1>2 DEF ReadSound, Good, GlassSound
<1>5. QED
  BY <1>1, <1>2, <1>3, <1>4

\* The answer of the deck route to a boot.
LEMMA DetailAnswerKeeps ==
    ASSUME NEW s, NEW c, NEW n, NEW b, World(s, c, n, b), NoDeck \notin Deck,
           NEW t, Good(t, s, c, n, b),
           NEW r \in Boots(t), r.kind = "detail", r.answer # "pending"
    PROVE  LET u == Forget(DetailAnswered(t, r), r)
           IN Keeps(t, u, s, c, n, b) /\ Later(t.glass, u.glass) /\ SameConn(t, u)
<1> DEFINE g == IF r.answer = "ok" THEN Loaded(r.deck, r.turn, r.ver)
                ELSE IF r.answer = "unavailable" THEN Refused(r.turn)
                ELSE Blank(r.turn)
           u == Forget(Settle(t, r, g), r)
<1>1. /\ r \in Read /\ r.deck \in Deck /\ r.turn \in 1..Len(s) /\ r.deck = s[r.turn]
      /\ Boots(t) = {r} /\ ReadSound(r, t, s, c, n)
      /\ t.glass.turn \in Nat /\ t.glass.ver \in Nat /\ r.ver \in Nat
  BY LoadedIs
<1>2. DetailAnswered(t, r) = Settle(t, r, g)
  BY DEF DetailAnswered
<1>3. /\ g \in GlassOf /\ g.turn = r.turn /\ g.deck \in {s[g.turn], NoDeck}
      /\ g.status = "deck" => g.deck \in Deck /\ g.ver <= c[g.deck].ver
      /\ g.status = "refused" => r.answer = "unavailable"
      /\ g.status = "deck" /\ g.deck = t.glass.deck /\ t.glass.status = "deck"
            => t.glass.ver <= g.ver
  BY <1>1 DEF GlassOf, Loaded, Refused, Blank, ReadSound
<1>4. Fresh(r, c) /\ r.turn = Len(s) => g = Wanted(s, c)
  BY <1>1 DEF Fresh, Wanted
<1> HIDE DEF g
<1>5. /\ Good(u, s, c, n, b) /\ u.glass = g /\ SameConn(t, u)
      /\ t.redrive => Asking(u, s)
      /\ ~ t.redrive => u.settled
  BY <1>1, <1>3, SettleKeeps
<1> HIDE DEF u
<1>6. ~ t.settled
  BY <1>1 DEF Good, BootSound
<1>7. Tracks(t, s) => Tracks(u, s)
  BY <1>1, <1>3, <1>5, <1>6 DEF Tracks, Asking
<1>8. Shows(t, s, c) => Shows(u, s, c)
  BY <1>1, <1>4, <1>5, <1>6 DEF Shows, Asking
<1>9. Later(t.glass, u.glass)
  BY <1>1, <1>3, <1>5 DEF Later, ReadSound
<1>10. QED
  BY <1>2, <1>5, <1>7, <1>8, <1>9 DEF Keeps, u

\* The answer of the deck route to a refetch, which only a deck or its absence
\* settles.
LEMMA RefetchAnswerKeeps ==
    ASSUME NEW s, NEW c, NEW n, NEW b, World(s, c, n, b), NoDeck \notin Deck,
           NEW t, Good(t, s, c, n, b),
           NEW r \in Boots(t), r.kind = "refetch", r.answer # "pending"
    PROVE  LET u == Forget(RefetchAnswered(t, r), r)
           IN Keeps(t, u, s, c, n, b) /\ Later(t.glass, u.glass) /\ SameConn(t, u)
<1>1. /\ r \in Read /\ r.deck \in Deck /\ r.turn \in 1..Len(s) /\ r.deck = s[r.turn]
      /\ Boots(t) = {r} /\ ReadSound(r, t, s, c, n)
      /\ t.glass.turn \in Nat /\ t.glass.ver \in Nat /\ r.ver \in Nat
  BY LoadedIs
<1>2. /\ t.settled /\ ~ t.redrive /\ ~ Asking(t, s)
      /\ r.turn = t.glass.turn /\ r.deck = t.glass.deck /\ t.glass.status = "deck"
  BY <1>1 DEF Good, BootSound, Asking, ReadSound
<1>3. CASE r.answer \in {"ok", "missing"}
  <2> DEFINE g == IF r.answer = "ok" THEN Loaded(r.deck, r.turn, r.ver)
                  ELSE Blank(r.turn)
             u == Forget(Settle(t, r, g), r)
  <2>1. RefetchAnswered(t, r) = Settle(t, r, g)
    BY <1>3 DEF RefetchAnswered
  <2>2. /\ g \in GlassOf /\ g.turn = r.turn /\ g.deck \in {s[g.turn], NoDeck}
        /\ g.status = "deck" => g.deck \in Deck /\ g.ver <= c[g.deck].ver
        /\ g.status # "refused"
        /\ g.status = "deck" /\ g.deck = t.glass.deck /\ t.glass.status = "deck"
              => t.glass.ver <= g.ver
    BY <1>1, <1>3 DEF GlassOf, Loaded, Blank, ReadSound
  <2>3. Fresh(r, c) /\ r.turn = Len(s) => g = Wanted(s, c)
    BY <1>1, <1>3 DEF Fresh, Wanted
  <2>4. t.glass = Wanted(s, c) => g = Wanted(s, c)
    <3>1. CASE r.answer = "ok" /\ t.glass = Wanted(s, c)
      <4>1. /\ t.glass = Loaded(r.deck, Len(s), c[r.deck].ver) /\ r.turn = Len(s)
            /\ r.deck = s[Len(s)]
        BY <1>1, <1>2, <3>1 DEF Wanted, Loaded, Blank
      <4>2. r.ver <= c[r.deck].ver /\ c[r.deck].ver <= r.ver /\ c[r.deck].ver \in Nat
        BY <1>1, <1>2, <3>1, <4>1 DEF ReadSound, Loaded, World
      <4>3. r.ver = c[r.deck].ver
        BY <1>1, <4>2
      <4>4. QED
        BY <3>1, <4>1, <4>3
    <3>2. CASE r.answer = "missing" /\ t.glass = Wanted(s, c)
      <4>1. ~ c[r.deck].exists
        BY <1>1, <3>2 DEF ReadSound
      <4>2. t.glass.turn = Len(s)
        BY <3>2 DEF Wanted, Loaded, Blank
      <4>3. FALSE
        BY <1>1, <1>2, <3>2, <4>1, <4>2 DEF Wanted, Loaded, Blank
      <4>4. QED
        BY <4>3
    <3>3. QED
      BY <1>3, <3>1, <3>2
  <2> HIDE DEF g
  <2>5. /\ Good(u, s, c, n, b) /\ u.glass = g /\ SameConn(t, u) /\ u.settled
    BY <1>1, <1>2, <1>3, <2>2, SettleKeeps
  <2> HIDE DEF u
  <2>6. Tracks(t, s) => Tracks(u, s)
    BY <1>1, <1>2, <2>2, <2>5 DEF Tracks
  <2>7. Shows(t, s, c) => Shows(u, s, c)
    BY <1>1, <1>2, <2>3, <2>4, <2>5 DEF Shows
  <2>8. Later(t.glass, u.glass)
    BY <1>1, <1>2, <2>2, <2>5 DEF Later
  <2>9. QED
    BY <2>1, <2>5, <2>6, <2>7, <2>8 DEF Keeps, u
<1>4. CASE r.answer \notin {"ok", "missing"}
  <2> DEFINE v == [t EXCEPT !.updating = FALSE]
             u == Forget(v, r)
  <2>1. RefetchAnswered(t, r) = v
    BY <1>1, <1>4 DEF RefetchAnswered, CloseWindow, Boots, Own
  <2>2. /\ TabOK(v) /\ SamePoll(t, v) /\ SameProbe(t, v) /\ SameConn(t, v) /\ ~ v.updating
        /\ v.glass = t.glass /\ v.settled = t.settled /\ v.redrive = t.redrive
        /\ Boots(v) = Boots(t)
    BY DEF Good, TabOK, Tab, SamePoll, SameProbe, SameConn, Polls, Boots, Own
  <2> HIDE DEF v
  <2>3. /\ TabOK(u)
        /\ u.glass = v.glass /\ u.settled = v.settled /\ u.redrive = v.redrive
        /\ u.updating = v.updating /\ u.panel = v.panel /\ u.emitted = v.emitted
        /\ u.timer = v.timer /\ SameProbe(v, u) /\ SameConn(v, u)
        /\ \A k : Own(u, k) = Own(v, k) \ {r}
    BY <1>1, <2>2, ForgetDoes
  <2>4. Boots(u) = {} /\ Polls(u) = Polls(t)
    <3>1. Boots(u) = Boots(t) \ {r} /\ Polls(u) = Polls(t) \ {r}
      BY <2>2, <2>3 DEF Boots, Polls, SamePoll
    <3>2. r \notin Polls(t)
      BY DEF Polls, Boots, Own, BootKinds
    <3>3. QED
      BY <1>1, <3>1, <3>2
  <2>5. /\ SamePoll(t, u) /\ SameProbe(t, u) /\ SameConn(t, u) /\ u.glass = t.glass
        /\ u.settled /\ ~ u.redrive /\ ~ u.updating
    BY <1>2, <2>2, <2>3, <2>4 DEF SamePoll, SameProbe, SameConn
  <2> HIDE DEF u
  <2>6. PollSound(u, n, b) /\ GlassSound(u, s, c) /\ ProbeSound(u, n, b)
    BY <2>5 DEF Good, PollSound, GlassSound, ProbeSound, SamePoll, SameProbe
  <2>7. BootSound(u, s, c, n)
    BY <1>2, <2>4, <2>5 DEF Good, BootSound, AtMostOne, SamePoll, SameProbe
  <2>8. Tracks(t, s) => Tracks(u, s)
    BY <1>1, <1>2, <2>5 DEF Tracks
  <2>9. Shows(t, s, c) => Shows(u, s, c)
    BY <1>1, <1>2, <1>4, <2>5 DEF Shows, Fresh
  <2>10. Later(t.glass, u.glass)
    BY <1>1, <2>5 DEF Later
  <2>11. QED
    BY <2>1, <2>3, <2>5, <2>6, <2>7, <2>8, <2>9, <2>10 DEF Keeps, Good, u
<1>5. QED
  BY <1>3, <1>4

ProbeHasWaited(t, panel, n, b) ==
    n <= 1 /\ t.probeArmed /\ panel = "no-active-deck" => ~ b

WritesPanel(t, v, panel) == v = [t EXCEPT !.panel = panel, !.emitted = panel]

\* What the system slice and its listener do with a panel the poll has decided.
LEMMA PanelHeard ==
    ASSUME NEW s, NEW c, NEW n, NEW b, World(s, c, n, b), NEW t, Good(t, s, c, n, b),
           NEW panel \in Panel, panel # t.emitted, Polls(t) # {},
           ProbeHasWaited(t, panel, n, b),
           NEW v, WritesPanel(t, v, panel)
    PROVE  LET u == OnSystemWrite(v, t.panel, TRUE)
           IN /\ TabOK(u) /\ u.glass = t.glass /\ SameConn(t, u)
              /\ u.panel = panel /\ u.emitted = panel /\ ~ u.probeArmed
              /\ Polls(u) = Polls(t)
              /\ GlassSound(u, s, c) /\ ProbeSound(u, n, b) /\ BootSound(u, s, c, n)
              /\ Tracks(t, s) => Tracks(u, s)
              /\ Shows(t, s, c) => Shows(u, s, c)
<1> DEFINE calm == [v EXCEPT !.probeArmed = FALSE, !.probeSpent = FALSE]
           off == [v EXCEPT !.probeArmed = FALSE]
           again == [off EXCEPT !.redrive = TRUE]
           u == OnSystemWrite(v, t.panel, TRUE)
<1>1. /\ TabOK(v) /\ v.panel = panel /\ v.emitted = panel /\ SameBoot(t, v)
      /\ SameProbe(t, v) /\ SameConn(t, v) /\ Polls(v) = Polls(t) /\ v.timer = t.timer
  BY DEF WritesPanel, Good, TabOK, Tab, SameBoot, SameProbe, SameConn, Polls, Boots, Own
<1>2. u = IF panel # "no-active-deck" THEN calm
          ELSE IF t.panel = "no-active-deck" /\ ~ t.probeArmed THEN v
          ELSE IF t.glass.status \in {"deck", "booting"} THEN off
          ELSE IF ~ t.settled THEN again ELSE RestartBoot(off)
  <2>1. off.glass = t.glass /\ off.settled = t.settled
    BY <1>1 DEF TabOK, Tab, SameBoot
  <2>2. QED
    BY <1>1, <2>1 DEF OnSystemWrite, SameProbe
<1>3. /\ TabOK(calm) /\ calm.panel = panel /\ calm.emitted = panel /\ SameBoot(t, calm)
      /\ SameConn(t, calm) /\ Polls(calm) = Polls(t)
      /\ ~ calm.probeArmed /\ ~ calm.probeSpent
  BY <1>1 DEF TabOK, Tab, SameBoot, SameProbe, SameConn, Polls, Boots, Own
<1>4. /\ TabOK(off) /\ off.panel = panel /\ off.emitted = panel /\ SameBoot(t, off)
      /\ SameConn(t, off) /\ Polls(off) = Polls(t) /\ off.timer = t.timer
      /\ ~ off.probeArmed /\ off.probeSpent = t.probeSpent
  BY <1>1 DEF TabOK, Tab, SameBoot, SameProbe, SameConn, Polls, Boots, Own
<1> HIDE DEF calm, off
<1>5. /\ TabOK(again) /\ again.panel = panel /\ again.emitted = panel
      /\ again.glass = t.glass /\ again.settled = t.settled /\ again.redrive
      /\ again.updating = t.updating /\ Boots(again) = Boots(t)
      /\ SameConn(t, again) /\ Polls(again) = Polls(t)
      /\ ~ again.probeArmed /\ again.probeSpent = t.probeSpent
  BY <1>4 DEF TabOK, Tab, SameBoot, SameConn, Polls, Boots, Own
<1> HIDE DEF again
<1>6. CASE panel # "no-active-deck"
  <2>1. GlassSound(calm, s, c) /\ ProbeSound(calm, n, b)
    BY <1>3, <1>6 DEF Good, GlassSound, ProbeSound, SameBoot
  <2>2. \A q : ReadSound(q, t, s, c, n) => ReadSound(q, calm, s, c, n)
    BY <1>3 DEF ReadSound, SameBoot
  <2>3. BootSound(calm, s, c, n)
    BY <1>3, <1>6, <2>2 DEF Good, BootSound, SameBoot
  <2>4. (Tracks(t, s) => Tracks(calm, s)) /\ (Shows(t, s, c) => Shows(calm, s, c))
    BY <1>3 DEF Tracks, Shows, Asking, SameBoot
  <2>5. QED
    BY <1>2, <1>3, <1>6, <2>1, <2>3, <2>4 DEF SameBoot
<1>7. CASE panel = "no-active-deck" /\ t.panel = "no-active-deck" /\ ~ t.probeArmed
  <2>1. GlassSound(v, s, c) /\ ProbeSound(v, n, b)
    BY <1>1, <1>7 DEF Good, GlassSound, ProbeSound, SameBoot, SameProbe
  <2>2. \A q : ReadSound(q, t, s, c, n) => ReadSound(q, v, s, c, n)
    BY <1>1 DEF ReadSound, SameBoot, SameProbe
  <2>3. BootSound(v, s, c, n)
    BY <1>1, <1>7, <2>2 DEF Good, BootSound, SameBoot, SameProbe
  <2>4. (Tracks(t, s) => Tracks(v, s)) /\ (Shows(t, s, c) => Shows(v, s, c))
    BY <1>1 DEF Tracks, Shows, Asking, SameBoot
  <2>5. QED
    BY <1>1, <1>2, <1>7, <2>1, <2>3, <2>4 DEF SameBoot, SameProbe
<1>8. CASE panel = "no-active-deck" /\ (t.panel # "no-active-deck" \/ t.probeArmed)
  <2>1. n <= 1 /\ t.probeSpent => ~ b
    BY <1>8 DEF Good, ProbeSound, ProbeHasWaited
  <2>2. GlassSound(off, s, c) /\ ProbeSound(off, n, b)
    BY <1>4, <1>8, <2>1 DEF Good, GlassSound, ProbeSound, SameBoot
  <2>3. CASE t.glass.status \in {"deck", "booting"}
    <3>1. ~ t.probeSpent /\ t.glass.status # "refused"
      BY <2>3 DEF Good, ProbeSound
    <3>2. \A q : ReadSound(q, t, s, c, n) => ReadSound(q, off, s, c, n)
      BY <1>4, <3>1 DEF ReadSound, SameBoot
    <3>3. BootSound(off, s, c, n)
      BY <1>4, <3>1, <3>2 DEF Good, BootSound, SameBoot
    <3>4. (Tracks(t, s) => Tracks(off, s)) /\ (Shows(t, s, c) => Shows(off, s, c))
      BY <1>4 DEF Tracks, Shows, Asking, SameBoot
    <3>5. QED
      BY <1>2, <1>4, <1>8, <2>2, <2>3, <3>3, <3>4 DEF SameBoot
  <2>4. CASE t.glass.status \notin {"deck", "booting"} /\ ~ t.settled
    <3>1. GlassSound(again, s, c) /\ ProbeSound(again, n, b)
      BY <1>4, <1>5, <2>2 DEF GlassSound, ProbeSound, SameBoot
    <3>2. \A q : ReadSound(q, t, s, c, n) => ReadSound(q, again, s, c, n)
      BY <1>5 DEF ReadSound
    <3>3. BootSound(again, s, c, n)
      BY <1>5, <2>4, <3>2 DEF Good, BootSound
    <3>4. Asking(again, s)
      BY <1>5 DEF Asking
    <3>5. QED
      BY <1>2, <1>5, <1>8, <2>4, <3>1, <3>3, <3>4, AskingTracks
  <2>5. CASE t.glass.status \notin {"deck", "booting"} /\ t.settled
    <3>1. PollSound(off, n, b)
      BY <1>4, <1>8 DEF Good, PollSound, Retrying
    <3>2. LET w == RestartBoot(off)
          IN Good(w, s, c, n, b) /\ Asking(w, s) /\ w.glass = off.glass
      BY <1>4, <2>2, <3>1, BootRestarted
    <3>3. LET w == RestartBoot(off)
          IN SamePoll(off, w) /\ SameProbe(off, w) /\ SameConn(off, w)
      BY <1>4, RestartBootDoes
    <3>4. u = RestartBoot(off)
      BY <1>2, <1>8, <2>5
    <3>5. QED
      BY <1>4, <3>2, <3>3, <3>4, AskingTracks
         DEF Good, SamePoll, SameProbe, SameConn, SameBoot
  <2>6. QED
    BY <2>3, <2>4, <2>5
<1>9. QED
  BY <1>6, <1>7, <1>8

\* The answer of the poll.
LEMMA PollAnswerKeeps ==
    ASSUME NEW s, NEW c, NEW n, NEW b, World(s, c, n, b), NEW t, Good(t, s, c, n, b),
           NEW r \in Polls(t), r.answer # "pending", NEW stalled \in BOOLEAN
    PROVE  LET u == Forget(PollAnswered(t, r, stalled), r)
           IN Keeps(t, u, s, c, n, b) /\ u.glass = t.glass /\ SameConn(t, u)
<1> DEFINE panel == PollPanel(r, stalled)
           w == [t EXCEPT !.panel = panel, !.emitted = panel]
           heard == IF panel = t.emitted THEN t ELSE OnSystemWrite(w, t.panel, TRUE)
           v == PollAnswered(t, r, stalled)
           u == Forget(v, r)
<1>1. r \in Read /\ Polls(t) = {r}
  BY OwnIsRead DEF Good, PollSound, AtMostOne, Polls
<1>2. ~ t.timer
  BY <1>1 DEF Good, PollSound
<1>3. \A y : r \notin Boots(y)
  BY DEF Polls, Boots, Own, BootKinds
<1>4. \A y : TabOK(y) /\ Polls(y) = {r} => LET z == Forget(y, r)
        IN /\ TabOK(z) /\ SameBoot(y, z) /\ SameProbe(y, z) /\ SameConn(y, z)
           /\ z.panel = y.panel /\ z.emitted = y.emitted /\ z.timer = y.timer
           /\ Polls(z) = {}
  BY <1>1, <1>3, ForgetDoes DEF SameBoot, Boots, Polls
<1>5. \A y : TabOK(y) => \A f \in BOOLEAN : LET z == [y EXCEPT !.timer = f]
        IN /\ TabOK(z) /\ SameBoot(y, z) /\ SameProbe(y, z) /\ SameConn(y, z)
           /\ z.panel = y.panel /\ z.emitted = y.emitted /\ z.timer = f
           /\ Polls(z) = Polls(y)
  BY DEF TabOK, Tab, SameBoot, SameProbe, SameConn, Boots, Polls, Own
<1>6. CASE r.answer = "unreachable"
  <2>1. v = [t EXCEPT !.timer = TRUE]
    BY <1>6 DEF PollAnswered
  <2>2. /\ TabOK(v) /\ SameBoot(t, v) /\ SameProbe(t, v) /\ SameConn(t, v)
        /\ v.panel = t.panel /\ v.emitted = t.emitted /\ v.timer = TRUE
        /\ Polls(v) = Polls(t)
    BY <1>5, <2>1 DEF Good
  <2>3. /\ TabOK(u) /\ SameBoot(t, u) /\ SameProbe(t, u) /\ SameConn(t, u)
        /\ u.panel = t.panel /\ u.emitted = t.emitted /\ u.timer /\ Polls(u) = {}
    <3> HIDE DEF v
    <3>1. QED
      BY <1>1, <1>4, <2>2 DEF SameBoot, SameProbe, SameConn
  <2> HIDE DEF u
  <2>4. PollSound(u, n, b) /\ GlassSound(u, s, c) /\ ProbeSound(u, n, b)
    BY <2>3 DEF Good, PollSound, GlassSound, ProbeSound, SameBoot, SameProbe, AtMostOne
  <2>5. \A q : ReadSound(q, t, s, c, n) => ReadSound(q, u, s, c, n)
    BY <2>3 DEF ReadSound, SameBoot, SameProbe
  <2>6. BootSound(u, s, c, n)
    BY <2>3, <2>5 DEF Good, BootSound, SameBoot, SameProbe
  <2>7. (Tracks(t, s) => Tracks(u, s)) /\ (Shows(t, s, c) => Shows(u, s, c))
    BY <2>3 DEF Tracks, Shows, Asking, SameBoot
  <2>8. QED
    BY <2>3, <2>4, <2>6, <2>7 DEF Keeps, Good, SameBoot, u
<1>7. CASE r.answer # "unreachable"
  <2>1. v = [heard EXCEPT !.timer = panel \in Retrying]
    BY <1>7 DEF PollAnswered
  <2>2. panel \in Panel /\ panel # "nothing" /\ (panel = "no-active-deck" => r.answer = "decks")
    BY DEF PollPanel, Panel
  <2>3. ProbeHasWaited(t, panel, n, b)
    BY <2>2 DEF Good, PollSound, ProbeHasWaited
  <2> HIDE DEF panel
  <2>4. /\ TabOK(heard) /\ heard.glass = t.glass /\ SameConn(t, heard)
        /\ heard.panel = panel /\ heard.emitted = panel /\ ~ heard.probeArmed
        /\ Polls(heard) = {r}
        /\ GlassSound(heard, s, c) /\ ProbeSound(heard, n, b) /\ BootSound(heard, s, c, n)
        /\ Tracks(t, s) => Tracks(heard, s)
        /\ Shows(t, s, c) => Shows(heard, s, c)
    <3>1. CASE panel = t.emitted
      BY <1>1, <2>2, <3>1 DEF Good, PollSound, SameConn
    <3>2. CASE panel # t.emitted
      <4> DEFINE h == OnSystemWrite(w, t.panel, TRUE)
      <4>1. /\ TabOK(h) /\ h.glass = t.glass /\ SameConn(t, h)
            /\ h.panel = panel /\ h.emitted = panel /\ ~ h.probeArmed
            /\ Polls(h) = Polls(t)
            /\ GlassSound(h, s, c) /\ ProbeSound(h, n, b) /\ BootSound(h, s, c, n)
            /\ Tracks(t, s) => Tracks(h, s)
            /\ Shows(t, s, c) => Shows(h, s, c)
        <5>1. Polls(t) # {}
          BY <1>1
        <5>2. WritesPanel(t, w, panel)
          BY DEF WritesPanel
        <5> HIDE DEF w
        <5>3. QED
          BY <2>2, <2>3, <3>2, <5>1, <5>2, PanelHeard
      <4>2. heard = h
        BY <3>2
      <4> HIDE DEF h, heard
      <4>3. QED
        BY <1>1, <4>1, <4>2
    <3>3. QED
      BY <3>1, <3>2
  <2> HIDE DEF heard
  <2>5. /\ TabOK(v) /\ SameBoot(heard, v) /\ SameProbe(heard, v) /\ SameConn(t, v)
        /\ v.panel = panel /\ v.emitted = panel /\ v.timer = (panel \in Retrying)
        /\ Polls(v) = {r}
    <3> DEFINE f == panel \in Retrying
    <3>1. f \in BOOLEAN /\ v = [heard EXCEPT !.timer = f]
      BY <2>1
    <3> HIDE DEF f, v
    <3>2. /\ TabOK(v) /\ SameBoot(heard, v) /\ SameProbe(heard, v) /\ SameConn(heard, v)
          /\ v.panel = heard.panel /\ v.emitted = heard.emitted /\ v.timer = f
          /\ Polls(v) = Polls(heard)
      BY <1>5, <2>4, <3>1
    <3>3. QED
      BY <2>4, <3>2 DEF SameConn, f
  <2>6. /\ TabOK(u) /\ SameBoot(heard, u) /\ SameProbe(heard, u) /\ SameConn(t, u)
        /\ u.panel = panel /\ u.emitted = panel /\ u.timer = (panel \in Retrying)
        /\ Polls(u) = {}
    <3> HIDE DEF v
    <3>1. QED
      BY <1>4, <2>5 DEF SameBoot, SameProbe, SameConn
  <2> HIDE DEF u
  <2>7. PollSound(u, n, b)
    BY <2>4, <2>6 DEF PollSound, AtMostOne, SameProbe
  <2>8. GlassSound(u, s, c) /\ ProbeSound(u, n, b)
    BY <2>4, <2>6 DEF GlassSound, ProbeSound, SameBoot, SameProbe
  <2>9. \A q : ReadSound(q, heard, s, c, n) => ReadSound(q, u, s, c, n)
    BY <2>6 DEF ReadSound, SameBoot, SameProbe
  <2>10. BootSound(u, s, c, n)
    BY <2>4, <2>6, <2>9 DEF BootSound, SameBoot, SameProbe
  <2>11. (Tracks(t, s) => Tracks(u, s)) /\ (Shows(t, s, c) => Shows(u, s, c))
    BY <2>4, <2>6 DEF Tracks, Shows, Asking, SameBoot
  <2>12. QED
    BY <2>4, <2>6, <2>7, <2>8, <2>10, <2>11 DEF Keeps, Good, SameBoot, u
<1>8. QED
  BY <1>6, <1>7

\* Whatever answer is heard, superseded or not.
LEMMA AnsweredKeeps ==
    ASSUME NEW s, NEW c, NEW n, NEW b, World(s, c, n, b), NEW t, Good(t, s, c, n, b),
           NEW r \in t.reads, r.answer # "pending", NEW stalled \in BOOLEAN
    PROVE  LET u == Answered(t, r, stalled)
           IN Keeps(t, u, s, c, n, b) /\ Later(t.glass, u.glass) /\ SameConn(t, u)
<1> DEFINE u == Answered(t, r, stalled)
<1>0. r \in Read
  BY DEF Good, TabOK, Tab, Read
<1>1. CASE ~ r.current
  <2>1. u = Forget(t, r)
    BY <1>1 DEF Answered, StaleAnswered
  <2>2. /\ TabOK(u)
        /\ u.glass = t.glass /\ u.settled = t.settled /\ u.redrive = t.redrive
        /\ u.updating = t.updating /\ u.panel = t.panel /\ u.emitted = t.emitted
        /\ u.timer = t.timer /\ SameProbe(t, u) /\ SameConn(t, u)
        /\ \A k : Own(u, k) = Own(t, k) \ {r}
    BY <1>0, <2>1, ForgetDoes DEF Good
  <2>3. \A k : r \notin Own(t, k)
    BY <1>1 DEF Own
  <2>4. SamePoll(t, u) /\ SameBoot(t, u)
    BY <2>2, <2>3 DEF SamePoll, SameBoot, Polls, Boots
  <2>5. Later(t.glass, u.glass)
    BY <2>2 DEF Later, Good, TabOK, Tab
  <2>6. QED
    BY <2>2, <2>4, <2>5, ConnIsApart
<1>2. CASE r.current /\ r.kind = "poll"
  <2>1. r \in Polls(t)
    BY <1>2 DEF Polls, Own
  <2>2. u = Forget(PollAnswered(t, r, stalled), r)
    BY <1>2 DEF Answered
  <2>3. Keeps(t, u, s, c, n, b) /\ u.glass = t.glass /\ SameConn(t, u)
    BY <2>1, <2>2, PollAnswerKeeps
  <2>4. QED
    BY <2>3 DEF Later, Good, TabOK, Tab
<1>3. CASE r.current /\ r.kind = "active"
  <2>1. r \in Boots(t)
    BY <1>3 DEF Boots, Own, BootKinds
  <2>2. u = Forget(ActiveAnswered(t, r), r)
    BY <1>3 DEF Answered
  <2>3. QED
    BY <1>3, <2>1, <2>2, ActiveAnswerKeeps
<1>4. CASE r.current /\ r.kind = "detail"
  <2>1. r \in Boots(t)
    BY <1>4 DEF Boots, Own, BootKinds
  <2>2. u = Forget(DetailAnswered(t, r), r)
    BY <1>4 DEF Answered
  <2>3. QED
    BY <1>4, <2>1, <2>2, DetailAnswerKeeps, DeckAssumption
<1>5. CASE r.current /\ r.kind = "refetch"
  <2>1. r \in Boots(t)
    BY <1>5 DEF Boots, Own, BootKinds
  <2>2. u = Forget(RefetchAnswered(t, r), r)
    BY <1>5 DEF Answered
  <2>3. QED
    BY <1>5, <2>1, <2>2, RefetchAnswerKeeps, DeckAssumption
<1>6. QED
  BY <1>0, <1>1, <1>2, <1>3, <1>4, <1>5 DEF Read, Kinds, BootKinds

\* The poll's timer starts the one request there is.
LEMMA TickKeeps ==
    ASSUME NEW s, NEW c, NEW n, NEW b, World(s, c, n, b), NEW t, Good(t, s, c, n, b), t.timer
    PROVE  LET u == PollTick(t)
           IN Keeps(t, u, s, c, n, b) /\ u.glass = t.glass /\ SameConn(t, u)
<1> DEFINE v == [t EXCEPT !.timer = FALSE]
           q == Ask("poll", NoDeck, 0)
           u == PollTick(t)
<1>1. /\ TabOK(v) /\ SameBoot(t, v) /\ SameProbe(t, v) /\ SameConn(t, v)
      /\ v.panel = t.panel /\ v.emitted = t.emitted /\ ~ v.timer /\ Polls(v) = Polls(t)
  BY DEF Good, TabOK, Tab, SameBoot, SameProbe, SameConn, Boots, Polls, Own
<1>2. /\ q \in Read /\ NamesItsDeck(q) /\ q.current /\ q.kind = "poll" /\ q.answer = "pending"
  BY AskIs DEF Kinds, NamesItsDeck
<1>3. u = Issue(v, q)
  BY DEF PollTick
<1> HIDE DEF u, v, q
<1>4. /\ u = [v EXCEPT !.reads = u.reads] /\ TabOK(u)
      /\ \A k : Own(u, k) = Own(v, k) \cup (IF q.kind \in k THEN {q} ELSE {})
  BY <1>1, <1>2, <1>3, IssueDoes
<1>5. Polls(t) = {}
  BY DEF Good, PollSound
<1>6. Polls(u) = {q} /\ Boots(u) = Boots(t)
  BY <1>1, <1>2, <1>4, <1>5 DEF SameBoot, Boots, Polls, BootKinds
<1>7. /\ u.glass = v.glass /\ u.settled = v.settled /\ u.redrive = v.redrive
      /\ u.updating = v.updating /\ u.panel = v.panel /\ u.emitted = v.emitted
      /\ u.timer = v.timer /\ SameProbe(v, u) /\ SameConn(v, u)
  BY <1>1, <1>4 DEF TabOK, Tab, SameProbe, SameConn
<1>8. /\ SameBoot(t, u) /\ SameProbe(t, u) /\ SameConn(t, u)
      /\ u.panel = t.panel /\ u.emitted = t.emitted /\ ~ u.timer
  BY <1>1, <1>6, <1>7 DEF SameBoot, SameProbe, SameConn
<1>9. PollSound(u, n, b) /\ GlassSound(u, s, c) /\ ProbeSound(u, n, b)
  BY <1>2, <1>6, <1>8 DEF Good, PollSound, GlassSound, ProbeSound, SameBoot, SameProbe,
                          AtMostOne
<1>10. \A p : ReadSound(p, t, s, c, n) => ReadSound(p, u, s, c, n)
  BY <1>8 DEF ReadSound, SameBoot, SameProbe
<1>11. BootSound(u, s, c, n)
  BY <1>8, <1>10 DEF Good, BootSound, SameBoot, SameProbe
<1>12. (Tracks(t, s) => Tracks(u, s)) /\ (Shows(t, s, c) => Shows(u, s, c))
  BY <1>8 DEF Tracks, Shows, Asking, SameBoot
<1>13. QED
  BY <1>4, <1>8, <1>9, <1>11, <1>12 DEF Keeps, Good, SameBoot, u

-----------------------------------------------------------------------------
(* What the world does to a tab that stands still. *)

\* The slot gets another value.
LEMMA SlotMoves ==
    ASSUME NEW s, NEW c, NEW n, NEW b, World(s, c, n, b), NEW t, Good(t, s, c, n, b),
           NEW d \in Deck \cup {NoDeck}
    PROVE  Good(t, Append(s, d), c, n, b) /\ World(Append(s, d), c, n, b)
<1> DEFINE z == Append(s, d)
<1>1. /\ z \in Seq(Deck \cup {NoDeck}) /\ z # <<>> /\ Len(z) = Len(s) + 1 /\ Len(s) \in Nat
      /\ \A i \in 1..Len(s) : z[i] = s[i]
  BY DEF World
<1> HIDE DEF z
<1>2. t.glass.turn \in 1..Len(z) /\ z[t.glass.turn] = s[t.glass.turn]
  BY <1>1 DEF Good, GlassSound
<1>3. GlassSound(t, z, c)
  BY <1>2 DEF Good, GlassSound
<1>4. \A r \in Boots(t) : ReadSound(r, t, z, c, n)
  <2> TAKE r \in Boots(t)
  <2>1. ReadSound(r, t, s, c, n) /\ r.turn \in Nat /\ t.glass.turn \in 1..Len(s)
    BY OwnIsRead DEF Good, BootSound, GlassSound, Boots, Read
  <2>2. r.turn \in 1..Len(s) /\ r.turn <= Len(z)
    BY <1>1, <2>1 DEF ReadSound
  <2>3. z[r.turn] = s[r.turn]
    BY <1>1, <2>2
  <2>4. QED
    BY <2>1, <2>2, <2>3 DEF ReadSound
<1>5. BootSound(t, z, c, n)
  BY <1>4 DEF Good, BootSound
<1>6. QED
  BY <1>1, <1>3, <1>5 DEF Good, World, z

\* A deck is edited or deleted, which only its own notification will tell.
Edited(c, z, d, e) == z = [c EXCEPT ![d] = [ver |-> @.ver + 1, exists |-> e]]

LEMMA DeckMoves ==
    ASSUME NEW s, NEW c, NEW n, NEW b, World(s, c, n, b), NEW t, Good(t, s, c, n, b),
           NEW d \in Deck, NEW e \in BOOLEAN, c[d].exists,
           NEW z, Edited(c, z, d, e)
    PROVE  /\ Good(t, s, z, n, b) /\ World(s, z, n, b)
           /\ d # s[Len(s)] /\ Shows(t, s, c) => Shows(t, s, z)
<1>1. /\ z \in [Deck -> [ver: Nat, exists: BOOLEAN]]
      /\ \A f \in Deck : /\ c[f].ver \in Nat /\ z[f].ver \in Nat /\ c[f].ver <= z[f].ver
                         /\ z[f].exists => c[f].exists
                         /\ f # d => z[f] = c[f]
  BY DEF World, Edited
<1>2. GlassSound(t, s, z)
  <2>1. t.glass.ver \in Nat /\ (t.glass.status = "deck" => t.glass.deck \in Deck)
    BY DEF Good, TabOK, Tab
  <2>2. QED
    BY <1>1, <2>1 DEF Good, GlassSound
<1>3. \A r \in Boots(t) : ReadSound(r, t, s, z, n)
  <2> TAKE r \in Boots(t)
  <2>1. /\ ReadSound(r, t, s, c, n) /\ r.ver \in Nat /\ r.kind \in BootKinds
        /\ r.kind # "active" => r.deck \in Deck
    BY OwnIsRead DEF Good, BootSound, Boots, Read, BootKinds, NamesItsDeck
  <2>2. CASE r.kind = "active"
    BY <2>1, <2>2 DEF ReadSound
  <2>3. CASE r.kind # "active"
    <3>1. r.ver <= c[r.deck].ver => r.ver <= z[r.deck].ver
      BY <1>1, <2>1, <2>3
    <3>2. ~ c[r.deck].exists => ~ z[r.deck].exists
      BY <1>1, <2>1, <2>3
    <3>3. QED
      BY <2>1, <3>1, <3>2 DEF ReadSound
  <2>4. QED
    BY <2>2, <2>3
<1>4. BootSound(t, s, z, n)
  BY <1>3 DEF Good, BootSound
<1>5. ASSUME d # s[Len(s)], Shows(t, s, c) PROVE Shows(t, s, z)
  <2>1. s[Len(s)] \in Deck => z[s[Len(s)]] = c[s[Len(s)]]
    BY <1>1, <1>5
  <2>2. s[Len(s)] \in Deck \cup {NoDeck}
    BY DEF World
  <2>3. Wanted(s, z) = Wanted(s, c)
    BY <2>1, <2>2 DEF Wanted
  <2>4. ASSUME NEW r \in Boots(t), r.kind \in {"detail", "refetch"}, r.turn = Len(s),
               Fresh(r, c)
        PROVE  Fresh(r, z)
    <3>1. r.deck = s[Len(s)] /\ r.deck \in Deck
      BY <2>4, LoadedIs, DeckAssumption
    <3>2. QED
      BY <2>1, <2>4, <3>1 DEF Fresh
  <2>5. QED
    BY <1>5, <2>3, <2>4 DEF Shows
<1>6. QED
  BY <1>1, <1>2, <1>4, <1>5 DEF Good, World

\* The database begins to refuse reads, and ends.
LEMMA SpellBegins ==
    ASSUME NEW s, NEW c, NEW n, World(s, c, n, FALSE), NEW t, Good(t, s, c, n, FALSE)
    PROVE  Good(t, s, c, n + 1, TRUE)
<1>1. n \in Nat
  BY DEF World
<1>2. PollSound(t, n + 1, TRUE)
  BY <1>1 DEF Good, PollSound, ProbeSound
<1>3. ProbeSound(t, n + 1, TRUE)
  BY <1>1 DEF Good, ProbeSound
<1>4. \A r : ReadSound(r, t, s, c, n) => ReadSound(r, t, s, c, n + 1)
  BY <1>1 DEF Good, ProbeSound, ReadSound
<1>5. BootSound(t, s, c, n + 1)
  BY <1>1, <1>4 DEF Good, BootSound, ProbeSound
<1>6. QED
  BY <1>2, <1>3, <1>5 DEF Good

LEMMA SpellEnds ==
    ASSUME NEW s, NEW c, NEW n, NEW b, NEW t, Good(t, s, c, n, b)
    PROVE  Good(t, s, c, n, FALSE)
  BY DEF Good, PollSound, ProbeSound

Here(t) == Good(t, slots, content, spent.busy, busy)
WorldOK == World(slots, content, spent.busy, busy)

\* What the backend answers a read of this tab.
LEMMA ResponseIs ==
    ASSUME WorldOK, NEW r \in Read, NamesItsDeck(r), r.answer = "pending"
    PROVE  LET q == Response(r)
           IN /\ q \in Read /\ NamesItsDeck(q)
              /\ q.kind = r.kind /\ q.current = r.current /\ q.answer # "pending"
              /\ q.turn # r.turn => r.kind = "active"
              /\ q.deck # r.deck => r.kind = "active"
              /\ up /\ r.kind = "active" => q.answer = "id"
              /\ q.answer = "id" => /\ r.kind = "active" /\ q.turn = Len(slots)
                                    /\ q.deck = slots[Len(slots)]
              /\ q.answer = "decks" => ~ busy
              /\ q.answer = "unavailable" => busy /\ r.kind # "active"
              /\ q.answer = "missing" => r.kind \in {"detail", "refetch"}
                                         /\ ~ content[q.deck].exists
              /\ q.answer = "ok" => /\ r.kind \in {"detail", "refetch"}
                                    /\ content[q.deck].exists
                                    /\ q.ver = content[q.deck].ver
              /\ r.kind = "active" /\ q.answer # "id" => q.turn = r.turn /\ q.deck = r.deck
              /\ up /\ ~ busy /\ r.kind \in {"detail", "refetch"} => Fresh(q, content)
<1> DEFINE q == Response(r)
<1>1. /\ Len(slots) \in Nat /\ slots[Len(slots)] \in Deck \cup {NoDeck}
      /\ \A d \in Deck : content[d].ver \in Nat
  BY DEF WorldOK, World
<1>2. r.kind \in {"detail", "refetch"} => r.deck \in Deck
  BY DEF NamesItsDeck
<1>3. CASE ~ up
  <2>1. q = [r EXCEPT !.answer = "unreachable"]
    BY <1>3 DEF Response
  <2>2. QED
    BY <1>3, <2>1 DEF Read, Answer, NamesItsDeck
<1>4. CASE up /\ r.kind = "active"
  <2>1. q = [r EXCEPT !.answer = "id", !.deck = slots[Len(slots)], !.turn = Len(slots)]
    BY <1>4 DEF Response
  <2>2. QED
    BY <1>1, <1>4, <2>1 DEF Read, Answer, NamesItsDeck
<1>5. CASE up /\ r.kind = "poll"
  <2>1. q = [r EXCEPT !.answer = IF busy THEN "unavailable" ELSE "decks"]
    BY <1>5 DEF Response
  <2>2. QED
    BY <1>5, <2>1 DEF Read, Answer, NamesItsDeck
<1>6. CASE up /\ r.kind \in {"detail", "refetch"}
  <2>1. q = IF busy THEN [r EXCEPT !.answer = "unavailable"]
            ELSE IF ~ content[r.deck].exists THEN [r EXCEPT !.answer = "missing"]
            ELSE [r EXCEPT !.answer = "ok", !.ver = content[r.deck].ver]
    BY <1>6 DEF Response
  <2>2. CASE busy
    BY <1>6, <2>1, <2>2 DEF Read, Answer, NamesItsDeck
  <2>3. CASE ~ busy /\ ~ content[r.deck].exists
    BY <1>6, <2>1, <2>3 DEF Read, Answer, NamesItsDeck, Fresh
  <2>4. CASE ~ busy /\ content[r.deck].exists
    <3>1. content[r.deck].ver \in Nat
      BY <1>1, <1>2, <1>6
    <3>2. q = [r EXCEPT !.answer = "ok", !.ver = content[r.deck].ver]
      BY <2>1, <2>4
    <3>3. /\ q \in Read /\ q.kind = r.kind /\ q.current = r.current /\ q.answer = "ok"
          /\ q.turn = r.turn /\ q.deck = r.deck /\ q.ver = content[r.deck].ver
      BY <3>1, <3>2 DEF Read, Answer
    <3>4. NamesItsDeck(q) /\ Fresh(q, content)
      BY <2>4, <3>3 DEF NamesItsDeck, Fresh
    <3>5. QED
      BY <1>6, <2>4, <3>3, <3>4
  <2>5. QED
    BY <2>2, <2>3, <2>4
<1>7. QED
  BY <1>3, <1>4, <1>5, <1>6 DEF Read, Kinds, BootKinds

Served(r, u) == u = [tab EXCEPT !.reads = (@ \ {r}) \cup {Response(r)}]

\* A read is served, or finds no backend.
LEMMA ServeKeeps ==
    ASSUME WorldOK, Here(tab), NEW r \in tab.reads, r.answer = "pending",
           NEW u, Served(r, u)
    PROVE  /\ Here(u) /\ u.glass = tab.glass /\ SameConn(tab, u)
           /\ up /\ Tracks(tab, slots) => Tracks(u, slots)
           /\ up /\ spent.busy = 0 /\ Shows(tab, slots, content) => Shows(u, slots, content)
<1> DEFINE q == Response(r)
<1>1. r \in Read /\ NamesItsDeck(r) /\ TabOK(tab)
  BY DEF Here, Good, TabOK, Tab, Read
<1>2. /\ q \in Read /\ NamesItsDeck(q)
      /\ q.kind = r.kind /\ q.current = r.current /\ q.answer # "pending"
      /\ q.turn # r.turn => r.kind = "active"
      /\ q.deck # r.deck => r.kind = "active"
      /\ up /\ r.kind = "active" => q.answer = "id"
      /\ q.answer = "id" => /\ r.kind = "active" /\ q.turn = Len(slots)
                            /\ q.deck = slots[Len(slots)]
      /\ q.answer = "decks" => ~ busy
      /\ q.answer = "unavailable" => busy /\ r.kind # "active"
      /\ q.answer = "missing" => r.kind \in {"detail", "refetch"} /\ ~ content[q.deck].exists
      /\ q.answer = "ok" => /\ r.kind \in {"detail", "refetch"} /\ content[q.deck].exists
                            /\ q.ver = content[q.deck].ver
      /\ r.kind = "active" /\ q.answer # "id" => q.turn = r.turn /\ q.deck = r.deck
      /\ up /\ ~ busy /\ r.kind \in {"detail", "refetch"} => Fresh(q, content)
  BY <1>1, ResponseIs
<1> HIDE DEF q
<1>3. /\ u.reads = (tab.reads \ {r}) \cup {q}
      /\ u.glass = tab.glass /\ u.settled = tab.settled /\ u.redrive = tab.redrive
      /\ u.updating = tab.updating /\ u.panel = tab.panel /\ u.emitted = tab.emitted
      /\ u.timer = tab.timer /\ SameProbe(tab, u) /\ SameConn(tab, u)
  BY <1>1 DEF TabOK, Tab, SameProbe, SameConn, Served, q
<1>4. TabOK(u)
  <2>1. u \in Tab
    <3>1. (tab.reads \ {r}) \cup {q} \subseteq Read
      BY <1>1, <1>2 DEF TabOK, Tab, Read
    <3>2. u = [tab EXCEPT !.reads = (tab.reads \ {r}) \cup {q}]
      BY <1>1 DEF TabOK, Tab, Served, q
    <3>3. QED
      BY <1>1, <3>1, <3>2 DEF TabOK, Tab, Read
  <2>2. QED
    BY <1>1, <1>2, <1>3, <2>1 DEF TabOK
<1>5. \A k : Own(u, k) = IF r.current /\ r.kind \in k THEN (Own(tab, k) \ {r}) \cup {q}
                         ELSE Own(tab, k)
  BY <1>2, <1>3 DEF Own
<1>6. CASE ~ r.current
  <2>1. SamePoll(tab, u) /\ SameBoot(tab, u)
    BY <1>3, <1>5, <1>6 DEF SamePoll, SameBoot, Polls, Boots
  <2>2. QED
    BY <1>3, <1>4, <2>1, ConnIsApart DEF Here, Keeps
<1>7. CASE r.current /\ r.kind = "poll"
  <2>1. Polls(tab) = {r}
    BY <1>7 DEF Here, Good, PollSound, AtMostOne, Polls, Own
  <2>2. Polls(u) = {q} /\ Boots(u) = Boots(tab)
    BY <1>5, <1>7, <2>1 DEF Polls, Boots, BootKinds
  <2>3. SameBoot(tab, u)
    BY <1>3, <2>2 DEF SameBoot
  <2>4. PollSound(u, spent.busy, busy)
    BY <1>2, <1>3, <2>1, <2>2 DEF Here, Good, PollSound, SameProbe, AtMostOne
  <2>5. GlassSound(u, slots, content) /\ ProbeSound(u, spent.busy, busy)
    BY <1>3 DEF Here, Good, GlassSound, ProbeSound, SameProbe
  <2>6. \A p : ReadSound(p, tab, slots, content, spent.busy)
                  => ReadSound(p, u, slots, content, spent.busy)
    BY <1>3 DEF ReadSound, SameProbe
  <2>7. BootSound(u, slots, content, spent.busy)
    BY <1>3, <2>2, <2>6 DEF Here, Good, BootSound, SameProbe
  <2>8. /\ Tracks(tab, slots) => Tracks(u, slots)
        /\ Shows(tab, slots, content) => Shows(u, slots, content)
    BY <2>3 DEF Tracks, Shows, Asking, SameBoot
  <2>9. QED
    BY <1>3, <1>4, <2>4, <2>5, <2>7, <2>8 DEF Here, Good
<1>8. CASE r.current /\ r.kind \in BootKinds
  <2>1. r \in Boots(tab)
    BY <1>8 DEF Boots, Own
  <2>2. Boots(tab) = {r} /\ ReadSound(r, tab, slots, content, spent.busy)
    BY <2>1 DEF Here, Good, BootSound, AtMostOne
  <2>3. Boots(u) = {q} /\ Polls(u) = Polls(tab)
    BY <1>5, <1>8, <2>2 DEF Polls, Boots, BootKinds
  <2>4. SamePoll(tab, u)
    BY <1>3, <2>3 DEF SamePoll
  <2>5. /\ PollSound(u, spent.busy, busy)
        /\ GlassSound(u, slots, content) /\ ProbeSound(u, spent.busy, busy)
    BY <1>3, <2>4 DEF Here, Good, PollSound, GlassSound, ProbeSound, SamePoll, SameProbe
  <2>6. ReadSound(q, u, slots, content, spent.busy)
    <3>1. tab.glass.turn <= q.turn /\ q.turn <= Len(slots)
      <4>1. tab.glass.turn <= Len(slots) /\ Len(slots) <= Len(slots)
        BY DEF Here, Good, GlassSound, WorldOK, World
      <4>2. CASE q.turn = r.turn
        BY <2>2, <4>2 DEF ReadSound
      <4>3. CASE q.turn # r.turn
        BY <1>2, <4>1, <4>3
      <4>4. QED
        BY <4>2, <4>3
    <3>2. q.kind = "refetch" => /\ q.turn = tab.glass.turn /\ q.deck = tab.glass.deck
                                /\ tab.glass.status = "deck"
      BY <1>2, <2>2 DEF ReadSound
    <3>3. q.kind = "detail" => q.deck = slots[q.turn]
      BY <1>2, <2>2 DEF ReadSound
    <3>4. q.answer = "ok" =>
             /\ q.kind # "active" /\ q.ver <= content[q.deck].ver
             /\ tab.glass.status = "deck" /\ tab.glass.deck = q.deck
                   => tab.glass.ver <= q.ver
      <4>1. q.kind \in {"detail", "refetch"} => content[q.deck].ver \in Nat
        BY <1>2 DEF NamesItsDeck, WorldOK, World
      <4>2. tab.glass.status = "deck" => tab.glass.ver <= content[tab.glass.deck].ver
        BY DEF Here, Good, GlassSound
      <4>3. QED
        BY <1>2, <4>1, <4>2
    <3>5. q.answer = "unavailable" =>
             /\ spent.busy # 0
             /\ spent.busy <= 1 /\ tab.probeSpent /\ ~ tab.probeArmed => tab.redrive
      BY <1>2 DEF Here, Good, ProbeSound
    <3>6. QED
      BY <1>2, <1>3, <3>1, <3>2, <3>3, <3>4, <3>5 DEF ReadSound, SameProbe
  <2>7. BootSound(u, slots, content, spent.busy)
    BY <1>2, <1>3, <2>2, <2>3, <2>6 DEF Here, Good, BootSound, SameProbe, AtMostOne
  <2>8. up /\ Asking(tab, slots) => Asking(u, slots)
    BY <1>2, <1>3, <2>2, <2>3 DEF Asking
  <2>9. up /\ Tracks(tab, slots) => Tracks(u, slots)
    BY <1>2, <1>3, <2>2, <2>3, <2>8 DEF Tracks
  <2>10. up /\ spent.busy = 0 /\ Shows(tab, slots, content) => Shows(u, slots, content)
    <3>1. spent.busy = 0 => ~ busy
      BY DEF Here, Good, ProbeSound
    <3>2. QED
      BY <1>2, <1>3, <2>2, <2>3, <2>8, <3>1 DEF Shows
  <2>11. QED
    BY <1>3, <1>4, <2>5, <2>7, <2>9, <2>10 DEF Here, Good
<1>9. QED
  BY <1>1, <1>6, <1>7, <1>8 DEF Read, Kinds

Severed(t, u) ==
    u = [t EXCEPT !.reads = {IF r.answer = "pending" THEN [r EXCEPT !.answer = "unreachable"]
                             ELSE r : r \in @}]

\* The backend dies under the reads of the tab.
LEMMA DieKeeps ==
    ASSUME NEW s, NEW c, NEW n, NEW b, World(s, c, n, b), NEW t, Good(t, s, c, n, b),
           NEW u, Severed(t, u)
    PROVE  Good(u, s, c, n, b) /\ u.glass = t.glass /\ SameConn(t, u)
<1> DEFINE Cut(r) == IF r.answer = "pending" THEN [r EXCEPT !.answer = "unreachable"] ELSE r
<1>1. t \in Tab /\ \A r \in t.reads : r \in Read /\ NamesItsDeck(r)
  BY DEF Good, TabOK, Tab, Read
<1>2. \A r \in Read : LET q == Cut(r)
         IN /\ q \in Read /\ q.kind = r.kind /\ q.current = r.current /\ q.turn = r.turn
            /\ q.deck = r.deck /\ q.ver = r.ver
            /\ q.answer = r.answer \/ q.answer = "unreachable"
            /\ NamesItsDeck(r) => NamesItsDeck(q)
  BY DEF Read, Answer, NamesItsDeck
<1>3. /\ u.reads = {Cut(r) : r \in t.reads}
      /\ u.glass = t.glass /\ u.settled = t.settled /\ u.redrive = t.redrive
      /\ u.updating = t.updating /\ u.panel = t.panel /\ u.emitted = t.emitted
      /\ u.timer = t.timer /\ SameProbe(t, u) /\ SameConn(t, u)
  BY <1>1 DEF Tab, SameProbe, SameConn, Severed
<1>4. u \in Tab
  <2>1. {Cut(r) : r \in t.reads} \subseteq Read
    BY <1>1, <1>2
  <2>2. u = [t EXCEPT !.reads = {Cut(r) : r \in t.reads}]
    BY <1>1 DEF Tab, Severed
  <2> HIDE DEF Cut
  <2>3. QED
    BY <1>1, <2>1, <2>2 DEF Tab, Read
<1> HIDE DEF Cut
<1>5. TabOK(u)
  BY <1>1, <1>2, <1>3, <1>4 DEF Good, TabOK
<1>6. \A k : Own(u, k) = {Cut(r) : r \in Own(t, k)}
  BY <1>1, <1>2, <1>3 DEF Own
<1>7. Boots(u) = {Cut(r) : r \in Boots(t)} /\ Polls(u) = {Cut(r) : r \in Polls(t)}
  BY <1>6 DEF Boots, Polls
<1>8. \A k : \A r \in Own(t, k) : r \in Read
  BY <1>1 DEF Own
<1>9. PollSound(u, n, b)
  <2>1. AtMostOne(Polls(u)) /\ (Polls(u) = {} <=> Polls(t) = {})
    BY <1>7 DEF Good, PollSound, AtMostOne
  <2>2. \A q \in Polls(u) : q.answer = "decks" => \E r \in Polls(t) : r.answer = "decks"
    BY <1>2, <1>7, <1>8 DEF Polls
  <2>3. QED
    BY <1>3, <2>1, <2>2 DEF Good, PollSound, SameProbe
<1>10. GlassSound(u, s, c) /\ ProbeSound(u, n, b)
  BY <1>3 DEF Good, GlassSound, ProbeSound, SameProbe
<1>11. \A r \in Boots(t) : ReadSound(Cut(r), u, s, c, n)
  <2> TAKE r \in Boots(t)
  <2>1. r \in Read /\ ReadSound(r, t, s, c, n)
    BY <1>8 DEF Good, BootSound, Boots
  <2>2. QED
    BY <1>2, <1>3, <2>1 DEF ReadSound, SameProbe
<1>12. BootSound(u, s, c, n)
  <2>1. AtMostOne(Boots(u)) /\ (Boots(u) = {} <=> Boots(t) = {})
    BY <1>7 DEF Good, BootSound, AtMostOne
  <2>2. (\E q \in Boots(u) : q.kind \in {"active", "detail"})
           <=> \E r \in Boots(t) : r.kind \in {"active", "detail"}
    BY <1>2, <1>7, <1>8 DEF Boots
  <2>3. \A q \in Boots(u) : ReadSound(q, u, s, c, n)
    BY <1>7, <1>11
  <2>4. QED
    BY <1>3, <2>1, <2>2, <2>3 DEF Good, BootSound, SameProbe
<1>13. QED
  BY <1>3, <1>5, <1>9, <1>10, <1>12 DEF Good

-----------------------------------------------------------------------------
(* The wire, and the inductive invariant. *)

Has(w, kinds) == \E i \in 1..Len(w) : w[i].kind \in kinds
HasDeck(w, d) == \E i \in 1..Len(w) : w[i] = [kind |-> "deck", deck |-> d]

News == {"open", "active"}

\* A registered socket is of a living backend and not being closed; one that is
\* not has a close as its last frame, or has been heard to be gone.
Wires ==
    /\ registered => up /\ ~ Has(wire, {"close"})
    /\ ~ registered => IF wire = <<>> THEN tab.conn # "live"
                       ELSE wire[Len(wire)].kind = "close"

\* A live tab with no news on the wire follows the slot ...
Followed == registered /\ ~ Has(wire, News) => Tracks(tab, slots)

\* No frame on the wire and no notification owed is about to send the tab for
\* the deck in the slot.
Unannounced == /\ ~ Has(wire, News)
               /\ slots[Len(slots)] \notin owed /\ ~ HasDeck(wire, slots[Len(slots)])

\* ... and shows the deck in it, if the database has refused it nothing.
Seen == registered /\ spent.busy = 0 /\ Unannounced => Shows(tab, slots, content)

\* The inductive invariant.
Inv == TypeOK /\ Here(tab) /\ Wires /\ Followed /\ Seen

\* What a wire holds after a frame was put on it, and after one was taken off.
LEMMA WireGrows ==
    ASSUME NEW w \in Seq(Frame), NEW f \in Frame
    PROVE  /\ Append(w, f) \in Seq(Frame) /\ Append(w, f) # <<>>
           /\ Append(w, f)[Len(Append(w, f))] = f
           /\ \A k : Has(Append(w, f), k) <=> Has(w, k) \/ f.kind \in k
           /\ \A d : HasDeck(Append(w, f), d)
                        <=> HasDeck(w, d) \/ f = [kind |-> "deck", deck |-> d]
<1> DEFINE z == Append(w, f)
<1>1. /\ z \in Seq(Frame) /\ Len(z) = Len(w) + 1 /\ Len(w) \in Nat /\ z[Len(z)] = f
      /\ \A i \in 1..Len(w) : z[i] = w[i]
  OBVIOUS
<1> HIDE DEF z
<1>2. 1..Len(z) = 1..Len(w) \cup {Len(z)} /\ Len(z) \in 1..Len(z) /\ z # <<>>
  BY <1>1
<1>3. \A k : Has(z, k) <=> Has(w, k) \/ f.kind \in k
  BY <1>1, <1>2 DEF Has
<1>4. \A d : HasDeck(z, d) <=> HasDeck(w, d) \/ f = [kind |-> "deck", deck |-> d]
  BY <1>1, <1>2 DEF HasDeck
<1>5. QED
  BY <1>1, <1>2, <1>3, <1>4 DEF z

LEMMA WireDelivers ==
    ASSUME NEW w \in Seq(Frame), w # <<>>
    PROVE  /\ Head(w) \in Frame /\ Tail(w) \in Seq(Frame)
           /\ Tail(w) = <<>> => w[Len(w)] = Head(w)
           /\ Tail(w) # <<>> => Tail(w)[Len(Tail(w))] = w[Len(w)]
           /\ \A k : Has(w, k) <=> Has(Tail(w), k) \/ Head(w).kind \in k
           /\ \A d : HasDeck(w, d)
                        <=> HasDeck(Tail(w), d) \/ Head(w) = [kind |-> "deck", deck |-> d]
<1> DEFINE z == Tail(w)
<1>1. /\ z \in Seq(Frame) /\ Len(z) = Len(w) - 1 /\ Len(w) \in Nat /\ Len(w) >= 1
      /\ Head(w) = w[1] /\ w[1] \in Frame
      /\ \A i \in 1..Len(z) : z[i] = w[i + 1]
  OBVIOUS
<1> HIDE DEF z
<1>2. z = <<>> <=> Len(z) = 0
  BY <1>1, EmptySeq
<1>3. \A i \in 1..Len(w) : i = 1 \/ (i - 1 \in 1..Len(z) /\ w[i] = z[i - 1])
  <2> TAKE i \in 1..Len(w)
  <2>1. i # 1 => i - 1 \in 1..Len(z) /\ (i - 1) + 1 = i
    BY <1>1
  <2>2. QED
    BY <1>1, <2>1
<1>4. \A i \in 1..Len(z) : i + 1 \in 1..Len(w) /\ w[i + 1] = z[i]
  BY <1>1
<1>5. \A k : Has(w, k) <=> Has(z, k) \/ w[1].kind \in k
  BY <1>1, <1>3, <1>4 DEF Has
<1>6. \A d : HasDeck(w, d) <=> HasDeck(z, d) \/ w[1] = [kind |-> "deck", deck |-> d]
  <2> TAKE d
  <2> DEFINE f == [kind |-> "deck", deck |-> d]
  <2> HIDE DEF f
  <2>1. (\E i \in 1..Len(w) : w[i] = f) <=> (\E i \in 1..Len(z) : z[i] = f) \/ w[1] = f
    BY <1>1, <1>3, <1>4
  <2>2. QED
    BY <2>1 DEF HasDeck, f
<1>7. z = <<>> => w[Len(w)] = w[1]
  BY <1>1, <1>2
<1>8. z # <<>> => z[Len(z)] = w[Len(w)]
  <2>1. z # <<>> => Len(z) \in 1..Len(z) /\ Len(z) + 1 = Len(w)
    BY <1>1, <1>2
  <2>2. QED
    BY <1>4, <2>1
<1>9. QED
  BY <1>1, <1>5, <1>6, <1>7, <1>8 DEF z

LEMMA TypesGiveWorld == TypeOK => WorldOK /\ Len(slots) \in Nat
                                   /\ slots[Len(slots)] \in Deck \cup {NoDeck}
  BY BoundAssumption DEF TypeOK, WorldOK, World, Budget

LEMMA InvInit == Init => Inv
<1> SUFFICES ASSUME Init PROVE Inv
  OBVIOUS
<1> DEFINE a == Ask("active", NoDeck, 1)
           p == Ask("poll", NoDeck, 0)
<1>1. /\ a \in Read /\ a.kind = "active" /\ a.answer = "pending" /\ a.current /\ a.turn = 1
      /\ NamesItsDeck(a)
      /\ p \in Read /\ p.kind = "poll" /\ p.answer = "pending" /\ p.current /\ NamesItsDeck(p)
  BY AskIs DEF Kinds, BootKinds, NamesItsDeck
<1> HIDE DEF a, p
<1>2. /\ tab.reads = {a, p} /\ tab.updating /\ ~ tab.settled /\ ~ tab.redrive
      /\ ~ tab.probeSpent /\ ~ tab.probeArmed /\ tab.panel = "no-active-deck"
      /\ tab.emitted = "nothing" /\ ~ tab.timer /\ tab.conn = "reconnecting"
      /\ tab.glass.status = "booting" /\ tab.glass.turn = 1 /\ tab.glass.deck = NoDeck
  BY DEF Init, Mounted, Blank, a, p
<1>3. tab \in Tab
  <2>1. {a, p} \in SUBSET Read
    BY <1>1
  <2>2. [Blank(1) EXCEPT !.status = "booting"]
            \in [status: {"booting", "none", "refused", "deck"},
                 deck: Deck \cup {NoDeck}, turn: Nat, ver: Nat]
    BY DEF Blank
  <2>3. QED
    BY <2>1, <2>2 DEF Init, Mounted, Tab, Panel, Read, a, p
<1>4. TabOK(tab)
  BY <1>1, <1>2, <1>3 DEF TabOK
<1>5. Boots(tab) = {a} /\ Polls(tab) = {p}
  BY <1>1, <1>2 DEF Boots, Polls, Own, BootKinds
<1>6. slots = <<NoDeck>> /\ Len(slots) = 1 /\ slots[1] = NoDeck
      /\ slots \in Seq(Deck \cup {NoDeck}) /\ slots # <<>>
  BY DEF Init
<1>7. spent \in Budget /\ spent.busy = 0 /\ ~ busy /\ ~ registered /\ wire = <<>>
  BY BoundAssumption DEF Init, Budget
<1>8. TypeOK
  <2>1. content \in [Deck -> [ver: Nat, exists: BOOLEAN]]
    BY DEF Init
  <2>2. wire \in Seq(Frame)
    BY <1>7, EmptySeq
  <2>3. up \in BOOLEAN /\ busy \in BOOLEAN /\ owed \in SUBSET Deck /\ registered \in BOOLEAN
    BY DEF Init
  <2>4. QED
    BY <1>3, <1>6, <1>7, <2>1, <2>2, <2>3 DEF TypeOK
<1>9. PollSound(tab, spent.busy, busy)
  BY <1>1, <1>2, <1>5 DEF PollSound, AtMostOne, Retrying
<1>10. GlassSound(tab, slots, content) /\ ProbeSound(tab, spent.busy, busy)
  BY <1>2, <1>6, <1>7 DEF GlassSound, ProbeSound
<1>11. ReadSound(a, tab, slots, content, spent.busy)
  BY <1>1, <1>2, <1>6 DEF ReadSound
<1>12. BootSound(tab, slots, content, spent.busy)
  BY <1>1, <1>2, <1>5, <1>11 DEF BootSound, AtMostOne
<1>13. Wires /\ Followed /\ Seen
  <2>1. tab.conn # "live"
    BY <1>2
  <2>2. Wires
    BY <1>7, <2>1 DEF Wires
  <2>3. Followed /\ Seen
    BY <1>7 DEF Followed, Seen
  <2>4. QED
    BY <2>2, <2>3
<1>14. QED
  BY <1>4, <1>8, <1>9, <1>10, <1>12, <1>13 DEF Inv, Here, Good

-----------------------------------------------------------------------------
(* Every step keeps the invariant.                                         *)

\* Counting within the bounds.
LEMMA BoundsAreNat ==
    /\ MaxSets \in Nat /\ MaxEdits \in Nat /\ MaxRestarts \in Nat
    /\ MaxBusy \in Nat /\ MaxCloses \in Nat
  BY BoundAssumption

\* One more step within its bound.
LEMMA Counted == \A M \in Nat : \A n \in 0..M : n < M => n + 1 \in 0..M
  OBVIOUS

LEMMA Spending ==
    ASSUME NEW p \in Budget
    PROVE  /\ p.sets < MaxSets => [p EXCEPT !.sets = @ + 1] \in Budget
           /\ p.edits < MaxEdits => [p EXCEPT !.edits = @ + 1] \in Budget
           /\ p.restarts < MaxRestarts => [p EXCEPT !.restarts = @ + 1] \in Budget
           /\ p.busy < MaxBusy => [p EXCEPT !.busy = @ + 1] \in Budget
           /\ p.closes < MaxCloses => [p EXCEPT !.closes = @ + 1] \in Budget
           /\ [p EXCEPT !.sets = @ + 1].busy = p.busy
           /\ [p EXCEPT !.edits = @ + 1].busy = p.busy
           /\ [p EXCEPT !.restarts = @ + 1].busy = p.busy
           /\ [p EXCEPT !.closes = @ + 1].busy = p.busy
           /\ [p EXCEPT !.busy = @ + 1].busy = p.busy + 1 /\ p.busy \in Nat
<1>1. /\ p.sets < MaxSets => p.sets + 1 \in 0..MaxSets
      /\ p.edits < MaxEdits => p.edits + 1 \in 0..MaxEdits
      /\ p.restarts < MaxRestarts => p.restarts + 1 \in 0..MaxRestarts
      /\ p.busy < MaxBusy => p.busy + 1 \in 0..MaxBusy
      /\ p.closes < MaxCloses => p.closes + 1 \in 0..MaxCloses
  BY BoundsAreNat, Counted DEF Budget
<1>2. p.busy \in Nat
  BY BoundsAreNat DEF Budget
<1>3. QED
  BY <1>1, <1>2 DEF Budget

\* The slot and the news of it: whoever is registered has the frame on its wire.
LEMMA SetActiveStep == ASSUME Inv, NEW d \in Deck, SetActive(d) PROVE Inv'
<1> USE DEF SetActive
<1>1. TypeOK /\ WorldOK /\ Here(tab) /\ Wires
  BY TypesGiveWorld DEF Inv
<1>2. slots' \in Seq(Deck \cup {NoDeck}) /\ slots' # <<>>
  BY <1>1 DEF TypeOK
<1>3. Note("active") \in Frame /\ Note("active").kind = "active"
  BY DEF Note, Frame
<1>4. spent' \in Budget /\ spent'.busy = spent.busy
  BY <1>1, Spending DEF TypeOK
<1>5. /\ wire' \in Seq(Frame)
      /\ registered => Has(wire', News) /\ (Has(wire', {"close"}) => Has(wire, {"close"}))
  BY <1>1, <1>3, WireGrows DEF TypeOK, Broadcast, News
<1>6. TypeOK'
  BY <1>1, <1>2, <1>4, <1>5 DEF TypeOK
<1>7. Here(tab)'
  BY <1>1, <1>4, SlotMoves DEF Here, WorldOK
<1>8. Wires'
  BY <1>1, <1>5 DEF Wires, Broadcast
<1>9. Followed' /\ Seen'
  BY <1>5 DEF Followed, Seen, Unannounced
<1>10. QED
  BY <1>6, <1>7, <1>8, <1>9 DEF Inv

\* An edit is owed its notification, which is all Seen asks of it.
LEMMA EditDeckStep ==
    ASSUME Inv, NEW d \in Deck, NEW e \in BOOLEAN, EditDeck(d, e) PROVE Inv'
<1> USE DEF EditDeck
<1>1. TypeOK /\ WorldOK /\ Here(tab) /\ Wires /\ Followed /\ Seen
  BY TypesGiveWorld DEF Inv
<1>2. content' \in [Deck -> [ver: Nat, exists: BOOLEAN]]
  BY <1>1 DEF TypeOK
<1>3. spent' \in Budget /\ spent'.busy = spent.busy
  BY <1>1, Spending DEF TypeOK
<1>4. TypeOK'
  BY <1>1, <1>2, <1>3 DEF TypeOK
<1>5. /\ Here(tab)'
      /\ d # slots[Len(slots)] /\ Shows(tab, slots, content) => Shows(tab, slots, content')
  <2>1. Edited(content, content', d, e) /\ content[d].exists
    BY DEF Edited
  <2>2. /\ Good(tab, slots, content', spent.busy, busy)
        /\ d # slots[Len(slots)] /\ Shows(tab, slots, content) => Shows(tab, slots, content')
    BY <1>1, <2>1, DeckMoves DEF Here, WorldOK
  <2>3. QED
    BY <1>3, <2>2 DEF Here
<1>6. Wires' /\ Followed'
  BY <1>1 DEF Wires, Followed
<1>7. Seen'
  BY <1>1, <1>3, <1>5 DEF Seen, Unannounced
<1>8. QED
  BY <1>4, <1>5, <1>6, <1>7 DEF Inv

\* The notification is on the wire before it is no longer owed.
LEMMA PushStep == ASSUME Inv, NEW d \in Deck, PushDeckChanged(d) PROVE Inv'
<1> USE DEF PushDeckChanged
<1> DEFINE f == [kind |-> "deck", deck |-> d]
<1>1. TypeOK /\ WorldOK /\ Here(tab) /\ Wires /\ Followed /\ Seen
  BY TypesGiveWorld DEF Inv
<1>2. f \in Frame /\ f.kind = "deck" /\ f = [kind |-> "deck", deck |-> d]
  BY DEF Frame
<1> HIDE DEF f
<1>3. wire' = IF up /\ registered THEN Append(wire, f) ELSE wire
  BY <1>2 DEF Broadcast
<1>4. registered => up
  BY <1>1 DEF Wires
<1>5. wire' \in Seq(Frame)
  BY <1>1, <1>2, <1>3, WireGrows DEF TypeOK
<1>6. registered => /\ Has(wire', News) <=> Has(wire, News)
                    /\ Has(wire', {"close"}) <=> Has(wire, {"close"})
                    /\ \A x : HasDeck(wire', x) <=> HasDeck(wire, x)
                                 \/ f = [kind |-> "deck", deck |-> x]
  <2> SUFFICES ASSUME registered PROVE
                    /\ Has(wire', News) <=> Has(wire, News)
                    /\ Has(wire', {"close"}) <=> Has(wire, {"close"})
                    /\ \A x : HasDeck(wire', x) <=> HasDeck(wire, x)
                                 \/ f = [kind |-> "deck", deck |-> x]
    OBVIOUS
  <2>1. wire' = Append(wire, f) /\ wire \in Seq(Frame)
    BY <1>1, <1>3, <1>4 DEF TypeOK
  <2>2. f.kind \notin News /\ f.kind \notin {"close"}
    BY <1>2 DEF News
  <2>3. QED
    BY <1>2, <2>1, <2>2, WireGrows
<1>7. TypeOK' /\ Here(tab)'
  BY <1>1, <1>5 DEF TypeOK, Here
<1>8. Wires' /\ Followed'
  BY <1>1, <1>3, <1>6 DEF Wires, Followed
<1>9. Seen'
  <2>1. registered /\ ~ HasDeck(wire', slots[Len(slots)])
           => slots[Len(slots)] # d /\ ~ HasDeck(wire, slots[Len(slots)])
    BY <1>2, <1>6
  <2>2. QED
    BY <1>1, <1>6, <2>1 DEF Seen, Unannounced
<1>10. QED
  BY <1>7, <1>8, <1>9 DEF Inv

\* Whatever part of the wire survives a death, a close comes last.
LEMMA DieStep == ASSUME Inv, Die PROVE Inv'
<1> USE DEF Die
<1>1. TypeOK /\ WorldOK /\ Here(tab) /\ Wires
  BY TypesGiveWorld DEF Inv
<1>2. slots' \in Seq(Deck \cup {NoDeck}) /\ slots' # <<>>
  BY <1>1 DEF TypeOK
<1>3. spent' \in Budget /\ spent'.busy = spent.busy
  BY <1>1, Spending DEF TypeOK
<1>4. Note("close") \in Frame /\ Note("close").kind = "close"
  BY DEF Note, Frame
<1>5. /\ wire' \in Seq(Frame)
      /\ IF wire' = <<>> THEN tab.conn # "live" ELSE wire'[Len(wire')].kind = "close"
  <2>1. CASE registered
    <3>1. PICK n \in 0..Len(wire) : wire' = Append(SubSeq(wire, 1, n), Note("close"))
      BY <2>1
    <3>2. n \in Int /\ \A i \in 1..n : wire[i] \in Frame
      BY <1>1, <3>1 DEF TypeOK
    <3>3. SubSeq(wire, 1, n) \in Seq(Frame)
      BY <3>2, SubSeqProperties
    <3>4. QED
      BY <1>4, <3>1, <3>3, WireGrows
  <2>2. CASE ~ registered
    BY <1>1, <2>2 DEF TypeOK, Wires
  <2>3. QED
    BY <2>1, <2>2
<1>6. /\ Good(tab', slots, content, spent.busy, busy) /\ SameConn(tab, tab')
  <2>1. Severed(tab, tab')
    BY DEF Severed
  <2>2. QED
    BY <1>1, <2>1, DieKeeps DEF Here, WorldOK
<1>7. Here(tab)'
  BY <1>1, <1>3, <1>6, SlotMoves DEF Here, WorldOK
<1>8. tab' \in Tab
  BY <1>6 DEF Good, TabOK
<1>9. TypeOK'
  BY <1>1, <1>2, <1>3, <1>5, <1>8 DEF TypeOK
<1>10. Wires'
  BY <1>5, <1>6 DEF Wires, SameConn
<1>11. Followed' /\ Seen'
  BY DEF Followed, Seen
<1>12. QED
  BY <1>7, <1>9, <1>10, <1>11 DEF Inv

LEMMA RestartStep == ASSUME Inv, Restart PROVE Inv'
<1> USE DEF Restart
<1>1. TypeOK /\ Here(tab) /\ Wires /\ Followed /\ Seen
  BY DEF Inv
<1>2. TypeOK' /\ Here(tab)' /\ Wires' /\ Followed' /\ Seen'
  BY <1>1 DEF TypeOK, Here, Wires, Followed, Seen, Unannounced
<1>3. QED
  BY <1>2 DEF Inv

LEMMA DropTabStep == ASSUME Inv, DropTab PROVE Inv'
<1> USE DEF DropTab
<1>1. TypeOK /\ Here(tab)
  BY DEF Inv
<1>2. spent' \in Budget /\ spent'.busy = spent.busy
  BY <1>1, Spending DEF TypeOK
<1>3. Note("close") \in Frame /\ Note("close").kind = "close"
  BY DEF Note, Frame
<1>4. wire' \in Seq(Frame) /\ wire' # <<>> /\ wire'[Len(wire')].kind = "close"
  BY <1>1, <1>3, WireGrows DEF TypeOK
<1>5. TypeOK' /\ Here(tab)'
  BY <1>1, <1>2, <1>4 DEF TypeOK, Here
<1>6. Wires' /\ Followed' /\ Seen'
  BY <1>4 DEF Wires, Followed, Seen
<1>7. QED
  BY <1>5, <1>6 DEF Inv

LEMMA DatabaseBusyStep == ASSUME Inv, DatabaseBusy PROVE Inv'
<1> USE DEF DatabaseBusy
<1>1. TypeOK /\ WorldOK /\ Here(tab) /\ Wires /\ Followed
  BY TypesGiveWorld DEF Inv
<1>2. spent' \in Budget /\ spent'.busy = spent.busy + 1 /\ spent.busy \in Nat
  BY <1>1, Spending DEF TypeOK
<1>3. TypeOK'
  BY <1>1, <1>2 DEF TypeOK
<1>4. Here(tab)'
  <2>1. busy = FALSE /\ busy' = TRUE
    BY <1>1 DEF TypeOK
  <2>2. QED
    BY <1>1, <1>2, <2>1, SpellBegins DEF Here, WorldOK
<1>5. Wires' /\ Followed' /\ Seen'
  BY <1>1, <1>2 DEF Wires, Followed, Seen
<1>6. QED
  BY <1>3, <1>4, <1>5 DEF Inv

LEMMA DatabaseReadyStep == ASSUME Inv, DatabaseReady PROVE Inv'
<1> USE DEF DatabaseReady
<1>1. TypeOK /\ Here(tab) /\ Wires /\ Followed /\ Seen
  BY DEF Inv
<1>2. Here(tab)'
  BY <1>1, SpellEnds DEF Here
<1>3. TypeOK' /\ Wires' /\ Followed' /\ Seen'
  BY <1>1 DEF TypeOK, Wires, Followed, Seen, Unannounced
<1>4. QED
  BY <1>2, <1>3 DEF Inv

\* A step of the tab's own that keeps it good, on the track it was on and
\* bound for the deck it was bound for, and leaves its socket alone.
LEMMA TabStep ==
    ASSUME Inv, UNCHANGED <<serverVars, registered, wire>>, Here(tab'),
           SameConn(tab, tab') \/ tab'.conn # "live",
           up /\ Tracks(tab, slots) => Tracks(tab', slots),
           up /\ spent.busy = 0 /\ Shows(tab, slots, content) => Shows(tab', slots, content)
    PROVE  Inv'
<1> USE DEF serverVars
<1>1. TypeOK /\ Wires /\ Followed /\ Seen
  BY DEF Inv
<1>2. Here(tab)'
  BY DEF Here
<1>3. tab' \in Tab
  BY DEF Here, Good, TabOK
<1>4. TypeOK'
  BY <1>1, <1>3 DEF TypeOK
<1>5. Wires'
  BY <1>1 DEF Wires, SameConn
<1>6. Followed' /\ Seen'
  BY <1>1 DEF Wires, Followed, Seen, Unannounced
<1>7. QED
  BY <1>2, <1>4, <1>5, <1>6 DEF Inv

LEMMA ServeStep == ASSUME Inv, NEW r \in tab.reads, Serve(r) PROVE Inv'
<1>1. WorldOK /\ Here(tab)
  BY TypesGiveWorld DEF Inv
<1>2. Served(r, tab') /\ r.answer = "pending" /\ UNCHANGED <<serverVars, registered, wire>>
  BY DEF Serve, Served
<1>3. /\ Here(tab') /\ SameConn(tab, tab')
      /\ up /\ Tracks(tab, slots) => Tracks(tab', slots)
      /\ up /\ spent.busy = 0 /\ Shows(tab, slots, content) => Shows(tab', slots, content)
  BY <1>1, <1>2, ServeKeeps
<1>4. QED
  BY <1>2, <1>3, TabStep

\* What the tab hears keeps it good, and its glass never goes back.
LEMMA HearDoes ==
    ASSUME Inv, NEW r \in tab.reads, Hear(r)
    PROVE  /\ Keeps(tab, tab', slots, content, spent.busy, busy)
           /\ Later(tab.glass, tab'.glass) /\ SameConn(tab, tab')
<1>1. WorldOK /\ Here(tab)
  BY TypesGiveWorld DEF Inv
<1>2. PICK stalled \in {FALSE, MayStall(r)} : tab' = Answered(tab, r, stalled)
  BY DEF Hear
<1>3. MayStall(r) \in BOOLEAN
  BY BoundAssumption DEF MayStall
<1>4. stalled \in BOOLEAN
  BY <1>2, <1>3
<1>5. r.answer # "pending"
  BY DEF Hear
<1>6. QED
  BY <1>1, <1>2, <1>4, <1>5, AnsweredKeeps DEF Here, WorldOK

LEMMA HearStep == ASSUME Inv, NEW r \in tab.reads, Hear(r) PROVE Inv'
<1>1. /\ Here(tab') /\ SameConn(tab, tab')
      /\ Tracks(tab, slots) => Tracks(tab', slots)
      /\ Shows(tab, slots, content) => Shows(tab', slots, content)
  BY HearDoes DEF Keeps, Here
<1>2. UNCHANGED <<serverVars, registered, wire>>
  BY DEF Hear
<1>3. QED
  BY <1>1, <1>2, TabStep

LEMMA PollTimerStep == ASSUME Inv, PollTimer PROVE Inv' /\ tab'.glass = tab.glass
<1>1. WorldOK /\ Here(tab)
  BY TypesGiveWorld DEF Inv
<1>2. /\ Keeps(tab, tab', slots, content, spent.busy, busy)
      /\ tab'.glass = tab.glass /\ SameConn(tab, tab')
  BY <1>1, TickKeeps DEF PollTimer, Here, WorldOK
<1>3. UNCHANGED <<serverVars, registered, wire>>
  BY DEF PollTimer
<1>4. QED
  BY <1>2, <1>3, TabStep DEF Keeps, Here

\* A new socket's first frame has the tab ask for what it missed.
LEMMA ConnectStep == ASSUME Inv, Connect PROVE Inv'
<1> USE DEF Connect, serverVars
<1>1. TypeOK /\ Here(tab)
  BY DEF Inv
<1>2. Note("open") \in Frame /\ Note("open").kind = "open"
  BY DEF Note, Frame
<1>3. /\ wire' \in Seq(Frame) /\ Len(wire') = 1 /\ wire'[1] = Note("open")
  BY <1>2
<1>4. Has(wire', News) /\ ~ Has(wire', {"close"})
  BY <1>2, <1>3 DEF Has, News
<1>5. TypeOK' /\ Here(tab)'
  BY <1>1, <1>3 DEF TypeOK, Here
<1>6. Wires' /\ Followed' /\ Seen'
  BY <1>4 DEF Wires, Followed, Seen, Unannounced
<1>7. QED
  BY <1>5, <1>6 DEF Inv

LEMMA AttemptFailsStep == ASSUME Inv, AttemptFails PROVE Inv' /\ tab'.glass = tab.glass
<1>1. WorldOK /\ Here(tab)
  BY TypesGiveWorld DEF Inv
<1>2. PICK status \in StatusAfterFailure(tab) : tab' = SocketFailed(tab, status)
  BY DEF AttemptFails
<1>3. /\ Keeps(tab, tab', slots, content, spent.busy, busy)
      /\ tab'.glass = tab.glass /\ tab'.conn # "live"
  BY <1>1, <1>2, FailedKeeps DEF Here, WorldOK
<1>4. UNCHANGED <<serverVars, registered, wire>>
  BY DEF AttemptFails
<1>5. QED
  BY <1>3, <1>4, TabStep DEF Keeps, Here

\* A frame arrives: an open or a slot frame has the tab ask again, a deck frame
\* has it read that deck again, and a close is heard only once the backend has
\* let the socket go.
LEMMA DeliverStep == ASSUME Inv, Deliver PROVE Inv' /\ tab'.glass = tab.glass
<1> USE DEF serverVars
<1>1. TypeOK /\ WorldOK /\ Here(tab) /\ Wires /\ Followed /\ Seen
  BY TypesGiveWorld DEF Inv
<1> DEFINE f == Head(wire)
           w == Tail(wire)
<1>2. /\ wire # <<>> /\ wire' = w /\ UNCHANGED <<serverVars, registered>>
      /\ wire \in Seq(Frame)
  BY <1>1 DEF Deliver, TypeOK
<1>3. /\ f \in Frame /\ w \in Seq(Frame)
      /\ w = <<>> => wire[Len(wire)] = f
      /\ w # <<>> => w[Len(w)] = wire[Len(wire)]
      /\ \A k : Has(wire, k) <=> Has(w, k) \/ f.kind \in k
      /\ \A d : HasDeck(wire, d) <=> HasDeck(w, d) \/ f = [kind |-> "deck", deck |-> d]
  BY <1>2, WireDelivers
<1>4. /\ f.kind = "open" => tab' = SocketOpened(tab)
      /\ f.kind = "active" => tab' = ActiveDeckChanged(tab)
      /\ f.kind = "deck" => tab' = DeckChanged(tab, f.deck)
      /\ f.kind = "close" =>
            \E status \in StatusAfterFailure(tab) : tab' = SocketFailed(tab, status)
      /\ f.kind \in {"open", "active", "deck", "close"}
  <2>1. f.kind \in {"open", "active", "deck", "close"}
    BY <1>3 DEF Frame
  <2>2. QED
    BY <2>1 DEF Deliver
<1> HIDE DEF f, w
<1>5. /\ Here(tab') /\ tab'.glass = tab.glass
      /\ f.kind \in News => Tracks(tab', slots) /\ Shows(tab', slots, content)
      /\ Tracks(tab, slots) => Tracks(tab', slots)
      /\ f.kind \in {"open", "active", "close"} =>
            (Shows(tab, slots, content) => Shows(tab', slots, content))
      /\ f.kind = "deck" =>
            (Tracks(tab, slots) /\ (f.deck = slots[Len(slots)] \/ Shows(tab, slots, content))
               => Shows(tab', slots, content))
      /\ f.kind = "close" => tab'.conn # "live"
  <2>1. CASE f.kind = "open"
    BY <1>1, <1>4, <2>1, OpenedKeeps DEF Here, WorldOK, News
  <2>2. CASE f.kind = "active"
    BY <1>1, <1>4, <2>2, ActiveKeeps DEF Here, WorldOK, News
  <2>3. CASE f.kind = "deck"
    BY <1>1, <1>4, <2>3, DeckKeeps, DeckAssumption DEF Here, WorldOK, News
  <2>4. CASE f.kind = "close"
    BY <1>1, <1>4, <2>4, FailedKeeps DEF Here, WorldOK, News, Keeps
  <2>5. QED
    BY <1>4, <2>1, <2>2, <2>3, <2>4
<1>6. Here(tab)'
  BY <1>2, <1>5 DEF Here
<1>7. tab' \in Tab
  BY <1>5 DEF Here, Good, TabOK
<1>8. TypeOK'
  BY <1>1, <1>2, <1>3, <1>7 DEF TypeOK
<1>9. Wires'
  <2>1. CASE registered
    BY <1>1, <1>2, <1>3, <2>1 DEF Wires
  <2>2. CASE ~ registered
    BY <1>1, <1>2, <1>3, <1>5, <2>2 DEF Wires
  <2>3. QED
    BY <2>1, <2>2
<1>10. registered => f.kind # "close"
  BY <1>1, <1>3 DEF Wires
<1>11. Followed'
  BY <1>1, <1>2, <1>3, <1>5 DEF Followed
<1>12. Seen'
  <2> SUFFICES ASSUME registered, spent.busy = 0, ~ Has(w, News),
                      slots[Len(slots)] \notin owed, ~ HasDeck(w, slots[Len(slots)])
               PROVE  Shows(tab', slots, content)
    BY <1>2 DEF Seen, Unannounced
  <2>1. CASE f.kind \in News
    BY <1>5, <2>1
  <2>2. CASE f.kind = "deck"
    <3>1. ~ Has(wire, News)
      BY <1>3, <2>2 DEF News
    <3>2. Tracks(tab, slots)
      BY <1>1, <3>1 DEF Followed
    <3>3. CASE f.deck = slots[Len(slots)]
      BY <1>5, <2>2, <3>2, <3>3
    <3>4. CASE f.deck # slots[Len(slots)]
      <4>1. f # [kind |-> "deck", deck |-> slots[Len(slots)]]
        BY <3>4
      <4>2. Shows(tab, slots, content)
        BY <1>1, <1>3, <3>1, <4>1 DEF Seen, Unannounced
      <4>3. QED
        BY <1>5, <2>2, <3>2, <4>2
    <3>5. QED
      BY <3>3, <3>4
  <2>3. QED
    BY <1>4, <1>10, <2>1, <2>2 DEF News
<1>13. QED
  BY <1>5, <1>6, <1>8, <1>9, <1>11, <1>12 DEF Inv

\* One step per action.
LEMMA InvStep == Inv /\ [Next]_vars => Inv'
<1> SUFFICES ASSUME Inv, [Next]_vars PROVE Inv'
  OBVIOUS
<1>1. ASSUME NEW d \in Deck, SetActive(d) PROVE Inv'
  BY <1>1, SetActiveStep
<1>2. ASSUME NEW d \in Deck, EditDeck(d, TRUE) \/ EditDeck(d, FALSE) PROVE Inv'
  BY <1>2, EditDeckStep
<1>3. CASE Die
  BY <1>3, DieStep
<1>4. CASE DropTab
  BY <1>4, DropTabStep
<1>5. CASE DatabaseBusy
  BY <1>5, DatabaseBusyStep
<1>6. ASSUME NEW d \in Deck, PushDeckChanged(d) PROVE Inv'
  BY <1>6, PushStep
<1>7. CASE Restart
  BY <1>7, RestartStep
<1>8. CASE DatabaseReady
  BY <1>8, DatabaseReadyStep
<1>9. ASSUME NEW r \in tab.reads, Serve(r) PROVE Inv'
  BY <1>9, ServeStep
<1>10. ASSUME NEW r \in tab.reads, Hear(r) PROVE Inv'
  BY <1>10, HearStep
<1>11. CASE PollTimer
  BY <1>11, PollTimerStep
<1>12. CASE Connect
  BY <1>12, ConnectStep
<1>13. CASE AttemptFails
  BY <1>13, AttemptFailsStep
<1>14. CASE Deliver
  BY <1>14, DeliverStep
<1>15. CASE UNCHANGED vars
  <2>1. TypeOK' /\ Here(tab)' /\ Wires' /\ Followed' /\ Seen'
    BY <1>15 DEF vars, Inv, TypeOK, Here, Wires, Followed, Seen, Unannounced
  <2>2. QED
    BY <2>1 DEF Inv
<1>16. QED
  BY <1>1, <1>2, <1>3, <1>4, <1>5, <1>6, <1>7, <1>8, <1>9, <1>10, <1>11, <1>12, <1>13,
     <1>14, <1>15 DEF Next, Environment

LEMMA InvHolds == Spec => []Inv
  BY InvInit, InvStep, PTL DEF Spec

-----------------------------------------------------------------------------
(* The theorems. *)

\* Every variable keeps its type: the tab's record and its reads, the slot's
\* history, the frames on the wire.
THEOREM TypeCorrect == Spec => []TypeOK
<1>1. Inv => TypeOK
  BY DEF Inv
<1>2. QED
  BY <1>1, InvHolds, PTL

\* At most one, counted.
LEMMA FewIs == \A S : AtMostOne(S) => Cardinality(S) <= 1
<1> TAKE S
<1> SUFFICES ASSUME AtMostOne(S) PROVE Cardinality(S) <= 1
  OBVIOUS
<1>1. CASE S = {}
  BY <1>1, FS_EmptySet
<1>2. CASE S # {}
  <2>1. PICK r \in S : S = {r}
    BY <1>2 DEF AtMostOne
  <2>2. Cardinality({r}) = 1
    BY FS_Singleton
  <2>3. QED
    BY <2>1, <2>2
<1>3. QED
  BY <1>1, <1>2

\* What is under way, seen through the requests that own their store.
LEMMA BusyIs ==
    ASSUME NEW t
    PROVE  /\ \A kinds : Busy(t, kinds) <=> Own(t, kinds) # {}
           /\ Boots(t) # {} => Busy(t, Kinds)
           /\ Polls(t) # {} <=> Busy(t, {"poll"})
           /\ Busy(t, {"poll"}) => Busy(t, Kinds)
           /\ (\E r \in Boots(t) : r.kind \in {"active", "detail"})
                 => Busy(t, {"active", "detail"})
  BY DEF Busy, Own, Boots, Polls, Kinds

\* The tab's account of its own work: the updating mark is up exactly while a
\* boot request is under way, an unsettled boot is reading, there is one boot
\* and one poll, and never a poll request beside the poll's timer -- for any
\* interleaving of restarts, re-drives, refetches, probes and failures.
THEOREM ChainsHold == Spec => []ChainsAreAccountable
<1>1. Inv => ChainsAreAccountable
  <2> SUFFICES ASSUME Inv PROVE ChainsAreAccountable
    OBVIOUS
  <2>1. PollSound(tab, spent.busy, busy) /\ BootSound(tab, slots, content, spent.busy)
    BY DEF Inv, Here, Good
  <2>2. UpdatingMatchesInFlight
    BY <2>1, BusyIs DEF UpdatingMatchesInFlight, BootSound, Boots
  <2>3. UnsettledBootIsReading
    BY <2>1, BusyIs DEF UnsettledBootIsReading, BootSound
  <2>4. OneChainEach
    BY <2>1, BusyIs, FewIs DEF OneChainEach, BootSound, PollSound, Boots, Polls, Own
  <2>5. QED
    BY <2>2, <2>3, <2>4 DEF ChainsAreAccountable
<1>2. QED
  BY <1>1, InvHolds, PTL

\* A tab at rest has followed the slot to its last value, whatever it missed on
\* the way, and if the database never refused a read it shows that deck as the
\* database has it: nothing but Tracks and Shows is left of what could be under
\* way.
THEOREM RestingIsCurrent == Spec => []RestingGlassIsCurrent
<1>1. Inv => RestingGlassIsCurrent
  <2> SUFFICES ASSUME Inv, Resting
               PROVE  /\ tab.glass.turn = Len(slots)
                      /\ tab.glass.deck \in {slots[Len(slots)], NoDeck}
                      /\ spent.busy = 0 => ShowsSlot
    BY DEF RestingGlassIsCurrent
  <2>1. Wires /\ Followed /\ Seen /\ Here(tab)
    BY DEF Inv
  <2>2. registered
    BY <2>1 DEF Resting, Wires
  <2>3. ~ Has(wire, News) /\ \A d : ~ HasDeck(wire, d)
    BY EmptySeq DEF Resting, Has, HasDeck
  <2>4. Boots(tab) = {}
    BY BusyIs DEF Resting
  <2>5. ~ Asking(tab, slots)
    BY <2>1, <2>4 DEF Asking, Here, Good, BootSound
  <2>6. tab.glass.turn = Len(slots)
    BY <2>1, <2>2, <2>3, <2>4, <2>5 DEF Followed, Tracks
  <2>7. tab.glass.deck \in {slots[Len(slots)], NoDeck}
    BY <2>1, <2>6 DEF Here, Good, GlassSound
  <2>8. spent.busy = 0 => Shows(tab, slots, content)
    BY <2>1, <2>2, <2>3 DEF Resting, Seen, Unannounced
  <2>9. spent.busy = 0 => tab.glass = Wanted(slots, content)
    BY <2>4, <2>5, <2>8 DEF Shows
  <2>10. QED
    BY <2>6, <2>7, <2>9 DEF ShowsSlot, Wanted
<1>2. QED
  BY <1>1, InvHolds, PTL

\* A panel that says it re-tries is polled, and in one spell of refusals a glass
\* that says reads will resume is never at rest: the poll is on, or the probe it
\* earned is, or the refused boot was re-driven.
THEOREM PromisesHold == Spec => []PromisesAreKept
<1>1. Inv => PromisesAreKept
  <2> SUFFICES ASSUME Inv PROVE PromisesAreKept
    OBVIOUS
  <2>1. /\ PollSound(tab, spent.busy, busy) /\ BootSound(tab, slots, content, spent.busy)
        /\ tab \in Tab
    BY DEF Inv, Here, Good, TabOK
  <2>2. RetryingPanelIsPolled
    BY <2>1, BusyIs DEF RetryingPanelIsPolled, PollSound
  <2>3. RefusalIsRetried
    <3> SUFFICES ASSUME spent.busy <= 1, Surface(tab) = "database-updating",
                        tab.panel # "database-updating-stalled", Resting
                 PROVE  FALSE
      BY DEF RefusalIsRetried
    <3>1. /\ tab.conn = "live" /\ ~ tab.timer /\ Boots(tab) = {} /\ Polls(tab) = {}
      BY BusyIs DEF Resting
    <3>2. tab.panel # "database-updating"
      BY <2>1, <3>1 DEF PollSound, Retrying
    <3>3. tab.panel = "no-active-deck"
      BY <2>1, <3>2 DEF Tab, Panel
    <3>4. tab.glass.status \in {"booting", "none", "refused", "deck"}
      BY <2>1 DEF Tab
    <3>5. tab.glass.status = "refused"
      <4>1. tab.glass.status \in {"booting", "deck"} => Surface(tab) = tab.glass.status
        BY <3>1 DEF Surface
      <4>2. tab.glass.status = "none" => Surface(tab) = tab.panel
        BY <3>1 DEF Surface
      <4>3. QED
        BY <3>2, <3>4, <4>1, <4>2
    <3>6. tab.settled
      BY <2>1, <3>1 DEF BootSound
    <3>7. tab.probeSpent
      BY <2>1, <3>3, <3>5, <3>6 DEF BootSound
    <3>8. ~ tab.probeArmed
      BY <2>1, <3>1 DEF PollSound
    <3>9. QED
      BY <2>1, <3>6, <3>7, <3>8 DEF BootSound
  <2>4. QED
    BY <2>2, <2>3 DEF PromisesAreKept
<1>2. QED
  BY <1>1, InvHolds, PTL

\* Only an answer that is heard changes the glass.
LEMMA GlassMoves ==
    ASSUME Inv, [Next]_vars
    PROVE  \/ tab'.glass = tab.glass
           \/ /\ Later(tab.glass, tab'.glass) /\ UNCHANGED slots
              /\ GlassSound(tab', slots, content)
<1>1. ASSUME NEW d \in Deck, SetActive(d) \/ EditDeck(d, TRUE) \/ EditDeck(d, FALSE)
                             \/ PushDeckChanged(d)
      PROVE  tab'.glass = tab.glass
  BY <1>1 DEF SetActive, EditDeck, PushDeckChanged
<1>2. CASE DropTab \/ DatabaseBusy \/ DatabaseReady \/ Restart \/ Connect \/ UNCHANGED vars
  BY <1>2 DEF DropTab, DatabaseBusy, DatabaseReady, Restart, Connect, vars
<1>3. CASE Die
  <2>1. tab \in Tab
    BY DEF Inv, TypeOK
  <2>2. QED
    BY <1>3, <2>1 DEF Die, Tab
<1>4. ASSUME NEW r \in tab.reads, Serve(r) PROVE tab'.glass = tab.glass
  <2>1. tab \in Tab
    BY DEF Inv, TypeOK
  <2>2. QED
    BY <1>4, <2>1 DEF Serve, Tab
<1>5. CASE PollTimer \/ AttemptFails \/ Deliver
  BY <1>5, PollTimerStep, AttemptFailsStep, DeliverStep
<1>6. ASSUME NEW r \in tab.reads, Hear(r)
      PROVE  /\ Later(tab.glass, tab'.glass) /\ UNCHANGED slots
             /\ GlassSound(tab', slots, content)
  BY <1>6, HearDoes DEF Hear, serverVars, Keeps, Good
<1>7. QED
  BY <1>1, <1>2, <1>3, <1>4, <1>5, <1>6 DEF Next, Environment

\* The glass never goes back, neither to an earlier value of the slot nor to an
\* older version of the deck it shows: a superseded answer paints nothing and a
\* current one is never older than the glass.
THEOREM NeverBack == Spec => NoStalePaint
<1>1. Inv /\ [Next]_vars =>
        [/\ tab'.glass.turn >= tab.glass.turn
         /\ (tab.glass.status = "deck" /\ tab'.glass.status = "deck"
               /\ tab'.glass.deck = tab.glass.deck)
              => tab'.glass.ver >= tab.glass.ver]_vars
  <2> SUFFICES ASSUME Inv, [Next]_vars
               PROVE  /\ tab'.glass.turn >= tab.glass.turn
                      /\ (tab.glass.status = "deck" /\ tab'.glass.status = "deck"
                            /\ tab'.glass.deck = tab.glass.deck)
                           => tab'.glass.ver >= tab.glass.ver
    OBVIOUS
  <2>1. tab \in Tab /\ tab' \in Tab
    BY InvStep DEF Inv, TypeOK
  <2>2. /\ tab.glass.turn \in Nat /\ tab.glass.ver \in Nat
        /\ tab'.glass.turn \in Nat /\ tab'.glass.ver \in Nat
    BY <2>1 DEF Tab
  <2>3. QED
    BY <2>2, GlassMoves DEF Later
<1>2. QED
  BY <1>1, InvHolds, PTL DEF Spec, NoStalePaint

\* What the glass shows of the slot's history is what the abstract display
\* promises: every step of the two is a publication, the glass following to a
\* later one, or nothing.
THEOREM DisplaySteps == Spec => Display!Init /\ [][Display!Next]_Display!vars
<1>1. Init => Display!Init
  BY DEF Init, Mounted, Blank, Display!Init
<1>2. Inv /\ [Next]_vars => [Display!Next]_Display!vars
  <2> SUFFICES ASSUME Inv, [Next]_vars PROVE [Display!Next]_Display!vars
    OBVIOUS
  <2>1. \/ UNCHANGED slots
        \/ /\ \E d \in Deck \cup {NoDeck} : slots' = Append(slots, d)
           /\ tab'.glass = tab.glass
    <3>1. \A d \in Deck : SetActive(d) => slots' = Append(slots, d) /\ tab'.glass = tab.glass
      BY DEF SetActive
    <3>2. Die => slots' = Append(slots, NoDeck) /\ tab'.glass = tab.glass
      BY DEF Die, Inv, TypeOK, Tab
    <3>3. QED
      BY <3>1, <3>2 DEF Next, Environment, EditDeck, PushDeckChanged, DropTab,
         DatabaseBusy, DatabaseReady, Restart, Connect, Serve, Hear, PollTimer,
         AttemptFails, Deliver, serverVars, vars
  <2>2. CASE tab'.glass = tab.glass
    BY <2>1, <2>2 DEF Display!Next, Display!Publish, Display!vars
  <2>3. CASE tab'.glass # tab.glass
    <3>1. /\ Later(tab.glass, tab'.glass) /\ UNCHANGED slots
          /\ GlassSound(tab', slots, content)
      BY <2>3, GlassMoves
    <3>2. tab.glass.turn \in Nat /\ tab'.glass.turn \in Nat
      BY InvStep DEF Inv, TypeOK, Tab
    <3>3. Display!Follow(tab'.glass.turn) /\ tab'.glass.turn \in tab.glass.turn..Len(slots)
      BY <3>1, <3>2 DEF Display!Follow, Later, GlassSound
    <3>4. QED
      BY <3>3 DEF Display!Next
  <2>4. QED
    BY <2>2, <2>3
<1>3. QED
  BY <1>1, <1>2, InvHolds, PTL DEF Spec
=============================================================================
