-------------------------- MODULE AgentSocketProofs --------------------------
(***************************************************************************)
(* Proofs about AgentSocket: for every ceiling, timeout and threshold, but *)
(* in the section about the clock, which is for those of the source.       *)
(*                                                                         *)
(* The argument: every action that moves on bumps the generation of all    *)
(* that is outstanding and starts exactly one try under the new one        *)
(* (start, fail), or exchanges the one current try for its successor (a    *)
(* timer for a mint, a mint for a socket); a stale callback starts none.   *)
(* For the durations of the source the schedule then says how much time    *)
(* can have gone by at the n-th failure, and so when `down' can be said.   *)
(***************************************************************************)
EXTENDS AgentSocket, FiniteSetTheorems, TLAPS

-----------------------------------------------------------------------------
(* The tries and the operators on sets of them. *)

LEMMA TryTypes ==
    ASSUME NEW w \in 0..Ceiling
    PROVE  /\ Timer(w) \in Try /\ Timer(w).current /\ Timer(w).kind = "timer"
           /\ ~ Timer(w).up
           /\ MintRequest \in Try /\ MintRequest.current /\ MintRequest.kind = "mint"
           /\ ~ MintRequest.up
           /\ Socket \in Try /\ Socket.current /\ Socket.kind = "socket" /\ ~ Socket.up
<1>1. 0 \in 0..Ceiling
  BY BackoffAssumption
<1>2. Timer(w) \in Try /\ Timer(w).current /\ Timer(w).kind = "timer" /\ ~ Timer(w).up
  BY DEF Timer, Try
<1>3. /\ MintRequest \in Try /\ MintRequest.current /\ MintRequest.kind = "mint"
      /\ ~ MintRequest.up
  BY <1>1 DEF Timer, MintRequest, Try
<1>4. Socket \in Try /\ Socket.current /\ Socket.kind = "socket" /\ ~ Socket.up
  BY <1>1 DEF Timer, Socket, Try
<1>5. QED
  BY <1>2, <1>3, <1>4

LEMMA BumpStales ==
    ASSUME NEW set \in SUBSET Try, \A t \in set : t.up => t.kind = "socket"
    PROVE  /\ Bump(set) \in SUBSET Try
           /\ \A t \in Bump(set) : ~ t.current
           /\ \A t \in Bump(set) : t.up => t.kind = "socket"
  BY DEF Bump, Try

LEMMA AbandonCloses ==
    ASSUME NEW set \in SUBSET Try
    PROVE  Abandon(set) \in SUBSET set /\ \A t \in Abandon(set) : t.kind # "socket"
  BY DEF Abandon

LEMMA AtMostBounds ==
    ASSUME NEW n \in Int, NEW bound \in Int, NEW low \in Int, low <= n, low <= bound
    PROVE  AtMost(n, bound) \in low..bound
  BY DEF AtMost

-----------------------------------------------------------------------------
(* The inductive invariant. *)

OwnedIsUnique == \A t, u \in tries : t.current /\ u.current => t = u

OwnedIffLive == live <=> \E t \in tries : t.current

OnlySocketsUp == \A t \in tries : t.up => t.kind = "socket"

FirstStart ==
    /\ starts = 0 => emitted = "reconnecting" /\ ~ live
    /\ live => starts >= 1

LoopInv ==
    /\ TypeOK
    /\ OwnedIsUnique
    /\ OwnedIffLive
    /\ NoSocketLeaks
    /\ OnlySocketsUp
    /\ FirstStart
    /\ LiveMeansOpen

LEMMA LoopInit == Init => LoopInv
<1> SUFFICES ASSUME Init PROVE LoopInv
  OBVIOUS
<1>1. tries = {} /\ live = FALSE /\ starts = 0 /\ emitted = "reconnecting"
  BY DEF Init
<1>2. delay \in 1..Ceiling /\ failures \in 0..MaxFailures /\ elapsed \in -1..DownAfter
  BY BackoffAssumption DEF Init
<1>3. TypeOK
  <2>1. live \in BOOLEAN /\ reachable \in BOOLEAN
    BY Zenon DEF Init
  <2>2. starts \in 0..MaxStarts /\ emitted \in Status /\ lag \in Lag
    BY BackoffAssumption DEF Init, Status, Lag
  <2>3. QED
    BY <1>1, <1>2, <2>1, <2>2 DEF TypeOK
<1>4. QED
  BY <1>1, <1>3 DEF LoopInv, OwnedIsUnique, OwnedIffLive, NoSocketLeaks,
     OnlySocketsUp, FirstStart, LiveMeansOpen

\* The clock of a run of failures stays in its range.
LEMMA ClockTypes ==
    ASSUME TypeOK
    PROVE  /\ \A n \in Nat : Elapse(n) => elapsed' \in -1..DownAfter
           /\ \A cause \in Lag : Mark(cause) => lag' \in Lag
           /\ Stall => elapsed' \in -1..DownAfter /\ lag' \in Lag
<1> USE BackoffAssumption DEF TypeOK
<1>1. ASSUME NEW n \in Nat, Elapse(n) PROVE elapsed' \in -1..DownAfter
  BY <1>1 DEF Elapse, AtMost
<1>2. ASSUME NEW cause \in Lag, Mark(cause) PROVE lag' \in Lag
  BY <1>2 DEF Mark, Lag
<1>3. "stall" \in Lag
  BY DEF Lag
<1>4. QED
  BY <1>1, <1>2, <1>3 DEF Stall

\* fail() leaves one timer under the new generation and no socket.
LEMMA FailKeeps ==
    ASSUME LoopInv, live, NEW rest \in SUBSET tries, Fail(rest)
    PROVE  LoopInv'
<1> DEFINE old == Abandon(Bump(rest))
<1>1. /\ old \in SUBSET Try
      /\ \A t \in old : ~ t.current /\ t.kind # "socket" /\ ~ t.up
  BY BumpStales, AbandonCloses DEF LoopInv, TypeOK, OnlySocketsUp
<1>2. /\ Timer(delay) \in Try /\ Timer(delay).current /\ Timer(delay).kind = "timer"
      /\ ~ Timer(delay).up
  BY TryTypes, BackoffAssumption DEF LoopInv, TypeOK
<1>3. tries' = old \cup {Timer(delay)}
  BY DEF Fail, Schedule
<1>4. /\ delay' \in 1..Ceiling
      /\ failures' \in 0..MaxFailures
      /\ elapsed' \in -1..DownAfter
      /\ emitted' \in {"down", "reconnecting"}
  BY BackoffAssumption DEF Fail, Schedule, AtMost, LoopInv, TypeOK
<1>5. TypeOK'
  BY <1>1, <1>2, <1>3, <1>4 DEF LoopInv, TypeOK, Fail, Status
<1>6. OwnedIsUnique' /\ OwnedIffLive' /\ NoSocketLeaks' /\ OnlySocketsUp'
  BY <1>1, <1>2, <1>3, live DEF OwnedIsUnique, OwnedIffLive, NoSocketLeaks,
     OnlySocketsUp, Fail
<1>7. FirstStart'
  BY DEF LoopInv, FirstStart, Fail
<1>8. LiveMeansOpen'
  BY <1>1, <1>2, <1>3, <1>4 DEF LiveMeansOpen
<1>9. QED
  BY <1>5, <1>6, <1>7, <1>8 DEF LoopInv

\* A callback of an older generation changes nothing.
LEMMA DropKeeps ==
    ASSUME LoopInv, NEW t \in tries, ~ t.current, Drop(t)
    PROVE  LoopInv'
  BY DEF LoopInv, TypeOK, OwnedIsUnique, OwnedIffLive, NoSocketLeaks, OnlySocketsUp,
         FirstStart, LiveMeansOpen, Drop

\* The current try is exchanged for one that is not an open socket.
LEMMA ExchangeKeeps ==
    ASSUME LoopInv, NEW t \in tries, t.current, ~ t.up, NEW u \in Try,
           u.current, ~ u.up, tries' = (tries \ {t}) \cup {u}, TypeOK',
           UNCHANGED <<live, emitted, starts>>
    PROVE  LoopInv'
  BY DEF LoopInv, OwnedIsUnique, OwnedIffLive, NoSocketLeaks, OnlySocketsUp,
         FirstStart, LiveMeansOpen

-----------------------------------------------------------------------------
(* Every action. *)

LEMMA StartKeeps == LoopInv /\ Start => LoopInv'
<1> SUFFICES ASSUME LoopInv, Start PROVE LoopInv'
  OBVIOUS
<1>1. /\ Bump(tries) \in SUBSET Try
      /\ \A t \in Bump(tries) : ~ t.current /\ (t.up => t.kind = "socket")
  BY BumpStales DEF LoopInv, TypeOK, OnlySocketsUp
<1>2. \A t \in Bump(tries) : t.kind # "socket"
  BY DEF Start, LoopInv, NoSocketLeaks, TypeOK, Bump, Try
<1>3. /\ MintRequest \in Try /\ MintRequest.current /\ MintRequest.kind = "mint"
      /\ ~ MintRequest.up
  BY TryTypes, BackoffAssumption
<1>4. tries' = Bump(tries) \cup {MintRequest} /\ live'
  BY DEF Start
<1>5. TypeOK'
  BY <1>1, <1>3, <1>4, BackoffAssumption DEF Start, LoopInv, TypeOK, Lag
<1>6. OwnedIsUnique' /\ OwnedIffLive' /\ NoSocketLeaks' /\ OnlySocketsUp'
  BY <1>1, <1>2, <1>3, <1>4 DEF OwnedIsUnique, OwnedIffLive, NoSocketLeaks,
     OnlySocketsUp
<1>7. FirstStart'
  BY BackoffAssumption DEF Start, LoopInv, FirstStart, TypeOK
<1>8. LiveMeansOpen'
  <2>1. starts' = 1 => emitted' = "reconnecting"
    BY BackoffAssumption DEF Start, LoopInv, FirstStart, TypeOK
  <2>2. \A t \in tries' : t.kind # "socket"
    BY <1>2, <1>3, <1>4
  <2>3. QED
    BY <2>1, <2>2 DEF LiveMeansOpen
<1>9. QED
  BY <1>5, <1>6, <1>7, <1>8 DEF LoopInv

LEMMA StopKeeps == LoopInv /\ Stop => LoopInv'
<1> SUFFICES ASSUME LoopInv, Stop PROVE LoopInv'
  OBVIOUS
<1>1. /\ Bump(tries) \in SUBSET Try
      /\ \A t \in Bump(tries) : ~ t.current /\ (t.up => t.kind = "socket")
  BY BumpStales DEF LoopInv, TypeOK, OnlySocketsUp
<1>2. /\ tries' \in SUBSET Bump(tries)
      /\ \A t \in tries' : t.kind # "socket"
  BY <1>1, AbandonCloses DEF Stop
<1>3. live' = FALSE /\ UNCHANGED <<delay, failures, elapsed, emitted, reachable, starts, lag>>
  BY DEF Stop
<1>4. TypeOK'
  BY <1>1, <1>2, <1>3 DEF LoopInv, TypeOK
<1>5. FirstStart'
  BY <1>3 DEF LoopInv, FirstStart
<1>6. QED
  BY <1>1, <1>2, <1>3, <1>4, <1>5 DEF LoopInv, OwnedIsUnique, OwnedIffLive,
     NoSocketLeaks, OnlySocketsUp, LiveMeansOpen

LEMMA TimerFiresKeeps ==
    ASSUME LoopInv, NEW t \in tries, NEW asleep \in BOOLEAN, TimerFires(t, asleep)
    PROVE  LoopInv'
<1>1. elapsed' \in -1..DownAfter /\ lag' \in Lag
  <2>1. t.wait \in Nat
    BY BackoffAssumption DEF LoopInv, TypeOK, Try
  <2>2. QED
    BY <2>1, ClockTypes DEF TimerFires, LoopInv, TypeOK
<1>2. MintRequest \in Try /\ MintRequest.current /\ ~ MintRequest.up
  BY TryTypes, BackoffAssumption
<1>3. tries' \in SUBSET Try
  BY <1>2 DEF TimerFires, LoopInv, TypeOK
<1>4. TypeOK' /\ UNCHANGED <<live, emitted, starts>>
  BY <1>1, <1>3 DEF TimerFires, LoopInv, TypeOK
<1>5. CASE t.current
  <2>1. ~ t.up
    BY DEF TimerFires, LoopInv, OnlySocketsUp
  <2>2. QED
    BY <1>2, <1>4, <1>5, <2>1, ExchangeKeeps DEF TimerFires
<1>6. CASE ~ t.current
  BY <1>4, <1>6 DEF TimerFires, LoopInv, OwnedIsUnique, OwnedIffLive, NoSocketLeaks,
     OnlySocketsUp, FirstStart, LiveMeansOpen
<1>7. QED
  BY <1>5, <1>6

LEMMA MintKeeps ==
    ASSUME LoopInv, NEW t \in tries,
           MintWaits(t) \/ MintSucceeds(t) \/ MintFails(t)
    PROVE  LoopInv'
<1>1. t \in Try /\ t.kind = "mint" /\ ~ t.up
  BY DEF MintWaits, MintSucceeds, MintFails, LoopInv, TypeOK, OnlySocketsUp
<1>2. CASE MintWaits(t)
  <2> DEFINE u == [t EXCEPT !.wait = @ + 1]
  <2>1. t.wait \in Nat /\ t.wait + 1 \in 0..Ceiling
    BY <1>1, <1>2, BackoffAssumption DEF MintWaits, Try
  <2>2. u \in Try /\ u.current /\ ~ u.up
    BY <1>1, <1>2, <2>1 DEF MintWaits, Try
  <2>3. elapsed' \in -1..DownAfter /\ lag' \in Lag
    BY <1>2, ClockTypes DEF MintWaits, LoopInv, Lag
  <2>4. /\ tries' = (tries \ {t}) \cup {u}
        /\ UNCHANGED <<live, delay, failures, emitted, reachable, starts>>
    BY <1>2 DEF MintWaits
  <2>5. TypeOK'
    BY <2>2, <2>3, <2>4 DEF LoopInv, TypeOK
  <2>6. QED
    BY <1>1, <1>2, <2>2, <2>4, <2>5, ExchangeKeeps DEF MintWaits
<1>3. CASE MintSucceeds(t) /\ t.current
  <2>1. Socket \in Try /\ Socket.current /\ ~ Socket.up
    BY TryTypes, BackoffAssumption
  <2>2. TypeOK'
    BY <1>3, <2>1 DEF MintSucceeds, LoopInv, TypeOK
  <2>3. QED
    BY <1>1, <1>3, <2>1, <2>2, ExchangeKeeps DEF MintSucceeds
<1>4. CASE MintFails(t) /\ t.current
  <2>1. live
    BY <1>4 DEF LoopInv, OwnedIffLive
  <2>2. QED
    BY <1>4, <2>1, FailKeeps DEF MintFails
<1>5. CASE (MintSucceeds(t) \/ MintFails(t)) /\ ~ t.current
  BY <1>5, DropKeeps DEF MintSucceeds, MintFails
<1>6. QED
  BY <1>2, <1>3, <1>4, <1>5

LEMMA SocketKeeps ==
    ASSUME LoopInv, NEW t \in tries,
           HandshakeHangs(t) \/ SocketOpens(t) \/ SocketCloses(t)
    PROVE  LoopInv'
<1>1. t \in Try /\ t.kind = "socket" /\ t.current /\ live
  BY DEF HandshakeHangs, SocketOpens, SocketCloses, LoopInv, TypeOK, NoSocketLeaks
<1>2. CASE HandshakeHangs(t)
  <2>1. elapsed' \in -1..DownAfter /\ lag' \in Lag
    BY <1>2, ClockTypes DEF HandshakeHangs, LoopInv
  <2>2. UNCHANGED <<live, tries, delay, failures, emitted, reachable, starts>>
    BY <1>2 DEF HandshakeHangs
  <2>3. QED
    BY <2>1, <2>2 DEF LoopInv, TypeOK, OwnedIsUnique, OwnedIffLive, NoSocketLeaks,
       OnlySocketsUp, FirstStart, LiveMeansOpen
<1>3. CASE SocketOpens(t)
  <2> DEFINE u == [t EXCEPT !.up = TRUE]
  <2>1. u \in Try /\ u.kind = "socket" /\ u.current /\ u.up
    BY <1>1 DEF Try
  <2>2. Succeed(t)
    BY <1>1, <1>3 DEF SocketOpens
  <2>3. tries' = (tries \ {t}) \cup {u} /\ emitted' = "live"
    BY <2>2 DEF Succeed
  <2>4. UNCHANGED <<live, reachable, starts>>
    BY <2>2 DEF Succeed
  <2>5. TypeOK'
    <3>1. failures' = 0 /\ elapsed' = -1 /\ lag' = "none" /\ delay' = 1
      BY <2>2 DEF Succeed
    <3>2. /\ failures' \in 0..MaxFailures
          /\ elapsed' \in -1..DownAfter
          /\ delay' \in 1..Ceiling
          /\ lag' \in Lag
          /\ emitted' \in Status
      BY <2>3, <3>1, BackoffAssumption DEF Lag, Status
    <3>3. tries' \in SUBSET Try
      BY <2>1, <2>3 DEF LoopInv, TypeOK
    <3>4. QED
      BY <2>4, <3>2, <3>3 DEF LoopInv, TypeOK
  <2>6. OwnedIsUnique' /\ OwnedIffLive' /\ NoSocketLeaks' /\ OnlySocketsUp'
    BY <1>1, <2>1, <2>3, <2>4 DEF LoopInv, OwnedIsUnique, OwnedIffLive,
       NoSocketLeaks, OnlySocketsUp
  <2>7. FirstStart' /\ LiveMeansOpen'
    BY <1>1, <2>1, <2>3, <2>4 DEF LoopInv, FirstStart, LiveMeansOpen
  <2>8. QED
    BY <2>5, <2>6, <2>7 DEF LoopInv
<1>4. CASE SocketCloses(t)
  BY <1>1, <1>4, FailKeeps DEF SocketCloses
<1>5. QED
  BY <1>2, <1>3, <1>4

LEMMA LoopStep == LoopInv /\ [Next]_vars => LoopInv'
<1> SUFFICES ASSUME LoopInv, [Next]_vars PROVE LoopInv'
  OBVIOUS
<1>1. CASE BackendChanges \/ UNCHANGED vars
  <2>1. UNCHANGED <<live, tries, delay, failures, elapsed, emitted, starts, lag>>
    BY <1>1 DEF BackendChanges, vars
  <2>2. reachable' \in BOOLEAN
    BY <1>1, Zenon DEF BackendChanges, vars, LoopInv, TypeOK
  <2>3. TypeOK'
    BY <2>1, <2>2 DEF LoopInv, TypeOK
  <2>4. QED
    BY <2>1, <2>3 DEF LoopInv, OwnedIsUnique, OwnedIffLive, NoSocketLeaks,
       OnlySocketsUp, FirstStart, LiveMeansOpen
<1>2. QED
  BY <1>1, StartKeeps, StopKeeps, TimerFiresKeeps, MintKeeps, SocketKeeps DEF Next

LEMMA LoopCorrect == Spec => []LoopInv
  BY LoopInit, LoopStep, PTL DEF Spec

-----------------------------------------------------------------------------

\* While the loop runs exactly one try is outstanding under its generation, and
\* none after stop(), whatever callbacks of older generations still come.
THEOREM LoopHoldsOneTry == Spec => []OneTryInHand
<1>1. LoopInv => OneTryInHand
  <2> SUFFICES ASSUME LoopInv PROVE OneTryInHand
    OBVIOUS
  <2> DEFINE own == {t \in tries : t.current}
  <2>1. CASE live
    <3>1. PICK t \in tries : t.current
      BY <2>1 DEF LoopInv, OwnedIffLive
    <3>2. own = {t}
      BY <3>1 DEF LoopInv, OwnedIsUnique
    <3>3. Cardinality(own) = 1
      BY <3>2, FS_Singleton
    <3>4. QED
      BY <2>1, <3>3 DEF OneTryInHand
  <2>2. CASE ~ live
    BY <2>2 DEF LoopInv, OwnedIffLive, OneTryInHand
  <2>3. QED
    BY <2>1, <2>2
<1>2. QED
  BY <1>1, LoopCorrect, PTL

\* A socket that the loop has moved on from is closed and detached.
THEOREM SocketsDoNotLeak == Spec => []NoSocketLeaks
<1>1. LoopInv => NoSocketLeaks
  BY DEF LoopInv
<1>2. QED
  BY <1>1, LoopCorrect, PTL

\* For the one start() the application makes, `live' is what the loop last
\* said exactly while a socket of it is open.
THEOREM LiveIsTrue == Spec => []LiveMeansOpen
<1>1. LoopInv => LiveMeansOpen
  BY DEF LoopInv
<1>2. QED
  BY <1>1, LoopCorrect, PTL

\* The three together, as the run checks them.
THEOREM SocketsStayAccounted == Spec => []SocketsAreAccounted
<1>1. OneTryInHand /\ NoSocketLeaks /\ LiveMeansOpen => SocketsAreAccounted
  BY DEF SocketsAreAccounted
<1>2. QED
  BY <1>1, LoopHoldsOneTry, SocketsDoNotLeak, LiveIsTrue, PTL

\* The type invariant, the clamp of the delay and the saturation included.
THEOREM TypeCorrect == Spec => []TypeOK
<1>1. LoopInv => TypeOK
  BY DEF LoopInv
<1>2. QED
  BY <1>1, LoopCorrect, PTL

-----------------------------------------------------------------------------
(* The clock of a run of failures, for the durations of the source: units  *)
(* of SOCKET_BASE_MS, 2 s.                                                 *)

AsShipped ==
    /\ Ceiling = 15 /\ DownAfter = 30 /\ MinFailures = 4 /\ ReadTimeout = 5
    /\ MaxFailures >= 6

\* The delay after n failures; the most that has gone by at the n-th one, when
\* nothing but the delays took time, and when every mint took all it may.
Backoff(n) == IF n <= 0 THEN 1 ELSE IF n = 1 THEN 2 ELSE IF n = 2 THEN 4
              ELSE IF n = 3 THEN 8 ELSE 15
Prompt(n) == IF n <= 1 THEN 0 ELSE IF n = 2 THEN 1 ELSE IF n = 3 THEN 3
             ELSE IF n = 4 THEN 7 ELSE IF n = 5 THEN 15 ELSE 30
Slow(n) == IF n <= 1 THEN 0 ELSE IF n = 2 THEN 6 ELSE IF n = 3 THEN 13
           ELSE IF n = 4 THEN 22 ELSE 30

\* What has gone by since the first failure, as far as the try in hand.
PromptSoFar(t) == IF t.kind = "timer" THEN Prompt(failures) ELSE Prompt(failures + 1)
SlowSoFar(t) ==
    IF t.kind = "timer" THEN Slow(failures)
    ELSE Slow(failures) + Backoff(failures - 1) + IF t.kind = "mint" THEN t.wait ELSE 5

OnTime(t) ==
    /\ t.kind = "mint" => t.wait <= 5
    /\ failures # 0 =>
          /\ t.kind = "timer" => t.wait = Backoff(failures - 1)
          /\ lag = "none" => elapsed <= PromptSoFar(t)
          /\ lag = "mints" => elapsed <= SlowSoFar(t)

ClockInv ==
    /\ elapsed = -1 <=> failures = 0
    /\ elapsed = -1 => lag = "none"
    /\ live => delay = Backoff(failures)
    /\ \A t \in tries : t.kind = "timer" => t.current
    /\ \A t \in tries : t.current => OnTime(t)

LEMMA ShippedTypes ==
    ASSUME AsShipped, LoopInv
    PROVE  /\ Ceiling = 15 /\ DownAfter = 30 /\ MinFailures = 4 /\ ReadTimeout = 5
           /\ MaxFailures \in Nat /\ MaxFailures >= 6
           /\ failures \in Nat /\ failures <= MaxFailures
           /\ elapsed \in Int /\ elapsed >= -1 /\ elapsed <= 30
           /\ \A t \in tries : t.wait \in Nat
<1>1. MaxFailures \in Nat
  BY BackoffAssumption
<1>2. failures \in Nat /\ failures <= MaxFailures
  BY <1>1 DEF LoopInv, TypeOK
<1>3. elapsed \in Int /\ elapsed >= -1 /\ elapsed <= 30
  BY DEF AsShipped, LoopInv, TypeOK
<1>4. \A t \in tries : t.wait \in Nat
  BY DEF AsShipped, LoopInv, TypeOK, Try
<1>5. QED
  BY <1>1, <1>2, <1>3, <1>4 DEF AsShipped

\* What is outstanding and current is the one try.
LEMMA OnlyTryInHand ==
    ASSUME LoopInv, NEW t \in tries, t.current
    PROVE  \A u \in tries \ {t} : ~ u.current
  BY DEF LoopInv, OwnedIsUnique

LEMMA ClockStart == Init => ClockInv
  BY DEF Init, ClockInv, Backoff

\* A failure of the try in hand: the next delay is committed on time, and
\* `down' is said only when the failures that it takes have been counted.
LEMMA FailIsOnTime ==
    ASSUME AsShipped, LoopInv, ClockInv, live, NEW t \in tries, t.current,
           t.kind # "timer", NEW rest \in SUBSET tries, Fail(rest)
    PROVE  /\ ClockInv'
           /\ emitted' = "down" => failures' >= CASE lag = "none" -> 6
                                                  [] lag = "mints" -> 5
                                                  [] lag = "stall" -> MinFailures
<1> DEFINE f == failures
<1>1. /\ Ceiling = 15 /\ DownAfter = 30 /\ MinFailures = 4
      /\ MaxFailures \in Nat /\ MaxFailures >= 6
      /\ f \in Nat /\ f <= MaxFailures
      /\ elapsed \in Int /\ elapsed >= -1 /\ elapsed <= 30 /\ t.wait \in Nat
  BY ShippedTypes
<1>2. /\ elapsed = -1 <=> f = 0
      /\ elapsed = -1 => lag = "none"
      /\ delay = Backoff(f)
      /\ OnTime(t)
  BY DEF ClockInv
<1>3. /\ failures' = AtMost(f + 1, MaxFailures)
      /\ elapsed' = IF elapsed = -1 THEN 0 ELSE elapsed
      /\ emitted' = "down" => elapsed' >= 30 /\ failures' >= 4
      /\ delay' = AtMost(2 * delay, 15)
      /\ tries' = Abandon(Bump(rest)) \cup {Timer(delay)}
      /\ lag' = lag /\ live' = live
  BY <1>1 DEF Fail, Schedule
<1>4. lag \in Lag
  BY DEF LoopInv, TypeOK
<1>5. failures' \in Nat /\ failures' >= 1 /\ (failures' = f + 1 \/ (failures' = f /\ f >= 6))
  BY <1>1, <1>3 DEF AtMost
<1>6. elapsed' # -1 /\ elapsed' <= 30 /\ elapsed' \in Int
  BY <1>1, <1>3
<1>7. delay' = Backoff(failures') /\ delay = Backoff(failures' - 1)
  BY <1>1, <1>2, <1>3, <1>5 DEF Backoff, AtMost
<1>8. lag = "none" => elapsed' <= Prompt(failures')
  BY <1>1, <1>2, <1>3, <1>5 DEF OnTime, PromptSoFar, Prompt
<1>9. lag = "mints" => elapsed' <= Slow(failures')
  <2>1. SUFFICES ASSUME lag = "mints" PROVE elapsed' <= Slow(failures')
    OBVIOUS
  <2>2. f # 0 /\ elapsed' = elapsed /\ elapsed <= SlowSoFar(t)
    BY <1>2, <1>3, <2>1 DEF OnTime
  <2>3. SlowSoFar(t) <= Slow(f) + Backoff(f - 1) + 5
    BY <1>1, <1>2 DEF OnTime, SlowSoFar, Slow, Backoff
  <2>4. f + 1 <= 4 => Slow(f) + Backoff(f - 1) + 5 = Slow(f + 1)
    BY <1>1, <2>2 DEF Slow, Backoff
  <2>5. SlowSoFar(t) \in Int
    BY <1>1 DEF SlowSoFar, Slow, Backoff
  <2>6. CASE f + 1 <= 4
    BY <1>1, <1>5, <2>2, <2>3, <2>4, <2>5, <2>6 DEF Slow, Backoff
  <2>7. CASE ~ (f + 1 <= 4)
    BY <1>1, <1>5, <1>6, <2>7 DEF Slow
  <2>8. QED
    BY <2>6, <2>7
<1>10. /\ \A u \in Bump(rest) : ~ u.current
       /\ \A u \in Abandon(Bump(rest)) : ~ u.current /\ u.kind # "timer"
  <2>1. rest \in SUBSET Try
    BY DEF LoopInv, TypeOK
  <2>2. \A u \in rest : u.kind # "timer"
    BY OnlyTryInHand DEF ClockInv
  <2>3. QED
    BY <2>1, <2>2 DEF Abandon, Bump, Try
<1>11. /\ Timer(delay).kind = "timer" /\ Timer(delay).current /\ Timer(delay).wait = delay
  BY DEF Timer
<1>12. ASSUME NEW u \in tries', u.current PROVE OnTime(u)'
  <2>1. u.kind = "timer" /\ u.wait = Backoff(failures' - 1)
    BY <1>3, <1>7, <1>10, <1>11, <1>12
  <2>2. /\ lag' = "none" => elapsed' <= PromptSoFar(u)'
        /\ lag' = "mints" => elapsed' <= SlowSoFar(u)'
    BY <1>3, <1>8, <1>9, <2>1 DEF PromptSoFar, SlowSoFar
  <2>3. QED
    BY <2>1, <2>2 DEF OnTime
<1>13. \A u \in tries' : u.kind = "timer" => u.current
  BY <1>3, <1>10, <1>11
<1>14. ClockInv'
  BY <1>5, <1>6, <1>7, <1>12, <1>13 DEF ClockInv
<1>15. ASSUME emitted' = "down"
       PROVE  failures' >= CASE lag = "none" -> 6
                             [] lag = "mints" -> 5
                             [] lag = "stall" -> MinFailures
  <2>1. elapsed' >= 30 /\ failures' >= 4
    BY <1>3, <1>15
  <2>2. CASE lag = "none"
    <3>1. failures' >= 6
      BY <1>5, <1>6, <1>8, <2>1, <2>2 DEF Prompt
    <3>2. QED
      BY <2>2, <3>1
  <2>3. CASE lag = "mints"
    <3>1. failures' >= 5
      BY <1>5, <1>6, <1>9, <2>1, <2>3 DEF Slow
    <3>2. QED
      BY <2>3, <3>1
  <2>4. CASE lag = "stall"
    BY <1>1, <2>1, <2>4
  <2>5. QED
    BY <1>4, <2>2, <2>3, <2>4 DEF Lag
<1>16. QED
  BY <1>14, <1>15

\* Nothing of the clock moves, and no try becomes current.
LEMMA ClockStays ==
    ASSUME ClockInv, UNCHANGED <<failures, elapsed, lag>>, live' => live /\ delay' = delay,
           \A u \in tries' : u \in tries \/ (~ u.current /\ u.kind # "timer")
    PROVE  ClockInv'
<1>1. ASSUME NEW u \in tries', u.current PROVE OnTime(u)'
  <2>1. OnTime(u)
    BY <1>1 DEF ClockInv
  <2>2. QED
    BY <2>1 DEF OnTime, PromptSoFar, SlowSoFar
<1>2. QED
  BY <1>1 DEF ClockInv

LEMMA StartOnTime == AsShipped /\ LoopInv /\ ClockInv /\ Start => ClockInv'
<1> SUFFICES ASSUME AsShipped, LoopInv, ClockInv, Start PROVE ClockInv'
  OBVIOUS
<1>1. /\ failures' = 0 /\ elapsed' = -1 /\ lag' = "none" /\ delay' = 1
      /\ tries' = Bump(tries) \cup {MintRequest} /\ ~ live
  BY DEF Start
<1>2. \A u \in Bump(tries) : ~ u.current /\ u.kind # "timer"
  <2>1. \A u \in tries : ~ u.current /\ u.kind # "timer" /\ u \in Try
    BY <1>1 DEF LoopInv, OwnedIffLive, ClockInv, TypeOK
  <2>2. QED
    BY <2>1 DEF Bump, Try
<1>3. MintRequest.kind = "mint" /\ MintRequest.current /\ MintRequest.wait = 0
  BY DEF MintRequest, Timer
<1>4. ASSUME NEW u \in tries', u.current PROVE OnTime(u)'
  <2>1. u.kind = "mint" /\ u.wait = 0
    BY <1>1, <1>2, <1>3, <1>4
  <2>2. QED
    BY <1>1, <2>1 DEF OnTime
<1>5. \A u \in tries' : u.kind = "timer" => u.current
  BY <1>1, <1>2, <1>3
<1>6. QED
  BY <1>1, <1>4, <1>5 DEF ClockInv, Backoff

LEMMA StopOnTime == ClockInv /\ LoopInv /\ Stop => ClockInv'
<1> SUFFICES ASSUME ClockInv, LoopInv, Stop PROVE ClockInv'
  OBVIOUS
<1>1. \A u \in tries' : ~ u.current /\ u.kind # "timer"
  BY DEF Stop, Abandon, Bump, LoopInv, TypeOK, Try
<1>2. QED
  BY <1>1, ClockStays DEF Stop

\* The try in hand is exchanged, within a run of failures or before one.
LEMMA ExchangeOnTime ==
    ASSUME LoopInv, ClockInv, NEW t \in tries, t.current, NEW u,
           u.kind # "timer" \/ u.current,
           tries' = (tries \ {t}) \cup {u}, OnTime(u)',
           UNCHANGED <<live, delay, failures>>,
           elapsed' = -1 <=> failures = 0, elapsed' = -1 => lag' = "none"
    PROVE  ClockInv'
<1>1. ASSUME NEW x \in tries', x.current PROVE OnTime(x)'
  <2>1. x = u
    BY <1>1, OnlyTryInHand
  <2>2. QED
    BY <2>1
<1>2. QED
  BY <1>1 DEF ClockInv

LEMMA TimerOnTime ==
    ASSUME AsShipped, LoopInv, ClockInv, NEW t \in tries, NEW asleep \in BOOLEAN,
           TimerFires(t, asleep)
    PROVE  ClockInv'
<1>1. /\ DownAfter = 30 /\ failures \in Nat /\ elapsed \in Int /\ elapsed >= -1
      /\ elapsed <= 30 /\ t.wait \in Nat
  BY ShippedTypes
<1>2. t.kind = "timer" /\ t.current /\ OnTime(t)
  BY DEF TimerFires, ClockInv
<1>3. elapsed = -1 <=> failures = 0
  BY DEF ClockInv
<1>4. elapsed = -1 => lag = "none"
  BY DEF ClockInv
<1>5. tries' = (tries \ {t}) \cup {MintRequest} /\ UNCHANGED <<live, delay, failures>>
  BY <1>2 DEF TimerFires
<1>6. MintRequest.kind = "mint" /\ MintRequest.current /\ MintRequest.wait = 0
  BY DEF MintRequest, Timer
<1>7. CASE asleep
  <2>1. lag' = IF elapsed = -1 THEN lag ELSE "stall"
    BY <1>7 DEF TimerFires, Stall, Mark
  <2>2. elapsed' = IF elapsed = -1 THEN -1 ELSE AtMost(elapsed + 30, 30)
    BY <1>1, <1>7 DEF TimerFires, Stall, Elapse
  <2>3. elapsed' = -1 <=> elapsed = -1
    BY <1>1, <2>2 DEF AtMost
  <2>4. OnTime(MintRequest)'
    <3>1. ASSUME NEW u, u = MintRequest PROVE OnTime(u)'
      <4>1. u.kind = "mint" /\ u.wait = 0
        BY <1>6, <3>1
      <4>2. failures' # 0 => lag' # "none" /\ lag' # "mints"
        BY <1>3, <1>5, <2>1
      <4>3. QED
        BY <4>1, <4>2 DEF OnTime
    <3>2. QED
      BY <3>1
  <2>5. QED
    BY <1>2, <1>3, <1>4, <1>5, <1>6, <2>1, <2>3, <2>4, ExchangeOnTime
<1>8. CASE ~ asleep
  <2>1. elapsed' = (IF elapsed = -1 THEN -1 ELSE AtMost(elapsed + t.wait, 30)) /\ lag' = lag
    BY <1>1, <1>8 DEF TimerFires, Elapse
  <2>2. elapsed' = -1 <=> elapsed = -1
    BY <1>1, <2>1 DEF AtMost
  <2>3. ASSUME NEW u, u = MintRequest PROVE OnTime(u)'
    <3>1. u.kind = "mint" /\ u.wait = 0
      BY <1>6, <2>3
    <3>2. ASSUME failures # 0
          PROVE  /\ lag = "none" => elapsed' <= Prompt(failures + 1)
                 /\ lag = "mints" => elapsed' <= Slow(failures) + Backoff(failures - 1)
      <4>1. elapsed # -1 /\ t.wait = Backoff(failures - 1)
        BY <1>2, <1>3, <3>2 DEF OnTime
      <4>2. elapsed' <= 30 /\ elapsed' <= elapsed + t.wait /\ elapsed' \in Int
        BY <1>1, <2>1, <4>1 DEF AtMost
      <4>3. lag = "none" => elapsed <= Prompt(failures)
        BY <1>2, <3>2 DEF OnTime, PromptSoFar
      <4>4. lag = "mints" => elapsed <= Slow(failures)
        BY <1>2, <3>2 DEF OnTime, SlowSoFar
      <4>5. lag = "none" => elapsed' <= Prompt(failures + 1)
        BY <1>1, <3>2, <4>1, <4>2, <4>3 DEF Prompt, Backoff
      <4>6. lag = "mints" => elapsed' <= Slow(failures) + Backoff(failures - 1)
        BY <1>1, <4>1, <4>2, <4>4 DEF Slow, Backoff
      <4>7. QED
        BY <4>5, <4>6
    <3>3. Slow(failures) + Backoff(failures - 1) \in Int
      BY <1>1 DEF Slow, Backoff
    <3>4. SlowSoFar(u)' = Slow(failures) + Backoff(failures - 1) + 0
      BY <1>5, <3>1 DEF SlowSoFar
    <3>5. PromptSoFar(u)' = Prompt(failures + 1)
      BY <1>5, <3>1 DEF PromptSoFar
    <3>6. QED
      BY <1>5, <2>1, <3>1, <3>2, <3>3, <3>4, <3>5 DEF OnTime
  <2>4. OnTime(MintRequest)'
    BY <2>3
  <2>5. QED
    BY <1>2, <1>3, <1>4, <1>5, <1>6, <2>1, <2>2, <2>4, ExchangeOnTime
<1>9. QED
  BY <1>7, <1>8

LEMMA MintWaitsOnTime ==
    ASSUME AsShipped, LoopInv, ClockInv, NEW t \in tries, MintWaits(t)
    PROVE  ClockInv'
<1>1. /\ DownAfter = 30 /\ ReadTimeout = 5 /\ failures \in Nat /\ elapsed \in Int
      /\ elapsed >= -1 /\ elapsed <= 30 /\ t.wait \in Nat
  BY ShippedTypes
<1>2. t.kind = "mint" /\ t.current /\ t.wait < 5 /\ OnTime(t) /\ t \in Try
  BY <1>1 DEF MintWaits, ClockInv, LoopInv, TypeOK
<1>3. elapsed = -1 <=> failures = 0
  BY DEF ClockInv
<1>4. elapsed = -1 => lag = "none"
  BY DEF ClockInv
<1>5. PICK u : u = [t EXCEPT !.wait = @ + 1]
  OBVIOUS
<1>6. tries' = (tries \ {t}) \cup {u} /\ UNCHANGED <<live, delay, failures>>
  BY <1>5 DEF MintWaits
<1>7. u.kind = "mint" /\ u.current /\ u.wait = t.wait + 1
  BY <1>2, <1>5 DEF Try
<1>8. /\ elapsed' = IF elapsed = -1 THEN -1 ELSE AtMost(elapsed + 1, 30)
      /\ lag' = IF elapsed = -1 \/ lag = "stall" THEN lag ELSE "mints"
  BY <1>1 DEF MintWaits, Elapse, Mark
<1>9. elapsed' = -1 <=> elapsed = -1
  BY <1>1, <1>8 DEF AtMost
<1>10. OnTime(u)'
  <2>1. u.wait <= 5
    BY <1>1, <1>2, <1>7
  <2>2. ASSUME failures # 0, lag' = "mints"
        PROVE  elapsed' <= Slow(failures) + Backoff(failures - 1) + u.wait
    <3>1. elapsed # -1 /\ lag # "stall"
      BY <1>3, <1>8, <2>2
    <3>2. elapsed' \in Int /\ elapsed' <= elapsed + 1
      BY <1>1, <1>8, <3>1 DEF AtMost
    <3>3. lag \in {"none", "mints"}
      BY <3>1 DEF LoopInv, TypeOK, Lag
    <3>4. CASE lag = "none"
      <4>1. elapsed <= Prompt(failures + 1)
        BY <1>2, <2>2, <3>4 DEF OnTime, PromptSoFar
      <4>2. Prompt(failures + 1) <= Slow(failures) + Backoff(failures - 1)
        BY <1>1, <2>2 DEF Prompt, Slow, Backoff
      <4>3. Prompt(failures + 1) \in Int /\ Slow(failures) + Backoff(failures - 1) \in Int
        BY <1>1 DEF Prompt, Slow, Backoff
      <4>4. QED
        BY <1>1, <1>7, <3>2, <4>1, <4>2, <4>3
    <3>5. CASE lag = "mints"
      <4>1. elapsed <= Slow(failures) + Backoff(failures - 1) + t.wait
        BY <1>2, <2>2, <3>5 DEF OnTime, SlowSoFar
      <4>2. Slow(failures) + Backoff(failures - 1) \in Int
        BY <1>1 DEF Slow, Backoff
      <4>3. QED
        BY <1>1, <1>7, <3>2, <4>1, <4>2
    <3>6. QED
      BY <3>3, <3>4, <3>5
  <2>3. failures # 0 => lag' # "none"
    BY <1>3, <1>8
  <2>4. SlowSoFar(u)' = Slow(failures) + Backoff(failures - 1) + u.wait
    BY <1>6, <1>7 DEF SlowSoFar
  <2>5. QED
    BY <1>6, <1>7, <2>1, <2>2, <2>3, <2>4 DEF OnTime
<1>11. QED
  BY <1>2, <1>3, <1>4, <1>6, <1>7, <1>8, <1>9, <1>10, ExchangeOnTime

LEMMA MintSettlesOnTime ==
    ASSUME AsShipped, LoopInv, ClockInv, NEW t \in tries, t.current, MintSucceeds(t)
    PROVE  ClockInv'
<1>1. failures \in Nat /\ elapsed \in Int /\ t.wait \in Nat
  BY ShippedTypes
<1>2. t.kind = "mint" /\ OnTime(t)
  BY DEF MintSucceeds, ClockInv
<1>3. PICK u : u = Socket
  OBVIOUS
<1>4. /\ tries' = (tries \ {t}) \cup {u}
      /\ UNCHANGED <<live, delay, failures, elapsed, lag>>
  BY <1>3 DEF MintSucceeds
<1>5. u.kind = "socket"
  BY <1>3 DEF Socket, Timer
<1>6. OnTime(u)'
  <2>1. Slow(failures) + Backoff(failures - 1) \in Int
    BY <1>1 DEF Slow, Backoff
  <2>2. PromptSoFar(u)' = PromptSoFar(t)
    BY <1>2, <1>4, <1>5 DEF PromptSoFar
  <2>3. SlowSoFar(u)' = Slow(failures) + Backoff(failures - 1) + 5
    BY <1>4, <1>5 DEF SlowSoFar
  <2>4. SlowSoFar(t) = Slow(failures) + Backoff(failures - 1) + t.wait
    BY <1>2 DEF SlowSoFar
  <2>5. t.wait <= 5
    BY <1>2 DEF OnTime
  <2>6. lag = "mints" /\ failures # 0 => elapsed <= SlowSoFar(u)'
    BY <1>1, <1>2, <2>1, <2>3, <2>4, <2>5 DEF OnTime
  <2>7. QED
    BY <1>2, <1>4, <1>5, <2>2, <2>6 DEF OnTime
<1>7. elapsed' = -1 <=> failures = 0
  BY <1>4 DEF ClockInv
<1>8. elapsed' = -1 => lag' = "none"
  BY <1>4 DEF ClockInv
<1>9. QED
  BY <1>4, <1>5, <1>6, <1>7, <1>8, ExchangeOnTime

LEMMA HangOnTime ==
    ASSUME AsShipped, LoopInv, ClockInv, NEW t \in tries, HandshakeHangs(t)
    PROVE  ClockInv'
<1>1. /\ DownAfter = 30 /\ failures \in Nat /\ elapsed \in Int /\ elapsed >= -1
      /\ elapsed <= 30
  BY ShippedTypes
<1>2. elapsed' = IF elapsed = -1 THEN -1 ELSE AtMost(elapsed + 30, 30)
  BY <1>1 DEF HandshakeHangs, Stall, Elapse
<1>3. lag' = IF elapsed = -1 THEN lag ELSE "stall"
  BY DEF HandshakeHangs, Stall, Mark
<1>4. UNCHANGED <<live, tries, delay, failures>>
  BY DEF HandshakeHangs
<1>5. elapsed' = -1 <=> elapsed = -1
  BY <1>1, <1>2 DEF AtMost
<1>6. ASSUME NEW u \in tries', u.current PROVE OnTime(u)'
  <2>1. u \in tries /\ OnTime(u)
    BY <1>4, <1>6 DEF ClockInv
  <2>2. failures # 0 => lag' = "stall"
    BY <1>3 DEF ClockInv
  <2>3. QED
    BY <1>4, <2>1, <2>2 DEF OnTime
<1>7. QED
  BY <1>3, <1>4, <1>5, <1>6 DEF ClockInv

LEMMA OpenOnTime ==
    ASSUME LoopInv, ClockInv, NEW t \in tries, t.current, t.kind = "socket", Succeed(t)
    PROVE  ClockInv'
<1>1. PICK u : u = [t EXCEPT !.up = TRUE]
  OBVIOUS
<1>2. tries' = (tries \ {t}) \cup {u} /\ failures' = 0 /\ elapsed' = -1 /\ lag' = "none"
      /\ delay' = 1
  BY <1>1 DEF Succeed
<1>3. u.kind = "socket"
  BY <1>1 DEF LoopInv, TypeOK, Try
<1>4. ASSUME NEW x \in tries', x.current PROVE OnTime(x)'
  <2>1. x = u
    BY <1>2, <1>4, OnlyTryInHand
  <2>2. QED
    BY <1>2, <1>3, <2>1 DEF OnTime
<1>5. \A x \in tries' : x.kind = "timer" => x.current
  BY <1>2, <1>3 DEF ClockInv
<1>6. QED
  BY <1>2, <1>4, <1>5 DEF ClockInv, Backoff

LEMMA ClockStep ==
    ASSUME AsShipped
    PROVE  LoopInv /\ ClockInv /\ [Next]_vars =>
             /\ ClockInv'
             /\ emitted' = "down" /\ emitted # "down" =>
                   failures' >= CASE lag = "none" -> 6
                                  [] lag = "mints" -> 5
                                  [] lag = "stall" -> MinFailures
<1> DEFINE Earned == failures' >= CASE lag = "none" -> 6
                                    [] lag = "mints" -> 5
                                    [] lag = "stall" -> MinFailures
           Quiet == emitted' = "down" => emitted = "down"
           Goal == ClockInv' /\ (Quiet \/ Earned)
<1> SUFFICES ASSUME LoopInv, ClockInv, [Next]_vars PROVE Goal
  OBVIOUS
<1>1. CASE Start
  <2>1. Quiet
    BY <1>1 DEF Start
  <2>2. QED
    BY <1>1, <2>1, StartOnTime
<1>2. CASE Stop
  <2>1. Quiet
    BY <1>2 DEF Stop
  <2>2. QED
    BY <1>2, <2>1, StopOnTime
<1>3. CASE BackendChanges \/ UNCHANGED vars
  <2>1. UNCHANGED <<live, tries, delay, failures, elapsed, emitted, lag>>
    BY <1>3 DEF BackendChanges, vars
  <2>2. ClockInv'
    BY <2>1, ClockStays
  <2>3. QED
    BY <2>1, <2>2
<1>4. ASSUME NEW t \in tries, NEW asleep \in BOOLEAN, TimerFires(t, asleep) PROVE Goal
  <2>1. Quiet
    BY <1>4 DEF TimerFires
  <2>2. ClockInv'
    BY <1>4, TimerOnTime
  <2>3. QED
    BY <2>1, <2>2
<1>5. ASSUME NEW t \in tries, MintWaits(t) PROVE Goal
  <2>1. Quiet
    BY <1>5 DEF MintWaits
  <2>2. QED
    BY <1>5, <2>1, MintWaitsOnTime
<1>6. ASSUME NEW t \in tries, HandshakeHangs(t) PROVE Goal
  <2>1. Quiet
    BY <1>6 DEF HandshakeHangs
  <2>2. QED
    BY <1>6, <2>1, HangOnTime
<1>7. ASSUME NEW t \in tries, Drop(t) PROVE Goal
  <2>1. Quiet
    BY <1>7 DEF Drop
  <2>2. ClockInv'
    BY <1>7, ClockStays DEF Drop
  <2>3. QED
    BY <2>1, <2>2
<1>8. ASSUME NEW t \in tries, t.current, MintSucceeds(t) PROVE Goal
  <2>1. Quiet
    BY <1>8 DEF MintSucceeds
  <2>2. QED
    BY <1>8, <2>1, MintSettlesOnTime
<1>9. ASSUME NEW t \in tries, t.current, t.kind # "timer",
             NEW rest \in SUBSET tries, Fail(rest)
      PROVE  Goal
  <2>1. live
    BY <1>9 DEF LoopInv, OwnedIffLive
  <2>2. QED
    BY <1>9, <2>1, FailIsOnTime
<1>10. ASSUME NEW t \in tries, t.current, t.kind = "socket", Succeed(t) PROVE Goal
  <2>1. Quiet
    BY <1>10 DEF Succeed
  <2>2. QED
    BY <1>10, <2>1, OpenOnTime
<1>11. ASSUME NEW t \in tries, MintSucceeds(t) \/ MintFails(t) \/ SocketOpens(t) \/ SocketCloses(t)
       PROVE  Goal
  <2>1. tries \ {t} \in SUBSET tries /\ tries \in SUBSET tries
    OBVIOUS
  <2>2. QED
    BY <1>7, <1>8, <1>9, <1>10, <1>11, <2>1 DEF MintSucceeds, MintFails, SocketOpens, SocketCloses
<1>12. QED
  BY <1>1, <1>2, <1>3, <1>4, <1>5, <1>6, <1>11 DEF Next

\* With the durations of the source, Disconnected is said only after the
\* failures that a minute of the schedule amounts to (socket.ts): the sum of
\* the delays before the n-th failure, and of mints that take all they may,
\* stays below the threshold for every smaller n.
THEOREM DisconnectedIsEarned ==
    ASSUME AsShipped
    PROVE  Spec => DownIsEarned
<1>1. QED
  BY LoopInit, LoopStep, ClockStart, ClockStep, PTL DEF Spec, DownIsEarned
=============================================================================
