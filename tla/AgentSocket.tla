---------------------------- MODULE AgentSocket ----------------------------
(***************************************************************************)
(* The reconnect loop of a tab's agent socket: createAgentSocket           *)
(* (ui/src/state/socket.ts) over readSessionTicket and openAgentSocket     *)
(* (ui/src/api/client.ts).                                                 *)
(*                                                                         *)
(* An attempt is delay -> mint -> open.  What the loop has outstanding is  *)
(* a set of tries: a timer, a mint or a socket, each created under a       *)
(* generation; `current' is whether that generation is still the loop's.   *)
(* Time is counted in units of SOCKET_BASE_MS, 2 s.                        *)
(***************************************************************************)
EXTENDS Integers, FiniteSets

CONSTANTS
    Ceiling,      \* SOCKET_CEILING_MS: 15 units
    DownAfter,    \* DISCONNECTED_AFTER_MS: 30 units
    MinFailures,  \* DISCONNECTED_MIN_FAILURES: 4
    ReadTimeout,  \* READ_TIMEOUT_MS, the most a mint takes: 5 units
    MaxFailures,  \* bound: where the count of failures saturates
    MaxStarts     \* bound: calls of start()

ASSUME BackoffAssumption ==
    /\ Ceiling \in Nat \ {0} /\ DownAfter \in Nat \ {0}
    /\ MinFailures \in Nat /\ ReadTimeout \in 0..Ceiling /\ MaxFailures \in Nat /\ MaxFailures > MinFailures
    /\ MaxStarts \in Nat

VARIABLES
    live,       \* start() has been called and stop() has not
    tries,      \* what is outstanding
    delay,      \* the next wait
    failures,   \* consecutive failed attempts
    elapsed,    \* time since failingSince, as far as DownAfter; -1 for none
    emitted,    \* the last status handed to onStatus
    reachable,  \* the backend mints and accepts
    starts,     \* history: calls of start()
    lag         \* history: what made this run of failures outlast its schedule

vars == <<live, tries, delay, failures, elapsed, emitted, reachable, starts, lag>>

\* A socket is `up' once its open event has fired, and `attached' while its
\* handlers would still call into the loop.
Timer(w) == [kind |-> "timer", current |-> TRUE, up |-> FALSE, attached |-> FALSE,
             wait |-> w]
MintRequest == [Timer(0) EXCEPT !.kind = "mint"]
Socket == [Timer(0) EXCEPT !.kind = "socket", !.attached = TRUE]

Try == [kind: {"timer", "mint", "socket"}, current: BOOLEAN, up: BOOLEAN,
        attached: BOOLEAN, wait: 0..Ceiling]
Status == {"live", "reconnecting", "down"}

\* Nothing did; mints that took their time; or a sleep, or a handshake that
\* hung, either of which may take any time at all.
Lag == {"none", "mints", "stall"}

TypeOK ==
    /\ live \in BOOLEAN
    /\ tries \in SUBSET Try
    /\ delay \in 1..Ceiling
    /\ failures \in 0..MaxFailures
    /\ elapsed \in -1..DownAfter
    /\ emitted \in Status
    /\ reachable \in BOOLEAN
    /\ starts \in 0..MaxStarts
    /\ lag \in Lag

Init ==
    /\ live = FALSE
    /\ tries = {}
    /\ delay = 1
    /\ failures = 0
    /\ elapsed = -1
    /\ emitted = "reconnecting"
    /\ reachable \in BOOLEAN
    /\ starts = 0
    /\ lag = "none"

\* Plausible bug: the delay is never clamped.
AtMostNever(n, bound) == n

AtMost(n, bound) == IF n < bound THEN n ELSE bound

\* n units go by; only those since the first failure of a run count.
Elapse(n) == elapsed' = IF elapsed = -1 THEN -1 ELSE AtMost(elapsed + n, DownAfter)

\* Time the schedule does not provide for; a stall outlasts any bound.
Mark(cause) ==
    lag' = IF elapsed = -1 \/ lag = "stall" THEN lag ELSE cause
Stall == Elapse(DownAfter) /\ Mark("stall")

\* Plausible bug: the generation is left as it is.
BumpNothing(set) == set

\* A new generation: nothing outstanding is current any more.
Bump(set) == {[t EXCEPT !.current = FALSE] : t \in set}

\* Plausible bug: the slot is cleared and the socket left open.
AbandonOpen(set) == set

\* abandon: detach and close the socket that the slot holds.
Abandon(set) == {t \in set : t.kind # "socket"}

-----------------------------------------------------------------------------

Start ==
    /\ ~ live
    /\ starts < MaxStarts
    /\ live' = TRUE
    /\ tries' = Bump(tries) \cup {MintRequest}
    /\ delay' = 1
    /\ failures' = 0
    /\ elapsed' = -1
    /\ starts' = starts + 1
    /\ lag' = "none"
    /\ UNCHANGED <<emitted, reachable>>

Stop ==
    /\ live
    /\ live' = FALSE
    /\ tries' = {t \in Abandon(Bump(tries)) : t.kind # "timer"}
    /\ UNCHANGED <<delay, failures, elapsed, emitted, reachable, starts, lag>>

\* setTimeout calls back after the wait, or after a sleep that outlasts it.
TimerFires(t, asleep) ==
    /\ t \in tries
    /\ t.kind = "timer"
    /\ IF asleep THEN Stall ELSE Elapse(t.wait) /\ UNCHANGED lag
    /\ tries' = (tries \ {t}) \cup (IF t.current THEN {MintRequest} ELSE {})
    /\ UNCHANGED <<live, delay, failures, emitted, reachable, starts>>

\* schedule: the wait is committed, then the next one grows.
Schedule(rest) ==
    /\ delay' = AtMost(2 * delay, Ceiling)
    /\ tries' = rest \cup {Timer(delay)}

\* Plausible bug: the loop stops once the panel is up.
FailGivingUp(rest) ==
    /\ failures' = AtMost(failures + 1, MaxFailures)
    /\ elapsed' = IF elapsed = -1 THEN 0 ELSE elapsed
    /\ emitted' = IF elapsed' >= DownAfter /\ failures' >= MinFailures
                  THEN "down" ELSE "reconnecting"
    /\ IF emitted' = "down"
       THEN tries' = Abandon(Bump(rest)) /\ UNCHANGED delay
       ELSE Schedule(Abandon(Bump(rest)))
    /\ UNCHANGED <<live, reachable, starts, lag>>

\* fail, for a try of the current generation; rest is what else is outstanding.
Fail(rest) ==
    /\ failures' = AtMost(failures + 1, MaxFailures)
    /\ elapsed' = IF elapsed = -1 THEN 0 ELSE elapsed
    /\ emitted' = IF elapsed' >= DownAfter /\ failures' >= MinFailures
                  THEN "down" ELSE "reconnecting"
    /\ Schedule(Abandon(Bump(rest)))
    /\ UNCHANGED <<live, reachable, starts, lag>>

\* What a stale callback does: nothing, beyond having been called.
Drop(t) ==
    /\ tries' = tries \ {t}
    /\ UNCHANGED <<live, delay, failures, elapsed, emitted, reachable, starts, lag>>

\* A mint takes its time, up to the timeout of every read.
MintWaits(t) ==
    /\ t \in tries
    /\ t.kind = "mint" /\ t.current /\ t.wait < ReadTimeout
    /\ tries' = (tries \ {t}) \cup {[t EXCEPT !.wait = @ + 1]}
    /\ Elapse(1) /\ Mark("mints")
    /\ UNCHANGED <<live, delay, failures, emitted, reachable, starts>>

\* A handshake hangs: nothing here bounds it.
HandshakeHangs(t) ==
    /\ t \in tries
    /\ t.kind = "socket" /\ t.current /\ ~ t.up
    /\ Stall
    /\ UNCHANGED <<live, tries, delay, failures, emitted, reachable, starts>>

\* readSessionTicket settles with a ticket: the socket is opened at once.
MintSucceeds(t) ==
    /\ t \in tries
    /\ t.kind = "mint"
    /\ reachable
    /\ IF t.current
       THEN /\ tries' = (tries \ {t}) \cup {Socket}
            /\ UNCHANGED <<live, delay, failures, elapsed, emitted, reachable, starts,
                           lag>>
       ELSE Drop(t)

\* ... or with a refusal or nothing; or the socket's constructor throws.
MintFails(t) ==
    /\ t \in tries
    /\ t.kind = "mint"
    /\ IF t.current THEN Fail(tries \ {t}) ELSE Drop(t)

\* Plausible bug: an open resets the count of failures but not their start.
SucceedSinceBefore(t) ==
    /\ failures' = 0
    /\ lag' = "none"
    /\ delay' = 1
    /\ emitted' = "live"
    /\ tries' = (tries \ {t}) \cup {[t EXCEPT !.up = TRUE]}
    /\ UNCHANGED <<live, elapsed, reachable, starts>>

\* succeed: the run of failures is over.
Succeed(t) ==
    /\ failures' = 0
    /\ elapsed' = -1
    /\ lag' = "none"
    /\ delay' = 1
    /\ emitted' = "live"
    /\ tries' = (tries \ {t}) \cup {[t EXCEPT !.up = TRUE]}
    /\ UNCHANGED <<live, reachable, starts>>

\* The browser's open event.
SocketOpens(t) ==
    /\ t \in tries
    /\ t.kind = "socket" /\ t.attached /\ ~ t.up
    /\ reachable
    /\ IF t.current THEN Succeed(t) ELSE Drop(t)

\* The browser's close or error event, whichever comes first.
SocketCloses(t) ==
    /\ t \in tries
    /\ t.kind = "socket" /\ t.attached
    /\ IF t.current THEN Fail(tries) ELSE Drop(t)

BackendChanges ==
    /\ reachable' = ~ reachable
    /\ UNCHANGED <<live, tries, delay, failures, elapsed, emitted, starts, lag>>

-----------------------------------------------------------------------------

Next ==
    \/ Start \/ Stop \/ BackendChanges
    \/ \E t \in tries :
          \/ \E asleep \in BOOLEAN : TimerFires(t, asleep)
          \/ MintWaits(t) \/ HandshakeHangs(t)
          \/ MintSucceeds(t) \/ MintFails(t) \/ SocketOpens(t) \/ SocketCloses(t)

Spec == Init /\ [][Next]_vars

\* The browser calls timers and events back, and a backend that stays
\* reachable does not refuse every mint and every upgrade for ever.
Fairness ==
    /\ WF_vars(\E t \in tries, asleep \in BOOLEAN : TimerFires(t, asleep))
    /\ SF_vars(\E t \in tries : t.current /\ MintSucceeds(t))
    /\ SF_vars(\E t \in tries : t.current /\ SocketOpens(t))

FairSpec == Spec /\ Fairness

-----------------------------------------------------------------------------
(* What must hold. *)

\* The loop never dies and never doubles: while it runs exactly one try is
\* outstanding under its generation, a timer, a mint or a socket, and after
\* stop() none is.
OneTryInHand ==
    LET own == {t \in tries : t.current}
    IN IF live THEN Cardinality(own) = 1 ELSE own = {}

\* No socket is left behind: one that the loop has moved on from is closed
\* and detached, so the backend does not keep a tab's second connection.
NoSocketLeaks == \A t \in tries : t.kind = "socket" => t.current /\ live

\* `live' is said exactly while a socket is open.  The emit-on-change memory
\* survives a stop(), so this is for the first start() of an instance, the
\* only one the application makes.
LiveMeansOpen ==
    live /\ starts = 1 =>
        (emitted = "live" <=> \E t \in tries : t.kind = "socket" /\ t.up)

\* What the loop holds and what it has said of it agree: one try, no socket
\* besides it, and `live' for an open one.
SocketsAreAccounted == OneTryInHand /\ NoSocketLeaks /\ LiveMeansOpen

\* Disconnected is not announced for a blip: it takes the six failures that
\* 60 s of the schedule amount to, five when mints that hang up to their
\* timeout stretch it, and after a sleep or a hung handshake, which may take
\* any time, still the four that must be observed.
DownIsEarned ==
    [][ emitted' = "down" /\ emitted # "down"
          => failures' >= CASE lag = "none" -> 6
                            [] lag = "mints" -> 5
                            [] lag = "stall" -> MinFailures ]_vars

\* The loop never gives up, `down' or not: a backend that stays reachable is
\* connected to again and again for as long as the loop runs.
Reconnects ==
    <>[](live /\ reachable) => []<>(\E t \in tries : t.current /\ t.up)
=============================================================================
