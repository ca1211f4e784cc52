------------------------------ MODULE Launch ------------------------------
(***************************************************************************)
(* Launching and stopping companions on one machine, and the pushes of the *)
(* agent tools that look for one: run() and the lock                       *)
(* (src/companion/app/server.py, app/singleton.py), the discovery file     *)
(* (src/companion/discovery.py, app/main.py) and the client                *)
(* (src/companion/client.py).                                              *)
(*                                                                         *)
(* A launch is an operating-system process: it mints one identity and one  *)
(* token, so `owner' of a discovery record stands for both.  Any process   *)
(* may die between two steps, and programs that are no companion take and  *)
(* leave ports.                                                            *)
(***************************************************************************)
EXTENDS Integers

CONSTANTS
    Proc,       \* launches of the companion, each a process used once
    Port,       \* loopback ports
    Preferred,  \* the port every launch tries first
    Call,       \* calls of push_event
    NoProc, NoPort

ASSUME ProcAssumption == NoProc \notin Proc
ASSUME PortAssumption == Preferred \in Port /\ NoPort \notin Port

VARIABLES
    pc,       \* process -> where run() stands
    seen,     \* process -> the discovery record it read last
    lock,     \* the process that holds companion.lock
    port,     \* process -> the port it has bound
    foreign,  \* ports bound by other programs
    file,     \* companion.json
    call,     \* call -> where push_event stands
    found,    \* call -> the discovery record it read last
    left,     \* call -> attempts it may still make
    accepted  \* history: call -> how many backends took its event

procVars == <<pc, seen, lock, port, file>>
callVars == <<call, found, left, accepted>>
launchVars == <<procVars, foreign, callVars>>

NoRecord == [owner |-> NoProc, port |-> NoPort]
Record == [owner: Proc, port: Port] \cup {NoRecord}

Starting == {"locked", "bound", "published"}
Stopping == {"draining", "retracting", "closing", "closed"}
Holding == Starting \cup {"serving"} \cup Stopping
ProcState == {"idle", "probing", "proceeding", "found", "refused", "over"} \cup Holding
CallState == {"idle", "sending", "displayed", "app_not_running", "backend_error"}

LaunchTypeOK ==
    /\ pc \in [Proc -> ProcState]
    /\ seen \in [Proc -> Record]
    /\ lock \in Proc \cup {NoProc}
    /\ port \in [Proc -> Port \cup {NoPort}]
    /\ foreign \in SUBSET Port
    /\ file \in Record
    /\ call \in [Call -> CallState]
    /\ found \in [Call -> Record]
    /\ left \in [Call -> 0..2]
    /\ accepted \in [Call -> Nat]

LaunchInit ==
    /\ pc = [p \in Proc |-> "idle"]
    /\ seen = [p \in Proc |-> NoRecord]
    /\ lock = NoProc
    /\ port = [p \in Proc |-> NoPort]
    /\ foreign = {}
    /\ file = NoRecord
    /\ call = [k \in Call |-> "idle"]
    /\ found = [k \in Call |-> NoRecord]
    /\ left = [k \in Call |-> 2]
    /\ accepted = [k \in Call |-> 0]

Goto(p, state) == pc' = [pc EXCEPT ![p] = state]

Taken == foreign \cup {port[p] : p \in Proc}

\* The identity a companion answers with on port n: only a serving one does.
Answers(p, n) == pc[p] = "serving" /\ port[p] = n

-----------------------------------------------------------------------------
(* run(): probe, lock, bind, serve. *)

\* live_instance reads the discovery file; with none there is no request.
ReadRecord(p) ==
    /\ pc[p] = "idle"
    /\ seen' = [seen EXCEPT ![p] = file]
    /\ Goto(p, IF file = NoRecord THEN "proceeding" ELSE "probing")
    /\ UNCHANGED <<lock, port, file, foreign, callVars>>

\* The recorded identity answers on the recorded port: already running.
ProbeFinds(p) ==
    /\ pc[p] = "probing"
    /\ \E q \in Proc : Answers(q, seen[p].port) /\ q = seen[p].owner
    /\ Goto(p, "found")
    /\ UNCHANGED <<seen, lock, port, file, foreign, callVars>>

\* Nothing answers, something else does, or the answer comes too late.
ProbeFails(p) ==
    /\ pc[p] = "probing"
    /\ Goto(p, "proceeding")
    /\ UNCHANGED <<seen, lock, port, file, foreign, callVars>>

\* Plausible bug: the discovery file stands in for the kernel's lock.
AcquireByFile(p) ==
    /\ pc[p] = "proceeding"
    /\ file = seen[p]
    /\ lock' = p
    /\ Goto(p, "locked")
    /\ UNCHANGED <<seen, port, file, foreign, callVars>>

\* acquire_instance_lock: the kernel's lock, never waited for.
AcquireInstanceLock(p) ==
    /\ pc[p] = "proceeding"
    /\ lock = NoProc
    /\ lock' = p
    /\ Goto(p, "locked")
    /\ UNCHANGED <<seen, port, file, foreign, callVars>>

LockRefused(p) ==
    /\ pc[p] = "proceeding"
    /\ lock # NoProc
    /\ Goto(p, "refused")
    /\ UNCHANGED <<seen, lock, port, file, foreign, callVars>>

\* bind_localhost_socket: the preferred port, or any other when it is taken.
BindLocalhostSocket(p, n) ==
    /\ pc[p] = "locked"
    /\ n \in Port \ Taken
    /\ n = Preferred \/ Preferred \in Taken
    /\ port' = [port EXCEPT ![p] = n]
    /\ Goto(p, "bound")
    /\ UNCHANGED <<seen, lock, file, foreign, callVars>>

\* The ephemeral bind fails too.
BindFails(p) ==
    /\ pc[p] = "locked"
    /\ Port \subseteq Taken
    /\ Goto(p, "closed")
    /\ UNCHANGED <<seen, lock, port, file, foreign, callVars>>

\* _publish_discovery, before the server listens.
PublishDiscovery(p) ==
    /\ pc[p] = "bound"
    /\ file' = [owner |-> p, port |-> port[p]]
    /\ Goto(p, "published")
    /\ UNCHANGED <<seen, lock, port, foreign, callVars>>

\* The write raises: the launch is over, and there is nothing to retract.
PublishFails(p) ==
    /\ pc[p] = "bound"
    /\ Goto(p, "closing")
    /\ UNCHANGED <<seen, lock, port, file, foreign, callVars>>

Listen(p) ==
    /\ pc[p] = "published"
    /\ Goto(p, "serving")
    /\ UNCHANGED <<seen, lock, port, file, foreign, callVars>>

-----------------------------------------------------------------------------
(* Stopping: no longer listening, then the lifespan's teardown, then what  *)
(* the two `finally' of run() give up.                                     *)

\* Plausible bug: the lock is given up first, before the teardown.
StopReleasing(p) ==
    /\ pc[p] = "serving"
    /\ lock' = NoProc
    /\ Goto(p, "draining")
    /\ UNCHANGED <<seen, port, file, foreign, callVars>>

Stop(p) ==
    /\ pc[p] = "serving"
    /\ Goto(p, "draining")
    /\ UNCHANGED <<seen, lock, port, file, foreign, callVars>>

\* remove_discovery reads the record back and compares.
ReadBack(p) ==
    /\ pc[p] = "draining"
    /\ seen' = [seen EXCEPT ![p] = file]
    /\ Goto(p, IF file.owner = p THEN "retracting" ELSE "closing")
    /\ UNCHANGED <<lock, port, file, foreign, callVars>>

\* ... and only then unlinks, whatever is there by now.
Unlink(p) ==
    /\ pc[p] = "retracting"
    /\ file' = NoRecord
    /\ Goto(p, "closing")
    /\ UNCHANGED <<seen, lock, port, foreign, callVars>>

UnlinkFails(p) ==
    /\ pc[p] = "retracting"
    /\ Goto(p, "closing")
    /\ UNCHANGED <<seen, lock, port, file, foreign, callVars>>

CloseSocket(p) ==
    /\ pc[p] = "closing"
    /\ port' = [port EXCEPT ![p] = NoPort]
    /\ Goto(p, "closed")
    /\ UNCHANGED <<seen, lock, file, foreign, callVars>>

ReleaseInstanceLock(p) ==
    /\ pc[p] = "closed"
    /\ lock' = NoProc
    /\ Goto(p, "over")
    /\ UNCHANGED <<seen, port, file, foreign, callVars>>

\* The process dies: the kernel closes its descriptors, the file stays.
Die(p) ==
    /\ pc[p] \notin {"idle", "found", "refused", "over"}
    /\ lock' = IF lock = p THEN NoProc ELSE lock
    /\ port' = [port EXCEPT ![p] = NoPort]
    /\ Goto(p, "over")
    /\ UNCHANGED <<seen, file, foreign, callVars>>

-----------------------------------------------------------------------------
(* push_event: read the file, send, and once more after a 403. *)

Finish(k, outcome) ==
    /\ call' = [call EXCEPT ![k] = outcome]
    /\ UNCHANGED <<procVars, foreign, found, left>>

PushRead(k) ==
    /\ call[k] = "idle"
    /\ found' = [found EXCEPT ![k] = file]
    /\ call' = [call EXCEPT ![k] = IF file = NoRecord THEN "app_not_running"
                                   ELSE "sending"]
    /\ UNCHANGED <<procVars, foreign, left, accepted>>

\* The connection is refused, or not completed in time.
PushUnconnected(k) ==
    /\ call[k] = "sending"
    /\ Finish(k, "app_not_running")
    /\ UNCHANGED accepted

\* Plausible bug: an answer that is lost spends the retry too.
PushAcceptedRetrying(k) ==
    /\ call[k] = "sending"
    /\ Answers(found[k].owner, found[k].port)
    /\ accepted' = [accepted EXCEPT ![k] = @ + 1]
    /\ \E outcome \in {"displayed", "idle"} : Finish(k, outcome)

\* The companion whose token this is takes the event; its answer may be lost.
PushAccepted(k) ==
    /\ call[k] = "sending"
    /\ Answers(found[k].owner, found[k].port)
    /\ accepted' = [accepted EXCEPT ![k] = @ + 1]
    /\ \E outcome \in {"displayed", "backend_error"} : Finish(k, outcome)

\* Plausible bug: the budget is tested before this attempt is counted.
PushRefusedOnceMore(k) ==
    /\ call[k] = "sending"
    /\ \/ \E p \in Proc \ {found[k].owner} : Answers(p, found[k].port)
       \/ found[k].port \in foreign
    /\ left' = [left EXCEPT ![k] = @ - 1]
    /\ call' = [call EXCEPT ![k] = IF left[k] = 0 THEN "backend_error" ELSE "idle"]
    /\ UNCHANGED <<procVars, foreign, found, accepted>>

\* A 403, from a companion with another token or from a stranger: the one
\* retry, with the file read again.
PushRefused(k) ==
    /\ call[k] = "sending"
    /\ \/ \E p \in Proc \ {found[k].owner} : Answers(p, found[k].port)
       \/ found[k].port \in foreign
    /\ left' = [left EXCEPT ![k] = @ - 1]
    /\ call' = [call EXCEPT ![k] = IF left[k] = 1 THEN "backend_error" ELSE "idle"]
    /\ UNCHANGED <<procVars, foreign, found, accepted>>

\* A stranger answers something else, or nothing comes within the deadline.
PushUnanswered(k) ==
    /\ call[k] = "sending"
    /\ found[k].port \in Taken
    /\ Finish(k, "backend_error")
    /\ UNCHANGED accepted

-----------------------------------------------------------------------------

ForeignTakes(n) ==
    /\ n \notin Taken
    /\ foreign' = foreign \cup {n}
    /\ UNCHANGED <<procVars, callVars>>

ForeignLeaves(n) ==
    /\ n \in foreign
    /\ foreign' = foreign \ {n}
    /\ UNCHANGED <<procVars, callVars>>

Start(p) ==
    \/ ReadRecord(p) \/ ProbeFinds(p) \/ ProbeFails(p)
    \/ AcquireInstanceLock(p) \/ LockRefused(p)
    \/ \E n \in Port : BindLocalhostSocket(p, n)
    \/ BindFails(p) \/ PublishDiscovery(p) \/ PublishFails(p) \/ Listen(p)

Shutdown(p) ==
    \/ Stop(p) \/ ReadBack(p) \/ Unlink(p) \/ UnlinkFails(p)
    \/ CloseSocket(p) \/ ReleaseInstanceLock(p) \/ Die(p)

Push(k) ==
    \/ PushRead(k) \/ PushUnconnected(k) \/ PushAccepted(k)
    \/ PushRefused(k) \/ PushUnanswered(k)

LaunchNext ==
    \/ \E p \in Proc : Start(p) \/ Shutdown(p)
    \/ \E k \in Call : Push(k)
    \/ \E n \in Port : ForeignTakes(n) \/ ForeignLeaves(n)

LaunchSpec == LaunchInit /\ [][LaunchNext]_launchVars

-----------------------------------------------------------------------------
(* What must hold. *)

\* One companion at a time, from the moment it may bind a port to the moment
\* it has given everything up, however launches, stops and deaths interleave.
OneCompanion ==
    \A p, q \in Proc : pc[p] \in Holding /\ pc[q] \in Holding => p = q

\* The discovery file names the companion that serves, with its port, for as
\* long as it serves: no other launch overwrites it and no other shutdown
\* unlinks it between its read and its unlink.
ServingIsDiscoverable ==
    \A p \in Proc : pc[p] \in {"published", "serving"}
        => file = [owner |-> p, port |-> port[p]]

\* A push is taken by at most one backend and at most once, retry included,
\* and what it reports is true: `displayed' only if it was taken, and
\* `app_not_running' only if it was not.
PushAtMostOnce ==
    \A k \in Call :
        /\ accepted[k] <= 1
        /\ call[k] = "displayed" => accepted[k] = 1
        /\ call[k] \in {"idle", "sending", "app_not_running"} => accepted[k] = 0
=============================================================================
