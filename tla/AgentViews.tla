------------------------------ MODULE AgentViews ------------------------------
(***************************************************************************)
(* The agent views of one tab (ui/src/state/agentView.ts): which view is   *)
(* on the glass, the last push of each kind behind its pill, the kinds the *)
(* person has not seen, and the bounded history of the session's pushes.   *)
(*                                                                         *)
(* A push is an envelope: an opaque id, a kind and a timestamp that may be *)
(* unreadable.  The code tells two deliveries of one envelope apart by     *)
(* object identity, which "ref", the number of the arrival, stands for.    *)
(***************************************************************************)
EXTENDS Naturals, SequencesExt

CONSTANTS Kind,          \* the kinds of view: AgentViewKind
          Instant,       \* readable timestamps
          Unreadable,    \* a timestamp that does not parse
          NoPush,        \* "never pushed"
          HistoryCap,    \* HISTORY_CAP
          MaxPushes      \* bound on the arrivals of a behaviour

ASSUME ViewsAssumption ==
    /\ Instant \subseteq Nat
    /\ Unreadable \notin Instant
    /\ HistoryCap \in Nat \ {0}
    /\ MaxPushes \in Nat

Push == [id : 1 .. MaxPushes, kind : Kind, ts : Instant \cup {Unreadable},
         ref : 1 .. MaxPushes]

ASSUME NoPushAssumption == NoPush \notin Push

VARIABLES status,     \* "open" or "closed"
          content,    \* the one slot of the overlay
          retained,   \* the last push of each kind
          unread,     \* the kinds displaced unseen
          history,    \* the session's pushes, newest first
          arrived,    \* how many pushes have arrived
          sent        \* history variable: what they were

viewVars == <<status, content, retained, unread, history, arrived, sent>>

ViewsTypeOK ==
    /\ status \in {"open", "closed"}
    /\ content \in Push \cup {NoPush}
    /\ retained \in [Kind -> Push \cup {NoPush}]
    /\ unread \subseteq Kind
    /\ history \in Seq(Push)
    /\ Len(history) <= HistoryCap
    /\ arrived \in 0 .. MaxPushes
    /\ sent \subseteq Push
    /\ status = "open" => content # NoPush

ViewsInit ==
    /\ status = "closed"
    /\ content = NoPush
    /\ retained = [k \in Kind |-> NoPush]
    /\ unread = {}
    /\ history = <<>>
    /\ arrived = 0
    /\ sent = {}

-----------------------------------------------------------------------------
(* A mutant: a push is filed behind the first entry it is newer than. *)
PlaceOneLate(h, p) ==
    IF p.ts = Unreadable THEN 1
    ELSE LET Stops(e) == e.ts = Unreadable \/ e.ts <= p.ts
             at == SelectInSeq(h, Stops)
         IN  IF at = 0 THEN Len(h) + 1 ELSE at + 1

(* Where a push of a new id is filed: before the first entry that is not   *)
(* newer than it or cannot be ranked; at the front if it cannot be ranked  *)
(* itself.                                                                 *)
Place(h, p) ==
    IF p.ts = Unreadable THEN 1
    ELSE LET Stops(e) == e.ts = Unreadable \/ e.ts <= p.ts
             at == SelectInSeq(h, Stops)
         IN  IF at = 0 THEN Len(h) + 1 ELSE at

Capped(h) == IF Len(h) > HistoryCap THEN SubSeq(h, 1, HistoryCap) ELSE h

HistoryWith(h, p) ==
    LET Same(e) == e.id = p.id
        at == SelectInSeq(h, Same)
    IN  IF at # 0 THEN [h EXCEPT ![at] = p]
        ELSE Capped(InsertAt(h, Place(h, p), p))

(* A mutant: looking back at any push of the history makes it its kind's   *)
(* latest.                                                                 *)
RevisitNever(p) == FALSE

(* An older envelope put back from the history does not become its kind's  *)
(* latest.                                                                 *)
Revisit(p) == p \in Range(history) /\ p # retained[p.kind]

(* Show a view: one write, which displaces an open view of another kind.   *)
OpenAgentView(p) ==
    LET displaced == IF status = "open" /\ content.kind # p.kind
                     THEN {content.kind} ELSE {}
    IN  /\ status' = "open"
        /\ content' = p
        /\ unread' = (unread \ {p.kind}) \cup displaced
        /\ retained' = IF Revisit(p) THEN retained
                       ELSE [retained EXCEPT ![p.kind] = p]
        /\ history' = HistoryWith(history, p)

(* A push arrives and opens its view: a new envelope, or one the tab has   *)
(* been sent before.                                                       *)
ArrivePush(p) ==
    /\ arrived < MaxPushes
    /\ arrived' = arrived + 1
    /\ p.ref = arrived + 1
    /\ sent' = sent \cup {p}
    /\ \/ p.id = arrived + 1
       \/ \E q \in sent : p = [q EXCEPT !.ref = arrived + 1]
    /\ OpenAgentView(p)

(* A pill puts its kind's last push back, an entry of the popover one of   *)
(* the history; neither can be reached while a view is open.               *)
ReopenAgentView(k) ==
    /\ status = "closed"
    /\ retained[k] # NoPush
    /\ OpenAgentView(retained[k])
    /\ UNCHANGED <<arrived, sent>>

ReopenPush(p) ==
    /\ status = "closed"
    /\ p \in Range(history)
    /\ OpenAgentView(p)
    /\ UNCHANGED <<arrived, sent>>

CloseAgentView ==
    /\ status = "open"
    /\ status' = "closed"
    /\ UNCHANGED <<content, retained, unread, history, arrived, sent>>
=============================================================================
