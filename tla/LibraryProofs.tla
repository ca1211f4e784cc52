---------------------------- MODULE LibraryProofs ----------------------------
(***************************************************************************)
(* A ready database is a complete one (Library), for any snapshots, cards, *)
(* identities and decks, and any kills and failures, as long as one call   *)
(* of initialize_database is in progress at a time.  With two the model    *)
(* checker has a counterexample.  For any number of calls no row comes to  *)
(* stand without its card, and a reconcile that applies what it planned    *)
(* for leaves every deck as many copies of every card: that rests on what  *)
(* a sum over a finite set does, and on what is sound about a plan.        *)
(***************************************************************************)
EXTENDS Library, FiniteSetTheorems, WellFoundedInduction, TLAPS

Types ==
    /\ cards \in SUBSET Card
    /\ marker \in BOOLEAN
    /\ at \in [Run -> Step]
    /\ fresh \in [Run -> BOOLEAN]
    /\ snapshot \in [Run -> Snapshot \cup {NoSnapshot}]
    /\ rejected \in [Run -> SUBSET Identity]
    /\ todo \in [Run -> SUBSET Card]
    /\ plan = [r \in Run |-> plan[r]]

Writing == {"importing", "reconciling", "applying", "finishing"}
Held(i) == cards \cap Printings(i) # {}

\* Between the marker and the end, what a run has to bring is there or to do,
\* and a table that has nothing in it yet is marked.
WritingIsMarked(r) ==
    at[r] \in Writing =>
        /\ snapshot[r] \in Snapshot
        /\ marker \/ cards # {}
        /\ fresh[r] => marker
        /\ \A i \in Identity \ rejected[r] : Held(i) \/ snapshot[r][i] \in todo[r]
        /\ at[r] # "importing" => todo[r] = {}

\* The count that allows a clear is still true, or what it allows is marked.
ClearIsEarned(r) ==
    /\ at[r] = "downloading" /\ fresh[r] => cards = {}
    /\ at[r] = "clearing" => marker \/ cards = {}

PlanIsCurrent(r) == at[r] = "applying" => plan[r].stale = Stale(r)

LibraryInv(r) ==
    Types /\ WritingIsMarked(r) /\ ClearIsEarned(r) /\ PlanIsCurrent(r) /\ ReadyMeansComplete

\* What no step of a run may do to a ready table.
KeepsIdentities == \A i \in Identity : Held(i) => Held(i)'

LEMMA SnapshotNames ==
  ASSUME NEW s \in Snapshot, NEW i \in Identity
  PROVE  s[i] \in Card /\ OracleId[s[i]] = i
BY DEF Snapshot

(* Collapsing the planned printings leaves each identity its canonical one *)
(* (plan_identity_dedup, reconcile_oracle_identities).                     *)
LEMMA ReconcileKeepsIdentities ==
  ASSUME Types, NEW r \in Run, snapshot[r] \in Snapshot, NEW i \in Identity, Held(i)
  PROVE  (cards \ Stale(r)) \cap Printings(i) # {}
<1>1. PICK c \in cards : c \in Printings(i)
  BY DEF Held
<1>2. OracleId[c] = i /\ c \in Card
  BY <1>1 DEF Printings
<1>3. CASE c \notin Stale(r)
  BY <1>1, <1>3
<1>4. CASE c \in Stale(r)
  <2>1. snapshot[r][i] \in cards
    BY <1>2, <1>4 DEF Stale, Canonical
  <2>2. OracleId[snapshot[r][i]] = i /\ snapshot[r][i] \in Card
    BY SnapshotNames
  <2>3. snapshot[r][i] \notin Stale(r)
    BY <2>2 DEF Stale, Canonical
  <2> QED BY <2>1, <2>2, <2>3 DEF Printings
<1> QED BY <1>3, <1>4

LEMMA LibraryStart == ASSUME NEW r \in Run PROVE Init => LibraryInv(r)
<1> SUFFICES ASSUME Init PROVE LibraryInv(r)
  OBVIOUS
<1>1. Types
  BY DEF Init, Types, Step
<1>2. at[r] = "idle"
  BY DEF Init
<1>3. ReadyMeansComplete
  BY DEF Init, ReadyMeansComplete, Ready, Complete
<1> QED BY <1>1, <1>2, <1>3 DEF LibraryInv, WritingIsMarked, ClearIsEarned, PlanIsCurrent, Writing

-----------------------------------------------------------------------------
(* Steps.                                                                  *)

LEMMA TypesStep == Types /\ [Next]_vars => Types'
<1> SUFFICES ASSUME Types, [Next]_vars PROVE Types'
  OBVIOUS
<1> USE DEF Types, Step
<1>1. ASSUME NEW r \in Run, Import(r) PROVE Types'
  <2>1. ASSUME NEW update \in BOOLEAN, Begin(r, update) PROVE Types'
    BY <2>1 DEF Begin, Goto
  <2>2. CASE Download(r)
    <3>1. PICK s \in Snapshot, R \in SUBSET Identity :
            /\ snapshot' = [snapshot EXCEPT ![r] = s]
            /\ rejected' = [rejected EXCEPT ![r] = R]
            /\ todo' = [todo EXCEPT ![r] = {s[i] : i \in Identity \ R}]
      BY <2>2 DEF Download
    <3>2. {s[i] : i \in Identity \ R} \in SUBSET Card
      BY SnapshotNames
    <3>3. marker' \in BOOLEAN
      BY <2>2 DEF Download
    <3>4. at' \in [Run -> Step] /\ UNCHANGED <<cards, fresh, plan>>
      BY <2>2 DEF Download, Goto
    <3>5. /\ snapshot' \in [Run -> Snapshot \cup {NoSnapshot}]
          /\ rejected' \in [Run -> SUBSET Identity]
          /\ todo' \in [Run -> SUBSET Card]
      BY <3>1, <3>2
    <3> QED BY <3>3, <3>4, <3>5
  <2>3. CASE Batch(r)
    BY <2>3 DEF Batch
  <2>4. CASE Imported(r)
    BY <2>4 DEF Imported, Goto
  <2>5. CASE PlanReconcile(r)
    BY <2>5 DEF PlanReconcile, Goto
  <2>6. CASE ApplyReconcile(r)
    BY <2>6 DEF ApplyReconcile, Goto
  <2>7. CASE SkipReconcile(r)
    BY <2>7 DEF SkipReconcile, Goto
  <2>8. CASE Finish(r)
    BY <2>8 DEF Finish, End
  <2>9. CASE Fail(r)
    BY <2>9 DEF Fail, End, Goto
  <2>10. CASE Clear(r)
    BY <2>10 DEF Clear, End
  <2>11. CASE Kill(r)
    BY <2>11 DEF Kill, End
  <2> QED BY <1>1, <2>1, <2>2, <2>3, <2>4, <2>5, <2>6, <2>7, <2>8, <2>9, <2>10, <2>11 DEF Import
<1>2. CASE UNCHANGED <<cards, marker, imports>>
  BY <1>2 DEF imports
<1>3. CASE ~(\E r \in Run : Import(r))
  <2>1. UNCHANGED <<cards, marker, imports>>
    BY <1>3 DEF Next, vars, Resolve, CommitEdit, RejectEdit, DeleteDeck, Sweep
  <2> QED BY <1>2, <2>1
<1> QED BY <1>1, <1>3

\* A step that adds to the cards at most, and takes no mark off, keeps what is
\* known of a run that stays where it is.
LEMMA OtherSteps ==
  ASSUME NEW r \in Run, LibraryInv(r), UNCHANGED <<cards, marker, imports, absent>>
  PROVE  WritingIsMarked(r)' /\ ClearIsEarned(r)' /\ PlanIsCurrent(r)' /\ ReadyMeansComplete'
         /\ KeepsIdentities
<1>1. UNCHANGED <<cards, marker, at, fresh, snapshot, rejected, todo, plan, absent>>
  BY DEF imports
<1> QED BY <1>1 DEF LibraryInv, WritingIsMarked, ClearIsEarned, PlanIsCurrent, ReadyMeansComplete,
    Ready, Complete, Held, Stale, Canonical, KeepsIdentities

LEMMA RunStep ==
  ASSUME NEW r \in Run, LibraryInv(r), Types', Import(r)
  PROVE  /\ WritingIsMarked(r)' /\ ClearIsEarned(r)' /\ PlanIsCurrent(r)' /\ ReadyMeansComplete'
         /\ Ready => KeepsIdentities
<1> USE DEF Held, Writing, KeepsIdentities
<1>0. Types /\ WritingIsMarked(r) /\ ClearIsEarned(r) /\ PlanIsCurrent(r) /\ ReadyMeansComplete
  BY DEF LibraryInv
<1> DEFINE Goal == /\ WritingIsMarked(r)' /\ ClearIsEarned(r)' /\ PlanIsCurrent(r)'
                   /\ ReadyMeansComplete' /\ (Ready => KeepsIdentities)
<1>1. ASSUME NEW update \in BOOLEAN, Begin(r, update) PROVE Goal
  <2>1. at'[r] = "downloading" /\ (fresh'[r] <=> cards = {})
    BY <1>0, <1>1 DEF Begin, Goto, Types
  <2>2. UNCHANGED <<cards, marker, absent>>
    BY <1>1 DEF Begin
  <2> QED BY <1>0, <2>1, <2>2 DEF WritingIsMarked, ClearIsEarned, PlanIsCurrent,
        ReadyMeansComplete, Ready, Complete
<1>2. CASE Download(r)
  <2>1. PICK s \in Snapshot, R \in SUBSET Identity :
          /\ snapshot' = [snapshot EXCEPT ![r] = s]
          /\ rejected' = [rejected EXCEPT ![r] = R]
          /\ todo' = [todo EXCEPT ![r] = {s[i] : i \in Identity \ R}]
    BY <1>2 DEF Download
  <2>2. snapshot'[r] = s /\ rejected'[r] = R /\ todo'[r] = {s[i] : i \in Identity \ R}
    BY <1>0, <2>1 DEF Types
  <2>3. /\ at[r] = "downloading" /\ at'[r] = "importing" /\ cards' = cards /\ absent' = absent
        /\ fresh' = fresh /\ marker' = (marker \/ cards = {})
    BY <1>0, <1>2 DEF Download, Goto, Types, Manages
  <2>4. WritingIsMarked(r)'
    BY <1>0, <2>2, <2>3 DEF WritingIsMarked, ClearIsEarned
  <2> QED BY <1>0, <2>3, <2>4 DEF ClearIsEarned, PlanIsCurrent, ReadyMeansComplete, Ready, Complete
<1>3. CASE Batch(r)
  <2>1. PICK c \in todo[r] : cards' = cards \cup {c} /\ todo' = [todo EXCEPT ![r] = @ \ {c}]
    BY <1>3 DEF Batch
  <2>2. /\ at[r] = "importing" /\ todo'[r] = todo[r] \ {c}
        /\ UNCHANGED <<marker, at, fresh, snapshot, rejected, plan, absent>>
    BY <1>0, <1>3, <2>1 DEF Batch, Types
  <2>3. ASSUME NEW i \in Identity \ rejected[r]
        PROVE  cards' \cap Printings(i) # {} \/ snapshot[r][i] \in todo'[r]
    <3>1. CASE Held(i)
      BY <3>1, <2>1
    <3>2. CASE snapshot[r][i] \in todo[r] /\ snapshot[r][i] # c
      BY <3>2, <2>2
    <3>3. CASE snapshot[r][i] = c
      <4>1. c \in Printings(i)
        BY <1>0, <2>2, <3>3, SnapshotNames DEF WritingIsMarked, Printings
      <4> QED BY <4>1, <2>1
    <3> QED BY <1>0, <2>2, <3>1, <3>2, <3>3 DEF WritingIsMarked
  <2>4. WritingIsMarked(r)'
    BY <1>0, <2>1, <2>2, <2>3 DEF WritingIsMarked
  <2>5. ReadyMeansComplete'
    BY <1>0, <2>1, <2>2 DEF WritingIsMarked, ReadyMeansComplete, Ready, Complete
  <2> QED BY <2>1, <2>2, <2>4, <2>5 DEF ClearIsEarned, PlanIsCurrent
<1>4. CASE Imported(r)
  <2>1. /\ at[r] = "importing" /\ at'[r] = "reconciling" /\ todo[r] = {}
        /\ UNCHANGED <<cards, marker, fresh, snapshot, rejected, todo, plan, absent>>
    BY <1>0, <1>4 DEF Imported, Goto, Types
  <2> QED BY <1>0, <2>1 DEF WritingIsMarked, ClearIsEarned, PlanIsCurrent, ReadyMeansComplete,
        Ready, Complete
<1>5. CASE PlanReconcile(r)
  <2>1. /\ at[r] = "reconciling" /\ at'[r] = "applying"
        /\ UNCHANGED <<cards, marker, fresh, snapshot, rejected, todo, absent>>
    BY <1>0, <1>5 DEF PlanReconcile, Goto, Types
  <2>2. plan'[r].stale = Stale(r)
    BY <1>0, <1>5 DEF PlanReconcile, Types
  <2>3. Stale(r)' = Stale(r)
    BY <2>1 DEF Stale, Canonical
  <2> QED BY <1>0, <2>1, <2>2, <2>3 DEF WritingIsMarked, ClearIsEarned, PlanIsCurrent,
        ReadyMeansComplete, Ready, Complete
<1>6. CASE ApplyReconcile(r)
  <2>1. /\ at[r] = "applying" /\ at'[r] = "finishing" /\ cards' = cards \ Stale(r)
        /\ UNCHANGED <<marker, fresh, snapshot, rejected, todo, absent>>
    BY <1>0, <1>6 DEF ApplyReconcile, Goto, Types, PlanIsCurrent
  <2>2. ASSUME NEW i \in Identity, Held(i) PROVE cards' \cap Printings(i) # {}
    BY <1>0, <2>1, <2>2, ReconcileKeepsIdentities DEF WritingIsMarked
  <2>3. cards # {} => cards' # {}
    <3>1. SUFFICES ASSUME NEW c \in cards PROVE cards' # {}
      OBVIOUS
    <3>2. Held(OracleId[c]) /\ OracleId[c] \in Identity
      BY <1>0, OracleAssumption DEF Types, Printings
    <3> QED BY <2>2, <3>2
  <2>4. WritingIsMarked(r)'
    BY <1>0, <2>1, <2>2, <2>3 DEF WritingIsMarked
  <2>5. ReadyMeansComplete'
    BY <1>0, <2>1, <2>2 DEF ReadyMeansComplete, Ready, Complete
  <2> QED BY <2>1, <2>2, <2>4, <2>5 DEF ClearIsEarned, PlanIsCurrent
<1>7. CASE SkipReconcile(r)
  <2>1. /\ at[r] \in {"reconciling", "applying"} /\ at'[r] = "finishing"
        /\ UNCHANGED <<cards, marker, fresh, snapshot, rejected, todo, absent>>
    BY <1>0, <1>7 DEF SkipReconcile, Goto, Types
  <2> QED BY <1>0, <2>1 DEF WritingIsMarked, ClearIsEarned, PlanIsCurrent, ReadyMeansComplete,
        Ready, Complete
<1>8. CASE Finish(r)
  <2>1. /\ at[r] = "finishing" /\ at'[r] = "idle" /\ cards' = cards
        /\ absent' = {i \in rejected[r] : cards \cap Printings(i) = {}}
    BY <1>0, <1>8 DEF Finish, End, Types
  <2>2. Complete'
    BY <1>0, <2>1 DEF WritingIsMarked, Complete
  <2> QED BY <2>1, <2>2 DEF WritingIsMarked, ClearIsEarned, PlanIsCurrent, ReadyMeansComplete
<1>9. CASE Fail(r)
  <2>1. UNCHANGED <<cards, marker, absent>> /\ at[r] \in {"downloading", "importing", "finishing"}
    BY <1>9 DEF Fail
  <2>2. (at'[r] = "clearing" /\ fresh[r]) \/ at'[r] = "idle"
    BY <1>0, <1>9 DEF Fail, Goto, End, Types
  <2> QED BY <1>0, <2>1, <2>2 DEF WritingIsMarked, ClearIsEarned, PlanIsCurrent,
        ReadyMeansComplete, Ready, Complete
<1>10. CASE Clear(r)
  <2>1. /\ at[r] = "clearing" /\ at'[r] = "idle" /\ UNCHANGED <<marker, absent>>
        /\ cards' = {} \/ cards' = cards
    BY <1>0, <1>10 DEF Clear, End, Types
  <2> QED BY <1>0, <2>1 DEF WritingIsMarked, ClearIsEarned, PlanIsCurrent, ReadyMeansComplete,
        Ready, Complete
<1>11. CASE Kill(r)
  <2>1. at'[r] = "idle" /\ UNCHANGED <<cards, marker, absent>>
    BY <1>0, <1>11 DEF Kill, End, Types
  <2> QED BY <1>0, <2>1 DEF WritingIsMarked, ClearIsEarned, PlanIsCurrent, ReadyMeansComplete,
        Ready, Complete
<1> QED BY <1>1, <1>2, <1>3, <1>4, <1>5, <1>6, <1>7, <1>8, <1>9, <1>10, <1>11 DEF Import

LEMMA LibraryStep ==
  ASSUME NEW r \in Run, Run = {r}
  PROVE  LibraryInv(r) /\ [Next]_vars => LibraryInv(r)' /\ (Ready => KeepsIdentities)
<1> SUFFICES ASSUME LibraryInv(r), [Next]_vars PROVE LibraryInv(r)' /\ (Ready => KeepsIdentities)
  OBVIOUS
<1>1. Types'
  BY TypesStep DEF LibraryInv
<1>2. CASE Import(r)
  BY <1>1, <1>2, RunStep DEF LibraryInv
<1>3. CASE ~Import(r)
  <2>1. UNCHANGED <<cards, marker, imports, absent>>
    BY <1>3 DEF Next, vars, Resolve, CommitEdit, RejectEdit, DeleteDeck, Sweep
  <2> QED BY <1>1, <2>1, OtherSteps DEF LibraryInv
<1> QED BY <1>2, <1>3

-----------------------------------------------------------------------------
(* A database that reads as ready holds every identity of a whole import,  *)
(* however often runs are killed, fail, clear and resume, one at a time    *)
(* (the marker of import_state.py).                                        *)
THEOREM ReadyDatabaseIsComplete ==
  ASSUME NEW r \in Run, Run = {r}
  PROVE  Spec => []ReadyMeansComplete
<1>1. LibraryInv(r) => ReadyMeansComplete
  BY DEF LibraryInv
<1> QED BY <1>1, LibraryStart, LibraryStep, PTL DEF Spec

(* No step of an import takes an identity from a ready database: neither a *)
(* refresh that replaces printings nor the clear of a failed run           *)
(* (plan_identity_dedup, initialize_database).                             *)
THEOREM NoImportLosesAnIdentity ==
  ASSUME NEW r \in Run, Run = {r}
  PROVE  Spec => [][NoIdentityLost]_vars
<1>1. (Ready => KeepsIdentities) => NoIdentityLost
  BY DEF NoIdentityLost, KeepsIdentities, Held
<1> QED BY <1>1, LibraryStart, LibraryStep, PTL DEF Spec

-----------------------------------------------------------------------------
(* The rows of the decks.                                                  *)

\* What SQLite refuses is what would leave a row without its card: a row that
\* is moved finds its card there, and no card goes while a row names it.
LEMMA ReconcileLeavesNoDangler ==
  ASSUME NEW r \in Run, ApplyReconcile(r)
  PROVE  NoRowDangles
<1>1. rows' = Merged(r) /\ cards' = cards \ plan[r].stale /\ ~Violates(r)
  BY DEF ApplyReconcile
<1>2. ASSUME NEW p \in Place, Merged(r)[p] # 0, p[2] \notin cards' PROVE p \in Dangling
  <2>1. p[2] \notin plan[r].stale
    BY <1>1, <1>2 DEF Violates
  <2>2. p[2] \notin cards
    BY <1>1, <1>2, <2>1
  <2>3. Repointed(r)[p] # 0
    BY <1>2 DEF Merged
  <2> DEFINE from == {q \in plan[r].repoint : q[1] = p[1] /\ Canonical(r, q[2]) = p[2]}
  <2>4. /\ from = {} => rows[p] # 0
        /\ from # {} => rows[p] + rows[CHOOSE q \in from : TRUE] # 0
    BY <2>3 DEF Repointed
  <2>5. ASSUME from # {} PROVE rows[p] # 0
    <3>1. PICK q \in from : q = CHOOSE x \in from : TRUE
      BY <2>5
    <3>2. rows[q] = 0
      BY <1>1, <2>2 DEF Violates, HasRow
    <3> QED BY <2>4, <2>5, <3>1, <3>2
  <2> QED BY <2>2, <2>4, <2>5 DEF Dangling, HasRow
<1> QED BY <1>1, <1>2 DEF NoRowDangles, Dangling, HasRow

LEMMA EditLeavesNoDangler == CommitEdit => NoRowDangles
<1> SUFFICES ASSUME CommitEdit PROVE NoRowDangles
  OBVIOUS
<1>1. rows' = Edited /\ cards' = cards /\ Accepted
  BY DEF CommitEdit
<1>2. ASSUME NEW p \in Place, Edited[p] # 0, p[2] \notin cards PROVE rows[p] # 0
  <2>1. CASE p[1] # edit.deck \/ p[2] \notin edit.cards
    BY <1>2, <2>1 DEF Edited
  <2>2. CASE p[1] = edit.deck /\ p[2] \in edit.cards
    <3>1. p = <<edit.deck, p[2]>>
      BY <2>2 DEF Place
    <3> QED BY <1>1, <1>2, <2>2, <3>1 DEF Accepted, HasRow
  <2> QED BY <2>1, <2>2
<1> QED BY <1>1, <1>2 DEF NoRowDangles, Dangling, HasRow

LEMMA ClearLeavesNoDangler ==
  ASSUME NEW r \in Run, Clear(r)
  PROVE  NoRowDangles
<1>1. rows' = rows /\ (cards' = cards \/ Referenced \cap cards = {})
  BY DEF Clear
<1>2. ASSUME NEW p \in Place, HasRow(p), Referenced \cap cards = {} PROVE p[2] \notin cards
  <2>1. p[1] \in Deck /\ p[2] \in Card /\ p = <<p[1], p[2]>>
    BY DEF Place
  <2> QED BY <1>2, <2>1 DEF Referenced
<1> QED BY <1>1, <1>2 DEF NoRowDangles, Dangling, HasRow

LEMMA NoDanglerStep == [Next]_vars => NoRowDangles
<1> SUFFICES ASSUME [Next]_vars PROVE NoRowDangles
  OBVIOUS
<1>1. ASSUME NEW r \in Run, Import(r) PROVE NoRowDangles
  <2>1. CASE ApplyReconcile(r)
    BY <2>1, ReconcileLeavesNoDangler
  <2>2. CASE Clear(r)
    BY <2>2, ClearLeavesNoDangler
  <2>3. CASE ~ApplyReconcile(r) /\ ~Clear(r)
    <3>1. rows' = rows /\ cards \subseteq cards'
      BY <1>1, <2>3 DEF Import, Begin, Download, Batch, Imported, PlanReconcile, SkipReconcile,
          Finish, Fail, Kill
    <3> QED BY <3>1 DEF NoRowDangles, Dangling, HasRow
  <2> QED BY <2>1, <2>2, <2>3
<1>2. CASE CommitEdit
  BY <1>2, EditLeavesNoDangler
<1>3. CASE Sweep \/ \E d \in Deck : DeleteDeck(d)
  <2>1. cards' = cards /\ \A p \in Place : rows'[p] # 0 => rows[p] # 0
    BY <1>3 DEF Sweep, DeleteDeck
  <2> QED BY <2>1 DEF NoRowDangles, Dangling, HasRow
<1>4. CASE ~(\E r \in Run : Import(r)) /\ ~CommitEdit /\ ~Sweep /\ ~(\E d \in Deck : DeleteDeck(d))
  <2>1. rows' = rows /\ cards' = cards
    BY <1>4 DEF Next, vars, Resolve, RejectEdit
  <2> QED BY <2>1 DEF NoRowDangles, Dangling, HasRow
<1> QED BY <1>1, <1>2, <1>3, <1>4

(* No step leaves a deck row without its card that had it, for any number  *)
(* of imports at once: what a reconcile, a clear or an edit would orphan   *)
(* the foreign keys refuse (reconcile_oracle_identities, _clear_cards).    *)
THEOREM NoRowComesToDangle == Spec => [][NoRowDangles]_vars
  BY NoDanglerStep, PTL DEF Spec

(* The sweep of a new connection takes rows only from a whole database     *)
(* (remove_orphan_deck_cards), so no row is lost to an import cut short.   *)
THEOREM RowsStaySafe ==
  ASSUME NEW r \in Run, Run = {r}
  PROVE  Spec => RowsAreSafe
<1>1. LibraryInv(r) => SweepIsSafe
  BY DEF LibraryInv, SweepIsSafe, Sweep, ReadyMeansComplete, Ready
<1> QED BY <1>1, LibraryStart, LibraryStep, NoDanglerStep, PTL DEF Spec, RowsAreSafe

-----------------------------------------------------------------------------
(* Sums over a finite set (SumFunctionOnSet of the community modules).  The *)
(* induction over the set is the minimal member of the sets for which a     *)
(* claim fails.                                                             *)

LEMMA SmallestSet ==
  ASSUME NEW F, F # {}, \A s \in F : IsFiniteSet(s)
  PROVE  \E m \in F : \A t \in F : t \subseteq m => t = m
<1> DEFINE N == {Cardinality(s) : s \in F}
<1>1. N \subseteq Nat /\ N # {}
  BY FS_CardinalityType
<1>2. PICK n \in N : \A k \in N : ~(<<k, n>> \in OpToRel(<, Nat))
  BY <1>1, NatLessThanWellFounded, WFMin
<1>3. \A k \in N : ~(k < n)
  BY <1>1, <1>2 DEF OpToRel
<1>4. PICK m \in F : n = Cardinality(m)
  OBVIOUS
<1>5. ASSUME NEW t \in F, t \subseteq m, t # m PROVE FALSE
  <2>1. Cardinality(t) \in Nat /\ Cardinality(m) \in Nat
    BY FS_CardinalityType
  <2>2. Cardinality(t) <= Cardinality(m) /\ Cardinality(t) # Cardinality(m)
    BY <1>5, FS_Subset
  <2>3. Cardinality(t) < Cardinality(m)
    BY <2>1, <2>2
  <2> QED BY <1>3, <1>4, <2>3
<1> QED BY <1>5

Chosen(s) == CHOOSE x \in s : TRUE

IsSum(g, f, S) ==
    g = [s \in SUBSET S |-> IF s = {} THEN 0 ELSE f[Chosen(s)] + g[s \ {Chosen(s)}]]

LEMMA SumUnfolds ==
  ASSUME NEW g, NEW f, NEW S, IsSum(g, f, S)
  PROVE  /\ g[{}] = 0
         /\ \A s \in SUBSET S : s # {} => /\ Chosen(s) \in s
                                         /\ s \ {Chosen(s)} \in SUBSET S
                                         /\ g[s] = f[Chosen(s)] + g[s \ {Chosen(s)}]
<1>1. g[{}] = 0
  BY {} \in SUBSET S DEF IsSum
<1>2. ASSUME NEW s \in SUBSET S, s # {}
      PROVE  Chosen(s) \in s /\ s \ {Chosen(s)} \in SUBSET S
  BY <1>2 DEF Chosen
<1>3. ASSUME NEW s \in SUBSET S, s # {}
      PROVE  g[s] = f[Chosen(s)] + g[s \ {Chosen(s)}]
  BY <1>3 DEF IsSum
<1> QED BY <1>1, <1>2, <1>3

\* The value at a set does not depend on the sets around it.
LEMMA SumIsUnique ==
  ASSUME NEW S, NEW T, S \subseteq T, IsFiniteSet(S), NEW f,
         NEW g, IsSum(g, f, S), NEW h, IsSum(h, f, T)
  PROVE  g[S] = h[S]
<1> DEFINE F == {s \in SUBSET S : g[s] # h[s]}
<1> SUFFICES ASSUME F # {} PROVE FALSE
  BY S \in SUBSET S
<1>1. \A s \in F : IsFiniteSet(s)
  BY FS_Subset
<1>2. PICK m \in F : \A t \in F : t \subseteq m => t = m
  <2>1. F # {}
    OBVIOUS
  <2> HIDE DEF F
  <2> QED BY <1>1, <2>1, SmallestSet
<1>3. m # {}
  BY SumUnfolds
<1>4. /\ Chosen(m) \in m /\ m \ {Chosen(m)} \in SUBSET S
      /\ g[m] = f[Chosen(m)] + g[m \ {Chosen(m)}]
      /\ h[m] = f[Chosen(m)] + h[m \ {Chosen(m)}]
  BY <1>3, SumUnfolds
<1>5. m \ {Chosen(m)} \notin F
  BY <1>2, <1>4
<1> QED BY <1>4, <1>5

LEMMA SumExists ==
  ASSUME NEW S, IsFiniteSet(S), NEW f, \A x \in S : f[x] \in Nat
  PROVE  \E g \in [SUBSET S -> Nat] : IsSum(g, f, S)
<1> DEFINE Summed(s) == \E g \in [SUBSET s -> Nat] : IsSum(g, f, s)
           F == {s \in SUBSET S : ~Summed(s)}
<1> SUFFICES ASSUME F # {} PROVE FALSE
  BY S \in SUBSET S
<1>1. \A s \in F : IsFiniteSet(s)
  BY FS_Subset
<1>2. PICK m \in F : \A t \in F : t \subseteq m => t = m
  <2>1. F # {}
    OBVIOUS
  <2> HIDE DEF F
  <2> QED BY <1>1, <2>1, SmallestSet
<1> DEFINE G(s) == CHOOSE g \in [SUBSET s -> Nat] : IsSum(g, f, s)
           h == [s \in SUBSET m |-> IF s = {} THEN 0
                    ELSE f[Chosen(s)] + G(s \ {Chosen(s)})[s \ {Chosen(s)}]]
<1>3. ASSUME NEW t \in SUBSET m, t # m
      PROVE  G(t) \in [SUBSET t -> Nat] /\ IsSum(G(t), f, t)
  <2>1. Summed(t)
    BY <1>2, <1>3
  <2> QED BY <2>1
<1> HIDE DEF G
<1>4. ASSUME NEW s \in SUBSET m, s # {}
      PROVE  Chosen(s) \in s /\ s \ {Chosen(s)} \in SUBSET m /\ s \ {Chosen(s)} # m
  BY <1>4 DEF Chosen
<1>5. h \in [SUBSET m -> Nat]
  <2>1. ASSUME NEW s \in SUBSET m, s # {}
        PROVE  f[Chosen(s)] + G(s \ {Chosen(s)})[s \ {Chosen(s)}] \in Nat
    <3>1. f[Chosen(s)] \in Nat
      BY <1>4, <2>1
    <3>2. G(s \ {Chosen(s)}) \in [SUBSET (s \ {Chosen(s)}) -> Nat]
      BY <1>3, <1>4, <2>1
    <3>3. G(s \ {Chosen(s)})[s \ {Chosen(s)}] \in Nat
      BY <3>2
    <3> QED BY <3>1, <3>3
  <2> QED BY <2>1
<1>6. ASSUME NEW t \in SUBSET m, t # m PROVE h[t] = G(t)[t]
  <2>1. CASE t = {}
    BY <1>3, <1>6, <2>1, SumUnfolds
  <2>2. CASE t # {}
    <3> DEFINE u == t \ {Chosen(t)}
    <3>1. IsSum(G(t), f, t)
      BY <1>3, <1>6
    <3>2. u \in SUBSET m /\ u # m /\ u \subseteq t
      BY <1>4, <2>2
    <3>3. IsSum(G(u), f, u)
      BY <1>3, <3>2
    <3>4. IsFiniteSet(u)
      BY <3>2, FS_Subset
    <3>5. G(u)[u] = G(t)[u]
      BY <3>1, <3>2, <3>3, <3>4, SumIsUnique
    <3>6. G(t)[t] = f[Chosen(t)] + G(t)[u]
      BY <2>2, <3>1, SumUnfolds, t \in SUBSET t
    <3> QED BY <2>2, <3>5, <3>6
  <2> QED BY <2>1, <2>2
<1>7. IsSum(h, f, m)
  <2>1. ASSUME NEW s \in SUBSET m, s # {}
        PROVE  h[s \ {Chosen(s)}] = G(s \ {Chosen(s)})[s \ {Chosen(s)}]
    BY <1>4, <1>6, <2>1
  <2> QED BY <2>1 DEF IsSum
<1> HIDE DEF h
<1>8. Summed(m)
  BY <1>5, <1>7
<1> QED BY <1>8

LEMMA SumDefined ==
  ASSUME NEW S, IsFiniteSet(S), NEW f, \A x \in S : f[x] \in Nat
  PROVE  \E g \in [SUBSET S -> Nat] : IsSum(g, f, S) /\ SumFunctionOnSet(f, S) = g[S]
<1> DEFINE g == CHOOSE g \in [SUBSET S -> Nat] : IsSum(g, f, S)
<1>1. PICK j \in [SUBSET S -> Nat] : IsSum(j, f, S)
  BY SumExists
<1>2. SumFunctionOnSet(f, S) = (CHOOSE k : IsSum(k, f, S))[S]
  BY DEF SumFunctionOnSet, FoldFunctionOnSet, MapThenFoldSet, IsSum, Chosen
<1>3. IsSum((CHOOSE k : IsSum(k, f, S)), f, S)
  BY <1>1
<1>4. (CHOOSE k : IsSum(k, f, S))[S] = j[S]
  BY <1>1, <1>3, SumIsUnique
<1> QED BY <1>1, <1>2, <1>4

\* A sum is a natural number, and takes the chosen member with the rest.
LEMMA SumSteps ==
  ASSUME NEW S, IsFiniteSet(S), NEW f, \A x \in S : f[x] \in Nat
  PROVE  /\ SumFunctionOnSet(f, S) \in Nat
         /\ S = {} => SumFunctionOnSet(f, S) = 0
         /\ S # {} => SumFunctionOnSet(f, S) =
                        f[Chosen(S)] + SumFunctionOnSet(f, S \ {Chosen(S)})
<1>1. PICK g \in [SUBSET S -> Nat] : IsSum(g, f, S) /\ SumFunctionOnSet(f, S) = g[S]
  BY SumDefined
<1>2. g[S] \in Nat
  BY S \in SUBSET S
<1>3. S = {} => g[S] = 0
  BY <1>1, SumUnfolds
<1>4. ASSUME S # {}
      PROVE  g[S] = f[Chosen(S)] + SumFunctionOnSet(f, S \ {Chosen(S)})
  <2> DEFINE R == S \ {Chosen(S)}
  <2>1. IsFiniteSet(R)
    BY FS_Subset, R \in SUBSET S
  <2>2. PICK h \in [SUBSET R -> Nat] : IsSum(h, f, R) /\ SumFunctionOnSet(f, R) = h[R]
    BY <2>1, SumDefined
  <2>3. h[R] = g[R]
    BY <1>1, <2>1, <2>2, SumIsUnique
  <2>4. g[S] = f[Chosen(S)] + g[R]
    BY <1>1, <1>4, SumUnfolds, S \in SUBSET S
  <2> QED BY <2>2, <2>3, <2>4
<1> QED BY <1>1, <1>2, <1>3, <1>4

\* It takes any member with the rest.
LEMMA SumTakes ==
  ASSUME NEW D, IsFiniteSet(D), NEW f, \A y \in D : f[y] \in Nat, NEW d \in D
  PROVE  SumFunctionOnSet(f, D) = f[d] + SumFunctionOnSet(f, D \ {d})
<1> DEFINE Takes(s) == \A x \in s : SumFunctionOnSet(f, s) = f[x] + SumFunctionOnSet(f, s \ {x})
           F == {s \in SUBSET D : ~Takes(s)}
<1> SUFFICES ASSUME F # {} PROVE FALSE
  BY D \in SUBSET D
<1>1. \A s \in F : IsFiniteSet(s)
  BY FS_Subset
<1>2. PICK m \in F : \A t \in F : t \subseteq m => t = m
  <2>1. F # {}
    OBVIOUS
  <2> HIDE DEF F
  <2> QED BY <1>1, <2>1, SmallestSet
<1>3. PICK x \in m : SumFunctionOnSet(f, m) # f[x] + SumFunctionOnSet(f, m \ {x})
  OBVIOUS
<1> DEFINE c == Chosen(m)
<1>4. c \in m
  BY <1>3 DEF Chosen
<1> HIDE DEF c
<1>5. ASSUME NEW t \in SUBSET m
      PROVE  IsFiniteSet(t) /\ SumFunctionOnSet(f, t) \in Nat
  BY <1>1, FS_Subset, SumSteps
<1>6. SumFunctionOnSet(f, m) = f[c] + SumFunctionOnSet(f, m \ {c})
  <2>1. m # {}
    BY <1>3
  <2> QED BY <1>5, <2>1, m \in SUBSET m, SumSteps DEF c
<1>7. x # c
  BY <1>3, <1>6
<1>8. SumFunctionOnSet(f, m \ {c}) = f[x] + SumFunctionOnSet(f, (m \ {c}) \ {x})
  <2>1. Takes(m \ {c})
    BY <1>2, <1>4
  <2> QED BY <1>7, <2>1
<1>9. SumFunctionOnSet(f, m \ {x}) = f[c] + SumFunctionOnSet(f, (m \ {x}) \ {c})
  <2>1. Takes(m \ {x})
    BY <1>2
  <2> QED BY <1>4, <1>7, <2>1
<1>10. (m \ {x}) \ {c} = (m \ {c}) \ {x}
  OBVIOUS
<1>11. /\ SumFunctionOnSet(f, (m \ {c}) \ {x}) \in Nat
       /\ f[x] \in Nat /\ f[c] \in Nat
  BY <1>4, <1>5, (m \ {c}) \ {x} \in SUBSET m
<1> HIDE DEF F, Takes
<1>12. SumFunctionOnSet(f, m) = f[x] + SumFunctionOnSet(f, m \ {x})
  BY <1>6, <1>8, <1>9, <1>10, <1>11
<1> QED BY <1>3, <1>12

\* Functions that agree on the set have the same sum.
LEMMA SumAgrees ==
  ASSUME NEW S, IsFiniteSet(S), NEW f, NEW g, \A x \in S : f[x] \in Nat /\ g[x] = f[x]
  PROVE  SumFunctionOnSet(g, S) = SumFunctionOnSet(f, S)
<1>1. PICK j \in [SUBSET S -> Nat] : IsSum(j, f, S) /\ SumFunctionOnSet(f, S) = j[S]
  BY SumDefined
<1>2. IsSum(j, g, S)
  <2>1. ASSUME NEW s \in SUBSET S, s # {} PROVE g[Chosen(s)] = f[Chosen(s)]
    BY <2>1 DEF Chosen
  <2> QED BY <1>1, <2>1 DEF IsSum
<1>3. PICK k \in [SUBSET S -> Nat] : IsSum(k, g, S) /\ SumFunctionOnSet(g, S) = k[S]
  BY SumDefined
<1>4. k[S] = j[S]
  BY <1>2, <1>3, SumIsUnique
<1> QED BY <1>1, <1>3, <1>4

\* Nothing adds nothing.
LEMMA SumVanishes ==
  ASSUME NEW S, IsFiniteSet(S), NEW f, \A x \in S : f[x] = 0
  PROVE  SumFunctionOnSet(f, S) = 0
<1>0. \A x \in S : f[x] \in Nat
  OBVIOUS
<1>1. PICK j \in [SUBSET S -> Nat] : IsSum(j, f, S) /\ SumFunctionOnSet(f, S) = j[S]
  BY <1>0, SumDefined
<1> DEFINE o == [s \in SUBSET S |-> 0]
<1>2. IsSum(o, f, S)
  <2>1. ASSUME NEW s \in SUBSET S, s # {}
        PROVE  f[Chosen(s)] = 0 /\ s \ {Chosen(s)} \in SUBSET S
    BY <2>1 DEF Chosen
  <2> QED BY <2>1 DEF IsSum
<1>3. o[S] = j[S]
  BY <1>1, <1>2, SumIsUnique
<1> QED BY <1>1, <1>3, S \in SUBSET S

\* The sums of two parts add up.
LEMMA SumSplits ==
  ASSUME NEW D, IsFiniteSet(D), NEW f, \A y \in D : f[y] \in Nat, NEW A \in SUBSET D
  PROVE  SumFunctionOnSet(f, D) = SumFunctionOnSet(f, A) + SumFunctionOnSet(f, D \ A)
<1> DEFINE Splits(s) == SumFunctionOnSet(f, s \cup (D \ A)) =
                          SumFunctionOnSet(f, s) + SumFunctionOnSet(f, D \ A)
           F == {s \in SUBSET A : ~Splits(s)}
<1> SUFFICES ASSUME F # {} PROVE FALSE
  <2>1. A \cup (D \ A) = D
    OBVIOUS
  <2>2. Splits(A)
    BY A \in SUBSET A
  <2> HIDE DEF F
  <2> QED BY <2>1, <2>2
<1>1. \A s \in F : IsFiniteSet(s)
  BY FS_Subset
<1>2. PICK m \in F : \A t \in F : t \subseteq m => t = m
  <2>1. F # {}
    OBVIOUS
  <2> HIDE DEF F
  <2> QED BY <1>1, <2>1, SmallestSet
<1>3. ASSUME NEW t \in SUBSET D
      PROVE  IsFiniteSet(t) /\ (\A y \in t : f[y] \in Nat) /\ SumFunctionOnSet(f, t) \in Nat
  BY FS_Subset, SumSteps
<1>4. m \in SUBSET D /\ m \subseteq A /\ ~Splits(m)
  OBVIOUS
<1>5. m # {}
  <2>1. SUFFICES ASSUME m = {} PROVE Splits(m)
    BY <1>4
  <2>2. SumFunctionOnSet(f, {}) = 0
    BY <1>3, {} \in SUBSET D, SumSteps
  <2>3. m \cup (D \ A) = D \ A
    BY <2>1
  <2>4. SumFunctionOnSet(f, D \ A) \in Nat
    BY <1>3
  <2> QED BY <2>1, <2>2, <2>3, <2>4
<1>6. PICK x \in m : TRUE
  BY <1>5
<1> DEFINE n == m \ {x}
<1>7. Splits(n)
  <2>1. n \in SUBSET A /\ n # m /\ n \subseteq m
    BY <1>4, <1>6
  <2>2. n \notin F
    BY <1>2, <2>1
  <2> HIDE DEF Splits, n
  <2> QED BY <2>1, <2>2
<1>8. SumFunctionOnSet(f, m) = f[x] + SumFunctionOnSet(f, n)
  BY <1>3, <1>4, <1>6, SumTakes
<1>9. SumFunctionOnSet(f, m \cup (D \ A)) = f[x] + SumFunctionOnSet(f, n \cup (D \ A))
  <2>1. /\ m \cup (D \ A) \in SUBSET D /\ x \in m \cup (D \ A)
        /\ (m \cup (D \ A)) \ {x} = n \cup (D \ A)
    BY <1>4, <1>6
  <2> QED BY <1>3, <2>1, SumTakes
<1>10. f[x] \in Nat /\ SumFunctionOnSet(f, n) \in Nat /\ SumFunctionOnSet(f, D \ A) \in Nat
  BY <1>3, <1>4, <1>6
<1>11. Splits(m)
  BY <1>7, <1>8, <1>9, <1>10
<1> QED BY <1>4, <1>11

-----------------------------------------------------------------------------
(* Types, and what a run knows of its plan.                                *)

LEMMA PlacesOfDeckAreFinite ==
  ASSUME NEW d
  PROVE  IsFiniteSet({d} \X Card) /\ \A S \in SUBSET ({d} \X Card) : IsFiniteSet(S)
<1>1. IsFiniteSet({d} \X Card)
  BY CardAssumption, FS_Singleton, FS_Product
<1> QED BY <1>1, FS_Subset

Target(r, p) == <<p[1], Canonical(r, p[2])>>

RunTypes(r) ==
    /\ at[r] \in {"reconciling", "applying", "finishing"} => todo[r] = {}
    /\ at[r] # "applying" => plan[r] = NoPlan
    /\ plan[r].stale \in SUBSET Card
    /\ plan[r].repoint \in SUBSET Place
    /\ plan[r].seen \in [Place -> Nat]

\* A run that writes has read a snapshot.
Named(r) == at[r] \in Writing => snapshot[r] \in Snapshot

\* What is planned is consistent: no canonical printing is collapsed, a row is
\* repointed to a place that was free, and one row goes to each such place.
PlanIsSound(r) ==
    at[r] = "applying" =>
        /\ \A c \in plan[r].stale : c # Canonical(r, c) /\ Canonical(r, c) \notin plan[r].stale
        /\ \A p \in plan[r].repoint :
              p[2] \in plan[r].stale /\ plan[r].seen[p] # 0 /\ plan[r].seen[Target(r, p)] = 0
        /\ \A p \in Place :
              p[2] \in plan[r].stale /\ plan[r].seen[p] # 0 /\ plan[r].seen[Target(r, p)] = 0 =>
                  \E q \in plan[r].repoint :
                      {x \in plan[r].repoint : Target(r, x) = Target(r, p)} = {q}

EditTypes ==
    /\ edit.op \in {"none", "add", "set", "remove"} /\ edit.step \in {"idle", "resolved"}
    /\ edit.deck \in Deck /\ edit.cards \in SUBSET Card

TypeInv ==
    /\ Types
    /\ managed \in [Run -> BOOLEAN]
    /\ rows \in [Place -> Nat]
    /\ absent \in SUBSET Identity
    /\ EditTypes
    /\ \A r \in Run : RunTypes(r) /\ Named(r) /\ PlanIsSound(r)

LEMMA NothingPlanned ==
  /\ NoPlan.stale = {} /\ NoPlan.repoint = {}
  /\ NoPlan.seen \in [Place -> Nat]
<1>1. NoPlan.seen = [p \in Place |-> 0]
  BY DEF NoPlan
<1> QED BY <1>1 DEF NoPlan

LEMMA NothingEdited ==
  /\ NoEdit.op = "none" /\ NoEdit.step = "idle"
  /\ NoEdit.deck \in Deck /\ NoEdit.cards = {}
<1>1. (CHOOSE d \in Deck : TRUE) \in Deck
  BY DeckAssumption
<1> QED BY <1>1 DEF NoEdit

LEMMA TypeStart == Init => TypeInv
<1> SUFFICES ASSUME Init PROVE TypeInv
  OBVIOUS
<1>1. Types
  BY DEF Init, Types, Step
<1>2. \A r \in Run : at[r] = "idle" /\ plan[r] = NoPlan
  BY DEF Init
<1>3. \A r \in Run : RunTypes(r) /\ Named(r) /\ PlanIsSound(r)
  BY <1>2, NothingPlanned DEF RunTypes, Named, PlanIsSound, Writing
<1>4. rows \in [Place -> Nat]
  BY DEF Init
<1>5. EditTypes
  BY NothingEdited DEF Init, EditTypes
<1> QED BY <1>1, <1>3, <1>4, <1>5 DEF TypeInv, Init

\* Every step is of one run, or of none.
LEMMA OtherRunsStay ==
  ASSUME Types, NEW r \in Run, Import(r), NEW q \in Run, q # r
  PROVE  UNCHANGED <<at[q], snapshot[q], todo[q], plan[q]>>
<1> USE DEF Types
<1>1. ASSUME NEW update \in BOOLEAN, Begin(r, update)
      PROVE  UNCHANGED <<at[q], snapshot[q], todo[q], plan[q]>>
  BY <1>1 DEF Begin, Goto
<1>2. CASE Download(r)
  BY <1>2 DEF Download, Goto
<1>3. CASE Batch(r)
  BY <1>3 DEF Batch
<1>4. CASE Imported(r) \/ PlanReconcile(r) \/ ApplyReconcile(r) \/ SkipReconcile(r)
  BY <1>4 DEF Imported, PlanReconcile, ApplyReconcile, SkipReconcile, Goto
<1>5. CASE Finish(r) \/ Clear(r) \/ Kill(r)
  BY <1>5 DEF Finish, Clear, Kill, End
<1>6. CASE Fail(r)
  BY <1>6 DEF Fail, End, Goto
<1> QED BY <1>1, <1>2, <1>3, <1>4, <1>5, <1>6 DEF Import

\* Canonical is idempotent: a printing's identity has one canonical printing.
LEMMA CanonicalIsItsOwn ==
  ASSUME NEW r \in Run, snapshot[r] \in Snapshot, NEW c \in Card
  PROVE  /\ Canonical(r, c) \in Card
         /\ OracleId[Canonical(r, c)] = OracleId[c]
         /\ Canonical(r, Canonical(r, c)) = Canonical(r, c)
BY OracleAssumption, SnapshotNames DEF Canonical

\* What the reconcile plans is sound (plan_identity_dedup).
LEMMA PlannedIsSound ==
  ASSUME TypeInv, NEW r \in Run, PlanReconcile(r)
  PROVE  RunTypes(r)' /\ Named(r)' /\ PlanIsSound(r)'
<1> USE DEF Types, TypeInv
<1>1. PICK P \in Repoints(r) :
        plan' = [plan EXCEPT ![r] = [stale |-> Stale(r), repoint |-> P, seen |-> rows]]
  BY DEF PlanReconcile
<1>2. plan'[r] = [stale |-> Stale(r), repoint |-> P, seen |-> rows]
  BY <1>1
<1>3. plan'[r].stale = Stale(r) /\ plan'[r].repoint = P /\ plan'[r].seen = rows
  BY <1>2
<1>4. at[r] = "reconciling" /\ at'[r] = "applying" /\ UNCHANGED <<todo, snapshot>>
  BY DEF PlanReconcile, Goto
<1>5. snapshot[r] \in Snapshot
  BY <1>4 DEF Named, Writing
<1>6. Stale(r) \in SUBSET Card
  BY DEF Stale
<1> DEFINE held == {p \in Place : p[2] \in Stale(r) /\ HasRow(p)}
           vacant == {p \in held : rows[<<p[1], Canonical(r, p[2])>>] = 0}
           Rivals(p) == {q \in P : p[1] = q[1] /\ Canonical(r, p[2]) = Canonical(r, q[2])}
<1>7. P \in SUBSET vacant /\ \A p \in vacant : Cardinality(Rivals(p)) = 1
  BY DEF Repoints
<1>8. P \in SUBSET Place
  BY <1>7
<1>9. RunTypes(r)'
  BY <1>3, <1>4, <1>6, <1>8 DEF RunTypes
<1>10. \A c \in Card : Canonical(r, c)' = Canonical(r, c)
  BY <1>4 DEF Canonical
<1>11. ASSUME NEW c \in Stale(r)
       PROVE  c # Canonical(r, c) /\ Canonical(r, c) \notin Stale(r)
  BY <1>5, <1>6, <1>11, CanonicalIsItsOwn DEF Stale
<1>12. ASSUME NEW p \in P
       PROVE  p \in Place /\ p[2] \in Stale(r) /\ rows[p] # 0 /\ rows[Target(r, p)] = 0
  BY <1>7, <1>12 DEF HasRow, Target
<1>13. ASSUME NEW p \in Place, p[2] \in Stale(r), rows[p] # 0, rows[Target(r, p)] = 0
       PROVE  \E q \in P : {x \in P : Target(r, x) = Target(r, p)} = {q}
  <2>1. p \in vacant
    BY <1>13 DEF HasRow, Target
  <2>2. Rivals(p) \in SUBSET ({p[1]} \X Card)
    BY <1>8 DEF Place
  <2>3. IsFiniteSet(Rivals(p)) /\ Cardinality(Rivals(p)) = 1
    BY <1>7, <2>1, <2>2, PlacesOfDeckAreFinite
  <2>4. PICK q : Rivals(p) = {q}
    BY <2>3, FS_Singleton
  <2>5. {x \in P : Target(r, x) = Target(r, p)} = Rivals(p)
    BY DEF Target
  <2> QED BY <2>4, <2>5
<1>14. \A p \in Place : Target(r, p)' = Target(r, p)
  BY <1>10 DEF Target, Place
<1>15. PlanIsSound(r)'
  <2>1. \A c \in plan'[r].stale :
          c # Canonical(r, c)' /\ Canonical(r, c)' \notin plan'[r].stale
    BY <1>3, <1>6, <1>10, <1>11
  <2>2. \A p \in plan'[r].repoint :
          /\ p[2] \in plan'[r].stale /\ plan'[r].seen[p] # 0
          /\ plan'[r].seen[Target(r, p)'] = 0
    BY <1>3, <1>12, <1>14
  <2>3. ASSUME NEW p \in Place, p[2] \in plan'[r].stale, plan'[r].seen[p] # 0,
               plan'[r].seen[Target(r, p)'] = 0
        PROVE  \E q \in plan'[r].repoint :
                  {x \in plan'[r].repoint : Target(r, x)' = Target(r, p)'} = {q}
    <3>1. PICK q \in P : {x \in P : Target(r, x) = Target(r, p)} = {q}
      BY <1>3, <1>13, <1>14, <2>3
    <3>2. {x \in P : Target(r, x)' = Target(r, p)'} = {q}
      BY <1>8, <1>14, <3>1
    <3> QED BY <1>3, <3>2
  <2> QED BY <2>1, <2>2, <2>3 DEF PlanIsSound
<1>16. Named(r)'
  BY <1>4, <1>5 DEF Named
<1> QED BY <1>9, <1>15, <1>16

\* The rows a reconcile leaves are quantities.
LEMMA MergedIsQuantities ==
  ASSUME TypeInv, NEW r \in Run
  PROVE  Merged(r) \in [Place -> Nat]
<1> USE DEF TypeInv, RunTypes
<1>1. ASSUME NEW p \in Place PROVE Repointed(r)[p] \in Nat
  <2> DEFINE from == {q \in plan[r].repoint : q[1] = p[1] /\ Canonical(r, q[2]) = p[2]}
  <2>1. from \in SUBSET Place
    OBVIOUS
  <2>2. CASE from # {}
    <3>1. (CHOOSE q \in from : TRUE) \in Place
      BY <2>1, <2>2
    <3>2. rows[CHOOSE q \in from : TRUE] \in Nat /\ rows[p] \in Nat
      BY <3>1
    <3>3. rows[p] + rows[CHOOSE q \in from : TRUE] \in Nat
      BY <3>2
    <3> QED BY <2>2, <3>2, <3>3 DEF Repointed
  <2>3. CASE from = {}
    BY <2>3 DEF Repointed
  <2> QED BY <2>2, <2>3
<1>2. ASSUME NEW p \in Place PROVE Merged(r)[p] \in Nat
  <2> DEFINE into == {q \in Merges(r) : q[1] = p[1] /\ Canonical(r, q[2]) = p[2]}
  <2>1. into \in SUBSET ({p[1]} \X Card)
    BY DEF Merges, Place
  <2>2. \A q \in into : plan[r].seen[q] \in Nat
    BY DEF Merges
  <2>3. SumFunctionOnSet(plan[r].seen, into) \in Nat
    <3>1. IsFiniteSet(into)
      BY <2>1, PlacesOfDeckAreFinite
    <3> QED BY <2>2, <3>1, SumSteps
  <2>4. Repointed(r)[p] + SumFunctionOnSet(plan[r].seen, into) \in Nat
    BY <1>1, <2>3
  <2> HIDE DEF TypeInv
  <2> QED BY <2>4 DEF Merged
<1>3. Merged(r) = [p \in Place |-> Merged(r)[p]]
  BY DEF Merged
<1> QED BY <1>2, <1>3

\* A step that leaves the run where it is, with what it read.
LEMMA RunStays ==
  ASSUME NEW r \in Run, RunTypes(r), Named(r), PlanIsSound(r),
         UNCHANGED <<at[r], snapshot[r], todo[r], plan[r]>>
  PROVE  RunTypes(r)' /\ Named(r)' /\ PlanIsSound(r)'
BY DEF RunTypes, Named, PlanIsSound, Target, Canonical

LEMMA OwnStep ==
  ASSUME TypeInv, NEW r \in Run, Import(r)
  PROVE  RunTypes(r)' /\ Named(r)' /\ PlanIsSound(r)'
<1> USE DEF TypeInv, Types
<1> DEFINE Goal == RunTypes(r)' /\ Named(r)' /\ PlanIsSound(r)'
<1>1. ASSUME at'[r] # "applying", plan'[r] = NoPlan,
             at'[r] \in {"reconciling", "finishing"} => todo'[r] = {},
             at'[r] \in Writing => snapshot'[r] \in Snapshot
      PROVE  Goal
  BY <1>1, NothingPlanned DEF RunTypes, Named, PlanIsSound
<1>2. ASSUME at[r] # "applying", at'[r] # "applying", plan'[r] = plan[r],
             at'[r] \in {"reconciling", "finishing"} => todo'[r] = {},
             at'[r] \in Writing => snapshot'[r] \in Snapshot
      PROVE  Goal
  BY <1>1, <1>2 DEF RunTypes
<1>3. ASSUME NEW update \in BOOLEAN, Begin(r, update) PROVE Goal
  <2>1. at[r] = "idle" /\ at'[r] = "downloading" /\ plan' = plan
    BY <1>3 DEF Begin, Goto
  <2> QED BY <1>2, <2>1 DEF Writing
<1>4. CASE Download(r)
  <2>1. at[r] = "downloading" /\ at'[r] = "importing" /\ plan' = plan
    BY <1>4 DEF Download, Goto
  <2>2. snapshot'[r] \in Snapshot
    BY <1>4 DEF Download
  <2> QED BY <1>2, <2>1, <2>2
<1>5. CASE Batch(r)
  <2>1. at[r] = "importing" /\ UNCHANGED <<at, plan, snapshot>>
    BY <1>5 DEF Batch
  <2>2. snapshot[r] \in Snapshot
    BY <2>1 DEF Named, Writing
  <2> QED BY <1>2, <2>1, <2>2
<1>6. CASE Imported(r)
  <2>1. /\ at[r] = "importing" /\ at'[r] = "reconciling" /\ todo[r] = {}
        /\ UNCHANGED <<plan, snapshot, todo>>
    BY <1>6 DEF Imported, Goto
  <2>2. snapshot[r] \in Snapshot
    BY <2>1 DEF Named, Writing
  <2> QED BY <1>2, <2>1, <2>2
<1>7. CASE PlanReconcile(r)
  BY <1>7, PlannedIsSound
<1>8. CASE ApplyReconcile(r) \/ SkipReconcile(r)
  <2>1. /\ at[r] \in {"reconciling", "applying"} /\ at'[r] = "finishing" /\ plan'[r] = NoPlan
        /\ UNCHANGED <<snapshot, todo>>
    BY <1>8 DEF ApplyReconcile, SkipReconcile, Goto
  <2>2. snapshot[r] \in Snapshot /\ todo[r] = {}
    BY <2>1 DEF Named, Writing, RunTypes
  <2> QED BY <1>1, <2>1, <2>2
<1>9. CASE End(r)
  <2>1. at'[r] = "idle" /\ plan'[r] = NoPlan
    BY <1>9 DEF End
  <2> QED BY <1>1, <2>1 DEF Writing
<1>10. CASE Fail(r)
  <2>1. CASE fresh[r]
    <3>1. /\ at[r] \in {"downloading", "importing", "finishing"} /\ at'[r] = "clearing"
          /\ plan' = plan
      BY <1>10, <2>1 DEF Fail, Goto
    <3> QED BY <1>2, <3>1 DEF Writing
  <2> QED BY <1>9, <1>10, <2>1 DEF Fail
<1> QED BY <1>3, <1>4, <1>5, <1>6, <1>7, <1>8, <1>9, <1>10 DEF Import, Finish, Clear, Kill

LEMMA RowsStep == TypeInv /\ [Next]_vars => rows' \in [Place -> Nat]
<1> SUFFICES ASSUME TypeInv, [Next]_vars PROVE rows' \in [Place -> Nat]
  OBVIOUS
<1>1. rows \in [Place -> Nat]
  BY DEF TypeInv
<1>2. ASSUME NEW r \in Run, Import(r) PROVE rows' \in [Place -> Nat]
  <2>1. CASE ApplyReconcile(r)
    BY <2>1, MergedIsQuantities DEF ApplyReconcile
  <2>2. CASE ~ApplyReconcile(r)
    <3>1. rows' = rows
      BY <1>2, <2>2 DEF Import, Begin, Download, Batch, Imported, PlanReconcile, SkipReconcile,
          Finish, Fail, Clear, Kill
    <3> QED BY <1>1, <3>1
  <2> QED BY <2>1, <2>2
<1>3. CASE CommitEdit
  <2>1. rows' = Edited
    BY <1>3 DEF CommitEdit
  <2> QED BY <1>1, <2>1 DEF Edited
<1>4. CASE Sweep \/ \E d \in Deck : DeleteDeck(d)
  BY <1>1, <1>4 DEF Sweep, DeleteDeck
<1>5. CASE ~(\E r \in Run : Import(r)) /\ ~CommitEdit /\ ~Sweep /\ ~(\E d \in Deck : DeleteDeck(d))
  <2>1. rows' = rows
    BY <1>5 DEF Next, vars, Resolve, RejectEdit
  <2> QED BY <1>1, <2>1
<1> QED BY <1>2, <1>3, <1>4, <1>5

LEMMA EditStep == TypeInv /\ [Next]_vars => EditTypes'
<1> SUFFICES ASSUME TypeInv, [Next]_vars PROVE EditTypes'
  OBVIOUS
<1>1. EditTypes /\ cards \in SUBSET Card
  BY DEF TypeInv, Types
<1>2. ASSUME NEW op \in {"add", "set", "remove"}, NEW d \in Deck, NEW C \in SUBSET Card,
             Resolve(op, d, C)
      PROVE  EditTypes'
  <2>1. edit' = [step |-> "resolved", op |-> op, deck |-> d, cards |-> C]
    BY <1>2 DEF Resolve
  <2> QED BY <2>1 DEF EditTypes
<1>3. CASE edit' = NoEdit
  BY <1>3, NothingEdited DEF EditTypes
<1>4. CASE edit' = edit
  BY <1>1, <1>4 DEF EditTypes
<1>5. CASE \E r \in Run : Import(r)
  <2>1. edit' = edit
    BY <1>5 DEF Import, Begin, Download, Batch, Imported, PlanReconcile, ApplyReconcile,
        SkipReconcile, Finish, Fail, Clear, Kill
  <2> QED BY <1>4, <2>1
<1>6. ASSUME NEW d \in Deck, NEW c \in Card, Resolve("set", d, {c}) \/ Resolve("remove", d, {c})
      PROVE  EditTypes'
  BY <1>2, <1>6, {c} \in SUBSET Card
<1>7. ASSUME NEW d \in Deck, NEW C \in SUBSET Card \ {{}}, Resolve("add", d, C)
      PROVE  EditTypes'
  BY <1>2, <1>7
<1>8. CASE CommitEdit \/ RejectEdit
  BY <1>3, <1>8 DEF CommitEdit, RejectEdit
<1>9. CASE Sweep \/ (\E d \in Deck : DeleteDeck(d)) \/ UNCHANGED vars
  BY <1>4, <1>9 DEF Sweep, DeleteDeck, vars
<1> QED BY <1>5, <1>6, <1>7, <1>8, <1>9 DEF Next

LEMMA HistoryStep ==
  TypeInv /\ [Next]_vars => managed' \in [Run -> BOOLEAN] /\ absent' \in SUBSET Identity
<1> SUFFICES ASSUME TypeInv, [Next]_vars
             PROVE  managed' \in [Run -> BOOLEAN] /\ absent' \in SUBSET Identity
  OBVIOUS
<1>1. managed \in [Run -> BOOLEAN] /\ absent \in SUBSET Identity /\ Types
  BY DEF TypeInv
<1>2. ASSUME NEW r \in Run, Import(r)
      PROVE  managed' \in [Run -> BOOLEAN] /\ absent' \in SUBSET Identity
  <2>1. CASE Download(r)
    <3>1. Manages \in BOOLEAN
      BY <1>1 DEF Manages, Types
    <3>2. managed' = [managed EXCEPT ![r] = Manages] /\ absent' = absent
      BY <2>1 DEF Download
    <3> QED BY <1>1, <3>1, <3>2
  <2>2. CASE Finish(r)
    <3>1. absent' = {i \in rejected[r] : cards \cap Printings(i) = {}}
      BY <2>2 DEF Finish
    <3>2. absent' \in SUBSET Identity
      BY <1>1, <3>1 DEF Types
    <3>3. managed' = [managed EXCEPT ![r] = FALSE]
      BY <2>2 DEF Finish, End
    <3> QED BY <1>1, <3>2, <3>3
  <2>3. CASE ~Download(r) /\ ~Finish(r)
    <3>1. absent' = absent /\ (managed' = managed \/ managed' = [managed EXCEPT ![r] = FALSE])
      BY <1>2, <2>3 DEF Import, Begin, Batch, Imported, PlanReconcile, ApplyReconcile,
          SkipReconcile, Fail, Clear, Kill, End
    <3> QED BY <1>1, <3>1
  <2> QED BY <2>1, <2>2, <2>3
<1>3. CASE ~(\E r \in Run : Import(r))
  <2>1. UNCHANGED <<managed, absent>>
    BY <1>3 DEF Next, vars, imports, Resolve, CommitEdit, RejectEdit, DeleteDeck, Sweep
  <2> QED BY <1>1, <2>1
<1> QED BY <1>2, <1>3

LEMMA TypeInvStep == TypeInv /\ [Next]_vars => TypeInv'
<1> SUFFICES ASSUME TypeInv, [Next]_vars PROVE TypeInv'
  OBVIOUS
<1>1. Types /\ \A q \in Run : RunTypes(q) /\ Named(q) /\ PlanIsSound(q)
  BY DEF TypeInv
<1>2. Types'
  BY <1>1, TypesStep
<1>3. ASSUME NEW q \in Run PROVE RunTypes(q)' /\ Named(q)' /\ PlanIsSound(q)'
  <2>1. CASE Import(q)
    BY <2>1, OwnStep
  <2>2. CASE ~Import(q)
    <3>1. UNCHANGED <<at[q], snapshot[q], todo[q], plan[q]>>
      <4>1. CASE \E r \in Run : Import(r)
        BY <1>1, <2>2, <4>1, OtherRunsStay
      <4>2. CASE ~(\E r \in Run : Import(r))
        BY <4>2 DEF Next, vars, imports, Resolve, CommitEdit, RejectEdit, DeleteDeck, Sweep
      <4> QED BY <4>1, <4>2
    <3> QED BY <1>1, <3>1, RunStays
  <2> QED BY <2>1, <2>2
<1> QED BY <1>2, <1>3, RowsStep, EditStep, HistoryStep DEF TypeInv

(* Every variable has its type in every state, for any number of imports   *)
(* at once: a quantity of a deck row never goes below zero, and a plan is  *)
(* there only between the scan and the transaction that applies it         *)
(* (initialize_database, reconcile_oracle_identities, the deck tools).     *)
THEOREM TypeCorrect == Spec => []TypeOK
<1>1. TypeInv => TypeOK
  BY DEF TypeInv, TypeOK, Types, EditTypes, RunTypes
<1> QED BY <1>1, TypeStart, TypeInvStep, PTL DEF Spec

-----------------------------------------------------------------------------
(* The copies of a card in a deck.                                         *)

\* A canonical row ends with its own copies and those of the printings that
\* are collapsed into it, whichever of the two ways they come to it.
LEMMA CanonicalRowCollects ==
  ASSUME TypeInv, NEW r \in Run, at[r] = "applying", rows = plan[r].seen,
         NEW d \in Deck, NEW i \in Identity,
         NEW H, H = {p \in {d} \X Printings(i) : p[2] \in plan[r].stale /\ rows[p] # 0}
  PROVE  Merged(r)[<<d, snapshot[r][i]>>] =
            rows[<<d, snapshot[r][i]>>] + SumFunctionOnSet(rows, H)
<1> DEFINE D == {d} \X Printings(i)
           k == snapshot[r][i]
           K == <<d, k>>
           from == {q \in plan[r].repoint : q[1] = d /\ Canonical(r, q[2]) = k}
           into == {q \in Merges(r) : q[1] = d /\ Canonical(r, q[2]) = k}
<1>1. snapshot[r] \in Snapshot /\ RunTypes(r) /\ PlanIsSound(r) /\ rows \in [Place -> Nat]
  BY DEF TypeInv, Named, Writing
<1>2. k \in Card /\ OracleId[k] = i
  BY <1>1, SnapshotNames
<1>3. K \in Place /\ D \in SUBSET Place /\ K \in D
  BY <1>2 DEF Place, Printings
<1>4. ASSUME NEW p \in Place
      PROVE  p \in D <=> p[1] = d /\ Canonical(r, p[2]) = k
  <2>1. p[2] \in Card /\ p[1] \in Deck /\ p = <<p[1], p[2]>>
    BY DEF Place
  <2>2. Canonical(r, p[2]) = k <=> OracleId[p[2]] = i
    BY <1>1, <1>2, <2>1, CanonicalIsItsOwn DEF Canonical
  <2> QED BY <2>1, <2>2 DEF Printings
<1>5. plan[r].repoint \in SUBSET Place /\ Merges(r) \in SUBSET Place
  BY <1>1 DEF RunTypes, Merges
<1>6. ASSUME NEW p \in Place
      PROVE  Target(r, p) = K <=> p \in D
  BY <1>4 DEF Target
<1>7. k \notin plan[r].stale
  BY <1>1, <1>2, CanonicalIsItsOwn DEF PlanIsSound, Canonical
<1>8. K \notin H /\ K \notin plan[r].repoint /\ K \notin Merges(r)
  BY <1>1, <1>7 DEF PlanIsSound, Merges
<1>9. H \in SUBSET D /\ IsFiniteSet(H) /\ \A p \in H : rows[p] \in Nat
  <2>1. H \in SUBSET ({d} \X Card)
    BY DEF Printings
  <2> QED BY <1>1, <1>3, <2>1, PlacesOfDeckAreFinite
<1>10. \A p \in Merges(r) : p[2] \in plan[r].stale /\ rows[p] # 0 /\ p \notin plan[r].repoint
  BY <1>1, <1>5 DEF Merges
<1>11. \A p \in Place : p[2] \in plan[r].stale /\ rows[p] # 0 /\ p \notin plan[r].repoint =>
                           p \in Merges(r)
  BY <1>1 DEF Merges
<1>12. into = H \ plan[r].repoint
  BY <1>3, <1>4, <1>5, <1>10, <1>11
<1>13. from = H \cap plan[r].repoint
  BY <1>1, <1>3, <1>4, <1>5 DEF PlanIsSound
<1>14. Repointed(r)[K] = IF from = {} THEN rows[K] ELSE rows[K] + rows[CHOOSE q \in from : TRUE]
  <2> DEFINE From(p) == {q \in plan[r].repoint : q[1] = p[1] /\ Canonical(r, q[2]) = p[2]}
  <2>1. Repointed(r)[K] = IF From(K) = {} THEN rows[K]
                          ELSE rows[K] + rows[CHOOSE q \in From(K) : TRUE]
    <3> HIDE DEF K
    <3> QED BY <1>3, <1>8 DEF Repointed
  <2>2. From(K) = from
    OBVIOUS
  <2> HIDE DEF From, from
  <2> QED BY <2>1, <2>2
<1>15. Merged(r)[K] = IF Repointed(r)[K] = 0 THEN 0
                      ELSE Repointed(r)[K] + SumFunctionOnSet(rows, into)
  <2> HIDE DEF TypeInv
  <2> QED BY <1>3, <1>8 DEF Merged
<1> HIDE DEF from, into
<1>16. rows[K] \in Nat /\ SumFunctionOnSet(rows, H) \in Nat
  BY <1>1, <1>3, <1>9, SumSteps
<1>17. CASE H = {}
  <2>1. from = {} /\ into = {}
    BY <1>12, <1>13, <1>17
  <2>2. SumFunctionOnSet(rows, H) = 0
    BY <1>9, <1>17, SumSteps
  <2> QED BY <1>12, <1>14, <1>15, <1>16, <1>17, <2>1, <2>2
<1>18. CASE rows[K] # 0
  <2>1. H \cap plan[r].repoint = {}
    BY <1>1, <1>3, <1>6, <1>9, <1>18 DEF PlanIsSound
  <2>2. from = {} /\ into = H
    BY <1>12, <1>13, <2>1
  <2> QED BY <1>14, <1>15, <1>18, <2>2
<1>19. CASE H # {} /\ rows[K] = 0
  <2>1. PICK p \in H : TRUE
    BY <1>19
  <2>2. Target(r, p) = K /\ p \in Place /\ p[2] \in plan[r].stale /\ rows[p] # 0
    BY <1>3, <1>6, <1>9, <2>1
  <2>3. PICK q \in plan[r].repoint : {x \in plan[r].repoint : Target(r, x) = K} = {q}
    BY <1>1, <1>19, <2>2 DEF PlanIsSound
  <2>4. {x \in plan[r].repoint : Target(r, x) = K} = from
    BY DEF from, Target
  <2>5. from = {q} /\ q \in H /\ into = H \ {q}
    BY <1>12, <1>13, <2>3, <2>4
  <2>6. (CHOOSE x \in from : TRUE) = q
    BY <2>5
  <2>7. rows[q] \in Nat /\ rows[q] # 0
    BY <1>9, <2>5
  <2>8. Repointed(r)[K] = rows[q]
    BY <1>14, <1>19, <2>5, <2>6, <2>7
  <2>9. Merged(r)[K] = rows[q] + SumFunctionOnSet(rows, H \ {q})
    BY <1>15, <2>5, <2>7, <2>8
  <2>10. SumFunctionOnSet(rows, H) = rows[q] + SumFunctionOnSet(rows, H \ {q})
    BY <1>9, <2>5, SumTakes
  <2> QED BY <1>16, <1>19, <2>9, <2>10
<1> QED BY <1>17, <1>18, <1>19

\* A collapsed row is gone, and every other row is as it was.
LEMMA OtherRowsStay ==
  ASSUME TypeInv, NEW r \in Run, at[r] = "applying", rows = plan[r].seen,
         NEW d \in Deck, NEW i \in Identity,
         NEW p \in {d} \X Printings(i), p # <<d, snapshot[r][i]>>
  PROVE  Merged(r)[p] = IF p[2] \in plan[r].stale /\ rows[p] # 0 THEN 0 ELSE rows[p]
<1>1. snapshot[r] \in Snapshot /\ RunTypes(r) /\ PlanIsSound(r) /\ rows \in [Place -> Nat]
  BY DEF TypeInv, Named, Writing
<1>2. /\ p \in Place /\ p[1] = d /\ p[2] \in Card /\ OracleId[p[2]] = i
      /\ p = <<p[1], p[2]>>
  BY DEF Place, Printings
<1>3. Canonical(r, p[2]) = snapshot[r][i] /\ p[2] # snapshot[r][i]
  BY <1>2 DEF Canonical
<1>4. CASE p[2] \in plan[r].stale /\ rows[p] # 0
  <2>1. CASE p \in plan[r].repoint
    <3>1. Repointed(r)[p] = 0
      BY <1>2, <2>1 DEF Repointed
    <3> QED BY <1>2, <1>4, <3>1 DEF Merged
  <2>2. CASE p \notin plan[r].repoint
    <3>1. p \in Merges(r)
      BY <1>1, <1>2, <1>4, <2>2 DEF Merges
    <3> QED BY <1>2, <1>4, <3>1 DEF Merged
  <2> QED BY <2>1, <2>2
<1>5. CASE ~(p[2] \in plan[r].stale /\ rows[p] # 0)
  <2>1. p \notin plan[r].repoint /\ p \notin Merges(r)
    BY <1>1, <1>2, <1>5 DEF PlanIsSound, Merges
  <2>2. ASSUME NEW q \in Place PROVE Canonical(r, q[2]) # p[2]
    BY <1>1, <1>2, <1>3, <2>2, CanonicalIsItsOwn DEF Place
  <2> DEFINE into == {q \in Merges(r) : q[1] = p[1] /\ Canonical(r, q[2]) = p[2]}
  <2>3. into = {} /\ {q \in plan[r].repoint : q[1] = p[1] /\ Canonical(r, q[2]) = p[2]} = {}
    BY <1>1, <2>2 DEF RunTypes, Merges
  <2>4. Repointed(r)[p] = rows[p]
    BY <1>2, <2>1, <2>3 DEF Repointed
  <2>5. SumFunctionOnSet(plan[r].seen, into) = 0
    BY <2>3, FS_EmptySet, SumVanishes
  <2>6. Merged(r)[p] = IF rows[p] = 0 THEN 0 ELSE rows[p] + 0
    BY <1>2, <2>1, <2>4, <2>5 DEF Merged
  <2>7. rows[p] \in Nat
    BY <1>1, <1>2
  <2> QED BY <1>5, <2>6, <2>7
<1> QED BY <1>4, <1>5

\* The rows of one identity in one deck have the same sum before and after.
LEMMA MergeKeepsCopies ==
  ASSUME TypeInv, NEW r \in Run, at[r] = "applying", rows = plan[r].seen,
         NEW d \in Deck, NEW i \in Identity
  PROVE  SumFunctionOnSet(Merged(r), {d} \X Printings(i)) = Copies(d, i)
<1> DEFINE D == {d} \X Printings(i)
           K == <<d, snapshot[r][i]>>
           H == {p \in D : p[2] \in plan[r].stale /\ rows[p] # 0}
           E == D \ {K}
           M == Merged(r)
<1>1. snapshot[r] \in Snapshot /\ PlanIsSound(r) /\ rows \in [Place -> Nat]
  BY DEF TypeInv, Named, Writing
<1>2. snapshot[r][i] \in Card /\ OracleId[snapshot[r][i]] = i
  BY <1>1, SnapshotNames
<1>3. K \in D /\ D \in SUBSET Place /\ D \in SUBSET ({d} \X Card)
  BY <1>2 DEF Place, Printings
<1>4. H \in SUBSET E
  BY <1>1, <1>2, CanonicalIsItsOwn DEF PlanIsSound, Canonical
<1>5. M \in [Place -> Nat]
  BY MergedIsQuantities
<1>6. M[K] = rows[K] + SumFunctionOnSet(rows, H)
  BY CanonicalRowCollects
<1>7. ASSUME NEW p \in E PROVE M[p] = IF p \in H THEN 0 ELSE rows[p]
  BY <1>7, OtherRowsStay
<1> HIDE DEF D, K, H, M
<1>8. /\ IsFiniteSet(D) /\ IsFiniteSet(E) /\ IsFiniteSet(H) /\ IsFiniteSet(E \ H)
  <2>1. \A S \in SUBSET D : IsFiniteSet(S)
    BY <1>3, PlacesOfDeckAreFinite
  <2> QED BY <1>4, <2>1
<1>9. \A p \in D : rows[p] \in Nat /\ M[p] \in Nat
  BY <1>1, <1>3, <1>5
<1>10. \A p \in E : rows[p] \in Nat /\ M[p] \in Nat
  BY <1>9
<1>11. /\ SumFunctionOnSet(rows, D) = rows[K] + SumFunctionOnSet(rows, E)
       /\ SumFunctionOnSet(M, D) = M[K] + SumFunctionOnSet(M, E)
  BY <1>3, <1>8, <1>9, SumTakes
<1>12. /\ SumFunctionOnSet(rows, E) = SumFunctionOnSet(rows, H) + SumFunctionOnSet(rows, E \ H)
       /\ SumFunctionOnSet(M, E) = SumFunctionOnSet(M, H) + SumFunctionOnSet(M, E \ H)
  BY <1>4, <1>8, <1>10, SumSplits
<1>13. SumFunctionOnSet(M, H) = 0
  BY <1>4, <1>7, <1>8, SumVanishes
<1>14. SumFunctionOnSet(M, E \ H) = SumFunctionOnSet(rows, E \ H)
  <2>1. \A p \in E \ H : rows[p] \in Nat /\ M[p] = rows[p]
    BY <1>7, <1>10
  <2> QED BY <1>8, <2>1, SumAgrees
<1>15. /\ rows[K] \in Nat /\ SumFunctionOnSet(rows, H) \in Nat
       /\ SumFunctionOnSet(rows, E \ H) \in Nat
  BY <1>3, <1>4, <1>8, <1>9, SumSteps
<1>16. SumFunctionOnSet(M, D) = SumFunctionOnSet(rows, D)
  BY <1>6, <1>11, <1>12, <1>13, <1>14, <1>15
<1> QED BY <1>16 DEF Copies, D, M

LEMMA KeepsCopiesStep == TypeInv /\ [Next]_vars => ReconcileKeepsCopies
<1> SUFFICES ASSUME TypeInv, [Next]_vars,
                    NEW r \in Run, at[r] = "applying", at'[r] = "finishing",
                    rows = plan[r].seen,
                    NEW d \in Deck, NEW i \in Identity
             PROVE  Copies(d, i)' = Copies(d, i)
  BY DEF ReconcileKeepsCopies
<1>1. Types
  BY DEF TypeInv
<1>2. Import(r)
  <2>1. CASE \E q \in Run : Import(q)
    BY <1>1, <2>1, OtherRunsStay
  <2>2. CASE ~(\E q \in Run : Import(q))
    <3>1. at' = at
      BY <2>2 DEF Next, vars, imports, Resolve, CommitEdit, RejectEdit, DeleteDeck, Sweep
    <3> QED BY <3>1
  <2> QED BY <2>1, <2>2
<1>3. CASE ApplyReconcile(r)
  BY <1>3, MergeKeepsCopies DEF ApplyReconcile, Copies
<1>4. CASE ~ApplyReconcile(r)
  <2>1. rows' = rows
    BY <1>2, <1>4 DEF Import, Begin, Download, Batch, Imported, PlanReconcile, SkipReconcile,
        Finish, Fail, Clear, Kill
  <2> QED BY <2>1 DEF Copies
<1> QED BY <1>3, <1>4

(* A reconcile that applies what it planned for leaves every deck with as   *)
(* many copies of every card: a row that is moved and rows that are merged  *)
(* into it add up to what they were, for any number of printings, decks and *)
(* imports at once (plan_identity_dedup, reconcile_oracle_identities).      *)
THEOREM ReconcileLosesNoCopy == Spec => [][ReconcileKeepsCopies]_vars
  BY TypeStart, TypeInvStep, KeepsCopiesStep, PTL DEF Spec

(* What an import replaces it replaces whole, one import at a time: neither *)
(* a card of a ready database nor a copy of it in a deck goes when its      *)
(* canonical printing changes (initialize_database).                        *)
THEOREM ImportLosesNothing ==
  ASSUME NEW r \in Run, Run = {r}
  PROVE  Spec => NothingIsLost
BY NoImportLosesAnIdentity, ReconcileLosesNoCopy, PTL DEF NothingIsLost
=============================================================================
