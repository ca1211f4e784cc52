--------------------------- MODULE ImageProxyProofs ---------------------------
(***************************************************************************)
(* Proofs about the pacing of image fetches and the memory of failures     *)
(* (ImageProxy), for any number of requests, images, entries and ticks.    *)
(***************************************************************************)
EXTENDS ImageProxy, TLAPS, FiniteSetTheorems, SequenceTheorems

-----------------------------------------------------------------------------
(* The pacer's clock.                                                      *)

ClockInv == since \in 0..Spacing /\ gap = Spacing - since

LEMMA ClockStart == Init => ClockInv
  BY SpacingAssumption DEF Init, ClockInv

LEMMA ClockStep == ClockInv /\ [Next]_vars => ClockInv'
<1> SUFFICES ASSUME ClockInv, [Next]_vars PROVE ClockInv'
  OBVIOUS
<1> USE SpacingAssumption DEF ClockInv
<1>1. ASSUME NEW s \in Slot, Serve(s) PROVE ClockInv'
  <2>1. CASE StartFetch(s)
    BY <2>1 DEF StartFetch
  <2>2. CASE ~StartFetch(s)
    <3>1. UNCHANGED <<gap, since>>
      BY <1>1, <2>2 DEF Serve, DiskHit, AnswerUnfetched, RefuseUrl, Enqueue, TakePermit,
          FetchDelivers, FetchFails, StoreLands, StoreLosesRace, StoreFails,
          pacer, store, history
    <3> QED BY <3>1
  <2> QED BY <2>1, <2>2
<1>2. ASSUME NEW s \in Slot, Cancel(s) PROVE ClockInv'
  BY <1>2 DEF Cancel, history
<1>3. ASSUME NEW s \in Slot, NEW k \in Wants[s], Ask(s, k) PROVE ClockInv'
  BY <1>3 DEF Ask, pacer, history
<1>4. CASE Restart
  BY <1>4 DEF Restart
<1>5. CASE Tick
  BY <1>5 DEF Tick, AtLeast, AtMost
<1>6. CASE UNCHANGED vars
  BY <1>6 DEF vars, pacer, history
<1> QED BY <1>1, <1>2, <1>3, <1>4, <1>5, <1>6 DEF Next

(* Starts of fetches stay Spacing apart, and no later than that, whatever  *)
(* is cancelled in the turnstile or out of it (Pacer._wait_for_turn).      *)
THEOREM FetchesAreSpaced == Spec => []StartsAreSpaced
<1>1. ClockInv => StartsAreSpaced
  BY DEF ClockInv, StartsAreSpaced
<1> QED BY <1>1, ClockStart, ClockStep, PTL DEF Spec

-----------------------------------------------------------------------------
(* The memory of failures.                                                 *)

Requests ==
    /\ at \in [Slot -> Phase]
    /\ key \in [Slot -> Key \cup {NoKey}]
    /\ \A s \in Slot : key[s] = NoKey <=> at[s] = "idle"

Memory ==
    /\ IsFiniteSet(DOMAIN memory)
    /\ DOMAIN memory \subseteq Key
    /\ \A k \in DOMAIN memory : memory[k] \in RememberedFailure
    /\ earned \in [Key -> 0..Ceiling]
    /\ \A k \in Key : earned[k] = 0 \/ earned[k] >= First
    /\ BackoffIsEarned

MemoryInv == Requests /\ Memory /\ MemoryIsBounded

\* What a step may do to what is remembered of k.
Remains(k) == k \in DOMAIN memory' /\ memory'[k].delay >= memory[k].delay
GaveWay == Cardinality(DOMAIN memory') = MaxEntries /\ ~(DOMAIN memory' \subseteq DOMAIN memory)

LEMMA DoublingGrows ==
  ASSUME NEW d \in 1..Ceiling
  PROVE  Doubled(d) \in 1..Ceiling /\ Doubled(d) >= d
<1>1. d \in Int /\ d >= 1 /\ d <= Ceiling /\ Ceiling \in Int
  BY BackoffAssumption
<1>2. Multiplier \in Int /\ Multiplier >= 1
  BY BackoffAssumption
<1>3. d * Multiplier \in Int /\ d * Multiplier >= d
  BY <1>1, <1>2
<1> QED BY <1>1, <1>3 DEF Doubled, AtMost

LEMMA DoublingIsMonotone ==
  ASSUME NEW d \in 1..Ceiling, NEW e \in 1..Ceiling, d <= e
  PROVE  Doubled(d) <= Doubled(e)
<1>1. d \in Nat /\ e \in Nat /\ Multiplier \in Nat /\ Ceiling \in Nat
  BY BackoffAssumption
<1>2. d * Multiplier <= e * Multiplier
  BY <1>1
<1>3. d * Multiplier \in Nat /\ e * Multiplier \in Nat
  BY <1>1
<1> QED BY <1>1, <1>2, <1>3 DEF Doubled, AtMost

LEMMA FirstIsADelay == First \in 1..Ceiling
  BY BackoffAssumption DEF First, AtMost

LEMMA NextDelayGrows ==
  ASSUME Memory, NEW k
  PROVE  /\ NextDelay(k) \in 1..Ceiling
         /\ k \in Kept => NextDelay(k) >= memory[k].delay
<1>1. CASE k \in Kept
  <2>1. memory[k].delay \in 1..Ceiling
    BY <1>1 DEF Memory, Kept, RememberedFailure
  <2> QED BY <1>1, <2>1, DoublingGrows DEF NextDelay
<1>2. CASE k \notin Kept
  BY <1>2, BackoffAssumption DEF NextDelay, First, AtMost
<1> QED BY <1>1, <1>2

(* A record keeps every history that is not stale, or gives one away for   *)
(* the key it records when there is no room (NegativeCache.record_failure). *)
LEMMA RecordRemembers ==
  ASSUME Memory, MemoryIsBounded, NEW k0 \in Key, RecordFailure(k0)
  PROVE  /\ Memory' /\ MemoryIsBounded'
         /\ \A k \in Kept : Remains(k) \/ GaveWay
<1> PICK evicted \in Evictions(k0) :
       memory' = [j \in (Kept \ evicted) \cup {k0} |->
                     IF j = k0 THEN [delay |-> NextDelay(k0), wait |-> NextDelay(k0)]
                     ELSE memory[j]]
  BY DEF RecordFailure
<1> DEFINE D == (Kept \ evicted) \cup {k0}
<1>1. DOMAIN memory' = D
  OBVIOUS
<1>2. Kept \in SUBSET DOMAIN memory
  BY DEF Kept
<1>3. /\ IsFiniteSet(Kept) /\ Cardinality(Kept) \in Nat /\ Cardinality(Kept) <= MaxEntries
      /\ Cardinality(Kept) = MaxEntries => Kept = DOMAIN memory
  BY <1>2, FS_Subset, FS_CardinalityType, BoundsAssumption DEF Memory, MemoryIsBounded
<1>4. /\ IsFiniteSet(D) /\ Cardinality(D) <= MaxEntries
      /\ \A k \in Kept : k \in D \/ (Cardinality(D) = MaxEntries /\ ~(D \subseteq DOMAIN memory))
  <2>1. CASE k0 \in Kept \/ Cardinality(Kept) < MaxEntries
    <3>1. evicted = {} /\ D = Kept \cup {k0}
      BY <2>1 DEF Evictions
    <3>2. /\ IsFiniteSet(D)
          /\ Cardinality(D) = IF k0 \in Kept THEN Cardinality(Kept) ELSE Cardinality(Kept) + 1
      BY <3>1, <1>3, FS_AddElement
    <3>3. Cardinality(D) <= MaxEntries
      BY <2>1, <3>2, <1>3, BoundsAssumption
    <3> QED BY <3>1, <3>2, <3>3
  <2>2. CASE k0 \notin Kept /\ ~(Cardinality(Kept) < MaxEntries)
    <3>1. PICK j \in Kept : evicted = {j}
      BY <2>2 DEF Evictions
    <3>2. Cardinality(Kept) = MaxEntries /\ Kept = DOMAIN memory
      BY <2>2, <1>3, BoundsAssumption
    <3>3. IsFiniteSet(Kept \ {j}) /\ Cardinality(Kept \ {j}) = MaxEntries - 1
      BY <3>2, <1>3, FS_RemoveElement
    <3>4. k0 \notin Kept \ {j}
      BY <2>2
    <3>5. IsFiniteSet(D) /\ Cardinality(D) = MaxEntries - 1 + 1
      BY <3>1, <3>3, <3>4, FS_AddElement
    <3> QED BY <3>5, <3>2, <2>2, BoundsAssumption
  <2> QED BY <2>1, <2>2
<1>5. ASSUME NEW j \in D PROVE memory'[j] \in RememberedFailure /\ j \in Key
  <2>1. CASE j = k0
    <3>1. NextDelay(k0) \in 1..Ceiling
      BY NextDelayGrows
    <3>2. NextDelay(k0) \in (-Ceiling)..Ceiling
      BY <3>1, BackoffAssumption
    <3> QED BY <2>1, <3>1, <3>2 DEF RememberedFailure
  <2>2. CASE j # k0
    BY <2>2, <1>2 DEF Memory
  <2> QED BY <2>1, <2>2
<1> DEFINE longer == IF earned[k0] = 0 THEN First ELSE Doubled(earned[k0])
<1>6. /\ earned' \in [Key -> 0..Ceiling]
      /\ \A k \in Key : earned'[k] = 0 \/ earned'[k] >= First
      /\ BackoffIsEarned'
  <2>1. earned' = [earned EXCEPT ![k0] = longer]
    BY DEF RecordFailure
  <2>2. longer \in 1..Ceiling /\ longer >= First
    <3>1. CASE earned[k0] = 0
      BY <3>1, FirstIsADelay
    <3>2. CASE earned[k0] # 0
      <4>1. earned[k0] \in 1..Ceiling /\ earned[k0] >= First
        BY <3>2, BackoffAssumption DEF Memory
      <4>2. Doubled(earned[k0]) \in 1..Ceiling /\ Doubled(earned[k0]) >= earned[k0]
        BY <4>1, DoublingGrows
      <4> QED BY <3>2, <4>1, <4>2, FirstIsADelay
    <3> QED BY <3>1, <3>2
  <2>3. NextDelay(k0) <= longer
    <3>1. CASE k0 \in Kept
      <4>1. memory[k0].delay \in 1..Ceiling /\ memory[k0].delay <= earned[k0]
        BY <3>1, <1>2 DEF Memory, RememberedFailure, BackoffIsEarned
      <4>2. earned[k0] \in 1..Ceiling
        BY <4>1 DEF Memory
      <4>3. NextDelay(k0) = Doubled(memory[k0].delay) /\ longer = Doubled(earned[k0])
        BY <3>1, <4>2 DEF NextDelay
      <4> QED BY <4>1, <4>2, <4>3, DoublingIsMonotone
    <3>2. CASE k0 \notin Kept
      BY <3>2, <2>2, FirstIsADelay DEF NextDelay
    <3> QED BY <3>1, <3>2
  <2>4. earned' \in [Key -> 0..Ceiling] /\ \A k \in Key : earned'[k] = 0 \/ earned'[k] >= First
    BY <2>1, <2>2 DEF Memory
  <2>5. ASSUME NEW j \in D PROVE memory'[j].delay <= earned'[j]
    <3>1. CASE j = k0
      BY <3>1, <2>1, <2>3 DEF Memory
    <3>2. CASE j # k0
      BY <3>2, <2>1, <1>2, <1>5 DEF Memory, BackoffIsEarned
    <3> QED BY <3>1, <3>2
  <2> QED BY <1>1, <2>4, <2>5 DEF BackoffIsEarned
<1>7. ASSUME NEW k \in Kept, k \in D PROVE memory'[k].delay >= memory[k].delay
  <2>1. memory[k].delay \in Int
    BY <1>2 DEF Memory, RememberedFailure
  <2> QED BY <1>7, <2>1, NextDelayGrows
<1>8. Memory'
  BY <1>1, <1>4, <1>5, <1>6 DEF Memory
<1>9. MemoryIsBounded'
  BY <1>1, <1>4 DEF MemoryIsBounded
<1>10. ASSUME NEW k \in Kept PROVE Remains(k) \/ GaveWay
  <2>1. CASE k \in D
    BY <2>1, <1>1, <1>2, <1>7 DEF Remains
  <2>2. CASE k \notin D
    BY <2>2, <1>1, <1>4 DEF GaveWay
  <2> QED BY <2>1, <2>2
<1> QED BY <1>8, <1>9, <1>10

LEMMA ForgetRemembers ==
  ASSUME Memory, MemoryIsBounded, NEW k0 \in Key, Forget(k0)
  PROVE  /\ Memory' /\ MemoryIsBounded'
         /\ earned'[k0] = 0
         /\ \A k \in DOMAIN memory : k = k0 \/ Remains(k)
<1>1. DOMAIN memory' = DOMAIN memory \ {k0}
  BY DEF Forget
<1>2. \A k \in DOMAIN memory' : memory'[k] = memory[k]
  BY DEF Forget
<1>3. IsFiniteSet(DOMAIN memory') /\ Cardinality(DOMAIN memory') <= MaxEntries
  <2>1. DOMAIN memory' \in SUBSET DOMAIN memory
    BY <1>1
  <2>2. IsFiniteSet(DOMAIN memory) /\ Cardinality(DOMAIN memory) <= MaxEntries
    BY DEF Memory, MemoryIsBounded
  <2>3. /\ IsFiniteSet(DOMAIN memory')
        /\ Cardinality(DOMAIN memory') <= Cardinality(DOMAIN memory)
    BY <2>1, <2>2, FS_Subset
  <2>4. Cardinality(DOMAIN memory') \in Nat /\ Cardinality(DOMAIN memory) \in Nat
    BY <2>2, <2>3, FS_CardinalityType
  <2> QED BY <2>2, <2>3, <2>4, BoundsAssumption
<1>4. /\ earned' \in [Key -> 0..Ceiling] /\ earned'[k0] = 0
      /\ \A k \in Key \ {k0} : earned'[k] = earned[k]
  BY BackoffAssumption DEF Forget, Memory
<1>6. BackoffIsEarned' /\ \A k \in Key : earned'[k] = 0 \/ earned'[k] >= First
  BY <1>1, <1>2, <1>4 DEF Memory, BackoffIsEarned
<1>5. \A k \in DOMAIN memory : memory[k].delay \in Int
  BY DEF Memory, RememberedFailure
<1> QED BY <1>1, <1>2, <1>3, <1>4, <1>5, <1>6 DEF Memory, MemoryIsBounded, Remains

-----------------------------------------------------------------------------
(* Steps.                                                                  *)

LEMMA MemoryStart == Init => MemoryInv
<1> SUFFICES ASSUME Init PROVE MemoryInv
  OBVIOUS
<1>1. Requests
  BY DEF Init, Requests, Phase
<1>2. DOMAIN memory = {}
  BY DEF Init
<1>3. Memory /\ MemoryIsBounded
  BY <1>2, FS_EmptySet, BoundsAssumption, BackoffAssumption
  DEF Init, Memory, MemoryIsBounded, BackoffIsEarned
<1> QED BY <1>1, <1>3 DEF MemoryInv

LEMMA RequestsStep == Requests /\ [Next]_vars => Requests'
<1> SUFFICES ASSUME Requests, [Next]_vars PROVE Requests'
  OBVIOUS
<1> USE DEF Requests, Phase
<1>1. ASSUME NEW s \in Slot, Serve(s) PROVE Requests'
  <2>1. CASE DiskHit(s)
    BY <2>1 DEF DiskHit, Answer, Move
  <2>2. CASE AnswerUnfetched(s)
    BY <2>2 DEF AnswerUnfetched, Answer, Move
  <2>3. CASE RefuseUrl(s)
    BY <2>3 DEF RefuseUrl, Answer, Move
  <2>4. CASE Enqueue(s)
    BY <2>4 DEF Enqueue, Move
  <2>5. CASE TakePermit(s)
    BY <2>5 DEF TakePermit, Move
  <2>6. CASE StartFetch(s)
    BY <2>6 DEF StartFetch, Move
  <2>7. CASE FetchDelivers(s)
    BY <2>7 DEF FetchDelivers, Answer, Move
  <2>8. CASE FetchFails(s)
    BY <2>8 DEF FetchFails, Answer, Move
  <2>9. CASE StoreLands(s)
    BY <2>9 DEF StoreLands, Answer, Move
  <2>10. CASE StoreLosesRace(s)
    BY <2>10 DEF StoreLosesRace, Answer, Move
  <2>11. CASE StoreFails(s)
    BY <2>11 DEF StoreFails, Answer, Move
  <2> QED BY <1>1, <2>1, <2>2, <2>3, <2>4, <2>5, <2>6, <2>7, <2>8, <2>9, <2>10, <2>11 DEF Serve
<1>2. ASSUME NEW s \in Slot, Cancel(s) PROVE Requests'
  BY <1>2 DEF Cancel, Answer, Move
<1>3. ASSUME NEW s \in Slot, NEW k \in Wants[s], Ask(s, k) PROVE Requests'
  <2>1. k \in Key /\ k # NoKey
    BY KeyAssumption
  <2>2. at' = [at EXCEPT ![s] = "looking"] /\ key' = [key EXCEPT ![s] = k]
    BY <1>3 DEF Ask, Move
  <2> QED BY <2>1, <2>2
<1>4. CASE Restart
  BY <1>4 DEF Restart
<1>5. CASE Tick
  BY <1>5 DEF Tick
<1>6. CASE UNCHANGED vars
  BY <1>6 DEF vars
<1> QED BY <1>1, <1>2, <1>3, <1>4, <1>5, <1>6 DEF Next

\* What OutagesAreRemembered asks of a step.
Remembers ==
    \A k \in DOMAIN memory : memory[k].wait > -Ceiling =>
       \/ Remains(k)
       \/ \E s \in Slot : key[s] = k /\ at[s] = "fetching" /\ earned'[k] = 0
       \/ GaveWay
       \/ Restart

LEMMA Unchanged ==
  ASSUME MemoryInv, UNCHANGED <<memory, earned>>
  PROVE  Memory' /\ MemoryIsBounded' /\ Remembers
<1>1. \A k \in DOMAIN memory : memory[k].delay \in Int
  BY DEF MemoryInv, Memory, RememberedFailure
<1> QED BY <1>1 DEF MemoryInv, Memory, MemoryIsBounded, BackoffIsEarned, Remembers, Remains

LEMMA Recorded ==
  ASSUME MemoryInv, NEW k0 \in Key, RecordFailure(k0)
  PROVE  Memory' /\ MemoryIsBounded' /\ Remembers
<1>1. Memory' /\ MemoryIsBounded' /\ \A k \in Kept : Remains(k) \/ GaveWay
  BY RecordRemembers DEF MemoryInv
<1> QED BY <1>1 DEF Remembers, Kept

LEMMA MemoryStep == MemoryInv /\ [Next]_vars => MemoryInv' /\ Remembers
<1> SUFFICES ASSUME MemoryInv, [Next]_vars PROVE Memory' /\ MemoryIsBounded' /\ Remembers
  BY RequestsStep DEF MemoryInv
<1>1. ASSUME NEW s \in Slot, Serve(s) PROVE Memory' /\ MemoryIsBounded' /\ Remembers
  <2>1. at[s] # "idle" => key[s] \in Key
    BY DEF MemoryInv, Requests
  <2>2. CASE RefuseUrl(s) \/ FetchFails(s)
    <3>1. key[s] \in Key /\ RecordFailure(key[s])
      BY <2>1, <2>2 DEF RefuseUrl, FetchFails
    <3> QED BY <3>1, Recorded
  <2>3. CASE FetchDelivers(s)
    <3>1. key[s] \in Key /\ Forget(key[s]) /\ at[s] = "fetching"
      BY <2>1, <2>3 DEF FetchDelivers
    <3>2. /\ Memory' /\ MemoryIsBounded' /\ earned'[key[s]] = 0
          /\ \A k \in DOMAIN memory : k = key[s] \/ Remains(k)
      BY <3>1, ForgetRemembers DEF MemoryInv
    <3> QED BY <3>1, <3>2 DEF Remembers
  <2>4. CASE ~RefuseUrl(s) /\ ~FetchFails(s) /\ ~FetchDelivers(s)
    <3>1. UNCHANGED <<memory, earned>>
      BY <1>1, <2>4 DEF Serve, DiskHit, AnswerUnfetched, Enqueue, TakePermit, StartFetch,
          StoreLands, StoreLosesRace, StoreFails, history
    <3> QED BY <3>1, Unchanged
  <2> QED BY <2>2, <2>3, <2>4
<1>2. ASSUME NEW s \in Slot, Cancel(s) PROVE Memory' /\ MemoryIsBounded' /\ Remembers
  <2>1. UNCHANGED <<memory, earned>>
    BY <1>2 DEF Cancel, history
  <2> QED BY <2>1, Unchanged
<1>3. ASSUME NEW s \in Slot, NEW k \in Wants[s], Ask(s, k)
      PROVE  Memory' /\ MemoryIsBounded' /\ Remembers
  <2>1. UNCHANGED <<memory, earned>>
    BY <1>3 DEF Ask, history
  <2> QED BY <2>1, Unchanged
<1>4. CASE Restart
  <2>1. DOMAIN memory' = {} /\ earned' = [k \in Key |-> 0]
    BY <1>4 DEF Restart
  <2>2. Memory' /\ MemoryIsBounded'
    BY <2>1, FS_EmptySet, BoundsAssumption, BackoffAssumption
    DEF Memory, MemoryIsBounded, BackoffIsEarned
  <2> QED BY <1>4, <2>2 DEF Remembers
<1>5. CASE Tick
  <2>1. DOMAIN memory' = DOMAIN memory /\ earned' = earned
    BY <1>5 DEF Tick
  <2>2. ASSUME NEW k \in DOMAIN memory
        PROVE  memory'[k] \in RememberedFailure /\ memory'[k].delay = memory[k].delay
               /\ memory[k].delay \in Int
    <3>1. memory[k] \in RememberedFailure
      BY DEF MemoryInv, Memory
    <3>2. memory'[k] = [memory[k] EXCEPT !.wait = AtLeast(memory[k].wait - 1, -Ceiling)]
      BY <1>5 DEF Tick
    <3>3. AtLeast(memory[k].wait - 1, -Ceiling) \in (-Ceiling)..Ceiling
      BY <3>1, BackoffAssumption DEF RememberedFailure, AtLeast
    <3> QED BY <3>1, <3>2, <3>3 DEF RememberedFailure
  <2>3. Memory' /\ MemoryIsBounded'
    BY <2>1, <2>2 DEF MemoryInv, Memory, MemoryIsBounded, BackoffIsEarned
  <2> QED BY <2>1, <2>2, <2>3 DEF Remembers, Remains
<1>6. CASE UNCHANGED vars
  BY <1>6, Unchanged DEF vars, history
<1> QED BY <1>1, <1>2, <1>3, <1>4, <1>5, <1>6 DEF Next

(* An outage is not forgotten between two attempts                         *)
(* (NegativeCache.record_failure).                                         *)
THEOREM OutagesStayRemembered == Spec => OutagesAreRemembered
<1>1. Remembers =>
        \A k \in DOMAIN memory : memory[k].wait > -Ceiling =>
          \/ k \in DOMAIN memory' /\ memory'[k].delay >= memory[k].delay
          \/ \E s \in Slot : key[s] = k /\ at[s] = "fetching" /\ earned'[k] = 0
          \/ Cardinality(DOMAIN memory') = MaxEntries /\ ~(DOMAIN memory' \subseteq DOMAIN memory)
          \/ Restart
  BY DEF Remembers, Remains, GaveWay
<1> QED BY <1>1, MemoryStart, MemoryStep, PTL DEF Spec, OutagesAreRemembered

(* The memory of failures never passes its bound, and no key backs off for *)
(* longer than its failures since it last succeeded have earned, whatever  *)
(* the order in which overlapping fetches of it end (record_failure, clear). *)
THEOREM BackoffStaysSound == Spec => []BackoffIsSound
<1>1. MemoryInv => BackoffIsSound
  BY DEF MemoryInv, Memory, BackoffIsSound
<1> QED BY <1>1, MemoryStart, MemoryStep, PTL DEF Spec

-----------------------------------------------------------------------------
(* The permits.                                                            *)

Permits ==
    /\ free \in Nat
    /\ IsFiniteSet(In(Holding))
    /\ free + Cardinality(In(Holding)) = Limit

\* A step of s that leaves it holding, or not holding, as it was.
LEMMA HoldingUnchanged ==
  ASSUME Permits, free' = free, In(Holding)' = In(Holding)
  PROVE  Permits'
BY DEF Permits

LEMMA HoldingGrows ==
  ASSUME Permits, NEW s \in Slot, s \notin In(Holding), free > 0, free' = free - 1,
         In(Holding)' = In(Holding) \cup {s}
  PROVE  Permits'
<1>1. IsFiniteSet(In(Holding)) /\ free \in Nat /\ Cardinality(In(Holding)) \in Nat
  BY FS_CardinalityType DEF Permits
<1>2. /\ IsFiniteSet(In(Holding) \cup {s})
      /\ Cardinality(In(Holding) \cup {s}) = Cardinality(In(Holding)) + 1
  BY <1>1, FS_AddElement
<1>3. free' + Cardinality(In(Holding)') = Limit /\ free' \in Nat
  BY <1>1, <1>2 DEF Permits
<1> QED BY <1>2, <1>3 DEF Permits

LEMMA HoldingShrinks ==
  ASSUME Permits, NEW s \in Slot, s \in In(Holding), free' = free + 1,
         In(Holding)' = In(Holding) \ {s}
  PROVE  Permits'
<1>1. IsFiniteSet(In(Holding)) /\ free \in Nat /\ Cardinality(In(Holding)) \in Nat
  BY FS_CardinalityType DEF Permits
<1>2. /\ IsFiniteSet(In(Holding) \ {s})
      /\ Cardinality(In(Holding) \ {s}) = Cardinality(In(Holding)) - 1
  BY <1>1, FS_RemoveElement
<1>3. free' + Cardinality(In(Holding)') = Limit /\ free' \in Nat
  BY <1>1, <1>2 DEF Permits
<1> QED BY <1>2, <1>3 DEF Permits

LEMMA PermitsStart == Init => Permits
<1> SUFFICES ASSUME Init PROVE Permits
  OBVIOUS
<1>1. In(Holding) = {}
  BY DEF Init, In, Holding
<1> QED BY <1>1, FS_EmptySet, LimitAssumption DEF Init, Permits

LEMMA PermitsStep == Requests /\ Permits /\ [Next]_vars => Permits'
<1> SUFFICES ASSUME Requests, Permits, [Next]_vars PROVE Permits'
  OBVIOUS
<1> USE DEF In, Holding
<1>1. ASSUME NEW s \in Slot, Serve(s) PROVE Permits'
  <2>1. CASE TakePermit(s)
    <3>1. free > 0 /\ free' = free - 1 /\ s \notin In(Holding)
      BY <2>1 DEF TakePermit
    <3>2. In(Holding)' = In(Holding) \cup {s}
      BY <2>1 DEF TakePermit, Move, Requests
    <3> QED BY <3>1, <3>2, HoldingGrows
  <2>2. CASE StartFetch(s)
    <3>1. free' = free /\ In(Holding)' = In(Holding)
      BY <2>2 DEF StartFetch, Move, Requests
    <3> QED BY <3>1, HoldingUnchanged
  <2>3. CASE FetchDelivers(s) \/ FetchFails(s)
    <3>1. at[s] = "fetching" /\ free' = free + 1
      BY <2>3 DEF FetchDelivers, FetchFails
    <3>2. at' = [at EXCEPT ![s] = "idle"] \/ at' = [at EXCEPT ![s] = "storing"]
      BY <2>3 DEF FetchDelivers, FetchFails, Answer, Move
    <3>3. In(Holding)' = In(Holding) \ {s}
      BY <3>2 DEF Requests
    <3>4. s \in In(Holding)
      BY <3>1
    <3> QED BY <3>1, <3>3, <3>4, HoldingShrinks
  <2>4. CASE ~TakePermit(s) /\ ~StartFetch(s) /\ ~FetchDelivers(s) /\ ~FetchFails(s)
    <3>1. free' = free
      BY <1>1, <2>4 DEF Serve, DiskHit, AnswerUnfetched, RefuseUrl, Enqueue,
          StoreLands, StoreLosesRace, StoreFails, pacer
    <3>2. /\ at[s] \in {"looking", "storing"}
          /\ at' = [at EXCEPT ![s] = "idle"] \/ at' = [at EXCEPT ![s] = "queued"]
      BY <1>1, <2>4 DEF Serve, DiskHit, AnswerUnfetched, RefuseUrl, Enqueue,
          StoreLands, StoreLosesRace, StoreFails, Answer, Move
    <3>3. In(Holding)' = In(Holding)
      BY <3>2 DEF Requests
    <3> QED BY <3>1, <3>3, HoldingUnchanged
  <2> QED BY <2>1, <2>2, <2>3, <2>4
<1>2. ASSUME NEW s \in Slot, Cancel(s) PROVE Permits'
  <2>1. In(Holding)' = In(Holding) \ {s}
    BY <1>2 DEF Cancel, Answer, Move, Requests
  <2>2. free' = IF s \in In(Holding) THEN free + 1 ELSE free
    BY <1>2 DEF Cancel
  <2>3. CASE s \in In(Holding)
    BY <2>1, <2>2, <2>3, HoldingShrinks
  <2>4. CASE s \notin In(Holding)
    <3>1. In(Holding)' = In(Holding) /\ free' = free
      BY <2>1, <2>2, <2>4
    <3> QED BY <3>1, HoldingUnchanged
  <2> QED BY <2>3, <2>4
<1>3. ASSUME NEW s \in Slot, NEW k \in Wants[s], Ask(s, k) PROVE Permits'
  <2>1. free' = free /\ In(Holding)' = In(Holding)
    BY <1>3 DEF Ask, Move, Requests, pacer
  <2> QED BY <2>1, HoldingUnchanged
<1>4. CASE Restart
  <2>1. In(Holding)' = {} /\ free' = Limit
    BY <1>4 DEF Restart
  <2> QED BY <2>1, FS_EmptySet, LimitAssumption DEF Permits
<1>5. CASE Tick \/ UNCHANGED vars
  <2>1. free' = free /\ In(Holding)' = In(Holding)
    BY <1>5 DEF Tick, vars, pacer
  <2> QED BY <2>1, HoldingUnchanged
<1> QED BY <1>1, <1>2, <1>3, <1>4, <1>5 DEF Next

-----------------------------------------------------------------------------
(* The two lines.                                                          *)

\* A line: every slot at most once.
Once(seq) == seq \in Seq(Slot) /\ \A i, j \in DOMAIN seq : seq[i] = seq[j] => i = j

LEMMA EmptyLine == Once(<<>>) /\ Members(<<>>) = {}
  BY DEF Once, Members

LEMMA AppendOnce ==
  ASSUME NEW seq, Once(seq), NEW s \in Slot, s \notin Members(seq)
  PROVE  Once(Append(seq, s)) /\ Members(Append(seq, s)) = Members(seq) \cup {s}
<1> DEFINE longer == Append(seq, s)
<1>1. /\ longer \in Seq(Slot) /\ Len(seq) \in Nat /\ Len(longer) = Len(seq) + 1
      /\ DOMAIN seq = 1..Len(seq) /\ DOMAIN longer = 1..(Len(seq) + 1)
      /\ \A i \in 1..Len(seq) : longer[i] = seq[i]
      /\ longer[Len(seq) + 1] = s
  BY AppendProperties, LenProperties DEF Once
<1>2. \A i \in DOMAIN seq : seq[i] # s
  BY DEF Members
<1> HIDE DEF longer
<1>3. Once(longer)
  BY <1>1, <1>2 DEF Once
<1>4. Members(longer) = Members(seq) \cup {s}
  <2>1. \A i \in DOMAIN longer : i \in DOMAIN seq \/ i = Len(seq) + 1
    BY <1>1
  <2>2. DOMAIN seq \subseteq DOMAIN longer /\ Len(seq) + 1 \in DOMAIN longer
    BY <1>1
  <2> QED BY <1>1, <2>1, <2>2 DEF Members
<1> QED BY <1>3, <1>4 DEF longer

LEMMA TailOnce ==
  ASSUME NEW seq, Once(seq), seq # <<>>
  PROVE  Once(Tail(seq)) /\ Members(Tail(seq)) = Members(seq) \ {Head(seq)}
<1> DEFINE rest == Tail(seq)
<1>1. /\ rest \in Seq(Slot) /\ Len(seq) \in Nat /\ Len(rest) = Len(seq) - 1 /\ Len(seq) >= 1
      /\ DOMAIN seq = 1..Len(seq) /\ DOMAIN rest = 1..(Len(seq) - 1)
      /\ \A i \in 1..(Len(seq) - 1) : rest[i] = seq[i + 1]
      /\ Head(seq) = seq[1]
  BY HeadTailProperties, LenProperties DEF Once
<1> HIDE DEF rest
<1>2. Once(rest)
  BY <1>1 DEF Once
<1>3. ASSUME NEW x PROVE x \in Members(rest) <=> x \in Members(seq) /\ x # seq[1]
  <2>1. ASSUME NEW i \in DOMAIN rest PROVE i + 1 \in DOMAIN seq /\ i + 1 # 1 /\ 1 \in DOMAIN seq
    BY <1>1
  <2>2. ASSUME NEW i \in DOMAIN seq, i # 1 PROVE i - 1 \in DOMAIN rest /\ rest[i - 1] = seq[i]
    BY <1>1, <2>2
  <2>3. x \in Members(rest) => x \in Members(seq) /\ x # seq[1]
    BY <1>1, <2>1 DEF Members, Once
  <2>4. x \in Members(seq) /\ x # seq[1] => x \in Members(rest)
    BY <2>2 DEF Members
  <2> QED BY <2>3, <2>4
<1> QED BY <1>1, <1>2, <1>3 DEF rest

\* What comes after the n-th element.
LEMMA Rest ==
  ASSUME NEW seq \in Seq(Slot), NEW n \in 1..Len(seq)
  PROVE  LET back == SubSeq(seq, n + 1, Len(seq))
         IN  /\ back \in Seq(Slot) /\ Len(back) = Len(seq) - n
             /\ \A i \in 1..(Len(seq) - n) : back[i] = seq[n + i]
<1>1. Len(seq) \in Nat /\ DOMAIN seq = 1..Len(seq) /\ n \in Nat /\ n <= Len(seq)
  BY LenProperties
<1>2. \A i \in (n + 1)..Len(seq) : i \in 1..Len(seq)
  BY <1>1
<1>3. \A i \in (n + 1)..Len(seq) : seq[i] \in Slot
  BY <1>2, ElementOfSeq
<1>4. /\ SubSeq(seq, n + 1, Len(seq)) \in Seq(Slot)
      /\ Len(SubSeq(seq, n + 1, Len(seq))) =
            IF n + 1 <= Len(seq) THEN Len(seq) - (n + 1) + 1 ELSE 0
      /\ \A i \in 1..(Len(seq) - (n + 1) + 1) :
            SubSeq(seq, n + 1, Len(seq))[i] = seq[n + 1 + i - 1]
  BY <1>1, <1>3, SubSeqProperties
<1>5. ASSUME NEW len \in Nat, NEW m \in Nat, m <= len
      PROVE  /\ len - (m + 1) + 1 = len - m
             /\ (IF m + 1 <= len THEN len - (m + 1) + 1 ELSE 0) = len - m
  <2>1. CASE m = len
    BY <2>1
  <2>2. CASE m < len
    BY <2>2
  <2> QED BY <1>5, <2>1, <2>2
<1>6. ASSUME NEW m \in Nat, NEW i \in Int
      PROVE  m + 1 + i - 1 = m + i
  OBVIOUS
<1>7. /\ SubSeq(seq, n + 1, Len(seq)) \in Seq(Slot)
      /\ Len(SubSeq(seq, n + 1, Len(seq))) = Len(seq) - n
  BY <1>1, <1>4, <1>5
<1>8. ASSUME NEW i \in 1..(Len(seq) - n)
      PROVE  SubSeq(seq, n + 1, Len(seq))[i] = seq[n + i]
  <2>1. i \in 1..(Len(seq) - (n + 1) + 1) /\ n + 1 + i - 1 = n + i
    BY <1>1, <1>5, <1>6
  <2> QED BY <2>1, <1>4
<1> QED BY <1>7, <1>8

LEMMA WithoutOnce ==
  ASSUME NEW seq, Once(seq), NEW s
  PROVE  Once(Without(seq, s)) /\ Members(Without(seq, s)) = Members(seq) \ {s}
<1>1. CASE s \notin Members(seq)
  BY <1>1 DEF Without
<1>2. CASE s \in Members(seq)
  <2> DEFINE n == CHOOSE i \in DOMAIN seq : seq[i] = s
             rest == RemoveAt(seq, n)
  <2>1. n \in DOMAIN seq /\ seq[n] = s
    BY <1>2 DEF Members
  <2>2. Without(seq, s) = rest
    BY <1>2 DEF Without
  <2> HIDE DEF n
  <2>3. seq \in Seq(Slot) /\ Len(seq) \in Nat /\ DOMAIN seq = 1..Len(seq) /\ n \in 1..Len(seq)
    BY <2>1, LenProperties DEF Once
  <2>4. /\ SubSeq(seq, 1, n - 1) \in Seq(Slot) /\ Len(SubSeq(seq, 1, n - 1)) = n - 1
        /\ \A i \in 1..(n - 1) : SubSeq(seq, 1, n - 1)[i] = seq[i]
    BY <2>3, SubSeqProperties
  <2>5. /\ SubSeq(seq, n + 1, Len(seq)) \in Seq(Slot)
        /\ Len(SubSeq(seq, n + 1, Len(seq))) = Len(seq) - n
        /\ \A i \in 1..(Len(seq) - n) : SubSeq(seq, n + 1, Len(seq))[i] = seq[n + i]
    BY <2>3, Rest DEF Once
  <2>6. /\ rest \in Seq(Slot) /\ Len(rest) = Len(seq) - 1 /\ DOMAIN rest = 1..(Len(seq) - 1)
        /\ \A i \in 1..(Len(seq) - 1) : rest[i] = IF i < n THEN seq[i] ELSE seq[i + 1]
    <3> DEFINE front == SubSeq(seq, 1, n - 1)
               back == SubSeq(seq, n + 1, Len(seq))
    <3> HIDE DEF front, back
    <3>1. rest = front \o back
      BY DEF RemoveAt, front, back
    <3>2. /\ front \in Seq(Slot) /\ Len(front) = n - 1 /\ \A i \in 1..(n - 1) : front[i] = seq[i]
          /\ back \in Seq(Slot) /\ Len(back) = Len(seq) - n
          /\ \A i \in 1..(Len(seq) - n) : back[i] = seq[n + i]
      BY <2>4, <2>5 DEF front, back
    <3>3. /\ rest \in Seq(Slot) /\ Len(rest) = Len(front) + Len(back)
          /\ \A i \in 1..(Len(front) + Len(back)) :
                rest[i] = IF i <= Len(front) THEN front[i] ELSE back[i - Len(front)]
      BY <3>1, <3>2, ConcatProperties
    <3>4. DOMAIN rest = 1..Len(rest)
      BY <3>3, LenProperties
    <3> HIDE DEF rest
    <3>5. Len(rest) = Len(seq) - 1
      BY <3>2, <3>3, <2>3
    <3>6. ASSUME NEW i \in 1..(Len(seq) - 1)
          PROVE  rest[i] = IF i < n THEN seq[i] ELSE seq[i + 1]
      <4>0. rest[i] = IF i <= n - 1 THEN front[i] ELSE back[i - (n - 1)]
        BY <3>2, <3>3, <3>5, <2>3
      <4>1. CASE i < n
        BY <4>0, <4>1, <3>2, <2>3
      <4>2. CASE ~(i < n)
        <5>1. i - (n - 1) \in 1..(Len(seq) - n) /\ n + (i - (n - 1)) = i + 1
          BY <4>2, <2>3
        <5> QED BY <4>0, <4>2, <5>1, <3>2, <2>3
      <4> QED BY <4>1, <4>2
    <3> QED BY <3>3, <3>4, <3>5, <3>6
  <2> HIDE DEF rest
  <2>7. Once(rest)
    BY <2>3, <2>6 DEF Once
  <2>8. ASSUME NEW x PROVE x \in Members(rest) <=> x \in Members(seq) /\ x # s
    <3>1. ASSUME NEW i \in DOMAIN rest
          PROVE  \E j \in DOMAIN seq : j # n /\ rest[i] = seq[j]
      <4>1. CASE i < n
        <5>1. i \in DOMAIN seq /\ i # n /\ rest[i] = seq[i]
          BY <4>1, <2>3, <2>6
        <5> QED BY <5>1
      <4>2. CASE ~(i < n)
        <5>1. i + 1 \in DOMAIN seq /\ i + 1 # n /\ rest[i] = seq[i + 1]
          BY <4>2, <2>3, <2>6
        <5> QED BY <5>1
      <4> QED BY <4>1, <4>2
    <3>2. ASSUME NEW j \in DOMAIN seq, j # n
          PROVE  \E i \in DOMAIN rest : rest[i] = seq[j]
      <4>1. CASE j < n
        <5>1. j \in DOMAIN rest /\ rest[j] = seq[j]
          BY <4>1, <2>3, <2>6
        <5> QED BY <5>1
      <4>2. CASE j > n
        <5>1. j - 1 \in DOMAIN rest /\ rest[j - 1] = seq[j]
          BY <4>2, <2>3, <2>6
        <5> QED BY <5>1
      <4> QED BY <3>2, <4>1, <4>2, <2>3
    <3>3. x \in Members(rest) => x \in Members(seq) /\ x # s
      BY <3>1, <2>1 DEF Members, Once
    <3>4. x \in Members(seq) /\ x # s => x \in Members(rest)
      BY <3>2, <2>1 DEF Members
    <3> QED BY <3>3, <3>4
  <2> QED BY <2>2, <2>7, <2>8
<1> QED BY <1>1, <1>2

LEMMA OnceCounted ==
  ASSUME NEW seq, Once(seq)
  PROVE  Len(seq) = Cardinality(Members(seq))
<1>1. Len(seq) \in Nat /\ DOMAIN seq = 1..Len(seq) /\ seq \in [1..Len(seq) -> Members(seq)]
  <2>1. seq \in [1..Len(seq) -> Slot] /\ Len(seq) \in Nat /\ DOMAIN seq = 1..Len(seq)
    BY LenProperties DEF Once
  <2>2. \A i \in 1..Len(seq) : seq[i] \in Members(seq)
    BY <2>1 DEF Members
  <2> QED BY <2>1, <2>2
<1>2. seq \in Injection(1..Len(seq), Members(seq))
  BY <1>1 DEF Injection, IsInjective, Once
<1>3. seq \in Surjection(1..Len(seq), Members(seq))
  BY <1>1 DEF Surjection, Members
<1>4. ExistsBijection(1..Len(seq), Members(seq))
  BY <1>2, <1>3 DEF ExistsBijection, Bijection
<1> QED BY <1>1, <1>4, FS_CountingElements

\* Each line is the requests that stand in it.
Lines ==
    /\ Once(queue) /\ Members(queue) = In({"queued"})
    /\ Once(line) /\ Members(line) = In({"inLine"})

LEMMA LinesStart == Init => Lines
<1> SUFFICES ASSUME Init PROVE Lines
  OBVIOUS
<1>1. In({"queued"}) = {} /\ In({"inLine"}) = {}
  BY DEF Init, In
<1> QED BY <1>1, EmptyLine DEF Init, Lines

LEMMA LinesUnchanged ==
  ASSUME Lines, UNCHANGED <<queue, line>>,
         In({"queued"})' = In({"queued"}), In({"inLine"})' = In({"inLine"})
  PROVE  Lines'
BY DEF Lines, Once, Members

LEMMA LinesStep == Requests /\ Lines /\ [Next]_vars => Lines'
<1> SUFFICES ASSUME Requests, Lines, [Next]_vars PROVE Lines'
  OBVIOUS
<1>1. ASSUME NEW s \in Slot, Serve(s) PROVE Lines'
  <2>1. CASE Enqueue(s)
    <3>1. queue' = Append(queue, s) /\ line' = line /\ s \notin In({"queued"})
      BY <2>1 DEF Enqueue, In
    <3>2. In({"queued"})' = In({"queued"}) \cup {s} /\ In({"inLine"})' = In({"inLine"})
      BY <2>1 DEF Enqueue, Move, In, Requests
    <3>3. Once(Append(queue, s)) /\ Members(Append(queue, s)) = In({"queued"}) \cup {s}
      BY <3>1, AppendOnce DEF Lines
    <3>4. Once(queue') /\ Members(queue') = In({"queued"})'
      BY <3>1, <3>2, <3>3
    <3> QED BY <3>1, <3>2, <3>4 DEF Lines, Once, Members
  <2>2. CASE TakePermit(s)
    <3>1. /\ queue' = Tail(queue) /\ line' = Append(line, s) /\ Head(queue) = s
          /\ s \in In({"queued"}) /\ s \notin In({"inLine"})
      BY <2>2 DEF TakePermit, In
    <3>2. In({"queued"})' = In({"queued"}) \ {s} /\ In({"inLine"})' = In({"inLine"}) \cup {s}
      BY <2>2 DEF TakePermit, Move, In, Requests
    <3>3. queue # <<>>
      BY <3>1, EmptyLine DEF Lines
    <3>4. Once(queue') /\ Members(queue') = In({"queued"})'
      BY <3>1, <3>2, <3>3, TailOnce DEF Lines
    <3>5. Once(Append(line, s)) /\ Members(Append(line, s)) = In({"inLine"}) \cup {s}
      BY <3>1, AppendOnce DEF Lines
    <3>6. Once(line') /\ Members(line') = In({"inLine"})'
      BY <3>1, <3>2, <3>5
    <3> QED BY <3>4, <3>6 DEF Lines, Once, Members
  <2>3. CASE StartFetch(s)
    <3>1. line' = Tail(line) /\ queue' = queue /\ Head(line) = s /\ s \in In({"inLine"})
      BY <2>3 DEF StartFetch, In
    <3>2. In({"queued"})' = In({"queued"}) /\ In({"inLine"})' = In({"inLine"}) \ {s}
      BY <2>3 DEF StartFetch, Move, In, Requests
    <3>3. line # <<>>
      BY <3>1, EmptyLine DEF Lines
    <3>4. Once(line') /\ Members(line') = In({"inLine"})'
      BY <3>1, <3>2, <3>3, TailOnce DEF Lines
    <3> QED BY <3>1, <3>2, <3>4 DEF Lines, Once, Members
  <2>4. CASE ~Enqueue(s) /\ ~TakePermit(s) /\ ~StartFetch(s)
    <3>1. UNCHANGED <<queue, line>>
      BY <1>1, <2>4 DEF Serve, DiskHit, AnswerUnfetched, RefuseUrl, FetchDelivers, FetchFails,
          StoreLands, StoreLosesRace, StoreFails, pacer
    <3>2. /\ at[s] \in {"looking", "fetching", "storing"}
          /\ at' = [at EXCEPT ![s] = "idle"] \/ at' = [at EXCEPT ![s] = "storing"]
      BY <1>1, <2>4 DEF Serve, DiskHit, AnswerUnfetched, RefuseUrl, FetchDelivers, FetchFails,
          StoreLands, StoreLosesRace, StoreFails, Answer, Move
    <3>3. In({"queued"})' = In({"queued"}) /\ In({"inLine"})' = In({"inLine"})
      BY <3>2 DEF In, Requests
    <3> QED BY <3>1, <3>3, LinesUnchanged
  <2> QED BY <2>1, <2>2, <2>3, <2>4
<1>2. ASSUME NEW s \in Slot, Cancel(s) PROVE Lines'
  <2>1. queue' = Without(queue, s) /\ line' = Without(line, s)
    BY <1>2 DEF Cancel
  <2>2. In({"queued"})' = In({"queued"}) \ {s} /\ In({"inLine"})' = In({"inLine"}) \ {s}
    BY <1>2 DEF Cancel, Answer, Move, In, Requests
  <2>3. Once(queue') /\ Members(queue') = In({"queued"})'
    BY <2>1, <2>2, WithoutOnce DEF Lines
  <2>4. Once(line') /\ Members(line') = In({"inLine"})'
    BY <2>1, <2>2, WithoutOnce DEF Lines
  <2> QED BY <2>3, <2>4 DEF Lines, Once, Members
<1>3. ASSUME NEW s \in Slot, NEW k \in Wants[s], Ask(s, k) PROVE Lines'
  <2>1. /\ UNCHANGED <<queue, line>>
        /\ In({"queued"})' = In({"queued"}) /\ In({"inLine"})' = In({"inLine"})
    BY <1>3 DEF Ask, Move, In, Requests, pacer
  <2> QED BY <2>1, LinesUnchanged
<1>4. CASE Restart
  <2>1. queue' = <<>> /\ line' = <<>> /\ In({"queued"})' = {} /\ In({"inLine"})' = {}
    BY <1>4 DEF Restart, In
  <2> QED BY <2>1, EmptyLine DEF Lines, Once, Members
<1>5. CASE Tick \/ UNCHANGED vars
  <2>1. /\ UNCHANGED <<queue, line>>
        /\ In({"queued"})' = In({"queued"}) /\ In({"inLine"})' = In({"inLine"})
    BY <1>5 DEF Tick, vars, pacer, In
  <2> QED BY <2>1, LinesUnchanged
<1> QED BY <1>1, <1>2, <1>3, <1>4, <1>5 DEF Next

(* Every permit that is not free is held by a request in line or fetching, *)
(* and the two lines are the requests that wait in them, each once, for    *)
(* any number of requests cancelled at any await (Pacer.slot).             *)
THEOREM PermitsComeBack == Spec => []EveryPermitComesBack
<1>1. Init => Requests
  BY MemoryStart DEF MemoryInv
<1>2. Permits /\ Lines => EveryPermitComesBack
  BY OnceCounted DEF Permits, Lines, EveryPermitComesBack
<1> QED BY <1>1, <1>2, PermitsStart, PermitsStep, LinesStart, LinesStep, RequestsStep, PTL DEF Spec

-----------------------------------------------------------------------------
(* Types: what is left is the disk and the switch that turns its writes    *)
(* off; the rest of TypeOK is in the invariants above.                     *)

Store ==
    /\ disk \in SUBSET Key
    /\ badWrites \in 0..WriteLimit
    /\ writesOff \in BOOLEAN

LEMMA StoreStep == Requests /\ Store /\ [Next]_vars => Store'
<1> SUFFICES ASSUME Requests, Store, [Next]_vars PROVE Store'
  OBVIOUS
<1> USE DEF Store
<1>1. ASSUME NEW s \in Slot, Serve(s) PROVE Store'
  <2>1. CASE StoreLands(s)
    <3>1. key[s] \in Key
      BY <2>1 DEF StoreLands, Requests
    <3> QED BY <2>1, <3>1, BoundsAssumption DEF StoreLands
  <2>2. CASE StoreFails(s)
    <3>1. AtMost(badWrites + 1, WriteLimit) \in 0..WriteLimit
      BY BoundsAssumption DEF AtMost
    <3>2. disk' = disk /\ writesOff' \in BOOLEAN
      BY <2>2 DEF StoreFails
    <3> QED BY <2>2, <3>1, <3>2 DEF StoreFails
  <2>3. CASE ~StoreLands(s) /\ ~StoreFails(s)
    <3>1. UNCHANGED store
      BY <1>1, <2>3 DEF Serve, DiskHit, AnswerUnfetched, RefuseUrl, Enqueue, TakePermit,
          StartFetch, FetchDelivers, FetchFails, StoreLosesRace, store
    <3> QED BY <3>1 DEF store
  <2> QED BY <2>1, <2>2, <2>3
<1>2. ASSUME NEW s \in Slot, Cancel(s) PROVE Store'
  <2>1. at[s] # "idle" /\ UNCHANGED <<badWrites, writesOff>>
    BY <1>2 DEF Cancel
  <2>2. disk' = disk \/ disk' = disk \cup {key[s]}
    BY <1>2 DEF Cancel
  <2>3. key[s] \in Key
    BY <2>1 DEF Requests
  <2> QED BY <2>1, <2>2, <2>3
<1>3. ASSUME NEW s \in Slot, NEW k \in Wants[s], Ask(s, k) PROVE Store'
  BY <1>3 DEF Ask, store
<1>4. CASE Restart
  <2>1. \A s \in In({"storing"}) : key[s] \in Key
    BY DEF In, Requests
  <2>2. disk' \in SUBSET Key
    BY <1>4, <2>1 DEF Restart
  <2>3. 0 \in 0..WriteLimit
    BY BoundsAssumption
  <2> QED BY <1>4, <2>2, <2>3 DEF Restart
<1>5. CASE Tick \/ UNCHANGED vars
  BY <1>5 DEF Tick, vars, store
<1> QED BY <1>1, <1>2, <1>3, <1>4, <1>5 DEF Next

(* Every variable keeps its type, for any requests, keys and times: the    *)
(* counts of the pacer within their limits, the delays within the ceiling, *)
(* and a slot without a request without a key.                             *)
THEOREM TypeCorrect == Spec => []TypeOK
<1>1. Init => Store
  <2>1. 0 \in 0..WriteLimit
    BY BoundsAssumption
  <2> QED BY <2>1 DEF Init, Store
<1>2. Init => Requests
  BY MemoryStart DEF MemoryInv
<1>3. ClockInv /\ MemoryInv /\ Permits /\ Lines /\ Store => TypeOK
  <2> SUFFICES ASSUME ClockInv, MemoryInv, Permits, Lines, Store PROVE TypeOK
    OBVIOUS
  <2>1. free \in 0..Limit
    <3>1. Cardinality(In(Holding)) \in Nat
      BY FS_CardinalityType DEF Permits
    <3> QED BY <3>1, LimitAssumption DEF Permits
  <2>2. gap \in 0..Spacing
    BY SpacingAssumption DEF ClockInv
  <2> QED BY <2>1, <2>2 DEF TypeOK, ClockInv, MemoryInv, Requests, Memory, Lines, Once, Store
<1> QED BY <1>1, <1>2, <1>3, ClockStart, ClockStep, MemoryStart, MemoryStep, PermitsStart,
    PermitsStep, LinesStart, LinesStep, RequestsStep, StoreStep, PTL DEF Spec
=============================================================================
