------------------------------ MODULE ImageProxy ------------------------------
(***************************************************************************)
(* GET /api/card-image: the one route that reaches the internet            *)
(* (read_card_image in src/companion/app/routes/cards.py) with its pacer,  *)
(* its disk cache and its memory of failures (src/companion/app/images.py).*)
(*                                                                         *)
(* A slot is a request being served; it is idle between two requests.  One *)
(* action is what the event loop runs between two awaits.  Time is counted *)
(* in ticks and kept relative: `gap' is what is left of the spacing, `wait'*)
(* what is left of a backoff window (negative once it has closed).  The    *)
(* bytes, the face and the size are part of a key.                         *)
(***************************************************************************)
EXTENDS Integers, FiniteSets, SequencesExt

CONSTANTS
    Slot,        \* requests in service at once
    Key,         \* card id, size and face
    NoKey,       \* the key of an idle slot
    Wants,       \* bound: slot -> the images it may be asked for
    Limit,       \* FETCH_CONCURRENCY
    Spacing,     \* FETCH_SPACING_SECONDS, in ticks
    Base, Multiplier, Ceiling,  \* NEGATIVE_CACHE_*, in ticks
    MaxEntries,  \* NEGATIVE_CACHE_MAX_ENTRIES
    WriteLimit   \* DISK_CACHE_WRITE_FAILURE_LIMIT

ASSUME KeyAssumption == NoKey \notin Key /\ Wants \in [Slot -> SUBSET Key]
ASSUME LimitAssumption == Limit \in Nat \ {0}
ASSUME SpacingAssumption == Spacing \in Nat \ {0}
ASSUME BackoffAssumption ==
    Base \in Nat \ {0} /\ Multiplier \in Nat \ {0} /\ Ceiling \in Nat \ {0}
ASSUME BoundsAssumption ==
    MaxEntries \in Nat \ {0} /\ WriteLimit \in Nat \ {0}

VARIABLES
    at,         \* slot -> the await its request stands at
    key,        \* slot -> the image it was asked for
    free,       \* permits of the semaphore nobody holds
    queue,      \* slots waiting for a permit, in order
    line,       \* slots with a permit waiting for the turnstile, in order
    gap,        \* ticks until the pacer's _next_start
    memory,     \* the negative cache: remembered key -> its delay and wait
    disk,       \* keys whose image is on disk
    badWrites,  \* consecutive failed writes, up to WriteLimit
    writesOff,  \* DiskCache._writes_disabled
    since,      \* history: ticks since the last start, up to Spacing
    earned      \* history: key -> the delay its failures since a success have earned

pacer == <<free, queue, line, gap>>
store == <<disk, badWrites, writesOff>>
history == <<since, earned>>
vars == <<at, key, pacer, memory, store, history>>

Phase == {"idle", "looking", "queued", "inLine", "fetching", "storing"}
Holding == {"inLine", "fetching"}
In(phases) == {s \in Slot : at[s] \in phases}
Members(seq) == {seq[i] : i \in DOMAIN seq}
Without(seq, s) ==
    IF s \in Members(seq) THEN RemoveAt(seq, CHOOSE i \in DOMAIN seq : seq[i] = s) ELSE seq
AtMost(n, top) == IF n < top THEN n ELSE top
AtLeast(n, bottom) == IF n > bottom THEN n ELSE bottom

\* The delay after the first failure, and after one more.
First == AtMost(Base, Ceiling)
Doubled(delay) == AtMost(delay * Multiplier, Ceiling)

RememberedFailure == [delay: 1..Ceiling, wait: (-Ceiling)..Ceiling]

Init ==
    /\ at = [s \in Slot |-> "idle"]
    /\ key = [s \in Slot |-> NoKey]
    /\ free = Limit
    /\ queue = <<>> /\ line = <<>>
    /\ gap = 0
    /\ memory = << >>
    /\ disk \in SUBSET Key
    /\ badWrites = 0 /\ writesOff = FALSE
    /\ since = Spacing
    /\ earned = [k \in Key |-> 0]

-----------------------------------------------------------------------------
(* The memory of failures. *)

BackingOff(k) == k \in DOMAIN memory /\ memory[k].wait > 0

\* Mutants: pruning at the end of the window; recording without room.
KeptInWindow == {k \in DOMAIN memory : memory[k].wait > 0}

\* Entries a full ceiling past their window are forgotten at the next record.
Kept == {k \in DOMAIN memory : memory[k].wait > -Ceiling}

\* What a record must evict: of the entries that expire first, the oldest one;
\* which of them that is, is left open.
Evictions(k) ==
    IF k \in Kept \/ Cardinality(Kept) < MaxEntries THEN {{}}
    ELSE {{j} : j \in {i \in Kept : \A h \in Kept : memory[i].wait <= memory[h].wait}}

\* Mutant: the doubling passes its ceiling.
NextDelayUnclamped(k) ==
    IF k \in Kept THEN memory[k].delay * Multiplier ELSE First

NextDelay(k) ==
    IF k \in Kept THEN Doubled(memory[k].delay) ELSE First

RecordFailure(k) ==
    /\ \E evicted \in Evictions(k) :
          memory' = [j \in (Kept \ evicted) \cup {k} |->
                        IF j = k THEN [delay |-> NextDelay(k), wait |-> NextDelay(k)]
                        ELSE memory[j]]
    /\ earned' = [earned EXCEPT ![k] = IF @ = 0 THEN First ELSE Doubled(@)]

\* Mutant: clearing ends the window and keeps the delay.
ForgetWindowOnly(k) ==
    /\ memory' = [j \in DOMAIN memory |->
                     IF j = k THEN [memory[j] EXCEPT !.wait = AtMost(@, 0)] ELSE memory[j]]
    /\ earned' = [earned EXCEPT ![k] = 0]

\* clear(): the history goes with the window.
Forget(k) ==
    /\ memory' = [j \in DOMAIN memory \ {k} |-> memory[j]]
    /\ earned' = [earned EXCEPT ![k] = 0]

-----------------------------------------------------------------------------
(* A request, await by await. *)

Move(s, phase) == at' = [at EXCEPT ![s] = phase]
Answer(s) == Move(s, "idle") /\ key' = [key EXCEPT ![s] = NoKey]

\* The route hands the disk read to a worker thread and, on a miss, awaits the
\* card row; what other requests do meanwhile is seen at the end.
Ask(s, k) ==
    /\ at[s] = "idle"
    /\ Move(s, "looking")
    /\ key' = [key EXCEPT ![s] = k]
    /\ UNCHANGED <<pacer, memory, store, history>>

\* A warm entry is the answer.
DiskHit(s) ==
    /\ at[s] = "looking" /\ key[s] \in disk
    /\ Answer(s)
    /\ UNCHANGED <<pacer, memory, store, history>>

\* No row, no image, no database, or a key whose window is open: answered
\* without a request and without a record.
AnswerUnfetched(s) ==
    /\ at[s] = "looking"
    /\ Answer(s)
    /\ UNCHANGED <<pacer, memory, store, history>>

\* A URL outside the allow-list is refused before the pacer, and is a failure.
RefuseUrl(s) ==
    /\ at[s] = "looking" /\ ~BackingOff(key[s])
    /\ Answer(s)
    /\ RecordFailure(key[s])
    /\ UNCHANGED <<pacer, store, since>>

\* A miss, which an entry that cannot be read or was stored since is too.
Enqueue(s) ==
    /\ at[s] = "looking" /\ ~BackingOff(key[s])
    /\ Move(s, "queued")
    /\ queue' = Append(queue, s)
    /\ UNCHANGED <<key, free, line, gap, memory, store, history>>

\* The semaphore wakes its waiters in order; the permit is taken before the
\* turn.
TakePermit(s) ==
    /\ at[s] = "queued" /\ Head(queue) = s
    /\ free > 0
    /\ Move(s, "inLine")
    /\ free' = free - 1
    /\ queue' = Tail(queue)
    /\ line' = Append(line, s)
    /\ UNCHANGED <<key, gap, memory, store, history>>

\* The turnstile's holder claims the next start once its wait is over, which
\* may be later than it asked for.
StartFetch(s) ==
    /\ at[s] = "inLine" /\ Head(line) = s
    /\ gap = 0
    /\ Move(s, "fetching")
    /\ line' = Tail(line)
    /\ gap' = Spacing
    /\ since' = 0
    /\ UNCHANGED <<key, free, queue, memory, store, earned>>

\* The exchange delivers: the permit comes back, the history is forgotten, and
\* the image is stored unless writes are off or its type is not kept.
FetchDelivers(s) ==
    /\ at[s] = "fetching"
    /\ free' = free + 1
    /\ Forget(key[s])
    /\ \/ ~writesOff /\ Move(s, "storing") /\ UNCHANGED key
       \/ Answer(s)
    /\ UNCHANGED <<queue, line, gap, store, since>>

\* Mutant: the permit is released on success only.
FetchFailsHolding(s) ==
    /\ at[s] = "fetching"
    /\ RecordFailure(key[s])
    /\ Answer(s)
    /\ UNCHANGED <<pacer, store, since>>

\* The exchange fails, at the latest at its deadline.
FetchFails(s) ==
    /\ at[s] = "fetching"
    /\ free' = free + 1
    /\ RecordFailure(key[s])
    /\ Answer(s)
    /\ UNCHANGED <<queue, line, gap, store, since>>

StoreLands(s) ==
    /\ at[s] = "storing"
    /\ disk' = disk \cup {key[s]}
    /\ badWrites' = 0
    /\ Answer(s)
    /\ UNCHANGED <<pacer, memory, writesOff, history>>

\* The loser of a race to a key that is there counts neither way.
StoreLosesRace(s) ==
    /\ at[s] = "storing" /\ key[s] \in disk
    /\ Answer(s)
    /\ UNCHANGED <<pacer, memory, store, history>>

StoreFails(s) ==
    /\ at[s] = "storing"
    /\ badWrites' = AtMost(badWrites + 1, WriteLimit)
    /\ writesOff' = (writesOff \/ badWrites + 1 >= WriteLimit)
    /\ Answer(s)
    /\ UNCHANGED <<pacer, memory, disk, history>>

-----------------------------------------------------------------------------
(* The environment. *)

\* Mutant: a permit held by hand leaks.
CancelLeaking(s) ==
    /\ at[s] # "idle"
    /\ Answer(s)
    /\ queue' = Without(queue, s)
    /\ line' = Without(line, s)
    /\ UNCHANGED <<free, gap, disk, memory, badWrites, writesOff, history>>

\* Mutant: the cancelled claims its turn.
CancelClaiming(s) ==
    /\ at[s] # "idle"
    /\ Answer(s)
    /\ free' = IF at[s] \in Holding THEN free + 1 ELSE free
    /\ gap' = IF at[s] = "inLine" THEN Spacing ELSE gap
    /\ queue' = Without(queue, s)
    /\ line' = Without(line, s)
    /\ UNCHANGED <<disk, memory, badWrites, writesOff, history>>

\* A request is cancelled at its await.  `async with' returns what it held; a
\* caller asleep in the turnstile has claimed no turn; nothing is recorded.  A
\* write already in its thread may still land.
Cancel(s) ==
    /\ at[s] # "idle"
    /\ Answer(s)
    /\ free' = IF at[s] \in Holding THEN free + 1 ELSE free
    /\ queue' = Without(queue, s)
    /\ line' = Without(line, s)
    /\ \/ UNCHANGED disk
       \/ at[s] = "storing" /\ disk' = disk \cup {key[s]}
    /\ UNCHANGED <<gap, memory, badWrites, writesOff, history>>

\* A new process: nothing survives but the disk.
Restart ==
    /\ at' = [s \in Slot |-> "idle"] /\ key' = [s \in Slot |-> NoKey]
    /\ free' = Limit /\ queue' = <<>> /\ line' = <<>>
    /\ gap' = 0 /\ since' = Spacing
    /\ memory' = << >> /\ earned' = [k \in Key |-> 0]
    /\ badWrites' = 0 /\ writesOff' = FALSE
    /\ \E landed \in SUBSET {key[s] : s \in In({"storing"})} : disk' = disk \cup landed

Tick ==
    /\ gap' = AtLeast(gap - 1, 0)
    /\ since' = AtMost(since + 1, Spacing)
    /\ memory' = [k \in DOMAIN memory |->
                     [memory[k] EXCEPT !.wait = AtLeast(@ - 1, -Ceiling)]]
    /\ UNCHANGED <<at, key, free, queue, line, store, earned>>

Serve(s) ==
    \/ DiskHit(s) \/ AnswerUnfetched(s) \/ RefuseUrl(s) \/ Enqueue(s)
    \/ TakePermit(s) \/ StartFetch(s)
    \/ FetchDelivers(s) \/ FetchFails(s)
    \/ StoreLands(s) \/ StoreLosesRace(s) \/ StoreFails(s)

Next ==
    \/ \E s \in Slot : Serve(s) \/ Cancel(s) \/ \E k \in Wants[s] : Ask(s, k)
    \/ Restart
    \/ Tick

\* Awaits end (the exchange by its deadline, the rest by the event loop) and
\* the clock advances; nobody has to ask, cancel or restart.
Fairness == WF_vars(Tick) /\ \A s \in Slot : WF_vars(Serve(s))
Spec == Init /\ [][Next]_vars /\ Fairness

-----------------------------------------------------------------------------
(* Properties. *)

TypeOK ==
    /\ at \in [Slot -> Phase]
    /\ key \in [Slot -> Key \cup {NoKey}]
    /\ \A s \in Slot : key[s] = NoKey <=> at[s] = "idle"
    /\ free \in 0..Limit
    /\ queue \in Seq(Slot) /\ line \in Seq(Slot)
    /\ gap \in 0..Spacing
    /\ DOMAIN memory \subseteq Key
    /\ \A k \in DOMAIN memory : memory[k] \in RememberedFailure
    /\ disk \in SUBSET Key
    /\ badWrites \in 0..WriteLimit
    /\ writesOff \in BOOLEAN
    /\ since \in 0..Spacing
    /\ earned \in [Key -> 0..Ceiling]

\* Whatever is cancelled, refused or fails, at whatever await, the permits not
\* free are held by the requests in line or fetching, and the two lines are
\* those requests and the queued ones, each once (Pacer.slot).
EveryPermitComesBack ==
    /\ free + Cardinality(In(Holding)) = Limit
    /\ Members(queue) = In({"queued"}) /\ Len(queue) = Cardinality(In({"queued"}))
    /\ Members(line) = In({"inLine"}) /\ Len(line) = Cardinality(In({"inLine"}))

\* The next start is due exactly Spacing after the last start that happened:
\* cancelled turns cost nothing and late starts do not let two follow closely
\* (Pacer._wait_for_turn).
StartsAreSpaced == gap = Spacing - since

\* The memory of failures is bounded (NegativeCache.record_failure).
MemoryIsBounded == Cardinality(DOMAIN memory) <= MaxEntries

\* A key never backs off for longer than its failures since its last success
\* have earned, in whatever order overlapping fetches of it end (the try and
\* the clear of read_card_image).
BackoffIsEarned == \A k \in DOMAIN memory : memory[k].delay <= earned[k]

BackoffIsSound == MemoryIsBounded /\ BackoffIsEarned

\* An outage is not forgotten between two attempts: an entry less than a
\* ceiling past its window goes only because its key was delivered, because
\* another key took its place, or with the process (NegativeCache._forget_stale).
OutagesAreRemembered ==
    [][\A k \in DOMAIN memory : memory[k].wait > -Ceiling =>
          \/ k \in DOMAIN memory' /\ memory'[k].delay >= memory[k].delay
          \/ \E s \in Slot : key[s] = k /\ at[s] = "fetching" /\ earned'[k] = 0
          \/ Cardinality(DOMAIN memory') = MaxEntries /\ ~(DOMAIN memory' \subseteq DOMAIN memory)
          \/ Restart]_vars

\* Every request is answered, whatever the others do: no lost permit, no stuck
\* turnstile, no deadlock of the two.
EveryRequestIsAnswered == \A s \in Slot : at[s] # "idle" ~> at[s] = "idle"

\* A failing key is fetchable again and again, however often it is asked for
\* meanwhile: nothing but a real attempt extends a window.
KeysStayRetriable == \A k \in Key : []<>~BackingOff(k)

ImagesStayAvailable == EveryRequestIsAnswered /\ KeysStayRetriable
=============================================================================
