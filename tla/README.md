# Artificial Planeswalker: models, checks and proofs

The repository is an assistant for Magic: the Gathering decks. An agent talks to
an MCP server (`src/src/mcp_server`) that searches cards, edits decks in a SQLite
database, imports the card catalogue and builds a semantic index over it. A second
program, the *companion* (`src/src/companion`), is a loopback web backend that shows
the deck the agent works on to a browser tab (`ui/`), the *glass*. Much of the code
is sequential and well tested. What is hard to test is what happens between: several
operating-system processes over one database and one discovery file, an asyncio event
loop with many coroutines, and a browser tab whose requests, timers, listeners and
frames arrive in any order. The modules here are about that part. Paths below are
relative to the repository root; `app/` stands for `src/companion/app/` in the
Python tree.

## 1. Inventory

| Component | State | Operations | What must be right |
|---|---|---|---|
| Tickets (`app/state.py`, `routes/session.py`) | map ticket -> deadline | mint with expiry and eviction; consume pops on every path | a ticket opens one socket; the map stays bounded |
| Upgrade, registry, fan-out (`app/ws.py`) | registered sockets; the snapshot each broadcast walks | handshake, accept, register, drain; broadcast with awaited sends, drop, close | only served sockets registered; no registered client skipped; a dropped client learns of it |
| Active-deck slot and agent routes (`routes/active_deck.py`, `agent_events.py`) | one deck id | PUT, GET, relay | an answer is about its own request |
| Launch, lock, discovery (`app/server.py`, `singleton.py`, `main.py`, `companion/discovery.py`) | kernel lock, bound port, `companion.json` | probe, lock, bind, publish, serve, retract | one companion; the file names it while it serves |
| Leaf client (`companion/client.py`) | none between calls | push with one retry after a 403, probe | at most one delivery; a truthful outcome |
| Read routes and database holder (`app/deps.py`, `errors.py`, `routes/`) | a lazy engine | decks, deck, cards | a refusal is reported as one |
| Image proxy (`app/images.py`, `routes/cards.py`) | pacer, negative cache, disk cache | fetch once, pace, remember failures | no thundering herd, no partial file |
| UI socket loop (`ui/src/state/socket.ts`) | generation, backoff, run of failures | start, stop, fail, succeed | one socket; always retrying; `down` only when earned |
| UI deck boot (`ui/src/state/deck.ts`) | generation, settled, re-drive, probe flags | start, refetch, settle, listen | never a stale or stranded glass |
| UI decks poll (`ui/src/state/poller.ts`, `systemState.ts`) | generation, timer, last emission | start, stop, apply, schedule | one chain; retries while its panel says so |
| UI wiring (`ui/src/state/connection.ts`) | none of its own | onStatus, onReconnected, system events | every announced change is re-read |
| UI card cache (`ui/src/state/cards.ts`) | an entry per card, reads in flight, attempts | hydrate, settle, seed, give budgets back | an entry says what is being done; knowledge is kept |
| UI agent views (`ui/src/state/agentView.ts`) | the view on the glass, last push per kind, unread marks, history | arrive, dismiss, reopen, revisit | the pill holds the latest; the history is bounded and ranked |
| MCP deck tools and deck repository (`src/mcp_server/tools`, `src/data/repositories/deck.py`) | decks, rows, stored colour identity | add, set, remove, import, create, clone, update, delete, merge, re-read | identity is the union over the rows; answers are true |
| Import, marker, reconcile, sweep (`src/data`, `initialize_database.py`) | cards, marker, deck rows | batched import, kill, resume, clear, repoint, sweep | an interrupted import is resumable and loses no card and no deck row |
| Semantic index (`src/search`, `build_search_index.py`) | vectors, filter columns, hashes | build in chunks, rebuild, prune | a vector is current or will be rebuilt |
| Combo snapshot (`src/data`) | snapshot tables | replace in one transaction | all or nothing |
| Deck analysis, power assessment (`src/logic`) | none | pure functions | rule tables |

**How they interact.** The agent's tool edits a deck, commits, and calls the leaf
client, which reads `companion.json`, and pushes to the backend with the token it
found there. The backend writes a slot and fans a frame out to every registered
socket. The frame carries no content: the tab answers it with HTTP reads. In the
tab, answers run synchronous chains through stores that listen to each other
(a poll answer may restart the boot, a boot answer may restart the poll).

The tools, the import and the index builder are separate sessions and processes over
one SQLite file: what keeps them apart is its write transaction, and nothing else.

**Hard behaviours.** (a) Frames, HTTP answers and reconnects race in the tab, with
cancellation by generation counters. (b) Broadcasts overlap with each other and
with disconnects while each send is awaited. (c) Launches, shutdowns and kills
race over three resources (lock, port, file) that are given up in steps.
(d) Retries of a push race with a restart of the backend. (e) The backend forgets
the slot when it dies. (f) The database refuses reads while an import holds it.
(g) Image requests are cancelled at every await while they hold or wait for
permits. (h) Imports and index builds are killed between commits and resumed, and
two of them may overlap. (i) Tools read, another session commits, the tools write.
`PROJECT.json` lists forty such hazards at the lines where they bite; the two that no
property covers say why.

## 2. Modules and how they correspond to the code

| Module | Role | Code |
|---|---|---|
| `TicketStore` | the ticket map, one action per method | `state.py` `TicketStore` |
| `CompanionBackend` | extends it with the upgrade handler, registry, slot and fan-out | `ws.py`, `routes/active_deck.py`, `agent_events.py`, `session.py` |
| `Launch` | any number of launches, deaths, foreign programs and pushes | `server.py`, `singleton.py`, `main.py`, `discovery.py`, `client.py` |
| `ImageProxy` | requests for images, the pacer, the disk cache, the memory of failures | `images.py`, `routes/cards.py` |
| `GlassTab` | one tab as a record and functions on it; no variables | `deck.ts`, `poller.ts`, `systemState.ts`, `connection.ts` |
| `Glass` | composes a tab with a backend, a database and the wire | the same, with `companion/app` as the tab sees it |
| `DeckDisplay` | the abstract promise that `Glass` implements | what `deck.ts` and `connection.ts` do for the glass |
| `AgentSocket` | the reconnect loop with its time | `socket.ts`, `api/client.ts` |
| `AgentViews` | views, pills, unread marks, history | `agentView.ts` |
| `CardCache` | entries, reads in flight, attempts | `cards.ts` |
| `Panels` | composes the two above: a view that mounts hydrates its cards | `connection.ts`, `AgentView.tsx`, `CardDetail.tsx` |
| `Library` | imports, the marker, the reconcile, the sweep, beside a deck tool | `initialize_database.py`, `scryfall.py`, `import_state.py`, `database.py` |
| `DeckEdits` | deck tools of several sessions over the deck repository | `deck_management.py`, `deck_import.py`, `repositories/deck.py` |
| `SemanticIndex` | overlapping builds of the index beside an import | `index_builder.py`, `schema.py`, `build_search_index.py` |
| `CompanionBackendProofs`, `GlassProofs`, `ImageProxyProofs`, `AgentSocketProofs`, `PanelsProofs`, `LibraryProofs`, `DeckEditsProofs`, `SemanticIndexProofs` | theorems about the module each is named after, the first also about `Launch` | |
| `MC*` | model values and symmetry for TLC | |

### CompanionBackend
One process, one event loop: an action is what runs between two awaits. `conn[c]`
is where the upgrade handler of one connection stands, `phase[r]` where the
handler of one request stands. `_handshake_is_authorised` never suspends, so the
pop of the ticket and the verdict are one step; `accept()` and every send suspend.
A broadcast walks a snapshot (`todo`), and a send to a peer that left may succeed,
because the transport buffers it, or fail. Two overlapping broadcasts writing to
one socket may make either fail (`Contended`). `written` and `snap` are history.
Left out: the agent-token and body filters, and the 1011 path of a missing store,
a wiring fault. The tie in the earliest-deadline eviction is left open.
`Authorise` and the two refusals also stand for connections from other pages.
No liveness is claimed: a slow client stalls the whole fan-out, as the docstring of
`ws.py` says.

### Launch
`pc[p]` is where `run()` stands, from the probe through lock, bind, publish,
listen, and back. `remove_discovery` is two steps (`ReadBack`, `Unlink`), as
in the code, so another launch could come between. `Die` is allowed at every
step: the kernel frees the lock and the port, the file stays. Foreign programs take
and leave ports. A push is read, attempt, and one more after a 403; `backend_error`
covers a lost answer. `no_clients_connected` is folded into `displayed`. An
application served without `run()` (in tests) holds no lock and is outside.

### ImageProxy
A *slot* is a request in service. Its phase is the await it stands at: the look at
the disk, the semaphore (`queue`), the turnstile of the pacer (`line`, a permit in
hand), the exchange, the write. `Cancel` is allowed at each of them, and so is
`Restart`, which keeps nothing but the disk. Single flight is not in the code and
so not here: two requests for one image may fetch it twice, which is what makes the
order of a success and a failure of one key interesting. Time is relative: `gap` is
what is left of the spacing, `wait` what is left of a backoff window, negative once
it has closed, down to a ceiling past it, where `_forget_stale` drops the entry.
`earned`, the delay a key's failures since its last success have earned, and `since`
are history. A write to disk may be cancelled in its thread and
still land. Bytes, URLs, sizes and content types are part of a key or of an outcome.

### GlassTab and Glass
TypeScript between two awaits is a function on the tab record, so the synchronous
chains are compositions of functions and nothing can come between; each answer
that is heard, frame that is delivered and timer that fires is one action of
`Glass`. A generation counter is modelled by what it tells apart: a request keeps
`current` until its generation is bumped. Superseded requests that have no answer
yet are left out, because nothing they bring is used. `slots` is the history of
the slot, so an answer carries its place in it (`turn`) and staleness can be
stated. A frame says only that something changed. When the backend dies any suffix
of what is on the wire is lost.

Abstractions: one tab; the database refuses reads only with `database_unavailable`;
the poll's clock is dropped, and the stalled panel is possible once an earlier
refusal was seen by the same poll (more behaviours than four refusals in 60 s); a
read that times out on a live server, StrictMode's double mount and deck names are
left out; the notifications owed for one deck are merged.

### AgentSocket
What the loop has outstanding is a set of tries (timer, mint, socket), each created
under a generation. Time is in units of 2 s, the base delay. A mint may take up to
`ReadTimeout`; a timer may fire after a sleep of any length, and a handshake may
hang for any time, both of which end up as `elapsed = DownAfter`. `lag` remembers
which of these stretched the current run of failures. A handshake that fails
synchronously inside the constructor is left out.

### AgentViews, CardCache, Panels
`AgentViews` has one action per exported function of `agentView.ts`. The code tells
two deliveries of one envelope apart by object identity, which `ref`, the number of
the arrival, stands for; timestamps may tie, come out of order or not parse.
`sent` and `arrived` are history. `CardCache` has one action per function of
`cards.ts` that changes the store; a read settles with a record, a refusal under a
wire token, or nothing. Its answer is put in one microtask and its promise taken out of
the map in a later one (`cards.ts:297-307`), so these are two steps: `settled` are the
cards in between, which a further request joins instead of asking again. `Panels` conjoins them: in React the write to the store, the
commit and the mount effect run in one task, so a push that arrives and the
hydration of its cards are one step. Facts met on the way, none of them called wrong
by a doc: looking at an older push clears the unread mark of a newer one of its kind;
re-opening from its pill a push that fell off the history files it again; after a
reconnect the blank id's entry is marked retryable although it is always refused
locally. `resetCardCache` is reached by tests only.

### Library
`at[r]` is where a call of `initialize_database` stands. `Begin` takes the count that
decides, much later, what a failure may clear; `Download` writes the marker; each
`Batch` is a commit; `PlanReconcile` scans outside the write transaction and
`ApplyReconcile` writes what was planned; then the marker goes. `Fail` and `Kill` are
allowed at every step; a failed first run clears the table, unless foreign keys of a
deck refuse it. A deck tool of another session is two steps, gate-and-resolve and
commit, because `Ready` is read before the transaction. `Sweep` is what every new
connection does to dangling rows. Cards are printings, each of an identity: what a
reconcile must preserve is copies per identity. An edit between the plan and the
apply of a reconcile can change copies; `ReconcileKeepsCopies` says so in its
condition. The union of games, parsing and transforming are data.

### DeckEdits
SQLite begins the transaction of a session at its first write, so a request is: the
reads of the tool (one step), the reads of the repository before its first write, the
write with the refresh and the commit (one step), and the re-read after the commit,
which may fail or find the deck or the row gone. ORM instances are not kept from a
read to a later write, so the identity that is stored is computed after the flush.
A merge is the exception: it plans from two reads, writes row by row in a transaction
each, and closes in three steps (`CloseMerge`, `JoinColours`, `StampMerge`), the last
of which stamps an identity read before. Such a deck, when somebody wrote in between,
is `overtaken`, and so is a clone of it (`dubious` while the copy is made). `landed`
and `quiet` are history. "raised" stands for an exception after the commit: it
answers nothing. `get_deck_with_cards`, two statements, is one step. The 250-copies
check is absent from a merge, as in the code.

An import answers `partial` whenever one of its lines was not added
(`deck_import.py:551-553`), and has mostly committed the others by then: `told` are the
lines it reports as added, `short` says that there are others, be it because the deck
holds the card, because a line repeats another or because it names nothing (`others`
stands for these last two and for lines that were not read). So `partial` is not among
the refusals, and `AnswersAreTrue` asks of it one commit if something was reported as
added and none if nothing was. A bulk write that meets another session's row answers
`error` and adds nothing.

Nothing keeps a merge from being overtaken. What the code does promise then is
`MergeSparesTheUnread`: a row that another session has added meanwhile is not written
over (the key stops the merge), and a row that is there changes only where the merge had
read the card in both decks, to what its strategy says of the two. A quantity set
meanwhile of such a row is lost to the merge, and a sum may pass the 250 copies the tools
allow: the code promises neither, and no property does.

### SemanticIndex
Each commit and each read of `build_card_embeddings` is an action. A build loads the
hashes, then the filter columns, then the cards; each chunk is one transaction that
replaces vectors and hashes together; a prune reads the living, then the indexed, and
deletes. `ImportWrites` changes, adds or removes cards in between: the batches of an
import (`importer.py`) and the deletes of a reconcile (`scryfall.py`), one card at a time
and in any order, which is more than these do (`Library` has them as they are). A chunk
writes the filter columns with a new vector or into the row of an old one (`Filtered`).
A card is the text
that is embedded, which its hash stands for, and the filter columns, which the hash
does not cover. A chunk may succeed although another writer committed meanwhile: more
behaviours than the code has. `torn` says that a rebuild was cut short or that builds
overlapped: an overlap can leave a vector without a hash, which later plain builds
trip over with a UNIQUE failure.

## 3. Runs

| Run | Properties | Bounds and distinct states |
|---|---|---|
| `backend` | `TicketsAreSound` (single use, resident bound), `FanoutIsSound` (only served sockets, no missed frame, no deaf tab), `AnswersAreTrue` | 3 tickets in a map of 2, 2 connections, 2 overlapping requests, 2 decks, TTL 1 of 3 instants; 265,691 |
| `glass` | `ChainsAreAccountable`, `RestingGlassIsCurrent`, `PromisesAreKept`, `NoStalePaint` | 2 decks, one set, one edit, one spell of refusals with escalation, one death, one dropped socket, a death or a spell but not both (`MaxFaults`); 2,056,540 |
| `glass_converges` | `RefinesDisplay`, `GlassConverges` | two sets, one death or one spell of refusals (`MaxFaults`), with fairness; 633,167 |
| `launch` | `OneCompanion`, `ServingIsDiscoverable`, `PushAtMostOnce` | 3 launches, 2 ports, one push, any deaths; 201,012 |
| `socket` | `SocketsAreAccounted`, `DownIsEarned`, `Reconnects` | the real constants in units of 2 s, failures up to 7, two starts; 10,358 |
| `images` | `EveryPermitComesBack`, `StartsAreSpaced`, `BackoffIsSound`, `OutagesAreRemembered`, `ImagesStayAvailable` | 3 requests for 2 images (`Wants`), 2 permits, a memory of one entry, a ceiling of 2 ticks, any number of cancellations and restarts; 309,305 |
| `library` | `ReadyMeansComplete`, `NothingIsLost`, `RowsAreSafe` | one run at a time, begun again without limit, 4 printings of 2 identities, one board, `MaxCopies` 2; 758,666 |
| `library_overlap` | expected violation of `ReadyMeansComplete` | two runs at once |
| `index` | `IndexIsSound`, `OkMeansCurrent` | 2 builds begun again without limit, 2 cards, 2 texts, 2 filters, chunks of one (`Batch`), one import's write (`MaxWrites`); 2,056,166 |
| `index_torn` | expected violation of `ReadyMeansSearchable` | one build begun again, one card |
| `panels` | `HistoryIsSound`, `PillsAreTrue`, `CacheIsHonest` | 4 pushes of 2 kinds (`MaxPushes`), a history of 2 (`HistoryCap`), one card and the blank id, three instants and an unreadable one, 2 attempts; 3,465,242 |
| `edits` | `IdentityIsTrue`, `AnswersAreTrue`, `MergeIsSound` (`MergeIsExact` undisturbed, `MergeSparesTheUnread` always) | 2 sessions, 2 decks, one card on the main board and one of another colour on the side, quantities 1 added and 0 or 2 set, 3 requests (`MaxRequests`); 3,614,204 |

Every passing run also checks `TypeOK` of its module, except `glass_converges`.

**Why the bounds are enough.** The backend's hazards need two of something: two
handshakes with one ticket, two broadcasts to one socket, a mint into a full map.
The third launch matters: one that dies or stops, one that serves, one that races.
A tab's races need two values that differ and one event to race with each kind of
read; a second death or drop repeats the first from a state already reached. The
count of failures saturates above the six that `down` can need. Three image requests
are the least with one that fetches, one that waits in line and one that waits for a
permit; a memory of one entry makes the second failing key push the first out. Four
printings give an identity three, so that a reconcile repoints and merges at once. Chunks of
one card put a commit between any two cards. Four pushes are two more than the history
holds, so that one that fell off can come back. Three deck requests are a merge, an edit
that disturbs it, and one that meets the outcome of either.

**Symmetry** is used for safety runs only. `CHECK_DEADLOCK FALSE` is set where the
bounded environment leaves the system at rest: all requests answered, all launches
over, no push owed.

**Fairness.** In `Glass`, `Fairness` is the program: a read is served or fails and
its answer is heard, one obligation per kind of read; timers fire; frames arrive;
the socket loop keeps trying; a push is attempted. `Recovery` is the environment,
assumed only for convergence: a dead backend is started again, an import ends. In
`AgentSocket` timers fire (weak), and a backend that is reachable again and again
does not refuse every mint and every upgrade (strong). In `ImageProxy` the clock
advances and each request is served (weak, per slot): an exchange ends by its
deadline, a write and a permit by the event loop; nobody has to ask, cancel or
restart. Nothing is assumed of the agent or of failures, and the other modules state
no liveness: a tool, an import or a build may be killed and never called again.

## 4. What the checks found

Two runs expect a violation; `PROJECT.json` quotes the lines.

1. **An overlapping first import passes a partial table off as complete**
   (`library_overlap`). A run that counted no card clears the whole table when it
   fails, another run's batches included; that other run then takes the marker off.
2. **A rebuild cut short makes an empty index read as ready** (`index_torn`). The
   vectors are dropped in one commit and the hashes cleared in the next; killed
   between, every later plain build skips every card.

Met while modelling and described here without a run of their own:

3. **A second spell of refusals can strand the glass.** The probe that restarts a
   stopped poll is spent by the first refusal (`deck.ts:620`); after a second, with a
   healthy poll in between, the boot stays refused, the poll is stopped and nothing is
   under way, while the panel says that reads resume on their own (`copy.ts:113`,
   `states.ts:240-241`). `RefusalIsRetried` and `GlassConverges` are therefore stated
   for one spell (`spent.busy <= 1`).
4. **The stalled panel cannot show over a refused deck.** `poller.ts:88-89` escalates
   to the panel that asks the user to act, and stops, but `deck.ts:422` shows the
   boot's refusal first.
5. **A lost answer is worded as a refusal**: `backend_error` (`client.py:291`) may
   follow a push that was accepted; `tools/companion.py:306` says it didn't land.
6. **A re-read after the commit may raise what callers do not expect.** When the deck
   or the row vanished, `deck.py:917` raises an error that is no `DatabaseError`, the
   only one the docstring at `:894-902` speaks of, after a change that is made.
7. **`exists` for a deck that is gone.** An add whose deck was deleted in between
   breaks the foreign key, an `IntegrityError`, which `deck_management.py:676` answers
   `exists`, "already in that location" (`:115-118`).
8. **A vanished row escapes `set_card_quantity`** as the ORM's `StaleDataError`, which
   the handlers at `deck_management.py:818` and their comment (`:826-827`) leave out.
9. **A merge may store an identity no longer so.** Its closing pass (`deck.py:1121`)
   reads and stamps in steps, against the promise at `:841-846`. Only tests call it.

## 5. Proofs

TLAPS checks these for all values of the constants, but where a paragraph below says
otherwise (one run at a time, the durations of the source), from the assumptions named in
the modules (finite sets of tickets, connections and cards, positive bounds and times, null
values outside the sets they extend). Every one of those modules is extended by the
module of a passing run, so TLC evaluates the assumptions. All theorems are about
safety; each says `Spec => []Inv` or `Spec => [][A]_vars`. Every invariant and every
action property the passing runs check is stated by one.

**Tickets and fan-out** (`CompanionBackendProofs`): `TypeCorrect`,
`TicketsStaySound`, `FanoutStaysSound`, `AnswersTellTheTruth`. `TypeOK` is not
inductive, since `FinishClose` adds `sending[r]` to the closed sockets:
`ClosingHasConn` is added. Single use needs `SpentTickets`: a ticket some connection
presented is absent from the map and already minted, so neither a lookup nor a new
mint can bring it back. The bound is a fact about `Kept`: the unexpired tickets are
among the resident ones, and less the earliest when full they leave room for one.
`FanoutInv` relates a broadcast to the handlers: what it owes is part of its snapshot
(`OwedIsOfSnapshot`), the snapshot's handlers are draining or over
(`SnapshotWasOpen`), what it writes to is owed (`SendingIsOwed`) and unwritten
(`OwedIsUnwritten`), and what it closes is already dropped (`ClosingIsDropped`).
`SnapshotWasOpen` is what makes `ClosingIsDropped` inductive: a dropped socket cannot
register again, since its handler is past that point.

**Launch** (`CompanionBackendProofs`): `LaunchTypeCorrect`, `OneCompanionAtATime`,
`ServingCompanionIsDiscoverable`, `PushIsTakenAtMostOnce`. `LockIsHeld` says a
process is past the lock exactly while it holds it. Everything that touches
`companion.json` is past the lock, which is why the read and the unlink of
`remove_discovery` need not be one step. `AttemptIsPaid` bounds the retries.

**Glass** (`GlassProofs`): `TypeCorrect`, `ChainsHold`, `RestingIsCurrent`,
`PromisesHold`, `NeverBack`, `DisplaySteps`. What a tab does next depends on the few
requests that still own their generation, so each function of `GlassTab` is first summed
up by what it does to those and to the fields beside them. The invariant `Inv` then says
that the tab is `Good`, its account of its poll, its probe, its glass and its boot being
true of the slot's history and of the database, and that nothing is missed: what makes
the glass current is done, or asked for, or under way (`Tracks` for the slot, `Shows` for
the deck in it), unless a frame that says so is still on its way (`Followed`, `Seen`,
with `Wires` for what the frames are). It was checked by TLC on the bounds of `glass`
before it was proved. At rest nothing is under way, so only "done" is left:
`RestingIsCurrent`. A late answer paints nothing because what owns the boot was asked for
after the last change the glass has heard of: `NeverBack`. `DisplaySteps` is the
refinement of `DeckDisplay` without its fairness: initial states map to initial states,
and every step to a step or a stutter.

**Socket loop** (`AgentSocketProofs`): `TypeCorrect`, `LoopHoldsOneTry`,
`SocketsStayAccounted`, `DisconnectedIsEarned`. `LoopInv` adds that only sockets are up
(`OnlySocketsUp`), so exchanging a timer or a mint closes nothing, and what holds before
the first start (`FirstStart`). The last is about the durations of the source
(`AsShipped`): `ClockInv` bounds what has gone by since the first failure of a run, by
the delays alone (`Prompt`) or with every mint at its timeout (`Slow`), and says that a
timer in hand waits what the count of failures asks for. No timer outlives its
generation, so no other wait is counted.

**Image proxy** (`ImageProxyProofs`): `TypeCorrect`, `PermitsComeBack`,
`FetchesAreSpaced`, `OutagesStayRemembered`, `BackoffStaysSound`. Types need that a
request has its key exactly while it is served (`Requests`), which is what keeps the
disk and the memory to known keys (`Store`). Permits need only the phases. That each
line is the requests standing in it, each once (`Lines`), rests on what `Append`,
`Tail` and `Without` do to a sequence that holds nothing twice (`AppendOnce`,
`TailOnce`, `WithoutOnce`); that its length counts them is a bijection
(`OnceCounted`). The spacing is a conserved sum of `gap` and `since`. An outage is
followed through each of the ways a memory changes; that a delay is earned needs
that doubling is monotone, and that no history falls between nothing and the first
delay.

**Import** (`LibraryProofs`): `ReadyDatabaseIsComplete`, `NoImportLosesAnIdentity`,
`RowsStaySafe`, all under `Run = {r}`, one run at a time, which the code does not
enforce: `library_overlap` is the counterexample without it; and `NoRowComesToDangle`,
for any number of runs, from the foreign keys: a change they accept is one that leaves
no row without its card. The invariant of the others says what a
run's position means for the table: before the marker is off, either the table was
whole when the run began or the marker is on; at `reconciling` and after, every
canonical printing that was not rejected is there, and a plan deletes no printing
whose identity keeps none.
For any number of runs, `TypeCorrect` and `ReconcileLosesNoCopy` rest on `TypeInv`: what
a run has planned is consistent (`PlanIsSound`), so that no canonical printing is
collapsed and one row goes to each place that was free. Hence the canonical row ends with
its own copies and those of the rows collapsed into it, whether one was moved there first
or all were merged (`CanonicalRowCollects`), and the others are gone or untouched
(`OtherRowsStay`). That the sums then agree needs what a sum over a finite set does when
a member is taken, a part split off or the function changed (`SumTakes`, `SumSplits`,
`SumAgrees`), proved by taking a smallest set for which the claim fails (`SmallestSet`).
`ImportLosesNothing` is the two halves of `NothingIsLost`, again for one run at a time.

**Index** (`SemanticIndexProofs`): `TypeCorrect`, `IndexStaysSound`,
`OkBuildIsCurrent`. `NoStaleVector` is inductive by itself, since a chunk writes
vectors and hashes in one transaction. For the rest, while nothing is `torn` a working
build is alone (`Alone`), so what it loaded is what the tables hold
but for the cards it has done (`Progress`), and hashes and vectors are of the same
cards.

**Panels** (`PanelsProofs`): `TabIsTyped`, `PillsStayTrue`, `HistoryStaysSound`,
`CacheStaysHonest`.
`CacheInv` adds that a card with no entry has not been asked for; `ViewInv` that what
a pill holds, and what is on the glass, has arrived. A card whose read has settled and is
not released is not in flight, and a settled read touches no entry. For the history, `HistoryWith` is
first shown to replace the entry of an id or to file a push before the first that does
not rank above it (`HistoryWithFiles`). That its neighbours rank does not yet say that
the line is in order, and the order is what decides who is dropped: so where the
timestamps of the session rank, `Good` asks that the whole line is in order, and of the
session that the deliveries of an envelope bear one timestamp.

**Deck edits** (`DeckEditsProofs`): `TypeCorrect`, `IdentityStaysTrue`,
`AnswersStayTrue`, `MergesStaySound`, which is `MergesStayExact` and
`MergesSpareTheUnread`. The identity (`StoreInv`) is inductive but for
clones, which carry a rows-and-identity pair read earlier; it asks that the pair match
unless the copy is `dubious`. Answers need `CallInv`, which speaks of one call at a
time: others touch nothing of it but `quiet`. For an import it says that what is being written
is what is reported as added, and that this is not nothing. A merge needs `MergesInv`: while it is
quiet, its target is what it read with that part of its plan applied that is no longer
to do. Its steps rest on three facts about `Applied`: applying a part of a plan and
then the rest is applying the plan (`AppliedTwice`), a plan has one write per slot
(`AppliedFacts`), and the plan of a strategy yields what the strategy says
(`PlanMerges`). For a merge that is disturbed only a part of this is left, `PlanFits`:
what is still to do is of the plan made from the two reads, and what is being updated is
one of its sets. That is enough for `MergesSpareTheUnread`: the sets are of cards read in
both decks, and an insert commits only where no row is.

**Only model-checked.** All liveness (`GlassConverges`, `Reconnects`,
`ImagesStayAvailable`) and, of the refinement `RefinesDisplay`, the fairness of its
specification.

## 6. Not modelled, and what is next

- **Wire contracts**: validation of one message at a time, without state.
- **Static files, security headers, body cap**: stateless filters.
- **UI components, identity, faces, grouping, format check**: rendering and pure
  selection; the identity read of the wiring is one more re-read.
- **Deck analysis and power assessment** (`src/logic`): pure functions of one deck;
  the scores are floating point, out of TLC's reach.
- **Static viewer**: pure rendering to a file. **Plugin package**
  (`src/plugin`): a generated copy of `src/src` and the built UI, which is why a share
  of the lines counted over the whole repository stays low.
- **Combo snapshot**: one transaction replaces it, and its reader checks the metadata
  row: no interleaving to find.
- **Database holder** of the companion (`app/deps.py`): an engine opened on first use.
- **Copy limits and name resolution** of the tools: pure checks of one request.
- **Index**: the nearest-neighbour query and `limit` are reads; the model and its
  version, and the command line's order of drop and model load, are left out.
- **A read that times out on a live server** (`deck.ts:220`), listed as a hazard: the
  glass then rests on a panel that promises nothing.
- **A client that never drains** (`ws.py:60`), listed as a hazard: documented by the
  code, which sets no deadline for a send.

Out of the prover's reach: liveness and `ENABLED`; the induction theorems of the
library, which take an operator (a smallest counterexample serves instead); a module that
reaches a `RECURSIVE` operator.

Next, in this order: the poller with its clock and deadline, to make `MayStall` exact;
two boards and two decks in `Library`.
