---------------------------- MODULE SemanticIndex ----------------------------
(***************************************************************************)
(* The semantic index of the cards (src/search/index_builder.py,           *)
(* search/schema.py) and the calls that build it                           *)
(* (src/mcp_server/tools/build_search_index.py), each on a thread and a    *)
(* connection of its own, beside imports that change the cards.            *)
(*                                                                         *)
(* A card is what the index distinguishes of it: the text that is embedded *)
(* and hashed, and the filter columns, which the hash does not cover.  A   *)
(* vector row is the text it embeds with its filters.  Each step between   *)
(* two commits is an action; a kill or a failure rolls back none of those  *)
(* before it.                                                              *)
(***************************************************************************)
EXTENDS Naturals, FiniteSets

CONSTANTS
    Card, Text, Filters,
    Absent,      \* no such row
    Builder,     \* calls of build_search_index that may overlap
    Batch,       \* batch_size
    MaxWrites    \* bound: changes of the cards table

ASSUME AbsentAssumption == Absent \notin Text /\ Absent \notin Filters
ASSUME BatchAssumption == Batch \in Nat \ {0}
ASSUME WritesAssumption == MaxWrites \in Nat

VARIABLES
    cards,    \* the cards table: card -> its text and filters
    table,    \* the vector table exists
    vecText, vecFilters,  \* card_vec: the text embedded, the filter columns
    hash,     \* card_embedding_meta: the text whose hash is recorded
    at,       \* builder -> where its call stands
    prune,    \* builder -> its call is to prune
    known, knownFilters,  \* builder -> hashes and filters as loaded at the start
    seenText, seenFilters,\* builder -> the cards as its cursor reads them
    todo,     \* builder -> cards not fetched yet
    doomed,   \* builder -> the set its prune works on
    clean,    \* history: builder -> it ran alone, on a sound index or to rebuild it
    torn,     \* history: a rebuild was cut short or builds overlapped
    writes    \* bounded by MaxWrites

index == <<table, vecText, vecFilters, hash>>
loaded == <<known, knownFilters>>
read == <<seenText, seenFilters>>
history == <<clean, torn>>
world == <<cards, writes>>
vars == <<world, index, at, prune, loaded, read, todo, doomed, history>>

Resting == {"idle", "ok", "failed"}
Step == Resting \cup {"dropping", "clearing", "creating", "readingHashes",
                      "readingFilters", "readingCards", "embedding",
                      "readingLiving", "readingIndexed", "pruning"}
Nothing == [c \in Card |-> Absent]
Listed(f) == {c \in Card : f[c] # Absent}
Others(b) == Builder \ {b}

Init ==
    /\ cards \in {[text |-> t, filters |-> f] :
                     t \in [Card -> Text \cup {Absent}], f \in [Card -> Filters \cup {Absent}]}
    /\ Listed(cards.text) = Listed(cards.filters)
    /\ writes = 0
    /\ table = FALSE /\ vecText = Nothing /\ vecFilters = Nothing /\ hash = Nothing
    /\ at = [b \in Builder |-> "idle"]
    /\ prune = [b \in Builder |-> FALSE]
    /\ known = [b \in Builder |-> Nothing] /\ knownFilters = [b \in Builder |-> Nothing]
    /\ seenText = [b \in Builder |-> Nothing] /\ seenFilters = [b \in Builder |-> Nothing]
    /\ todo = [b \in Builder |-> {}] /\ doomed = [b \in Builder |-> {}]
    /\ clean = [b \in Builder |-> FALSE] /\ torn = FALSE

-----------------------------------------------------------------------------
(* An import or a reconcile commits.  The batches and the reconcile are in *)
(* Library; here any card is added, changed or removed at any time, which  *)
(* is more than they can do.                                               *)

PutCard(c, t, f) ==
    /\ writes < MaxWrites /\ writes' = writes + 1
    /\ cards' = [text |-> [cards.text EXCEPT ![c] = t],
                 filters |-> [cards.filters EXCEPT ![c] = f]]
    /\ UNCHANGED <<index, at, prune, loaded, read, todo, doomed, history>>

ImportWrites ==
    \E c \in Card :
        PutCard(c, Absent, Absent) \/ \E t \in Text, f \in Filters : PutCard(c, t, f)

-----------------------------------------------------------------------------
(* A call of build_search_index. *)

Goto(b, step) == at' = [at EXCEPT ![b] = step]
LastStep(b) == IF prune[b] THEN "readingLiving" ELSE "ok"

\* What a call loaded goes when its loop over the chunks ends, what it read of
\* the cards stays as the history of its answer until its next call.
ForgetLoaded(b) ==
    /\ known' = [known EXCEPT ![b] = Nothing]
    /\ knownFilters' = [knownFilters EXCEPT ![b] = Nothing]

ForgetRead(b) ==
    /\ seenText' = [seenText EXCEPT ![b] = Nothing]
    /\ seenFilters' = [seenFilters EXCEPT ![b] = Nothing]
    /\ doomed' = [doomed EXCEPT ![b] = {}]

\* is_database_initialized, then the embedder is had before anything is
\* dropped.  A call without cards, or without the model, changes nothing.
Call(b, r, p) ==
    /\ at[b] \in Resting
    /\ Listed(cards.text) # {}
    /\ Goto(b, IF r THEN "dropping" ELSE "creating")
    /\ prune' = [prune EXCEPT ![b] = p]
    /\ LET alone == \A o \in Others(b) : at[o] \in Resting
       IN /\ clean' = [o \in Builder |-> o = b /\ alone /\ (r \/ ~torn)]
          /\ torn' = (torn \/ ~alone)
    /\ ForgetRead(b)
    /\ UNCHANGED <<world, index, loaded, todo>>

\* drop_card_vec_table, committed by itself.
DropVectors(b) ==
    /\ at[b] = "dropping" /\ Goto(b, "clearing")
    /\ table' = FALSE /\ vecText' = Nothing /\ vecFilters' = Nothing
    /\ UNCHANGED <<world, hash, prune, loaded, read, todo, doomed, history>>

\* Mutant: the rebuild leaves the hashes.
HashesKept(b) ==
    /\ at[b] = "clearing" /\ Goto(b, "creating")
    /\ torn' = (torn /\ ~clean[b])
    /\ UNCHANGED <<world, index, prune, loaded, read, todo, doomed, clean>>

\* clear_card_embedding_meta, committed by itself.
ClearHashes(b) ==
    /\ at[b] = "clearing" /\ Goto(b, "creating")
    /\ hash' = Nothing
    /\ torn' = (torn /\ ~clean[b])
    /\ UNCHANGED <<world, table, vecText, vecFilters, prune, loaded, read, todo, doomed, clean>>

\* create_card_vec_table IF NOT EXISTS.
CreateTable(b) ==
    /\ at[b] = "creating" /\ Goto(b, "readingHashes")
    /\ table' = TRUE
    /\ UNCHANGED <<world, vecText, vecFilters, hash, prune, loaded, read, todo, doomed, history>>

ReadHashes(b) ==
    /\ at[b] = "readingHashes" /\ Goto(b, "readingFilters")
    /\ known' = [known EXCEPT ![b] = hash]
    /\ UNCHANGED <<world, index, prune, knownFilters, read, todo, doomed, history>>

\* Raises if another rebuild has dropped the table.
ReadFilters(b) ==
    /\ at[b] = "readingFilters" /\ table /\ Goto(b, "readingCards")
    /\ knownFilters' = [knownFilters EXCEPT ![b] = vecFilters]
    /\ UNCHANGED <<world, index, prune, known, read, todo, doomed, history>>

\* The cursor's first step takes the snapshot of the cards it will fetch.
ReadCards(b) ==
    /\ at[b] = "readingCards" /\ Goto(b, "embedding")
    /\ seenText' = [seenText EXCEPT ![b] = cards.text]
    /\ seenFilters' = [seenFilters EXCEPT ![b] = cards.filters]
    /\ todo' = [todo EXCEPT ![b] = Listed(cards.text)]
    /\ UNCHANGED <<world, index, prune, loaded, doomed, history>>

\* The cards of a chunk to embed: those whose text is not the one recorded.
Pending(b, chunk) == {c \in chunk : known[b][c] # seenText[b][c]}
New(b, chunk) == {c \in chunk : known[b][c] = Absent}

\* Mutant: filters that changed under an unchanged text stay as they are.
NotRefreshed(b, chunk) == {}
\* The cards whose filters alone are rewritten in place.
Refreshed(b, chunk) ==
    {c \in chunk \ Pending(b, chunk) :
        knownFilters[b][c] # Absent /\ knownFilters[b][c] # seenFilters[b][c]}

\* Inserting what is there already breaks the key; any write needs the table.
Writable(b, chunk) ==
    \/ Pending(b, chunk) = {} /\ Refreshed(b, chunk) = {}
    \/ table /\ \A c \in New(b, chunk) : vecText[c] = Absent

\* Mutant: the filter columns of an embedded card are not written with it.
FilteredUnwritten(b, chunk) == {c \in Refreshed(b, chunk) : vecText[c] # Absent}
\* The cards whose filters a chunk writes: with their vector, or into a row
\* that an UPDATE finds.
Filtered(b, chunk) ==
    Pending(b, chunk) \cup {c \in Refreshed(b, chunk) : vecText[c] # Absent}

\* _process_chunk: one transaction for vectors, hashes and filters.
WriteChunk(b, chunk) ==
    LET pending == Pending(b, chunk)
    IN /\ at[b] = "embedding" /\ todo[b] # {}
       /\ (Cardinality(chunk) = Batch \/ (chunk = todo[b] /\ Cardinality(chunk) < Batch))
       /\ Writable(b, chunk)
       /\ vecText' = [c \in Card |-> IF c \in pending THEN seenText[b][c] ELSE vecText[c]]
       /\ vecFilters' = [c \in Card |-> IF c \in Filtered(b, chunk) THEN seenFilters[b][c]
                                        ELSE vecFilters[c]]
       /\ hash' = [c \in Card |-> IF c \in pending THEN seenText[b][c] ELSE hash[c]]
       /\ todo' = [todo EXCEPT ![b] = @ \ chunk]
       /\ UNCHANGED <<world, table, at, prune, loaded, read, doomed, history>>

\* No row left to fetch.
Embedded(b) ==
    /\ at[b] = "embedding" /\ todo[b] = {} /\ Goto(b, LastStep(b))
    /\ ForgetLoaded(b)
    /\ UNCHANGED <<world, index, prune, read, todo, doomed, history>>

\* _prune_orphans: the living ids, then the recorded ones, then the deletes.
ReadLiving(b) ==
    /\ at[b] = "readingLiving" /\ Goto(b, "readingIndexed")
    /\ doomed' = [doomed EXCEPT ![b] = Listed(cards.text)]
    /\ UNCHANGED <<world, index, prune, loaded, read, todo, history>>

ReadIndexed(b) ==
    /\ at[b] = "readingIndexed"
    /\ LET orphans == Listed(hash) \ doomed[b]
       IN /\ doomed' = [doomed EXCEPT ![b] = orphans]
          /\ Goto(b, IF orphans = {} THEN "ok" ELSE "pruning")
    /\ UNCHANGED <<world, index, prune, loaded, read, todo, history>>

DeleteOrphans(b) ==
    /\ at[b] = "pruning" /\ table /\ Goto(b, "ok")
    /\ vecText' = [c \in Card |-> IF c \in doomed[b] THEN Absent ELSE vecText[c]]
    /\ vecFilters' = [c \in Card |-> IF c \in doomed[b] THEN Absent ELSE vecFilters[c]]
    /\ hash' = [c \in Card |-> IF c \in doomed[b] THEN Absent ELSE hash[c]]
    /\ UNCHANGED <<world, table, prune, loaded, read, todo, doomed, history>>

\* A statement or the embedder raises (what it had not committed is rolled
\* back), or the process is killed: nothing of the commits before it goes.
Stop(b) ==
    /\ at[b] \notin Resting /\ Goto(b, "failed")
    /\ torn' = (torn \/ at[b] = "clearing")
    /\ ForgetLoaded(b) /\ ForgetRead(b) /\ todo' = [todo EXCEPT ![b] = {}]
    /\ UNCHANGED <<world, index, prune, clean>>

Build(b) ==
    \/ \E r, p \in BOOLEAN : Call(b, r, p)
    \/ DropVectors(b) \/ ClearHashes(b) \/ CreateTable(b)
    \/ ReadHashes(b) \/ ReadFilters(b) \/ ReadCards(b)
    \/ \E chunk \in SUBSET todo[b] : WriteChunk(b, chunk)
    \/ Embedded(b)
    \/ ReadLiving(b) \/ ReadIndexed(b) \/ DeleteOrphans(b)
    \/ Stop(b)

Next == ImportWrites \/ \E b \in Builder : Build(b)

Spec == Init /\ [][Next]_vars

-----------------------------------------------------------------------------
(* Properties. *)

TypeOK ==
    /\ cards.text \in [Card -> Text \cup {Absent}]
    /\ cards.filters \in [Card -> Filters \cup {Absent}]
    /\ table \in BOOLEAN
    /\ vecText \in [Card -> Text \cup {Absent}]
    /\ vecFilters \in [Card -> Filters \cup {Absent}]
    /\ Listed(vecFilters) = Listed(vecText)
    /\ ~table => Listed(vecText) = {}
    /\ hash \in [Card -> Text \cup {Absent}]
    /\ at \in [Builder -> Step]
    /\ prune \in [Builder -> BOOLEAN]
    /\ known \in [Builder -> [Card -> Text \cup {Absent}]]
    /\ knownFilters \in [Builder -> [Card -> Filters \cup {Absent}]]
    /\ seenText \in [Builder -> [Card -> Text \cup {Absent}]]
    /\ seenFilters \in [Builder -> [Card -> Filters \cup {Absent}]]
    /\ todo \in [Builder -> SUBSET Card] /\ doomed \in [Builder -> SUBSET Card]
    /\ clean \in [Builder -> BOOLEAN] /\ torn \in BOOLEAN
    /\ writes \in 0..MaxWrites

\* A recorded hash never vouches for a vector of another text: an index that
\* every later build would skip as current is never stale, however builds
\* overlap, fail or are killed (the one transaction of _process_chunk).
NoStaleVector == \A c \in Listed(hash) \cap Listed(vecText) : hash[c] = vecText[c]

\* A hash is recorded exactly where a vector is, which _prune_orphans and the
\* skip of an unchanged card rely on, except between the two commits of a
\* rebuild, after a rebuild cut short there, and after overlapping builds.
HashedIffIndexed ==
    ~torn /\ (\A b \in Builder : at[b] # "clearing") => Listed(hash) = Listed(vecText)

IndexIsSound == NoStaleVector /\ HashedIffIndexed

\* A build that answers ok, and ran alone on such an index or rebuilt it, has
\* left every card it read with a vector of its text and its own filters,
\* wherever earlier builds were interrupted (build_card_embeddings).
OkMeansCurrent ==
    \A b \in Builder : at[b] = "ok" /\ clean[b] =>
        \A c \in Listed(seenText[b]) \ doomed[b] :
            /\ vecText[c] = seenText[b][c] /\ vecFilters[c] = seenFilters[b][c]
            /\ hash[c] = seenText[b][c]

\* "Semantic search index built: ... Semantic search is ready": a call that
\* answers ok leaves every card it read in the index (build_search_index.py).
ReadyMeansSearchable ==
    \A b \in Builder : at[b] = "ok" =>
        Listed(seenText[b]) \ doomed[b] \subseteq Listed(vecText)
=============================================================================
