------------------------- MODULE SemanticIndexProofs -------------------------
(***************************************************************************)
(* Proofs about SemanticIndex, for any cards, texts, batch size and number *)
(* of overlapping builds.                                                  *)
(*                                                                         *)
(* That no recorded hash vouches for another text is inductive by itself:  *)
(* a chunk writes both in one transaction.  The rest rests on who is alone: *)
(* while a clean build runs the others rest, so what it loaded of a card   *)
(* it has not yet fetched is what the index still holds.                   *)
(***************************************************************************)
EXTENDS SemanticIndex, TLAPS

TextRow == [Card -> Text \cup {Absent}]
FilterRow == [Card -> Filters \cup {Absent}]

\* Texts and filters come and go together, and a build fetches what it read.
RowsAgree ==
    /\ Listed(cards.text) = Listed(cards.filters)
    /\ \A b \in Builder :
          /\ Listed(seenText[b]) = Listed(seenFilters[b])
          /\ todo[b] \subseteq Listed(seenText[b])
          /\ at[b] # "embedding" => todo[b] = {}

TypeInv == TypeOK /\ RowsAgree

LEMMA TypeInit == Init => TypeInv
<1> SUFFICES ASSUME Init PROVE TypeInv
  OBVIOUS
<1> USE AbsentAssumption, WritesAssumption DEF Init
<1>1. cards.text \in TextRow /\ cards.filters \in FilterRow
  BY DEF TextRow, FilterRow
<1>2. Nothing \in TextRow /\ Nothing \in FilterRow /\ Listed(Nothing) = {}
  BY DEF Nothing, Listed, TextRow, FilterRow
<1>3. TypeOK
  <2>1. /\ prune \in [Builder -> BOOLEAN]
        /\ clean \in [Builder -> BOOLEAN] /\ torn \in BOOLEAN /\ table \in BOOLEAN
    BY Zenon
  <2>2. known \in [Builder -> TextRow] /\ knownFilters \in [Builder -> FilterRow]
    BY <1>2
  <2>3. seenText \in [Builder -> TextRow] /\ seenFilters \in [Builder -> FilterRow]
    BY <1>2
  <2>4. at \in [Builder -> Step] /\ writes \in 0..MaxWrites
    BY DEF Step, Resting
  <2>5. todo \in [Builder -> SUBSET Card] /\ doomed \in [Builder -> SUBSET Card]
    OBVIOUS
  <2>6. QED
    BY <1>1, <1>2, <2>1, <2>2, <2>3, <2>4, <2>5 DEF TypeOK, TextRow, FilterRow
<1>4. RowsAgree
  BY <1>2 DEF RowsAgree
<1>5. QED
  BY <1>3, <1>4 DEF TypeInv

\* What each action leaves of the types, action by action.
LEMMA TypeStep == TypeInv /\ [Next]_vars => TypeInv'
<1> SUFFICES ASSUME TypeInv, [Next]_vars PROVE TypeInv'
  OBVIOUS
<1> USE AbsentAssumption, WritesAssumption
<1>0. Nothing \in TextRow /\ Nothing \in FilterRow /\ Listed(Nothing) = {}
  BY DEF Nothing, Listed, TextRow, FilterRow
<1>1. ASSUME NEW c \in Card, PutCard(c, Absent, Absent) PROVE TypeInv'
  BY <1>1 DEF TypeInv, TypeOK, RowsAgree, PutCard, Listed, index, loaded, read, history
<1>2. ASSUME NEW c \in Card, NEW t \in Text, NEW f \in Filters, PutCard(c, t, f)
      PROVE TypeInv'
  BY <1>2 DEF TypeInv, TypeOK, RowsAgree, PutCard, Listed, index, loaded, read, history
<1>3. ASSUME NEW b \in Builder, NEW r \in BOOLEAN, NEW p \in BOOLEAN, Call(b, r, p)
      PROVE TypeInv'
  <2>1. /\ prune' \in [Builder -> BOOLEAN]
        /\ clean' \in [Builder -> BOOLEAN] /\ torn' \in BOOLEAN
    BY <1>3, Zenon DEF TypeInv, TypeOK, Call
  <2>2. at' \in [Builder -> Step] /\ at'[b] # "embedding" /\ at[b] # "embedding"
    BY <1>3 DEF TypeInv, TypeOK, Call, Goto, Step, Resting
  <2>3. /\ seenText' = [seenText EXCEPT ![b] = Nothing]
        /\ seenFilters' = [seenFilters EXCEPT ![b] = Nothing]
        /\ doomed' = [doomed EXCEPT ![b] = {}]
        /\ UNCHANGED <<world, index, loaded, todo>>
        /\ \A o \in Builder : at'[o] # at[o] => o = b
    BY <1>3 DEF TypeInv, TypeOK, Call, Goto, ForgetRead
  <2>4. RowsAgree'
    BY <1>0, <2>2, <2>3 DEF TypeInv, TypeOK, RowsAgree, world
  <2>5. QED
    BY <1>0, <2>1, <2>2, <2>3, <2>4
       DEF TypeInv, TypeOK, TextRow, FilterRow, world, index, loaded
<1>4. ASSUME NEW b \in Builder, DropVectors(b) PROVE TypeInv'
  BY <1>0, <1>4 DEF TypeInv, TypeOK, RowsAgree, DropVectors, Goto, Step, TextRow,
       FilterRow, world, loaded, read, history
<1>5. ASSUME NEW b \in Builder, ClearHashes(b) PROVE TypeInv'
  <2>1. torn' \in BOOLEAN
    BY <1>5, Zenon DEF TypeInv, TypeOK, ClearHashes
  <2>2. QED
    BY <1>0, <1>5, <2>1 DEF TypeInv, TypeOK, RowsAgree, ClearHashes, Goto, Step,
         TextRow, FilterRow, world, loaded, read
<1>6. ASSUME NEW b \in Builder, CreateTable(b) \/ ReadHashes(b) \/ ReadFilters(b)
      PROVE TypeInv'
  <2>1. CASE CreateTable(b)
    BY <2>1 DEF TypeInv, TypeOK, RowsAgree, CreateTable, Goto, Step, world,
         loaded, read, history
  <2>2. CASE ReadHashes(b)
    BY <2>2 DEF TypeInv, TypeOK, RowsAgree, ReadHashes, Goto, Step, world, index,
         read, history
  <2>3. CASE ReadFilters(b)
    BY <2>3 DEF TypeInv, TypeOK, RowsAgree, ReadFilters, Goto, Step, world, index,
         read, history
  <2>4. QED
    BY <1>6, <2>1, <2>2, <2>3
<1>7. ASSUME NEW b \in Builder, ReadCards(b) PROVE TypeInv'
  BY <1>7 DEF TypeInv, TypeOK, RowsAgree, ReadCards, Goto, Step, Listed, world, index, loaded, history
<1>8. ASSUME NEW b \in Builder, NEW chunk \in SUBSET todo[b], WriteChunk(b, chunk)
      PROVE TypeInv'
  <2>1. UNCHANGED <<world, table, at, prune, loaded, read, doomed, history>>
    BY <1>8 DEF WriteChunk
  <2>2. vecText' \in TextRow /\ vecFilters' \in FilterRow /\ hash' \in TextRow
    BY <1>8 DEF TypeInv, TypeOK, WriteChunk, Filtered, TextRow, FilterRow
  <2>3. Listed(vecFilters)' = Listed(vecText)'
    BY <1>8 DEF TypeInv, TypeOK, RowsAgree, WriteChunk, Filtered, Pending, Refreshed, Listed
  <2>4. ~table' => Listed(vecText)' = {}
    BY <1>8 DEF TypeInv, TypeOK, WriteChunk, Writable, Listed
  <2>5. todo' \in [Builder -> SUBSET Card] /\ at[b] = "embedding" /\ RowsAgree'
    BY <1>8, <2>1 DEF TypeInv, TypeOK, RowsAgree, WriteChunk, world, read
  <2>6. QED
    BY <2>1, <2>2, <2>3, <2>4, <2>5 DEF TypeInv, TypeOK, TextRow, FilterRow, world, loaded, read, history
<1>9. ASSUME NEW b \in Builder, Embedded(b) PROVE TypeInv'
  BY <1>0, <1>9 DEF TypeInv, TypeOK, RowsAgree, Embedded, Goto, LastStep, ForgetLoaded,
       Step, Resting, TextRow, FilterRow, world, index, read, history
<1>10. ASSUME NEW b \in Builder, ReadLiving(b) \/ ReadIndexed(b) PROVE TypeInv'
  <2>1. UNCHANGED <<world, index, prune, loaded, read, todo, history>>
    BY <1>10 DEF ReadLiving, ReadIndexed
  <2>2. doomed' \in [Builder -> SUBSET Card]
    <3>1. Listed(cards.text) \in SUBSET Card /\ Listed(hash) \ doomed[b] \in SUBSET Card
      BY DEF Listed
    <3>2. PICK D \in SUBSET Card : doomed' = [doomed EXCEPT ![b] = D]
      BY <1>10, <3>1 DEF ReadLiving, ReadIndexed
    <3>3. QED
      BY <3>2 DEF TypeInv, TypeOK
  <2>3. /\ at' \in [Builder -> Step] /\ at[b] # "embedding"
        /\ \A o \in Builder : at'[o] # at[o] => o = b
    <3>1. CASE ReadLiving(b)
      BY <3>1 DEF TypeInv, TypeOK, ReadLiving, Goto, Step
    <3>2. CASE ReadIndexed(b)
      <4>1. PICK s \in {"ok", "pruning"} : Goto(b, s)
        BY <3>2 DEF ReadIndexed
      <4>2. QED
        BY <3>2, <4>1 DEF TypeInv, TypeOK, ReadIndexed, Goto, Step, Resting
    <3>3. QED
      BY <1>10, <3>1, <3>2
  <2>4. RowsAgree'
    BY <2>1, <2>3 DEF TypeInv, RowsAgree, world, read
  <2>5. QED
    BY <2>1, <2>2, <2>3, <2>4 DEF TypeInv, TypeOK, world, index, loaded, read, history
<1>11. ASSUME NEW b \in Builder, DeleteOrphans(b) PROVE TypeInv'
  BY <1>11 DEF TypeInv, TypeOK, RowsAgree, DeleteOrphans, Goto, Step, Resting, Listed,
       world, loaded, read, history
<1>12. ASSUME NEW b \in Builder, Stop(b) PROVE TypeInv'
  <2>1. torn' \in BOOLEAN
    BY <1>12, Zenon DEF TypeInv, TypeOK, Stop
  <2>2. QED
    BY <1>0, <1>12, <2>1 DEF TypeInv, TypeOK, RowsAgree, Stop, Goto, ForgetLoaded,
         ForgetRead, Step, Resting, TextRow, FilterRow, world, index
<1>13. CASE UNCHANGED vars
  BY <1>13 DEF TypeInv, TypeOK, RowsAgree, vars, world, index, loaded, read, history
<1>14. QED
  BY <1>1, <1>2, <1>3, <1>4, <1>5, <1>6, <1>7, <1>8, <1>9, <1>10, <1>11, <1>12, <1>13
     DEF Next, ImportWrites, Build

\* The variables stay in their types: vectors carry both columns or neither,
\* and there is none without the table.
THEOREM TypeCorrect == Spec => []TypeOK
<1>1. TypeInv => TypeOK
  BY DEF TypeInv
<1>2. QED
  BY <1>1, TypeInit, TypeStep, PTL DEF Spec
-----------------------------------------------------------------------------
(* The hash and the vector of a card. *)

\* A clean build is alone, and only builds that were not spoil the index.
Alone ==
    /\ \A b \in Builder : clean[b] => \A o \in Others(b) : at[o] \in Resting
    /\ ~torn => \A b \in Builder : at[b] \notin Resting => clean[b]
    /\ \A b \in Builder :
          clean[b] /\ at[b] \notin {"dropping", "clearing", "failed"} => ~torn
    /\ \A b \in Builder :
          clean[b] /\ at[b] = "clearing" => Listed(vecText) = {}

SoundInv == Alone /\ IndexIsSound

LEMMA SoundInit == Init => SoundInv
<1> SUFFICES ASSUME Init PROVE SoundInv
  OBVIOUS
<1>1. Listed(hash) = {} /\ Listed(vecText) = {} /\ \A b \in Builder : ~clean[b]
  BY DEF Init, Listed, Nothing
<1>2. Alone
  BY <1>1 DEF Alone, Init, Resting
<1>3. IndexIsSound
  BY <1>1 DEF IndexIsSound, NoStaleVector, HashedIffIndexed
<1>4. QED
  BY <1>2, <1>3 DEF SoundInv

\* A step of a call that is not in the first two steps of a rebuild.
LEMMA QuietStep ==
    ASSUME TypeInv, SoundInv, NEW b \in Builder,
           at[b] \notin Resting, at[b] \notin {"dropping", "clearing"},
           NEW s \in Step \ {"dropping", "clearing"},
           Goto(b, s), UNCHANGED history
    PROVE  Alone'
  BY DEF TypeInv, TypeOK, SoundInv, Alone, Goto, Others, Resting, Step, history

LEMMA AloneStep == TypeInv /\ SoundInv /\ [Next]_vars => Alone'
<1> SUFFICES ASSUME TypeInv, SoundInv, [Next]_vars PROVE Alone'
  OBVIOUS
<1> USE DEF Resting, Step
<1>1. CASE ImportWrites
  BY <1>1 DEF SoundInv, Alone, ImportWrites, PutCard, index, history
<1>2. ASSUME NEW b \in Builder, NEW r \in BOOLEAN, NEW p \in BOOLEAN, Call(b, r, p)
      PROVE Alone'
  <2> DEFINE rests == \A o \in Others(b) : at[o] \in Resting
  <2>1. /\ clean'[b] <=> rests /\ (r \/ ~torn)
        /\ \A o \in Others(b) : ~clean'[o]
        /\ torn' <=> torn \/ ~rests
    BY <1>2, Zenon DEF Call, Others
  <2>2. /\ at[b] \in Resting /\ at'[b] = IF r THEN "dropping" ELSE "creating"
        /\ \A o \in Others(b) : at'[o] = at[o]
    BY <1>2 DEF TypeInv, TypeOK, Call, Goto, Others
  <2>3. QED
    BY <2>1, <2>2 DEF SoundInv, Alone, Others
<1>3. ASSUME NEW b \in Builder, DropVectors(b) PROVE Alone'
  <2>1. Listed(vecText)' = {}
    BY <1>3 DEF DropVectors, Listed, Nothing
  <2>2. QED
    BY <1>3, <2>1 DEF TypeInv, TypeOK, SoundInv, Alone, DropVectors, Goto, Others, history
<1>4. ASSUME NEW b \in Builder, ClearHashes(b) PROVE Alone'
  <2>1. (torn' <=> torn /\ ~clean[b]) /\ clean' = clean /\ vecText' = vecText
    BY <1>4, Zenon DEF ClearHashes
  <2>2. /\ at[b] = "clearing" /\ at'[b] = "creating"
        /\ \A o \in Others(b) : at'[o] = at[o]
    BY <1>4 DEF TypeInv, TypeOK, ClearHashes, Goto, Others
  <2>3. QED
    BY <2>1, <2>2 DEF SoundInv, Alone, Others, Listed
<1>5. ASSUME NEW b \in Builder, CreateTable(b) PROVE Alone'
  BY <1>5, QuietStep DEF CreateTable
<1>6. ASSUME NEW b \in Builder, ReadHashes(b) PROVE Alone'
  BY <1>6, QuietStep DEF ReadHashes
<1>7. ASSUME NEW b \in Builder, ReadFilters(b) PROVE Alone'
  BY <1>7, QuietStep DEF ReadFilters
<1>8. ASSUME NEW b \in Builder, ReadCards(b) PROVE Alone'
  BY <1>8, QuietStep DEF ReadCards
<1>9. ASSUME NEW b \in Builder, NEW chunk \in SUBSET todo[b], WriteChunk(b, chunk)
      PROVE Alone'
  <2>1. at[b] = "embedding" /\ Goto(b, "embedding") /\ UNCHANGED history
    BY <1>9 DEF TypeInv, TypeOK, WriteChunk, Goto
  <2>2. QED
    BY <2>1, QuietStep
<1>10. ASSUME NEW b \in Builder, Embedded(b) PROVE Alone'
  <2>1. at[b] = "embedding" /\ Goto(b, LastStep(b)) /\ UNCHANGED history
    BY <1>10 DEF Embedded
  <2>2. LastStep(b) \in Step \ {"dropping", "clearing"}
    BY DEF LastStep
  <2>3. QED
    BY <2>1, <2>2, QuietStep
<1>11. ASSUME NEW b \in Builder, ReadLiving(b) PROVE Alone'
  BY <1>11, QuietStep DEF ReadLiving
<1>12. ASSUME NEW b \in Builder, ReadIndexed(b) PROVE Alone'
  <2>1. PICK s \in {"ok", "pruning"} : Goto(b, s)
    BY <1>12 DEF ReadIndexed
  <2>2. QED
    BY <1>12, <2>1, QuietStep DEF ReadIndexed
<1>13. ASSUME NEW b \in Builder, DeleteOrphans(b) PROVE Alone'
  BY <1>13, QuietStep DEF DeleteOrphans
<1>14. ASSUME NEW b \in Builder, Stop(b) PROVE Alone'
  <2>1. (torn' <=> torn \/ at[b] = "clearing") /\ clean' = clean /\ vecText' = vecText
    BY <1>14, Zenon DEF Stop, index
  <2>2. /\ at[b] \notin Resting /\ at'[b] = "failed"
        /\ \A o \in Others(b) : at'[o] = at[o]
    BY <1>14 DEF TypeInv, TypeOK, Stop, Goto, Others
  <2>3. QED
    BY <2>1, <2>2 DEF SoundInv, Alone, Others, Listed
<1>15. CASE UNCHANGED vars
  BY <1>15 DEF SoundInv, Alone, Others, Listed, vars, index, history
<1>16. QED
  BY <1>1, <1>2, <1>3, <1>4, <1>5, <1>6, <1>7, <1>8, <1>9, <1>10, <1>11, <1>12, <1>13,
     <1>14, <1>15 DEF Next, Build

\* A chunk writes hash and vector of a card in one transaction, or neither.
LEMMA ChunkKeepsPairs ==
    ASSUME TypeInv, SoundInv, NEW b \in Builder, NEW chunk \in SUBSET todo[b],
           WriteChunk(b, chunk)
    PROVE  IndexIsSound'
<1>1. \A c \in Card : \/ hash'[c] = seenText[b][c] /\ vecText'[c] = seenText[b][c]
                      \/ hash'[c] = hash[c] /\ vecText'[c] = vecText[c]
  BY DEF WriteChunk
<1>2. at' = at /\ torn' = torn
  BY DEF WriteChunk, history
<1>3. NoStaleVector'
  BY <1>1 DEF SoundInv, IndexIsSound, NoStaleVector, Listed
<1>4. HashedIffIndexed'
  BY <1>1, <1>2 DEF SoundInv, IndexIsSound, HashedIffIndexed, Listed
<1>5. QED
  BY <1>3, <1>4 DEF IndexIsSound

LEMMA SoundStep == TypeInv /\ SoundInv /\ [Next]_vars => SoundInv'
<1> SUFFICES ASSUME TypeInv, SoundInv, [Next]_vars PROVE IndexIsSound'
  BY AloneStep DEF SoundInv
<1> USE DEF Resting, Step
<1>0. \A b, o \in Builder : clean[b] /\ at[o] \notin Resting => o = b
  BY DEF SoundInv, Alone, Others
\* A step that keeps vectors and hashes, the torn mark if it is set, and who
\* is clearing.
<1> DEFINE Clearing == {b \in Builder : at[b] = "clearing"}
<1>1. ASSUME UNCHANGED <<vecText, hash>>, torn => torn', ~torn' => Clearing' = Clearing
      PROVE IndexIsSound'
  BY <1>1 DEF SoundInv, IndexIsSound, NoStaleVector, HashedIffIndexed, Listed
<1>2. CASE ImportWrites
  BY <1>1, <1>2 DEF ImportWrites, PutCard, index, history
<1>3. ASSUME NEW b \in Builder, NEW r \in BOOLEAN, NEW p \in BOOLEAN, Call(b, r, p)
      PROVE IndexIsSound'
  <2>1. UNCHANGED <<vecText, hash>> /\ (torn => torn')
    BY <1>3, Zenon DEF Call, index
  <2>2. Clearing' = Clearing
    BY <1>3 DEF TypeInv, TypeOK, Call, Goto
  <2>3. QED
    BY <1>1, <2>1, <2>2
<1>4. ASSUME NEW b \in Builder, DropVectors(b) PROVE IndexIsSound'
  <2>1. Listed(vecText)' = {} /\ at'[b] = "clearing"
    BY <1>4 DEF TypeInv, TypeOK, DropVectors, Goto, Listed, Nothing
  <2>2. QED
    BY <2>1 DEF IndexIsSound, NoStaleVector, HashedIffIndexed
<1>5. ASSUME NEW b \in Builder, ClearHashes(b) PROVE IndexIsSound'
  <2>1. Listed(hash)' = {} /\ vecText' = vecText /\ (torn' <=> torn /\ ~clean[b])
    BY <1>5, Zenon DEF ClearHashes, Listed, Nothing
  <2>2. ASSUME ~torn' PROVE Listed(vecText) = {}
    BY <1>5, <2>1, <2>2 DEF SoundInv, Alone, ClearHashes
  <2>3. QED
    BY <2>1, <2>2 DEF IndexIsSound, NoStaleVector, HashedIffIndexed, Listed
<1>6. ASSUME NEW b \in Builder, CreateTable(b) PROVE IndexIsSound'
  BY <1>1, <1>6 DEF TypeInv, TypeOK, CreateTable, Goto, history
<1>7. ASSUME NEW b \in Builder, ReadHashes(b) PROVE IndexIsSound'
  BY <1>1, <1>7 DEF TypeInv, TypeOK, ReadHashes, Goto, index, history
<1>8. ASSUME NEW b \in Builder, ReadFilters(b) PROVE IndexIsSound'
  BY <1>1, <1>8 DEF TypeInv, TypeOK, ReadFilters, Goto, index, history
<1>9. ASSUME NEW b \in Builder, ReadCards(b) PROVE IndexIsSound'
  BY <1>1, <1>9 DEF TypeInv, TypeOK, ReadCards, Goto, index, history
<1>10. ASSUME NEW b \in Builder, NEW chunk \in SUBSET todo[b], WriteChunk(b, chunk)
       PROVE IndexIsSound'
  BY <1>10, ChunkKeepsPairs
<1>11. ASSUME NEW b \in Builder, Embedded(b) PROVE IndexIsSound'
  BY <1>1, <1>11 DEF TypeInv, TypeOK, Embedded, Goto, LastStep, index, history
<1>12. ASSUME NEW b \in Builder, ReadLiving(b) PROVE IndexIsSound'
  BY <1>1, <1>12 DEF TypeInv, TypeOK, ReadLiving, Goto, index, history
<1>13. ASSUME NEW b \in Builder, ReadIndexed(b) PROVE IndexIsSound'
  <2>1. PICK s \in {"ok", "pruning"} : Goto(b, s)
    BY <1>13 DEF ReadIndexed
  <2>2. QED
    BY <1>1, <1>13, <2>1 DEF TypeInv, TypeOK, ReadIndexed, Goto, index, history
<1>14. ASSUME NEW b \in Builder, DeleteOrphans(b) PROVE IndexIsSound'
  <2>1. \A c \in Card : \/ hash'[c] = Absent /\ vecText'[c] = Absent
                        \/ hash'[c] = hash[c] /\ vecText'[c] = vecText[c]
    BY <1>14 DEF DeleteOrphans
  <2>2. torn' = torn /\ Clearing' = Clearing
    BY <1>14 DEF TypeInv, TypeOK, DeleteOrphans, Goto, history
  <2>3. QED
    BY <2>1, <2>2 DEF SoundInv, IndexIsSound, NoStaleVector, HashedIffIndexed, Listed
<1>15. ASSUME NEW b \in Builder, Stop(b) PROVE IndexIsSound'
  <2>1. UNCHANGED <<vecText, hash>> /\ (torn' <=> torn \/ at[b] = "clearing")
    BY <1>15, Zenon DEF Stop, index
  <2>2. ~torn' => Clearing' = Clearing
    BY <1>15, <2>1 DEF TypeInv, TypeOK, Stop, Goto
  <2>3. QED
    BY <1>1, <2>1, <2>2
<1>16. CASE UNCHANGED vars
  BY <1>1, <1>16 DEF vars, index, history
<1>17. QED
  BY <1>2, <1>3, <1>4, <1>5, <1>6, <1>7, <1>8, <1>9, <1>10, <1>11, <1>12, <1>13, <1>14,
     <1>15, <1>16 DEF Next, Build

LEMMA SoundCorrect == Spec => [](TypeInv /\ SoundInv)
  BY TypeInit, TypeStep, SoundInit, SoundStep, PTL DEF Spec

\* No hash vouches for a vector of another text, however builds overlap, fail
\* and die; and hash and vector of a card come together but in and after a
\* rebuild cut short.
THEOREM IndexStaysSound == Spec => []IndexIsSound
<1>1. SoundInv => IndexIsSound
  BY DEF SoundInv
<1>2. QED
  BY <1>1, SoundCorrect, PTL

-----------------------------------------------------------------------------
(* What a build that answers ok has done. *)

Current(b, c) ==
    /\ vecText[c] = seenText[b][c] /\ vecFilters[c] = seenFilters[b][c]
    /\ hash[c] = seenText[b][c]

\* What a clean build loaded is what the index still holds of the cards it has
\* not fetched yet; those it has are current.
Progress(b) ==
    /\ at[b] \in {"readingFilters", "readingCards"} => known[b] = hash
    /\ at[b] = "readingCards" => knownFilters[b] = vecFilters
    /\ at[b] = "embedding" =>
          /\ \A c \in todo[b] : known[b][c] = hash[c] /\ knownFilters[b][c] = vecFilters[c]
          /\ \A c \in Listed(seenText[b]) \ todo[b] : Current(b, c)
    /\ at[b] \in {"readingLiving", "readingIndexed", "pruning"} =>
          \A c \in Listed(seenText[b]) : Current(b, c)
    /\ at[b] = "ok" => \A c \in Listed(seenText[b]) \ doomed[b] : Current(b, c)

ProgressInv == \A b \in Builder : clean[b] => Progress(b)

\* A fetched card is embedded, or has its filters rewritten, or was current:
\* an unchanged hash is one that a vector of the same text stands behind.
LEMMA ChunkIsCurrent ==
    ASSUME TypeInv, SoundInv, NEW b \in Builder, clean[b], Progress(b),
           NEW chunk \in SUBSET todo[b], WriteChunk(b, chunk)
    PROVE  Progress(b)'
<1> USE AbsentAssumption
<1>1. /\ at' = at /\ at[b] = "embedding" /\ UNCHANGED <<known, knownFilters, seenText, seenFilters>>
      /\ todo'[b] = todo[b] \ chunk
  BY DEF TypeInv, TypeOK, WriteChunk, loaded, read
<1>2. Listed(hash) = Listed(vecText)
  <2>1. ~torn /\ \A o \in Builder : at[o] # "clearing"
    BY <1>1 DEF SoundInv, Alone, Others, Resting
  <2>2. QED
    BY <2>1 DEF SoundInv, IndexIsSound, HashedIffIndexed
<1>3. ASSUME NEW c \in chunk PROVE Current(b, c)'
  <2>1. c \in Card /\ c \in Listed(seenText[b]) /\ c \in Listed(seenFilters[b])
    BY DEF TypeInv, TypeOK, RowsAgree
  <2>2. CASE c \in Pending(b, chunk)
    BY <1>1, <2>1, <2>2 DEF Current, WriteChunk, Filtered
  <2>3. CASE c \notin Pending(b, chunk)
    <3>1. hash[c] = seenText[b][c] /\ knownFilters[b][c] = vecFilters[c]
      BY <1>1, <1>3, <2>3 DEF Progress, Pending
    <3>2. c \in Listed(vecText) /\ vecText[c] = seenText[b][c]
      BY <1>2, <2>1, <3>1 DEF SoundInv, IndexIsSound, NoStaleVector, Listed
    <3>3. c \in Listed(vecFilters)
      BY <3>2 DEF TypeInv, TypeOK
    <3>4. vecFilters'[c] = seenFilters[b][c]
      BY <1>3, <2>1, <2>3, <3>1, <3>2, <3>3 DEF WriteChunk, Filtered, Refreshed, Listed
    <3>5. hash'[c] = hash[c] /\ vecText'[c] = vecText[c]
      BY <2>1, <2>3 DEF WriteChunk
    <3>6. QED
      BY <1>1, <3>1, <3>2, <3>4, <3>5 DEF Current
  <2>4. QED
    BY <2>2, <2>3
<1>4. ASSUME NEW c \in Card, c \notin chunk
      PROVE vecText'[c] = vecText[c] /\ vecFilters'[c] = vecFilters[c] /\ hash'[c] = hash[c]
  BY <1>4 DEF WriteChunk, Filtered, Pending, Refreshed
<1>5. \A c \in todo'[b] : known'[b][c] = hash'[c] /\ knownFilters'[b][c] = vecFilters'[c]
  BY <1>1, <1>4 DEF Progress, TypeInv, TypeOK
<1>6. \A c \in Listed(seenText'[b]) \ todo'[b] : Current(b, c)'
  BY <1>1, <1>3, <1>4 DEF Progress, Current, Listed
<1>7. QED
  BY <1>1, <1>5, <1>6 DEF Progress, Listed

LEMMA ProgressStep ==
    TypeInv /\ SoundInv /\ ProgressInv /\ [Next]_vars => ProgressInv'
<1> SUFFICES ASSUME TypeInv, SoundInv, ProgressInv, [Next]_vars,
                    NEW b \in Builder, clean'[b]
             PROVE  Progress(b)'
  BY DEF ProgressInv
<1> USE DEF Resting, Step
<1>1. ASSUME clean[b], UNCHANGED <<index, at, loaded, read, todo, doomed>> PROVE Progress(b)'
  BY <1>1 DEF ProgressInv, Progress, Current, Listed, index, loaded, read
<1>2. CASE ImportWrites
  BY <1>1, <1>2 DEF ImportWrites, PutCard, history
<1>3. ASSUME NEW o \in Builder, NEW r \in BOOLEAN, NEW p \in BOOLEAN, Call(o, r, p)
      PROVE Progress(b)'
  <2>1. o = b
    BY <1>3, Zenon DEF Call
  <2>2. at'[b] \in {"dropping", "creating"}
    BY <1>3, <2>1 DEF TypeInv, TypeOK, Call, Goto
  <2>3. QED
    BY <2>2 DEF Progress
\* Any other step is of the one builder that is not at rest.
<1>4. ASSUME NEW o \in Builder, at[o] \notin Resting, clean' = clean PROVE o = b /\ clean[b]
  BY <1>4 DEF SoundInv, Alone, Others
<1>5. ASSUME NEW o \in Builder, DropVectors(o) \/ ClearHashes(o) \/ CreateTable(o) \/ Stop(o)
      PROVE Progress(b)'
  <2>1. at[o] \notin Resting /\ clean' = clean
    BY <1>5 DEF DropVectors, ClearHashes, CreateTable, Stop, history
  <2>2. o = b
    BY <1>4, <2>1
  <2>3. at'[b] \in {"clearing", "creating", "readingHashes", "failed"}
    BY <1>5, <2>2 DEF TypeInv, TypeOK, DropVectors, ClearHashes, CreateTable, Stop, Goto
  <2>4. QED
    BY <2>3 DEF Progress
<1>6. ASSUME NEW o \in Builder, ReadHashes(o) PROVE Progress(b)'
  BY <1>4, <1>6 DEF TypeInv, TypeOK, Progress, ReadHashes, Goto, index, history
<1>7. ASSUME NEW o \in Builder, ReadFilters(o) PROVE Progress(b)'
  BY <1>4, <1>7 DEF TypeInv, TypeOK, ProgressInv, Progress, ReadFilters, Goto, index, history
<1>8. ASSUME NEW o \in Builder, ReadCards(o) PROVE Progress(b)'
  <2>1. o = b /\ clean[b] /\ at[b] = "readingCards"
    BY <1>4, <1>8 DEF ReadCards, history
  <2>2. at'[b] = "embedding" /\ todo'[b] = Listed(seenText'[b])
    BY <1>8, <2>1 DEF TypeInv, TypeOK, ReadCards, Goto, Listed
  <2>3. UNCHANGED <<hash, vecFilters, known, knownFilters>>
    BY <1>8 DEF ReadCards, index, loaded
  <2>4. known[b] = hash /\ knownFilters[b] = vecFilters
    BY <2>1 DEF ProgressInv, Progress
  <2>5. QED
    BY <2>2, <2>3, <2>4 DEF Progress
<1>9. ASSUME NEW o \in Builder, NEW chunk \in SUBSET todo[o], WriteChunk(o, chunk)
      PROVE Progress(b)'
  <2>1. o = b /\ clean[b]
    BY <1>4, <1>9 DEF WriteChunk, history
  <2>2. QED
    BY <1>9, <2>1, ChunkIsCurrent DEF ProgressInv
<1>10. ASSUME NEW o \in Builder, Embedded(o) PROVE Progress(b)'
  <2>1. o = b /\ clean[b] /\ at[b] = "embedding" /\ todo[b] = {}
    BY <1>4, <1>10 DEF Embedded, history
  <2>2. at'[b] \in {"readingLiving", "ok"} /\ UNCHANGED <<index, read, doomed>>
    BY <1>10, <2>1 DEF TypeInv, TypeOK, Embedded, Goto, LastStep
  <2>3. \A c \in Listed(seenText[b]) : Current(b, c)
    BY <2>1 DEF ProgressInv, Progress
  <2>4. QED
    BY <2>2, <2>3 DEF Progress, Current, Listed, index, read
<1>11. ASSUME NEW o \in Builder, ReadLiving(o) \/ ReadIndexed(o) PROVE Progress(b)'
  <2>1. /\ at[o] \in {"readingLiving", "readingIndexed"} /\ UNCHANGED <<index, read, history>>
        /\ \E s \in {"readingIndexed", "ok", "pruning"} : Goto(o, s)
    BY <1>11 DEF ReadLiving, ReadIndexed
  <2>2. o = b /\ clean[b] /\ at'[b] \in {"readingIndexed", "ok", "pruning"}
    BY <1>4, <2>1 DEF TypeInv, TypeOK, Goto, history
  <2>3. \A c \in Listed(seenText[b]) : Current(b, c)
    BY <2>1, <2>2 DEF ProgressInv, Progress
  <2>4. QED
    BY <2>1, <2>2, <2>3 DEF Progress, Current, Listed, index, read
<1>12. ASSUME NEW o \in Builder, DeleteOrphans(o) PROVE Progress(b)'
  <2>1. o = b /\ clean[b] /\ at[b] = "pruning"
    BY <1>4, <1>12 DEF DeleteOrphans, history
  <2>2. at'[b] = "ok" /\ UNCHANGED <<read, doomed>>
    BY <1>12, <2>1 DEF TypeInv, TypeOK, DeleteOrphans, Goto
  <2>3. \A c \in Listed(seenText[b]) : Current(b, c)
    BY <2>1 DEF ProgressInv, Progress
  <2>4. \A c \in Listed(seenText[b]) \ doomed[b] : Current(b, c)'
    BY <1>12, <2>1, <2>2, <2>3 DEF Current, DeleteOrphans, Listed, read
  <2>5. QED
    BY <2>2, <2>4 DEF Progress, Listed, read
<1>13. CASE UNCHANGED vars
  BY <1>1, <1>13 DEF vars, history
<1>14. QED
  BY <1>2, <1>3, <1>5, <1>6, <1>7, <1>8, <1>9, <1>10, <1>11, <1>12, <1>13 DEF Next, Build

\* A build that answers ok, ran alone and began on a sound index or rebuilt it
\* has left every card it read with its own vector, filters and hash, whatever
\* was interrupted before it.
THEOREM OkBuildIsCurrent == Spec => []OkMeansCurrent
<1>1. Init => ProgressInv
  <2>1. Init => \A b \in Builder : ~clean[b]
    BY DEF Init
  <2>2. QED
    BY <2>1 DEF ProgressInv
<1>2. ProgressInv => OkMeansCurrent
  BY DEF ProgressInv, Progress, Current, OkMeansCurrent
<1>3. QED
  BY <1>1, <1>2, SoundCorrect, ProgressStep, PTL DEF Spec
=============================================================================
