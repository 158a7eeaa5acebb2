--------------------------- MODULE CacheManager ---------------------------
(***************************************************************************)
(* The operations of class CacheManager with its CacheWriter thread, its   *)
(* SQLite table and its generation file (Cache/*.cpp).  update() and the   *)
(* writer's two halves are critical sections of their mutexes; the steps   *)
(* of commitGeneration() are separate, because a crash may fall between.   *)
(*                                                                         *)
(* The modification time and size of a file are a version number, and so   *)
(* is the time of the signature file.  A verdict is known by what it was   *)
(* computed from: the content of the file, the signatures, and whether a   *)
(* read error has cut the reading short (a reading).                       *)
(***************************************************************************)
EXTENDS Integers, FiniteSets

CONSTANTS
  Paths,
  MaxVersion,        \* bound: how often a file can change, plus one
  MaxSignatures,     \* bound: how often the signatures can change, plus one
  BatchSize,         \* kBatchSize
  MaxGeneration,     \* the largest std::uint64_t: 2^64 - 1 in the code
  DatabaseMayFail,   \* whether statements and transactions can fail
  OpenMayFail        \* whether opening the database can fail

ASSUME CacheAssumption ==
  /\ MaxVersion \in Nat \ {0}
  /\ MaxSignatures \in Nat \ {0}
  /\ BatchSize \in Nat \ {0}
  /\ MaxGeneration \in Nat \ {0} /\ MaxGeneration % 2 = 1
  /\ DatabaseMayFail \in BOOLEAN
  /\ OpenMayFail \in BOOLEAN

Versions == 1 .. MaxVersion
SignatureVersions == 1 .. MaxSignatures

(* FileMetadata, the time of the signature file being 0 when it could not  *)
(* be read; what a verdict can be about; and what it is computed from.     *)
Metadata == [file : Versions, signatures : SignatureVersions \cup {0}]
Contents == [file : Versions, signatures : SignatureVersions]
Readings == [file : Versions, signatures : SignatureVersions, cut : BOOLEAN]

VARIABLES
  rows,                \* the table cache_entries
  gen_file,            \* generation.txt (0 when missing or unreadable)
  cache_open,          \* database_ is open
  cache_entries,       \* cache_entries_
  current_generation,  \* current_generation_
  upsert_queue,        \* upsert_queue_; a path is in it at most once
  batch,               \* what the writer swapped out of it
  writer,              \* the writer thread
  writer_stop          \* stop_

cache_disk == <<rows, gen_file>>
cache_memory == <<cache_open, cache_entries, current_generation,
                  upsert_queue, batch, writer, writer_stop>>
cache_vars == <<cache_disk, cache_memory>>

NoEntry == [generation |-> -1]
Generations == 0 .. MaxGeneration
Entries ==
  [metadata : Metadata, judged : Readings, generation : Generations]
Empty == [p \in Paths |-> NoEntry]
Queued == [path : Paths, entry : Entries]

CacheTypeOK ==
  /\ rows \in [Paths -> Entries \cup {NoEntry}]
  /\ gen_file \in Generations
  /\ cache_open \in BOOLEAN
  /\ cache_entries \in [Paths -> Entries \cup {NoEntry}]
  /\ current_generation \in Generations
  /\ upsert_queue \subseteq Queued
  /\ batch \subseteq Queued
  /\ writer \in {"waiting", "writing", "last", "gone"}
  /\ writer_stop \in BOOLEAN

CacheMemoryLost ==
  /\ cache_open' = FALSE
  /\ cache_entries' = Empty
  /\ current_generation' = 0
  /\ upsert_queue' = {}
  /\ batch' = {}
  /\ writer' = "waiting"
  /\ writer_stop' = FALSE

(* static_cast<std::int64_t>: how the table compares generations.          *)
Half == (MaxGeneration + 1) \div 2
Signed(generation) ==
  IF generation < Half THEN generation ELSE generation - 2 * Half

(* clearAll() and loadAll() of the table: on any exception, nothing.       *)
ClearAll == rows' = Empty \/ (DatabaseMayFail /\ rows' = rows)

LoadAll ==
  \/ cache_entries' = rows'
  \/ DatabaseMayFail /\ cache_entries' = Empty

(***************************************************************************)
(* load(): when the database cannot be opened the scan goes on, with an    *)
(* empty cache and the generation of a fresh object, 0.  The last possible *)
(* generation is never passed: the table is wiped and counting restarts.   *)
(***************************************************************************)
OpenFails ==
  /\ OpenMayFail
  /\ UNCHANGED <<cache_disk, cache_memory>>

(* Mutant: the counter restarts, but the rows of old generations stay.     *)
LoadSucceedsUnwiped(may_fail) ==
  /\ cache_open' = TRUE
  /\ current_generation' = IF gen_file < MaxGeneration THEN gen_file + 1 ELSE 1
  /\ gen_file' = IF gen_file < MaxGeneration THEN gen_file ELSE 0
  /\ cache_entries' = rows
  /\ UNCHANGED <<rows, upsert_queue, batch, writer, writer_stop>>

LoadSucceeds(may_fail) ==
  /\ cache_open' = TRUE
  /\ \/ /\ gen_file < MaxGeneration
        /\ current_generation' = gen_file + 1
        /\ UNCHANGED cache_disk
     \/ /\ gen_file = MaxGeneration
        /\ current_generation' = 1
        /\ ClearAll
        /\ (gen_file' = 0 \/ (may_fail /\ gen_file' = gen_file))
  /\ LoadAll
  /\ UNCHANGED <<upsert_queue, batch, writer, writer_stop>>

CacheLoad(may_fail) == OpenFails \/ LoadSucceeds(may_fail)

(* Mutant: the time of the signature file is not compared.                 *)
CachedWhateverSignatures(p, metadata) ==
  cache_entries[p] # NoEntry /\ cache_entries[p].metadata.file = metadata.file

(* cachedVerdict(): an entry counts when its metadata is the file's.       *)
Cached(p, metadata) ==
  cache_entries[p] # NoEntry /\ cache_entries[p].metadata = metadata

(* update(): stamp the entry with this scan's generation and queue it.     *)
Update(p, metadata, judged) ==
  LET entry == [metadata |-> metadata, judged |-> judged,
                generation |-> current_generation]
  IN  /\ cache_entries' = [cache_entries EXCEPT ![p] = entry]
      /\ upsert_queue' = IF writer_stop THEN upsert_queue
                         ELSE upsert_queue \cup {[path |-> p, entry |-> entry]}
      /\ UNCHANGED <<cache_disk, cache_open, current_generation, batch, writer, writer_stop>>

(* Mutant: the writer waits for a full batch even when told to stop.       *)
WriterTakesFullBatch ==
  /\ writer = "waiting"
  /\ Cardinality(upsert_queue) >= BatchSize
  /\ batch' = upsert_queue
  /\ upsert_queue' = {}
  /\ writer' = IF writer_stop THEN "last" ELSE "writing"
  /\ UNCHANGED <<cache_disk, cache_open, cache_entries, current_generation, writer_stop>>

(***************************************************************************)
(* The writer's loop: take everything that is queued when a batch is full  *)
(* or the writer is told to stop, write it in one transaction, and leave   *)
(* after the batch taken at the stop.  A failed transaction is ignored.    *)
(***************************************************************************)
WriterTakes ==
  /\ writer = "waiting"
  /\ writer_stop \/ Cardinality(upsert_queue) >= BatchSize
  /\ batch' = upsert_queue
  /\ upsert_queue' = {}
  /\ writer' = IF writer_stop THEN "last" ELSE "writing"
  /\ UNCHANGED <<cache_disk, cache_open, cache_entries, current_generation, writer_stop>>

Upserted ==
  [p \in Paths |-> IF \E q \in batch : q.path = p
                   THEN (CHOOSE q \in batch : q.path = p).entry
                   ELSE rows[p]]

WriterWrites ==
  /\ writer \in {"writing", "last"}
  /\ \/ cache_open /\ rows' = Upserted
     \/ (DatabaseMayFail \/ ~cache_open) /\ rows' = rows
  /\ batch' = {}
  /\ writer' = IF writer = "last" THEN "gone" ELSE "waiting"
  /\ UNCHANGED <<gen_file, cache_open, cache_entries, current_generation,
                 upsert_queue, writer_stop>>

(* commitGeneration(): finish() ...                                        *)
TellWriterToStop ==
  /\ writer_stop' = TRUE
  /\ UNCHANGED <<cache_disk, cache_open, cache_entries, current_generation,
                 upsert_queue, batch, writer>>

(* Mutant: the generation before the current one is kept.                  *)
CleanOlderGenerations ==
  /\ rows' = [p \in Paths |-> IF Signed(rows[p].generation) < Signed(current_generation) - 1
                              THEN NoEntry ELSE rows[p]]
  /\ UNCHANGED <<gen_file, cache_memory>>

(* ... cleanOldGenerations() after a full scan, in signed arithmetic ...   *)
CleanOldGenerations ==
  /\ \/ /\ cache_open
        /\ rows' = [p \in Paths |->
                      IF Signed(rows[p].generation) < Signed(current_generation)
                      THEN NoEntry ELSE rows[p]]
     \/ /\ DatabaseMayFail \/ ~cache_open
        /\ rows' = rows
  /\ UNCHANGED <<gen_file, cache_memory>>

(* ... and saveLastCompletedGeneration(), atomic, or failing, or renaming  *)
(* a file into place whose unchecked write had failed.                     *)
SaveGeneration(may_fail) ==
  /\ \/ gen_file' = current_generation
     \/ may_fail /\ gen_file' \in {gen_file, 0}
  /\ UNCHANGED rows
=============================================================================
