----------------------------- MODULE PruneProofs -----------------------------
(***************************************************************************)
(* Proofs about the cache of the scan pipeline: what the writer has made   *)
(* durable when a scan ends, and what the pruning after a full scan keeps  *)
(* and drops.                                                              *)
(***************************************************************************)
EXTENDS ScanPipelineProofs, FiniteSetTheorems

(* The writer's loop against the scan: nothing is queued without a scan;   *)
(* the writer is told to stop when the tasks are done, leaves with an      *)
(* empty queue, and carries the verdicts of this scan only.                *)
WriterInv ==
  /\ proc = "down" => upsert_queue = {} /\ writer = "waiting" /\ commit = "no"
  /\ writer_stop <=> commit # "no"
  /\ commit # "no" => proc = "draining" /\ inflight = {}
  /\ commit \in {"joined", "pruned"} => writer = "gone"
  /\ writer \in {"last", "gone"} => writer_stop /\ upsert_queue = {}
  /\ writer \in {"waiting", "gone"} => batch = {}
  /\ \A q \in upsert_queue \cup batch : q.entry.generation = current_generation

LEMMA StartWriter ==
  ASSUME PipelineInv, WriterInv, NEW r \in Roots, StartScan(r)
  PROVE  WriterInv'
<1>1. /\ proc = "down" /\ proc' = "walking" /\ inflight' = inflight
      /\ UNCHANGED <<commit, upsert_queue, batch, writer, writer_stop>>
  BY DEF StartScan, Start, CacheLoad, OpenFails, LoadSucceeds, cache_memory
<1> QED BY <1>1 DEF WriterInv

(* A verdict is queued only while its task runs, or the walk goes on.      *)
LEMMA UpdateWriter ==
  ASSUME PipelineInv, WriterInv, NEW f \in Paths, NEW m, NEW c, Update(f, m, c),
         proc = "walking" \/ inflight # {},
         commit' = commit, proc' = proc, inflight' \subseteq inflight
  PROVE  WriterInv'
<1>1. commit = "no" /\ proc # "down" /\ ~writer_stop
  BY DEF WriterInv, PipelineInv, TasksAreMet
<1>2. /\ UNCHANGED <<current_generation, batch, writer, writer_stop>>
      /\ upsert_queue' = upsert_queue \cup
           {[path |-> f, entry |-> [metadata |-> m, judged |-> c,
                                    generation |-> current_generation]]}
  BY <1>1 DEF Update
<1> QED BY <1>1, <1>2 DEF WriterInv

LEMMA WriterStepWriter ==
  ASSUME PipelineInv, WriterInv, WriterStep
  PROVE  WriterInv'
<1>1. UNCHANGED <<proc, inflight, commit, current_generation, writer_stop>>
  BY DEF WriterStep, WriterTakes, WriterWrites, vars, scan_memory, pipeline_vars
<1>2. CASE WriterTakes
  <2>1. proc # "down"
    <3> SUFFICES ASSUME proc = "down" PROVE FALSE
      OBVIOUS
    <3>1. upsert_queue = {} /\ ~writer_stop
      BY DEF WriterInv
    <3>2. Cardinality(upsert_queue) = 0 /\ BatchSize > 0
      BY <3>1, FS_EmptySet, CacheAssumption
    <3> QED BY <1>2, <3>1, <3>2, CacheAssumption DEF WriterTakes
  <2> QED BY <1>1, <1>2, <2>1 DEF WriterInv, WriterTakes
<1>3. CASE WriterWrites
  BY <1>1, <1>3 DEF WriterInv, WriterWrites
<1> QED BY <1>2, <1>3 DEF WriterStep

LEMMA CommitWriter ==
  ASSUME PipelineInv, WriterInv, CommitStep
  PROVE  WriterInv'
<1>1. UNCHANGED <<proc, inflight, upsert_queue, batch, writer, current_generation>>
  BY DEF CommitStep, CommitGeneration, TellWriterToStop, CleanOldGenerations, vars,
         scan_memory, cache_vars, cache_memory
<1>2. /\ commit' # "no" /\ writer_stop' /\ proc = "draining" /\ inflight = {}
      /\ commit' \in {"joined", "pruned"} => writer = "gone"
  BY DEF CommitStep, CommitGeneration, TellWriterToStop, CleanOldGenerations, WriterInv,
         cache_vars, cache_memory
<1> QED BY <1>1, <1>2 DEF WriterInv

LEMMA OtherWriter ==
  ASSUME PipelineInv, WriterInv, UNCHANGED cache_memory, commit' = commit,
         commit # "no" => proc' = proc,
         proc' = "down" <=> proc = "down",
         inflight' \subseteq inflight \/ proc = "walking"
  PROVE  WriterInv'
BY DEF WriterInv, cache_memory

LEMMA WriterInvStep ==
  ASSUME PipelineInv, WriterInv, [PipelineNext]_all_vars
  PROVE  WriterInv'
<1>1. ASSUME NEW r \in Roots, StartScan(r) PROVE WriterInv'
  BY <1>1, StartWriter
<1>2. ASSUME NEW f \in Files, HandleHit(f) PROVE WriterInv'
  BY <1>2, UpdateWriter, PipelineAssumption DEF HandleHit, CacheHit, Visit
<1>3. ASSUME NEW f \in Files, HandleMiss(f) \/ SkipFile(f) PROVE WriterInv'
  BY <1>3, OtherWriter
  DEF HandleMiss, SkipFile, CacheMiss, PassOver, Visit, cache_vars
<1>4. CASE EndHit \/ EndDiscovery \/ ReadSignatures \/ EditSignatures \/ UNCHANGED all_vars
  BY <1>4, OtherWriter
  DEF EndHit, CompleteHit, EndDiscovery, FinishDiscovery, ReadSignatures, EditSignatures,
      all_vars, cache_vars, pipeline_vars, vars, scan_memory, WriterInv
<1>5. ASSUME NEW f \in Files, PipelineWork(f) PROVE WriterInv'
  <2>1. CASE RecordVerdict(f)
    BY <2>1, UpdateWriter, PipelineAssumption DEF RecordVerdict, vars, scan_memory
  <2>2. CASE ~ RecordVerdict(f)
    BY <1>5, <2>2, OtherWriter
    DEF PipelineWork, FailTask, ScanThrows, ScanClean, ScanMalicious, EndTask,
        CompleteTask, TaskThrows, cache_vars, vars, scan_memory
  <2> QED BY <2>1, <2>2
<1>6. CASE CommitStep
  BY <1>6, CommitWriter
<1>7. CASE WriterStep
  BY <1>7, WriterStepWriter
<1>8. CASE EndScan \/ CrashScan
  BY <1>8 DEF EndScan, CrashScan, Finish, Crash, PipelineMemoryLost, CacheMemoryLost,
     WriterInv
<1>9. ASSUME NEW f \in Files, ModifyFile(f) \/ RestoreFile(f) PROVE WriterInv'
  BY <1>9, OtherWriter DEF ModifyFile, RestoreFile, cache_vars, vars, scan_memory
<1> QED BY <1>1, <1>2, <1>3, <1>4, <1>5, <1>6, <1>7, <1>8, <1>9 DEF PipelineNext, PipelineWalk

LEMMA WriterInvariant == PipelineSpec => [](PipelineInv /\ WriterInv)
<1>1. PipelineSpec => []TypeOK
  BY PipelineImplementsResumeScan, TypeCorrect, PTL
<1>2. PipelineInit => PipelineInv /\ WriterInv
  BY PipelineInvInit DEF PipelineInit, Init, WriterInv
<1>3. PipelineInv /\ WriterInv /\ TypeOK' /\ [PipelineNext]_all_vars
        => PipelineInv' /\ WriterInv'
  BY PipelineInvStep, WriterInvStep
<1> QED BY <1>1, <1>2, <1>3, PTL DEF PipelineSpec
-----------------------------------------------------------------------------
(* What this process has stamped is durable, or on its way there, as long  *)
(* as the database has been opened and its batches succeed.                *)
StampsInv ==
  cache_open =>
    \A f \in stamped : \/ rows[f].generation = current_generation
                       \/ \E q \in upsert_queue \cup batch : q.path = f

CacheIsOpen == proc # "down" => cache_open

LEMMA StampsSettle ==
  ASSUME PipelineInv, WriterInv, StampsInv, cache_open, writer = "gone",
         NEW f \in stamped
  PROVE  rows[f].generation = current_generation
BY DEF WriterInv, StampsInv

LEMMA UpdateStamps ==
  ASSUME PipelineInv, WriterInv, StampsInv, NEW f \in Files, NEW m, NEW c,
         Update(f, m, c), proc = "walking" \/ inflight # {}, stamped' = stamped \cup {f}
  PROVE  StampsInv'
<1>1. proc # "down" /\ ~writer_stop
  BY DEF WriterInv, PipelineInv, TasksAreMet
<1>2. /\ UNCHANGED <<rows, cache_open, current_generation, batch>>
      /\ upsert_queue' = upsert_queue \cup
           {[path |-> f, entry |-> [metadata |-> m, judged |-> c,
                                    generation |-> current_generation]]}
  BY <1>1 DEF Update, cache_disk
<1> DEFINE new == [path |-> f, entry |-> [metadata |-> m, judged |-> c,
                                          generation |-> current_generation]]
<1>3. new.path = f /\ new \in upsert_queue' \cup batch'
  BY <1>2
<1>4. cache_open' =>
        \A g \in stamped : \/ rows'[g].generation = current_generation'
                           \/ \E q \in upsert_queue' \cup batch' : q.path = g
  BY <1>2 DEF StampsInv
<1> QED BY <1>3, <1>4 DEF StampsInv

LEMMA UpsertedStamps ==
  ASSUME PipelineInv, WriterInv, NEW f \in Files
  PROVE  /\ (\E q \in batch : q.path = f) => Upserted[f].generation = current_generation
         /\ (~ \E q \in batch : q.path = f) => Upserted[f] = rows[f]
<1>1. CASE \E q \in batch : q.path = f
  <2> DEFINE q == CHOOSE q \in batch : q.path = f
  <2>1. q \in batch /\ q.entry.generation = current_generation
    BY <1>1 DEF WriterInv
  <2>2. Upserted[f] = q.entry
    BY <1>1, PipelineAssumption DEF Upserted
  <2> QED BY <1>1, <2>1, <2>2
<1>2. CASE ~ \E q \in batch : q.path = f
  BY <1>2, PipelineAssumption DEF Upserted
<1> QED BY <1>1, <1>2

LEMMA WriterStamps ==
  ASSUME PipelineInv, WriterInv, StampsInv, ~DatabaseMayFail, WriterStep
  PROVE  StampsInv'
<1>1. UNCHANGED <<proc, cache_open, stamped, current_generation>> /\ stamped \subseteq Files
  BY DEF WriterStep, WriterTakes, WriterWrites, vars, scan_memory, pipeline_vars, stamps,
         PipelineInv, PipelineTypeOK
<1>2. CASE WriterTakes
  BY <1>1, <1>2 DEF WriterTakes, WriterInv, StampsInv, cache_disk
<1>3. CASE WriterWrites
  <2> SUFFICES ASSUME cache_open, NEW f \in stamped
               PROVE  \/ rows'[f].generation = current_generation
                      \/ \E q \in upsert_queue' \cup batch' : q.path = f
    BY <1>1 DEF StampsInv
  <2>1. rows' = Upserted /\ upsert_queue' = upsert_queue
    BY <1>3 DEF WriterWrites, StampsInv
  <2> QED BY <1>1, <2>1, UpsertedStamps DEF StampsInv
<1> QED BY <1>2, <1>3 DEF WriterStep

LEMMA SignedIsInt == ASSUME NEW g \in Int PROVE Signed(g) \in Int
BY CacheAssumption DEF Signed, Half

(* Pruning drops a row only if it is older than the current generation.    *)
LEMMA CleanKeepsCurrent ==
  ASSUME PipelineInv, CleanOldGenerations, NEW f \in Files,
         rows[f].generation = current_generation
  PROVE  rows'[f] = rows[f]
<1>1. ~ (Signed(rows[f].generation) < Signed(current_generation))
  <2>1. current_generation \in Int
    BY CacheAssumption DEF PipelineInv, PipelineTypeOK, CacheTypeOK, Generations
  <2>2. Signed(current_generation) \in Int
    BY <2>1, SignedIsInt
  <2> QED BY <2>2
<1> QED BY <1>1, PipelineAssumption DEF CleanOldGenerations

LEMMA CommitStamps ==
  ASSUME PipelineInv, WriterInv, StampsInv, CommitStep
  PROVE  StampsInv'
<1>1. UNCHANGED <<proc, stamped, cache_open, current_generation, upsert_queue, batch>>
      /\ stamped \subseteq Files
  BY DEF CommitStep, CommitGeneration, TellWriterToStop, CleanOldGenerations, vars,
         scan_memory, cache_vars, cache_memory, stamps, PipelineInv, PipelineTypeOK
<1>2. CASE rows' = rows
  BY <1>1, <1>2 DEF StampsInv
<1>3. CASE commit = "joined" /\ CleanOldGenerations
  <2> SUFFICES ASSUME cache_open, NEW f \in stamped
               PROVE  rows'[f].generation = current_generation
    BY <1>1 DEF StampsInv
  <2>1. rows[f].generation = current_generation
    BY <1>3, StampsSettle DEF WriterInv
  <2> QED BY <1>1, <1>3, <2>1, CleanKeepsCurrent
<1> QED BY <1>2, <1>3
    DEF CommitStep, CommitGeneration, TellWriterToStop, cache_vars, cache_disk

LEMMA StampsInvStep ==
  ASSUME PipelineInv, WriterInv, StampsInv, ~DatabaseMayFail, [PipelineNext]_all_vars
  PROVE  StampsInv'
<1>1. ASSUME NEW r \in Roots, StartScan(r) PROVE StampsInv'
  BY <1>1 DEF StartScan, CacheLoad, OpenFails, LoadSucceeds, StampsInv
<1>2. ASSUME NEW f \in Files, HandleHit(f) PROVE StampsInv'
  BY <1>2, UpdateStamps DEF HandleHit, CacheHit, Visit
<1>3. ASSUME NEW f \in Files, PipelineWork(f) PROVE StampsInv'
  <2>1. CASE RecordVerdict(f)
    BY <2>1, UpdateStamps DEF RecordVerdict
  <2>2. CASE ~ RecordVerdict(f)
    BY <1>3, <2>2
    DEF PipelineWork, FailTask, ScanThrows, ScanClean, ScanMalicious, EndTask,
        CompleteTask, TaskThrows, cache_vars, cache_disk, cache_memory, vars, scan_memory,
        stamps, StampsInv
  <2> QED BY <2>1, <2>2
<1>4. CASE CommitStep
  BY <1>4, CommitStamps
<1>5. CASE WriterStep
  BY <1>5, WriterStamps
<1>6. CASE EndScan \/ CrashScan
  BY <1>6 DEF EndScan, CrashScan, PipelineMemoryLost, CacheMemoryLost, StampsInv
<1>7. CASE \/ EndHit \/ EndDiscovery \/ ReadSignatures \/ EditSignatures \/ UNCHANGED all_vars
           \/ \E f \in Files : HandleMiss(f) \/ SkipFile(f) \/ ModifyFile(f) \/ RestoreFile(f)
  <2>1. UNCHANGED <<cache_vars, stamped>> /\ (proc' = "down" <=> proc = "down")
    BY <1>7
    DEF EndHit, CompleteHit, EndDiscovery, FinishDiscovery, ReadSignatures, EditSignatures,
        HandleMiss, SkipFile, CacheMiss, PassOver, Visit, ModifyFile, RestoreFile,
        all_vars, pipeline_vars, stamps, vars, scan_memory
  <2> QED BY <2>1 DEF cache_vars, cache_disk, cache_memory, StampsInv
<1> QED BY <1>1, <1>2, <1>3, <1>4, <1>5, <1>6, <1>7 DEF PipelineNext, PipelineWalk

LEMMA StampsInvariant ==
  ~DatabaseMayFail => (PipelineSpec => []StampsInv)
<1> SUFFICES ASSUME ~DatabaseMayFail PROVE PipelineSpec => []StampsInv
  OBVIOUS
<1>1. PipelineInit => StampsInv
  BY DEF PipelineInit, Init, StampsInv
<1>2. PipelineInv /\ WriterInv /\ StampsInv /\ [PipelineNext]_all_vars => StampsInv'
  BY StampsInvStep
<1> QED BY <1>1, <1>2, WriterInvariant, PTL DEF PipelineSpec

(* A database that opens stays open as long as the process runs.           *)
LEMMA CacheStaysOpen ==
  ~OpenMayFail => (PipelineSpec => []CacheIsOpen)
<1> SUFFICES ASSUME ~OpenMayFail PROVE PipelineSpec => []CacheIsOpen
  OBVIOUS
<1>1. PipelineInit => CacheIsOpen
  BY DEF PipelineInit, Init, CacheIsOpen
<1>2. PipelineInv /\ CacheIsOpen /\ [PipelineNext]_all_vars => CacheIsOpen'
  <2> SUFFICES ASSUME PipelineInv, CacheIsOpen, [PipelineNext]_all_vars
               PROVE  CacheIsOpen'
    OBVIOUS
  <2>1. CASE \E r \in Roots : StartScan(r)
    BY <2>1 DEF StartScan, CacheLoad, OpenFails, LoadSucceeds, CacheIsOpen
  <2>2. CASE EndScan \/ CrashScan
    BY <2>2 DEF EndScan, CrashScan, Finish, Crash, CacheIsOpen
  <2>3. CASE ~ ((\E r \in Roots : StartScan(r)) \/ EndScan \/ CrashScan)
    <3>1. cache_open' = cache_open /\ (proc' = "down" <=> proc = "down")
      BY <2>3
      DEF PipelineNext, PipelineWalk, PipelineWork, ReadSignatures, HandleMiss, HandleHit,
          SkipFile, EndHit, EndDiscovery, CacheMiss, CacheHit, PassOver, Visit, CompleteHit,
          FinishDiscovery, FailTask, ScanClean, ScanMalicious, ScanThrows, RecordVerdict,
          Update, EndTask, CompleteTask, TaskThrows, CommitStep, CommitGeneration,
          TellWriterToStop, CleanOldGenerations, WriterStep, WriterTakes, WriterWrites,
          ModifyFile, RestoreFile, EditSignatures, all_vars, cache_vars, cache_memory,
          vars, scan_memory
    <3> QED BY <3>1 DEF CacheIsOpen
  <2> QED BY <2>1, <2>2, <2>3
<1> QED BY <1>1, <1>2, WriterInvariant, PTL DEF PipelineSpec

(* Where the database opens and works, every verdict that this scan has    *)
(* stamped is in the table by the time the writer has been joined, with    *)
(* the present generation: the writer never leaves a batch behind.         *)
THEOREM EveryStampIsDurable ==
  ~DatabaseMayFail /\ ~OpenMayFail => (PipelineSpec => []StampsAreDurable)
<1> SUFFICES ASSUME ~DatabaseMayFail /\ ~OpenMayFail PROVE PipelineSpec => []StampsAreDurable
  OBVIOUS
<1>1. PipelineInv /\ WriterInv /\ StampsInv /\ CacheIsOpen => StampsAreDurable
  <2> SUFFICES ASSUME PipelineInv, WriterInv, StampsInv, CacheIsOpen, commit \in {"joined", "pruned"}
               PROVE  \A f \in stamped : rows[f].generation = current_generation
    BY DEF StampsAreDurable
  <2>1. writer = "gone" /\ cache_open
    BY DEF WriterInv, CacheIsOpen
  <2> QED BY <2>1, StampsSettle
<1>2. ~DatabaseMayFail /\ ~OpenMayFail
  OBVIOUS
<1> QED BY <1>1, <1>2, WriterInvariant, StampsInvariant, CacheStaysOpen, PTL
-----------------------------------------------------------------------------
(* While a process runs, only the pruning after a scan drops rows.         *)
LEMMA DroppedWhenPruned ==
  ASSUME PipelineInv, [PipelineNext]_all_vars, NEW f \in Files, Dropped(f)
  PROVE  commit = "joined" /\ root = FullRoot /\ CleanOldGenerations /\ commit' = "pruned"
<1>1. ASSUME WriterWrites PROVE rows'[f] # NoEntry
  <2>1. \A q \in batch : q.entry # NoEntry
    BY CacheAssumption
    DEF PipelineInv, PipelineTypeOK, CacheTypeOK, Queued, Entries, Generations, NoEntry
  <2>2. Upserted[f] # NoEntry
    <3>1. CASE \E q \in batch : q.path = f
      <4> DEFINE q == CHOOSE q \in batch : q.path = f
      <4>1. q \in batch
        BY <3>1
      <4>2. Upserted[f] = q.entry
        BY <3>1, PipelineAssumption DEF Upserted
      <4> QED BY <2>1, <4>1, <4>2
    <3>2. CASE ~ \E q \in batch : q.path = f
      BY <3>2, PipelineAssumption DEF Upserted, Dropped
    <3> QED BY <3>1, <3>2
  <2> QED BY <1>1, <2>2 DEF WriterWrites, Dropped
<1>2. rows' # rows /\ proc # "down"
  BY DEF Dropped
<1>3. CASE WriterStep
  BY <1>1, <1>2, <1>3 DEF WriterStep, WriterTakes, cache_disk, Dropped
<1>4. CASE CommitStep
  BY <1>2, <1>4 DEF CommitStep, CommitGeneration, TellWriterToStop, cache_vars, cache_disk
<1>5. CASE \E r \in Roots : StartScan(r)
  BY <1>2, <1>5 DEF StartScan, Start
<1>6. ASSUME NEW g \in Files, HandleHit(g) \/ RecordVerdict(g) PROVE rows' = rows
  BY <1>6 DEF HandleHit, RecordVerdict, Update, cache_disk
<1>7. CASE \/ EndHit \/ EndDiscovery \/ ReadSignatures \/ EditSignatures \/ UNCHANGED all_vars
           \/ EndScan \/ CrashScan
           \/ \E g \in Files : \/ HandleMiss(g) \/ SkipFile(g) \/ ModifyFile(g)
                               \/ RestoreFile(g) \/ FailTask(g) \/ ScanClean(g)
                               \/ ScanMalicious(g) \/ ScanThrows(g) \/ EndTask(g)
  <2>1. rows' = rows
    BY <1>7
    DEF EndHit, EndDiscovery, ReadSignatures, EditSignatures, EndScan, CrashScan,
        SaveGeneration, HandleMiss, SkipFile, ModifyFile, RestoreFile, FailTask, ScanClean,
        ScanMalicious, ScanThrows, EndTask, all_vars, cache_vars, cache_disk
  <2> QED BY <1>2, <2>1
<1> QED BY <1>2, <1>3, <1>4, <1>5, <1>6, <1>7 DEF PipelineNext, PipelineWalk, PipelineWork

(* So, where batches succeed, no row that this process has stamped is      *)
(* dropped by its own pruning, whether or not the database could be        *)
(* opened: one that could not is not pruned either.                        *)
THEOREM PruningKeepsWhatWasSeen ==
  ~DatabaseMayFail => (PipelineSpec => PruneKeepsSeen)
<1> SUFFICES ASSUME ~DatabaseMayFail PROVE PipelineSpec => PruneKeepsSeen
  OBVIOUS
<1>1. PipelineInv /\ WriterInv /\ StampsInv /\ [PipelineNext]_all_vars =>
        [\A f \in Files : Dropped(f) => f \notin stamped]_all_vars
  <2> SUFFICES ASSUME PipelineInv, WriterInv, StampsInv, [PipelineNext]_all_vars,
                      NEW f \in Files, Dropped(f), f \in stamped
               PROVE  FALSE
    OBVIOUS
  <2>1. commit = "joined" /\ CleanOldGenerations
    BY DroppedWhenPruned
  <2>2. cache_open
    BY <2>1 DEF CleanOldGenerations, Dropped
  <2>3. rows[f].generation = current_generation
    BY <2>1, <2>2, StampsSettle DEF WriterInv
  <2> QED BY <2>1, <2>3, CleanKeepsCurrent DEF Dropped
<1>2. ~DatabaseMayFail
  OBVIOUS
<1> QED BY <1>1, <1>2, WriterInvariant, StampsInvariant, PTL DEF PipelineSpec, PruneKeepsSeen
-----------------------------------------------------------------------------
(* Where everything works, a scan runs under the generation after the last *)
(* completed one, and no row is of a later one.                            *)
GenerationInv ==
  /\ proc # "down" => current_generation = gen_file + 1
  /\ \A f \in Files : rows[f].generation <= gen_file + 1

LEMMA RowsHaveGenerations ==
  ASSUME PipelineInv, NEW f \in Files
  PROVE  /\ rows[f].generation \in Int /\ gen_file \in Int /\ current_generation \in Int
         /\ 0 <= gen_file /\ NoEntry.generation = -1 /\ Empty[f] = NoEntry
<1>1. rows[f] \in Entries \cup {NoEntry}
  BY PipelineAssumption DEF PipelineInv, PipelineTypeOK, CacheTypeOK
<1>2. Generations \subseteq Int /\ \A g \in Generations : 0 <= g
  BY CacheAssumption DEF Generations
<1>3. NoEntry.generation = -1 /\ -1 \in Int
  BY DEF NoEntry
<1>4. rows[f].generation \in Int
  <2>1. CASE rows[f] = NoEntry
    BY <1>3, <2>1
  <2>2. CASE rows[f] \in Entries
    BY <1>2, <2>2 DEF Entries
  <2> QED BY <1>1, <2>1, <2>2
<1>5. gen_file \in Generations /\ current_generation \in Generations
  BY DEF PipelineInv, PipelineTypeOK, CacheTypeOK
<1>6. Empty[f] = NoEntry
  BY PipelineAssumption DEF Empty
<1> QED BY <1>2, <1>3, <1>4, <1>5, <1>6

LEMMA StartGeneration ==
  ASSUME PipelineInv, GenerationInv, ~DatabaseMayFail, ~OpenMayFail, ~SavesMayFail,
         NEW r \in Roots, StartScan(r)
  PROVE  /\ GenerationInv'
         /\ gen_file' = gen_file \/ rows' = Empty
<1>1. LoadSucceeds(SavesMayFail)
  BY DEF StartScan, CacheLoad, OpenFails
<1>2. CASE current_generation' = gen_file + 1 /\ UNCHANGED cache_disk
  BY <1>2 DEF cache_disk, GenerationInv
<1>3. CASE current_generation' = 1 /\ rows' = Empty /\ gen_file' = 0
  BY <1>3, RowsHaveGenerations DEF GenerationInv
<1> QED BY <1>1, <1>2, <1>3 DEF LoadSucceeds, ClearAll

LEMMA GenerationStep ==
  ASSUME PipelineInv, WriterInv, GenerationInv,
         ~DatabaseMayFail, ~OpenMayFail, ~SavesMayFail, [PipelineNext]_all_vars
  PROVE  /\ GenerationInv'
         /\ gen_file' >= gen_file \/ rows' = Empty
<1>0. gen_file \in Int /\ current_generation \in Int
  BY CacheAssumption DEF PipelineInv, PipelineTypeOK, CacheTypeOK, Generations
<1>1. ASSUME NEW r \in Roots, StartScan(r)
      PROVE  GenerationInv' /\ (gen_file' = gen_file \/ rows' = Empty)
  BY <1>1, StartGeneration
<1>2. CASE WriterStep
  <2>1. UNCHANGED <<proc, current_generation, gen_file>>
    BY <1>2 DEF WriterStep, WriterTakes, WriterWrites, vars, scan_memory, cache_disk
  <2>2. CASE rows' = rows
    BY <1>0, <2>1, <2>2 DEF GenerationInv
  <2>3. CASE WriterWrites /\ rows' = Upserted
    <3>1. proc # "down"
      BY <2>3 DEF WriterInv, WriterWrites
    <3> QED BY <1>0, <2>1, <2>3, <3>1, UpsertedStamps DEF GenerationInv
  <2> QED BY <1>2, <2>2, <2>3 DEF WriterStep, WriterTakes, WriterWrites, cache_disk
<1>3. CASE CommitStep
  <2>1. UNCHANGED <<proc, current_generation, gen_file>>
    BY <1>3 DEF CommitStep, CommitGeneration, TellWriterToStop, CleanOldGenerations, vars,
       scan_memory, cache_vars, cache_memory, cache_disk
  <2>2. \A f \in Files : rows'[f] \in {rows[f], NoEntry}
    BY <1>3, PipelineAssumption
    DEF CommitStep, CommitGeneration, TellWriterToStop, CleanOldGenerations,
        cache_vars, cache_disk
  <2> QED BY <1>0, <2>1, <2>2, RowsHaveGenerations DEF GenerationInv
<1>4. CASE EndScan
  <2>1. proc # "down" /\ proc' = "down" /\ gen_file' = current_generation /\ rows' = rows
    BY <1>4 DEF EndScan, Finish, SaveGeneration
  <2>2. gen_file' = gen_file + 1
    BY <2>1 DEF GenerationInv
  <2> QED BY <1>0, <2>1, <2>2, RowsHaveGenerations DEF GenerationInv
<1>5. CASE CrashScan
  BY <1>0, <1>5 DEF CrashScan, Crash, cache_disk, GenerationInv
<1>6. ASSUME NEW f \in Files, HandleHit(f) \/ RecordVerdict(f)
      PROVE  GenerationInv' /\ gen_file' = gen_file
  <2>1. UNCHANGED <<rows, gen_file, current_generation, proc>>
    BY <1>6 DEF HandleHit, CacheHit, Visit, RecordVerdict, Update, cache_disk, vars,
       scan_memory
  <2> QED BY <2>1 DEF GenerationInv
<1>7. CASE \/ EndHit \/ EndDiscovery \/ ReadSignatures \/ EditSignatures \/ UNCHANGED all_vars
           \/ \E f \in Files : \/ HandleMiss(f) \/ SkipFile(f) \/ ModifyFile(f)
                               \/ RestoreFile(f) \/ FailTask(f) \/ ScanClean(f)
                               \/ ScanMalicious(f) \/ ScanThrows(f) \/ EndTask(f)
  <2>1. UNCHANGED <<rows, gen_file, current_generation>> /\ (proc' = "down" <=> proc = "down")
    BY <1>7
    DEF EndHit, CompleteHit, EndDiscovery, FinishDiscovery, ReadSignatures, EditSignatures,
        HandleMiss, SkipFile, CacheMiss, PassOver, Visit, ModifyFile, RestoreFile,
        FailTask, ScanClean, ScanMalicious, ScanThrows, EndTask, CompleteTask, TaskThrows,
        all_vars, cache_vars, cache_disk, cache_memory, vars, scan_memory
  <2> QED BY <1>0, <2>1 DEF GenerationInv
<1> QED BY <1>0, <1>1, <1>2, <1>3, <1>4, <1>5, <1>6, <1>7
    DEF PipelineNext, PipelineWalk, PipelineWork, cache_disk, WriterStep, CommitStep

LEMMA GenerationInit == PipelineInit => GenerationInv
<1> SUFFICES ASSUME PipelineInit PROVE GenerationInv
  OBVIOUS
<1>1. PipelineInv
  BY PipelineInvInit
<1> QED BY <1>1, RowsHaveGenerations DEF PipelineInit, Init, GenerationInv

LEMMA GenerationInvariant ==
  ~DatabaseMayFail /\ ~OpenMayFail /\ ~SavesMayFail => (PipelineSpec => []GenerationInv)
<1> SUFFICES ASSUME ~DatabaseMayFail, ~OpenMayFail, ~SavesMayFail
             PROVE  PipelineSpec => []GenerationInv
  OBVIOUS
<1>1. PipelineInv /\ WriterInv /\ GenerationInv /\ [PipelineNext]_all_vars => GenerationInv'
  BY GenerationStep
<1> QED BY <1>1, GenerationInit, WriterInvariant, PTL DEF PipelineSpec

(* Where neither the database nor a save fails, the counter of completed   *)
(* scans only moves forward, except when it restarts on wiped rows.        *)
THEOREM GenerationsMoveForward ==
  ~DatabaseMayFail /\ ~OpenMayFail /\ ~SavesMayFail => (PipelineSpec => GenerationAdvances)
<1> SUFFICES ASSUME ~DatabaseMayFail /\ ~OpenMayFail /\ ~SavesMayFail
             PROVE  PipelineSpec => GenerationAdvances
  OBVIOUS
<1>1. PipelineInv /\ WriterInv /\ GenerationInv /\ [PipelineNext]_all_vars =>
        [gen_file' >= gen_file \/ rows' = Empty]_all_vars
  BY GenerationStep
<1>2. ~DatabaseMayFail /\ ~OpenMayFail /\ ~SavesMayFail
  OBVIOUS
<1> QED BY <1>1, <1>2, WriterInvariant, GenerationInvariant, PTL
    DEF PipelineSpec, GenerationAdvances

(* Then a full scan leaves rows of its own generation only: those of files *)
(* it has not seen go, in the signed arithmetic of the table too, as long  *)
(* as the generation fits it.                                              *)
THEOREM PruningLeavesCurrentRows ==
  ~DatabaseMayFail /\ ~OpenMayFail /\ ~SavesMayFail => (PipelineSpec => PruneLeavesCurrent)
<1> SUFFICES ASSUME ~DatabaseMayFail /\ ~OpenMayFail /\ ~SavesMayFail
             PROVE  PipelineSpec => PruneLeavesCurrent
  OBVIOUS
<1>1. PipelineInv /\ WriterInv /\ CacheIsOpen /\ GenerationInv /\ [PipelineNext]_all_vars =>
        [commit = "joined" /\ commit' = "pruned" /\ root = FullRoot
         /\ current_generation < Half =>
           \A f \in Files : rows'[f] = NoEntry
                            \/ rows'[f].generation = current_generation]_all_vars
  <2> SUFFICES ASSUME PipelineInv, WriterInv, CacheIsOpen, GenerationInv,
                      [PipelineNext]_all_vars,
                      commit = "joined", commit' = "pruned", root = FullRoot,
                      current_generation < Half, NEW f \in Files, rows'[f] # NoEntry
               PROVE  rows'[f].generation = current_generation
    OBVIOUS
  <2>1. CommitStep
    <3>1. commit' # commit /\ commit' # "no"
      OBVIOUS
    <3> QED BY <3>1
        DEF PipelineNext, PipelineWalk, PipelineWork, ReadSignatures, StartScan, HandleMiss,
            HandleHit, SkipFile, EndHit, EndDiscovery, FailTask, ScanClean, ScanMalicious,
            ScanThrows, RecordVerdict, EndTask, EndScan, CrashScan, PipelineMemoryLost,
            WriterStep, ModifyFile, RestoreFile, EditSignatures, all_vars, pipeline_vars
  <2>2. cache_open /\ proc # "down"
    BY DEF WriterInv, CacheIsOpen
  <2>3. CleanOldGenerations
    BY <2>1 DEF CommitStep, CommitGeneration
  <2>4. rows'[f] = rows[f] /\ ~ (Signed(rows[f].generation) < Signed(current_generation))
    BY <2>2, <2>3, PipelineAssumption DEF CleanOldGenerations
  <2>5. rows[f].generation \in Int /\ rows[f].generation <= current_generation
        /\ current_generation \in Int
    BY <2>2, RowsHaveGenerations DEF GenerationInv
  <2>6. Signed(rows[f].generation) = rows[f].generation
        /\ Signed(current_generation) = current_generation
    BY <2>5, CacheAssumption DEF Signed, Half
  <2> QED BY <2>4, <2>5, <2>6
<1>2. ~DatabaseMayFail /\ ~OpenMayFail /\ ~SavesMayFail
  OBVIOUS
<1> QED BY <1>1, <1>2, WriterInvariant, CacheStaysOpen, GenerationInvariant, PTL
    DEF PipelineSpec, PruneLeavesCurrent
-----------------------------------------------------------------------------
(* Where no task throws and the orders agree, rows are dropped only at the *)
(* end of a scan of "/" that has dealt with every file, over all the runs  *)
(* it took: a directory scan or a killed scan drops nothing.               *)
THEOREM PruningFollowsFullScan ==
  OrdersAgree /\ ~TasksMayThrow => (PipelineSpec => PruneOnlyAfterFullScan)
<1> SUFFICES ASSUME OrdersAgree /\ ~TasksMayThrow
             PROVE  PipelineSpec => PruneOnlyAfterFullScan
  OBVIOUS
<1>1. PipelineInv /\ WriterInv /\ SafetyInv /\ DrainInv /\ [PipelineNext]_all_vars =>
        [\A f \in Files : Dropped(f) =>
           root = FullRoot /\ FilesOf[root] \subseteq accounted[root]]_all_vars
  <2> SUFFICES ASSUME PipelineInv, WriterInv, SafetyInv, DrainInv, [PipelineNext]_all_vars,
                      NEW f \in Files, Dropped(f)
               PROVE  root = FullRoot /\ FilesOf[root] \subseteq accounted[root]
    OBVIOUS
  <2>1. commit = "joined" /\ root = FullRoot
    BY DroppedWhenPruned
  <2>2. proc = "draining" /\ inflight = {} /\ unfinished_files = {}
    BY <2>1 DEF WriterInv, DrainInv, Remembered
  <2> QED BY <2>1, <2>2 DEF SafetyInv, SeenIsKept, DiscoveryIsOver
<1>2. OrdersAgree /\ ~TasksMayThrow
  OBVIOUS
<1> QED BY <1>1, <1>2, WriterInvariant, PipelineImplementsResumeScan, SafetyInvariant,
    DrainInvariant, PTL DEF PipelineSpec, PruneOnlyAfterFullScan
=============================================================================
