------------------------ MODULE ScanPipelineProofs ------------------------
(***************************************************************************)
(* Proofs about the scan pipeline, for every number of files, every bound  *)
(* on versions and generations, and every fault switched on or off.        *)
(***************************************************************************)
EXTENDS ScanPipeline, ResumeScanProofs

-----------------------------------------------------------------------------
(* The pipeline implements ResumeScan: each of its steps is a step of the  *)
(* scan that ResumeScan describes, or leaves that scan alone.              *)
LEMMA StepImplements == ASSUME [PipelineNext]_all_vars PROVE [Next]_vars
<1>1. ASSUME NEW r \in Roots, StartScan(r) PROVE Next
  BY <1>1 DEF StartScan, Next
<1>2. ASSUME NEW f \in Files, HandleMiss(f) \/ HandleHit(f) \/ SkipFile(f) PROVE Next
  BY <1>2 DEF HandleMiss, HandleHit, SkipFile, Next, Walk
<1>3. CASE EndHit \/ EndDiscovery
  BY <1>3 DEF EndHit, EndDiscovery, Next
<1>4. ASSUME NEW f \in Files, PipelineWork(f) PROVE [Next]_vars
  BY <1>4 DEF PipelineWork, FailTask, ScanClean, ScanMalicious, ScanThrows,
       RecordVerdict, EndTask, Next, Work
<1>5. CASE EndScan \/ CrashScan
  BY <1>5 DEF EndScan, CrashScan, Next
<1>6. CASE CommitStep \/ WriterStep \/ ReadSignatures \/ EditSignatures
  BY <1>6 DEF CommitStep, WriterStep, ReadSignatures, EditSignatures
<1>7. ASSUME NEW f \in Files, ModifyFile(f) \/ RestoreFile(f) PROVE UNCHANGED vars
  BY <1>7 DEF ModifyFile, RestoreFile
<1>8. CASE UNCHANGED all_vars
  BY <1>8 DEF all_vars
<1> QED
  BY <1>1, <1>2, <1>3, <1>4, <1>5, <1>6, <1>7, <1>8 DEF PipelineNext, PipelineWalk

(* What ResumeScan promises therefore holds of the whole pipeline.         *)
THEOREM PipelineImplementsResumeScan == PipelineSpec => Spec
<1>1. PipelineInit => Init
  BY DEF PipelineInit
<1> QED BY <1>1, StepImplements, PTL DEF PipelineSpec, Spec

(* Under the orders that agree, no checkpoint of the pipeline skips a file *)
(* that was not dealt with.                                                *)
THEOREM PipelineResumesSafely == OrdersAgree => (PipelineSpec => []CheckpointSafe)
BY PipelineImplementsResumeScan, ResumeIsSafe
-----------------------------------------------------------------------------
(* The cache keeps its types under each of its operations.                 *)
LEMMA UpdateTypes ==
  ASSUME CacheTypeOK, NEW f \in Paths, NEW m \in Metadata, NEW c \in Readings,
         Update(f, m, c)
  PROVE  CacheTypeOK'
<1> DEFINE e == [metadata |-> m, judged |-> c, generation |-> current_generation]
<1>1. e \in Entries
  BY DEF CacheTypeOK, Entries
<1>2. [path |-> f, entry |-> e] \in Queued
  BY <1>1 DEF Queued
<1>3. cache_entries' \in [Paths -> Entries \cup {NoEntry}]
  BY <1>1 DEF Update, CacheTypeOK
<1>4. upsert_queue' \subseteq Queued
  BY <1>2 DEF Update, CacheTypeOK
<1> QED BY <1>3, <1>4 DEF Update, CacheTypeOK, cache_disk

LEMMA LoadTypes ==
  ASSUME CacheTypeOK, NEW fail \in BOOLEAN, CacheLoad(fail)
  PROVE  CacheTypeOK'
<1>1. CASE OpenFails
  BY <1>1 DEF OpenFails, cache_disk, cache_memory, CacheTypeOK
<1>2. CASE LoadSucceeds(fail)
  <2>1. Empty \in [Paths -> Entries \cup {NoEntry}]
    BY DEF Empty
  <2>2. rows' \in [Paths -> Entries \cup {NoEntry}]
    BY <1>2, <2>1 DEF LoadSucceeds, ClearAll, cache_disk, CacheTypeOK
  <2>3. cache_entries' \in [Paths -> Entries \cup {NoEntry}]
    BY <1>2, <2>1, <2>2 DEF LoadSucceeds, LoadAll
  <2>4. gen_file' \in Generations /\ current_generation' \in Generations
    BY <1>2, CacheAssumption DEF LoadSucceeds, cache_disk, CacheTypeOK, Generations
  <2> QED BY <1>2, <2>2, <2>3, <2>4 DEF LoadSucceeds, CacheTypeOK
<1> QED BY <1>1, <1>2 DEF CacheLoad

LEMMA WriterTypes ==
  ASSUME CacheTypeOK, WriterTakes \/ WriterWrites
  PROVE  CacheTypeOK'
<1>1. CASE WriterTakes
  BY <1>1 DEF WriterTakes, CacheTypeOK, cache_disk
<1>2. CASE WriterWrites
  <2>1. ASSUME NEW f \in Paths PROVE Upserted[f] \in Entries \cup {NoEntry}
    <3>1. CASE \E q \in batch : q.path = f
      <4>1. (CHOOSE q \in batch : q.path = f) \in Queued
        BY <3>1 DEF CacheTypeOK
      <4> QED BY <3>1, <4>1 DEF Upserted, Queued
    <3>2. CASE ~ \E q \in batch : q.path = f
      BY <3>2 DEF Upserted, CacheTypeOK
    <3> QED BY <3>1, <3>2
  <2>2. Upserted \in [Paths -> Entries \cup {NoEntry}]
    BY <2>1 DEF Upserted
  <2> QED BY <1>2, <2>2 DEF WriterWrites, CacheTypeOK
<1> QED BY <1>1, <1>2

LEMMA CommitTypes ==
  ASSUME CacheTypeOK, TellWriterToStop \/ CleanOldGenerations \/ UNCHANGED cache_vars
  PROVE  CacheTypeOK'
BY DEF TellWriterToStop, CleanOldGenerations, cache_vars, cache_disk, cache_memory,
       CacheTypeOK

LEMMA LossOfCacheTypes ==
  ASSUME CacheTypeOK, CacheMemoryLost,
         UNCHANGED cache_disk \/ \E fail \in BOOLEAN : SaveGeneration(fail)
  PROVE  CacheTypeOK'
<1>1. Empty \in [Paths -> Entries \cup {NoEntry}]
  BY DEF Empty
<1>2. rows' = rows /\ gen_file' \in Generations
  BY CacheAssumption DEF cache_disk, SaveGeneration, CacheTypeOK, Generations
<1>3. 0 \in Generations
  BY CacheAssumption DEF Generations
<1> QED BY <1>1, <1>2, <1>3 DEF CacheMemoryLost, CacheTypeOK
-----------------------------------------------------------------------------
PipelineInv == PipelineTypeOK /\ TasksAreMet

(* A file that the walk meets has no task yet, and so has read nothing.    *)
LEMMA MetFilesAreNew ==
  ASSUME PipelineInv, NEW f \in Files, Visit(f)
  PROVE  /\ f \notin inflight /\ judged[f] = Unread /\ proc # "down"
         /\ loaded.content # 0 /\ Met(f) \in Metadata /\ Met(f) # NoInfo
         /\ \A g \in inflight : g < walk_pos'
<1> USE DEF PipelineInv
<1>1. walk_pos \in Nat /\ f \in Nat /\ f >= walk_pos /\ walk_pos' = f + 1 /\ proc = "walking"
  BY DEF Visit, Upcoming, PipelineTypeOK, TypeOK, Files
<1>2. \A g \in inflight : g \in Nat /\ g < walk_pos
  BY DEF TasksAreMet, PipelineTypeOK, TypeOK, Files
<1>3. Met(f) \in Metadata /\ Met(f) # NoInfo
  BY CacheAssumption
  DEF Met, Metadata, NoInfo, PipelineTypeOK, Versions, SignatureVersions
<1> QED BY <1>1, <1>2, <1>3 DEF TasksAreMet

LEMMA CountTypes ==
  ASSUME PipelineTypeOK, NEW f \in Files, NEW cs, Count(f, cs)
  PROVE  summary' \in [Counters -> SUBSET Files]
BY DEF Count, PipelineTypeOK

LEMMA StartScanTypes ==
  ASSUME PipelineInv, TypeOK', NEW r \in Roots, StartScan(r)
  PROVE  PipelineInv'
<1> USE DEF PipelineInv
<1>1. CacheTypeOK'
  BY LoadTypes, ResumeAssumption DEF StartScan, PipelineTypeOK
<1>2. loaded' \in [content : {0} \cup SignatureVersions, stamp : {0} \cup SignatureVersions]
  BY DEF StartScan, StatSignatures, PipelineTypeOK
<1>3. loaded'.content # 0
  <2>1. loaded.content # 0
    BY DEF StartScan, Start, TasksAreMet
  <2> QED BY <2>1 DEF StartScan, StatSignatures, PipelineTypeOK
<1>4. PipelineTypeOK'
  BY <1>1, <1>2 DEF StartScan, Start, PipelineTypeOK, world, task_vars
<1>5. inflight' = inflight /\ inflight = {} /\ judged' = judged /\ recorded' = recorded
  BY DEF StartScan, Start, task_vars, TasksAreMet
<1> QED BY <1>3, <1>4, <1>5 DEF TasksAreMet

LEMMA VisitTypesOfPipeline ==
  ASSUME PipelineInv, TypeOK', NEW f \in Files, HandleMiss(f) \/ HandleHit(f) \/ SkipFile(f)
  PROVE  PipelineInv'
<1> USE DEF PipelineInv
<1>1. Visit(f)
  BY DEF HandleMiss, HandleHit, SkipFile, CacheMiss, CacheHit, PassOver
<1>2. proc' = proc /\ loaded' = loaded /\ judged' = judged /\ recorded' = recorded
  BY <1>1 DEF HandleMiss, HandleHit, SkipFile, Visit, task_vars
<1>3. inflight' \in {inflight, inflight \cup {f}}
      /\ (f \in inflight' => info'[f] # NoInfo)
  BY <1>1, MetFilesAreNew
  DEF HandleMiss, HandleHit, SkipFile, CacheMiss, CacheHit, PassOver, PipelineTypeOK
<1>4. info' \in [Files -> Metadata \cup {NoInfo}]
      /\ \A g \in Files \ {f} : info'[g] = info[g]
  BY <1>1, MetFilesAreNew DEF HandleMiss, HandleHit, SkipFile, task_vars, PipelineTypeOK
<1>5. CacheTypeOK'
  <2>1. CASE HandleHit(f)
    <3>1. f \in Paths /\ cache_entries[f] \in Entries
      BY <2>1, PipelineAssumption DEF HandleHit, Cached, PipelineTypeOK, CacheTypeOK
    <3>2. cache_entries[f].judged \in Readings
      BY <3>1 DEF Entries
    <3> QED BY <2>1, <3>1, <3>2, <1>1, MetFilesAreNew, UpdateTypes
            DEF HandleHit, PipelineTypeOK
  <2>2. CASE HandleMiss(f) \/ SkipFile(f)
    BY <2>2, CommitTypes DEF HandleMiss, SkipFile, PipelineTypeOK
  <2> QED BY <2>1, <2>2
<1>6. summary' \in [Counters -> SUBSET Files]
  BY CountTypes DEF HandleMiss, HandleHit, SkipFile, PipelineTypeOK
<1>7. PipelineTypeOK'
  BY <1>2, <1>3, <1>4, <1>5, <1>6
  DEF PipelineTypeOK, HandleMiss, HandleHit, SkipFile, world, stamps
<1>8. ASSUME NEW g \in inflight' PROVE proc' # "down" /\ g < walk_pos' /\ info'[g] # NoInfo
  <2>1. CASE g = f
    <3>1. f + 1 > f /\ walk_pos' = f + 1
      BY <1>1 DEF Visit, Files
    <3> QED BY <1>1, <1>2, <1>3, <2>1, <3>1, MetFilesAreNew
  <2>2. CASE g # f
    <3>1. g \in inflight /\ g \in Files
      BY <1>3, <2>2 DEF PipelineTypeOK, TypeOK
    <3> QED BY <1>1, <1>2, <1>4, <2>2, <3>1, MetFilesAreNew DEF TasksAreMet
  <2> QED BY <2>1, <2>2
<1> QED BY <1>2, <1>3, <1>7, <1>8 DEF TasksAreMet

LEMMA TaskTypes ==
  ASSUME PipelineInv, TypeOK', NEW f \in Files, PipelineWork(f)
  PROVE  PipelineInv'
<1> USE DEF PipelineInv
<1>1. CASE FailTask(f) \/ ScanThrows(f)
  <2>1. /\ inflight' = inflight \ {f} /\ judged[f] = Unread /\ f \notin recorded
        /\ UNCHANGED <<cache_vars, version, signatures, loaded, task_vars, commit, stamps,
                       proc, walk_pos>>
    BY <1>1 DEF FailTask, ScanThrows, CompleteTask, TaskThrows, TasksAreMet, Reads, world
  <2>2. summary' \in [Counters -> SUBSET Files]
    BY <1>1, CountTypes DEF FailTask, ScanThrows
  <2>3. away' \subseteq Files
    BY <1>1 DEF FailTask, ScanThrows, world, PipelineTypeOK
  <2>4. PipelineTypeOK'
    BY <2>1, <2>2, <2>3, CommitTypes DEF PipelineTypeOK, task_vars, stamps
  <2> QED BY <2>1, <2>4 DEF TasksAreMet, task_vars
<1>2. CASE ScanClean(f) \/ ScanMalicious(f)
  <2>1. PICK c \in Readable(f) :
          /\ Reads(f, c) /\ judged' = [judged EXCEPT ![f] = c]
          /\ UNCHANGED <<vars, cache_vars, version, signatures, loaded, info, recorded,
                         commit, stamps>>
    BY <1>2 DEF ScanClean, ScanMalicious, world
  <2>2. c \in Readings
    <3>1. info[f] \in Metadata /\ loaded.content \in SignatureVersions
      BY <2>1 DEF Reads, TasksAreMet, PipelineTypeOK
    <3>2. PICK v \in info[f].file .. version[f], b \in BOOLEAN :
            c = [file |-> v, signatures |-> loaded.content, cut |-> b]
      BY <2>1 DEF Readable
    <3>3. v \in Versions
      BY <3>1, <3>2, CacheAssumption DEF PipelineTypeOK, Metadata, Versions
    <3> QED BY <3>1, <3>2, <3>3 DEF Readings
  <2>3. summary' \in [Counters -> SUBSET Files] /\ away' \subseteq Files
    BY <1>2, CountTypes DEF ScanClean, ScanMalicious, world, PipelineTypeOK
  <2>4. PipelineTypeOK'
    BY <2>1, <2>2, <2>3, CommitTypes
    DEF PipelineTypeOK, vars, scan_memory, stamps
  <2>5. c # Unread
    <3>1. c.signatures # 0
      BY <2>2 DEF Readings, SignatureVersions
    <3> QED BY <3>1 DEF Unread
  <2>6. f \in inflight /\ judged' = [judged EXCEPT ![f] = c]
        /\ UNCHANGED <<loaded, info, recorded, inflight, proc, walk_pos>>
    BY <2>1 DEF Reads, vars, scan_memory
  <2> QED BY <2>4, <2>5, <2>6 DEF TasksAreMet, PipelineTypeOK
<1>3. CASE RecordVerdict(f)
  <2>1. f \in inflight /\ f \in Paths /\ info[f] \in Metadata /\ judged[f] \in Readings
    BY <1>3, PipelineAssumption DEF RecordVerdict, TasksAreMet, PipelineTypeOK
  <2>2. CacheTypeOK'
    BY <1>3, <2>1, UpdateTypes DEF RecordVerdict, PipelineTypeOK
  <2>3. PipelineTypeOK'
    BY <1>3, <2>1, <2>2
    DEF RecordVerdict, PipelineTypeOK, vars, scan_memory, world
  <2> QED BY <1>3, <2>3 DEF RecordVerdict, TasksAreMet, vars, scan_memory
<1>4. CASE EndTask(f)
  <2>1. /\ inflight' = inflight \ {f} /\ recorded' = recorded \ {f}
        /\ judged' = [judged EXCEPT ![f] = Unread] /\ UNCHANGED <<proc, walk_pos>>
        /\ UNCHANGED <<cache_vars, world, loaded, info, summary, commit, stamps>>
    BY <1>4 DEF EndTask, CompleteTask
  <2>2. PipelineTypeOK'
    BY <2>1, CommitTypes DEF PipelineTypeOK, world, stamps
  <2> QED BY <2>1, <2>2 DEF TasksAreMet, PipelineTypeOK
<1> QED BY <1>1, <1>2, <1>3, <1>4 DEF PipelineWork

LEMMA QuietTypes ==
  ASSUME PipelineInv, TypeOK',
         \/ EndHit \/ EndDiscovery \/ CommitStep \/ WriterStep \/ UNCHANGED all_vars
  PROVE  PipelineInv'
<1> USE DEF PipelineInv
<1>1. UNCHANGED <<world, loaded, task_vars, summary, stamps>>
  BY DEF EndHit, EndDiscovery, CommitStep, WriterStep, pipeline_vars, all_vars
<1>2. inflight' = inflight /\ walk_pos' = walk_pos /\ (proc' # "down" <=> proc # "down")
  BY DEF EndHit, CompleteHit, EndDiscovery, FinishDiscovery, CommitStep, WriterStep,
         all_vars, vars, scan_memory
<1>3. CacheTypeOK'
  <2>1. CASE EndHit \/ EndDiscovery \/ UNCHANGED all_vars
    BY <2>1, CommitTypes DEF EndHit, EndDiscovery, all_vars, PipelineTypeOK
  <2>2. CASE CommitStep
    BY <2>2, CommitTypes DEF CommitStep, CommitGeneration, PipelineTypeOK
  <2>3. CASE WriterStep
    BY <2>3, WriterTypes DEF WriterStep, PipelineTypeOK
  <2> QED BY <2>1, <2>2, <2>3
<1>4. commit' \in {"no", "finishing", "joined", "pruned"}
  BY DEF EndHit, EndDiscovery, CommitStep, CommitGeneration, WriterStep, pipeline_vars,
         all_vars, PipelineTypeOK
<1>5. PipelineTypeOK'
  BY <1>1, <1>2, <1>3, <1>4 DEF PipelineTypeOK, world, task_vars, stamps
<1> QED BY <1>1, <1>2, <1>5 DEF TasksAreMet, task_vars

LEMMA EndTypes ==
  ASSUME PipelineInv, TypeOK', EndScan \/ CrashScan
  PROVE  PipelineInv'
<1> USE DEF PipelineInv
<1>1. /\ PipelineMemoryLost /\ UNCHANGED <<world, stamps>>
      /\ proc' = "down" /\ inflight' = {}
  BY DEF EndScan, CrashScan, Finish, Crash
<1>2. CacheTypeOK'
  BY <1>1, LossOfCacheTypes, ResumeAssumption
  DEF EndScan, CrashScan, PipelineMemoryLost, PipelineTypeOK
<1>3. PipelineTypeOK'
  BY <1>1, <1>2
  DEF PipelineMemoryLost, PipelineTypeOK, world, stamps, NotLoaded, NoCounts
<1> QED BY <1>1, <1>3 DEF PipelineMemoryLost, TasksAreMet

LEMMA WorldTypes ==
  ASSUME PipelineInv, TypeOK',
         \/ ReadSignatures \/ EditSignatures
         \/ \E f \in Files : ModifyFile(f) \/ RestoreFile(f)
  PROVE  PipelineInv'
<1> USE DEF PipelineInv
<1>1. UNCHANGED <<vars, cache_vars, task_vars, summary, commit, stamps>>
  BY DEF ReadSignatures, EditSignatures, ModifyFile, RestoreFile
<1>2. /\ version' \in [Files -> Versions] /\ away' \subseteq Files
      /\ signatures' \in SignatureVersions
  BY CacheAssumption
  DEF ReadSignatures, EditSignatures, ModifyFile, RestoreFile, world, PipelineTypeOK,
      Versions, SignatureVersions
<1>3. /\ loaded' \in [content : {0} \cup SignatureVersions, stamp : {0} \cup SignatureVersions]
      /\ loaded' = loaded \/ (proc = "down" /\ loaded'.content # 0)
  BY CacheAssumption
  DEF ReadSignatures, EditSignatures, ModifyFile, RestoreFile, PipelineTypeOK,
      SignatureVersions
<1>4. PipelineTypeOK'
  BY <1>1, <1>2, <1>3, CommitTypes DEF PipelineTypeOK, task_vars, stamps, vars, scan_memory
<1> QED BY <1>1, <1>3, <1>4 DEF TasksAreMet, task_vars, vars, scan_memory

LEMMA PipelineInvInit == PipelineInit => PipelineInv
<1> SUFFICES ASSUME PipelineInit PROVE PipelineInv
  OBVIOUS
<1>1. TypeOK
  BY InitTypes DEF PipelineInit
<1>2. 0 \in Generations /\ 1 \in Versions /\ 1 \in SignatureVersions
      /\ Empty \in [Paths -> Entries \cup {NoEntry}]
  BY CacheAssumption DEF Generations, Versions, SignatureVersions, Empty
<1>3. CacheTypeOK
  BY <1>2 DEF PipelineInit, CacheTypeOK
<1>4. PipelineTypeOK
  BY <1>1, <1>2, <1>3 DEF PipelineInit, PipelineTypeOK, Init, NotLoaded, NoCounts
<1> QED BY <1>4 DEF PipelineInit, Init, TasksAreMet, PipelineInv

LEMMA PipelineInvStep ==
  ASSUME PipelineInv, TypeOK', [PipelineNext]_all_vars
  PROVE  PipelineInv'
BY StartScanTypes, VisitTypesOfPipeline, TaskTypes, QuietTypes, EndTypes, WorldTypes
DEF PipelineNext, PipelineWalk

(* Every reachable state of the pipeline has the declared types: a task    *)
(* has been met, a recorded verdict was read, generations do not overflow. *)
THEOREM PipelineTypeCorrect == PipelineSpec => []PipelineTypeOK
<1>1. PipelineSpec => []TypeOK
  BY PipelineImplementsResumeScan, TypeCorrect, PTL
<1>2. PipelineInit => PipelineInv
  BY PipelineInvInit
<1>3. PipelineInv /\ TypeOK' /\ [PipelineNext]_all_vars => PipelineInv'
  BY PipelineInvStep
<1>4. PipelineInv => PipelineTypeOK
  BY DEF PipelineInv
<1> QED BY <1>1, <1>2, <1>3, <1>4, PTL DEF PipelineSpec
-----------------------------------------------------------------------------
(* Entries stay honest when they are stored, loaded, stamped or dropped.   *)
LEMMA NoEntryIsHonest == ASSUME NEW f \in Files PROVE Honest(Empty[f], f)
BY PipelineAssumption DEF Honest, Empty

LEMMA UpdateHonest ==
  ASSUME PipelineInv, EntriesAreHonest, version' = version,
         NEW f \in Files, NEW m \in Metadata, NEW c \in Readings,
         Update(f, m, c), Between(m.file, c.file, f), m.signatures = c.signatures
  PROVE  EntriesAreHonest'
<1> DEFINE e == [metadata |-> m, judged |-> c, generation |-> current_generation]
<1>1. Honest(e, f)
  BY DEF Honest
<1>2. ASSUME NEW g \in Files PROVE Honest(rows[g], g) /\ Honest(cache_entries'[g], g)
  BY <1>1, PipelineAssumption
  DEF Update, EntriesAreHonest, PipelineInv, PipelineTypeOK, CacheTypeOK
<1>3. ASSUME NEW q \in upsert_queue' \cup batch' PROVE Honest(q.entry, q.path)
  BY <1>1 DEF Update, EntriesAreHonest
<1>4. rows' = rows
  BY DEF Update, cache_disk
<1> QED BY <1>2, <1>3, <1>4 DEF EntriesAreHonest, Honest, Between

LEMMA WriterHonest ==
  ASSUME PipelineInv, EntriesAreHonest, version' = version, WriterTakes \/ WriterWrites
  PROVE  EntriesAreHonest'
<1>1. ASSUME NEW f \in Files PROVE Honest(rows'[f], f)
  <2>1. CASE rows' = rows
    BY <2>1 DEF EntriesAreHonest
  <2>2. CASE rows' = Upserted
    <3>1. CASE \E q \in batch : q.path = f
      <4> DEFINE q == CHOOSE q \in batch : q.path = f
      <4>1. q \in batch /\ q.path = f
        BY <3>1
      <4>2. Upserted[f] = q.entry
        BY <3>1, PipelineAssumption DEF Upserted
      <4> QED BY <2>2, <4>1, <4>2 DEF EntriesAreHonest
    <3>2. CASE ~ \E q \in batch : q.path = f
      BY <2>2, <3>2, PipelineAssumption DEF Upserted, EntriesAreHonest
    <3> QED BY <3>1, <3>2
  <2> QED BY <2>1, <2>2 DEF WriterTakes, WriterWrites, cache_disk
<1>2. upsert_queue' \cup batch' \subseteq upsert_queue \cup batch
      /\ cache_entries' = cache_entries
  BY DEF WriterTakes, WriterWrites
<1> QED BY <1>1, <1>2 DEF EntriesAreHonest, Honest, Between

LEMMA KeptHonest ==
  ASSUME PipelineInv, EntriesAreHonest,
         \A f \in Files : version'[f] \in Versions /\ version[f] <= version'[f],
         \A f \in Files : rows'[f] \in {rows[f], NoEntry},
         \A f \in Files : cache_entries'[f] \in {cache_entries[f], rows[f], NoEntry},
         upsert_queue' \subseteq upsert_queue, batch' \subseteq batch
  PROVE  EntriesAreHonest'
<1>1. ASSUME NEW f \in Files, NEW e \in Entries \cup {NoEntry}, Honest(e, f)
      PROVE  Honest(e, f)'
  <2>1. e # NoEntry => e.metadata.file \in Int /\ e.judged.file \in Int
    BY CacheAssumption DEF Entries, Metadata, Readings, Versions
  <2>2. version[f] \in Int /\ version'[f] \in Int
    BY CacheAssumption DEF PipelineInv, PipelineTypeOK, Versions
  <2> QED BY <1>1, <2>1, <2>2 DEF Honest, Between
<1>2. ASSUME NEW f \in Files
      PROVE  /\ rows[f] \in Entries \cup {NoEntry}
             /\ cache_entries[f] \in Entries \cup {NoEntry}
  BY PipelineAssumption DEF PipelineInv, PipelineTypeOK, CacheTypeOK
<1>3. ASSUME NEW f \in Files PROVE Honest(rows[f], f)' /\ Honest(cache_entries[f], f)'
  <2>1. Honest(NoEntry, f)
    BY DEF Honest
  <2> QED BY <1>1, <1>2, <2>1 DEF EntriesAreHonest
<1>4. ASSUME NEW q \in upsert_queue' \cup batch' PROVE Honest(q.entry, q.path)'
  <2>1. q \in upsert_queue \cup batch /\ q.path \in Files /\ q.entry \in Entries
    BY PipelineAssumption DEF PipelineInv, PipelineTypeOK, CacheTypeOK, Queued
  <2> QED BY <1>1, <2>1 DEF EntriesAreHonest
<1> QED BY <1>3, <1>4 DEF EntriesAreHonest

(* The tasks stay honest while they neither begin nor read.                *)
LEMMA TasksKept ==
  ASSUME PipelineInv, VerdictInv, inflight' \subseteq inflight, loaded' = loaded,
         \A f \in inflight' : info'[f] = info[f] /\ judged'[f] = judged[f],
         \A f \in Files : version'[f] \in Versions /\ version[f] <= version'[f]
  PROVE  TasksAreHonest'
<1> SUFFICES ASSUME NEW f \in inflight'
             PROVE  /\ info[f].file <= version'[f] /\ info[f].signatures = loaded.stamp
                    /\ judged[f] # Unread =>
                         /\ Between(info[f].file, judged[f].file, f)'
                         /\ judged[f].signatures = loaded.content
  BY DEF TasksAreHonest, Between
<1>1. f \in inflight /\ f \in Files /\ info[f] \in Metadata
  BY DEF PipelineInv, PipelineTypeOK, TypeOK, TasksAreMet
<1>2. /\ info[f].file \in Int /\ version[f] \in Int /\ version'[f] \in Int
      /\ judged[f] # Unread => judged[f].file \in Int
  BY <1>1, CacheAssumption
  DEF PipelineInv, PipelineTypeOK, Metadata, Readings, Versions
<1>3. /\ info[f].file <= version[f] /\ info[f].signatures = loaded.stamp
      /\ judged[f] # Unread =>
           /\ Between(info[f].file, judged[f].file, f)
           /\ judged[f].signatures = loaded.content
  BY <1>1 DEF VerdictInv, TasksAreHonest
<1> QED BY <1>1, <1>2, <1>3 DEF Between

LEMMA VersionsStay ==
  ASSUME PipelineInv, version' = version
  PROVE  \A f \in Files : version'[f] \in Versions /\ version[f] <= version'[f]
BY CacheAssumption DEF PipelineInv, PipelineTypeOK, Versions

(* A scan begins with the verdicts on disk, and with signatures that were  *)
(* not edited while they were loaded.                                      *)
LEMMA StartScanHonest ==
  ASSUME PipelineInv, VerdictInv, ~EditsMidLoad, NEW r \in Roots, StartScan(r)
  PROVE  VerdictInv'
<1>1. EntriesAreHonest'
  <2>1. \A f \in Files : Empty[f] = NoEntry
    BY PipelineAssumption DEF Empty
  <2>2. rows' = rows \/ rows' = Empty
    BY DEF StartScan, CacheLoad, OpenFails, LoadSucceeds, ClearAll, cache_disk
  <2>3. cache_entries' = cache_entries \/ cache_entries' = rows' \/ cache_entries' = Empty
    BY DEF StartScan, CacheLoad, OpenFails, LoadSucceeds, LoadAll, cache_memory
  <2>4. upsert_queue' = upsert_queue /\ batch' = batch /\ version' = version
    BY DEF StartScan, CacheLoad, OpenFails, LoadSucceeds, cache_memory, world
  <2> QED BY <2>1, <2>2, <2>3, <2>4, VersionsStay, KeptHonest DEF VerdictInv
<1>2. loaded'.stamp = loaded'.content /\ proc' # "down"
  <2>1. loaded.content = signatures
    BY DEF VerdictInv, LoadIsWhole, StartScan, Start
  <2> QED BY <2>1, PipelineAssumption
          DEF StartScan, StatSignatures, Start, PipelineInv, PipelineTypeOK
<1>3. inflight' = {}
  BY DEF StartScan, Start, PipelineInv, TasksAreMet
<1> QED BY <1>1, <1>2, <1>3 DEF VerdictInv, LoadIsWhole, TasksAreHonest

(* The walker files what it meets under the version it has met, ...        *)
LEMMA VisitHonest ==
  ASSUME PipelineInv, VerdictInv, NEW f \in Files,
         HandleMiss(f) \/ HandleHit(f) \/ SkipFile(f)
  PROVE  VerdictInv'
<1>1. Visit(f) /\ f \notin inflight /\ judged[f] = Unread /\ Met(f) \in Metadata
  BY MetFilesAreNew DEF HandleMiss, HandleHit, SkipFile, CacheMiss, CacheHit, PassOver
<1>2. /\ version' = version /\ loaded' = loaded /\ judged' = judged /\ proc' = proc
      /\ signatures' = signatures /\ proc # "down"
  BY <1>1 DEF HandleMiss, HandleHit, SkipFile, Visit, world, task_vars
<1>3. EntriesAreHonest'
  <2>1. CASE HandleHit(f)
    <3>1. f \in Paths /\ cache_entries[f] \in Entries /\ cache_entries[f].metadata = Met(f)
      BY <2>1, PipelineAssumption
      DEF HandleHit, Cached, PipelineInv, PipelineTypeOK, CacheTypeOK
    <3>2. cache_entries[f].judged \in Readings /\ cache_entries[f] # NoEntry
      BY <2>1, <3>1 DEF Entries, HandleHit, Cached
    <3>3. /\ Between(Met(f).file, cache_entries[f].judged.file, f)
          /\ Met(f).signatures = cache_entries[f].judged.signatures
      BY <3>1, <3>2 DEF VerdictInv, EntriesAreHonest, Honest
    <3> QED BY <1>1, <1>2, <2>1, <3>2, <3>3, UpdateHonest DEF HandleHit, VerdictInv
  <2>2. CASE HandleMiss(f) \/ SkipFile(f)
    BY <1>2, <2>2, VersionsStay, KeptHonest
    DEF HandleMiss, SkipFile, cache_vars, cache_disk, cache_memory, VerdictInv
  <2> QED BY <2>1, <2>2
<1>4. TasksAreHonest'
  <2> SUFFICES ASSUME NEW g \in inflight'
               PROVE  /\ info'[g].file <= version[g] /\ info'[g].signatures = loaded.stamp
                      /\ judged[g] # Unread =>
                           /\ Between(info'[g].file, judged[g].file, g)
                           /\ judged[g].signatures = loaded.content
    BY <1>2 DEF TasksAreHonest, Between
  <2>1. CASE g \in inflight
    <3>1. g # f /\ g \in Files
      BY <1>1, <2>1 DEF PipelineInv, PipelineTypeOK, TypeOK
    <3>2. info'[g] = info[g]
      BY <3>1 DEF HandleMiss, HandleHit, SkipFile, task_vars, PipelineInv, PipelineTypeOK
    <3> QED BY <2>1, <3>2 DEF VerdictInv, TasksAreHonest
  <2>2. CASE g \notin inflight
    <3>1. HandleMiss(f) /\ g = f
      BY <2>2 DEF HandleMiss, HandleHit, SkipFile, CacheMiss, CacheHit, PassOver
    <3>2. info'[f] = Met(f) /\ version[f] \in Int
      BY <3>1, CacheAssumption DEF HandleMiss, PipelineInv, PipelineTypeOK, Versions
    <3> QED BY <1>1, <3>1, <3>2 DEF Met
  <2> QED BY <2>1, <2>2
<1> QED BY <1>2, <1>3, <1>4 DEF VerdictInv, LoadIsWhole

(* ... and a worker the verdict under what the walker has met: the file    *)
(* may be newer than that by the time it is read, but never older.         *)
LEMMA TaskHonest ==
  ASSUME PipelineInv, VerdictInv, NEW f \in Files, PipelineWork(f)
  PROVE  VerdictInv'
<1>1. /\ version' = version /\ loaded' = loaded /\ info' = info /\ signatures' = signatures
      /\ proc' = proc /\ inflight' \subseteq inflight
  BY DEF PipelineWork, FailTask, ScanThrows, ScanClean, ScanMalicious, RecordVerdict,
         EndTask, CompleteTask, TaskThrows, task_vars, world, vars, scan_memory
<1>2. EntriesAreHonest'
  <2>1. CASE RecordVerdict(f)
    <3>1. f \in inflight /\ judged[f] # Unread /\ Update(f, info[f], judged[f])
      BY <2>1 DEF RecordVerdict
    <3>2. info[f] \in Metadata /\ judged[f] \in Readings
      BY <3>1 DEF PipelineInv, PipelineTypeOK, TasksAreMet
    <3>3. /\ Between(info[f].file, judged[f].file, f)
          /\ info[f].signatures = judged[f].signatures
      <4>1. loaded.stamp = loaded.content
        BY <3>1 DEF PipelineInv, TasksAreMet, VerdictInv, LoadIsWhole
      <4> QED BY <3>1, <4>1 DEF VerdictInv, TasksAreHonest
    <3> QED BY <1>1, <3>1, <3>2, <3>3, UpdateHonest DEF VerdictInv
  <2>2. CASE ~ RecordVerdict(f)
    <3>1. UNCHANGED cache_vars
      BY <2>2 DEF PipelineWork, FailTask, ScanThrows, ScanClean, ScanMalicious, EndTask
    <3> QED BY <1>1, <3>1, VersionsStay, KeptHonest
            DEF cache_vars, cache_disk, cache_memory, VerdictInv
  <2> QED BY <2>1, <2>2
<1>3. TasksAreHonest'
  <2>1. CASE judged' = judged
    BY <1>1, <2>1, VersionsStay, TasksKept
  <2>2. CASE EndTask(f)
    <3>1. f \notin inflight' /\ judged' = [judged EXCEPT ![f] = Unread]
      BY <2>2 DEF EndTask, CompleteTask
    <3>2. \A g \in inflight' : judged'[g] = judged[g]
      BY <1>1, <3>1 DEF PipelineInv, PipelineTypeOK, TypeOK
    <3> QED BY <1>1, <3>2, VersionsStay, TasksKept
  <2>3. CASE ScanClean(f) \/ ScanMalicious(f)
    <3>1. PICK v \in info[f].file .. version[f], b \in BOOLEAN :
            judged' = [judged EXCEPT ![f] =
                         [file |-> v, signatures |-> loaded.content, cut |-> b]]
      BY <2>3 DEF ScanClean, ScanMalicious, Readable
    <3>2. info[f].file <= v /\ v <= version[f]
      <4>1. f \in inflight
        BY <2>3 DEF ScanClean, ScanMalicious, Reads
      <4>2. info[f].file \in Int /\ version[f] \in Int
        BY <4>1, CacheAssumption
        DEF PipelineInv, PipelineTypeOK, TasksAreMet, Metadata, Versions
      <4> QED BY <3>1, <4>2
    <3>3. judged'[f] = [file |-> v, signatures |-> loaded.content, cut |-> b]
          /\ \A g \in Files \ {f} : judged'[g] = judged[g]
      BY <3>1 DEF PipelineInv, PipelineTypeOK
    <3>4. \A g \in inflight' : g \in inflight /\ g \in Files
      BY <1>1 DEF PipelineInv, PipelineTypeOK, TypeOK
    <3> QED BY <1>1, <3>2, <3>3, <3>4 DEF VerdictInv, TasksAreHonest, Between
  <2> QED BY <2>1, <2>2, <2>3
      DEF PipelineWork, FailTask, ScanThrows, RecordVerdict, task_vars
<1> QED BY <1>1, <1>2, <1>3 DEF VerdictInv, LoadIsWhole

LEMMA QuietHonest ==
  ASSUME PipelineInv, VerdictInv,
         \/ EndHit \/ EndDiscovery \/ CommitStep \/ WriterStep \/ UNCHANGED all_vars
  PROVE  VerdictInv'
<1>1. UNCHANGED <<world, loaded, task_vars>>
  BY DEF EndHit, EndDiscovery, CommitStep, WriterStep, pipeline_vars, all_vars
<1>2. inflight' = inflight /\ (proc' = "down" <=> proc = "down")
  BY DEF EndHit, CompleteHit, EndDiscovery, FinishDiscovery, CommitStep, WriterStep,
         all_vars, vars, scan_memory
<1>3. EntriesAreHonest'
  <2>1. CASE WriterStep
    BY <1>1, <2>1, WriterHonest DEF WriterStep, VerdictInv, world
  <2>2. CASE EndHit \/ EndDiscovery \/ CommitStep \/ UNCHANGED all_vars
    <3>1. UNCHANGED <<cache_entries, upsert_queue, batch>>
      BY <2>2 DEF EndHit, EndDiscovery, CommitStep, CommitGeneration, TellWriterToStop,
                  CleanOldGenerations, all_vars, cache_vars, cache_disk, cache_memory
    <3>2. \A f \in Files : rows'[f] \in {rows[f], NoEntry}
      BY <2>2, PipelineAssumption
      DEF EndHit, EndDiscovery, CommitStep, CommitGeneration, TellWriterToStop,
          CleanOldGenerations, all_vars, cache_vars, cache_disk
    <3> QED BY <1>1, <3>1, <3>2, VersionsStay, KeptHonest DEF world, VerdictInv
  <2> QED BY <2>1, <2>2
<1>4. TasksAreHonest'
  BY <1>1, <1>2, VersionsStay, TasksKept DEF world, task_vars
<1> QED BY <1>1, <1>2, <1>3, <1>4 DEF VerdictInv, LoadIsWhole, world

LEMMA EndHonest ==
  ASSUME PipelineInv, VerdictInv, EndScan \/ CrashScan
  PROVE  VerdictInv'
<1>1. /\ PipelineMemoryLost /\ UNCHANGED <<rows, world>>
      /\ proc' = "down" /\ inflight' = {}
  BY DEF EndScan, CrashScan, Finish, Crash, SaveGeneration, cache_disk
<1>2. \A f \in Files : cache_entries'[f] = NoEntry
  BY <1>1, PipelineAssumption DEF PipelineMemoryLost, CacheMemoryLost, Empty
<1>3. EntriesAreHonest'
  BY <1>1, <1>2, VersionsStay, KeptHonest
  DEF PipelineMemoryLost, CacheMemoryLost, world, VerdictInv
<1> QED BY <1>1, <1>3 DEF PipelineMemoryLost, VerdictInv, LoadIsWhole, TasksAreHonest

LEMMA WorldHonest ==
  ASSUME PipelineInv, VerdictInv, ~EditsMidLoad,
         \/ ReadSignatures \/ EditSignatures
         \/ \E f \in Files : ModifyFile(f) \/ RestoreFile(f)
  PROVE  VerdictInv'
<1>1. UNCHANGED <<vars, cache_vars, task_vars>>
  BY DEF ReadSignatures, EditSignatures, ModifyFile, RestoreFile
<1>2. \A f \in Files : version'[f] \in Versions /\ version[f] <= version'[f]
  BY CacheAssumption
  DEF ReadSignatures, EditSignatures, ModifyFile, RestoreFile, world, PipelineInv,
      PipelineTypeOK, Versions
<1>3. EntriesAreHonest'
  BY <1>1, <1>2, KeptHonest DEF cache_vars, cache_disk, cache_memory, VerdictInv
<1>4. TasksAreHonest'
  <2>1. CASE ReadSignatures
    BY <1>1, <2>1 DEF ReadSignatures, PipelineInv, TasksAreMet, TasksAreHonest, vars,
       scan_memory
  <2>2. CASE ~ ReadSignatures
    <3>1. loaded' = loaded
      BY <2>2 DEF EditSignatures, ModifyFile, RestoreFile
    <3> QED BY <1>1, <1>2, <3>1, TasksKept DEF vars, scan_memory, task_vars
  <2> QED BY <2>1, <2>2
<1>5. LoadIsWhole'
  BY <1>1 DEF ReadSignatures, EditSignatures, ModifyFile, RestoreFile, world, VerdictInv,
              LoadIsWhole, vars, scan_memory
<1> QED BY <1>3, <1>4, <1>5 DEF VerdictInv

LEMMA VerdictInvInit == PipelineInit => VerdictInv
BY NoEntryIsHonest
DEF PipelineInit, Init, VerdictInv, LoadIsWhole, EntriesAreHonest, TasksAreHonest

LEMMA VerdictInvStep ==
  ASSUME PipelineInv, VerdictInv, ~EditsMidLoad, [PipelineNext]_all_vars
  PROVE  VerdictInv'
BY StartScanHonest, VisitHonest, TaskHonest, QuietHonest, EndHonest, WorldHonest
DEF PipelineNext, PipelineWalk

(* An honest entry filed under the present metadata is current: nothing    *)
(* lies between the version of the file and itself.                        *)
LEMMA HonestIsCurrent ==
  ASSUME PipelineInv, NEW f \in Files, NEW e \in Entries \cup {NoEntry}, Honest(e, f)
  PROVE  Current(e, f)
<1> SUFFICES ASSUME e # NoEntry,
                    e.metadata = [file |-> version[f], signatures |-> signatures]
             PROVE  Content(e.judged) = [file |-> version[f], signatures |-> signatures]
  BY DEF Current
<1>1. e \in Entries /\ version[f] \in Int /\ e.judged \in Readings /\ e.judged.file \in Int
  BY CacheAssumption
  DEF PipelineInv, PipelineTypeOK, Versions, Entries, Readings
<1>2. e.judged.file = version[f] /\ e.judged.signatures = signatures
  BY <1>1 DEF Honest, Between
<1> QED BY <1>2 DEF Content

LEMMA VerdictInvSuffices == PipelineInv /\ VerdictInv => VerdictsAreCurrent
<1> SUFFICES ASSUME PipelineInv, VerdictInv PROVE VerdictsAreCurrent
  OBVIOUS
<1>1. ASSUME NEW f \in Files
      PROVE  /\ rows[f] \in Entries \cup {NoEntry}
             /\ cache_entries[f] \in Entries \cup {NoEntry}
  BY PipelineAssumption DEF PipelineInv, PipelineTypeOK, CacheTypeOK
<1>2. ASSUME NEW q \in upsert_queue \cup batch
      PROVE  q.path \in Files /\ q.entry \in Entries
  BY PipelineAssumption DEF PipelineInv, PipelineTypeOK, CacheTypeOK, Queued
<1> QED BY <1>1, <1>2, HonestIsCurrent DEF VerdictInv, EntriesAreHonest, VerdictsAreCurrent

LEMMA VerdictInvariant == ~EditsMidLoad => (PipelineSpec => [](PipelineInv /\ VerdictInv))
<1> SUFFICES ASSUME ~EditsMidLoad PROVE PipelineSpec => [](PipelineInv /\ VerdictInv)
  OBVIOUS
<1>1. PipelineSpec => []TypeOK
  BY PipelineImplementsResumeScan, TypeCorrect, PTL
<1>2. PipelineInit => PipelineInv /\ VerdictInv
  BY PipelineInvInit, VerdictInvInit
<1>3. PipelineInv /\ VerdictInv /\ TypeOK' /\ [PipelineNext]_all_vars
        => PipelineInv' /\ VerdictInv'
  BY PipelineInvStep, VerdictInvStep
<1> QED BY <1>1, <1>2, <1>3, PTL DEF PipelineSpec

(* A verdict is reused only for the content and the signatures it was      *)
(* computed from, however files change under the scan, whatever fails and  *)
(* wherever it is killed, unless the signatures change while they load.    *)
THEOREM VerdictsAreTrusted == ~EditsMidLoad => (PipelineSpec => []VerdictsAreCurrent)
<1> SUFFICES ASSUME ~EditsMidLoad PROVE PipelineSpec => []VerdictsAreCurrent
  OBVIOUS
<1>1. ~EditsMidLoad
  OBVIOUS
<1> QED BY <1>1, VerdictInvariant, VerdictInvSuffices, PTL
=============================================================================
