--------------------------- MODULE ScanPipeline ---------------------------
(***************************************************************************)
(* ScanPipeline::scan with the signatures, the cache and the outcome of    *)
(* quarantine: the scans of ResumeScan, where each file is looked up,      *)
(* re-stamped or scanned, moved away if it is malicious and recorded, a    *)
(* writer thread stores the records, and the end of a scan prunes the rows *)
(* that a scan of the whole system has not seen.  Files change while they  *)
(* are scanned, and the signature file while nothing is loading it.        *)
(***************************************************************************)
EXTENDS ResumeScan, CacheManager

CONSTANTS
  FullRoot,            \* the root "/"
  Matches,             \* contents in which one of the signatures occurs
  EmptySignatures,     \* versions of the signature file that hold none
  EditsMidLoad,        \* whether that file may change while it is loaded
  QuarantineMayFail    \* quarantine() returns false

ASSUME PipelineAssumption ==
  /\ FullRoot \in Roots /\ Paths = Files
  /\ Matches \subseteq Contents
  /\ EmptySignatures \subseteq SignatureVersions
  /\ {EditsMidLoad, QuarantineMayFail} \subseteq BOOLEAN

VARIABLES
  version,           \* the version of each file
  away,              \* files that are in quarantine
  signatures,        \* the version of config/signatures.txt
  loaded,            \* SignatureLoader: what was read, and when it was edited
  info,              \* the metadata each file was met with
  judged,            \* what the running tasks have read their verdict from
  recorded,          \* tasks that have recorded their verdict
  summary,           \* ScanSummary, each counter as the files it counts
  commit,            \* how far commitGeneration has come
  stamped,           \* files recorded by this process
  stamped_before     \* files recorded by the runs that it resumes, as long as
                     \* this process has not come across them itself

world == <<version, away, signatures>>
task_vars == <<info, judged, recorded>>
stamps == <<stamped, stamped_before>>
pipeline_vars == <<world, loaded, task_vars, summary, commit, stamps>>
all_vars == <<vars, cache_vars, pipeline_vars>>

NotLoaded == [content |-> 0, stamp |-> 0]
NoInfo == [file |-> 0, signatures |-> 0]
Unread == [file |-> 0, signatures |-> 0, cut |-> FALSE]
Counters == {"discovered", "scanned", "cached", "malicious", "quarantined", "failed"}
NoCounts == [c \in Counters |-> {}]

PipelineTypeOK ==
  /\ TypeOK
  /\ CacheTypeOK
  /\ version \in [Files -> Versions]
  /\ away \subseteq Files
  /\ signatures \in SignatureVersions
  /\ loaded \in [content : {0} \cup SignatureVersions, stamp : {0} \cup SignatureVersions]
  /\ info \in [Files -> Metadata \cup {NoInfo}]
  /\ judged \in [Files -> Readings \cup {Unread}]
  /\ recorded \subseteq inflight
  /\ summary \in [Counters -> SUBSET Files]
  /\ commit \in {"no", "finishing", "joined", "pruned"}
  /\ stamped \subseteq Files
  /\ stamped_before \subseteq Files

PipelineInit ==
  /\ Init
  /\ rows = Empty
  /\ gen_file = 0
  /\ cache_open = FALSE
  /\ cache_entries = Empty
  /\ current_generation = 0
  /\ upsert_queue = {}
  /\ batch = {}
  /\ writer = "waiting"
  /\ writer_stop = FALSE
  /\ version = [f \in Files |-> 1]
  /\ away = {}
  /\ signatures = 1
  /\ loaded = NotLoaded
  /\ info = [f \in Files |-> NoInfo]
  /\ judged = [f \in Files |-> Unread]
  /\ recorded = {}
  /\ summary = NoCounts
  /\ commit = "no"
  /\ stamped = {}
  /\ stamped_before = {}

Count(f, counters) ==
  summary' = [c \in Counters |-> IF c \in counters THEN summary[c] \cup {f} ELSE summary[c]]

(***************************************************************************)
(* SignatureLoader::load() reads the lines of the file and asks for its    *)
(* time afterwards.  Without signatures scan() returns at once.            *)
(***************************************************************************)
ReadSignatures ==
  /\ proc = "down" /\ loaded = NotLoaded
  /\ signatures \notin EmptySignatures
  /\ loaded' = [content |-> signatures, stamp |-> 0]
  /\ UNCHANGED <<vars, cache_vars, world, task_vars, summary, commit, stamps>>

(* lastModified(), which stays 0 if the file is gone by now.               *)
StatSignatures ==
  loaded' \in {[loaded EXCEPT !.stamp = stamp] :
                 stamp \in {signatures} \cup (IF EditsMidLoad THEN {0} ELSE {})}

(* load() precedes begin(); both happen before any file is handed out.     *)
StartScan(r) ==
  /\ loaded # NotLoaded
  /\ StatSignatures
  /\ Start(r)
  /\ CacheLoad(SavesMayFail)
  /\ stamped' = {}
  /\ stamped_before' = IF CanResume(r) THEN stamped_before \cup stamped ELSE {}
  /\ UNCHANGED <<world, task_vars, summary, commit>>

(* handleDiscoveredFile(): the metadata of the walker's stat decides.      *)
Met(f) == [file |-> version[f], signatures |-> loaded.stamp]

HandleMiss(f) ==
  /\ f \notin away
  /\ CacheMiss(f)
  /\ ~Cached(f, Met(f))
  /\ info' = [info EXCEPT ![f] = Met(f)]
  /\ Count(f, {"discovered"})
  /\ stamped_before' = stamped_before \ {f}
  /\ UNCHANGED <<cache_vars, world, loaded, judged, recorded, commit, stamped>>

(* The verdict of a reading: signatures were found in it.                  *)
Content(reading) == [file |-> reading.file, signatures |-> reading.signatures]
Malicious(reading) == ~reading.cut /\ Content(reading) \in Matches

(* Mutant: a hit is not stamped again.                                     *)
HandleHitUnstamped(f) ==
  /\ f \notin away
  /\ CacheHit(f)
  /\ Cached(f, Met(f))
  /\ info' = [info EXCEPT ![f] = Met(f)]
  /\ Count(f, {"discovered", "cached"}
              \cup (IF Malicious(cache_entries[f].judged) THEN {"malicious"} ELSE {}))
  /\ stamped' = stamped \cup {f}
  /\ stamped_before' = stamped_before \ {f}
  /\ UNCHANGED <<cache_vars, world, loaded, judged, recorded, commit>>

(* A malicious hit is counted, but not quarantined again.                  *)
HandleHit(f) ==
  /\ f \notin away
  /\ CacheHit(f)
  /\ Cached(f, Met(f))
  /\ info' = [info EXCEPT ![f] = Met(f)]
  /\ Count(f, {"discovered", "cached"}
              \cup (IF Malicious(cache_entries[f].judged) THEN {"malicious"} ELSE {}))
  /\ Update(f, Met(f), cache_entries[f].judged)
  /\ stamped' = stamped \cup {f}
  /\ stamped_before' = stamped_before \ {f}
  /\ UNCHANGED <<world, loaded, judged, recorded, commit>>

EndHit == CompleteHit /\ UNCHANGED <<cache_vars, pipeline_vars>>

SkipFile(f) ==
  /\ PassOver(f)
  /\ stamped_before' = stamped_before \ {f}
  /\ UNCHANGED <<cache_vars, world, loaded, task_vars, summary, commit, stamped>>

(* Mutant: the failure is not counted.                                     *)
FailTaskUncounted(f) ==
  /\ f \in inflight /\ judged[f] = Unread
  /\ CompleteTask(f)
  /\ UNCHANGED <<cache_vars, pipeline_vars>>

(* The file cannot be opened: counted, completed, and nothing cached.      *)
FailTask(f) ==
  /\ f \in inflight /\ judged[f] = Unread
  /\ CompleteTask(f)
  /\ Count(f, {"failed"})
  /\ UNCHANGED <<cache_vars, world, loaded, task_vars, commit, stamps>>

(* The task reads the file, which may have changed since the stat.  A read *)
(* error ends the loop of FileProcessor as the end of the file does; it is *)
(* told apart only where it keeps the task from a match.                   *)
Readable(f) ==
  IF f \in away THEN {}
  ELSE {[file |-> v, signatures |-> loaded.content, cut |-> c] :
          v \in info[f].file .. version[f], c \in BOOLEAN}

Reads(f, reading) ==
  /\ f \in inflight /\ judged[f] = Unread
  /\ reading \in Readable(f)
  /\ reading.cut => Content(reading) \in Matches

ScanClean(f) ==
  \E reading \in Readable(f) :
    /\ Reads(f, reading) /\ ~Malicious(reading)
    /\ judged' = [judged EXCEPT ![f] = reading]
    /\ Count(f, {"scanned"})
    /\ UNCHANGED <<vars, cache_vars, world, loaded, info, recorded, commit, stamps>>

(* handleScanResult(), first half: a malicious file is counted and moved   *)
(* to quarantine, or stays where it is ...                                 *)
ScanMalicious(f) ==
  \E reading \in Readable(f) :
    /\ Reads(f, reading) /\ Malicious(reading)
    /\ judged' = [judged EXCEPT ![f] = reading]
    /\ \/ away' = away \cup {f} /\ Count(f, {"scanned", "malicious", "quarantined"})
       \/ QuarantineMayFail /\ away' = away /\ Count(f, {"scanned", "malicious"})
    /\ UNCHANGED <<vars, cache_vars, version, signatures, loaded, info, recorded,
                   commit, stamps>>

(* ... or quarantine() throws, before or after the move: nothing else of   *)
(* the task happens.                                                       *)
ScanThrows(f) ==
  \E reading \in Readable(f) :
    /\ Reads(f, reading) /\ Malicious(reading)
    /\ TaskThrows(f)
    /\ away' \in {away, away \cup {f}}
    /\ Count(f, {"scanned", "malicious"})
    /\ UNCHANGED <<cache_vars, version, signatures, loaded, task_vars, commit, stamps>>

(* Mutant: the verdict is recorded under metadata read after the content.  *)
RecordVerdictRestat(f) ==
  /\ f \in inflight \ recorded /\ judged[f] # Unread
  /\ Update(f, Met(f), judged[f])
  /\ recorded' = recorded \cup {f}
  /\ stamped' = stamped \cup {f}
  /\ UNCHANGED <<vars, world, loaded, info, judged, summary, commit, stamped_before>>

(* The second half records the verdict under the metadata of the stat ...  *)
RecordVerdict(f) ==
  /\ f \in inflight \ recorded /\ judged[f] # Unread
  /\ Update(f, info[f], judged[f])
  /\ recorded' = recorded \cup {f}
  /\ stamped' = stamped \cup {f}
  /\ UNCHANGED <<vars, world, loaded, info, judged, summary, commit, stamped_before>>

(* Mutant: the task is not forgotten when it ends.                         *)
EndTaskKept(f) ==
  /\ f \in recorded
  /\ CompleteTask(f)
  /\ UNCHANGED <<cache_vars, pipeline_vars>>

(* ... and only then tells the ResumeManager.                              *)
EndTask(f) ==
  /\ f \in recorded
  /\ CompleteTask(f)
  /\ recorded' = recorded \ {f}
  /\ judged' = [judged EXCEPT ![f] = Unread]
  /\ UNCHANGED <<cache_vars, world, loaded, info, summary, commit, stamps>>

EndDiscovery == FinishDiscovery /\ UNCHANGED <<cache_vars, pipeline_vars>>

(* Mutants: every scan prunes; the writer is told to stop but not joined.  *)
CommitGenerationOfAnyScan ==
  \/ /\ commit = "no"
     /\ proc = "draining" /\ inflight = {}
     /\ TellWriterToStop
     /\ commit' = "finishing"
  \/ /\ commit = "finishing"
     /\ writer = "gone"
     /\ commit' = "joined"
     /\ UNCHANGED cache_vars
  \/ /\ commit = "joined"
     /\ commit' = "pruned"
     /\ CleanOldGenerations

CommitGenerationUnjoined ==
  \/ /\ commit = "no"
     /\ proc = "draining" /\ inflight = {}
     /\ TellWriterToStop
     /\ commit' = "joined"
  \/ /\ commit = "joined"
     /\ commit' = "pruned"
     /\ IF root = FullRoot THEN CleanOldGenerations ELSE UNCHANGED cache_vars

(* commitGeneration(), after pool.wait().                                  *)
CommitGeneration ==
  \/ /\ commit = "no"
     /\ proc = "draining" /\ inflight = {}
     /\ TellWriterToStop
     /\ commit' = "finishing"
  \/ /\ commit = "finishing"
     /\ writer = "gone"
     /\ commit' = "joined"
     /\ UNCHANGED cache_vars
  \/ /\ commit = "joined"
     /\ commit' = "pruned"
     /\ IF root = FullRoot THEN CleanOldGenerations ELSE UNCHANGED cache_vars

CommitStep ==
  CommitGeneration /\ UNCHANGED <<vars, world, loaded, task_vars, summary, stamps>>

(* What the process kept in memory is gone.                                *)
PipelineMemoryLost ==
  /\ CacheMemoryLost
  /\ loaded' = NotLoaded
  /\ info' = [f \in Files |-> NoInfo]
  /\ judged' = [f \in Files |-> Unread]
  /\ recorded' = {}
  /\ summary' = NoCounts
  /\ commit' = "no"

EndScan ==
  /\ commit = "pruned"
  /\ Finish
  /\ SaveGeneration(SavesMayFail)
  /\ PipelineMemoryLost
  /\ UNCHANGED <<world, stamps>>

WriterStep ==
  /\ WriterTakes \/ WriterWrites
  /\ UNCHANGED <<vars, pipeline_vars>>

CrashScan ==
  /\ Crash
  /\ PipelineMemoryLost
  /\ UNCHANGED <<cache_disk, world, stamps>>

(* Somebody changes a file, and its modification time with it; a command   *)
(* moves a file back, as it was; somebody edits the signatures.            *)
ModifyFile(f) ==
  /\ f \notin away
  /\ version[f] < MaxVersion
  /\ version' = [version EXCEPT ![f] = @ + 1]
  /\ UNCHANGED <<vars, cache_vars, away, signatures, loaded, task_vars, summary,
                 commit, stamps>>

RestoreFile(f) ==
  /\ f \in away
  /\ away' = away \ {f}
  /\ UNCHANGED <<vars, cache_vars, version, signatures, loaded, task_vars, summary,
                 commit, stamps>>

EditSignatures ==
  /\ signatures < MaxSignatures
  /\ EditsMidLoad \/ loaded = NotLoaded \/ proc # "down"
  /\ signatures' = signatures + 1
  /\ UNCHANGED <<vars, cache_vars, version, away, loaded, task_vars, summary, commit,
                 stamps>>

PipelineWalk == (\E f \in Files : HandleMiss(f) \/ HandleHit(f) \/ SkipFile(f))
                \/ EndHit \/ EndDiscovery
PipelineWork(f) ==
  \/ FailTask(f) \/ ScanClean(f) \/ ScanMalicious(f) \/ ScanThrows(f)
  \/ RecordVerdict(f) \/ EndTask(f)

PipelineNext ==
  \/ ReadSignatures
  \/ \E r \in Roots : StartScan(r)
  \/ PipelineWalk
  \/ \E f \in Files : PipelineWork(f)
  \/ CommitStep \/ EndScan
  \/ WriterStep
  \/ CrashScan
  \/ \E f \in Files : ModifyFile(f) \/ RestoreFile(f)
  \/ EditSignatures

PipelineSpec == PipelineInit /\ [][PipelineNext]_all_vars

(* The walking thread, each worker and the writer keep running.            *)
PipelineFairSpec ==
  /\ PipelineSpec
  /\ WF_all_vars(PipelineWalk \/ CommitStep \/ EndScan)
  /\ WF_all_vars(WriterStep)
  /\ \A f \in Files : WF_all_vars(PipelineWork(f))
-----------------------------------------------------------------------------
Dropped(f) == proc # "down" /\ rows[f] # NoEntry /\ rows'[f] = NoEntry

(* Rows are dropped only at the end of a full scan that has dealt with     *)
(* every file, however often it was interrupted; a scan that is killed     *)
(* never prunes (tests/test_25, README "Generation cleanup is only         *)
(* committed after a successful scan").                                    *)
PruneOnlyAfterFullScan ==
  [][\A f \in Files : Dropped(f) =>
       root = FullRoot /\ FilesOf[root] \subseteq accounted[root]]_all_vars

(* What this process has seen is not dropped: commitGeneration() waits for *)
(* the writer, and the writer for its last batch, before it prunes.        *)
PruneKeepsSeen ==
  [][\A f \in Files : Dropped(f) => f \notin stamped]_all_vars

(* The same over the interrupted runs that this one resumed: the files     *)
(* they recorded, and this one skipped because the checkpoint told it to,  *)
(* keep their rows (README.md:340 "This prevents an interrupted scan from  *)
(* deleting valid cache information").                                     *)
InterruptionKeepsCache ==
  [][\A f \in Files : Dropped(f) => f \notin stamped \cup stamped_before]_all_vars

(* A full scan drops every entry not stamped with the current generation   *)
(* (CacheManager.h:39), so that a deleted file's row goes with the next    *)
(* one: generations never run ahead of the counter on disk.  It holds as   *)
(* long as the generation fits the signed column of the table.             *)
PruneLeavesCurrent ==
  [][commit = "joined" /\ commit' = "pruned" /\ root = FullRoot
     /\ current_generation < Half =>
       \A f \in Files : rows'[f] = NoEntry
                        \/ rows'[f].generation = current_generation]_all_vars

(* When the writer has been joined, every stamp of this scan is durable    *)
(* (CacheManager.cpp:81).                                                  *)
StampsAreDurable ==
  commit \in {"joined", "pruned"} =>
    \A f \in stamped : rows[f].generation = current_generation

(* Scans run under monotonically increasing generations (CacheEntry.h:28): *)
(* the counter only moves forward, except when it restarts on wiped rows.  *)
GenerationAdvances ==
  [][gen_file' >= gen_file \/ rows' = Empty]_all_vars

(* A verdict is reused only for what it was computed from: an entry that   *)
(* matches the file and the signatures as they are was computed from that  *)
(* content with those signatures, although files change between the stat,  *)
(* the read and the record (README.md:478 "When the signature file         *)
(* changes, existing cache entries are no longer trusted").                *)
Current(entry, f) ==
  LET now == [file |-> version[f], signatures |-> signatures]
  IN  entry # NoEntry /\ entry.metadata = now => Content(entry.judged) = now

VerdictsAreCurrent ==
  /\ \A f \in Files : Current(rows[f], f) /\ Current(cache_entries[f], f)
  /\ \A q \in upsert_queue \cup batch : Current(q.entry, q.path)

(* Only a read error keeps a scan silent about malware: a file that it     *)
(* met, and that matches the signatures of this scan as it has been since, *)
(* is reported as malicious or as failed when the scan ends, whether it    *)
(* was read or its verdict was cached, and whether or not an earlier       *)
(* quarantine failed; unless a read error ended the reading of this very   *)
(* content, with these signatures, in this scan or in the one that cached  *)
(* its verdict (FileProcessor.cpp:45; run match_read_fails).               *)
CutShort(f) ==
  [file |-> version[f], signatures |-> loaded.content, cut |-> TRUE]

SilentOnlyAfterReadError ==
  commit # "no" =>
    \A f \in summary["discovered"] \ (summary["malicious"] \cup summary["failed"]) :
      /\ info[f].file = version[f]
      /\ [file |-> version[f], signatures |-> loaded.content] \in Matches
      => cache_entries[f] # NoEntry /\ cache_entries[f].judged = CutShort(f)

(* When the scan ends, each file that was discovered is counted as         *)
(* scanned, cached or failed, and as one of them only, though walker and   *)
(* workers count on their own; files are quarantined among the malicious,  *)
(* and those are not among the failed.                                     *)
SummaryAddsUp ==
  commit # "no" =>
    /\ summary["discovered"] = summary["scanned"] \cup summary["cached"] \cup summary["failed"]
    /\ summary["scanned"] \cap summary["cached"] = {}
    /\ summary["failed"] \cap (summary["scanned"] \cup summary["cached"]) = {}
    /\ summary["malicious"] \cap summary["failed"] = {}
    /\ summary["quarantined"] \subseteq summary["malicious"] \cap summary["scanned"]
-----------------------------------------------------------------------------
(* The inductive invariants behind PipelineTypeOK and VerdictsAreCurrent   *)
(* (proved in ScanPipelineProofs).  A task belongs to a file that has been *)
(* met, and reads it once.                                                 *)
TasksAreMet ==
  /\ IF proc = "down" THEN loaded # NotLoaded => loaded.content # 0
                      ELSE loaded.content # 0
  /\ \A f \in inflight : proc # "down" /\ f < walk_pos /\ info[f] # NoInfo
  /\ \A f \in Files : judged[f] # Unread => f \in inflight
  /\ \A f \in recorded : judged[f] # Unread

(* What was read goes with the time that was asked for ...                 *)
LoadIsWhole ==
  IF proc = "down" THEN loaded # NotLoaded => loaded.content = signatures
                   ELSE loaded.stamp = loaded.content

(* ... a verdict comes from a content no older than the metadata it is     *)
(* filed under, and from the signatures of their time.                     *)
Between(early, late, f) == early <= late /\ late <= version[f]

Honest(entry, f) ==
  entry # NoEntry =>
    /\ Between(entry.metadata.file, entry.judged.file, f)
    /\ entry.metadata.signatures = entry.judged.signatures

EntriesAreHonest ==
  /\ \A f \in Files : Honest(rows[f], f) /\ Honest(cache_entries[f], f)
  /\ \A q \in upsert_queue \cup batch : Honest(q.entry, q.path)

TasksAreHonest ==
  \A f \in inflight :
    /\ info[f].file <= version[f] /\ info[f].signatures = loaded.stamp
    /\ judged[f] # Unread =>
         /\ Between(info[f].file, judged[f].file, f)
         /\ judged[f].signatures = loaded.content

VerdictInv == LoadIsWhole /\ EntriesAreHonest /\ TasksAreHonest
=============================================================================
