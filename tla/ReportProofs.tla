---------------------------- MODULE ReportProofs ----------------------------
(***************************************************************************)
(* Proofs about what a scan reports: its counters add up, and no file that *)
(* matches the signatures passes in silence.                               *)
(***************************************************************************)
EXTENDS PruneProofs

(* Each file that was met is counted once, or its task has still to read.  *)
Unjudged == {f \in inflight : judged[f] = Unread}

CountsInv ==
  /\ proc = "down" => summary = NoCounts
  /\ \A f \in summary["discovered"] : f < walk_pos
  /\ summary["discovered"] =
       summary["scanned"] \cup summary["cached"] \cup summary["failed"] \cup Unjudged
  /\ inflight \cap (summary["cached"] \cup summary["failed"]) = {}
  /\ inflight \cap summary["scanned"] = inflight \ Unjudged
  /\ summary["scanned"] \cap summary["cached"] = {}
  /\ summary["failed"] \cap (summary["scanned"] \cup summary["cached"]) = {}
  /\ summary["malicious"] \subseteq summary["scanned"] \cup summary["cached"]
  /\ summary["quarantined"] \subseteq summary["malicious"] \cap summary["scanned"]

(* A file that the walk meets has not been counted in any way.             *)
LEMMA VisitCounts ==
  ASSUME PipelineInv, CountsInv, NEW f \in Files,
         HandleMiss(f) \/ HandleHit(f) \/ SkipFile(f)
  PROVE  CountsInv'
<1> USE DEF Counters
<1>1. /\ Visit(f) /\ f \notin inflight /\ proc' # "down" /\ judged' = judged
      /\ f \in Int /\ walk_pos \in Int /\ walk_pos' = f + 1 /\ f >= walk_pos
      /\ judged[f] = Unread
  BY MetFilesAreNew
  DEF HandleMiss, HandleHit, SkipFile, CacheMiss, CacheHit, PassOver, Visit, Upcoming,
      task_vars, PipelineInv, PipelineTypeOK, TypeOK, Files
<1>2. f \notin summary["discovered"] /\ \A g \in summary["discovered"] : g \in Int
  BY <1>1 DEF CountsInv, PipelineInv, PipelineTypeOK, Files
<1>3. \A g \in summary["discovered"] \cup {f} : g < walk_pos'
  BY <1>1, <1>2 DEF CountsInv
<1>4. CASE HandleMiss(f)
  <2>1. /\ inflight' = inflight \cup {f} /\ Unjudged' = Unjudged \cup {f}
        /\ summary'["discovered"] = summary["discovered"] \cup {f}
        /\ \A c \in Counters \ {"discovered"} : summary'[c] = summary[c]
    BY <1>1, <1>4 DEF HandleMiss, CacheMiss, Count, PipelineInv, PipelineTypeOK, Unjudged
  <2> QED BY <1>1, <1>2, <1>3, <2>1 DEF CountsInv
<1>5. CASE HandleHit(f)
  <2>1. /\ inflight' = inflight /\ Unjudged' = Unjudged
        /\ summary'["discovered"] = summary["discovered"] \cup {f}
        /\ summary'["cached"] = summary["cached"] \cup {f}
        /\ summary'["malicious"] \in {summary["malicious"], summary["malicious"] \cup {f}}
        /\ \A c \in {"scanned", "failed", "quarantined"} : summary'[c] = summary[c]
    <3> DEFINE cs == {"discovered", "cached"}
                     \cup (IF Malicious(cache_entries[f].judged) THEN {"malicious"} ELSE {})
    <3>1. Count(f, cs) /\ inflight' = inflight
      BY <1>5 DEF HandleHit, CacheHit
    <3> HIDE DEF cs
    <3>2. \A c \in Counters : summary'[c] = IF c \in cs THEN summary[c] \cup {f} ELSE summary[c]
      BY <3>1 DEF Count, PipelineInv, PipelineTypeOK
    <3> QED BY <1>1, <3>1, <3>2 DEF Unjudged, cs
  <2> QED BY <1>1, <1>2, <1>3, <2>1 DEF CountsInv
<1>6. CASE SkipFile(f)
  <2>1. inflight' = inflight /\ Unjudged' = Unjudged /\ summary' = summary
    BY <1>1, <1>6 DEF SkipFile, PassOver, Unjudged
  <2> QED BY <1>1, <1>2, <1>3, <2>1 DEF CountsInv
<1> QED BY <1>4, <1>5, <1>6

LEMMA TaskCounts ==
  ASSUME PipelineInv, CountsInv, NEW f \in Files, PipelineWork(f)
  PROVE  CountsInv'
<1> USE DEF Counters
<1>1. /\ walk_pos' = walk_pos /\ proc' = proc /\ f \in inflight /\ proc # "down"
      /\ f \in summary["discovered"]
  BY DEF PipelineWork, FailTask, ScanClean, ScanMalicious, ScanThrows, RecordVerdict, EndTask,
         Reads, CompleteTask, TaskThrows, vars, scan_memory, PipelineInv, TasksAreMet,
         CountsInv, Unjudged
<1>2. CASE FailTask(f)
  <2>1. /\ f \in Unjudged /\ inflight' = inflight \ {f} /\ Unjudged' = Unjudged \ {f}
        /\ summary'["failed"] = summary["failed"] \cup {f}
        /\ \A c \in Counters \ {"failed"} : summary'[c] = summary[c]
    BY <1>2 DEF FailTask, CompleteTask, Count, PipelineInv, PipelineTypeOK, task_vars,
       Unjudged
  <2> QED BY <1>1, <2>1 DEF CountsInv
<1>3. CASE ScanClean(f) \/ ScanMalicious(f)
  <2>1. PICK c \in Readable(f) :
          f \in Unjudged /\ judged' = [judged EXCEPT ![f] = c] /\ inflight' = inflight
    BY <1>3 DEF ScanClean, ScanMalicious, Reads, vars, scan_memory, Unjudged
  <2>2. c # Unread
    <3>1. loaded.content # 0 /\ f \notin away
      BY <1>1, <2>1 DEF Readable, PipelineInv, TasksAreMet
    <3>2. c.signatures = loaded.content
      BY <2>1, <3>1 DEF Readable
    <3> QED BY <3>1, <3>2 DEF Unread
  <2>3. Unjudged' = Unjudged \ {f}
    BY <2>1, <2>2 DEF Unjudged, PipelineInv, PipelineTypeOK, TypeOK
  <2>4. /\ summary'["scanned"] = summary["scanned"] \cup {f}
        /\ summary'["malicious"] \in {summary["malicious"], summary["malicious"] \cup {f}}
        /\ \/ summary'["quarantined"] = summary["quarantined"]
           \/ /\ summary'["quarantined"] = summary["quarantined"] \cup {f}
              /\ summary'["malicious"] = summary["malicious"] \cup {f}
        /\ \A k \in {"discovered", "cached", "failed"} : summary'[k] = summary[k]
    <3>1. ASSUME NEW cs, Count(f, cs), NEW c1 \in Counters
          PROVE  summary'[c1] = IF c1 \in cs THEN summary[c1] \cup {f} ELSE summary[c1]
      BY <3>1 DEF Count, PipelineInv, PipelineTypeOK
    <3>2. CASE Count(f, {"scanned"})
      BY <3>1, <3>2
    <3>3. CASE Count(f, {"scanned", "malicious", "quarantined"})
      BY <3>1, <3>3
    <3>4. CASE Count(f, {"scanned", "malicious"})
      BY <3>1, <3>4
    <3> QED BY <1>3, <3>2, <3>3, <3>4 DEF ScanClean, ScanMalicious
  <2> QED BY <1>1, <2>1, <2>3, <2>4 DEF CountsInv
<1>4. CASE ScanThrows(f)
  <2>1. /\ f \in Unjudged /\ inflight' = inflight \ {f} /\ Unjudged' = Unjudged \ {f}
        /\ \A c \in {"scanned", "malicious"} : summary'[c] = summary[c] \cup {f}
        /\ \A c \in Counters \ {"scanned", "malicious"} : summary'[c] = summary[c]
    <3>1. Count(f, {"scanned", "malicious"}) /\ judged[f] = Unread
          /\ inflight' = inflight \ {f} /\ judged' = judged
      BY <1>4 DEF ScanThrows, Reads, TaskThrows, task_vars
    <3>2. \A c \in Counters : summary'[c] = IF c \in {"scanned", "malicious"}
                                           THEN summary[c] \cup {f} ELSE summary[c]
      BY <3>1 DEF Count, PipelineInv, PipelineTypeOK
    <3> QED BY <1>1, <3>1, <3>2 DEF Unjudged
  <2> QED BY <1>1, <2>1 DEF CountsInv
<1>5. CASE RecordVerdict(f)
  BY <1>5 DEF RecordVerdict, vars, scan_memory, CountsInv, Unjudged
<1>6. CASE EndTask(f)
  <2>1. /\ f \in inflight \ Unjudged /\ inflight' = inflight \ {f} /\ Unjudged' = Unjudged
        /\ summary' = summary
    BY <1>1, <1>6
    DEF EndTask, CompleteTask, Unjudged, PipelineInv, TasksAreMet, PipelineTypeOK, TypeOK
  <2> QED BY <1>1, <2>1 DEF CountsInv
<1> QED BY <1>2, <1>3, <1>4, <1>5, <1>6 DEF PipelineWork

LEMMA CountsStep ==
  ASSUME PipelineInv, CountsInv, [PipelineNext]_all_vars
  PROVE  CountsInv'
<1>1. ASSUME NEW r \in Roots, StartScan(r) PROVE CountsInv'
  <2>1. proc = "down" /\ proc' # "down" /\ UNCHANGED <<summary, inflight, judged>>
    BY <1>1 DEF StartScan, Start, task_vars
  <2>2. \A c \in Counters : summary'[c] = {}
    BY <2>1 DEF CountsInv, NoCounts
  <2> QED BY <2>1, <2>2 DEF CountsInv, Counters, Unjudged
<1>2. CASE EndScan \/ CrashScan
  <2>1. proc' = "down" /\ inflight' = {} /\ summary' = NoCounts
    BY <1>2 DEF EndScan, CrashScan, Finish, Crash, PipelineMemoryLost
  <2>2. \A c \in Counters : summary'[c] = {}
    BY <2>1 DEF NoCounts
  <2> QED BY <2>1, <2>2 DEF CountsInv, Counters, Unjudged
<1>3. CASE \/ EndHit \/ EndDiscovery \/ CommitStep \/ WriterStep \/ ReadSignatures
           \/ EditSignatures \/ UNCHANGED all_vars
           \/ \E f \in Files : ModifyFile(f) \/ RestoreFile(f)
  <2>1. UNCHANGED <<summary, inflight, judged, walk_pos>> /\ (proc' = "down" <=> proc = "down")
    BY <1>3
    DEF EndHit, CompleteHit, EndDiscovery, FinishDiscovery, CommitStep, WriterStep,
        ReadSignatures, EditSignatures, ModifyFile, RestoreFile, all_vars, pipeline_vars,
        task_vars, vars, scan_memory
  <2> QED BY <2>1 DEF CountsInv, Unjudged
<1> QED BY <1>1, <1>2, <1>3, VisitCounts, TaskCounts DEF PipelineNext, PipelineWalk

LEMMA CountsInit == PipelineInit => CountsInv
<1> SUFFICES ASSUME PipelineInit PROVE CountsInv
  OBVIOUS
<1>1. summary = NoCounts /\ inflight = {} /\ \A c \in Counters : summary[c] = {}
  BY DEF PipelineInit, Init, NoCounts
<1> QED BY <1>1 DEF CountsInv, Unjudged, Counters

LEMMA CountsInvariant == PipelineSpec => []CountsInv
<1>1. PipelineInv /\ CountsInv /\ [PipelineNext]_all_vars => CountsInv'
  BY CountsStep
<1> QED BY <1>1, CountsInit, WriterInvariant, PTL DEF PipelineSpec

(* Whatever fails or throws, when a scan ends each discovered file is      *)
(* counted as scanned, cached or failed, and as one of them only.          *)
THEOREM CountersAddUp == PipelineSpec => []SummaryAddsUp
<1>1. WriterInv /\ CountsInv => SummaryAddsUp
  BY DEF WriterInv, CountsInv, Unjudged, SummaryAddsUp
<1> QED BY <1>1, WriterInvariant, CountsInvariant, PTL
-----------------------------------------------------------------------------
(* Each file that was met has still to be read, is reported, has changed   *)
(* since, does not match, or was cut short by a read error: the verdict    *)
(* was computed from the version that was met, with the signatures of this *)
(* scan.                                                                   *)
Clean(f) ==
  info[f].file = version[f] =>
    [file |-> version[f], signatures |-> loaded.content] \notin Matches

(* The reading that excuses a silent scan is in the hands of the task, or  *)
(* in the entry, once the task has ended or if there was none.             *)
Excused(f) ==
  \/ judged[f] = CutShort(f)
  \/ /\ judged[f] = Unread
     /\ cache_entries[f] # NoEntry /\ cache_entries[f].judged = CutShort(f)

Answered(f) ==
  \/ f \in Unjudged
  \/ f \in summary["malicious"] \cup summary["failed"]
  \/ Clean(f)
  \/ Excused(f)

ReportInv ==
  \A f \in summary["discovered"] : info[f].file <= version[f] /\ Answered(f)

(* What a task has recorded stays as it is until the task ends.            *)
RecordedInv ==
  \A f \in recorded : cache_entries[f] # NoEntry /\ cache_entries[f].judged = judged[f]

LEMMA Updated ==
  ASSUME PipelineInv, NEW f \in Files, NEW m, NEW c, Update(f, m, c)
  PROVE  /\ cache_entries'[f] # NoEntry /\ cache_entries'[f].judged = c
         /\ \A g \in Files \ {f} : cache_entries'[g] = cache_entries[g]
<1>1. [metadata |-> m, judged |-> c, generation |-> current_generation] # NoEntry
  BY DEF NoEntry
<1> QED BY <1>1, PipelineAssumption DEF Update, PipelineInv, PipelineTypeOK, CacheTypeOK

LEMMA RecordedStep ==
  ASSUME PipelineInv, RecordedInv, [PipelineNext]_all_vars
  PROVE  RecordedInv'
<1> USE DEF RecordedInv
<1>1. ASSUME NEW r \in Roots, StartScan(r) PROVE RecordedInv'
  BY <1>1 DEF StartScan, Start, task_vars, PipelineInv, PipelineTypeOK, TasksAreMet
<1>2. CASE EndScan \/ CrashScan
  BY <1>2 DEF EndScan, CrashScan, PipelineMemoryLost
<1>3. ASSUME NEW f \in Files, HandleMiss(f) \/ HandleHit(f) \/ SkipFile(f)
      PROVE  RecordedInv'
  <2>1. /\ f \notin recorded /\ UNCHANGED <<recorded, judged>>
        /\ \A g \in Files \ {f} : cache_entries'[g] = cache_entries[g]
    BY <1>3, MetFilesAreNew, Updated
    DEF HandleMiss, HandleHit, SkipFile, CacheMiss, CacheHit, PassOver, task_vars,
        cache_vars, cache_memory, PipelineInv, PipelineTypeOK
  <2> QED BY <2>1 DEF PipelineInv, PipelineTypeOK, TypeOK
<1>4. ASSUME NEW f \in Files, PipelineWork(f) PROVE RecordedInv'
  <2>1. CASE RecordVerdict(f)
    <3>1. /\ recorded' = recorded \cup {f} /\ judged' = judged
          /\ cache_entries'[f] # NoEntry /\ cache_entries'[f].judged = judged[f]
          /\ \A g \in Files \ {f} : cache_entries'[g] = cache_entries[g]
      BY <2>1, Updated DEF RecordVerdict
    <3> QED BY <3>1 DEF PipelineInv, PipelineTypeOK, TypeOK
  <2>2. CASE ~RecordVerdict(f)
    <3>1. /\ recorded' \subseteq recorded /\ cache_entries' = cache_entries
          /\ \A g \in recorded' : judged'[g] = judged[g]
      BY <1>4, <2>2
      DEF PipelineWork, FailTask, ScanClean, ScanMalicious, ScanThrows, EndTask, Reads,
          task_vars, cache_vars, cache_memory, PipelineInv, TasksAreMet, PipelineTypeOK,
          TypeOK
    <3> QED BY <3>1
  <2> QED BY <2>1, <2>2
<1>5. CASE \/ EndHit \/ EndDiscovery \/ CommitStep \/ WriterStep \/ ReadSignatures
           \/ EditSignatures \/ UNCHANGED all_vars
           \/ \E f \in Files : ModifyFile(f) \/ RestoreFile(f)
  <2>1. UNCHANGED <<recorded, judged, cache_entries>>
    BY <1>5
    DEF EndHit, EndDiscovery, CommitStep, CommitGeneration, TellWriterToStop,
        CleanOldGenerations, WriterStep, WriterTakes, WriterWrites, ReadSignatures,
        EditSignatures, ModifyFile, RestoreFile, all_vars, pipeline_vars, task_vars,
        cache_vars, cache_memory, cache_disk
  <2> QED BY <2>1
<1> QED BY <1>1, <1>2, <1>3, <1>4, <1>5 DEF PipelineNext, PipelineWalk

LEMMA KnownVersions ==
  ASSUME PipelineInv, CountsInv, NEW f \in summary["discovered"]
  PROVE  f \in Files /\ version[f] \in Int
BY CacheAssumption DEF PipelineInv, PipelineTypeOK, Versions, Counters

(* A cached verdict comes from the version and the signatures of the stat. *)
LEMMA HitIsAnswered ==
  ASSUME PipelineInv, VerdictInv, CountsInv, NEW f \in Files, HandleHit(f)
  PROVE  Answered(f)'
<1>1. /\ Visit(f) /\ judged[f] = Unread /\ proc # "down" /\ Met(f) \in Metadata
      /\ f \in Paths /\ cache_entries[f] \in Entries /\ cache_entries[f] # NoEntry
      /\ cache_entries[f].metadata = Met(f)
  BY MetFilesAreNew, PipelineAssumption
  DEF HandleHit, CacheHit, Cached, PipelineInv, PipelineTypeOK, CacheTypeOK
<1>2. /\ Between(Met(f).file, cache_entries[f].judged.file, f)
      /\ Met(f).signatures = cache_entries[f].judged.signatures
      /\ loaded.stamp = loaded.content
  BY <1>1 DEF VerdictInv, EntriesAreHonest, Honest, LoadIsWhole
<1>3. /\ Content(cache_entries[f].judged) =
           [file |-> version[f], signatures |-> loaded.content]
      /\ cache_entries[f].judged.cut => cache_entries[f].judged = CutShort(f)
  <2>1. cache_entries[f].judged \in Readings /\ version[f] \in Int
        /\ cache_entries[f].judged.file \in Int
    BY <1>1, CacheAssumption DEF Entries, Readings, Versions, PipelineInv, PipelineTypeOK
  <2>2. cache_entries[f].judged.file = version[f]
        /\ cache_entries[f].judged.signatures = loaded.content
    BY <1>2, <2>1 DEF Between, Met
  <2> QED BY <2>1, <2>2 DEF Readings, Content, CutShort
<1>4. UNCHANGED <<version, loaded, judged>>
  BY DEF HandleHit, world
<1>5. Malicious(cache_entries[f].judged) => f \in summary'["malicious"]
  BY DEF HandleHit, Count, Counters
<1>6. cache_entries'[f] # NoEntry
      /\ cache_entries'[f].judged = cache_entries[f].judged
  BY <1>1 DEF HandleHit, Update, NoEntry, PipelineInv, PipelineTypeOK, CacheTypeOK
<1> QED BY <1>1, <1>3, <1>4, <1>5, <1>6 DEF Answered, Clean, Excused, Malicious, CutShort

(* A task answers for the version it has read: if the file has not changed *)
(* since it was met, that is the version that was met.                     *)
LEMMA ReadIsAnswered ==
  ASSUME PipelineInv, VerdictInv, CountsInv, NEW f \in Files,
         ScanClean(f) \/ ScanMalicious(f) \/ ScanThrows(f)
  PROVE  Answered(f)'
<1>1. UNCHANGED <<version, loaded, info>>
  BY DEF ScanClean, ScanMalicious, ScanThrows, world, task_vars
<1>2. ASSUME ScanMalicious(f) \/ ScanThrows(f) PROVE f \in summary'["malicious"]
  BY <1>2 DEF ScanMalicious, ScanThrows, Count, Counters
<1>3. ASSUME ScanClean(f), info[f].file = version[f]
      PROVE  \/ [file |-> version[f], signatures |-> loaded.content] \notin Matches
             \/ judged'[f] = CutShort(f)
  <2>1. PICK r \in Readable(f) :
          /\ ~Malicious(r) /\ judged' = [judged EXCEPT ![f] = r]
    BY <1>3 DEF ScanClean
  <2>2. PICK v \in info[f].file .. version[f], b \in BOOLEAN :
          r = [file |-> v, signatures |-> loaded.content, cut |-> b]
    BY <2>1 DEF Readable
  <2>3. version[f] \in Int
    BY CacheAssumption DEF PipelineInv, PipelineTypeOK, Versions
  <2>4. v = version[f]
    BY <1>3, <2>2, <2>3
  <2>5. judged'[f] = r
    BY <2>1 DEF PipelineInv, PipelineTypeOK
  <2> QED BY <2>1, <2>2, <2>4, <2>5 DEF Malicious, Content, CutShort
<1> QED BY <1>1, <1>2, <1>3 DEF Answered, Clean, Excused, CutShort

(* What is answered stays answered: counters only grow, and a file that    *)
(* changes is older than what is on disk from then on.                     *)
LEMMA AnswersStay ==
  ASSUME PipelineInv, CountsInv, ReportInv, NEW f \in summary["discovered"],
         info'[f] = info[f], loaded' = loaded,
         f \in Unjudged => f \in Unjudged',
         \A c \in {"malicious", "failed"} : summary[c] \subseteq summary'[c],
         version'[f] = version[f] /\ Excused(f) => Excused(f)',
         version'[f] \in Int, version[f] <= version'[f]
  PROVE  info'[f].file <= version'[f] /\ Answered(f)'
<1>1. f \in Files /\ version[f] \in Int /\ info[f].file <= version[f] /\ Answered(f)
  BY KnownVersions DEF ReportInv
<1>2. info[f].file \in Int
  <2>1. f < walk_pos
    BY DEF CountsInv
  <2> QED BY <1>1, CacheAssumption
      DEF PipelineInv, PipelineTypeOK, Metadata, Versions, NoInfo
<1>3. Clean(f) => Clean(f)'
  BY <1>1, <1>2 DEF Clean
<1>4. version'[f] # version[f] => Clean(f)'
  BY <1>1, <1>2 DEF Clean
<1> QED BY <1>1, <1>2, <1>3, <1>4 DEF Answered

LEMMA ReportStep ==
  ASSUME PipelineInv, PipelineInv', VerdictInv, CountsInv, RecordedInv, ReportInv,
         [PipelineNext]_all_vars
  PROVE  ReportInv'
<1>0. \A f \in Files : version'[f] \in Int
  BY CacheAssumption DEF PipelineInv, PipelineTypeOK, Versions
<1>1. CASE (\E r \in Roots : StartScan(r)) \/ EndScan \/ CrashScan
  <2>1. summary' = NoCounts
    BY <1>1 DEF StartScan, Start, EndScan, CrashScan, PipelineMemoryLost, CountsInv
  <2> QED BY <2>1 DEF NoCounts, Counters, ReportInv
<1>2. ASSUME NEW f \in Files, HandleMiss(f) \/ HandleHit(f) \/ SkipFile(f)
      PROVE  ReportInv'
  <2>1. /\ UNCHANGED <<version, loaded, judged>> /\ f \notin inflight
        /\ judged[f] = Unread /\ inflight \subseteq inflight'
        /\ f \notin summary["discovered"] \/ SkipFile(f)
        /\ summary'["discovered"] \subseteq summary["discovered"] \cup {f}
        /\ \A c \in {"malicious", "failed"} : summary[c] \subseteq summary'[c]
    <3>1. Visit(f)
      BY <1>2 DEF HandleMiss, HandleHit, SkipFile, CacheMiss, CacheHit, PassOver
    <3>2. f \notin summary["discovered"]
      BY <3>1 DEF Visit, Upcoming, CountsInv, PipelineInv, PipelineTypeOK, TypeOK, Files
    <3> QED BY <1>2, <3>1, <3>2, MetFilesAreNew
        DEF HandleMiss, HandleHit, SkipFile, CacheMiss, CacheHit, PassOver, Count, Counters,
            world, task_vars
  <2>2. ASSUME NEW g \in summary["discovered"], g # f
        PROVE  info'[g].file <= version'[g] /\ Answered(g)'
    <3>1. g \in Files /\ version[g] \in Int
      BY KnownVersions
    <3>2. info'[g] = info[g]
      BY <1>2, <2>2, <3>1
      DEF HandleMiss, HandleHit, SkipFile, task_vars, PipelineInv, PipelineTypeOK
    <3>3. cache_entries'[g] = cache_entries[g]
      BY <1>2, <2>2, <3>1, Updated
      DEF HandleMiss, HandleHit, SkipFile, cache_vars, cache_memory
    <3>4. Excused(g) /\ version'[g] = version[g] => Excused(g)'
      BY <2>1, <3>3 DEF Excused, CutShort
    <3> QED BY <2>1, <3>1, <3>2, <3>4, AnswersStay DEF Unjudged
  <2>3. ASSUME f \in summary'["discovered"]
        PROVE  info'[f].file <= version'[f] /\ Answered(f)'
    <3>1. ASSUME HandleMiss(f) \/ HandleHit(f) PROVE info'[f].file <= version'[f]
      BY <1>0, <2>1, <3>1 DEF HandleMiss, HandleHit, Met, PipelineInv, PipelineTypeOK
    <3>2. ASSUME HandleMiss(f) PROVE Answered(f)'
      BY <2>1, <3>2 DEF HandleMiss, CacheMiss, Answered, Unjudged
    <3>3. CASE SkipFile(f)
      <4>1. f \in summary["discovered"] /\ version[f] \in Int
        BY <1>0, <2>1, <2>3, <3>3 DEF SkipFile
      <4>2. UNCHANGED <<cache_entries, info>>
        BY <3>3 DEF SkipFile, cache_vars, cache_memory, task_vars
      <4>3. Excused(f) /\ version'[f] = version[f] => Excused(f)'
        BY <2>1, <4>2 DEF Excused, CutShort
      <4> QED BY <2>1, <4>1, <4>2, <4>3, AnswersStay DEF Unjudged
    <3> QED BY <1>2, <3>1, <3>2, <3>3, HitIsAnswered
  <2> QED BY <2>1, <2>2, <2>3 DEF ReportInv
<1>3. ASSUME NEW f \in Files, PipelineWork(f) PROVE ReportInv'
  <2>1. /\ UNCHANGED <<version, loaded, info>>
        /\ summary'["discovered"] = summary["discovered"]
        /\ \A c \in {"malicious", "failed"} : summary[c] \subseteq summary'[c]
    BY <1>3
    DEF PipelineWork, FailTask, ScanClean, ScanMalicious, ScanThrows, RecordVerdict, EndTask,
        Count, Counters, world, task_vars, vars, scan_memory
  <2>2. ASSUME NEW g \in summary["discovered"], g \in Unjudged => g \in Unjudged',
               Excused(g) => Excused(g)'
        PROVE  info'[g].file <= version'[g] /\ Answered(g)'
    <3>1. g \in Files /\ version[g] \in Int
      BY KnownVersions
    <3> QED BY <2>1, <2>2, <3>1, AnswersStay
  <2>3. ASSUME f \in summary["discovered"]
        PROVE  info'[f].file <= version'[f] /\ Answered(f)'
    <3>1. CASE FailTask(f)
      BY <2>1, <2>3, <3>1 DEF FailTask, Count, Counters, ReportInv, Answered
    <3>2. CASE ScanClean(f) \/ ScanMalicious(f) \/ ScanThrows(f)
      BY <2>1, <2>3, <3>2, ReadIsAnswered DEF ReportInv
    <3>3. CASE RecordVerdict(f)
      <4>1. judged'[f] = judged[f] /\ judged[f] # Unread
        BY <3>3 DEF RecordVerdict
      <4>2. Excused(f) => Excused(f)'
        BY <2>1, <4>1 DEF Excused, CutShort
      <4> QED BY <2>2, <2>3, <4>1, <4>2 DEF Unjudged
    <3>4. CASE EndTask(f)
      <4>1. /\ f \in recorded /\ judged[f] # Unread /\ judged'[f] = Unread
            /\ cache_entries' = cache_entries
        BY <3>4 DEF EndTask, PipelineInv, TasksAreMet, PipelineTypeOK, cache_vars,
           cache_memory
      <4>2. Excused(f) => Excused(f)'
        BY <2>1, <4>1 DEF Excused, CutShort, RecordedInv
      <4> QED BY <2>2, <2>3, <4>1, <4>2 DEF Unjudged
    <3> QED BY <1>3, <3>1, <3>2, <3>3, <3>4 DEF PipelineWork
  <2>4. ASSUME NEW g \in Unjudged, g # f PROVE g \in Unjudged'
    BY <1>3, <2>4
    DEF PipelineWork, FailTask, ScanClean, ScanMalicious, ScanThrows, RecordVerdict, EndTask,
        CompleteTask, TaskThrows, task_vars, vars, scan_memory, Unjudged, PipelineInv,
        PipelineTypeOK, TypeOK
  <2>5. ASSUME NEW g \in Files \ {f}, Excused(g) PROVE Excused(g)'
    <3>1. judged'[g] = judged[g] /\ cache_entries'[g] = cache_entries[g]
      BY <1>3, Updated
      DEF PipelineWork, FailTask, ScanClean, ScanMalicious, ScanThrows, RecordVerdict,
          EndTask, task_vars, cache_vars, cache_memory, PipelineInv, PipelineTypeOK
    <3> QED BY <2>1, <2>5, <3>1 DEF Excused, CutShort
  <2>6. ASSUME NEW g \in summary["discovered"], g # f
        PROVE  info'[g].file <= version'[g] /\ Answered(g)'
    BY <2>2, <2>4, <2>5, <2>6, KnownVersions
  <2> QED BY <2>1, <2>3, <2>6 DEF ReportInv
<1>4. CASE \/ EndHit \/ EndDiscovery \/ CommitStep \/ WriterStep \/ ReadSignatures
           \/ EditSignatures \/ UNCHANGED all_vars
           \/ \E f \in Files : ModifyFile(f) \/ RestoreFile(f)
  <2>1. UNCHANGED <<summary, inflight, info, judged, cache_entries>>
        /\ (loaded' = loaded \/ summary = NoCounts)
    BY <1>4
    DEF EndHit, CompleteHit, EndDiscovery, FinishDiscovery, CommitStep, WriterStep,
        ReadSignatures, EditSignatures, ModifyFile, RestoreFile, all_vars, pipeline_vars,
        task_vars, vars, scan_memory, CountsInv, CommitGeneration, TellWriterToStop,
        CleanOldGenerations, WriterTakes, WriterWrites, cache_vars, cache_memory, cache_disk
  <2>2. \A f \in Files : version[f] <= version'[f]
    BY <1>4, CacheAssumption
    DEF EndHit, EndDiscovery, CommitStep, WriterStep, ReadSignatures, EditSignatures,
        ModifyFile, RestoreFile, all_vars, pipeline_vars, world, PipelineInv,
        PipelineTypeOK, Versions
  <2>3. CASE summary = NoCounts
    BY <2>1, <2>3 DEF NoCounts, Counters, ReportInv
  <2>4. CASE loaded' = loaded
    <3> SUFFICES ASSUME NEW f \in summary["discovered"]
                 PROVE  info'[f].file <= version'[f] /\ Answered(f)'
      BY <2>1 DEF ReportInv
    <3>1. f \in Files
      BY KnownVersions
    <3>2. version'[f] = version[f] /\ Excused(f) => Excused(f)'
      BY <2>1, <2>4 DEF Excused, CutShort
    <3> QED BY <1>0, <2>1, <2>2, <2>4, <3>1, <3>2, AnswersStay DEF Unjudged
  <2> QED BY <2>1, <2>3, <2>4
<1> QED BY <1>1, <1>2, <1>3, <1>4 DEF PipelineNext, PipelineWalk

(* Whatever else fails, only a read error keeps a scan silent: a           *)
(* discovered file that matches and has not changed since is reported as   *)
(* malicious or failed by the time the scan ends, if its verdict was       *)
(* cached too, or a read error ended its reading; unless the signatures    *)
(* change while they load.                                                 *)
THEOREM MalwareIsReported == ~EditsMidLoad => (PipelineSpec => []SilentOnlyAfterReadError)
<1> SUFFICES ASSUME ~EditsMidLoad PROVE PipelineSpec => []SilentOnlyAfterReadError
  OBVIOUS
<1>1. PipelineInit => ReportInv /\ RecordedInv
  BY CountsInit DEF PipelineInit, NoCounts, Counters, ReportInv, RecordedInv
<1>2. PipelineInv /\ PipelineInv' /\ VerdictInv /\ CountsInv /\ RecordedInv /\ ReportInv
      /\ [PipelineNext]_all_vars => ReportInv' /\ RecordedInv'
  BY ReportStep, RecordedStep
<1>3. PipelineInv /\ WriterInv /\ CountsInv /\ ReportInv => SilentOnlyAfterReadError
  <2> SUFFICES ASSUME PipelineInv, WriterInv, CountsInv, ReportInv, commit # "no",
                      NEW f \in summary["discovered"], Answered(f)
               PROVE  \/ f \in summary["malicious"] \cup summary["failed"]
                      \/ Clean(f)
                      \/ cache_entries[f] # NoEntry /\ cache_entries[f].judged = CutShort(f)
    BY DEF ReportInv, SilentOnlyAfterReadError, Clean
  <2>1. inflight = {}
    BY DEF WriterInv
  <2>2. f \in Files /\ judged[f] = Unread
    BY <2>1, KnownVersions DEF PipelineInv, TasksAreMet
  <2>3. Unread # CutShort(f)
    BY DEF Unread, CutShort
  <2> QED BY <2>1, <2>2, <2>3 DEF Answered, Excused, Unjudged
<1>4. ~EditsMidLoad
  OBVIOUS
<1> QED BY <1>1, <1>2, <1>3, <1>4, WriterInvariant, CountsInvariant, VerdictInvariant, PTL
    DEF PipelineSpec
=============================================================================
