---------------------------- MODULE ResumeScan ----------------------------
(***************************************************************************)
(* Scans that are interrupted and resumed: ScanPipeline::scan around the   *)
(* ResumeManager, with the walker's resume filter, the pool's tasks and    *)
(* crashes.  The thread that walks the tree and the workers interleave at  *)
(* the critical sections of ResumeManager.                                 *)
(***************************************************************************)
EXTENDS ResumeManager

CONSTANTS
  FilesOf,         \* the files below each root
  TasksMayThrow    \* whether an exception can escape a task

ASSUME ScanAssumption ==
  /\ FilesOf \in [Roots -> SUBSET Files]
  /\ TasksMayThrow \in BOOLEAN

VARIABLES
  proc,            \* the scanning process: "down", "walking" or "draining"
  walk_pos,        \* the walker has passed every file before this one
  hit,             \* the cache hit between its addFile and fileCompleted
  inflight,        \* files whose task is queued or running
  accounted        \* for each root, the files dealt with since the last fresh
                   \* begin of its scan, in this run or an interrupted one

scan_memory == <<proc, walk_pos, hit, inflight>>
vars == <<resume_vars, scan_memory, accounted>>

TypeOK ==
  /\ ResumeTypeOK
  /\ proc \in {"down", "walking", "draining"}
  /\ walk_pos \in 1 .. NFiles + 1
  /\ hit \in Files \cup {NoFile}
  /\ inflight \subseteq Files
  /\ accounted \in [Roots -> SUBSET Files]

Init ==
  /\ root \in Roots
  /\ unfinished_files = {}
  /\ next_file = NoFile
  /\ discovery_finished = FALSE
  /\ since_last_save = 0
  /\ checkpoint = Unloadable
  /\ proc = "down"
  /\ walk_pos = 1
  /\ hit = NoFile
  /\ inflight = {}
  /\ accounted = [r \in Roots |-> {}]

AccountFor(f) == accounted' = [accounted EXCEPT ![root] = @ \cup {f}]

(* Mutant: an empty resume point is taken for a position.                  *)
StartAtPoint(r) ==
  /\ proc = "down"
  /\ Begin(r)
  /\ proc' = "walking"
  /\ walk_pos' = next_file'
  /\ accounted' = IF CanResume(r) THEN accounted
                                  ELSE [accounted EXCEPT ![r] = {}]
  /\ UNCHANGED <<hit, inflight>>

(* A process starts: begin(), then the walk, whose filter skips whatever   *)
(* comes before the resume point in depth-first order.                     *)
Start(r) ==
  /\ proc = "down"
  /\ Begin(r)
  /\ proc' = "walking"
  /\ walk_pos' = IF next_file' = NoFile THEN 1 ELSE next_file'
  /\ accounted' = IF CanResume(r) THEN accounted
                                  ELSE [accounted EXCEPT ![r] = {}]
  /\ UNCHANGED <<hit, inflight>>

(* The file the walker reaches next.                                       *)
Upcoming(f) ==
  /\ f \in FilesOf[root]
  /\ f >= walk_pos
  /\ \A g \in FilesOf[root] : g >= walk_pos => g >= f

Visit(f) ==
  /\ proc = "walking"
  /\ hit = NoFile
  /\ Upcoming(f)
  /\ walk_pos' = f + 1
  /\ UNCHANGED proc

(* Mutant: the task is handed over without addFile.                        *)
CacheMissUnrecorded(f) ==
  /\ Visit(f)
  /\ inflight' = inflight \cup {f}
  /\ UNCHANGED <<resume_vars, hit, accounted>>

(* A cache miss: addFile, then the task is handed to the pool.             *)
CacheMiss(f) ==
  /\ Visit(f)
  /\ AddFile(f)
  /\ inflight' = inflight \cup {f}
  /\ UNCHANGED <<hit, accounted>>

(* A cache hit: addFile ...                                                *)
CacheHit(f) ==
  /\ Visit(f)
  /\ AddFile(f)
  /\ hit' = f
  /\ UNCHANGED <<inflight, accounted>>

(* ... and fileCompleted, with a worker's critical sections between them.  *)
CompleteHit ==
  /\ hit # NoFile
  /\ FileCompleted(hit)
  /\ AccountFor(hit)
  /\ hit' = NoFile
  /\ UNCHANGED <<proc, walk_pos, inflight>>

(* The file, or a directory above it, is gone or unreadable: no callback.  *)
PassOver(f) ==
  /\ Visit(f)
  /\ AccountFor(f)
  /\ UNCHANGED <<resume_vars, hit, inflight>>

(* A task ends, with a verdict or with a read error.                       *)
CompleteTask(f) ==
  /\ f \in inflight
  /\ FileCompleted(f)
  /\ AccountFor(f)
  /\ inflight' = inflight \ {f}
  /\ UNCHANGED <<proc, walk_pos, hit>>

(* The worker loop swallows an exception: fileCompleted is never called.   *)
TaskThrows(f) ==
  /\ TasksMayThrow
  /\ f \in inflight
  /\ inflight' = inflight \ {f}
  /\ UNCHANGED <<resume_vars, proc, walk_pos, hit, accounted>>

FinishDiscovery ==
  /\ proc = "walking"
  /\ hit = NoFile
  /\ \A f \in FilesOf[root] : f < walk_pos
  /\ DiscoveryFinished
  /\ proc' = "draining"
  /\ UNCHANGED <<walk_pos, hit, inflight, accounted>>

(* pool.wait() returns and the process ends.                               *)
Finish ==
  /\ proc = "draining"
  /\ inflight = {}
  /\ proc' = "down"
  /\ walk_pos' = 1
  /\ ResumeMemoryLost
  /\ UNCHANGED <<checkpoint, hit, inflight, accounted>>

(* The process is killed, or ends on a fatal signal.                       *)
Crash ==
  /\ proc # "down"
  /\ proc' = "down"
  /\ walk_pos' = 1
  /\ hit' = NoFile
  /\ inflight' = {}
  /\ ResumeMemoryLost
  /\ UNCHANGED <<checkpoint, accounted>>

Walk(f) == CacheMiss(f) \/ CacheHit(f) \/ PassOver(f)
Work(f) == CompleteTask(f) \/ TaskThrows(f)

Next ==
  \/ \E r \in Roots : Start(r)
  \/ \E f \in Files : Walk(f) \/ Work(f)
  \/ CompleteHit
  \/ FinishDiscovery
  \/ Finish
  \/ Crash

Spec == Init /\ [][Next]_vars
-----------------------------------------------------------------------------
(* The walker and the set of unfinished files order the paths alike.       *)
OrdersAgree == \A f, g \in Files : f < g => Key[f] < Key[g]

(* The checkpoint on disk is a safe resume point: whatever a crash follows *)
(* it, the walk that resumes there skips only files that have been dealt   *)
(* with (ResumeManager.h "the safe resume point").                         *)
CheckpointSafe ==
  checkpoint.status = "running" =>
    \A f \in FilesOf[checkpoint.root] :
      f < checkpoint.next => f \in accounted[checkpoint.root]

(* A checkpoint turns "completed" only when every file below the root has  *)
(* been dealt with since the scan began, however often it was interrupted. *)
CompletedOnlyWhenDone ==
  [][checkpoint' # checkpoint /\ checkpoint'.status = "completed"
       => FilesOf[root] \subseteq accounted'[root]]_vars

(* The other direction: a process whose tasks have all ended leaves a      *)
(* completed checkpoint, so that the next scan of the root starts afresh.  *)
DrainedMeansCompleted ==
  proc = "draining" /\ inflight = {} =>
    checkpoint = [status |-> "completed", root |-> root, next |-> NoFile]

(* Within one process the saved resume point of a root never moves back: a *)
(* crash never costs more than the checkpoint before it would have.        *)
SavedAs(c, r) == c.status = "running" /\ c.root = r

ResumePointAdvances ==
  [][proc # "down" /\ SavedAs(checkpoint, root) /\ SavedAs(checkpoint', root)
       => checkpoint'.next >= checkpoint.next]_vars

(* Every scan ends: the drain finishes whatever order the workers take.    *)
EveryScanEnds == proc # "down" ~> proc = "down"
-----------------------------------------------------------------------------
(* The inductive invariant behind CheckpointSafe (proved under OrdersAgree *)
(* in ResumeScanProofs).                                                   *)
Seen == {f \in FilesOf[root] : f < walk_pos}

DownIsBlank ==
  proc = "down" => unfinished_files = {} /\ inflight = {} /\ hit = NoFile

(* Every file the walker has passed is dealt with or still remembered.     *)
SeenIsKept ==
  proc # "down" => Seen \subseteq unfinished_files \cup accounted[root]

UnfinishedIsSeen ==
  /\ unfinished_files \subseteq Seen
  /\ inflight \subseteq unfinished_files
  /\ hit # NoFile => hit \in unfinished_files \ inflight

NextIsSmallest ==
  unfinished_files # {} => next_file \in Smallest(unfinished_files)

DiscoveryIsOver ==
  /\ discovery_finished <=> proc = "draining"
  /\ proc = "draining" => Seen = FilesOf[root] /\ hit = NoFile

SafetyInv ==
  /\ DownIsBlank
  /\ SeenIsKept
  /\ UnfinishedIsSeen
  /\ NextIsSmallest
  /\ DiscoveryIsOver
  /\ CheckpointSafe
=============================================================================
